---------------------------- MODULE DistroDetect ---------------------------
(***************************************************************************)
(* Step 3 of prepare() (packages/pxe-boot-prepare/src/lib.rs:179-243):     *)
(* which distribution is on each mounted ISO, and where its kernel and     *)
(* initrd are (distro/*.rs, iso/info.rs).  One action is one look at the   *)
(* mount point.  Between two looks the mount may go away, as cleanup takes *)
(* no lock, or come back, perhaps with another image, as status mounts     *)
(* what it finds unmounted.                                                *)
(***************************************************************************)
EXTENDS Naturals, Sequences

CONSTANTS
    NumIsos,        \* length of mounted_isos
    Images,         \* what can be on an ISO
    FilesOf,        \* the paths of its files as they are on it, but for those
                    \* that find_file() looks for: in lower case
    BootJson,       \* what its boot.json says; NoSpec: absent or malformed
    ArchMarkers,    \* the architecture names in each ISO's file name
    NoSpec, NotMounted, None,   \* placeholders
    MaxMounts       \* bound: mounts and unmounts by others

Isos == 1..NumIsos
Specs == [kernel : STRING, initrd : STRING, cpu : STRING, init : Images]

ASSUME ImagesAssumption ==
    /\ FilesOf \in [Images -> SUBSET STRING]
    /\ BootJson \in [Images -> Specs \cup {NoSpec}]
    /\ NoSpec \notin Specs /\ NotMounted \notin Images /\ None \notin Images
ASSUME BoundsAssumption == NumIsos \in Nat /\ MaxMounts \in Nat

VARIABLES
    mnt,        \* the image on each ISO's mount point
    cur,        \* the ISO in hand; NumIsos + 1 when all are done
    pc,         \* what is looked at next
    declined,   \* the detectors that cannot handle what they saw
    spec,       \* NixOsDetector: the bootspec read
    infos,      \* iso_infos: the boot information found, by ISO
    failed,     \* failed_isos
    mounts,
    seen        \* history: what was on each mount point during its turn

vars == <<mnt, cur, pc, declined, spec, infos, failed, mounts, seen>>
environment == <<mnt, mounts, seen>>

---------------------------------------------------------------------------
(* DetectorRegistry *)

Priority == [nixos |-> 60, ubuntu |-> 55, rhel |-> 50, unknown |-> 0]
Detectors == DOMAIN Priority

(* Mutant: sort_by_key without Reverse. *)
LowestFirst(ds) ==
    CHOOSE d \in ds : \A e \in ds : Priority[d] <= Priority[e]

(* register() keeps the detectors sorted by descending priority, so that   *)
(* detect() asks the highest that is left.  No two have the same.          *)
First(ds) ==
    CHOOSE d \in ds : \A e \in ds : Priority[e] <= Priority[d]

Squashfs == "nix-store.squashfs"
ServerSquashfs == "casper/ubuntu-server-minimal.squashfs"
RedHatKey == "RPM-GPG-KEY-redhat-release"

Files(img) == IF img = NotMounted THEN {} ELSE FilesOf[img]

(* Mutant: UnknownDetector does not match what is not mounted. *)
CanHandleOnlyMounted(d, img) ==
    CASE d = "nixos"   -> Squashfs \in Files(img)
      [] d = "ubuntu"  -> ServerSquashfs \in Files(img)
      [] d = "rhel"    -> RedHatKey \in Files(img)
      [] d = "unknown" -> Files(img) # {}

CanHandle(d, img) ==
    CASE d = "nixos"   -> Squashfs \in Files(img)
      [] d = "ubuntu"  -> ServerSquashfs \in Files(img)
      [] d = "rhel"    -> RedHatKey \in Files(img)
      [] d = "unknown" -> TRUE

---------------------------------------------------------------------------
(* Extraction. *)

(* Mutant: any file whose name starts like the one asked for will do.      *)
FindAny(img, path) == Files(img)

(* find_file: the whole relative path has to match, whatever its case.     *)
(* (The detectors' own files are looked for by their exact names.)         *)
FindFile(img, path) == Files(img) \cap {path}

KernelPath == [ubuntu |-> "casper/vmlinuz", rhel |-> "images/pxeboot/vmlinuz"]
InitrdPath == [ubuntu |-> "casper/initrd",
               rhel |-> "images/pxeboot/initrd.img"]

Markers == << <<"x86_64", "x86_64">>, <<"amd64", "x86_64">>,
              <<"aarch64", "aarch64">>, <<"arm64", "aarch64">>,
              <<"ppc64le", "ppc64le">>, <<"s390x", "s390x">>,
              <<"i686", "i686">>, <<"i386", "i686">> >>

(* detect_architecture_from_file_name: the first marker the name contains. *)
ArchitectureOf(i) ==
    LET found == SelectSeq(Markers, LAMBDA m : m[1] \in ArchMarkers[i])
    IN IF found = <<>> THEN None ELSE found[1][2]

(* resolve_on_iso: an absolute store path is below boot/ on the ISO.       *)
OnIso(path) == "boot" \o path

BootInfo(d, i, s) ==
    IF d = "nixos"
    THEN [distro |-> d, kernel |-> OnIso(s.kernel), initrd |-> OnIso(s.initrd),
          arch |-> s.cpu, init |-> s.init]
    ELSE [distro |-> d, kernel |-> KernelPath[d], initrd |-> InitrdPath[d],
          arch |-> ArchitectureOf(i), init |-> None]

---------------------------------------------------------------------------
(* The loop over the mounted ISOs. *)

Init ==
    /\ mnt \in [Isos -> Images] /\ mounts = 0
    /\ seen = [i \in Isos |-> IF i = 1 THEN {mnt[1]} ELSE {}]
    /\ cur = 1 /\ pc = "detect" /\ declined = {} /\ spec = NoSpec
    /\ infos = [i \in Isos |-> {}] /\ failed = {}

Looking(what) == cur \in Isos /\ pc = what
Image == mnt[cur]
Detector == First(Detectors \ declined)

(* On to the next ISO.                                                     *)
NextIso ==
    /\ cur' = cur + 1 /\ pc' = "detect" /\ declined' = {} /\ spec' = NoSpec
    /\ seen' = [i \in Isos |-> IF i = cur + 1 THEN {mnt[i]} ELSE seen[i]]
    /\ UNCHANGED <<mnt, mounts>>

(* Mutant: the warning is logged and nothing else. *)
DropUnbootable == NextIso /\ UNCHANGED <<infos, failed>>

Unbootable == NextIso /\ failed' = failed \cup {cur} /\ UNCHANGED infos

Bootable(info) ==
    NextIso /\ infos' = [infos EXCEPT ![cur] = {info}] /\ UNCHANGED failed

GoOn(what) == pc' = what /\ UNCHANGED <<environment, cur, infos, failed>>

(* detect(): the first detector that says yes.                             *)
Decline ==
    /\ Looking("detect") /\ ~CanHandle(Detector, Image)
    /\ declined' = declined \cup {Detector}
    /\ GoOn("detect") /\ UNCHANGED spec

(* UnknownDetector::extract_boot_info is an error.                         *)
Accept ==
    /\ Looking("detect") /\ CanHandle(Detector, Image)
    /\ IF Detector = "unknown"
       THEN Unbootable
       ELSE /\ GoOn(IF Detector = "nixos" THEN "boot.json" ELSE "kernel")
            /\ UNCHANGED <<declined, spec>>

ReadBootspec ==
    /\ Looking("boot.json")
    /\ IF Image # NotMounted /\ BootJson[Image] # NoSpec
       THEN spec' = BootJson[Image] /\ UNCHANGED declined /\ GoOn("kernel")
       ELSE Unbootable

Wanted == BootInfo(Detector, cur, spec)

(* Mutant: the kernel is waited for. *)
AwaitKernel ==
    /\ Looking("kernel") /\ FindFile(Image, Wanted.kernel) # {}
    /\ GoOn("initrd") /\ UNCHANGED <<declined, spec>>

FindKernel ==
    /\ Looking("kernel")
    /\ IF FindFile(Image, Wanted.kernel) # {}
       THEN GoOn("initrd") /\ UNCHANGED <<declined, spec>>
       ELSE Unbootable

FindInitrd ==
    /\ Looking("initrd")
    /\ IF FindFile(Image, Wanted.initrd) # {}
       THEN Bootable(Wanted)
       ELSE Unbootable

Detect == Decline \/ Accept \/ ReadBootspec \/ FindKernel \/ FindInitrd

(* The mount point changes hands: cleanup, or status.                      *)
Remount(i, img) ==
    /\ mounts < MaxMounts /\ mounts' = mounts + 1
    /\ (mnt[i] = NotMounted) # (img = NotMounted)
    /\ mnt' = [mnt EXCEPT ![i] = img]
    /\ seen' = IF i = cur THEN [seen EXCEPT ![i] = @ \cup {img}] ELSE seen
    /\ UNCHANGED <<cur, pc, declined, spec, infos, failed>>

Next ==
    Detect \/ \E i \in Isos : \E img \in Images \cup {NotMounted} :
                Remount(i, img)

Spec == Init /\ [][Next]_vars

(* File-system calls return.  Nobody has to remount.                       *)
FairSpec == Spec /\ WF_vars(Detect)

---------------------------------------------------------------------------
(* Properties. *)

TypeOK ==
    /\ mnt \in [Isos -> Images \cup {NotMounted}]
    /\ cur \in 1..NumIsos + 1 /\ mounts \in 0..MaxMounts
    /\ pc \in {"detect", "boot.json", "kernel", "initrd"}
    /\ declined \subseteq Detectors \ {"unknown"} /\ spec \in Specs \cup {NoSpec}
    /\ DOMAIN infos = Isos
    /\ \A i \in Isos : \A info \in infos[i] : info.distro \in Detectors
    /\ failed \subseteq Isos
    /\ seen \in [Isos -> SUBSET (Images \cup {NotMounted})]

(* What is on an image, looked at as a whole: NixOS before Ubuntu before   *)
(* RHEL, and bootable if all that the distribution needs is there.         *)
Matching(img) ==
    IF CanHandle("nixos", img) THEN "nixos"
    ELSE IF CanHandle("ubuntu", img) THEN "ubuntu"
    ELSE IF CanHandle("rhel", img) THEN "rhel" ELSE "unknown"

BootInfoOf(img, i) ==
    LET d == Matching(img)
        info == BootInfo(d, i, BootJson[img])
    IN IF \/ d = "unknown" \/ (d = "nixos" /\ BootJson[img] = NoSpec)
       THEN {}
       ELSE IF {info.kernel, info.initrd} \subseteq FilesOf[img]
            THEN {info} ELSE {}

Done(i) == i < cur

(* distro/detector.rs:104-115 and the extract_boot_info()s: what is found  *)
(* step by step on a mount that stays is what is there as a whole.         *)
UndisturbedIsExact ==
    \A i \in Isos : \A img \in Images :
        Done(i) /\ seen[i] = {img} => infos[i] = BootInfoOf(img, i)

OneKind(img) ==
    \A d, e \in Detectors \ {"unknown"} :
        CanHandle(d, img) /\ CanHandle(e, img) => d = e

(* A mount that goes away and comes back at any moment may make a bootable *)
(* image fail, but never makes an image pass for what it is not.           *)
RemountIsSafe ==
    \A i \in Isos : \A img \in Images :
        /\ Done(i) /\ seen[i] \subseteq {img, NotMounted} /\ OneKind(img)
        => infos[i] \subseteq BootInfoOf(img, i)

(* lib.rs:183-187, D41: no mounted ISO vanishes from the menu, and none is *)
(* in it twice, as an entry and as a placeholder.                          *)
Accounted ==
    \A i \in Isos :
        /\ Done(i) <=> (i \in failed \/ infos[i] # {})
        /\ i \in failed => infos[i] = {}

(* Whatever happens to the mounts, detection ends.                         *)
DetectionEnds == <>(cur = NumIsos + 1)

---------------------------------------------------------------------------
(* The inductive invariant: what the looks so far say of an image that was *)
(* the only one on the mount point during this ISO's turn.                 *)
OnlyImage(img) == seen[cur] \subseteq {img, NotMounted}

TurnInv ==
    cur \in Isos =>
        /\ mnt[cur] \in seen[cur]
        /\ pc = "boot.json" => Detector = "nixos"
        /\ pc # "detect" => Detector # "unknown"
        /\ \A img \in Images : OnlyImage(img) =>
             /\ pc # "detect" => CanHandle(Detector, img)
             /\ pc \in {"kernel", "initrd"} /\ Detector = "nixos" =>
                  spec = BootJson[img] /\ spec # NoSpec
             /\ pc = "initrd" => Wanted.kernel \in FilesOf[img]
             /\ NotMounted \notin seen[cur] =>
                  \A d \in declined : ~CanHandle(d, img)

DetectInv ==
    TypeOK /\ TurnInv /\ UndisturbedIsExact /\ RemountIsSafe /\ Accounted

=============================================================================
