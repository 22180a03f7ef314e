----------------------------- MODULE PxeService -----------------------------
(***************************************************************************)
(* The orchestration of pxe-boot-prepare: invocations of the binary        *)
(* (`prepare`, `cleanup`, `status`) that may overlap, the lock that        *)
(* prepare() takes, the kernel's loop devices and mounts the invocations   *)
(* share, the raw-ISO tree and the GRUB menus they leave behind, and the   *)
(* operator who replaces ISO files meanwhile.                              *)
(*                                                                         *)
(* One action is one command, system call or other step between two awaits *)
(* of packages/pxe-boot-prepare/src/lib.rs and iso/mount.rs.  An ISO file  *)
(* is <<name, version>>: a version is one inode the operator put under the *)
(* name.  Names are numbered in path order, the order prepare() follows.   *)
(***************************************************************************)
EXTENDS Naturals, Sequences, FiniteSets

CONSTANTS
    Procs,          \* invocations of the binary that can run at a time
    NoProc,         \* nobody: the lock file is not locked
    Commands,       \* the subcommands in use
    NumIsos,        \* ISO file names
    MaxVersion,     \* bound: how many files the operator puts under a name
    Replaced,       \* bound: the names that can have more than one file
    NumLoops,       \* loop devices the kernel can hand out
    Interfaces,     \* the DHCP interfaces with a GRUB menu of their own
    NumOverrides,   \* per-MAC menus of each interface
    Unbootable,     \* the files no detector extracts boot information from
    MaxFaults       \* bound: crashes and failing system calls in a behaviour

Isos == 1..NumIsos
Files == Isos \X (1..MaxVersion)
NoFile == <<0, 0>>
Loops == 1..NumLoops
MenuFiles == Interfaces \X (0..NumOverrides)

ASSUME ProcsAssumption == NoProc \notin Procs
ASSUME CommandsAssumption == Commands \subseteq {"prepare", "cleanup", "status"}
ASSUME BoundsAssumption ==
    /\ Replaced \subseteq Isos
    /\ NumIsos \in Nat /\ MaxVersion \in Nat \ {0}
    /\ NumLoops \in Nat /\ NumOverrides \in Nat /\ MaxFaults \in Nat

VARIABLES
    present,    \* the ISO names in the scanned folders
    version,    \* the version last put under each name
    loops,      \* the file each loop device is attached to, or NoFile
    mounts,     \* the stack of loop devices mounted on each mount point
    tree,       \* the names linked in the raw-ISO serving tree
    menu,       \* the grub.cfg files: <<interface, 0>> and its overrides
    lock,       \* who holds .prepare.lock
    proc,       \* the local state of each invocation
    faults,     \* crashes and failures so far
    settled     \* history: the interfaces whose menus the last prepare()
                \* wrote in full, while nothing was unmounted or mounted
                \* over since

vars == <<present, version, loops, mounts, tree, menu, lock, proc, faults,
          settled>>
folder == <<present, version>>
kernel == <<loops, mounts>>
served == <<tree, menu, settled>>

---------------------------------------------------------------------------
(* Local state of an invocation. *)

WriteProgress == [file : 0..(NumOverrides + 1), open : BOOLEAN, ok : BOOLEAN]

Labels == {"idle", "lock", "discover", "tree", "mount", "verify", "umount",
           "pick", "attach", "inspect", "detect", "menus", "listdirs",
           "sweep", "sweepUmount"}

ProcState ==
    [pc : Labels,
     todo : SUBSET Isos,                    \* what the current loop has left
     cur : 0..NumIsos,                      \* the ISO in hand
     dev : 0..NumLoops,                     \* the loop device `mount` chose
     cmd : Commands \cup {"none"},
     mounted : SUBSET Isos,                 \* mounted_isos
     infos : [Isos -> Files \cup {NoFile}], \* iso_infos: the file detected
     failed : SUBSET Isos,                  \* failed_isos
     writes : [Interfaces -> WriteProgress]]

Idle ==
    [pc |-> "idle", todo |-> {}, cur |-> 0, dev |-> 0, cmd |-> "none",
     mounted |-> {}, infos |-> [i \in Isos |-> NoFile], failed |-> {},
     writes |-> [n \in Interfaces |->
                   [file |-> 0, open |-> FALSE, ok |-> TRUE]]]

MenuContent ==
    [state : {"absent", "torn", "whole"},
     entries : [Isos -> Files \cup {NoFile}],   \* a bootable entry's file
     placeholders : SUBSET Isos]

NoMenu == [state |-> "absent", entries |-> Idle.infos, placeholders |-> {}]
TornMenu == [NoMenu EXCEPT !.state = "torn"]

(* Least(S) is the first name of S in path order. *)
Least(S) == CHOOSE x \in S : \A y \in S : x <= y

At(p, label) == proc[p].pc = label
Become(p, s) == proc' = [proc EXCEPT ![p] = s]

(* A system call of p fails, or p dies: the budget of faults shrinks. *)
Fault == faults < MaxFaults /\ faults' = faults + 1
NoFault == faults' = faults

(* What a reader of the mount point sees: the topmost mount. *)
Content(i) ==
    IF mounts[i] = <<>> THEN NoFile ELSE loops[mounts[i][Len(mounts[i])]]

Bootable(f) == f \in Files \ Unbootable

Rendered(p) == [state |-> "whole", entries |-> proc[p].infos,
                placeholders |-> proc[p].failed]

Init ==
    /\ present \in SUBSET Isos
    /\ version = [i \in Isos |-> IF i \in present THEN 1 ELSE 0]
    /\ loops = [d \in Loops |-> NoFile]
    /\ mounts = [i \in Isos |-> <<>>]
    /\ tree = {}
    /\ menu = [m \in MenuFiles |-> NoMenu]
    /\ lock = NoProc
    /\ proc = [p \in Procs |-> Idle]
    /\ faults = 0
    /\ settled = {}

---------------------------------------------------------------------------
(* Starting, the lock, and discovery. *)

(* Someone runs the binary: systemd, or an operator at a shell. *)
Start(p) ==
    /\ At(p, "idle")
    /\ \E c \in Commands :
         Become(p, [proc[p] EXCEPT !.cmd = c,
                                   !.pc = CASE c = "prepare" -> "lock"
                                            [] c = "status" -> "discover"
                                            [] c = "cleanup" -> "listdirs"])
    /\ UNCHANGED <<folder, kernel, served, lock, faults>>

(* Mutant: the guard is bound to `_` and dropped at once. *)
AcquireLockDropped(p) ==
    /\ At(p, "lock")
    /\ lock = NoProc
    /\ Become(p, [proc[p] EXCEPT !.pc = "discover"])
    /\ UNCHANGED <<folder, kernel, served, lock, faults>>

(* Mutant: try_lock's error is ignored. *)
AcquireLockIgnoringHolder(p) ==
    /\ At(p, "lock")
    /\ lock' = p
    /\ Become(p, [proc[p] EXCEPT !.pc = "discover"])
    /\ UNCHANGED <<folder, kernel, served, faults>>

AcquireLock(p) ==
    /\ At(p, "lock")
    /\ lock = NoProc
    /\ lock' = p
    /\ Become(p, [proc[p] EXCEPT !.pc = "discover"])
    /\ UNCHANGED <<folder, kernel, served, faults>>

(* try_lock fails: the run reports the error and ends at once. *)
LockBusy(p) ==
    /\ At(p, "lock")
    /\ lock # NoProc
    /\ Become(p, Idle)
    /\ UNCHANGED <<folder, kernel, served, lock, faults>>

Unlock(p) == lock' = IF lock = p THEN NoProc ELSE lock

(* The ISOs of the scanned folders; an entry that cannot be read is left out. *)
Discovered(found) ==
    /\ found \subseteq present
    /\ IF found = present THEN NoFault ELSE Fault

(* No ISO at all: prepare() returns before it touches anything. *)
DiscoverNothing(p) ==
    /\ At(p, "discover")
    /\ Discovered({})
    /\ Become(p, Idle)
    /\ Unlock(p)
    /\ UNCHANGED <<folder, kernel, served>>

Discover(p) ==
    /\ At(p, "discover")
    /\ \E found \in (SUBSET present) \ {{}} :
         /\ Discovered(found)
         /\ Become(p, [proc[p] EXCEPT
                         !.todo = found,
                         !.pc = IF proc[p].cmd = "prepare"
                                THEN "tree" ELSE "mount"])
    /\ UNCHANGED <<folder, kernel, served, lock>>

(* ServeTree::rebuild, whose steps module ServeTree has.  It fails before   *)
(* the old tree is touched, or while it is removed; prepare() only warns.   *)
RebuildTree(p) ==
    /\ At(p, "tree")
    /\ \/ tree' = proc[p].todo /\ NoFault
       \/ tree' \in SUBSET tree /\ Fault
    /\ Become(p, [proc[p] EXCEPT !.pc = "mount"])
    /\ UNCHANGED <<folder, kernel, menu, settled, lock>>

---------------------------------------------------------------------------
(* IsoMounter::mount, which prepare() calls for one ISO after the other and *)
(* status() for each ISO it reports on.                                     *)

MountSucceeds(p) ==
    Become(p, IF proc[p].cmd = "prepare"
              THEN [proc[p] EXCEPT !.pc = "mount", !.dev = 0,
                                   !.todo = @ \ {proc[p].cur},
                                   !.mounted = @ \cup {proc[p].cur}]
              ELSE [proc[p] EXCEPT !.pc = "inspect", !.dev = 0])

(* Mutant: an ISO that cannot be mounted is tried again. *)
MountFailsRetrying(p) ==
    Become(p, [proc[p] EXCEPT !.pc = "mount", !.dev = 0])

(* The caller logs the error and goes on with the next ISO. *)
MountFails(p) ==
    Become(p, [proc[p] EXCEPT !.pc = "mount", !.dev = 0,
                              !.todo = @ \ {proc[p].cur}])

(* Mutant: whatever is_mounted says, the mount point is taken for free. *)
CheckMountedBlind(p) ==
    /\ At(p, "mount")
    /\ proc[p].todo # {}
    /\ Become(p, [proc[p] EXCEPT !.cur = Least(proc[p].todo), !.pc = "pick"])
    /\ UNCHANGED <<folder, kernel, served, lock, faults>>

(* create_dir_all, then is_mounted: `mountpoint -q`.  Any exit status but   *)
(* 0, and death by a signal, mean "not mounted" to it; only a directory     *)
(* that cannot be made or a command that cannot be started is an error.     *)
CheckMounted(p) ==
    /\ At(p, "mount")
    /\ proc[p].todo # {}
    /\ LET i == Least(proc[p].todo)
       IN \/ /\ Become(p, [proc[p] EXCEPT
                              !.cur = i,
                              !.pc = IF mounts[i] = <<>> THEN "pick" ELSE "verify"])
             /\ NoFault
          \/ /\ mounts[i] # <<>>                 \* misread as not mounted
             /\ Become(p, [proc[p] EXCEPT !.cur = i, !.pc = "pick"])
             /\ Fault
          \/ /\ Become(p, [proc[p] EXCEPT !.cur = i, !.todo = @ \ {i}])
             /\ Fault
    /\ UNCHANGED <<folder, kernel, served, lock>>

(* verify_mount takes the first line of /proc/mounts for the mount point,   *)
(* the bottom of the stack, and compares the path of the loop device's      *)
(* backing file with the ISO's: a replaced file is " (deleted)" there.      *)
VerifiedAs(i) ==
    /\ mounts[i] # <<>>
    /\ i \in present
    /\ loops[Head(mounts[i])] = <<i, version[i]>>

(* Mutant: whatever is mounted there is taken for the ISO. *)
VerifyTrustingMount(p) ==
    /\ At(p, "verify")
    /\ IF mounts[proc[p].cur] # <<>>
       THEN MountSucceeds(p)
       ELSE Become(p, [proc[p] EXCEPT !.pc = "umount"])
    /\ UNCHANGED <<folder, kernel, served, lock, faults>>

(* Mutant: the wrong ISO is mounted over instead of unmounted first. *)
VerifyMountingOver(p) ==
    /\ At(p, "verify")
    /\ IF VerifiedAs(proc[p].cur)
       THEN MountSucceeds(p)
       ELSE Become(p, [proc[p] EXCEPT !.pc = "pick"])
    /\ UNCHANGED <<folder, kernel, served, lock, faults>>

Verify(p) ==
    /\ At(p, "verify")
    /\ \/ /\ VerifiedAs(proc[p].cur)
          /\ MountSucceeds(p)
          /\ NoFault
       \/ /\ ~VerifiedAs(proc[p].cur)
          /\ Become(p, [proc[p] EXCEPT !.pc = "umount"])
          /\ NoFault
       \/ MountFails(p) /\ Fault          \* /proc/mounts cannot be read
    /\ UNCHANGED <<folder, kernel, served, lock>>

(* umount(8) takes the topmost mount off and frees its loop device, unless  *)
(* another mount uses the device too.                                       *)
PopMount(i) ==
    LET d == mounts[i][Len(mounts[i])]
        rest == SubSeq(mounts[i], 1, Len(mounts[i]) - 1)
        shared == \/ \E k \in DOMAIN rest : rest[k] = d
                  \/ \E j \in Isos \ {i} :
                       \E k \in DOMAIN mounts[j] : mounts[j][k] = d
    IN /\ mounts' = [mounts EXCEPT ![i] = rest]
       /\ loops' = IF shared THEN loops ELSE [loops EXCEPT ![d] = NoFile]
       /\ settled' = {}

Umount(p) ==
    /\ At(p, "umount")
    /\ \/ /\ mounts[proc[p].cur] # <<>>
          /\ PopMount(proc[p].cur)
          /\ Become(p, [proc[p] EXCEPT !.pc = "pick"])
          /\ NoFault
       \/ /\ mounts[proc[p].cur] = <<>>         \* "not mounted"
          /\ MountFails(p)
          /\ NoFault /\ UNCHANGED <<kernel, settled>>
       \/ /\ mounts[proc[p].cur] # <<>>         \* "target is busy"
          /\ MountFails(p)
          /\ Fault /\ UNCHANGED <<kernel, settled>>
    /\ UNCHANGED <<folder, tree, menu, lock>>

FreeLoops == {d \in Loops : loops[d] = NoFile}

(* The file is mounted on its mount point already. *)
AlreadyMounted(i) ==
    \E k \in DOMAIN mounts[i] : loops[mounts[i][k]] = <<i, version[i]>>

(* mount(8) -o loop refuses to mount the same file there once more, and     *)
(* asks the kernel for a free loop device: the lowest one.                  *)
PickLoop(p) ==
    LET able == FreeLoops # {} /\ ~AlreadyMounted(proc[p].cur)
    IN /\ At(p, "pick")
       /\ \/ /\ able
             /\ Become(p, [proc[p] EXCEPT !.dev = Least(FreeLoops),
                                          !.pc = "attach"])
             /\ NoFault
          \/ ~able /\ MountFails(p) /\ NoFault
          \/ able /\ MountFails(p) /\ Fault
       /\ UNCHANGED <<folder, kernel, served, lock>>

(* A mount on top of another one hides what the menus were written from. *)
MountLoop(p) ==
    /\ mounts' = [mounts EXCEPT ![proc[p].cur] = Append(@, proc[p].dev)]
    /\ settled' = IF mounts[proc[p].cur] = <<>> THEN settled ELSE {}

(* It attaches the file to the device and mounts it.  When another mount(8) *)
(* attached the device in between, this one fails or, as prepare()'s        *)
(* comment on sequential mounting reports, mounts the other's content.      *)
AttachLoop(p) ==
    /\ At(p, "attach")
    /\ \/ /\ proc[p].cur \in present
          /\ loops[proc[p].dev] = NoFile
          /\ loops' = [loops EXCEPT
                         ![proc[p].dev] = <<proc[p].cur, version[proc[p].cur]>>]
          /\ MountLoop(p)
          /\ MountSucceeds(p)
       \/ /\ proc[p].cur \in present
          /\ loops[proc[p].dev] # NoFile
          /\ MountLoop(p)
          /\ MountSucceeds(p)
          /\ UNCHANGED loops
       \/ /\ proc[p].cur \notin present \/ loops[proc[p].dev] # NoFile
          /\ MountFails(p)
          /\ UNCHANGED <<kernel, settled>>
    /\ UNCHANGED <<folder, tree, menu, lock, faults>>

(* status() reports what the mounted ISO is; nothing changes. *)
Inspect(p) ==
    /\ At(p, "inspect")
    /\ Become(p, [proc[p] EXCEPT !.todo = @ \ {proc[p].cur},
                                 !.pc = "mount"])
    /\ UNCHANGED <<folder, kernel, served, lock, faults>>

(* No ISO is left to mount. *)
MountsDone(p) ==
    /\ At(p, "mount")
    /\ proc[p].todo = {}
    /\ Become(p, IF proc[p].cmd = "prepare"
                 THEN [proc[p] EXCEPT !.todo = proc[p].mounted, !.pc = "detect"]
                 ELSE Idle)
    /\ UNCHANGED <<folder, kernel, served, lock, faults>>

---------------------------------------------------------------------------
(* Detection, and the GRUB menus. *)

(* Mutant: a mounted ISO that cannot be prepared is left out silently. *)
DetectDroppingFailures(p) ==
    /\ At(p, "detect")
    /\ proc[p].todo # {}
    /\ LET i == Least(proc[p].todo)
       IN \/ /\ Bootable(Content(i))
             /\ Become(p, [proc[p] EXCEPT !.todo = @ \ {i},
                                          !.infos[i] = Content(i)])
             /\ NoFault
          \/ /\ Become(p, [proc[p] EXCEPT !.todo = @ \ {i}])
             /\ IF Bootable(Content(i)) THEN Fault ELSE NoFault
    /\ UNCHANGED <<folder, kernel, served, lock>>

(* Mutant: boot information is taken from the file in the folder. *)
DetectFromFolder(p) ==
    /\ At(p, "detect")
    /\ proc[p].todo # {}
    /\ LET i == Least(proc[p].todo)
       IN /\ Become(p, [proc[p] EXCEPT !.todo = @ \ {i},
                                       !.infos[i] = <<i, version[i]>>])
          /\ NoFault
    /\ UNCHANGED <<folder, kernel, served, lock>>

(* Distribution detection and extraction of the boot files, both read from  *)
(* the mount point.  An ISO for which either fails gets a placeholder.      *)
Detect(p) ==
    /\ At(p, "detect")
    /\ proc[p].todo # {}
    /\ LET i == Least(proc[p].todo)
       IN \/ /\ Bootable(Content(i))
             /\ Become(p, [proc[p] EXCEPT !.todo = @ \ {i},
                                          !.infos[i] = Content(i)])
             /\ NoFault
          \/ /\ Become(p, [proc[p] EXCEPT !.todo = @ \ {i},
                                          !.failed = @ \cup {i}])
             /\ IF Bootable(Content(i)) THEN Fault ELSE NoFault
    /\ UNCHANGED <<folder, kernel, served, lock>>

(* The autoinstall seeds and warnings come between detection and the menus; *)
(* prepare() never stops for them.                                          *)
DetectDone(p) ==
    /\ At(p, "detect")
    /\ proc[p].todo = {}
    /\ Become(p, [proc[p] EXCEPT !.pc = "menus"])
    /\ UNCHANGED <<folder, kernel, served, lock, faults>>

(* Mutant: one override too many is written. *)
WritingPastEnd(p, n) ==
    /\ At(p, "menus")
    /\ proc[p].writes[n].ok
    /\ proc[p].writes[n].file <= NumOverrides + 1

Writing(p, n) ==
    /\ At(p, "menus")
    /\ proc[p].writes[n].ok
    /\ proc[p].writes[n].file <= NumOverrides

(* tokio::fs::write opens the file with O_TRUNC ... *)
OpenMenuFile(p, n) ==
    /\ Writing(p, n)
    /\ ~proc[p].writes[n].open
    /\ menu' = [menu EXCEPT ![<<n, proc[p].writes[n].file>>] = TornMenu]
    /\ settled' = settled \ {n}
    /\ Become(p, [proc[p] EXCEPT !.writes[n].open = TRUE])
    /\ UNCHANGED <<folder, kernel, tree, lock, faults>>

(* ... and then writes the text, the same for the menu and its overrides    *)
(* but for the default entry.                                               *)
WriteMenuFile(p, n) ==
    /\ Writing(p, n)
    /\ proc[p].writes[n].open
    /\ menu' = [menu EXCEPT ![<<n, proc[p].writes[n].file>>] = Rendered(p)]
    /\ Become(p, [proc[p] EXCEPT !.writes[n].open = FALSE,
                                 !.writes[n].file = @ + 1])
    /\ UNCHANGED <<folder, kernel, tree, settled, lock, faults>>

(* Mutant: a menu file that cannot be written is skipped, not its interface. *)
FailMenuFileGoingOn(p, n) ==
    /\ Writing(p, n)
    /\ Fault
    /\ Become(p, [proc[p] EXCEPT !.writes[n].open = FALSE,
                                 !.writes[n].file = @ + 1])
    /\ UNCHANGED <<folder, kernel, served, lock>>

(* The directory, the file or the text cannot be written: the interface's   *)
(* remaining files are left alone.                                          *)
FailMenuFile(p, n) ==
    /\ Writing(p, n)
    /\ Fault
    /\ Become(p, [proc[p] EXCEPT !.writes[n].ok = FALSE])
    /\ UNCHANGED <<folder, kernel, served, lock>>

(* Every interface is through: prepare() returns Ok and drops the lock. *)
Finish(p) ==
    /\ At(p, "menus")
    /\ \A n \in Interfaces : ~Writing(p, n)
    /\ settled' = {n \in Interfaces : proc[p].writes[n].ok}
    /\ Become(p, Idle)
    /\ Unlock(p)
    /\ UNCHANGED <<folder, kernel, tree, menu, faults>>

---------------------------------------------------------------------------
(* cleanup(), which takes no lock: unmount_all. *)

(* The directory listing: no mount point that is in use is missing from it. *)
ListMountPoints(p) ==
    /\ At(p, "listdirs")
    /\ \E S \in SUBSET Isos :
         /\ {i \in Isos : mounts[i] # <<>>} \subseteq S
         /\ Become(p, [proc[p] EXCEPT !.todo = S, !.pc = "sweep"])
    /\ UNCHANGED <<folder, kernel, served, lock, faults>>

(* is_mounted for the next entry, in whatever order readdir has.  A mount   *)
(* misread as "not mounted" is passed over; a `mountpoint` that cannot be   *)
(* started ends the cleanup.                                                *)
SweepCheck(p) ==
    /\ At(p, "sweep")
    /\ \/ \E i \in proc[p].todo :
            \/ /\ mounts[i] # <<>>
               /\ Become(p, [proc[p] EXCEPT !.cur = i, !.pc = "sweepUmount"])
               /\ NoFault
            \/ /\ Become(p, [proc[p] EXCEPT !.todo = @ \ {i}])
               /\ IF mounts[i] = <<>> THEN NoFault ELSE Fault
       \/ /\ proc[p].todo # {}
          /\ Become(p, Idle)
          /\ Fault
    /\ UNCHANGED <<folder, kernel, served, lock>>

SweepUmountSucceeds(p) ==
    /\ mounts[proc[p].cur] # <<>>
    /\ PopMount(proc[p].cur)
    /\ Become(p, [proc[p] EXCEPT !.todo = @ \ {proc[p].cur},
                                 !.pc = "sweep"])
    /\ NoFault

(* Mutant: an unmount that failed is tried again until it succeeds. *)
SweepUmountRetrying(p) ==
    /\ At(p, "sweepUmount")
    /\ \/ SweepUmountSucceeds(p)
       \/ /\ mounts[proc[p].cur] = <<>>
          /\ UNCHANGED <<proc, kernel, settled, faults>>
    /\ UNCHANGED <<folder, tree, menu, lock>>

(* One umount for the entry; a failure is logged and skipped. *)
SweepUmount(p) ==
    /\ At(p, "sweepUmount")
    /\ \/ SweepUmountSucceeds(p)
       \/ /\ Become(p, [proc[p] EXCEPT !.todo = @ \ {proc[p].cur},
                                       !.pc = "sweep"])
          /\ IF mounts[proc[p].cur] = <<>> THEN NoFault ELSE Fault
          /\ UNCHANGED <<kernel, settled>>
    /\ UNCHANGED <<folder, tree, menu, lock>>

SweepDone(p) ==
    /\ At(p, "sweep")
    /\ proc[p].todo = {}
    /\ Become(p, Idle)
    /\ UNCHANGED <<folder, kernel, served, lock, faults>>

---------------------------------------------------------------------------
(* The environment. *)

(* The process dies with the mount(8) or umount(8) it runs, as systemd's    *)
(* control-group kill does it; the OS drops its lock.                       *)
Crash(p) ==
    /\ ~At(p, "idle")
    /\ Fault
    /\ Become(p, Idle)
    /\ Unlock(p)
    /\ IF At(p, "tree") THEN tree' \in SUBSET tree ELSE UNCHANGED tree
    /\ UNCHANGED <<folder, kernel, menu, settled>>

(* The operator moves a new file over the name, or deletes it. *)
PutIso(i) ==
    /\ version[i] < IF i \in Replaced THEN MaxVersion ELSE 1
    /\ version' = [version EXCEPT ![i] = @ + 1]
    /\ present' = present \cup {i}
    /\ UNCHANGED <<kernel, served, lock, proc, faults>>

RemoveIso(i) ==
    /\ i \in present
    /\ present' = present \ {i}
    /\ UNCHANGED <<version, kernel, served, lock, proc, faults>>

MountStep(p) ==
    \/ CheckMounted(p) \/ Verify(p) \/ Umount(p) \/ PickLoop(p) \/ AttachLoop(p)
    \/ Inspect(p) \/ MountsDone(p)

MenuStep(p) ==
    \/ Detect(p) \/ DetectDone(p) \/ Finish(p)
    \/ \E n \in Interfaces :
         OpenMenuFile(p, n) \/ WriteMenuFile(p, n) \/ FailMenuFile(p, n)

CleanupStep(p) ==
    ListMountPoints(p) \/ SweepCheck(p) \/ SweepUmount(p) \/ SweepDone(p)

Step(p) ==
    \/ AcquireLock(p) \/ LockBusy(p) \/ DiscoverNothing(p) \/ Discover(p)
    \/ RebuildTree(p) \/ MountStep(p) \/ MenuStep(p) \/ CleanupStep(p)

Next ==
    \/ \E p \in Procs : Start(p) \/ Step(p) \/ Crash(p)
    \/ \E i \in Isos : PutIso(i) \/ RemoveIso(i)

Spec == Init /\ [][Next]_vars

(* Every command and system call returns; nobody has to start anything.     *)
FairSpec == Spec /\ \A p \in Procs : WF_vars(Step(p))

---------------------------------------------------------------------------
(* Properties. *)

TypeOK ==
    /\ present \subseteq Isos
    /\ version \in [Isos -> 0..MaxVersion]
    /\ loops \in [Loops -> Files \cup {NoFile}]
    /\ mounts \in [Isos -> Seq(Loops)]
    /\ tree \subseteq Isos
    /\ menu \in [MenuFiles -> MenuContent]
    /\ lock \in Procs \cup {NoProc}
    /\ proc \in [Procs -> ProcState]
    /\ faults \in 0..MaxFaults
    /\ settled \subseteq Interfaces

Inside(s) == s.cmd = "prepare" /\ s.pc \notin {"idle", "lock"}
InPrepare(p) == Inside(proc[p])

(* The lock is held exactly as long as its holder is inside prepare():      *)
(* two prepare() runs never overlap, and no early return, error or crash    *)
(* leaves the lock behind (acquire_prepare_lock and its File's lifetime).   *)
LockExclusive == \A p \in Procs : InPrepare(p) <=> lock = p

(* Who can mount at a time: prepare() under its lock, and any status().     *)
Mounters == IF "status" \in Commands THEN Cardinality(Procs) ELSE 1

(* Mounts do not pile up on a mount point: one for each invocation that can *)
(* mount at a time, so one where only prepare() runs, and one more for each *)
(* time a failing mountpoint(1) was read as "not mounted" (among `faults`). *)
(* umount takes off one mount only, so a pile would never go away by itself.*)
StacksBounded == \A i \in Isos : Len(mounts[i]) <= Mounters + faults

(* What lies above on a mount point is newer: the same file is never        *)
(* mounted twice there, no earlier file covers a later one, and a mount     *)
(* point whose first /proc/mounts line verify_mount finds current shows the *)
(* current file although other lines may follow.                            *)
StacksAscend ==
    \A i \in Isos : \A k, m \in DOMAIN mounts[i] :
        k < m => loops[mounts[i][k]][2] < loops[mounts[i][m]][2]

(* A mount point shows a file that was put under its own ISO's name, never  *)
(* another ISO's: the cross-contamination that two mount(8) racing for one  *)
(* loop device produced (comment on sequential mounting in prepare()).      *)
MountsShowOwnIso ==
    \A i \in Isos : \A k \in DOMAIN mounts[i] :
        loops[mounts[i][k]] \in {i} \X (1..MaxVersion)

(* What detection found still is what the mount point shows while the menus *)
(* are written from it, many awaits later.                                  *)
DetectionCurrent ==
    \A p \in Procs : InPrepare(p) =>
        \A i \in Isos :
            proc[p].infos[i] # NoFile => Content(i) = proc[p].infos[i]

(* A menu the last prepare() wrote boots: each entry's kernel and initrd    *)
(* paths were read from the file that is mounted now.                       *)
MenusServable ==
    \A n \in settled : \A i \in Isos :
        LET f == menu[<<n, 0>>].entries[i]
        IN f # NoFile => Content(i) = f

(* "the two variants can never drift in content": for an interface that     *)
(* prepare() reported as written, every per-MAC override is whole and lists *)
(* what the interface's own menu lists.                                     *)
VariantsAgree ==
    \A n \in settled : \A k \in 0..NumOverrides :
        /\ menu[<<n, k>>].state = "whole"
        /\ menu[<<n, k>>] = menu[<<n, 0>>]

(* An ISO that was mounted gets an entry or a placeholder, one of the two,  *)
(* whatever failed for it or for another ISO (D41).                         *)
NoIsoVanishes ==
    \A p \in Procs : At(p, "menus") =>
        LET listed == {i \in Isos : proc[p].infos[i] # NoFile}
        IN /\ proc[p].mounted = listed \cup proc[p].failed
           /\ listed \cap proc[p].failed = {}

(* Only a run that holds the lock changes the tree or a menu: neither       *)
(* cleanup, nor status, nor a run that found the lock taken.                *)
ServedUnderLock ==
    [][<<tree, menu>>' # <<tree, menu>> =>
        \E p \in Procs :
            lock = p /\ InPrepare(p) /\ lock' \in {p, NoProc}]_vars

(* While a run is inside prepare(), nobody else mounts or unmounts ISOs: "a  *)
(* `systemctl restart` landing mid-run" included.                           *)
HolderAlone ==
    [][\A p \in Procs :
          lock = p /\ kernel' # kernel => proc'[p] # proc[p]]_vars

(* How far a command has come: the loop it is in, and the stage of the loop *)
(* body for the ISO in hand.                                                *)
Phase ==
    [idle |-> 0, lock |-> 1, discover |-> 2, tree |-> 3, mount |-> 4,
     verify |-> 4, umount |-> 4, pick |-> 4, attach |-> 4, inspect |-> 4,
     detect |-> 5, menus |-> 6, listdirs |-> 1, sweep |-> 2, sweepUmount |-> 2]
Stage ==
    [mount |-> 1, verify |-> 2, umount |-> 3, pick |-> 4, attach |-> 5,
     inspect |-> 6, sweep |-> 1, sweepUmount |-> 2]

(* The files of an interface, from v to w: given up, or the next one.       *)
Writes(v, w) ==
    \/ v.ok /\ ~w.ok
    \/ v.ok = w.ok /\ v.file < w.file
    \/ v.ok = w.ok /\ v.file = w.file /\ ~v.open /\ w.open

(* The command is over, in a later loop, has less left to do in this one,   *)
(* is at a later stage of it, or has written more.                          *)
Advances(s, r) ==
    /\ s.pc # "idle"
    /\ \/ r = Idle
       \/ r.cmd = s.cmd /\ Phase[s.pc] < Phase[r.pc]
       \/ /\ r.cmd = s.cmd /\ Phase[s.pc] = Phase[r.pc]
          /\ r.todo \subseteq s.todo
          /\ \/ r.todo # s.todo
             \/ {s.pc, r.pc} \subseteq DOMAIN Stage /\ Stage[s.pc] < Stage[r.pc]
             \/ /\ s.pc = "menus" /\ r.writes # s.writes
                /\ \A n \in Interfaces :
                     r.writes[n] = s.writes[n] \/ Writes(s.writes[n], r.writes[n])

(* No step of a command takes it back, or leaves it where it is: whatever   *)
(* fails and whatever the others do to the mounts meanwhile, nothing is     *)
(* tried twice.  It is why EveryCommandEnds.                                *)
EveryStepAdvances ==
    [][\A p \in Procs : Step(p) => Advances(proc[p], proc'[p])]_vars

(* A command that was started ends: none waits for another one, and none    *)
(* repeats a mount or unmount that keeps failing.                           *)
EveryCommandEnds == \A p \in Procs : []<>At(p, "idle")

Current ==
    LET good == {i \in present : Bootable(<<i, version[i]>>)}
    IN /\ tree = present
       /\ \A i \in present : Content(i) = <<i, version[i]>>
       /\ \A m \in MenuFiles :
            /\ menu[m].state = "whole"
            /\ menu[m].placeholders = present \ good
            /\ menu[m].entries =
                 [i \in Isos |->
                    IF i \in good THEN <<i, version[i]>> ELSE NoFile]

(* Whatever crashes, failures and half-written files came before: once they *)
(* end and the folder rests, going on running prepare() brings the mounts,  *)
(* the tree and every menu to what the folder holds.  An empty folder is    *)
(* the exception: prepare() returns early and leaves all of it as it was.   *)
Converges ==
    ([]<>\E p \in Procs : At(p, "lock")) =>
        <>[](lock = NoProc /\ present # {} => Current)

---------------------------------------------------------------------------
(* The inductive invariants behind the safety properties. *)

Mounting == {"mount", "verify", "umount", "pick", "attach"}
Sweeping == {"listdirs", "sweep", "sweepUmount"}
HasIso == {"verify", "umount", "pick", "attach", "inspect", "sweepUmount"}

(* Which command is where in the code, and what it has in hand there. *)
LocalControl(s) ==
    /\ s.pc = "idle" => s = Idle
    /\ s.pc \in {"lock", "tree", "detect", "menus"} => s.cmd = "prepare"
    /\ s.pc \in Mounting \cup {"discover"} => s.cmd \in {"prepare", "status"}
    /\ s.pc = "inspect" => s.cmd = "status"
    /\ s.pc \in Sweeping => s.cmd = "cleanup"
    /\ s.pc \in HasIso => s.cur \in Isos
    /\ s.pc = "attach" => s.dev \in Loops

Control ==
    /\ \A i \in present : version[i] \in 1..MaxVersion
    /\ \A p \in Procs : LocalControl(proc[p])

BaseInv == TypeOK /\ Control /\ LockExclusive

(* The ISO in hand is one of those that are left.                           *)
InHand == \A p \in Procs : proc[p].pc \in HasIso => proc[p].cur \in proc[p].todo

(* A run that is about to mount has room for one mount more, and mounts     *)
(* what is newer than all there is, with a loop device that is still free.  *)
MountReady(s) ==
    /\ s.pc \in {"pick", "attach"} => Len(mounts[s.cur]) <= faults
    /\ s.pc = "attach" =>
         /\ loops[s.dev] = NoFile
         /\ ~AlreadyMounted(s.cur)

(* What is mounted is a file that was put under the name so far. *)
MountsKnown ==
    \A i \in Isos : \A k \in DOMAIN mounts[i] :
        loops[mounts[i][k]] \in {i} \X (1..version[i])

(* Inductive where only the lock's holder mounts: without status(). *)
MountInv ==
    /\ \A i \in Isos : Len(mounts[i]) <= 1 + faults
    /\ StacksAscend
    /\ MountsKnown
    /\ \A p \in Procs : MountReady(proc[p])

(* iso_infos and failed_isos share out what was mounted, as far as          *)
(* detection has come; before it they are empty.                            *)
Listed(s) == {i \in Isos : s.infos[i] # NoFile}

Collected(s) ==
    /\ s.pc \notin {"detect", "menus"} => s.infos = Idle.infos /\ s.failed = {}
    /\ s.pc # "menus" => s.writes = Idle.writes
    /\ s.pc = "detect" => s.todo \subseteq s.mounted
    /\ s.pc = "detect" => Listed(s) \cup s.failed = s.mounted \ s.todo
    /\ s.pc = "menus" => Listed(s) \cup s.failed = s.mounted
    /\ Listed(s) \cap s.failed = {}

(* The menu files behind a run are as it renders them, and the one it has   *)
(* open belongs to no settled interface.                                    *)
WrittenBehind(s) ==
    \A n \in Interfaces :
        /\ s.writes[n].open => n \notin settled
        /\ \A k \in 0..NumOverrides : k < s.writes[n].file =>
             menu[<<n, k>>] = [state |-> "whole", entries |-> s.infos,
                               placeholders |-> s.failed]

MenuInv ==
    /\ \A p \in Procs : Collected(proc[p]) /\ WrittenBehind(proc[p])
    /\ VariantsAgree

=============================================================================
