------------------------- MODULE DistroDetectProofs ------------------------
(***************************************************************************)
(* Proofs about DistroDetect, for any images, ISOs and remounts: its       *)
(* invariant DetectInv is inductive.                                       *)
(***************************************************************************)
EXTENDS DistroDetect, TLAPS

---------------------------------------------------------------------------
(* The detectors. *)

LEMMA DetectorSet == Detectors = {"nixos", "ubuntu", "rhel", "unknown"}
  BY DEF Detectors, Priority

LEMMA FirstIsHighest ==
    ASSUME NEW ds \in SUBSET Detectors, ds # {}
    PROVE  /\ First(ds) \in ds
           /\ \A e \in ds : Priority[e] <= Priority[First(ds)]
  <1>1. \E d \in ds : \A e \in ds : Priority[e] <= Priority[d]
    <2>1. CASE "nixos" \in ds
      BY <2>1, DetectorSet DEF Priority
    <2>2. CASE "nixos" \notin ds /\ "ubuntu" \in ds
      BY <2>2, DetectorSet DEF Priority
    <2>3. CASE {"nixos", "ubuntu"} \cap ds = {} /\ "rhel" \in ds
      BY <2>3, DetectorSet DEF Priority
    <2>4. CASE {"nixos", "ubuntu", "rhel"} \cap ds = {}
      <3>1. ds = {"unknown"}
        BY <2>4, DetectorSet
      <3> QED BY <3>1 DEF Priority
    <2> QED BY <2>1, <2>2, <2>3, <2>4
  <1> QED BY <1>1 DEF First

(* As long as "unknown" has not declined there is a detector left.         *)
LEMMA DetectorLeft ==
    ASSUME TypeOK
    PROVE  /\ Detector \in Detectors /\ Detector \notin declined
           /\ \A e \in Detectors \ declined : Priority[e] <= Priority[Detector]
  <1>1. "unknown" \in Detectors \ declined
    BY DetectorSet DEF TypeOK
  <1> QED BY <1>1, FirstIsHighest DEF Detector

(* The first detector that does not decline is the matching one.           *)
LEMMA FirstMatches ==
    ASSUME TypeOK, NEW img \in Images, CanHandle(Detector, img),
           \A d \in declined : ~CanHandle(d, img)
    PROVE  Detector = Matching(img)
  <1> DEFINE d == Detector
  <1>1. d \in Detectors /\ \A e \in Detectors \ declined :
                                Priority[e] <= Priority[d]
    BY DetectorLeft
  <1>2. \A e \in Detectors : CanHandle(e, img) => Priority[e] <= Priority[d]
    BY <1>1
  <1> HIDE DEF d
  <1>3. CanHandle(d, img)
    BY DEF d
  <1>4. CASE d = "nixos"
    BY <1>3, <1>4 DEF Matching, d
  <1>5. CASE d = "ubuntu"
    <2>1. ~CanHandle("nixos", img)
      BY <1>2, <1>5, DetectorSet DEF Priority
    <2> QED BY <1>3, <1>5, <2>1 DEF Matching, d
  <1>6. CASE d = "rhel"
    <2>1. ~CanHandle("nixos", img) /\ ~CanHandle("ubuntu", img)
      BY <1>2, <1>6, DetectorSet DEF Priority
    <2> QED BY <1>3, <1>6, <2>1 DEF Matching, d
  <1>7. CASE d = "unknown"
    <2>1. /\ ~CanHandle("nixos", img) /\ ~CanHandle("ubuntu", img)
          /\ ~CanHandle("rhel", img)
      BY <1>2, <1>7, DetectorSet DEF Priority
    <2> QED BY <1>7, <2>1 DEF Matching, d
  <1> QED BY <1>1, <1>4, <1>5, <1>6, <1>7, DetectorSet

(* On an image of one kind, any detector that can handle it is the one.    *)
LEMMA OneKindMatches ==
    ASSUME NEW img \in Images, OneKind(img), NEW d \in Detectors,
           d # "unknown", CanHandle(d, img)
    PROVE  d = Matching(img)
  BY DetectorSet DEF OneKind, Matching

(* Without a mount only the fallback matches.                              *)
LEMMA NothingMatches ==
    ASSUME NEW d \in Detectors, CanHandle(d, NotMounted)
    PROVE  d = "unknown"
  BY DetectorSet DEF CanHandle, Files

(* What is mounted is the only image there was, or nothing.                *)
LEMMA ImageIsOnly ==
    ASSUME DetectInv, cur \in Isos, NEW img \in Images, OnlyImage(img)
    PROVE  Image = img \/ (Image = NotMounted /\ NotMounted \in seen[cur])
  BY DEF DetectInv, TurnInv, OnlyImage, Image

(* The information of the detector in hand, if it is the image's own.      *)
LEMMA WantedIsOwn ==
    ASSUME NEW img \in Images, Detector = Matching(img),
           Detector # "unknown",
           Detector = "nixos" => spec = BootJson[img] /\ spec # NoSpec
    PROVE  /\ Wanted.kernel \in FilesOf[img] /\ Wanted.initrd \in FilesOf[img]
              => BootInfoOf(img, cur) = {Wanted}
           /\ ~(Wanted.kernel \in FilesOf[img]
                /\ Wanted.initrd \in FilesOf[img]) => BootInfoOf(img, cur) = {}
  <1>1. BootInfo(Detector, cur, BootJson[img]) = Wanted
    BY DEF BootInfo, Wanted
  <1> QED BY <1>1 DEF BootInfoOf

---------------------------------------------------------------------------
(* Init and the steps. *)

LEMMA DetectInit == Init => DetectInv
  <1> SUFFICES ASSUME Init PROVE DetectInv
    OBVIOUS
  <1>1. TypeOK
    BY ImagesAssumption, BoundsAssumption DEF Init, TypeOK, Isos
  <1>2. TurnInv
    BY DEF Init, TurnInv, Isos
  <1>3. UndisturbedIsExact /\ RemountIsSafe /\ Accounted
    BY DEF Init, UndisturbedIsExact, RemountIsSafe, Accounted, Done, Isos
  <1> QED BY <1>1, <1>2, <1>3 DEF DetectInv

(* An ISO's turn ends with `found`, which is right for the image that was  *)
(* there; the ISOs before it keep what they have.                          *)
LEMMA TurnEnds ==
    ASSUME DetectInv, cur \in Isos, NEW found, NextIso,
           DOMAIN infos' = Isos,
           \A i \in Isos : infos'[i] = IF i = cur THEN found ELSE infos[i],
           failed' = (IF found = {} THEN failed \cup {cur} ELSE failed),
           \A info \in found : info.distro \in Detectors,
           \A img \in Images : seen[cur] = {img} =>
                found = BootInfoOf(img, cur),
           \A img \in Images : OnlyImage(img) /\ OneKind(img) =>
                found \subseteq BootInfoOf(img, cur)
    PROVE  DetectInv'
  <1> USE DEF DetectInv
  <1>0. cur \in 1..NumIsos /\ NumIsos \in Nat /\ cur' = cur + 1
    BY BoundsAssumption DEF Isos, NextIso
  <1>1. TypeOK'
    <2>1. cur' \in 1..NumIsos + 1
      BY <1>0
    <2>2. \A i \in Isos : \A info \in infos'[i] : info.distro \in Detectors
      BY DEF TypeOK
    <2>3. seen' \in [Isos -> SUBSET (Images \cup {NotMounted})]
      BY DEF TypeOK, NextIso
    <2> QED BY <2>1, <2>2, <2>3 DEF TypeOK, NextIso
  <1>2. TurnInv'
    BY <1>0 DEF TurnInv, NextIso, TypeOK
  <1>3. \A i \in Isos : Done(i)' => i = cur \/ Done(i)
    BY <1>0 DEF Done, Isos
  <1>4. \A i \in Isos : i = cur \/ Done(i) => seen'[i] = seen[i]
    BY <1>0 DEF Done, Isos, NextIso
  <1>6. UndisturbedIsExact'
    <2> SUFFICES ASSUME NEW i \in Isos, NEW img \in Images,
                        Done(i)', seen'[i] = {img}
                 PROVE  infos'[i] = BootInfoOf(img, i)
      BY DEF UndisturbedIsExact
    <2> QED BY <1>3, <1>4 DEF UndisturbedIsExact
  <1>7. RemountIsSafe'
    <2> SUFFICES ASSUME NEW i \in Isos, NEW img \in Images, Done(i)',
                        seen'[i] \subseteq {img, NotMounted}, OneKind(img)
                 PROVE  infos'[i] \subseteq BootInfoOf(img, i)
      BY DEF RemountIsSafe
    <2> QED BY <1>3, <1>4 DEF RemountIsSafe, OnlyImage
  <1>8. Accounted'
    <2> SUFFICES ASSUME NEW i \in Isos
                 PROVE  /\ Done(i)' <=> (i \in failed' \/ infos'[i] # {})
                        /\ i \in failed' => infos'[i] = {}
      BY DEF Accounted
    <2>1. Done(i)' <=> i = cur \/ Done(i)
      BY <1>0 DEF Done, Isos
    <2>2. ~Done(cur)
      BY <1>0 DEF Done
    <2> QED BY <2>1, <2>2 DEF Accounted
  <1> QED BY <1>1, <1>2, <1>6, <1>7, <1>8

(* The look goes on at the same ISO: nothing is found yet.                 *)
LEMMA LookGoesOn ==
    ASSUME DetectInv, TypeOK', TurnInv',
           UNCHANGED <<cur, infos, failed>>,
           \A i \in Isos : Done(i) => seen'[i] = seen[i]
    PROVE  DetectInv'
  <1>1. UndisturbedIsExact' /\ RemountIsSafe' /\ Accounted'
    BY DEF DetectInv, UndisturbedIsExact, RemountIsSafe, Accounted, Done
  <1> QED BY <1>1 DEF DetectInv

LEMMA UnbootableEnds ==
    ASSUME DetectInv, cur \in Isos, Unbootable,
           \A img \in Images : seen[cur] = {img} => BootInfoOf(img, cur) = {}
    PROVE  DetectInv'
  <1>1. infos[cur] = {}
    BY BoundsAssumption DEF DetectInv, Accounted, Done, Isos
  <1>2. /\ DOMAIN infos' = Isos
        /\ \A i \in Isos : infos'[i] = IF i = cur THEN {} ELSE infos[i]
    BY <1>1 DEF Unbootable, DetectInv, TypeOK
  <1> QED BY <1>2, TurnEnds DEF Unbootable

LEMMA DeclineKeeps == ASSUME DetectInv, Decline PROVE DetectInv'
  <1> USE DEF DetectInv
  <1>1. Detector \in Detectors /\ Detector # "unknown" /\ cur \in Isos
    BY DetectorLeft, DetectorSet DEF Decline, CanHandle, Looking
  <1>2. TypeOK'
    BY <1>1 DEF Decline, GoOn, environment, TypeOK
  <1>3. TurnInv'
    <2>1. /\ pc' = "detect" /\ UNCHANGED <<mnt, seen, cur>>
          /\ declined' = declined \cup {Detector}
      BY DEF Decline, GoOn, environment
    <2>2. ASSUME NEW img \in Images, OnlyImage(img), NotMounted \notin seen[cur]
          PROVE  \A d \in declined \cup {Detector} : ~CanHandle(d, img)
      <3>1. Image = img
        BY <1>1, <2>2, ImageIsOnly
      <3> QED BY <1>1, <2>2, <3>1 DEF Decline, TurnInv
    <2> QED BY <1>1, <2>1, <2>2 DEF TurnInv, OnlyImage
  <1> QED BY <1>2, <1>3, LookGoesOn DEF Decline, GoOn, environment

(* A step of the extraction that has found what it looked for.             *)
LEMMA StepKeeps ==
    ASSUME DetectInv, cur \in Isos, NEW what \in {"boot.json", "kernel", "initrd"},
           GoOn(what), UNCHANGED declined, spec' \in Specs \cup {NoSpec},
           Detector # "unknown",
           what = "boot.json" => Detector = "nixos",
           \A img \in Images : OnlyImage(img) =>
             /\ CanHandle(Detector, img)
             /\ what # "boot.json" /\ Detector = "nixos" =>
                  spec' = BootJson[img] /\ spec' # NoSpec
             /\ what = "initrd" => Wanted'.kernel \in FilesOf[img]
    PROVE  DetectInv'
  <1> USE DEF DetectInv
  <1>1. TypeOK'
    BY DEF TypeOK, GoOn, environment
  <1>2. TurnInv'
    <2>1. Detector' = Detector
      BY DEF Detector
    <2>2. pc' = what /\ UNCHANGED <<mnt, seen, cur, declined>>
      BY DEF GoOn, environment
    <2>3. /\ mnt[cur] \in seen[cur]
          /\ \A img \in Images : OnlyImage(img) /\ NotMounted \notin seen[cur]
                => \A d \in declined : ~CanHandle(d, img)
      BY DEF TurnInv
    <2> QED BY <2>1, <2>2, <2>3 DEF TurnInv, OnlyImage
  <1> QED BY <1>1, <1>2, LookGoesOn DEF GoOn, environment

LEMMA AcceptKeeps == ASSUME DetectInv, Accept PROVE DetectInv'
  <1> USE DEF DetectInv
  <1>1. cur \in Isos /\ Detector \in Detectors
    BY DetectorLeft DEF Accept, Looking
  <1>2. CASE Detector = "unknown"
    <2>1. ASSUME NEW img \in Images, seen[cur] = {img}
          PROVE  BootInfoOf(img, cur) = {}
      <3>1. OnlyImage(img) /\ NotMounted \notin seen[cur]
        BY <2>1, ImagesAssumption DEF OnlyImage
      <3>2. Image = img
        BY <1>1, <3>1, ImageIsOnly
      <3>3. CanHandle(Detector, img) /\ \A d \in declined : ~CanHandle(d, img)
        BY <1>1, <3>1, <3>2 DEF Accept, TurnInv
      <3> QED BY <1>2, <3>3, FirstMatches DEF BootInfoOf
    <2> QED BY <1>1, <1>2, <2>1, UnbootableEnds DEF Accept
  <1>3. CASE Detector # "unknown"
    <2> DEFINE what == IF Detector = "nixos" THEN "boot.json" ELSE "kernel"
    <2>1. GoOn(what) /\ UNCHANGED <<declined, spec>>
      BY <1>3 DEF Accept
    <2>2. ASSUME NEW img \in Images, OnlyImage(img)
          PROVE  CanHandle(Detector, img)
      <3>1. Image # NotMounted
        BY <1>1, <1>3, NothingMatches DEF Accept
      <3> QED BY <1>1, <2>2, <3>1, ImageIsOnly DEF Accept
    <2>3. spec' \in Specs \cup {NoSpec}
      BY <2>1 DEF TypeOK
    <2>4. what \in {"boot.json", "kernel", "initrd"} /\ what # "initrd"
          /\ (what = "boot.json" <=> Detector = "nixos")
      OBVIOUS
    <2> HIDE DEF what
    <2> QED BY <1>1, <1>3, <2>1, <2>2, <2>3, <2>4, StepKeeps
  <1> QED BY <1>2, <1>3

(* An image that was there all the time is the one that was mounted, and   *)
(* the detector in hand is its own.                                        *)
LEMMA Undisturbed ==
    ASSUME DetectInv, cur \in Isos, pc # "detect",
           NEW img \in Images, seen[cur] = {img}
    PROVE  /\ OnlyImage(img) /\ Image = img /\ Image # NotMounted
           /\ Detector = Matching(img)
  <1>1. OnlyImage(img) /\ NotMounted \notin seen[cur]
    BY ImagesAssumption DEF OnlyImage
  <1>2. Image = img
    BY <1>1, ImageIsOnly
  <1>3. CanHandle(Detector, img) /\ \A d \in declined : ~CanHandle(d, img)
    BY <1>1 DEF DetectInv, TurnInv
  <1> QED BY <1>1, <1>2, <1>3, FirstMatches, ImagesAssumption DEF DetectInv

LEMMA ReadBootspecKeeps == ASSUME DetectInv, ReadBootspec PROVE DetectInv'
  <1> USE DEF DetectInv
  <1>1. cur \in Isos /\ pc = "boot.json" /\ Detector = "nixos"
    BY DEF ReadBootspec, Looking, TurnInv
  <1>2. CASE Image # NotMounted /\ BootJson[Image] # NoSpec
    <2>1. GoOn("kernel") /\ UNCHANGED declined /\ spec' = BootJson[Image]
      BY <1>2 DEF ReadBootspec
    <2>2. \A img \in Images : OnlyImage(img) =>
            CanHandle(Detector, img) /\ Image = img
      BY <1>1, <1>2, ImageIsOnly DEF TurnInv
    <2>3. spec' \in Specs \cup {NoSpec}
      <3>1. Image \in Images
        BY <1>1, <1>2 DEF Image, TypeOK
      <3> QED BY <2>1, <3>1, ImagesAssumption
    <2> QED BY <1>1, <1>2, <2>1, <2>2, <2>3, StepKeeps
  <1>3. CASE ~(Image # NotMounted /\ BootJson[Image] # NoSpec)
    <2>1. ASSUME NEW img \in Images, seen[cur] = {img}
          PROVE  BootInfoOf(img, cur) = {}
      BY <1>1, <1>3, <2>1, Undisturbed DEF BootInfoOf
    <2> QED BY <1>1, <1>3, <2>1, UnbootableEnds DEF ReadBootspec
  <1> QED BY <1>2, <1>3

(* What is found is on the image that was the only one there.              *)
LEMMA FoundIsThere ==
    ASSUME DetectInv, cur \in Isos, NEW path, FindFile(Image, path) # {},
           NEW img \in Images, OnlyImage(img)
    PROVE  path \in FilesOf[img]
  <1>1. path \in Files(Image)
    BY DEF FindFile
  <1>2. Image # NotMounted
    BY <1>1 DEF Files
  <1>3. Image = img
    BY <1>2, ImageIsOnly
  <1> QED BY <1>1, <1>2, <1>3 DEF Files

LEMMA NotFoundIsNotThere ==
    ASSUME NEW path, FindFile(Image, path) = {}, Image # NotMounted
    PROVE  path \notin FilesOf[Image]
  BY DEF FindFile, Files

LEMMA FindKernelKeeps == ASSUME DetectInv, FindKernel PROVE DetectInv'
  <1> USE DEF DetectInv
  <1>1. cur \in Isos /\ pc = "kernel" /\ Detector # "unknown"
    BY DEF FindKernel, Looking, TurnInv
  <1>2. CASE FindFile(Image, Wanted.kernel) # {}
    <2>1. GoOn("initrd") /\ UNCHANGED <<declined, spec>>
      BY <1>2 DEF FindKernel
    <2>2. Wanted' = Wanted
      BY <2>1 DEF Wanted, Detector, GoOn, environment, BootInfo
    <2>3. spec' \in Specs \cup {NoSpec}
      BY <2>1 DEF TypeOK
    <2>4. \A img \in Images : OnlyImage(img) =>
             /\ CanHandle(Detector, img)
             /\ Detector = "nixos" => spec' = BootJson[img] /\ spec' # NoSpec
             /\ Wanted'.kernel \in FilesOf[img]
      BY <1>1, <1>2, <2>1, <2>2, FoundIsThere DEF TurnInv
    <2> QED BY <1>1, <2>1, <2>3, <2>4, StepKeeps
  <1>3. CASE FindFile(Image, Wanted.kernel) = {}
    <2>1. ASSUME NEW img \in Images, seen[cur] = {img}
          PROVE  BootInfoOf(img, cur) = {}
      <3>1. /\ Detector = Matching(img) /\ Wanted.kernel \notin FilesOf[img]
            /\ Detector = "nixos" => spec = BootJson[img] /\ spec # NoSpec
        BY <1>1, <1>3, <2>1, Undisturbed, NotFoundIsNotThere DEF TurnInv
      <3> QED BY <1>1, <3>1, WantedIsOwn
    <2> QED BY <1>1, <1>3, <2>1, UnbootableEnds DEF FindKernel
  <1> QED BY <1>2, <1>3

LEMMA FindInitrdKeeps == ASSUME DetectInv, FindInitrd PROVE DetectInv'
  <1> USE DEF DetectInv
  <1>1. /\ cur \in Isos /\ pc = "initrd" /\ Detector # "unknown"
        /\ Detector \in Detectors
    BY DetectorLeft DEF FindInitrd, Looking, TurnInv
  <1>2. \A img \in Images : OnlyImage(img) =>
          /\ CanHandle(Detector, img) /\ Wanted.kernel \in FilesOf[img]
          /\ Detector = "nixos" => spec = BootJson[img] /\ spec # NoSpec
    BY <1>1 DEF TurnInv
  <1>3. CASE FindFile(Image, Wanted.initrd) # {}
    <2>1. Bootable(Wanted)
      BY <1>3 DEF FindInitrd
    <2>2. \A img \in Images : OnlyImage(img) => Wanted.initrd \in FilesOf[img]
      BY <1>1, <1>3, FoundIsThere
    <2>3. \A img \in Images : seen[cur] = {img} =>
            {Wanted} = BootInfoOf(img, cur)
      BY <1>1, <1>2, <2>2, Undisturbed, WantedIsOwn
    <2>4. \A img \in Images : OnlyImage(img) /\ OneKind(img) =>
            {Wanted} \subseteq BootInfoOf(img, cur)
      BY <1>1, <1>2, <2>2, OneKindMatches, WantedIsOwn
    <2>5. /\ DOMAIN infos' = Isos
          /\ \A i \in Isos : infos'[i] = IF i = cur THEN {Wanted} ELSE infos[i]
      BY <2>1 DEF Bootable, TypeOK
    <2>6. Wanted.distro \in Detectors
      BY <1>1 DEF Wanted, BootInfo
    <2> QED BY <1>1, <2>1, <2>3, <2>4, <2>5, <2>6, TurnEnds DEF Bootable
  <1>4. CASE FindFile(Image, Wanted.initrd) = {}
    <2>1. ASSUME NEW img \in Images, seen[cur] = {img}
          PROVE  BootInfoOf(img, cur) = {}
      <3>1. Detector = Matching(img) /\ Wanted.initrd \notin FilesOf[img]
        BY <1>1, <1>4, <2>1, Undisturbed, NotFoundIsNotThere
      <3>2. Detector = "nixos" => spec = BootJson[img] /\ spec # NoSpec
        BY <1>1, <1>2, <2>1, Undisturbed
      <3> QED BY <1>1, <3>1, <3>2, WantedIsOwn
    <2> QED BY <1>1, <1>4, <2>1, UnbootableEnds DEF FindInitrd
  <1> QED BY <1>3, <1>4

LEMMA RemountKeeps ==
    ASSUME DetectInv, NEW i \in Isos, NEW img \in Images \cup {NotMounted},
           Remount(i, img)
    PROVE  DetectInv'
  <1> USE DEF DetectInv, Remount
  <1>1. TypeOK'
    BY BoundsAssumption DEF TypeOK
  <1>2. TurnInv'
    <2> SUFFICES ASSUME cur \in Isos PROVE TurnInv'
      BY DEF TurnInv
    <2>1. seen[cur] \subseteq seen'[cur] /\ mnt'[cur] \in seen'[cur]
      BY DEF TypeOK, TurnInv
    <2>2. \A im \in Images : OnlyImage(im)' => OnlyImage(im)
      BY <2>1 DEF OnlyImage
    <2>3. Detector' = Detector /\ Wanted' = Wanted
      BY DEF Detector, Wanted, BootInfo
    <2> QED BY <2>1, <2>2, <2>3 DEF TurnInv
  <1>3. \A j \in Isos : Done(j) => seen'[j] = seen[j]
    BY BoundsAssumption DEF Done, TypeOK, Isos
  <1> QED BY <1>1, <1>2, <1>3, LookGoesOn

LEMMA DetectNext == DetectInv /\ [Next]_vars => DetectInv'
  <1> SUFFICES ASSUME DetectInv, [Next]_vars PROVE DetectInv'
    OBVIOUS
  <1>1. CASE Detect
    BY <1>1, DeclineKeeps, AcceptKeeps, ReadBootspecKeeps, FindKernelKeeps,
       FindInitrdKeeps DEF Detect
  <1>2. CASE UNCHANGED vars
    BY <1>2 DEF vars, DetectInv, TypeOK, TurnInv, OnlyImage, Detector, Wanted,
       BootInfo, UndisturbedIsExact, RemountIsSafe, Accounted, Done
  <1> QED BY <1>1, <1>2, RemountKeeps DEF Next

LEMMA DetectAlways == Spec => []DetectInv
  BY DetectInit, DetectNext, PTL DEF Spec

---------------------------------------------------------------------------
(* The results. *)

(* Every variable keeps its type; the fallback detector never declines, so *)
(* detect() always has one to ask.                                         *)
THEOREM TypeCorrect == Spec => []TypeOK
  <1>1. DetectInv => TypeOK
    BY DEF DetectInv
  <1> QED BY <1>1, DetectAlways, PTL

(* The detectors, asked one by one, find exactly what is on an image whose *)
(* mount stays (distro/detector.rs:104-115).                               *)
THEOREM StepwiseIsExact == Spec => []UndisturbedIsExact
  <1>1. DetectInv => UndisturbedIsExact
    BY DEF DetectInv
  <1> QED BY <1>1, DetectAlways, PTL

(* A mount that comes and goes never makes an image pass for another one.  *)
THEOREM RemountsAreSafe == Spec => []RemountIsSafe
  <1>1. DetectInv => RemountIsSafe
    BY DEF DetectInv
  <1> QED BY <1>1, DetectAlways, PTL

(* Every ISO that was looked at is an entry or a placeholder (D41).        *)
THEOREM AllAccounted == Spec => []Accounted
  <1>1. DetectInv => Accounted
    BY DEF DetectInv
  <1> QED BY <1>1, DetectAlways, PTL

=============================================================================
