-------------------------- MODULE PxeServiceProofs --------------------------
(* Proofs about PxeService, for every value of its constants. *)
EXTENDS PxeService, TLAPS, WellFoundedInduction, SequenceTheorems

---------------------------------------------------------------------------
(* Least is the least element of a nonempty set of naturals. *)
LEMMA LeastIsElement ==
    ASSUME NEW S, S \subseteq Nat, S # {}
    PROVE  Least(S) \in S
<1>1. PICK x \in S : \A y \in S : <<y, x>> \notin OpToRel(<, Nat)
  BY NatLessThanWellFounded, WFMin
<1>2. \A y \in S : ~(y < x)
  BY <1>1 DEF OpToRel
<1>3. \A y \in S : x <= y
  BY <1>2
<1> QED
  BY <1>3 DEF Least

LEMMA IdleTypes ==
    /\ Idle \in ProcState
    /\ NoMenu \in MenuContent
    /\ TornMenu \in MenuContent
<1> USE BoundsAssumption
<1>1. Idle \in ProcState
  BY DEF Idle, ProcState, Labels, WriteProgress, Isos, Files, NoFile
<1>2. NoMenu \in MenuContent
  BY DEF NoMenu, MenuContent, Idle, Isos, Files, NoFile
<1> QED
  BY <1>1, <1>2 DEF TornMenu, MenuContent

LEMMA InitBase == Init => BaseInv
<1> SUFFICES ASSUME Init PROVE BaseInv
  OBVIOUS
<1> USE BoundsAssumption, ProcsAssumption
<1>1. TypeOK
  <2>1. version \in [Isos -> 0..MaxVersion]
    BY DEF Init, Isos
  <2>2. mounts \in [Isos -> Seq(Loops)]
    BY DEF Init
  <2> QED
    BY <2>1, <2>2, IdleTypes DEF Init, TypeOK
<1>2. Control
  BY DEF Init, Control, LocalControl, Idle, Mounting, Sweeping, HasIso, Isos
<1>3. LockExclusive
  BY DEF Init, LockExclusive, InPrepare, Inside, Idle
<1> QED
  BY <1>1, <1>2, <1>3 DEF BaseInv

---------------------------------------------------------------------------
(* A step of p to the local state r keeps the base invariant if r is a      *)
(* possible local state and the lock agrees with it.                        *)
LEMMA LocalStep ==
    ASSUME BaseInv, NEW p \in Procs, NEW r \in ProcState, Become(p, r),
           LocalControl(r), UNCHANGED folder,
           Inside(r) <=> lock' = p,
           \A q \in Procs \ {p} : lock' = q <=> lock = q
    PROVE  /\ proc' \in [Procs -> ProcState]
           /\ Control'
           /\ LockExclusive'
<1>1. proc \in [Procs -> ProcState]
  BY DEF BaseInv, TypeOK
<1>2. proc' \in [Procs -> ProcState]
  BY <1>1 DEF Become
<1>3. proc'[p] = r /\ \A q \in Procs \ {p} : proc'[q] = proc[q]
  BY <1>1 DEF Become
<1>4. Control'
  <2>1. \A q \in Procs : LocalControl(proc'[q])
    <3> SUFFICES ASSUME NEW q \in Procs PROVE LocalControl(proc'[q])
      OBVIOUS
    <3>1. CASE q = p
      BY <3>1, <1>3
    <3>2. CASE q # p
      <4>1. LocalControl(proc[q])
        BY DEF BaseInv, Control
      <4> QED
        BY <3>2, <1>3, <4>1
    <3> QED
      BY <3>1, <3>2
  <2>2. \A i \in present' : version'[i] \in 1..MaxVersion
    BY DEF BaseInv, Control, folder
  <2> QED
    BY <2>1, <2>2 DEF Control
<1>5. LockExclusive'
  <2> SUFFICES ASSUME NEW q \in Procs PROVE Inside(proc'[q]) <=> lock' = q
    BY DEF LockExclusive, InPrepare
  <2>1. CASE q = p
    BY <2>1, <1>3
  <2>2. CASE q # p
    <3>1. Inside(proc[q]) <=> lock = q
      BY DEF BaseInv, LockExclusive, InPrepare
    <3> QED
      BY <2>2, <1>3, <3>1
  <2> QED
    BY <2>1, <2>2
<1> QED
  BY <1>2, <1>4, <1>5

LEMMA LocalFacts ==
    ASSUME BaseInv, NEW p \in Procs
    PROVE  /\ proc[p] \in ProcState
           /\ LocalControl(proc[p])
           /\ Inside(proc[p]) <=> lock = p
           /\ p # NoProc
           /\ lock \in Procs \cup {NoProc}
BY ProcsAssumption DEF BaseInv, TypeOK, Control, LockExclusive, InPrepare

(* What is left to show of a step of p that leaves the lock alone, or takes *)
(* or drops it, once its effect on the shared state is known to be typed.   *)
LEMMA StepBase ==
    ASSUME BaseInv, NEW p \in Procs, NEW r \in ProcState, Become(p, r),
           LocalControl(r), UNCHANGED folder,
           \/ lock' = lock /\ (Inside(r) <=> Inside(proc[p]))
           \/ lock = NoProc /\ lock' = p /\ Inside(r)
           \/ Unlock(p) /\ ~Inside(r),
           loops' \in [Loops -> Files \cup {NoFile}],
           mounts' \in [Isos -> Seq(Loops)],
           tree' \subseteq Isos,
           menu' \in [MenuFiles -> MenuContent],
           faults' \in 0..MaxFaults,
           settled' \subseteq Interfaces
    PROVE  BaseInv'
<1>1. lock' \in Procs \cup {NoProc} /\ (Inside(r) <=> lock' = p)
  BY LocalFacts DEF Unlock
<1>2. \A q \in Procs \ {p} : lock' = q <=> lock = q
  BY LocalFacts, ProcsAssumption DEF Unlock
<1>3. proc' \in [Procs -> ProcState] /\ Control' /\ LockExclusive'
  BY <1>1, <1>2, LocalStep
<1>4. present' \subseteq Isos /\ version' \in [Isos -> 0..MaxVersion]
  BY DEF BaseInv, TypeOK, folder
<1> QED
  BY <1>1, <1>3, <1>4 DEF BaseInv, TypeOK

(* A fault within the budget. *)
LEMMA FaultTyped ==
    ASSUME BaseInv, Fault \/ NoFault
    PROVE  faults' \in 0..MaxFaults
BY BoundsAssumption DEF BaseInv, TypeOK, Fault, NoFault

(* The steps before the first mount. *)
LEMMA EarlyBase ==
    ASSUME BaseInv, NEW p \in Procs,
           \/ Start(p) \/ AcquireLock(p) \/ LockBusy(p)
           \/ DiscoverNothing(p) \/ Discover(p) \/ RebuildTree(p)
    PROVE  BaseInv'
<1> USE BoundsAssumption, CommandsAssumption
<1> USE DEF Mounting, Sweeping, HasIso, Labels
<1>a. /\ proc[p] \in ProcState /\ LocalControl(proc[p])
      /\ Inside(proc[p]) <=> lock = p
  BY LocalFacts
<1>b. TypeOK
  BY DEF BaseInv
<1>1. CASE Start(p)
  <2>1. PICK c \in Commands :
          Become(p, [proc[p] EXCEPT !.cmd = c,
                                    !.pc = CASE c = "prepare" -> "lock"
                                             [] c = "status" -> "discover"
                                             [] c = "cleanup" -> "listdirs"])
    BY <1>1 DEF Start
  <2> DEFINE l == CASE c = "prepare" -> "lock"
                    [] c = "status" -> "discover"
                    [] c = "cleanup" -> "listdirs"
             r == [proc[p] EXCEPT !.cmd = c, !.pc = l]
  <2>2. c \in {"prepare", "cleanup", "status"}
    OBVIOUS
  <2>3. r \in ProcState
    BY <1>a, <2>2 DEF ProcState
  <2>4. LocalControl(r) /\ ~Inside(r) /\ ~Inside(proc[p])
    BY <1>1, <1>a, <2>2 DEF ProcState, LocalControl, Inside, Start, At, Idle
  <2>5. Become(p, r)
    BY <2>1
  <2> HIDE DEF r
  <2> QED
    BY <1>1, <1>b, <2>3, <2>4, <2>5, StepBase
    DEF Start, TypeOK, folder, kernel, served
<1>2. CASE AcquireLock(p)
  <2> DEFINE r == [proc[p] EXCEPT !.pc = "discover"]
  <2>1. r \in ProcState /\ LocalControl(r) /\ Inside(r)
    BY <1>2, <1>a DEF ProcState, LocalControl, Inside, AcquireLock, At
  <2>2. Become(p, r)
    BY <1>2 DEF AcquireLock
  <2> HIDE DEF r
  <2> QED
    BY <1>2, <1>b, <2>1, <2>2, StepBase
    DEF AcquireLock, TypeOK, folder, kernel, served
<1>3. CASE LockBusy(p)
  <2>1. ~Inside(proc[p]) /\ ~Inside(Idle) /\ LocalControl(Idle)
    BY <1>3, <1>a DEF LocalControl, Inside, LockBusy, At, Idle
  <2> QED
    BY <1>3, <1>b, <2>1, StepBase, IdleTypes
    DEF LockBusy, TypeOK, folder, kernel, served
<1>4. CASE DiscoverNothing(p)
  <2>1. ~Inside(Idle) /\ LocalControl(Idle)
    BY DEF LocalControl, Inside, Idle
  <2>2. faults' \in 0..MaxFaults
    BY <1>4, FaultTyped DEF DiscoverNothing, Discovered
  <2> QED
    BY <1>4, <1>b, <2>1, <2>2, StepBase, IdleTypes
    DEF DiscoverNothing, TypeOK, folder, kernel, served
<1>5. CASE Discover(p)
  <2>1. PICK found \in SUBSET present :
          /\ Discovered(found)
          /\ Become(p, [proc[p] EXCEPT
                          !.todo = found,
                          !.pc = IF proc[p].cmd = "prepare"
                                 THEN "tree" ELSE "mount"])
    BY <1>5 DEF Discover
  <2> DEFINE l == IF proc[p].cmd = "prepare" THEN "tree" ELSE "mount"
             r == [proc[p] EXCEPT !.todo = found, !.pc = l]
  <2>2. r \in ProcState
    BY <1>a, <1>b DEF ProcState, TypeOK
  <2>3. LocalControl(r) /\ (Inside(r) <=> Inside(proc[p]))
    BY <1>5, <1>a DEF ProcState, LocalControl, Inside, Discover, At
  <2>4. faults' \in 0..MaxFaults /\ Become(p, r)
    BY <2>1, FaultTyped DEF Discovered
  <2> HIDE DEF r
  <2> QED
    BY <1>5, <1>b, <2>2, <2>3, <2>4, StepBase
    DEF Discover, TypeOK, folder, kernel, served
<1>6. CASE RebuildTree(p)
  <2> DEFINE r == [proc[p] EXCEPT !.pc = "mount"]
  <2>1. r \in ProcState /\ LocalControl(r) /\ Inside(r) /\ Inside(proc[p])
    BY <1>6, <1>a DEF ProcState, LocalControl, Inside, RebuildTree, At
  <2>2. tree' \subseteq Isos
    BY <1>6, <1>a, <1>b DEF RebuildTree, ProcState, TypeOK
  <2>3. faults' \in 0..MaxFaults /\ Become(p, r)
    BY <1>6, FaultTyped DEF RebuildTree
  <2> HIDE DEF r
  <2> QED
    BY <1>6, <1>b, <2>1, <2>2, <2>3, StepBase
    DEF RebuildTree, TypeOK, folder, kernel
<1> QED
  BY <1>1, <1>2, <1>3, <1>4, <1>5, <1>6

(* p moves on to r without touching the lock. *)
Moves(p, r) ==
    /\ Become(p, r)
    /\ LocalControl(r)
    /\ Inside(r) <=> Inside(proc[p])

LEMMA MountEnds ==
    ASSUME BaseInv, NEW p \in Procs,
           proc[p].pc \in {"verify", "umount", "pick", "attach"},
           MountSucceeds(p) \/ MountFails(p)
    PROVE  \E r \in ProcState : Moves(p, r)
<1> USE BoundsAssumption
<1> USE DEF Mounting, Sweeping, HasIso, Labels
<1>a. proc[p] \in ProcState /\ LocalControl(proc[p])
  BY LocalFacts
<1>1. proc[p].cur \in Isos /\ proc[p].cmd \in {"prepare", "status"}
  BY <1>a DEF LocalControl
<1>b. /\ proc[p].todo \ {proc[p].cur} \in SUBSET Isos
      /\ proc[p].mounted \cup {proc[p].cur} \in SUBSET Isos
      /\ 0 \in 0..NumLoops
  BY <1>a, <1>1 DEF ProcState
<1>2. CASE MountSucceeds(p) /\ proc[p].cmd = "prepare"
  <2> DEFINE r == [proc[p] EXCEPT !.pc = "mount", !.dev = 0,
                                  !.todo = @ \ {proc[p].cur},
                                  !.mounted = @ \cup {proc[p].cur}]
  <2>1. r \in ProcState
    BY <1>a, <1>b DEF ProcState
  <2>2. Moves(p, r)
    BY <1>a, <1>1, <1>2 DEF ProcState, Moves, LocalControl, Inside, MountSucceeds
  <2> HIDE DEF r
  <2> QED
    BY <2>1, <2>2
<1>3. CASE MountSucceeds(p) /\ proc[p].cmd = "status"
  <2> DEFINE r == [proc[p] EXCEPT !.pc = "inspect", !.dev = 0]
  <2>1. r \in ProcState
    BY <1>a, <1>b DEF ProcState
  <2>2. Moves(p, r)
    BY <1>a, <1>1, <1>3 DEF ProcState, Moves, LocalControl, Inside, MountSucceeds
  <2> HIDE DEF r
  <2> QED
    BY <2>1, <2>2
<1>4. CASE MountFails(p)
  <2> DEFINE r == [proc[p] EXCEPT !.pc = "mount", !.dev = 0,
                                  !.todo = @ \ {proc[p].cur}]
  <2>1. r \in ProcState
    BY <1>a, <1>b DEF ProcState
  <2>2. Moves(p, r)
    BY <1>a, <1>1, <1>4 DEF ProcState, Moves, LocalControl, Inside, MountFails
  <2> HIDE DEF r
  <2> QED
    BY <2>1, <2>2
<1> QED
  BY <1>1, <1>2, <1>3, <1>4

(* Taking the topmost mount off a mount point that has one. *)
LEMMA PopTyped ==
    ASSUME BaseInv, NEW i \in Isos, mounts[i] # <<>>, PopMount(i)
    PROVE  /\ mounts' \in [Isos -> Seq(Loops)]
           /\ loops' \in [Loops -> Files \cup {NoFile}]
           /\ settled' \subseteq Interfaces
<1>1. mounts \in [Isos -> Seq(Loops)] /\ loops \in [Loops -> Files \cup {NoFile}]
  BY DEF BaseInv, TypeOK
<1>2. mounts[i] \in Seq(Loops) /\ Len(mounts[i]) \in Nat \ {0}
  BY <1>1, EmptySeq, LenProperties
<1>3. SubSeq(mounts[i], 1, Len(mounts[i]) - 1) \in Seq(Loops)
  BY <1>2, SubSeqProperties
<1>4. mounts[i][Len(mounts[i])] \in Loops
  BY <1>2, ElementOfSeq
<1> QED
  BY <1>1, <1>3, <1>4 DEF PopMount

(* The device mount(8) picks is a free one. *)
LEMMA FreeLoopTyped ==
    ASSUME FreeLoops # {}
    PROVE  Least(FreeLoops) \in Loops /\ loops[Least(FreeLoops)] = NoFile
<1>1. FreeLoops \subseteq Nat
  BY BoundsAssumption DEF FreeLoops, Loops
<1> QED
  BY <1>1, LeastIsElement DEF FreeLoops

LEMMA MoveBase ==
    ASSUME BaseInv, NEW p \in Procs, \E r \in ProcState : Moves(p, r),
           UNCHANGED <<folder, lock>>,
           loops' \in [Loops -> Files \cup {NoFile}],
           mounts' \in [Isos -> Seq(Loops)],
           tree' \subseteq Isos,
           menu' \in [MenuFiles -> MenuContent],
           faults' \in 0..MaxFaults,
           settled' \subseteq Interfaces
    PROVE  BaseInv'
<1>1. PICK r \in ProcState : Moves(p, r)
  OBVIOUS
<1> QED
  BY <1>1, StepBase DEF Moves

(* The steps of IsoMounter::mount and of its callers' loops. *)
LEMMA MountBase ==
    ASSUME BaseInv, NEW p \in Procs, MountStep(p)
    PROVE  BaseInv'
<1> USE BoundsAssumption
<1> USE DEF Mounting, Sweeping, HasIso, Labels
<1>a. proc[p] \in ProcState /\ LocalControl(proc[p])
  BY LocalFacts
<1>b. TypeOK
  BY DEF BaseInv
<1>c. proc[p].pc \in HasIso => proc[p].cur \in Isos
  BY <1>a DEF LocalControl
<1>1. CASE CheckMounted(p)
  <2> DEFINE i == Least(proc[p].todo)
             l == IF mounts[i] = <<>> THEN "pick" ELSE "verify"
             r1 == [proc[p] EXCEPT !.cur = i, !.pc = l]
             r2 == [proc[p] EXCEPT !.cur = i, !.todo = @ \ {i}]
             r3 == [proc[p] EXCEPT !.cur = i, !.pc = "pick"]
  <2>1. i \in Isos
    <3>1. proc[p].todo \subseteq Isos /\ Isos \subseteq Nat /\ proc[p].todo # {}
      BY <1>1, <1>a DEF CheckMounted, ProcState, Isos
    <3> QED
      BY <3>1, LeastIsElement
  <2>2. r1 \in ProcState /\ r2 \in ProcState /\ r3 \in ProcState
    <3>1. i \in 0..NumIsos /\ proc[p].todo \ {i} \in SUBSET Isos
      BY <1>a, <2>1 DEF ProcState, Isos
    <3> HIDE DEF i
    <3> QED
      BY <1>a, <3>1 DEF ProcState
  <2>3. /\ LocalControl(r1) /\ (Inside(r1) <=> Inside(proc[p]))
        /\ LocalControl(r2) /\ (Inside(r2) <=> Inside(proc[p]))
        /\ LocalControl(r3) /\ (Inside(r3) <=> Inside(proc[p]))
    BY <1>1, <1>a, <2>1 DEF ProcState, CheckMounted, At, LocalControl, Inside
  <2>4. Become(p, r1) \/ Become(p, r2) \/ Become(p, r3)
    BY <1>1 DEF CheckMounted
  <2>5. faults' \in 0..MaxFaults
    BY <1>1, FaultTyped DEF CheckMounted
  <2> HIDE DEF r1, r2, r3
  <2>6. \E r \in ProcState : Moves(p, r)
    BY <2>2, <2>3, <2>4 DEF Moves
  <2> QED
    BY <1>1, <1>b, <2>5, <2>6, MoveBase
    DEF CheckMounted, TypeOK, folder, kernel, served
<1>2. CASE Verify(p)
  <2> DEFINE r1 == [proc[p] EXCEPT !.pc = "umount"]
  <2>1. r1 \in ProcState /\ LocalControl(r1) /\ (Inside(r1) <=> Inside(proc[p]))
    BY <1>2, <1>a DEF ProcState, LocalControl, Inside, Verify, At
  <2>2. Become(p, r1) \/ MountSucceeds(p) \/ MountFails(p)
    BY <1>2 DEF Verify
  <2>3. faults' \in 0..MaxFaults /\ proc[p].pc = "verify"
    BY <1>2, FaultTyped DEF Verify, At
  <2> HIDE DEF r1
  <2>4. \E r \in ProcState : Moves(p, r)
    BY <2>1, <2>2, <2>3, MountEnds DEF Moves
  <2> QED
    BY <1>2, <1>b, <2>3, <2>4, MoveBase
    DEF Verify, TypeOK, folder, kernel, served
<1>3. CASE Umount(p)
  <2> DEFINE r1 == [proc[p] EXCEPT !.pc = "pick"]
  <2>1. r1 \in ProcState /\ LocalControl(r1) /\ (Inside(r1) <=> Inside(proc[p]))
    BY <1>3, <1>a DEF ProcState, LocalControl, Inside, Umount, At
  <2>2. Become(p, r1) \/ MountFails(p)
    BY <1>3 DEF Umount
  <2>3. faults' \in 0..MaxFaults /\ proc[p].pc = "umount" /\ proc[p].cur \in Isos
    BY <1>3, <1>c, FaultTyped DEF Umount, At
  <2> HIDE DEF r1
  <2>4. \E r \in ProcState : Moves(p, r)
    BY <2>1, <2>2, <2>3, MountEnds DEF Moves
  <2>5. /\ mounts' \in [Isos -> Seq(Loops)]
        /\ loops' \in [Loops -> Files \cup {NoFile}]
        /\ settled' \subseteq Interfaces
    BY <1>3, <1>b, <2>3, PopTyped DEF Umount, TypeOK, kernel
  <2> QED
    BY <1>3, <1>b, <2>3, <2>4, <2>5, MoveBase DEF Umount, TypeOK, folder
<1>4. CASE PickLoop(p)
  <2> DEFINE d == Least(FreeLoops)
             r1 == [proc[p] EXCEPT !.dev = d, !.pc = "attach"]
  <2>1. ASSUME FreeLoops # {}, Become(p, r1)
        PROVE  \E r \in ProcState : Moves(p, r)
    <3>1. d \in Loops
      BY <2>1, FreeLoopTyped
    <3> HIDE DEF d
    <3>2. d \in 0..NumLoops
      BY <3>1 DEF Loops
    <3>3. r1 \in ProcState
      BY <1>a, <3>2 DEF ProcState
    <3>4. LocalControl(r1) /\ (Inside(r1) <=> Inside(proc[p]))
      BY <1>4, <1>a, <3>1 DEF ProcState, LocalControl, Inside, PickLoop, At
    <3> HIDE DEF r1
    <3> QED
      BY <2>1, <3>3, <3>4 DEF Moves
  <2>2. ASSUME MountFails(p) PROVE \E r \in ProcState : Moves(p, r)
    BY <1>4, <2>2, MountEnds DEF PickLoop, At
  <2>3. \E r \in ProcState : Moves(p, r)
    BY <1>4, <2>1, <2>2 DEF PickLoop
  <2>4. faults' \in 0..MaxFaults
    BY <1>4, FaultTyped DEF PickLoop
  <2> QED
    BY <1>4, <1>b, <2>3, <2>4, MoveBase
    DEF PickLoop, TypeOK, folder, kernel, served
<1>5. CASE AttachLoop(p)
  <2>1. proc[p].pc = "attach" /\ proc[p].cur \in Isos /\ proc[p].dev \in Loops
    BY <1>5, <1>a DEF AttachLoop, At, LocalControl
  <2>2. \E r \in ProcState : Moves(p, r)
    BY <1>5, <2>1, MountEnds DEF AttachLoop
  <2>3. mounts' \in [Isos -> Seq(Loops)]
    <3>1. Append(mounts[proc[p].cur], proc[p].dev) \in Seq(Loops)
      BY <2>1, <1>b, AppendProperties DEF TypeOK
    <3> QED
      BY <1>5, <1>b, <3>1 DEF AttachLoop, MountLoop, TypeOK, kernel
  <2>4. loops' \in [Loops -> Files \cup {NoFile}]
    <3>1. proc[p].cur \in present =>
            <<proc[p].cur, version[proc[p].cur]>> \in Files
      BY <2>1 DEF BaseInv, Control, Files
    <3> QED
      BY <1>5, <1>b, <2>1, <3>1 DEF AttachLoop, TypeOK, kernel
  <2>5. settled' \subseteq Interfaces
    BY <1>5, <1>b DEF AttachLoop, MountLoop, TypeOK
  <2> QED
    BY <1>5, <1>b, <2>2, <2>3, <2>4, <2>5, MoveBase
    DEF AttachLoop, TypeOK, folder
<1>6. CASE Inspect(p)
  <2> DEFINE r == [proc[p] EXCEPT !.todo = @ \ {proc[p].cur}, !.pc = "mount"]
  <2>1. r \in ProcState /\ LocalControl(r) /\ (Inside(r) <=> Inside(proc[p]))
    BY <1>6, <1>a DEF ProcState, LocalControl, Inside, Inspect, At
  <2>2. Become(p, r)
    BY <1>6 DEF Inspect
  <2> HIDE DEF r
  <2> QED
    BY <1>6, <1>b, <2>1, <2>2, StepBase
    DEF Inspect, TypeOK, folder, kernel, served
<1>7. CASE MountsDone(p)
  <2> DEFINE r == [proc[p] EXCEPT !.todo = proc[p].mounted, !.pc = "detect"]
  <2>1. ASSUME proc[p].cmd = "prepare"
        PROVE  \E r1 \in ProcState : Moves(p, r1)
    <3>1. r \in ProcState /\ LocalControl(r) /\ (Inside(r) <=> Inside(proc[p]))
      BY <1>7, <1>a, <2>1 DEF ProcState, LocalControl, Inside, MountsDone, At
    <3>2. Become(p, r)
      BY <1>7, <2>1 DEF MountsDone
    <3> HIDE DEF r
    <3> QED
      BY <3>1, <3>2 DEF Moves
  <2>2. ASSUME proc[p].cmd # "prepare"
        PROVE  \E r1 \in ProcState : Moves(p, r1)
    <3>1. LocalControl(Idle) /\ ~Inside(Idle) /\ ~Inside(proc[p])
      BY <2>2 DEF LocalControl, Inside, Idle
    <3>2. Become(p, Idle)
      BY <1>7, <2>2 DEF MountsDone
    <3> QED
      BY <3>1, <3>2, IdleTypes DEF Moves
  <2>3. \E r1 \in ProcState : Moves(p, r1)
    BY <2>1, <2>2
  <2> QED
    BY <1>7, <1>b, <2>3, MoveBase
    DEF MountsDone, TypeOK, folder, kernel, served
<1> QED
  BY <1>1, <1>2, <1>3, <1>4, <1>5, <1>6, <1>7 DEF MountStep

(* The steps of detection and of the menus. *)
LEMMA MenuBase ==
    ASSUME BaseInv, NEW p \in Procs, MenuStep(p)
    PROVE  BaseInv'
<1> USE BoundsAssumption
<1> USE DEF Mounting, Sweeping, HasIso, Labels
<1>a. proc[p] \in ProcState /\ LocalControl(proc[p])
  BY LocalFacts
<1>b. TypeOK
  BY DEF BaseInv
<1>1. CASE Detect(p)
  <2> DEFINE i == Least(proc[p].todo)
             r1 == [proc[p] EXCEPT !.todo = @ \ {i}, !.infos[i] = Content(i)]
             r2 == [proc[p] EXCEPT !.todo = @ \ {i}, !.failed = @ \cup {i}]
  <2>1. i \in Isos
    <3>1. proc[p].todo \subseteq Isos /\ Isos \subseteq Nat /\ proc[p].todo # {}
      BY <1>1, <1>a DEF Detect, ProcState, Isos
    <3> QED
      BY <3>1, LeastIsElement
  <2>2. ASSUME Bootable(Content(i)), Become(p, r1)
        PROVE  \E r \in ProcState : Moves(p, r)
    <3>1. Content(i) \in Files \cup {NoFile}
      BY <2>2 DEF Bootable
    <3> HIDE DEF i
    <3>2. /\ proc[p].todo \ {i} \in SUBSET Isos
          /\ [proc[p].infos EXCEPT ![i] = Content(i)]
               \in [Isos -> Files \cup {NoFile}]
      BY <1>a, <2>1, <3>1 DEF ProcState
    <3>3. r1 \in ProcState
      BY <1>a, <3>2 DEF ProcState
    <3>4. LocalControl(r1) /\ (Inside(r1) <=> Inside(proc[p]))
      BY <1>1, <1>a DEF ProcState, LocalControl, Inside, Detect, At
    <3> HIDE DEF r1
    <3> QED
      BY <2>2, <3>3, <3>4 DEF Moves
  <2>3. ASSUME Become(p, r2)
        PROVE  \E r \in ProcState : Moves(p, r)
    <3> HIDE DEF i
    <3>1. /\ proc[p].todo \ {i} \in SUBSET Isos
          /\ proc[p].failed \cup {i} \in SUBSET Isos
      BY <1>a, <2>1 DEF ProcState
    <3>2. r2 \in ProcState
      BY <1>a, <3>1 DEF ProcState
    <3>3. LocalControl(r2) /\ (Inside(r2) <=> Inside(proc[p]))
      BY <1>1, <1>a DEF ProcState, LocalControl, Inside, Detect, At
    <3> HIDE DEF r2
    <3> QED
      BY <2>3, <3>2, <3>3 DEF Moves
  <2>4. \E r \in ProcState : Moves(p, r)
    BY <1>1, <2>2, <2>3 DEF Detect
  <2>5. faults' \in 0..MaxFaults
    BY <1>1, FaultTyped DEF Detect
  <2> QED
    BY <1>1, <1>b, <2>4, <2>5, MoveBase
    DEF Detect, TypeOK, folder, kernel, served
<1>2. CASE DetectDone(p)
  <2> DEFINE r == [proc[p] EXCEPT !.pc = "menus"]
  <2>1. r \in ProcState /\ LocalControl(r) /\ (Inside(r) <=> Inside(proc[p]))
    BY <1>2, <1>a DEF ProcState, LocalControl, Inside, DetectDone, At
  <2>2. Become(p, r)
    BY <1>2 DEF DetectDone
  <2> HIDE DEF r
  <2> QED
    BY <1>2, <1>b, <2>1, <2>2, StepBase
    DEF DetectDone, TypeOK, folder, kernel, served
<1>3. CASE Finish(p)
  <2>1. LocalControl(Idle) /\ ~Inside(Idle)
    BY DEF LocalControl, Inside, Idle
  <2> QED
    BY <1>3, <1>b, <2>1, IdleTypes, StepBase
    DEF Finish, TypeOK, folder, kernel
<1>4. ASSUME NEW n \in Interfaces,
             OpenMenuFile(p, n) \/ WriteMenuFile(p, n) \/ FailMenuFile(p, n)
      PROVE  BaseInv'
  <2> DEFINE w == proc[p].writes[n]
  <2>1. /\ w \in WriteProgress /\ w.file \in 0..NumOverrides
        /\ At(p, "menus") /\ <<n, w.file>> \in MenuFiles
    <3>1. w \in WriteProgress
      BY <1>a DEF ProcState
    <3>2. w.file <= NumOverrides /\ At(p, "menus")
      BY <1>4 DEF OpenMenuFile, WriteMenuFile, FailMenuFile, Writing
    <3>3. w.file \in 0..NumOverrides
      BY <3>1, <3>2 DEF WriteProgress
    <3> QED
      BY <3>1, <3>2, <3>3 DEF MenuFiles
  <2>2. Rendered(p) \in MenuContent
    BY <1>a DEF Rendered, MenuContent, ProcState
  <2>3. menu' \in [MenuFiles -> MenuContent] /\ settled' \subseteq Interfaces
    BY <1>4, <1>b, <2>2, IdleTypes
    DEF OpenMenuFile, WriteMenuFile, FailMenuFile, TypeOK, served
  <2>4. ASSUME NEW w1 \in WriteProgress,
               Become(p, [proc[p] EXCEPT !.writes[n] = w1])
        PROVE  \E r \in ProcState : Moves(p, r)
    <3> DEFINE r1 == [proc[p] EXCEPT !.writes[n] = w1]
    <3>1. [proc[p].writes EXCEPT ![n] = w1] \in [Interfaces -> WriteProgress]
      BY <1>a DEF ProcState
    <3>2. r1 \in ProcState
      BY <1>a, <3>1 DEF ProcState
    <3>3. LocalControl(r1) /\ (Inside(r1) <=> Inside(proc[p]))
      BY <1>a, <2>1 DEF ProcState, LocalControl, Inside, At
    <3>4. Become(p, r1)
      BY <2>4
    <3> HIDE DEF r1
    <3> QED
      BY <3>2, <3>3, <3>4 DEF Moves
  <2>5. \E w1 \in WriteProgress : Become(p, [proc[p] EXCEPT !.writes[n] = w1])
    <3> DEFINE wo == [w EXCEPT !.open = TRUE]
               ww == [w EXCEPT !.open = FALSE, !.file = @ + 1]
               wf == [w EXCEPT !.ok = FALSE]
    <3>1. wo \in WriteProgress /\ ww \in WriteProgress /\ wf \in WriteProgress
      <4>1. w.file + 1 \in 0..(NumOverrides + 1)
        BY <2>1
      <4> HIDE DEF w
      <4> QED
        BY <2>1, <4>1 DEF WriteProgress
    <3>2. CASE OpenMenuFile(p, n)
      <4>1. Become(p, [proc[p] EXCEPT !.writes[n] = wo])
        BY <3>2 DEF OpenMenuFile
      <4> HIDE DEF wo
      <4> QED
        BY <3>1, <4>1
    <3>3. CASE WriteMenuFile(p, n)
      <4>1. Become(p, [proc[p] EXCEPT !.writes[n] = ww])
        BY <1>a, <3>3 DEF WriteMenuFile, ProcState
      <4> HIDE DEF ww
      <4> QED
        BY <3>1, <4>1
    <3>4. CASE FailMenuFile(p, n)
      <4>1. Become(p, [proc[p] EXCEPT !.writes[n] = wf])
        BY <3>4 DEF FailMenuFile
      <4> HIDE DEF wf
      <4> QED
        BY <3>1, <4>1
    <3> QED
      BY <1>4, <3>2, <3>3, <3>4
  <2>6. \E r \in ProcState : Moves(p, r)
    BY <2>4, <2>5
  <2>7. faults' \in 0..MaxFaults
    BY <1>4, <1>b, FaultTyped DEF OpenMenuFile, WriteMenuFile, FailMenuFile, NoFault
  <2> QED
    BY <1>4, <1>b, <2>3, <2>6, <2>7, MoveBase
    DEF OpenMenuFile, WriteMenuFile, FailMenuFile, TypeOK, folder, kernel, served
<1> QED
  BY <1>1, <1>2, <1>3, <1>4 DEF MenuStep

(* The steps of unmount_all. *)
LEMMA CleanupBase ==
    ASSUME BaseInv, NEW p \in Procs, CleanupStep(p)
    PROVE  BaseInv'
<1> USE BoundsAssumption
<1> USE DEF Mounting, Sweeping, HasIso, Labels
<1>a. proc[p] \in ProcState /\ LocalControl(proc[p])
  BY LocalFacts
<1>b. TypeOK
  BY DEF BaseInv
<1>c. LocalControl(Idle) /\ ~Inside(Idle)
  BY DEF LocalControl, Inside, Idle
<1>d. ~Inside(proc[p])
  BY <1>a DEF CleanupStep, ListMountPoints, SweepCheck, SweepUmount, SweepDone,
              At, LocalControl, Inside
<1>1. CASE ListMountPoints(p)
  <2>1. PICK S \in SUBSET Isos :
          Become(p, [proc[p] EXCEPT !.todo = S, !.pc = "sweep"])
    BY <1>1 DEF ListMountPoints
  <2> DEFINE r == [proc[p] EXCEPT !.todo = S, !.pc = "sweep"]
  <2>2. r \in ProcState /\ LocalControl(r) /\ ~Inside(r)
    BY <1>1, <1>a DEF ProcState, LocalControl, Inside, ListMountPoints, At
  <2>3. Become(p, r)
    BY <2>1
  <2> HIDE DEF r
  <2> QED
    BY <1>1, <1>b, <1>d, <2>2, <2>3, StepBase
    DEF ListMountPoints, TypeOK, folder, kernel, served
<1>2. CASE SweepCheck(p)
  <2>1. ASSUME NEW i \in proc[p].todo,
               \/ Become(p, [proc[p] EXCEPT !.todo = @ \ {i}])
               \/ Become(p, [proc[p] EXCEPT !.cur = i, !.pc = "sweepUmount"])
        PROVE  \E r \in ProcState : Moves(p, r)
    <3> DEFINE r1 == [proc[p] EXCEPT !.todo = @ \ {i}]
               r2 == [proc[p] EXCEPT !.cur = i, !.pc = "sweepUmount"]
    <3>1. i \in Isos /\ i \in 0..NumIsos /\ proc[p].todo \ {i} \in SUBSET Isos
      BY <1>a DEF ProcState, Isos
    <3>2. r1 \in ProcState /\ r2 \in ProcState
      BY <1>a, <3>1 DEF ProcState
    <3>3. LocalControl(r1) /\ LocalControl(r2) /\ ~Inside(r1) /\ ~Inside(r2)
      BY <1>2, <1>a, <3>1 DEF ProcState, LocalControl, Inside, SweepCheck, At
    <3>4. Become(p, r1) \/ Become(p, r2)
      BY <2>1
    <3> HIDE DEF r1, r2
    <3> QED
      BY <1>d, <3>2, <3>3, <3>4 DEF Moves
  <2>2. Become(p, Idle) => \E r \in ProcState : Moves(p, r)
    BY <1>c, <1>d, IdleTypes DEF Moves
  <2>3. \E r \in ProcState : Moves(p, r)
    BY <1>2, <2>1, <2>2 DEF SweepCheck
  <2>4. faults' \in 0..MaxFaults
    BY <1>2, FaultTyped DEF SweepCheck
  <2> QED
    BY <1>2, <1>b, <2>3, <2>4, MoveBase
    DEF SweepCheck, TypeOK, folder, kernel, served
<1>3. CASE SweepUmount(p)
  <2> DEFINE r == [proc[p] EXCEPT !.todo = @ \ {proc[p].cur}, !.pc = "sweep"]
  <2>1. r \in ProcState /\ LocalControl(r) /\ ~Inside(r) /\ proc[p].cur \in Isos
    BY <1>3, <1>a DEF ProcState, LocalControl, Inside, SweepUmount, At
  <2>2. Become(p, r)
    BY <1>3 DEF SweepUmount, SweepUmountSucceeds
  <2>3. faults' \in 0..MaxFaults
    BY <1>3, FaultTyped DEF SweepUmount, SweepUmountSucceeds
  <2>4. /\ mounts' \in [Isos -> Seq(Loops)]
        /\ loops' \in [Loops -> Files \cup {NoFile}]
        /\ settled' \subseteq Interfaces
    BY <1>3, <1>b, <2>1, PopTyped
    DEF SweepUmount, SweepUmountSucceeds, TypeOK, kernel
  <2> HIDE DEF r
  <2> QED
    BY <1>3, <1>b, <1>d, <2>1, <2>2, <2>3, <2>4, StepBase
    DEF SweepUmount, TypeOK, folder
<1>4. CASE SweepDone(p)
  BY <1>4, <1>b, <1>c, <1>d, IdleTypes, StepBase
  DEF SweepDone, TypeOK, folder, kernel, served
<1> QED
  BY <1>1, <1>2, <1>3, <1>4 DEF CleanupStep

(* A crash, and the operator's changes to the folder. *)
LEMMA EnvironmentBase ==
    ASSUME BaseInv,
           \/ \E p \in Procs : Crash(p)
           \/ \E i \in Isos : PutIso(i) \/ RemoveIso(i)
    PROVE  BaseInv'
<1>a. TypeOK
  BY DEF BaseInv
<1>1. ASSUME NEW p \in Procs, Crash(p) PROVE BaseInv'
  <2>1. LocalControl(Idle) /\ ~Inside(Idle)
    BY DEF LocalControl, Inside, Idle, Mounting, Sweeping, HasIso
  <2>2. faults' \in 0..MaxFaults
    BY <1>1, FaultTyped DEF Crash
  <2>3. tree' \subseteq Isos
    BY <1>1, <1>a DEF Crash, TypeOK
  <2> QED
    BY <1>1, <1>a, <2>1, <2>2, <2>3, IdleTypes, StepBase
    DEF Crash, TypeOK, folder, kernel
<1>2. ASSUME NEW i \in Isos, PutIso(i) \/ RemoveIso(i) PROVE BaseInv'
  <2>1. /\ present' \subseteq Isos
        /\ version' \in [Isos -> 0..MaxVersion]
        /\ \A j \in present' : version'[j] \in 1..MaxVersion
    <3>1. CASE PutIso(i)
      <4>1. version[i] + 1 \in 1..MaxVersion
        BY <1>a, <3>1, BoundsAssumption DEF PutIso, TypeOK
      <4> QED
        BY <1>a, <3>1, <4>1, BoundsAssumption
        DEF PutIso, TypeOK, BaseInv, Control
    <3>2. CASE RemoveIso(i)
      BY <1>a, <3>2 DEF RemoveIso, TypeOK, BaseInv, Control
    <3> QED
      BY <1>2, <3>1, <3>2
  <2>2. UNCHANGED <<kernel, served, lock, proc, faults>>
    BY <1>2 DEF PutIso, RemoveIso
  <2>3. TypeOK'
    BY <1>a, <2>1, <2>2 DEF TypeOK, kernel, served
  <2>4. Control' /\ LockExclusive'
    BY <2>1, <2>2 DEF BaseInv, Control, LockExclusive, InPrepare
  <2> QED
    BY <2>3, <2>4 DEF BaseInv
<1> QED
  BY <1>1, <1>2

LEMMA StutterBase == BaseInv /\ UNCHANGED vars => BaseInv'
BY DEF BaseInv, TypeOK, Control, LockExclusive, InPrepare, vars

LEMMA NextBase == BaseInv /\ [Next]_vars => BaseInv'
<1> SUFFICES ASSUME BaseInv, [Next]_vars PROVE BaseInv'
  OBVIOUS
<1>1. ASSUME NEW p \in Procs, Start(p) \/ Step(p) PROVE BaseInv'
  BY <1>1, EarlyBase, MountBase, MenuBase, CleanupBase DEF Step
<1>2. CASE UNCHANGED vars
  BY <1>2, StutterBase
<1> QED
  BY <1>1, <1>2, EnvironmentBase DEF Next

THEOREM BaseInvariant == Spec => []BaseInv
BY InitBase, NextBase, PTL DEF Spec

(* Every variable keeps its type in every reachable state. *)
THEOREM TypeCorrect == Spec => []TypeOK
BY BaseInvariant, PTL DEF BaseInv

(* The lock is held exactly by the run that is inside prepare(), whatever   *)
(* the number of runs, and however they crash or return early.              *)
THEOREM LockExclusion == Spec => []LockExclusive
BY BaseInvariant, PTL DEF BaseInv

---------------------------------------------------------------------------
(* Only the lock's holder changes what the clients are served. *)

LEMMA ServedStep ==
    ASSUME BaseInv, [Next]_vars, <<tree, menu>>' # <<tree, menu>>
    PROVE  \E p \in Procs :
               lock = p /\ InPrepare(p) /\ lock' \in {p, NoProc}
<1>1. CASE UNCHANGED vars
  BY <1>1 DEF vars
<1>2. ASSUME NEW i \in Isos, PutIso(i) \/ RemoveIso(i) PROVE FALSE
  BY <1>2 DEF PutIso, RemoveIso, served
<1>3. ASSUME NEW p \in Procs, Start(p) \/ Step(p)
      PROVE  /\ proc[p].pc \in {"tree", "menus"}
             /\ lock' = lock
  <2>1. CASE RebuildTree(p)
    BY <2>1 DEF RebuildTree, At
  <2>2. ASSUME NEW n \in Interfaces,
               OpenMenuFile(p, n) \/ WriteMenuFile(p, n) \/ FailMenuFile(p, n)
        PROVE  proc[p].pc = "menus" /\ lock' = lock
    BY <2>2 DEF OpenMenuFile, WriteMenuFile, FailMenuFile, Writing, At
  <2>3. CASE \/ Start(p) \/ AcquireLock(p) \/ LockBusy(p)
             \/ DiscoverNothing(p) \/ Discover(p)
    BY <2>3 DEF Start, AcquireLock, LockBusy, DiscoverNothing, Discover, served
  <2>4. CASE MountStep(p)
    BY <2>4 DEF MountStep, CheckMounted, Verify, Umount, PickLoop, AttachLoop,
                Inspect, MountsDone, served
  <2>5. CASE Detect(p) \/ DetectDone(p) \/ Finish(p)
    BY <2>5 DEF Detect, DetectDone, Finish, served
  <2>6. CASE CleanupStep(p)
    BY <2>6 DEF CleanupStep, ListMountPoints, SweepCheck, SweepUmount, SweepDone,
                served
  <2> QED
    BY <1>3, <2>1, <2>2, <2>3, <2>4, <2>5, <2>6 DEF Step, MenuStep
<1>4. ASSUME NEW p \in Procs, Crash(p)
      PROVE  proc[p].pc = "tree" /\ Unlock(p)
  BY <1>4 DEF Crash, At
<1>5. ASSUME NEW p \in Procs, proc[p].pc \in {"tree", "menus"}
      PROVE  lock = p /\ InPrepare(p)
  BY <1>5, LocalFacts DEF LocalControl, Inside, InPrepare
<1> QED
  BY <1>1, <1>2, <1>3, <1>4, <1>5 DEF Next, Unlock

(* No step of cleanup(), of status() or of a run that found the lock taken  *)
(* changes the raw-ISO tree or a GRUB menu.                                 *)
THEOREM ServedOnlyUnderLock == Spec => ServedUnderLock
<1>1. BaseInv /\ [Next]_vars
        => [<<tree, menu>>' # <<tree, menu>> =>
              \E p \in Procs :
                  lock = p /\ InPrepare(p) /\ lock' \in {p, NoProc}]_vars
  BY ServedStep
<1> QED
  BY <1>1, BaseInvariant, PTL DEF Spec, ServedUnderLock

---------------------------------------------------------------------------
(* Where nobody runs status(), the lock makes the mounts exclusive. *)

(* Whoever is about to mount holds the lock. *)
LEMMA MounterHoldsLock ==
    ASSUME BaseInv, "status" \notin Commands, NEW p \in Procs,
           proc[p].pc \in {"mount", "verify", "umount", "pick", "attach"}
    PROVE  lock = p
<1>1. proc[p] \in ProcState /\ LocalControl(proc[p]) /\ (Inside(proc[p]) <=> lock = p)
  BY LocalFacts
<1>2. proc[p].cmd \in {"prepare", "status"} /\ proc[p].cmd \in Commands \cup {"none"}
  BY <1>1 DEF LocalControl, Mounting, ProcState
<1> QED
  BY <1>1, <1>2 DEF Inside

(* The step brings no new file, and the faults only grow. *)
Grows == UNCHANGED version /\ faults' \in {faults, faults + 1}

(* A step after which the mounts are some of those that were there before.  *)
LEMMA FewerMounts ==
    ASSUME BaseInv, MountInv, Grows,
           \A j \in Isos : Len(mounts'[j]) <= Len(mounts[j]),
           \A j \in Isos : \A k \in DOMAIN mounts'[j] :
              /\ k \in DOMAIN mounts[j]
              /\ loops'[mounts'[j][k]] = loops[mounts[j][k]],
           mounts' \in [Isos -> Seq(Loops)]
    PROVE  /\ \A i \in Isos : Len(mounts'[i]) <= 1 + faults'
           /\ StacksAscend'
           /\ MountsKnown'
           /\ \A i \in Isos : AlreadyMounted(i)' => AlreadyMounted(i)
<1>1. /\ mounts \in [Isos -> Seq(Loops)]
      /\ faults \in Nat
  BY BoundsAssumption DEF BaseInv, TypeOK
<1>2. ASSUME NEW i \in Isos PROVE Len(mounts'[i]) <= 1 + faults'
  <2>1. Len(mounts'[i]) \in Nat /\ Len(mounts[i]) \in Nat
    BY <1>1, LenProperties
  <2>2. Len(mounts'[i]) <= Len(mounts[i]) /\ Len(mounts[i]) <= 1 + faults
    BY DEF MountInv
  <2> QED
    BY <1>1, <2>1, <2>2 DEF Grows
<1>3. StacksAscend'
  BY DEF MountInv, StacksAscend
<1>4. MountsKnown'
  BY DEF MountInv, MountsKnown, Grows
<1>5. ASSUME NEW i \in Isos, AlreadyMounted(i)' PROVE AlreadyMounted(i)
  BY <1>5 DEF AlreadyMounted, Grows
<1> QED
  BY <1>2, <1>3, <1>4, <1>5

(* Whoever was ready to mount, and stays where it is, is ready then. *)
LEMMA FewerReady ==
    ASSUME BaseInv, MountInv, Grows, NEW q \in Procs, proc'[q] = proc[q],
           \A j \in Isos : Len(mounts'[j]) <= Len(mounts[j]),
           mounts' \in [Isos -> Seq(Loops)],
           \A i \in Isos : AlreadyMounted(i)' => AlreadyMounted(i),
           \A d \in Loops : loops'[d] \in {loops[d], NoFile}
    PROVE  MountReady(proc[q])'
<1> DEFINE s == proc[q]
<1>1. MountReady(s) /\ LocalControl(s) /\ proc'[q] = s
  BY LocalFacts DEF MountInv
<1>2. CASE s.pc \notin {"pick", "attach"}
  BY <1>1, <1>2 DEF MountReady
<1>3. CASE s.pc \in {"pick", "attach"}
  <2>1. s.cur \in Isos /\ (s.pc = "attach" => s.dev \in Loops)
    BY <1>1, <1>3 DEF LocalControl, HasIso
  <2>2. Len(mounts'[s.cur]) <= faults'
    <3>1. /\ Len(mounts'[s.cur]) \in Nat /\ Len(mounts[s.cur]) \in Nat
          /\ faults \in Nat
      BY <2>1, LenProperties, BoundsAssumption DEF BaseInv, TypeOK
    <3>2. /\ Len(mounts'[s.cur]) <= Len(mounts[s.cur])
          /\ Len(mounts[s.cur]) <= faults
      BY <1>1, <1>3, <2>1 DEF MountReady
    <3> QED
      BY <3>1, <3>2 DEF Grows
  <2>3. s.pc = "attach" =>
          loops'[s.dev] = NoFile /\ ~AlreadyMounted(s.cur)'
    <3>1. s.pc = "attach" => loops[s.dev] = NoFile /\ ~AlreadyMounted(s.cur)
      BY <1>1 DEF MountReady
    <3>2. AlreadyMounted(s.cur)' => AlreadyMounted(s.cur)
      BY <2>1
    <3> QED
      BY <2>1, <3>1, <3>2
  <2>4. AlreadyMounted(proc[q].cur)' <=> AlreadyMounted(s.cur)'
    BY <1>1 DEF AlreadyMounted
  <2> QED
    BY <1>1, <2>2, <2>3, <2>4 DEF MountReady
<1> QED
  BY <1>2, <1>3

(* A step that leaves the kernel alone and does not lead p to a mount. *)
LEMMA QuietMounts ==
    ASSUME BaseInv, MountInv, UNCHANGED kernel, Grows, NEW p \in Procs,
           \A q \in Procs \ {p} : proc'[q] = proc[q],
           MountReady(proc[p])'
    PROVE  MountInv'
<1>1. /\ mounts' = mounts /\ loops' = loops
      /\ mounts \in [Isos -> Seq(Loops)]
  BY DEF kernel, BaseInv, TypeOK
<1>2. \A j \in Isos : Len(mounts'[j]) <= Len(mounts[j])
  BY <1>1, LenProperties
<1>3. /\ \A i \in Isos : Len(mounts'[i]) <= 1 + faults'
      /\ StacksAscend' /\ MountsKnown'
      /\ \A i \in Isos : AlreadyMounted(i)' => AlreadyMounted(i)
  BY <1>1, <1>2, FewerMounts
<1>4. \A q \in Procs \ {p} : MountReady(proc[q])'
  BY <1>1, <1>2, <1>3, FewerReady
<1> QED
  BY <1>3, <1>4 DEF MountInv

(* Taking a mount off a mount point keeps the rest as it is. *)
LEMMA PopMounts ==
    ASSUME BaseInv, NEW i \in Isos, mounts[i] # <<>>, PopMount(i)
    PROVE  /\ mounts' \in [Isos -> Seq(Loops)]
           /\ Len(mounts[i]) \in Nat \ {0}
           /\ Len(mounts'[i]) = Len(mounts[i]) - 1
           /\ \A j \in Isos \ {i} : mounts'[j] = mounts[j]
           /\ \A j \in Isos : Len(mounts'[j]) <= Len(mounts[j])
           /\ \A j \in Isos : \A k \in DOMAIN mounts'[j] :
                /\ k \in DOMAIN mounts[j]
                /\ mounts'[j][k] = mounts[j][k]
                /\ loops'[mounts'[j][k]] = loops[mounts[j][k]]
           /\ \A d \in Loops : loops'[d] \in {loops[d], NoFile}
<1> DEFINE n == Len(mounts[i])
           rest == SubSeq(mounts[i], 1, n - 1)
           top == mounts[i][n]
<1>1. /\ mounts \in [Isos -> Seq(Loops)]
      /\ loops \in [Loops -> Files \cup {NoFile}]
      /\ mounts[i] \in Seq(Loops)
  BY DEF BaseInv, TypeOK
<1>2. n \in Nat \ {0}
  BY <1>1, EmptySeq, LenProperties
<1>3. mounts' = [mounts EXCEPT ![i] = rest]
  BY DEF PopMount
<1>4. /\ rest \in Seq(Loops) /\ Len(rest) = n - 1
      /\ \A k \in 1..(n - 1) : rest[k] = mounts[i][k]
  <2>1. /\ 1 \in Int /\ n - 1 \in Int
        /\ \A k \in 1..(n - 1) : mounts[i][k] \in Loops
    <3>1. \A k \in 1..n : mounts[i][k] \in Loops
      BY <1>1, ElementOfSeq
    <3> QED
      BY <1>2, <3>1
  <2>2. /\ rest \in Seq(Loops)
        /\ Len(rest) = IF 1 <= n - 1 THEN (n - 1) - 1 + 1 ELSE 0
        /\ \A k \in 1..((n - 1) - 1 + 1) : rest[k] = mounts[i][1 + k - 1]
    BY <2>1, SubSeqProperties
  <2>3. /\ (n - 1) - 1 + 1 = n - 1
        /\ \A k \in 1..(n - 1) : 1 + k - 1 = k
        /\ (IF 1 <= n - 1 THEN (n - 1) - 1 + 1 ELSE 0) = n - 1
    BY <1>2
  <2> HIDE DEF rest
  <2> QED
    BY <2>2, <2>3
<1>5. /\ mounts' \in [Isos -> Seq(Loops)]
      /\ mounts'[i] = rest
      /\ \A j \in Isos \ {i} : mounts'[j] = mounts[j]
  BY <1>1, <1>3, <1>4, Zenon
<1>6. \A j \in Isos : Len(mounts'[j]) <= Len(mounts[j])
  BY <1>1, <1>2, <1>4, <1>5, LenProperties
<1>7. \A j \in Isos : \A k \in DOMAIN mounts'[j] :
        k \in DOMAIN mounts[j] /\ mounts'[j][k] = mounts[j][k]
  BY <1>1, <1>2, <1>4, <1>5, LenProperties
<1>8. \A d \in Loops : loops'[d] \in {loops[d], NoFile}
  BY <1>1 DEF PopMount
<1>9. ASSUME NEW j \in Isos, NEW k \in DOMAIN mounts'[j]
      PROVE  loops'[mounts'[j][k]] = loops[mounts[j][k]]
  <2>1. /\ mounts'[j][k] = mounts[j][k] /\ k \in DOMAIN mounts[j]
        /\ mounts[j][k] \in Loops
    BY <1>1, <1>7, <1>9, ElementOfSeq, LenProperties
  <2>2. CASE mounts[j][k] # top
    BY <1>1, <2>1, <2>2 DEF PopMount
  <2>3. CASE mounts[j][k] = top /\ j = i
    <3>1. k \in DOMAIN rest /\ rest[k] = top
      BY <1>5, <1>9, <2>1, <2>3
    <3> QED
      BY <2>1, <3>1 DEF PopMount
  <2>4. CASE mounts[j][k] = top /\ j # i
    BY <2>1, <2>4 DEF PopMount
  <2> QED
    BY <2>2, <2>3, <2>4
<1> HIDE DEF n, rest
<1>10. Len(mounts'[i]) = n - 1 /\ n \in Nat \ {0}
  BY <1>2, <1>4, <1>5
<1> QED
  BY <1>5, <1>6, <1>7, <1>8, <1>9, <1>10 DEF n

LEMMA MountInvInit == Init => MountInv
<1> SUFFICES ASSUME Init PROVE MountInv
  OBVIOUS
<1>1. \A i \in Isos : mounts[i] = <<>> /\ Len(mounts[i]) = 0 /\ DOMAIN mounts[i] = {}
  BY EmptySeq DEF Init
<1>2. \A p \in Procs : proc[p].pc = "idle"
  BY DEF Init, Idle
<1>3. faults = 0
  BY DEF Init
<1> QED
  BY <1>1, <1>2, <1>3 DEF MountInv, StacksAscend, MountsKnown, MountReady

(* A step of p to the local state r, none that is about to mount. *)
LEMMA QuietBecome ==
    ASSUME BaseInv, MountInv, UNCHANGED kernel, Grows, NEW p \in Procs, NEW r,
           Become(p, r), r.pc \notin {"pick", "attach"}
    PROVE  MountInv'
<1>1. proc'[p] = r /\ \A q \in Procs \ {p} : proc'[q] = proc[q]
  BY DEF BaseInv, TypeOK, Become
<1>2. MountReady(proc[p])'
  BY <1>1 DEF MountReady
<1> QED
  BY <1>1, <1>2, QuietMounts

(* Steps of p that neither mount nor unmount nor lead to it. *)
LEMMA QuietStep ==
    ASSUME BaseInv, MountInv, NEW p \in Procs,
           \/ Start(p) \/ AcquireLock(p) \/ LockBusy(p) \/ DiscoverNothing(p)
           \/ Discover(p) \/ RebuildTree(p) \/ Verify(p) \/ Inspect(p)
           \/ MountsDone(p) \/ MenuStep(p) \/ ListMountPoints(p)
           \/ SweepCheck(p) \/ SweepDone(p) \/ Crash(p)
    PROVE  MountInv'
<1>a. proc[p] \in ProcState
  BY LocalFacts
<1>b. UNCHANGED kernel
  BY DEF Start, AcquireLock, LockBusy, DiscoverNothing, Discover, RebuildTree,
         Verify, Inspect, MountsDone, MenuStep, Detect, DetectDone, Finish,
         OpenMenuFile, WriteMenuFile, FailMenuFile, ListMountPoints, SweepCheck,
         SweepDone, Crash
<1>d. Grows
  BY DEF Start, AcquireLock, LockBusy, DiscoverNothing, Discover, Discovered,
         RebuildTree, Verify, Inspect, MountsDone, MenuStep, Detect, DetectDone,
         Finish, OpenMenuFile, WriteMenuFile, FailMenuFile, ListMountPoints,
         SweepCheck, SweepDone, Crash, Fault, NoFault, folder, Grows
<1>c. Become(p, Idle) => MountInv'
  BY <1>b, <1>d, QuietBecome DEF Idle
<1>1. CASE Start(p)
  <2>1. PICK c \in Commands :
          Become(p, [proc[p] EXCEPT !.cmd = c,
                                    !.pc = CASE c = "prepare" -> "lock"
                                             [] c = "status" -> "discover"
                                             [] c = "cleanup" -> "listdirs"])
    BY <1>1 DEF Start
  <2> DEFINE l == CASE c = "prepare" -> "lock"
                    [] c = "status" -> "discover"
                    [] c = "cleanup" -> "listdirs"
             r == [proc[p] EXCEPT !.cmd = c, !.pc = l]
  <2>2. l \in {"lock", "discover", "listdirs"}
    BY CommandsAssumption
  <2>3. r.pc = l
    BY <1>a DEF ProcState
  <2> HIDE DEF l, r
  <2>4. Become(p, r)
    BY <2>1 DEF l, r
  <2> QED
    BY <1>b, <1>d, <2>2, <2>3, <2>4, QuietBecome
<1>2. CASE AcquireLock(p)
  <2> DEFINE r == [proc[p] EXCEPT !.pc = "discover"]
  <2>1. r.pc = "discover"
    BY <1>a DEF ProcState
  <2>2. Become(p, r)
    BY <1>2 DEF AcquireLock
  <2> HIDE DEF r
  <2> QED
    BY <1>b, <1>d, <2>1, <2>2, QuietBecome
<1>3. CASE LockBusy(p) \/ DiscoverNothing(p) \/ Finish(p) \/ SweepDone(p) \/ Crash(p)
  BY <1>c, <1>3 DEF LockBusy, DiscoverNothing, Finish, SweepDone, Crash
<1>4. CASE Discover(p)
  <2>1. PICK found \in SUBSET present :
          Become(p, [proc[p] EXCEPT
                      !.todo = found,
                      !.pc = IF proc[p].cmd = "prepare" THEN "tree" ELSE "mount"])
    BY <1>4 DEF Discover
  <2> DEFINE r == [proc[p] EXCEPT
                     !.todo = found,
                     !.pc = IF proc[p].cmd = "prepare" THEN "tree" ELSE "mount"]
  <2>2. r.pc \in {"tree", "mount"}
    BY <1>a DEF ProcState
  <2>3. Become(p, r)
    BY <2>1
  <2> HIDE DEF r
  <2> QED
    BY <1>b, <1>d, <2>2, <2>3, QuietBecome
<1>5. CASE RebuildTree(p)
  <2> DEFINE r == [proc[p] EXCEPT !.pc = "mount"]
  <2>1. r.pc = "mount"
    BY <1>a DEF ProcState
  <2>2. Become(p, r)
    BY <1>5 DEF RebuildTree
  <2> HIDE DEF r
  <2> QED
    BY <1>b, <1>d, <2>1, <2>2, QuietBecome
<1>6. CASE Verify(p)
  <2> DEFINE r1 == [proc[p] EXCEPT !.pc = "umount"]
             r2 == [proc[p] EXCEPT !.pc = "mount", !.dev = 0,
                                   !.todo = @ \ {proc[p].cur},
                                   !.mounted = @ \cup {proc[p].cur}]
             r3 == [proc[p] EXCEPT !.pc = "inspect", !.dev = 0]
             r4 == [proc[p] EXCEPT !.pc = "mount", !.dev = 0,
                                   !.todo = @ \ {proc[p].cur}]
  <2>1. r1.pc = "umount" /\ r2.pc = "mount" /\ r3.pc = "inspect" /\ r4.pc = "mount"
    BY <1>a DEF ProcState
  <2>2. Become(p, r1) \/ Become(p, r2) \/ Become(p, r3) \/ Become(p, r4)
    BY <1>6 DEF Verify, MountSucceeds, MountFails
  <2> HIDE DEF r1, r2, r3, r4
  <2> QED
    BY <1>b, <1>d, <2>1, <2>2, QuietBecome
<1>7. CASE Inspect(p)
  <2> DEFINE r == [proc[p] EXCEPT !.todo = @ \ {proc[p].cur}, !.pc = "mount"]
  <2>1. r.pc = "mount"
    BY <1>a DEF ProcState
  <2>2. Become(p, r)
    BY <1>7 DEF Inspect
  <2> HIDE DEF r
  <2> QED
    BY <1>b, <1>d, <2>1, <2>2, QuietBecome
<1>8. CASE MountsDone(p)
  <2> DEFINE r == [proc[p] EXCEPT !.todo = proc[p].mounted, !.pc = "detect"]
  <2>1. r.pc = "detect"
    BY <1>a DEF ProcState
  <2>2. Become(p, r) \/ Become(p, Idle)
    BY <1>8 DEF MountsDone
  <2> HIDE DEF r
  <2> QED
    BY <1>b, <1>c, <1>d, <2>1, <2>2, QuietBecome
<1>9. CASE Detect(p)
  <2> DEFINE i == Least(proc[p].todo)
             r1 == [proc[p] EXCEPT !.todo = @ \ {i}, !.infos[i] = Content(i)]
             r2 == [proc[p] EXCEPT !.todo = @ \ {i}, !.failed = @ \cup {i}]
  <2>1. r1.pc = "detect" /\ r2.pc = "detect"
    BY <1>a, <1>9 DEF ProcState, Detect, At
  <2>2. Become(p, r1) \/ Become(p, r2)
    BY <1>9 DEF Detect
  <2> HIDE DEF r1, r2
  <2> QED
    BY <1>b, <1>d, <2>1, <2>2, QuietBecome
<1>10. CASE DetectDone(p)
  <2> DEFINE r == [proc[p] EXCEPT !.pc = "menus"]
  <2>1. r.pc = "menus"
    BY <1>a DEF ProcState
  <2>2. Become(p, r)
    BY <1>10 DEF DetectDone
  <2> HIDE DEF r
  <2> QED
    BY <1>b, <1>d, <2>1, <2>2, QuietBecome
<1>11. ASSUME NEW n \in Interfaces,
              OpenMenuFile(p, n) \/ WriteMenuFile(p, n) \/ FailMenuFile(p, n)
       PROVE  MountInv'
  <2> DEFINE r1 == [proc[p] EXCEPT !.writes[n].open = TRUE]
             r2 == [proc[p] EXCEPT !.writes[n].open = FALSE,
                                   !.writes[n].file = @ + 1]
             r3 == [proc[p] EXCEPT !.writes[n].ok = FALSE]
  <2>1. proc[p].pc = "menus"
    BY <1>11 DEF OpenMenuFile, WriteMenuFile, FailMenuFile, Writing, At
  <2>2. r1.pc = "menus" /\ r2.pc = "menus" /\ r3.pc = "menus"
    BY <1>a, <2>1 DEF ProcState
  <2>3. Become(p, r1) \/ Become(p, r2) \/ Become(p, r3)
    BY <1>11 DEF OpenMenuFile, WriteMenuFile, FailMenuFile
  <2> HIDE DEF r1, r2, r3
  <2> QED
    BY <1>b, <1>d, <2>2, <2>3, QuietBecome
<1>12. CASE ListMountPoints(p)
  <2>1. PICK S \in SUBSET Isos :
          Become(p, [proc[p] EXCEPT !.todo = S, !.pc = "sweep"])
    BY <1>12 DEF ListMountPoints
  <2> DEFINE r == [proc[p] EXCEPT !.todo = S, !.pc = "sweep"]
  <2>2. r.pc = "sweep" /\ Become(p, r)
    BY <1>a, <2>1 DEF ProcState
  <2> HIDE DEF r
  <2> QED
    BY <1>b, <1>d, <2>2, QuietBecome
<1>13. CASE SweepCheck(p)
  <2>1. ASSUME NEW i \in proc[p].todo,
               \/ Become(p, [proc[p] EXCEPT !.todo = @ \ {i}])
               \/ Become(p, [proc[p] EXCEPT !.cur = i, !.pc = "sweepUmount"])
        PROVE  MountInv'
    <3> DEFINE r1 == [proc[p] EXCEPT !.todo = @ \ {i}]
               r2 == [proc[p] EXCEPT !.cur = i, !.pc = "sweepUmount"]
    <3>1. r1.pc = "sweep" /\ r2.pc = "sweepUmount"
      BY <1>a, <1>13 DEF ProcState, SweepCheck, At
    <3>2. Become(p, r1) \/ Become(p, r2)
      BY <2>1
    <3> HIDE DEF r1, r2
    <3> QED
      BY <1>b, <1>d, <3>1, <3>2, QuietBecome
  <2> QED
    BY <1>c, <1>13, <2>1 DEF SweepCheck
<1> QED
  BY <1>1, <1>2, <1>3, <1>4, <1>5, <1>6, <1>7, <1>8, <1>9, <1>10, <1>11, <1>12, <1>13 DEF MenuStep

(* Checking and choosing a device lead p to where it is about to mount. *)
LEMMA PickStep ==
    ASSUME BaseInv, MountInv, NEW p \in Procs, CheckMounted(p) \/ PickLoop(p)
    PROVE  MountInv'
<1>a. /\ proc[p] \in ProcState /\ MountReady(proc[p]) /\ LocalControl(proc[p])
      /\ proc \in [Procs -> ProcState]
      /\ mounts \in [Isos -> Seq(Loops)]
      /\ faults \in Nat
  BY LocalFacts, BoundsAssumption DEF BaseInv, TypeOK, MountInv
<1>b. UNCHANGED kernel
  BY DEF CheckMounted, PickLoop
<1>c. Grows
  BY DEF CheckMounted, PickLoop, Fault, NoFault, folder, Grows
<1>d. mounts' = mounts /\ loops' = loops /\ version' = version
  BY <1>b, <1>c DEF kernel, Grows
<1>1. CASE CheckMounted(p)
  <2> DEFINE i == Least(proc[p].todo)
             l == IF mounts[i] = <<>> THEN "pick" ELSE "verify"
             r1 == [proc[p] EXCEPT !.cur = i, !.pc = l]
             r2 == [proc[p] EXCEPT !.cur = i, !.todo = @ \ {i}]
             r3 == [proc[p] EXCEPT !.cur = i, !.pc = "pick"]
  <2>1. i \in Isos
    <3>1. proc[p].todo \subseteq Isos /\ Isos \subseteq Nat /\ proc[p].todo # {}
      BY <1>1, <1>a DEF CheckMounted, ProcState, Isos
    <3> QED
      BY <3>1, LeastIsElement
  <2>2. r1.pc = l /\ r1.cur = i /\ r2.pc = "mount" /\ r3.pc = "pick" /\ r3.cur = i
    BY <1>a, <1>1 DEF ProcState, CheckMounted, At
  <2>3. \/ Become(p, r1) \/ Become(p, r2)
        \/ Become(p, r3) /\ faults' = faults + 1
    BY <1>1 DEF CheckMounted, Fault
  <2>4. Len(mounts[i]) \in Nat /\ Len(mounts[i]) <= 1 + faults
    BY <1>a, <2>1, LenProperties DEF MountInv
  <2>5. mounts[i] = <<>> => Len(mounts[i]) = 0
    OBVIOUS
  <2> HIDE DEF r1, r2, r3, i
  <2>6. MountReady(proc[p])'
    <3>1. CASE Become(p, r1)
      <4>1. proc'[p] = r1
        BY <1>a, <3>1 DEF Become
      <4>2. r1.pc = "pick" => Len(mounts'[r1.cur]) <= faults'
        BY <1>a, <1>c, <1>d, <2>2, <2>4, <2>5 DEF Grows
      <4> QED
        BY <2>2, <4>1, <4>2 DEF MountReady
    <3>2. CASE Become(p, r2)
      <4>1. proc'[p] = r2
        BY <1>a, <3>2 DEF Become
      <4> QED
        BY <2>2, <4>1 DEF MountReady
    <3>3. CASE Become(p, r3) /\ faults' = faults + 1
      <4>1. proc'[p] = r3
        BY <1>a, <3>3 DEF Become
      <4>2. Len(mounts'[r3.cur]) <= faults'
        BY <1>a, <1>d, <2>2, <2>4, <3>3
      <4> QED
        BY <2>2, <4>1, <4>2 DEF MountReady
    <3> QED
      BY <2>3, <3>1, <3>2, <3>3
  <2>7. \A q \in Procs \ {p} : proc'[q] = proc[q]
    BY <1>a, <2>3 DEF Become
  <2> QED
    BY <1>b, <1>c, <2>6, <2>7, QuietMounts
<1>2. CASE PickLoop(p)
  <2> DEFINE d == Least(FreeLoops)
             r1 == [proc[p] EXCEPT !.dev = d, !.pc = "attach"]
             r2 == [proc[p] EXCEPT !.pc = "mount", !.dev = 0,
                                   !.todo = @ \ {proc[p].cur}]
  <2>1. \/ /\ FreeLoops # {} /\ ~AlreadyMounted(proc[p].cur)
           /\ Become(p, r1)
        \/ Become(p, r2)
    BY <1>2 DEF PickLoop, MountFails
  <2>2. proc[p].pc = "pick"
    BY <1>2 DEF PickLoop, At
  <2>3. r1.dev = d /\ r1.cur = proc[p].cur /\ r1.pc = "attach" /\ r2.pc = "mount"
    BY <1>a DEF ProcState
  <2>4. FreeLoops # {} => loops[d] = NoFile
    BY FreeLoopTyped
  <2> HIDE DEF d, r1, r2
  <2>5. Len(mounts[r1.cur]) <= faults
    BY <1>a, <2>2, <2>3 DEF MountReady
  <2>6. Len(mounts[r1.cur]) \in Nat
    BY <1>a, <2>2, <2>3, LenProperties DEF LocalControl, HasIso
  <2>7. MountReady(proc[p])'
    <3>1. CASE /\ FreeLoops # {} /\ ~AlreadyMounted(proc[p].cur)
               /\ Become(p, r1)
      <4>1. proc'[p] = r1
        BY <1>a, <3>1 DEF Become
      <4>2. Len(mounts'[r1.cur]) <= faults'
        BY <1>a, <1>c, <1>d, <2>5, <2>6 DEF Grows
      <4>3. AlreadyMounted(proc[p].cur)' <=> AlreadyMounted(proc[p].cur)
        BY <1>d, <2>3, <4>1 DEF AlreadyMounted
      <4> QED
        BY <1>d, <2>3, <2>4, <3>1, <4>1, <4>2, <4>3 DEF MountReady
    <3>2. CASE Become(p, r2)
      <4>1. proc'[p] = r2
        BY <1>a, <3>2 DEF Become
      <4> QED
        BY <2>3, <4>1 DEF MountReady
    <3> QED
      BY <2>1, <3>1, <3>2
  <2>8. \A q \in Procs \ {p} : proc'[q] = proc[q]
    BY <1>a, <2>1 DEF Become
  <2> QED
    BY <1>b, <1>c, <2>7, <2>8, QuietMounts
<1> QED
  BY <1>1, <1>2

(* Taking off a wrong mount before mounting, or every mount in cleanup(). *)
LEMMA UmountStep ==
    ASSUME BaseInv, MountInv, NEW p \in Procs, Umount(p) \/ SweepUmount(p)
    PROVE  MountInv'
<1> DEFINE i == proc[p].cur
           r1 == [proc[p] EXCEPT !.pc = "pick"]
           r2 == [proc[p] EXCEPT !.pc = "mount", !.dev = 0, !.todo = @ \ {i}]
           r3 == [proc[p] EXCEPT !.todo = @ \ {i}, !.pc = "sweep"]
<1>a. /\ proc[p] \in ProcState /\ proc \in [Procs -> ProcState]
      /\ mounts \in [Isos -> Seq(Loops)]
      /\ faults \in Nat
  BY LocalFacts, BoundsAssumption DEF BaseInv, TypeOK
<1>b. i \in Isos
  BY LocalFacts DEF Umount, SweepUmount, At, LocalControl, HasIso
<1>c. /\ r1.pc = "pick" /\ r1.cur = i
      /\ r2.pc = "mount" /\ r3.pc = "sweep"
  BY <1>a DEF ProcState
<1>d. \/ mounts[i] # <<>> /\ PopMount(i) /\ (Become(p, r1) \/ Become(p, r3))
      \/ UNCHANGED kernel /\ (Become(p, r2) \/ Become(p, r3))
  BY DEF Umount, SweepUmount, SweepUmountSucceeds, MountFails
<1>e. Grows
  BY DEF Umount, SweepUmount, SweepUmountSucceeds, Fault, NoFault, folder, Grows
<1> HIDE DEF r1, r2, r3
<1>1. CASE UNCHANGED kernel /\ (Become(p, r2) \/ Become(p, r3))
  BY <1>c, <1>e, <1>1, QuietBecome
<1>2. CASE mounts[i] # <<>> /\ PopMount(i) /\ (Become(p, r1) \/ Become(p, r3))
  <2>1. /\ mounts' \in [Isos -> Seq(Loops)]
        /\ Len(mounts[i]) \in Nat \ {0}
        /\ Len(mounts'[i]) = Len(mounts[i]) - 1
        /\ \A j \in Isos : Len(mounts'[j]) <= Len(mounts[j])
        /\ \A j \in Isos : \A k \in DOMAIN mounts'[j] :
             /\ k \in DOMAIN mounts[j]
             /\ loops'[mounts'[j][k]] = loops[mounts[j][k]]
        /\ \A d \in Loops : loops'[d] \in {loops[d], NoFile}
    BY <1>b, <1>2, PopMounts
  <2>2. /\ proc'[p] \in {r1, r3}
        /\ \A q \in Procs \ {p} : proc'[q] = proc[q]
    BY <1>a, <1>2 DEF Become
  <2>3. /\ \A j \in Isos : Len(mounts'[j]) <= 1 + faults'
        /\ StacksAscend' /\ MountsKnown'
        /\ \A j \in Isos : AlreadyMounted(j)' => AlreadyMounted(j)
    BY <1>e, <2>1, FewerMounts
  <2>4. MountReady(proc[p])'
    <3>1. Len(mounts[i]) <= 1 + faults
      BY <1>b DEF MountInv
    <3>2. Len(mounts'[i]) <= faults'
      BY <1>a, <1>e, <2>1, <3>1 DEF Grows
    <3>3. CASE proc'[p] = r1
      BY <1>c, <3>2, <3>3 DEF MountReady
    <3>4. CASE proc'[p] = r3
      BY <1>c, <3>4 DEF MountReady
    <3> QED
      BY <2>2, <3>3, <3>4
  <2>5. \A q \in Procs \ {p} : MountReady(proc[q])'
    BY <1>e, <2>1, <2>2, <2>3, FewerReady
  <2> QED
    BY <2>3, <2>4, <2>5 DEF MountInv
<1> QED
  BY <1>d, <1>1, <1>2

(* mount(8) attaches the device p chose, which nobody else can have taken:  *)
(* whoever else is about to mount would hold the lock too.                  *)
LEMMA AttachStep ==
    ASSUME BaseInv, MountInv, "status" \notin Commands,
           NEW p \in Procs, AttachLoop(p)
    PROVE  MountInv'
<1> DEFINE i == proc[p].cur
           d == proc[p].dev
           f == <<i, version[i]>>
           n == Len(mounts[i])
<1>a. /\ mounts \in [Isos -> Seq(Loops)]
      /\ loops \in [Loops -> Files \cup {NoFile}]
      /\ proc \in [Procs -> ProcState]
      /\ version \in [Isos -> 0..MaxVersion]
      /\ faults \in Nat
  BY BoundsAssumption DEF BaseInv, TypeOK
<1>1. proc[p].pc = "attach" /\ i \in Isos /\ d \in Loops
  BY LocalFacts DEF AttachLoop, At, LocalControl, HasIso
<1>2. /\ lock = p /\ loops[d] = NoFile
      /\ n <= faults /\ ~AlreadyMounted(i)
  BY <1>1, MounterHoldsLock DEF MountInv, MountReady
<1>3. MountSucceeds(p) \/ MountFails(p)
  BY DEF AttachLoop
<1>4. /\ proc'[p].pc \in {"mount", "inspect"}
      /\ \A q \in Procs \ {p} : proc'[q] = proc[q]
  <2> DEFINE r2 == [proc[p] EXCEPT !.pc = "mount", !.dev = 0, !.todo = @ \ {i},
                                   !.mounted = @ \cup {i}]
             r3 == [proc[p] EXCEPT !.pc = "inspect", !.dev = 0]
             r4 == [proc[p] EXCEPT !.pc = "mount", !.dev = 0, !.todo = @ \ {i}]
  <2>1. r2.pc = "mount" /\ r3.pc = "inspect" /\ r4.pc = "mount"
    BY <1>a DEF ProcState
  <2>2. Become(p, r2) \/ Become(p, r3) \/ Become(p, r4)
    BY <1>3 DEF MountSucceeds, MountFails
  <2> HIDE DEF r2, r3, r4
  <2> QED
    BY <1>a, <2>1, <2>2 DEF Become
<1>g. Grows /\ version' = version /\ faults' = faults
  BY DEF AttachLoop, folder, Grows
<1>5. CASE UNCHANGED kernel
  <2>1. MountReady(proc[p])'
    BY <1>4 DEF MountReady
  <2> QED
    BY <1>4, <1>5, <1>g, <2>1, QuietMounts
<1>6. CASE i \in present /\ loops' = [loops EXCEPT ![d] = f] /\ MountLoop(p)
  <2>1. version[i] \in 1..MaxVersion /\ version[i] \in 1..version[i]
    BY <1>6, BoundsAssumption DEF BaseInv, Control
  <2>2. /\ n \in Nat
        /\ mounts'[i] = Append(mounts[i], d)
        /\ Len(mounts'[i]) = n + 1 /\ mounts'[i][n + 1] = d
        /\ DOMAIN mounts'[i] = DOMAIN mounts[i] \cup {n + 1}
        /\ \A k \in DOMAIN mounts[i] : mounts'[i][k] = mounts[i][k] /\ k < n + 1
        /\ \A j \in Isos \ {i} : mounts'[j] = mounts[j]
    <3>1. /\ mounts[i] \in Seq(Loops) /\ n \in Nat
          /\ DOMAIN mounts[i] = 1..n
      BY <1>a, <1>1, LenProperties
    <3>2. /\ mounts'[i] = Append(mounts[i], d)
          /\ \A j \in Isos \ {i} : mounts'[j] = mounts[j]
      BY <1>a, <1>1, <1>6 DEF MountLoop
    <3> QED
      BY <1>1, <3>1, <3>2, AppendProperties
  <2> HIDE DEF n
  <2>3. ASSUME NEW j \in Isos, NEW k \in DOMAIN mounts[j]
        PROVE  /\ mounts[j][k] \in Loops
               /\ loops'[mounts[j][k]] = loops[mounts[j][k]]
               /\ loops[mounts[j][k]] \in {j} \X (1..version[j])
    <3>1. loops[mounts[j][k]] \in {j} \X (1..version[j]) /\ version[j] \in Nat
      BY <1>a DEF MountInv, MountsKnown
    <3>2. mounts[j][k] # d
      BY <1>2, <3>1 DEF NoFile, Isos
    <3>3. mounts[j][k] \in Loops
      BY <1>a, LenProperties, ElementOfSeq
    <3> QED
      BY <1>a, <1>6, <3>1, <3>2, <3>3
  <2>4. loops'[d] = f
    BY <1>a, <1>1, <1>6
  <2>5. ASSUME NEW j \in Isos, NEW k \in DOMAIN mounts'[j]
        PROVE  \/ /\ k \in DOMAIN mounts[j]
                  /\ mounts'[j][k] = mounts[j][k]
                  /\ loops'[mounts'[j][k]] = loops[mounts[j][k]]
               \/ j = i /\ k = n + 1 /\ loops'[mounts'[j][k]] = f
    <3>1. CASE j # i
      <4>1. mounts'[j] = mounts[j] /\ k \in DOMAIN mounts[j]
        BY <2>2, <2>5, <3>1
      <4> QED
        BY <2>3, <4>1
    <3>2. CASE j = i /\ k \in DOMAIN mounts[i]
      <4>1. mounts'[j][k] = mounts[j][k]
        BY <2>2, <3>2
      <4>2. loops'[mounts[j][k]] = loops[mounts[j][k]]
        BY <2>3, <3>2
      <4> QED
        BY <3>2, <4>1, <4>2
    <3>3. CASE j = i /\ k = n + 1
      <4>1. mounts'[j][k] = d
        BY <2>2, <3>3
      <4> QED
        BY <2>4, <3>3, <4>1
    <3> QED
      BY <2>2, <2>5, <3>1, <3>2, <3>3
  <2>6. \A j \in Isos : Len(mounts'[j]) <= 1 + faults'
    <3>1. \A j \in Isos : Len(mounts[j]) <= 1 + faults
      BY DEF MountInv
    <3>2. n + 1 <= 1 + faults
      BY <1>a, <1>2, <2>2 DEF n
    <3> QED
      BY <1>g, <2>2, <3>1, <3>2
  <2>7. MountsKnown'
    <3> SUFFICES ASSUME NEW j \in Isos, NEW k \in DOMAIN mounts'[j]
                 PROVE  loops'[mounts'[j][k]] \in {j} \X (1..version'[j])
      BY DEF MountsKnown
    <3>1. f \in {i} \X (1..version[i])
      BY <2>1
    <3>2. CASE k \in DOMAIN mounts[j] /\ loops'[mounts'[j][k]] = loops[mounts[j][k]]
      BY <1>g, <2>3, <3>2
    <3>3. CASE j = i /\ loops'[mounts'[j][k]] = f
      BY <1>g, <3>1, <3>3
    <3> QED
      BY <2>5, <3>2, <3>3
  <2>8. ASSUME NEW k \in DOMAIN mounts[i]
        PROVE  loops[mounts[i][k]][2] < version[i]
    <3>1. /\ loops[mounts[i][k]] \in {i} \X (1..version[i])
          /\ version[i] \in Nat
      BY <1>a, <1>1, <2>3
    <3>2. loops[mounts[i][k]] # <<i, version[i]>>
      BY <1>2 DEF AlreadyMounted
    <3> QED
      BY <3>1, <3>2
  <2>9. StacksAscend'
    <3> SUFFICES ASSUME NEW j \in Isos, NEW k \in DOMAIN mounts'[j],
                        NEW m \in DOMAIN mounts'[j], k < m
                 PROVE  loops'[mounts'[j][k]][2] < loops'[mounts'[j][m]][2]
      BY DEF StacksAscend
    <3>1. CASE j # i \/ (k \in DOMAIN mounts[i] /\ m \in DOMAIN mounts[i])
      <4>1. /\ k \in DOMAIN mounts[j] /\ m \in DOMAIN mounts[j]
            /\ mounts'[j][k] = mounts[j][k] /\ mounts'[j][m] = mounts[j][m]
        BY <2>2, <3>1
      <4>2. loops[mounts[j][k]][2] < loops[mounts[j][m]][2]
        BY <4>1 DEF MountInv, StacksAscend
      <4> QED
        BY <2>3, <4>1, <4>2
    <3>2. CASE j = i /\ k \in DOMAIN mounts[i] /\ m = n + 1
      <4>1. /\ loops'[mounts'[j][k]] = loops[mounts[i][k]]
            /\ loops'[mounts'[j][m]] = f
        <5>1. mounts'[i][k] = mounts[i][k] /\ mounts'[i][m] = d
          BY <2>2, <3>2
        <5>2. loops'[mounts[i][k]] = loops[mounts[i][k]]
          BY <1>1, <2>3, <3>2
        <5> QED
          BY <2>4, <3>2, <5>1, <5>2
      <4> QED
        BY <2>8, <3>2, <4>1
    <3>3. CASE j = i /\ k = n + 1
      <4>1. FALSE
        BY <2>2, <3>3
      <4> QED
        BY <4>1
    <3> QED
      BY <2>2, <3>1, <3>2, <3>3
  <2>10. ASSUME NEW q \in Procs PROVE MountReady(proc[q])'
    <3>1. proc'[q].pc \notin {"pick", "attach"}
      <4>1. CASE q = p
        BY <1>4, <4>1
      <4>2. CASE q # p
        BY <1>2, <1>4, <4>2, MounterHoldsLock
      <4> QED
        BY <4>1, <4>2
    <3> QED
      BY <3>1 DEF MountReady
  <2> QED
    BY <2>6, <2>7, <2>9, <2>10 DEF MountInv
<1> QED
  BY <1>2, <1>5, <1>6 DEF AttachLoop

(* A new file under a name is newer than what is mounted. *)
LEMMA FolderStep ==
    ASSUME BaseInv, MountInv, NEW i \in Isos, PutIso(i) \/ RemoveIso(i)
    PROVE  MountInv'
<1>1. /\ loops' = loops /\ mounts' = mounts /\ proc' = proc /\ faults' = faults
      /\ version \in [Isos -> 0..MaxVersion]
  BY DEF PutIso, RemoveIso, kernel, BaseInv, TypeOK
<1>2. \A j \in Isos : \/ version'[j] = version[j]
                       \/ version'[j] = version[j] + 1
  BY <1>1, BoundsAssumption DEF PutIso, RemoveIso
<1>3. ASSUME NEW j \in Isos, NEW k \in DOMAIN mounts[j]
      PROVE  /\ loops[mounts[j][k]] \in {j} \X (1..version'[j])
             /\ loops[mounts[j][k]] = <<j, version'[j]>>
                   => loops[mounts[j][k]] = <<j, version[j]>>
  <2>1. loops[mounts[j][k]] \in {j} \X (1..version[j]) /\ version[j] \in Nat
    BY <1>1 DEF MountInv, MountsKnown
  <2> QED
    BY <1>2, <2>1
<1>4. MountsKnown'
  BY <1>1, <1>3 DEF MountsKnown
<1>5. \A j \in Isos : AlreadyMounted(j)' => AlreadyMounted(j)
  BY <1>1, <1>3 DEF AlreadyMounted
<1>6. ASSUME NEW q \in Procs PROVE MountReady(proc[q])'
  <2>1. MountReady(proc[q]) /\ LocalControl(proc[q])
    BY LocalFacts DEF MountInv
  <2>2. proc[q].pc = "attach" => proc[q].cur \in Isos
    BY <2>1 DEF LocalControl, HasIso
  <2>3. AlreadyMounted(proc[q].cur)' => proc[q].pc # "attach" \/ AlreadyMounted(proc[q].cur)
    BY <1>1, <1>5, <2>2 DEF AlreadyMounted
  <2> QED
    BY <1>1, <2>1, <2>3 DEF MountReady
<1> QED
  BY <1>1, <1>4, <1>6 DEF MountInv, StacksAscend

LEMMA MountInvNext ==
    ASSUME BaseInv, MountInv, "status" \notin Commands, [Next]_vars
    PROVE  MountInv'
<1>1. ASSUME NEW p \in Procs, Start(p) \/ Step(p) \/ Crash(p) PROVE MountInv'
  BY <1>1, QuietStep, PickStep, UmountStep, AttachStep
  DEF Step, MountStep, CleanupStep
<1>2. CASE UNCHANGED vars
  BY <1>2
  DEF MountInv, StacksAscend, MountsKnown, MountReady, AlreadyMounted, vars
<1> QED
  BY <1>1, <1>2, FolderStep DEF Next

THEOREM MountInvariant ==
    ASSUME "status" \notin Commands PROVE Spec => []MountInv
<1>1. Init => MountInv
  BY MountInvInit
<1>2. BaseInv /\ MountInv /\ [Next]_vars => MountInv'
  BY MountInvNext
<1> QED
  BY <1>1, <1>2, BaseInvariant, PTL DEF Spec

(* Where nobody runs status(), mounts pile up on a mount point only by      *)
(* misreads: at most one more than failures so far.  The lock alone         *)
(* guarantees it, with any cleanup() running next to prepare().             *)
THEOREM MountsDoNotPileUp ==
    ASSUME "status" \notin Commands PROVE Spec => []StacksBounded
<1>1. MountInv => StacksBounded
  BY DEF MountInv, StacksBounded, Mounters
<1> QED
  BY <1>1, MountInvariant, PTL

(* And what lies above on a mount point is newer than all there is below.   *)
THEOREM MountsAscend ==
    ASSUME "status" \notin Commands PROVE Spec => []StacksAscend
BY MountInvariant, PTL DEF MountInv

(* Nor does a mount point ever show another ISO's file. *)
THEOREM MountsAreOwn ==
    ASSUME "status" \notin Commands PROVE Spec => []MountsShowOwnIso
<1>1. ASSUME TypeOK, MountInv PROVE MountsShowOwnIso
  <2> SUFFICES ASSUME NEW i \in Isos, NEW k \in DOMAIN mounts[i]
               PROVE  loops[mounts[i][k]] \in {i} \X (1..MaxVersion)
    BY DEF MountsShowOwnIso
  <2>1. /\ loops[mounts[i][k]] \in {i} \X (1..version[i])
        /\ version[i] \in 0..MaxVersion
    BY <1>1 DEF MountInv, MountsKnown, TypeOK
  <2> QED
    BY <2>1, BoundsAssumption
<1> QED
  BY <1>1, MountInvariant, TypeCorrect, PTL

---------------------------------------------------------------------------
(* Where only prepare() runs, the lock's holder alone mounts and unmounts. *)

LEMMA KernelStep ==
    ASSUME BaseInv, Commands \subseteq {"prepare"}, [Next]_vars,
           kernel' # kernel
    PROVE  \E p \in Procs : lock = p /\ proc'[p] # proc[p]
<1>1. PICK p \in Procs : Umount(p) \/ AttachLoop(p) \/ SweepUmount(p)
  <2>1. ASSUME NEW p \in Procs, Start(p) \/ Step(p) \/ Crash(p)
        PROVE  Umount(p) \/ AttachLoop(p) \/ SweepUmount(p)
    <3>1. MenuStep(p) => UNCHANGED kernel
      BY DEF MenuStep, Detect, DetectDone, Finish, OpenMenuFile, WriteMenuFile,
             FailMenuFile
    <3> QED
      BY <2>1, <3>1
      DEF Step, Start, AcquireLock, LockBusy, DiscoverNothing, Discover,
          RebuildTree, MountStep, CheckMounted, Verify, PickLoop, Inspect,
          MountsDone, CleanupStep, ListMountPoints, SweepCheck, SweepDone, Crash
  <2>2. ASSUME NEW i \in Isos, PutIso(i) \/ RemoveIso(i) PROVE FALSE
    BY <2>2 DEF PutIso, RemoveIso
  <2> QED
    BY <2>1, <2>2 DEF Next, vars, kernel
<1>2. /\ proc[p] \in ProcState /\ LocalControl(proc[p])
      /\ proc \in [Procs -> ProcState]
  BY LocalFacts DEF BaseInv, TypeOK
<1>3. proc[p].cmd \in {"prepare", "none"}
  BY <1>2 DEF ProcState
<1>4. proc[p].pc \in {"umount", "attach"}
  BY <1>1, <1>2, <1>3
  DEF Umount, AttachLoop, SweepUmount, At, LocalControl, Sweeping
<1>5. lock = p
  BY <1>4, MounterHoldsLock
<1>6. proc'[p] # proc[p]
  <2> DEFINE r1 == [proc[p] EXCEPT !.pc = "pick"]
             r2 == [proc[p] EXCEPT !.pc = "mount", !.dev = 0,
                                   !.todo = @ \ {proc[p].cur},
                                   !.mounted = @ \cup {proc[p].cur}]
             r3 == [proc[p] EXCEPT !.pc = "inspect", !.dev = 0]
             r4 == [proc[p] EXCEPT !.pc = "mount", !.dev = 0,
                                   !.todo = @ \ {proc[p].cur}]
  <2>1. r1.pc = "pick" /\ r2.pc = "mount" /\ r3.pc = "inspect" /\ r4.pc = "mount"
    BY <1>2 DEF ProcState
  <2>2. Become(p, r1) \/ Become(p, r2) \/ Become(p, r3) \/ Become(p, r4)
    BY <1>1, <1>4
    DEF Umount, AttachLoop, SweepUmount, At, MountSucceeds, MountFails
  <2> HIDE DEF r1, r2, r3, r4
  <2> QED
    BY <1>2, <1>4, <2>1, <2>2 DEF Become
<1> QED
  BY <1>5, <1>6

(* The promise of the lock's comment, which holds as long as every run is a *)
(* prepare(): while one is inside, nobody else mounts or unmounts.          *)
THEOREM HolderMountsAlone ==
    ASSUME Commands \subseteq {"prepare"} PROVE Spec => HolderAlone
<1>1. BaseInv /\ [Next]_vars
        => [\A p \in Procs :
              lock = p /\ kernel' # kernel => proc'[p] # proc[p]]_vars
  BY KernelStep
<1> QED
  BY <1>1, BaseInvariant, PTL DEF Spec, HolderAlone

=============================================================================
