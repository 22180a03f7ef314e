--------------------------- MODULE PxeMenuProofs ---------------------------
(* Proofs about what prepare() detects and the GRUB menus it writes from    *)
(* it, for every value of the constants.                                    *)
EXTENDS PxeServiceProofs

---------------------------------------------------------------------------
(* What a run has collected, step by step. *)

LEMMA Becomes ==
    ASSUME BaseInv, NEW p \in Procs, NEW r, Become(p, r)
    PROVE  proc'[p] = r /\ \A q \in Procs \ {p} : proc'[q] = proc[q]
BY DEF BaseInv, TypeOK, Become

LEMMA IdleCollected == Collected(Idle)
BY DEF Collected, Listed, Idle

Late == {"detect", "menus"}

(* p goes on to r, still before detection. *)
GoesOn(p, r) ==
    /\ Become(p, r)
    /\ proc[p].pc \notin Late
    /\ r.pc \notin Late
    /\ r.infos = proc[p].infos /\ r.failed = proc[p].failed
    /\ r.writes = proc[p].writes

LEMMA GoesOnCollected ==
    ASSUME BaseInv, NEW p \in Procs, Collected(proc[p]),
           Become(p, Idle) \/ \E r : GoesOn(p, r)
    PROVE  /\ Collected(proc'[p])
           /\ proc'[p].infos = Idle.infos
           /\ proc'[p].pc # "menus"
<1>1. CASE Become(p, Idle)
  BY <1>1, Becomes, IdleCollected DEF Idle
<1>2. ASSUME NEW r, GoesOn(p, r)
      PROVE  Collected(r) /\ r.infos = Idle.infos /\ r.pc # "menus"
  BY <1>2 DEF GoesOn, Collected, Listed, Late
<1>3. ASSUME NEW r, GoesOn(p, r) PROVE proc'[p] = r
  BY <1>3, Becomes DEF GoesOn
<1> QED
  BY <1>1, <1>2, <1>3

(* The steps up to detection, cleanup() and status() included. *)
EarlyStep(p) ==
    \/ Start(p) \/ AcquireLock(p) \/ LockBusy(p) \/ DiscoverNothing(p)
    \/ Discover(p) \/ RebuildTree(p)
    \/ CheckMounted(p) \/ Verify(p) \/ Umount(p) \/ PickLoop(p)
    \/ AttachLoop(p) \/ Inspect(p)
    \/ CleanupStep(p) \/ Finish(p) \/ Crash(p)

LEMMA MountResultGoesOn ==
    ASSUME BaseInv, NEW p \in Procs, proc[p].pc \notin Late,
           MountSucceeds(p) \/ MountFails(p)
    PROVE  \E r : GoesOn(p, r)
<1> DEFINE r1 == [proc[p] EXCEPT !.pc = "mount", !.dev = 0,
                                 !.todo = @ \ {proc[p].cur},
                                 !.mounted = @ \cup {proc[p].cur}]
           r2 == [proc[p] EXCEPT !.pc = "inspect", !.dev = 0]
           r3 == [proc[p] EXCEPT !.pc = "mount", !.dev = 0,
                                 !.todo = @ \ {proc[p].cur}]
<1>1. proc[p] \in ProcState
  BY LocalFacts
<1>2. Become(p, r1) \/ Become(p, r2) \/ Become(p, r3)
  BY DEF MountSucceeds, MountFails
<1>3. /\ r1.pc = "mount" /\ r1.infos = proc[p].infos
      /\ r1.failed = proc[p].failed /\ r1.writes = proc[p].writes
  BY <1>1 DEF ProcState
<1>4. /\ r2.pc = "inspect" /\ r2.infos = proc[p].infos
      /\ r2.failed = proc[p].failed /\ r2.writes = proc[p].writes
  BY <1>1 DEF ProcState
<1>5. /\ r3.pc = "mount" /\ r3.infos = proc[p].infos
      /\ r3.failed = proc[p].failed /\ r3.writes = proc[p].writes
  BY <1>1 DEF ProcState
<1> HIDE DEF r1, r2, r3
<1> QED
  BY <1>2, <1>3, <1>4, <1>5 DEF GoesOn, Late

(* A step that changes only the program counter. *)
LEMMA PcGoesOn ==
    ASSUME BaseInv, NEW p \in Procs, proc[p].pc \notin Late,
           NEW l, l \notin Late, Become(p, [proc[p] EXCEPT !.pc = l])
    PROVE  \E r : GoesOn(p, r)
<1> DEFINE r == [proc[p] EXCEPT !.pc = l]
<1>1. proc[p] \in ProcState
  BY LocalFacts
<1>2. /\ r.pc = l /\ r.infos = proc[p].infos
      /\ r.failed = proc[p].failed /\ r.writes = proc[p].writes
  BY <1>1 DEF ProcState
<1> HIDE DEF r
<1>3. Become(p, r)
  BY DEF r
<1> QED
  BY <1>2, <1>3 DEF GoesOn

(* A step that changes the program counter and what is left to do. *)
LEMMA TodoGoesOn ==
    ASSUME BaseInv, NEW p \in Procs, proc[p].pc \notin Late,
           NEW l, l \notin Late, NEW S,
           Become(p, [proc[p] EXCEPT !.todo = S, !.pc = l])
    PROVE  \E r : GoesOn(p, r)
<1> DEFINE r == [proc[p] EXCEPT !.todo = S, !.pc = l]
<1>1. proc[p] \in ProcState
  BY LocalFacts
<1>2. /\ r.pc = l /\ r.infos = proc[p].infos
      /\ r.failed = proc[p].failed /\ r.writes = proc[p].writes
  BY <1>1 DEF ProcState
<1> HIDE DEF r
<1>3. Become(p, r)
  BY DEF r
<1> QED
  BY <1>2, <1>3 DEF GoesOn

(* A step that changes the ISO in hand. *)
LEMMA CurGoesOn ==
    ASSUME BaseInv, NEW p \in Procs, proc[p].pc \notin Late,
           NEW l, l \notin Late, NEW i, NEW S,
           \/ Become(p, [proc[p] EXCEPT !.cur = i, !.pc = l])
           \/ Become(p, [proc[p] EXCEPT !.cur = i, !.todo = S])
           \/ Become(p, [proc[p] EXCEPT !.todo = S])
           \/ Become(p, [proc[p] EXCEPT !.dev = i, !.pc = l])
    PROVE  \E r : GoesOn(p, r)
<1> DEFINE r1 == [proc[p] EXCEPT !.cur = i, !.pc = l]
           r2 == [proc[p] EXCEPT !.cur = i, !.todo = S]
           r3 == [proc[p] EXCEPT !.todo = S]
           r4 == [proc[p] EXCEPT !.dev = i, !.pc = l]
           Same(r) == /\ r.pc \in {l, proc[p].pc} /\ r.infos = proc[p].infos
                      /\ r.failed = proc[p].failed /\ r.writes = proc[p].writes
<1>1. proc[p] \in ProcState
  BY LocalFacts
<1>2. Same(r1) /\ Same(r2) /\ Same(r3) /\ Same(r4)
  BY <1>1 DEF ProcState
<1>3. Become(p, r1) \/ Become(p, r2) \/ Become(p, r3) \/ Become(p, r4)
  OBVIOUS
<1> HIDE DEF r1, r2, r3, r4
<1> QED
  BY <1>2, <1>3 DEF GoesOn

LEMMA EarlyCollected ==
    ASSUME BaseInv, NEW p \in Procs, EarlyStep(p)
    PROVE  Become(p, Idle) \/ \E r : GoesOn(p, r)
<1> USE DEF Late
<1>1. ASSUME Start(p) PROVE \E r : GoesOn(p, r)
  <2>1. PICK c \in Commands :
          Become(p, [proc[p] EXCEPT !.cmd = c,
                                    !.pc = CASE c = "prepare" -> "lock"
                                             [] c = "status" -> "discover"
                                             [] c = "cleanup" -> "listdirs"])
    BY <1>1 DEF Start
  <2> DEFINE l == CASE c = "prepare" -> "lock"
                    [] c = "status" -> "discover"
                    [] c = "cleanup" -> "listdirs"
  <2>2. l \notin Late /\ proc[p].pc \notin Late
    BY <1>1, CommandsAssumption DEF Start, At
  <2> DEFINE r == [proc[p] EXCEPT !.cmd = c, !.pc = l]
  <2>3. Become(p, r)
    BY <2>1
  <2>4. /\ r.pc = l /\ r.infos = proc[p].infos
        /\ r.failed = proc[p].failed /\ r.writes = proc[p].writes
    BY LocalFacts DEF ProcState
  <2> HIDE DEF l, r
  <2> QED
    BY <2>2, <2>3, <2>4 DEF GoesOn
<1>2. ASSUME AcquireLock(p) \/ RebuildTree(p) PROVE \E r : GoesOn(p, r)
  <2>1. proc[p].pc \notin Late
    BY <1>2 DEF AcquireLock, RebuildTree, At
  <2>2. \/ Become(p, [proc[p] EXCEPT !.pc = "discover"])
        \/ Become(p, [proc[p] EXCEPT !.pc = "mount"])
    BY <1>2 DEF AcquireLock, RebuildTree
  <2> QED
    BY <2>1, <2>2, PcGoesOn
<1>3. ASSUME Discover(p) PROVE \E r : GoesOn(p, r)
  <2>1. PICK found :
          Become(p, [proc[p] EXCEPT
                       !.todo = found,
                       !.pc = IF proc[p].cmd = "prepare"
                              THEN "tree" ELSE "mount"])
    BY <1>3 DEF Discover
  <2> QED
    BY <1>3, <2>1, TodoGoesOn DEF Discover, At
<1>4. ASSUME CheckMounted(p) PROVE \E r : GoesOn(p, r)
  <2> DEFINE i == Least(proc[p].todo)
             l == IF mounts[i] = <<>> THEN "pick" ELSE "verify"
             S == proc[p].todo \ {i}
  <2>1. \/ Become(p, [proc[p] EXCEPT !.cur = i, !.pc = l])
        \/ Become(p, [proc[p] EXCEPT !.cur = i, !.pc = "pick"])
        \/ Become(p, [proc[p] EXCEPT !.cur = i, !.todo = S])
    BY <1>4 DEF CheckMounted
  <2>2. l \notin Late /\ proc[p].pc \notin Late
    BY <1>4 DEF CheckMounted, At
  <2> HIDE DEF i, l, S
  <2> QED
    BY <2>1, <2>2, CurGoesOn
<1>5. ASSUME Verify(p) \/ Umount(p) PROVE \E r : GoesOn(p, r)
  <2>1. proc[p].pc \notin Late
    BY <1>5 DEF Verify, Umount, At
  <2>2. \/ Become(p, [proc[p] EXCEPT !.pc = "umount"])
        \/ Become(p, [proc[p] EXCEPT !.pc = "pick"])
        \/ MountSucceeds(p) \/ MountFails(p)
    BY <1>5 DEF Verify, Umount
  <2> QED
    BY <2>1, <2>2, PcGoesOn, MountResultGoesOn
<1>6. ASSUME PickLoop(p) PROVE \E r : GoesOn(p, r)
  <2>1. proc[p].pc \notin Late
    BY <1>6 DEF PickLoop, At
  <2>2. \/ Become(p, [proc[p] EXCEPT !.dev = Least(FreeLoops), !.pc = "attach"])
        \/ MountFails(p)
    BY <1>6 DEF PickLoop
  <2> QED
    BY <2>1, <2>2, CurGoesOn, MountResultGoesOn
<1>7. ASSUME AttachLoop(p) PROVE \E r : GoesOn(p, r)
  BY <1>7, MountResultGoesOn DEF AttachLoop, At
<1>8. ASSUME Inspect(p) PROVE \E r : GoesOn(p, r)
  BY <1>8, TodoGoesOn DEF Inspect, At
<1>9. ASSUME ListMountPoints(p) PROVE \E r : GoesOn(p, r)
  BY <1>9, TodoGoesOn DEF ListMountPoints, At
<1>10. ASSUME SweepCheck(p) PROVE Become(p, Idle) \/ \E r : GoesOn(p, r)
  <2>1. proc[p].pc \notin Late
    BY <1>10 DEF SweepCheck, At
  <2>2. ASSUME NEW i,
               \/ Become(p, [proc[p] EXCEPT !.todo = proc[p].todo \ {i}])
               \/ Become(p, [proc[p] EXCEPT !.cur = i, !.pc = "sweepUmount"])
        PROVE  \E r : GoesOn(p, r)
    BY <2>1, <2>2, CurGoesOn
  <2> QED
    BY <1>10, <2>2 DEF SweepCheck
<1>11. ASSUME SweepUmount(p) PROVE \E r : GoesOn(p, r)
  BY <1>11, TodoGoesOn DEF SweepUmount, SweepUmountSucceeds, At
<1>12. ASSUME LockBusy(p) \/ DiscoverNothing(p) \/ SweepDone(p) \/ Finish(p)
              \/ Crash(p)
       PROVE  Become(p, Idle)
  BY <1>12 DEF LockBusy, DiscoverNothing, SweepDone, Finish, Crash
<1> QED
  BY <1>1, <1>2, <1>3, <1>4, <1>5, <1>6, <1>7, <1>8, <1>9, <1>10, <1>11, <1>12
  DEF EarlyStep, CleanupStep

(* All mounts are made: detection starts with all of them, or status() ends. *)
LEMMA MountsDoneCollected ==
    ASSUME BaseInv, NEW p \in Procs, Collected(proc[p]), MountsDone(p)
    PROVE  /\ Collected(proc'[p])
           /\ proc'[p].infos = Idle.infos
           /\ proc'[p].pc # "menus"
<1> DEFINE r == [proc[p] EXCEPT !.todo = proc[p].mounted, !.pc = "detect"]
<1>1. proc[p] \in ProcState /\ proc[p].pc = "mount"
  BY LocalFacts DEF MountsDone, At
<1>2. /\ r.pc = "detect" /\ r.todo = proc[p].mounted
      /\ r.mounted = proc[p].mounted /\ r.infos = proc[p].infos
      /\ r.failed = proc[p].failed /\ r.writes = proc[p].writes
  BY <1>1 DEF ProcState
<1>3. Become(p, r) \/ Become(p, Idle)
  BY DEF MountsDone
<1> HIDE DEF r
<1>4. proc'[p] = r \/ proc'[p] = Idle
  BY <1>3, Becomes
<1>5. proc[p].infos = Idle.infos /\ proc[p].failed = {}
  BY <1>1 DEF Collected
<1>6. Listed(r) = {}
  BY <1>2, <1>5 DEF Listed, Idle
<1>7. Collected(r)
  BY <1>1, <1>2, <1>5, <1>6 DEF Collected
<1>8. Idle.pc = "idle"
  BY DEF Idle
<1> QED
  BY <1>2, <1>4, <1>5, <1>7, <1>8, IdleCollected

(* Detection moves one ISO from what is left to an entry or a placeholder. *)
LEMMA DetectCollected ==
    ASSUME BaseInv, NEW p \in Procs, Collected(proc[p]), Detect(p)
    PROVE  /\ Collected(proc'[p])
           /\ \A j \in Isos : proc'[p].infos[j] \in {proc[p].infos[j], Content(j)}
           /\ proc'[p].pc # "menus"
<1> DEFINE i == Least(proc[p].todo)
           c == Content(i)
           f == [proc[p].infos EXCEPT ![i] = c]
           r1 == [proc[p] EXCEPT !.todo = @ \ {i}, !.infos[i] = c]
           r2 == [proc[p] EXCEPT !.todo = @ \ {i}, !.failed = @ \cup {i}]
<1>1. /\ proc[p] \in ProcState /\ proc[p].pc = "detect"
      /\ proc[p].todo # {}
  BY LocalFacts DEF Detect, At
<1>2. i \in proc[p].todo /\ i \in Isos
  <2>1. proc[p].todo \subseteq Isos /\ Isos \subseteq Nat
    BY <1>1 DEF ProcState, Isos
  <2> QED
    BY <1>1, <2>1, LeastIsElement
<1>3. (Bootable(c) /\ Become(p, r1)) \/ Become(p, r2)
  BY DEF Detect
<1> HIDE DEF i, c
<1>4. /\ r1.pc = "detect" /\ r1.todo = proc[p].todo \ {i}
      /\ r1.mounted = proc[p].mounted /\ r1.infos = f
      /\ r1.failed = proc[p].failed /\ r1.writes = proc[p].writes
  BY <1>1 DEF ProcState
<1>5. /\ r2.pc = "detect" /\ r2.todo = proc[p].todo \ {i}
      /\ r2.mounted = proc[p].mounted /\ r2.infos = proc[p].infos
      /\ r2.failed = proc[p].failed \cup {i} /\ r2.writes = proc[p].writes
  BY <1>1 DEF ProcState
<1> HIDE DEF r1, r2
<1>6. (Bootable(c) /\ proc'[p] = r1) \/ proc'[p] = r2
  BY <1>3, Becomes
<1>7. /\ proc[p].todo \subseteq proc[p].mounted
      /\ Listed(proc[p]) \cup proc[p].failed = proc[p].mounted \ proc[p].todo
      /\ Listed(proc[p]) \cap proc[p].failed = {}
      /\ proc[p].writes = Idle.writes
  BY <1>1 DEF Collected
<1>8. CASE Bootable(c) /\ proc'[p] = r1
  <2>1. c # NoFile
    BY <1>8, BoundsAssumption DEF Bootable, Files, NoFile, Isos
  <2>2. /\ f[i] = c
        /\ \A j \in Isos : j # i => f[j] = proc[p].infos[j]
    BY <1>1, <1>2 DEF ProcState
  <2>3. Listed(r1) = Listed(proc[p]) \cup {i}
    <3> HIDE DEF f
    <3> QED
      BY <1>2, <1>4, <2>1, <2>2 DEF Listed
  <2>4. Collected(r1)
    BY <1>2, <1>4, <1>7, <2>3 DEF Collected
  <2>5. \A j \in Isos : r1.infos[j] \in {proc[p].infos[j], Content(j)}
    BY <1>4, <2>2 DEF c
  <2> QED
    BY <1>4, <1>8, <2>4, <2>5
<1>9. CASE proc'[p] = r2
  <2>1. Listed(r2) = Listed(proc[p])
    BY <1>5 DEF Listed
  <2>2. Collected(r2)
    BY <1>2, <1>5, <1>7, <2>1 DEF Collected
  <2> QED
    BY <1>5, <1>9, <2>2
<1> QED
  BY <1>6, <1>8, <1>9

(* Detection is over: nothing is left, and nothing is written yet. *)
LEMMA DetectDoneCollected ==
    ASSUME BaseInv, NEW p \in Procs, Collected(proc[p]), DetectDone(p)
    PROVE  /\ Collected(proc'[p])
           /\ proc'[p].infos = proc[p].infos
           /\ proc'[p].writes = Idle.writes
<1> DEFINE r == [proc[p] EXCEPT !.pc = "menus"]
<1>1. proc[p] \in ProcState /\ proc[p].pc = "detect" /\ proc[p].todo = {}
  BY LocalFacts DEF DetectDone, At
<1>2. /\ r.pc = "menus" /\ r.todo = proc[p].todo
      /\ r.mounted = proc[p].mounted /\ r.infos = proc[p].infos
      /\ r.failed = proc[p].failed /\ r.writes = proc[p].writes
  BY <1>1 DEF ProcState
<1>3. Become(p, r)
  BY DEF DetectDone
<1> HIDE DEF r
<1>4. proc'[p] = r
  BY <1>3, Becomes
<1>5. Listed(r) = Listed(proc[p])
  BY <1>2 DEF Listed
<1> QED
  BY <1>1, <1>2, <1>4, <1>5 DEF Collected

(* Writing the menus leaves alone what was collected. *)
LEMMA WriteCollected ==
    ASSUME BaseInv, NEW p \in Procs, Collected(proc[p]), NEW n \in Interfaces,
           OpenMenuFile(p, n) \/ WriteMenuFile(p, n) \/ FailMenuFile(p, n)
    PROVE  /\ Collected(proc'[p])
           /\ proc'[p].infos = proc[p].infos
           /\ proc'[p].failed = proc[p].failed
           /\ proc[p].pc = "menus" /\ proc'[p].pc = "menus"
<1> DEFINE r1 == [proc[p] EXCEPT !.writes[n].open = TRUE]
           r2 == [proc[p] EXCEPT !.writes[n].open = FALSE,
                                 !.writes[n].file = @ + 1]
           r3 == [proc[p] EXCEPT !.writes[n].ok = FALSE]
           Same(r) == /\ r.pc = "menus" /\ r.mounted = proc[p].mounted
                      /\ r.infos = proc[p].infos /\ r.failed = proc[p].failed
<1>1. proc[p] \in ProcState /\ proc[p].pc = "menus"
  BY LocalFacts DEF OpenMenuFile, WriteMenuFile, FailMenuFile, Writing, At
<1>2. Same(r1) /\ Same(r2) /\ Same(r3)
  BY <1>1 DEF ProcState
<1>3. Become(p, r1) \/ Become(p, r2) \/ Become(p, r3)
  BY DEF OpenMenuFile, WriteMenuFile, FailMenuFile
<1> HIDE DEF r1, r2, r3
<1>4. Same(proc'[p])
  BY <1>2, <1>3, Becomes
<1>5. Listed(proc'[p]) = Listed(proc[p])
  BY <1>4 DEF Listed
<1> QED
  BY <1>1, <1>4, <1>5 DEF Collected

(* Whatever p does, it has collected what it should, and its boot           *)
(* information is what it had or what the mount point shows now.            *)
LEMMA StepCollected ==
    ASSUME BaseInv, NEW p \in Procs, Collected(proc[p]),
           Start(p) \/ Step(p) \/ Crash(p)
    PROVE  /\ Collected(proc'[p])
           /\ \A i \in Isos : proc'[p].infos[i]
                                \in {NoFile, proc[p].infos[i], Content(i)}
           /\ \A q \in Procs \ {p} : proc'[q] = proc[q]
<1>1. \A i \in Isos : Idle.infos[i] = NoFile
  BY DEF Idle
<1>2. \A q \in Procs \ {p} : proc'[q] = proc[q]
  <2>1. \E r : Become(p, r)
    BY EarlyCollected
    DEF EarlyStep, GoesOn, Step, MountStep, MenuStep, CleanupStep, MountsDone,
        Detect, DetectDone, OpenMenuFile, WriteMenuFile, FailMenuFile
  <2> QED
    BY <2>1, Becomes
<1>3. CASE EarlyStep(p) \/ MountsDone(p)
  BY <1>1, <1>2, <1>3, EarlyCollected, GoesOnCollected, MountsDoneCollected
<1>4. CASE Detect(p) \/ DetectDone(p)
  BY <1>2, <1>4, DetectCollected, DetectDoneCollected
<1>5. CASE \E n \in Interfaces :
             OpenMenuFile(p, n) \/ WriteMenuFile(p, n) \/ FailMenuFile(p, n)
  BY <1>2, <1>5, WriteCollected
<1> QED
  BY <1>3, <1>4, <1>5 DEF EarlyStep, Step, MountStep, MenuStep

---------------------------------------------------------------------------
(* The menus a run has written, and those of the settled interfaces. *)

(* A run that has not begun to write has nothing behind it. *)
LEMMA NothingWritten ==
    ASSUME NEW q, proc[q].writes = Idle.writes
    PROVE  WrittenBehind(proc[q])
<1> \A n \in Interfaces :
      proc[q].writes[n].open = FALSE /\ proc[q].writes[n].file = 0
  BY DEF Idle
<1> \A k \in 0..NumOverrides : ~(k < 0)
  BY BoundsAssumption
<1> QED
  BY DEF WrittenBehind

LEMMA NothingWrittenNext ==
    ASSUME NEW q, proc'[q].writes = Idle.writes
    PROVE  WrittenBehind(proc[q])'
<1> \A n \in Interfaces :
      proc'[q].writes[n].open = FALSE /\ proc'[q].writes[n].file = 0
  BY DEF Idle
<1> \A k \in 0..NumOverrides : ~(k < 0)
  BY BoundsAssumption
<1> QED
  BY DEF WrittenBehind

(* Two runs are never both among the menus: each would hold the lock. *)
LEMMA WriterAlone ==
    ASSUME BaseInv, NEW p \in Procs, proc[p].pc = "menus",
           NEW q \in Procs \ {p}
    PROVE  lock = p /\ proc[q].pc # "menus"
BY LocalFacts DEF LocalControl, Inside

(* Steps that write no menu and settle nothing keep what was written. *)
LEMMA QuietWritten ==
    ASSUME menu' = menu, settled' \subseteq settled,
           NEW q, WrittenBehind(proc[q]), proc'[q].writes = proc[q].writes,
           proc'[q].infos = proc[q].infos, proc'[q].failed = proc[q].failed
    PROVE  WrittenBehind(proc[q])'
BY DEF WrittenBehind

LEMMA QuietAgree ==
    ASSUME menu' = menu, settled' \subseteq settled, VariantsAgree
    PROVE  VariantsAgree'
BY DEF VariantsAgree

(* The steps before the menus, and the ends of every command but Finish. *)
LEMMA QuietMenus ==
    ASSUME BaseInv, MenuInv, NEW p \in Procs,
           \/ EarlyStep(p) /\ ~Finish(p)
           \/ MountsDone(p) \/ Detect(p) \/ DetectDone(p)
    PROVE  MenuInv'
<1>1. menu' = menu /\ settled' \subseteq settled
  BY DEF EarlyStep, Start, AcquireLock, LockBusy, DiscoverNothing, Discover,
         RebuildTree, CheckMounted, Verify, Umount, PopMount, PickLoop,
         AttachLoop, MountLoop, Inspect, CleanupStep, ListMountPoints,
         SweepCheck, SweepUmount, SweepUmountSucceeds, SweepDone, Crash,
         MountsDone, Detect, DetectDone, served
<1>2. \A q \in Procs : Collected(proc[q]) /\ WrittenBehind(proc[q])
  BY DEF MenuInv
<1>3. Start(p) \/ Step(p) \/ Crash(p)
  BY DEF EarlyStep, Step, MountStep, MenuStep
<1>4. /\ Collected(proc'[p])
      /\ \A q \in Procs \ {p} : proc'[q] = proc[q]
  BY <1>2, <1>3, StepCollected
<1>5. proc'[p].writes = Idle.writes
  <2>1. CASE ~DetectDone(p)
    <3>1. proc'[p].pc # "menus"
      BY <1>2, <2>1, EarlyCollected, GoesOnCollected, MountsDoneCollected,
         DetectCollected
    <3> QED
      BY <1>4, <3>1 DEF Collected
  <2> QED
    BY <1>2, <2>1, DetectDoneCollected
<1>6. ASSUME NEW q \in Procs
      PROVE  Collected(proc'[q]) /\ WrittenBehind(proc[q])'
  BY <1>1, <1>2, <1>4, <1>5, NothingWrittenNext, QuietWritten
<1>7. VariantsAgree'
  BY <1>1, QuietAgree DEF MenuInv
<1> QED
  BY <1>6, <1>7 DEF MenuInv

(* Writing one menu file: the other runs have written nothing. *)
LEMMA OthersUnwritten ==
    ASSUME BaseInv, MenuInv, NEW p \in Procs, proc[p].pc = "menus",
           NEW q \in Procs \ {p}, proc'[q] = proc[q]
    PROVE  Collected(proc'[q]) /\ WrittenBehind(proc[q])'
<1>1. Collected(proc[q]) /\ proc[q].pc # "menus"
  BY WriterAlone DEF MenuInv
<1>2. proc'[q].writes = Idle.writes
  BY <1>1 DEF Collected
<1> QED
  BY <1>1, <1>2, NothingWrittenNext

LEMMA WriteMenus ==
    ASSUME BaseInv, MenuInv, NEW p \in Procs, NEW n \in Interfaces,
           OpenMenuFile(p, n) \/ WriteMenuFile(p, n) \/ FailMenuFile(p, n)
    PROVE  MenuInv'
<1> DEFINE w == proc[p].writes
           w1 == [w EXCEPT ![n] = [w[n] EXCEPT !.open = TRUE]]
           w2 == [w EXCEPT ![n] = [[w[n] EXCEPT !.open = FALSE]
                                      EXCEPT !.file = w[n].file + 1]]
           w3 == [w EXCEPT ![n] = [w[n] EXCEPT !.ok = FALSE]]
           r1 == [proc[p] EXCEPT !.writes[n].open = TRUE]
           r2 == [proc[p] EXCEPT !.writes[n].open = FALSE,
                                 !.writes[n].file = @ + 1]
           r3 == [proc[p] EXCEPT !.writes[n].ok = FALSE]
           m == <<n, w[n].file>>
           text == [state |-> "whole", entries |-> proc[p].infos,
                    placeholders |-> proc[p].failed]
<1>1. /\ proc[p] \in ProcState /\ proc[p].pc = "menus"
      /\ menu \in [MenuFiles -> MenuContent] /\ settled \subseteq Interfaces
  BY LocalFacts DEF BaseInv, TypeOK, OpenMenuFile, WriteMenuFile, FailMenuFile,
                    Writing, At
<1>2. /\ w \in [Interfaces -> WriteProgress]
      /\ w[n].file \in 0..NumOverrides
  BY <1>1, BoundsAssumption
  DEF ProcState, OpenMenuFile, WriteMenuFile, FailMenuFile, Writing,
      WriteProgress
<1>3. r1.writes = w1 /\ r2.writes = w2 /\ r3.writes = w3
  BY <1>1, <1>2 DEF ProcState
<1>4. Collected(proc[p]) /\ WrittenBehind(proc[p]) /\ VariantsAgree
  BY DEF MenuInv
<1>5. /\ Collected(proc'[p])
      /\ proc'[p].infos = proc[p].infos /\ proc'[p].failed = proc[p].failed
  BY <1>4, WriteCollected
<1>6. \A q \in Procs \ {p} : proc'[q] = proc[q]
  BY <1>4, StepCollected DEF Step, MenuStep
<1>7. WrittenBehind(proc[p])' /\ VariantsAgree'
  <2>1. CASE OpenMenuFile(p, n)
    <3>1. /\ menu' = [menu EXCEPT ![m] = TornMenu]
          /\ settled' = settled \ {n} /\ Become(p, r1)
      BY <2>1 DEF OpenMenuFile
    <3>2. proc'[p].writes = w1
      BY <1>3, <3>1, Becomes
    <3>3. \A j \in Interfaces, k \in 0..NumOverrides :
             <<j, k>> # m => menu'[<<j, k>>] = menu[<<j, k>>]
      BY <1>1, <3>1 DEF MenuFiles
    <3>4. \A j \in Interfaces :
             /\ w1[j].file = w[j].file
             /\ j # n => w1[j].open = w[j].open
      BY <1>2 DEF WriteProgress
    <3>5. WrittenBehind(proc[p])'
      BY <1>2, <1>4, <1>5, <3>1, <3>2, <3>3, <3>4, BoundsAssumption
      DEF WrittenBehind
    <3>6. VariantsAgree'
      <4>1. \A j \in settled', k \in 0..NumOverrides :
               j \in settled /\ menu'[<<j, k>>] = menu[<<j, k>>]
        BY <1>1, <3>1, <3>3
      <4>2. 0 \in 0..NumOverrides
        BY BoundsAssumption
      <4> QED
        BY <1>4, <4>1, <4>2 DEF VariantsAgree
    <3> QED
      BY <3>5, <3>6
  <2>2. CASE WriteMenuFile(p, n)
    <3>1. /\ menu' = [menu EXCEPT ![m] = text]
          /\ settled' = settled /\ Become(p, r2)
          /\ w[n].open
      BY <2>2 DEF WriteMenuFile, Rendered
    <3>2. proc'[p].writes = w2
      BY <1>3, <3>1, Becomes
    <3>3. \A j \in Interfaces, k \in 0..NumOverrides :
             menu'[<<j, k>>] = IF <<j, k>> = m THEN text ELSE menu[<<j, k>>]
      BY <1>1, <3>1 DEF MenuFiles
    <3>4. \A j \in Interfaces :
             /\ j # n => w2[j] = w[j]
             /\ j = n => w2[j].file = w[j].file + 1 /\ w2[j].open = FALSE
      BY <1>2 DEF WriteProgress
    <3>5. n \notin settled
      BY <1>4, <3>1 DEF WrittenBehind
    <3>6. WrittenBehind(proc[p])'
      <4> SUFFICES ASSUME NEW j \in Interfaces
                   PROVE  /\ proc'[p].writes[j].open => j \notin settled'
                          /\ \A k \in 0..NumOverrides :
                               k < proc'[p].writes[j].file =>
                                 menu'[<<j, k>>] = text
        BY <1>5 DEF WrittenBehind
      <4>1. proc'[p].writes[j].open => j \notin settled'
        BY <1>4, <3>1, <3>2, <3>4 DEF WrittenBehind
      <4>2. ASSUME NEW k \in 0..NumOverrides, k < proc'[p].writes[j].file
            PROVE  menu'[<<j, k>>] = text
        <5>1. CASE <<j, k>> = m
          BY <3>3, <5>1
        <5>2. CASE <<j, k>> # m
          <6>1. k < w[j].file
            BY <1>2, <3>2, <3>4, <4>2, <5>2, BoundsAssumption
          <6> HIDE DEF m
          <6> QED
            BY <1>4, <3>3, <5>2, <6>1 DEF WrittenBehind
        <5> QED
          BY <5>1, <5>2
      <4> QED
        BY <4>1, <4>2
    <3>7. VariantsAgree'
      <4>1. \A j \in settled', k \in 0..NumOverrides :
               j \in settled /\ menu'[<<j, k>>] = menu[<<j, k>>]
        <5> SUFFICES ASSUME NEW j \in settled', NEW k \in 0..NumOverrides
                     PROVE  /\ j \in settled
                            /\ menu'[<<j, k>>] = menu[<<j, k>>]
          OBVIOUS
        <5>1. j \in settled /\ j \in Interfaces /\ <<j, k>> # m
          BY <1>1, <3>1, <3>5
        <5> HIDE DEF m
        <5> QED
          BY <3>3, <5>1
      <4>2. 0 \in 0..NumOverrides
        BY BoundsAssumption
      <4> QED
        BY <1>4, <4>1, <4>2 DEF VariantsAgree
    <3> QED
      BY <3>6, <3>7
  <2>3. CASE FailMenuFile(p, n)
    <3>1. menu' = menu /\ settled' = settled /\ Become(p, r3)
      BY <2>3 DEF FailMenuFile, served
    <3>2. proc'[p].writes = w3
      BY <1>3, <3>1, Becomes
    <3>3. \A j \in Interfaces : w3[j].file = w[j].file /\ w3[j].open = w[j].open
      BY <1>2 DEF WriteProgress
    <3>4. WrittenBehind(proc[p])'
      BY <1>4, <1>5, <3>1, <3>2, <3>3 DEF WrittenBehind
    <3> QED
      BY <1>4, <3>1, <3>4, QuietAgree
  <2> QED
    BY <2>1, <2>2, <2>3
<1>8. ASSUME NEW q \in Procs
      PROVE  Collected(proc'[q]) /\ WrittenBehind(proc[q])'
  BY <1>1, <1>5, <1>6, <1>7, OthersUnwritten
<1> QED
  BY <1>7, <1>8 DEF MenuInv

(* prepare() ends: each interface it wrote in full has every file rendered. *)
LEMMA FinishMenus ==
    ASSUME BaseInv, MenuInv, NEW p \in Procs, Finish(p)
    PROVE  MenuInv'
<1>1. /\ proc[p] \in ProcState /\ proc[p].pc = "menus"
      /\ Collected(proc[p]) /\ WrittenBehind(proc[p])
  BY LocalFacts DEF Finish, At, MenuInv
<1>2. /\ menu' = menu /\ settled' = {n \in Interfaces : proc[p].writes[n].ok}
      /\ proc'[p] = Idle
      /\ \A q \in Procs \ {p} : proc'[q] = proc[q]
  BY Becomes DEF Finish
<1>3. VariantsAgree'
  <2>1. ASSUME NEW n \in settled', NEW k \in 0..NumOverrides
        PROVE  menu[<<n, k>>] = Rendered(p)
    <3>1. /\ n \in Interfaces /\ proc[p].writes[n].ok
          /\ ~(proc[p].writes[n].file <= NumOverrides)
      BY <1>1, <1>2 DEF Finish, Writing, At
    <3>2. proc[p].writes[n].file \in Nat
      BY <1>1, <3>1, BoundsAssumption DEF ProcState, WriteProgress
    <3>3. k < proc[p].writes[n].file
      BY <3>1, <3>2, BoundsAssumption
    <3> QED
      BY <1>1, <3>1, <3>3 DEF WrittenBehind, Rendered
  <2>2. 0 \in 0..NumOverrides /\ Rendered(p).state = "whole"
    BY BoundsAssumption DEF Rendered
  <2> QED
    BY <1>2, <2>1, <2>2 DEF VariantsAgree
<1>4. ASSUME NEW q \in Procs
      PROVE  Collected(proc'[q]) /\ WrittenBehind(proc[q])'
  <2>1. CASE q = p
    BY <1>2, <2>1, IdleCollected, NothingWrittenNext
  <2>2. CASE q # p
    BY <1>1, <1>2, <2>2, OthersUnwritten
  <2> QED
    BY <2>1, <2>2
<1> QED
  BY <1>3, <1>4 DEF MenuInv

LEMMA MenuInvNext ==
    ASSUME BaseInv, MenuInv, [Next]_vars
    PROVE  MenuInv'
<1>1. ASSUME NEW p \in Procs, Start(p) \/ Step(p) \/ Crash(p) PROVE MenuInv'
  BY <1>1, QuietMenus, WriteMenus, FinishMenus
  DEF EarlyStep, Step, MountStep, MenuStep
<1>2. CASE UNCHANGED <<menu, settled, proc>>
  BY <1>2 DEF MenuInv, VariantsAgree, WrittenBehind
<1>3. ASSUME NEW i \in Isos, PutIso(i) \/ RemoveIso(i) PROVE MenuInv'
  BY <1>2, <1>3 DEF PutIso, RemoveIso, served
<1> QED
  BY <1>1, <1>2, <1>3 DEF Next, vars

LEMMA MenuInvInit == Init => MenuInv
<1> SUFFICES ASSUME Init PROVE MenuInv
  OBVIOUS
<1>1. \A p \in Procs : Collected(proc[p]) /\ proc[p].writes = Idle.writes
  BY IdleCollected DEF Init
<1>2. VariantsAgree
  BY DEF Init, VariantsAgree
<1> QED
  BY <1>1, <1>2, NothingWritten DEF MenuInv

(* What every run has in hand, and what it has written, at each step.       *)
LEMMA MenuInvariant == Spec => []MenuInv
<1>1. BaseInv /\ MenuInv /\ [Next]_vars => MenuInv'
  BY MenuInvNext
<1> QED
  BY <1>1, MenuInvInit, BaseInvariant, PTL DEF Spec

(* An ISO that was mounted gets an entry or a placeholder, whatever failed, *)
(* whoever runs beside prepare().                                           *)
THEOREM NothingVanishes == Spec => []NoIsoVanishes
<1>1. MenuInv => NoIsoVanishes
  BY DEF MenuInv, Collected, Listed, NoIsoVanishes, At
<1> QED
  BY <1>1, MenuInvariant, PTL

(* The menu of an interface that prepare() reported as written and the      *)
(* per-MAC variants of it never drift apart.                                *)
THEOREM VariantsNeverDrift == Spec => []VariantsAgree
<1>1. MenuInv => VariantsAgree
  BY DEF MenuInv
<1> QED
  BY <1>1, MenuInvariant, PTL

---------------------------------------------------------------------------
(* Where only prepare() runs: the mount points do not change under what was *)
(* detected, nor under the menus that were written from it.                 *)

LEMMA DetectionNext ==
    ASSUME BaseInv, MenuInv, DetectionCurrent, Commands \subseteq {"prepare"},
           [Next]_vars
    PROVE  DetectionCurrent'
<1> SUFFICES ASSUME NEW q \in Procs, Inside(proc'[q]), NEW i \in Isos,
                    proc'[q].infos[i] # NoFile
             PROVE  Content(i)' = proc'[q].infos[i]
  BY DEF DetectionCurrent, InPrepare
<1>1. \A j \in Isos : Idle.infos[j] = NoFile
  BY DEF Idle
<1>2. CASE proc'[q] = proc[q]
  <2>1. InPrepare(q) /\ Collected(proc[q])
    BY <1>2 DEF InPrepare, MenuInv
  <2>2. lock = q
    BY <2>1, LocalFacts DEF InPrepare
  <2>3. kernel' = kernel
    BY <1>2, <2>2, KernelStep
  <2> QED
    BY <1>2, <2>1, <2>3 DEF DetectionCurrent, Content, kernel
<1>3. CASE proc'[q] # proc[q]
  <2>1. Start(q) \/ Step(q) \/ Crash(q)
    <3>1. ASSUME NEW p \in Procs, p # q, Start(p) \/ Step(p) \/ Crash(p)
          PROVE  FALSE
      BY <1>3, <3>1, StepCollected DEF MenuInv
    <3>2. ~\E j \in Isos : PutIso(j) \/ RemoveIso(j)
      BY <1>3 DEF PutIso, RemoveIso
    <3> QED
      BY <1>3, <3>1, <3>2 DEF Next, vars
  <2>2. Collected(proc[q]) /\ Collected(proc'[q])
    BY <2>1, StepCollected DEF MenuInv
  <2>3. ~EarlyStep(q) /\ ~MountsDone(q)
    BY <1>1, <2>2, EarlyCollected, GoesOnCollected, MountsDoneCollected
  <2>4. kernel' = kernel /\ proc[q].pc \in Late
    BY <2>1, <2>3
    DEF EarlyStep, Step, MountStep, MenuStep, Detect, DetectDone, OpenMenuFile,
        WriteMenuFile, FailMenuFile, Writing, At, Late
  <2>5. InPrepare(q)
    BY <2>4, LocalFacts DEF LocalControl, InPrepare, Inside, Late
  <2>6. proc'[q].infos[i] \in {proc[q].infos[i], Content(i)}
    BY <2>1, <2>2, StepCollected
  <2>7. Content(i)' = Content(i)
    BY <2>4 DEF Content, kernel
  <2> QED
    BY <2>5, <2>6, <2>7 DEF DetectionCurrent
<1> QED
  BY <1>2, <1>3

(* Where every run is a prepare(), what detection found is still mounted    *)
(* while the menus are written from it.                                     *)
THEOREM DetectedIsCurrent ==
    ASSUME Commands \subseteq {"prepare"} PROVE Spec => []DetectionCurrent
<1>1. Init => DetectionCurrent
  BY DEF Init, DetectionCurrent, InPrepare, Inside, Idle
<1>2. BaseInv /\ MenuInv /\ DetectionCurrent /\ [Next]_vars
        => DetectionCurrent'
  BY DetectionNext
<1> QED
  BY <1>1, <1>2, BaseInvariant, MenuInvariant, PTL DEF Spec

(* What a mount point shows changes only for the ISO that is mounted: a     *)
(* mount that is there uses another device than the free one.               *)
LEMMA AttachContent ==
    ASSUME BaseInv, MountInv, NEW p \in Procs, AttachLoop(p),
           NEW i \in Isos, Content(i) # NoFile,
           i = proc[p].cur => mounts[i] = <<>>
    PROVE  Content(i)' = Content(i)
<1> DEFINE c == proc[p].cur
           d == proc[p].dev
           t == mounts[i][Len(mounts[i])]
<1>1. /\ mounts \in [Isos -> Seq(Loops)]
      /\ loops \in [Loops -> Files \cup {NoFile}]
      /\ proc[p].pc = "attach" /\ c \in Isos /\ d \in Loops
  BY LocalFacts
  DEF BaseInv, TypeOK, AttachLoop, At, LocalControl, HasIso
<1>2. loops[d] = NoFile
  BY <1>1 DEF MountInv, MountReady
<1>3. mounts[i] # <<>> /\ Content(i) = loops[t]
  BY DEF Content
<1>4. t \in Loops /\ t # d
  <2>1. Len(mounts[i]) \in 1..Len(mounts[i])
    BY <1>1, <1>3, EmptySeq, LenProperties
  <2> QED
    BY <1>1, <1>2, <1>3, <2>1, ElementOfSeq
<1>5. i # c
  BY <1>3
<1>6. mounts'[i] = mounts[i]
  BY <1>1, <1>5 DEF AttachLoop, MountLoop, kernel
<1>7. loops'[t] = loops[t]
  BY <1>1, <1>4 DEF AttachLoop, kernel
<1> QED
  BY <1>3, <1>6, <1>7 DEF Content

LEMMA ServableNext ==
    ASSUME BaseInv, MountInv, MenuInv, DetectionCurrent, MenusServable,
           Commands \subseteq {"prepare"}, [Next]_vars
    PROVE  MenusServable'
<1> SUFFICES ASSUME NEW n \in settled', NEW i \in Isos,
                    menu'[<<n, 0>>].entries[i] # NoFile
             PROVE  Content(i)' = menu'[<<n, 0>>].entries[i]
  BY DEF MenusServable
<1> DEFINE f == menu[<<n, 0>>].entries[i]
<1>1. n \in settled /\ f # NoFile => Content(i) = f
  BY DEF MenusServable
<1>2. CASE menu'[<<n, 0>>] = menu[<<n, 0>>] /\ n \in settled /\ kernel' = kernel
  BY <1>1, <1>2 DEF Content, kernel
<1>3. CASE \E p \in Procs : AttachLoop(p)
  <2>1. PICK p \in Procs : AttachLoop(p)
    BY <1>3
  <2>2. menu' = menu
    BY <2>1 DEF AttachLoop
  <2>3. \/ kernel' = kernel /\ settled' = settled
        \/ settled' = {}
        \/ mounts[proc[p].cur] = <<>> /\ settled' = settled
    BY <2>1 DEF AttachLoop, MountLoop, kernel
  <2> QED
    BY <1>1, <1>2, <2>1, <2>2, <2>3, AttachContent
<1>4. CASE \E p \in Procs : Umount(p) \/ SweepUmount(p)
  <2>1. menu' = menu
    BY <1>4 DEF Umount, SweepUmount
  <2>2. settled' = {} \/ (kernel' = kernel /\ settled' = settled)
    BY <1>4 DEF Umount, SweepUmount, SweepUmountSucceeds, PopMount, kernel
  <2> QED
    BY <1>2, <2>1, <2>2
<1>5. ASSUME NEW p \in Procs, Finish(p)
      PROVE  Content(i)' = menu'[<<n, 0>>].entries[i]
  <2>1. /\ n \in Interfaces /\ proc[p].writes[n].ok
        /\ ~(proc[p].writes[n].file <= NumOverrides)
        /\ menu' = menu /\ kernel' = kernel
    BY <1>5 DEF Finish, Writing, At
  <2>2. /\ proc[p] \in ProcState /\ proc[p].pc = "menus"
        /\ WrittenBehind(proc[p]) /\ InPrepare(p)
    BY <1>5, LocalFacts
    DEF Finish, At, MenuInv, LocalControl, InPrepare, Inside
  <2>3. 0 \in 0..NumOverrides /\ 0 < proc[p].writes[n].file
    BY <2>1, <2>2, BoundsAssumption DEF ProcState, WriteProgress
  <2>4. f = proc[p].infos[i]
    BY <2>1, <2>2, <2>3 DEF WrittenBehind
  <2>5. Content(i) = f
    BY <2>1, <2>2, <2>4 DEF DetectionCurrent
  <2> QED
    BY <2>1, <2>5 DEF Content, kernel
<1>6. ASSUME NEW p \in Procs, NEW m \in Interfaces,
             OpenMenuFile(p, m) \/ WriteMenuFile(p, m) \/ FailMenuFile(p, m)
      PROVE  Content(i)' = menu'[<<n, 0>>].entries[i]
  <2>1. kernel' = kernel /\ n \in settled
    BY <1>6 DEF OpenMenuFile, WriteMenuFile, FailMenuFile, served
  <2>2. menu'[<<n, 0>>] = menu[<<n, 0>>]
    <3>1. FailMenuFile(p, m) \/ n # m
      BY <1>6 DEF OpenMenuFile, WriteMenuFile, MenuInv, WrittenBehind
    <3>2. /\ menu \in [MenuFiles -> MenuContent] /\ <<n, 0>> \in MenuFiles
      BY <2>1, BoundsAssumption DEF BaseInv, TypeOK, MenuFiles
    <3> QED
      BY <1>6, <3>1, <3>2 DEF OpenMenuFile, WriteMenuFile, FailMenuFile, served
  <2> QED
    BY <1>2, <2>1, <2>2
<1>7. ASSUME NEW p \in Procs, Start(p) \/ Step(p) \/ Crash(p),
             ~AttachLoop(p), ~Umount(p), ~SweepUmount(p), ~Finish(p),
             \A m \in Interfaces : ~OpenMenuFile(p, m) /\ ~WriteMenuFile(p, m)
                                   /\ ~FailMenuFile(p, m)
      PROVE  menu' = menu /\ settled' = settled /\ kernel' = kernel
  BY <1>7
  DEF Step, Start, AcquireLock, LockBusy, DiscoverNothing, Discover,
      RebuildTree, MountStep, CheckMounted, Verify, PickLoop, Inspect,
      MountsDone, MenuStep, Detect, DetectDone, CleanupStep, ListMountPoints,
      SweepCheck, SweepDone, Crash, served
<1>8. ASSUME NEW j \in Isos, PutIso(j) \/ RemoveIso(j)
      PROVE  menu' = menu /\ settled' = settled /\ kernel' = kernel
  BY <1>8 DEF PutIso, RemoveIso, served
<1>9. CASE UNCHANGED vars
  BY <1>2, <1>9 DEF vars, kernel
<1> QED
  BY <1>2, <1>3, <1>4, <1>5, <1>6, <1>7, <1>8, <1>9 DEF Next

(* The menus the last prepare() wrote boot what is mounted.                 *)
THEOREM MenusAreServable ==
    ASSUME Commands \subseteq {"prepare"} PROVE Spec => []MenusServable
<1>1. Init => MenusServable
  BY DEF Init, MenusServable
<1>2. BaseInv /\ MountInv /\ MenuInv /\ DetectionCurrent /\ MenusServable
        /\ [Next]_vars => MenusServable'
  BY ServableNext
<1>3. "status" \notin Commands
  OBVIOUS
<1> QED
  BY <1>1, <1>2, <1>3, BaseInvariant, MountInvariant, MenuInvariant,
     DetectedIsCurrent, PTL DEF Spec

---------------------------------------------------------------------------
(* A command advances with each of its steps *)

LEMMA Phases ==
    /\ Phase["idle"] = 0 /\ Phase["lock"] = 1 /\ Phase["discover"] = 2
    /\ Phase["tree"] = 3 /\ Phase["mount"] = 4 /\ Phase["verify"] = 4
    /\ Phase["umount"] = 4 /\ Phase["pick"] = 4 /\ Phase["attach"] = 4
    /\ Phase["inspect"] = 4 /\ Phase["detect"] = 5 /\ Phase["menus"] = 6
    /\ Phase["listdirs"] = 1 /\ Phase["sweep"] = 2
    /\ Phase["sweepUmount"] = 2
BY DEF Phase

LEMMA Stages ==
    /\ DOMAIN Stage = {"mount", "verify", "umount", "pick", "attach", "inspect",
                       "sweep", "sweepUmount"}
    /\ Stage["mount"] = 1 /\ Stage["verify"] = 2 /\ Stage["umount"] = 3
    /\ Stage["pick"] = 4 /\ Stage["attach"] = 5 /\ Stage["inspect"] = 6
    /\ Stage["sweep"] = 1 /\ Stage["sweepUmount"] = 2
BY DEF Stage

(* Stages of the same loop.                                                *)
Loop == {"mount", "verify", "umount", "pick", "attach", "inspect"}

HandHeld(s) == s.pc \in HasIso => s.cur \in s.todo

(* A step that leaves all but where the run is, its ISO and its device.     *)
Onward(s, r) ==
    /\ r.cmd = s.cmd /\ r.todo = s.todo
    /\ \/ s.pc \in Loop /\ r.pc \in Loop /\ Stage[s.pc] < Stage[r.pc]
       \/ s.pc = "sweep" /\ r.pc = "sweepUmount"
    /\ r.cur \in r.todo

(* A step that is through with an ISO.                                     *)
OneLess(s, r) ==
    /\ r.cmd = s.cmd /\ r.todo \subseteq s.todo /\ r.todo # s.todo
    /\ \/ s.pc \in Loop /\ r.pc = "mount"
       \/ s.pc \in {"sweep", "sweepUmount"} /\ r.pc = "sweep"
       \/ s.pc = "detect" /\ r.pc = "detect"

(* A step on to the next loop.                                             *)
NextLoop(s, r) ==
    /\ r.cmd = s.cmd
    /\ \/ s.pc = "lock" /\ r.pc = "discover"
       \/ s.pc = "discover" /\ r.pc \in {"tree", "mount"}
       \/ s.pc = "tree" /\ r.pc = "mount"
       \/ s.pc = "mount" /\ r.pc = "detect"
       \/ s.pc = "detect" /\ r.pc = "menus"
       \/ s.pc = "listdirs" /\ r.pc = "sweep"

(* A step that writes a menu file, or gives up its interface.               *)
OneWrite(s, r) ==
    /\ r.cmd = s.cmd /\ r.todo = s.todo
    /\ s.pc = "menus" /\ r.pc = "menus"
    /\ r.writes # s.writes
    /\ \A n \in Interfaces :
         r.writes[n] = s.writes[n] \/ Writes(s.writes[n], r.writes[n])

MovesOn(s, r) ==
    \/ s.pc # "idle" /\ r = Idle
    \/ Onward(s, r) \/ OneLess(s, r) \/ NextLoop(s, r) \/ OneWrite(s, r)

LEMMA MovesAdvance ==
    ASSUME NEW s, NEW r, MovesOn(s, r)
    PROVE  Advances(s, r) /\ HandHeld(r)
<1>1. CASE s.pc # "idle" /\ r = Idle
  BY <1>1 DEF Advances, HandHeld, Idle, HasIso
<1>2. CASE Onward(s, r)
  <2>1. Phase[s.pc] = Phase[r.pc] /\ s.pc # "idle"
    BY <1>2, Phases DEF Onward, Loop
  <2>2. {s.pc, r.pc} \subseteq DOMAIN Stage /\ Stage[s.pc] < Stage[r.pc]
    BY <1>2, Stages DEF Onward, Loop
  <2> QED
    BY <1>2, <2>1, <2>2 DEF Advances, HandHeld, Onward
<1>3. CASE OneLess(s, r)
  BY <1>3, Phases DEF Advances, HandHeld, OneLess, Loop, HasIso
<1>4. CASE NextLoop(s, r)
  BY <1>4, Phases DEF Advances, HandHeld, NextLoop, HasIso
<1>5. CASE OneWrite(s, r)
  BY <1>5, Phases DEF Advances, HandHeld, OneWrite, HasIso
<1> QED
  BY <1>1, <1>2, <1>3, <1>4, <1>5 DEF MovesOn

(* The ISOs a command has left, and the one it takes first.                *)
LEMMA FirstLeft ==
    ASSUME BaseInv, NEW p \in Procs, proc[p].todo # {}
    PROVE  Least(proc[p].todo) \in proc[p].todo
<1>1. proc[p].todo \subseteq Isos /\ Isos \subseteq Nat
  BY LocalFacts, BoundsAssumption DEF ProcState, Isos
<1> QED
  BY <1>1, LeastIsElement

LEMMA MountResultMoves ==
    ASSUME BaseInv, NEW p \in Procs, proc[p].pc \in Loop \ {"mount", "inspect"},
           HandHeld(proc[p]), MountSucceeds(p) \/ MountFails(p)
    PROVE  MovesOn(proc[p], proc'[p])
<1> DEFINE s == proc[p]
           r1 == [s EXCEPT !.pc = "mount", !.dev = 0, !.todo = @ \ {s.cur},
                           !.mounted = @ \cup {s.cur}]
           r2 == [s EXCEPT !.pc = "inspect", !.dev = 0]
           r3 == [s EXCEPT !.pc = "mount", !.dev = 0, !.todo = @ \ {s.cur}]
<1>1. s \in ProcState /\ s.cur \in s.todo
  BY LocalFacts DEF HandHeld, HasIso, Loop
<1>2. /\ r1.cmd = s.cmd /\ r1.pc = "mount" /\ r1.todo = s.todo \ {s.cur}
      /\ r3.cmd = s.cmd /\ r3.pc = "mount" /\ r3.todo = s.todo \ {s.cur}
      /\ r2.cmd = s.cmd /\ r2.pc = "inspect" /\ r2.todo = s.todo
      /\ r2.cur = s.cur
  BY <1>1 DEF ProcState
<1>3. Become(p, r1) \/ Become(p, r2) \/ Become(p, r3)
  BY DEF MountSucceeds, MountFails
<1> HIDE DEF r1, r2, r3
<1>4. OneLess(s, r1) /\ OneLess(s, r3)
  BY <1>1, <1>2 DEF OneLess, Loop
<1>5. Onward(s, r2)
  BY <1>1, <1>2, Stages DEF Onward, Loop
<1> QED
  BY <1>3, <1>4, <1>5, Becomes DEF MovesOn

LEMMA MountMoves ==
    ASSUME BaseInv, NEW p \in Procs, HandHeld(proc[p]), MountStep(p)
    PROVE  MovesOn(proc[p], proc'[p])
<1> DEFINE s == proc[p]
<1>1. s \in ProcState
  BY LocalFacts
<1>2. ASSUME s.pc \in Loop, NEW l \in Loop, Stage[s.pc] < Stage[l],
             s.cur \in s.todo, Become(p, [s EXCEPT !.pc = l])
      PROVE  MovesOn(s, proc'[p])
  <2> DEFINE r == [s EXCEPT !.pc = l]
  <2>1. r.cmd = s.cmd /\ r.pc = l /\ r.todo = s.todo /\ r.cur = s.cur
    BY <1>1 DEF ProcState
  <2> HIDE DEF r
  <2>2. proc'[p] = r
    BY <1>2, Becomes DEF r
  <2> QED
    BY <1>2, <2>1, <2>2 DEF MovesOn, Onward
<1>3. CASE CheckMounted(p)
  <2> DEFINE i == Least(s.todo)
             l == IF mounts[i] = <<>> THEN "pick" ELSE "verify"
             r1 == [s EXCEPT !.cur = i, !.pc = l]
             r2 == [s EXCEPT !.cur = i, !.todo = @ \ {i}]
             r3 == [s EXCEPT !.cur = i, !.pc = "pick"]
  <2>1. /\ s.pc = "mount" /\ i \in s.todo
        /\ Become(p, r1) \/ Become(p, r2) \/ Become(p, r3)
    BY <1>3, FirstLeft DEF CheckMounted, At
  <2>2. l \in {"pick", "verify"}
    OBVIOUS
  <2> HIDE DEF i, l
  <2>3. /\ r1.cmd = s.cmd /\ r1.pc = l /\ r1.todo = s.todo /\ r1.cur = i
        /\ r2.cmd = s.cmd /\ r2.pc = s.pc /\ r2.todo = s.todo \ {i}
        /\ r3.cmd = s.cmd /\ r3.pc = "pick" /\ r3.todo = s.todo /\ r3.cur = i
    BY <1>1 DEF ProcState
  <2> HIDE DEF r1, r2, r3
  <2>4. Onward(s, r1) /\ Onward(s, r3)
    BY <2>1, <2>2, <2>3, Stages DEF Onward, Loop
  <2>5. OneLess(s, r2)
    BY <2>1, <2>3 DEF OneLess, Loop
  <2> QED
    BY <2>1, <2>4, <2>5, Becomes DEF MovesOn
<1>4. CASE Verify(p) \/ Umount(p)
  <2>1. s.pc \in {"verify", "umount"} /\ s.cur \in s.todo
    BY <1>4 DEF Verify, Umount, At, HandHeld, HasIso
  <2>2. \/ MountSucceeds(p) \/ MountFails(p)
        \/ s.pc = "verify" /\ Become(p, [s EXCEPT !.pc = "umount"])
        \/ s.pc = "umount" /\ Become(p, [s EXCEPT !.pc = "pick"])
    BY <1>4 DEF Verify, Umount, At
  <2> QED
    BY <1>2, <2>1, <2>2, Stages, MountResultMoves DEF Loop
<1>5. CASE PickLoop(p) \/ AttachLoop(p)
  <2> DEFINE d == Least(FreeLoops)
             r == [s EXCEPT !.dev = d, !.pc = "attach"]
  <2>1. s.pc \in {"pick", "attach"} /\ s.cur \in s.todo
    BY <1>5 DEF PickLoop, AttachLoop, At, HandHeld, HasIso
  <2>2. \/ MountSucceeds(p) \/ MountFails(p)
        \/ s.pc = "pick" /\ Become(p, r)
    BY <1>5 DEF PickLoop, AttachLoop, At
  <2> HIDE DEF d
  <2>3. r.cmd = s.cmd /\ r.pc = "attach" /\ r.todo = s.todo /\ r.cur = s.cur
    BY <1>1 DEF ProcState
  <2> HIDE DEF r
  <2>4. s.pc = "pick" => Onward(s, r)
    BY <2>1, <2>3, Stages DEF Onward, Loop
  <2> QED
    BY <2>1, <2>2, <2>4, Becomes, MountResultMoves DEF MovesOn, Loop
<1>6. CASE Inspect(p)
  <2> DEFINE r == [s EXCEPT !.todo = @ \ {s.cur}, !.pc = "mount"]
  <2>1. s.pc = "inspect" /\ s.cur \in s.todo /\ Become(p, r)
    BY <1>6 DEF Inspect, At, HandHeld, HasIso
  <2>2. r.cmd = s.cmd /\ r.pc = "mount" /\ r.todo = s.todo \ {s.cur}
    BY <1>1 DEF ProcState
  <2> HIDE DEF r
  <2> QED
    BY <2>1, <2>2, Becomes DEF MovesOn, OneLess, Loop
<1>7. CASE MountsDone(p)
  <2> DEFINE r == [s EXCEPT !.todo = s.mounted, !.pc = "detect"]
  <2>1. s.pc = "mount" /\ (Become(p, r) \/ Become(p, Idle))
    BY <1>7 DEF MountsDone, At
  <2>2. r.cmd = s.cmd /\ r.pc = "detect"
    BY <1>1 DEF ProcState
  <2> HIDE DEF r
  <2> QED
    BY <2>1, <2>2, Becomes DEF MovesOn, NextLoop
<1> QED
  BY <1>3, <1>4, <1>5, <1>6, <1>7 DEF MountStep

LEMMA CleanupMoves ==
    ASSUME BaseInv, NEW p \in Procs, HandHeld(proc[p]), CleanupStep(p)
    PROVE  MovesOn(proc[p], proc'[p])
<1> DEFINE s == proc[p]
<1>1. s \in ProcState
  BY LocalFacts
<1>2. CASE ListMountPoints(p)
  <2> PICK S \in SUBSET Isos :
        Become(p, [s EXCEPT !.todo = S, !.pc = "sweep"])
    BY <1>2, Zenon DEF ListMountPoints
  <2> DEFINE r == [s EXCEPT !.todo = S, !.pc = "sweep"]
  <2>1. s.pc = "listdirs"
    BY <1>2 DEF ListMountPoints, At
  <2>2. r.cmd = s.cmd /\ r.pc = "sweep"
    BY <1>1 DEF ProcState
  <2> HIDE DEF r
  <2>3. proc'[p] = r
    BY Becomes DEF r
  <2> QED
    BY <2>1, <2>2, <2>3 DEF MovesOn, NextLoop
<1>3. CASE SweepCheck(p)
  <2>1. s.pc = "sweep"
    BY <1>3, Zenon DEF SweepCheck, At
  <2>2. CASE Become(p, Idle)
    BY <2>1, <2>2, Becomes DEF MovesOn
  <2>3. ASSUME NEW i \in s.todo,
               \/ Become(p, [s EXCEPT !.todo = @ \ {i}])
               \/ Become(p, [s EXCEPT !.cur = i, !.pc = "sweepUmount"])
        PROVE  MovesOn(s, proc'[p])
    <3> DEFINE r1 == [s EXCEPT !.todo = @ \ {i}]
               r2 == [s EXCEPT !.cur = i, !.pc = "sweepUmount"]
    <3>1. /\ r1.cmd = s.cmd /\ r1.pc = s.pc /\ r1.todo = s.todo \ {i}
          /\ r2.cmd = s.cmd /\ r2.pc = "sweepUmount"
          /\ r2.todo = s.todo /\ r2.cur = i
      BY <1>1 DEF ProcState
    <3>2. Become(p, r1) \/ Become(p, r2)
      BY <2>3
    <3> HIDE DEF r1, r2
    <3>3. OneLess(s, r1) /\ Onward(s, r2)
      BY <2>1, <3>1 DEF OneLess, Onward
    <3> QED
      BY <3>2, <3>3, Becomes DEF MovesOn
  <2> QED
    BY <1>3, <2>2, <2>3, Zenon DEF SweepCheck
<1>4. CASE SweepUmount(p)
  <2> DEFINE r == [s EXCEPT !.todo = @ \ {s.cur}, !.pc = "sweep"]
  <2>1. s.pc = "sweepUmount" /\ s.cur \in s.todo /\ Become(p, r)
    BY <1>4 DEF SweepUmount, SweepUmountSucceeds, At, HandHeld, HasIso
  <2>2. r.cmd = s.cmd /\ r.pc = "sweep" /\ r.todo = s.todo \ {s.cur}
    BY <1>1 DEF ProcState
  <2> HIDE DEF r
  <2> QED
    BY <2>1, <2>2, Becomes DEF MovesOn, OneLess
<1>5. CASE SweepDone(p)
  BY <1>5, Becomes DEF SweepDone, At, MovesOn
<1> QED
  BY <1>2, <1>3, <1>4, <1>5 DEF CleanupStep

LEMMA MenuMoves ==
    ASSUME BaseInv, NEW p \in Procs, MenuStep(p)
    PROVE  MovesOn(proc[p], proc'[p])
<1> DEFINE s == proc[p]
<1>1. s \in ProcState
  BY LocalFacts
<1>2. CASE Detect(p)
  <2> DEFINE i == Least(s.todo)
             c == Content(i)
             r1 == [s EXCEPT !.todo = @ \ {i}, !.infos[i] = c]
             r2 == [s EXCEPT !.todo = @ \ {i}, !.failed = @ \cup {i}]
  <2>1. /\ s.pc = "detect" /\ i \in s.todo
        /\ Become(p, r1) \/ Become(p, r2)
    BY <1>2, FirstLeft DEF Detect, At
  <2> HIDE DEF i, c
  <2>2. /\ r1.cmd = s.cmd /\ r1.pc = s.pc /\ r1.todo = s.todo \ {i}
        /\ r2.cmd = s.cmd /\ r2.pc = s.pc /\ r2.todo = s.todo \ {i}
    BY <1>1 DEF ProcState
  <2> HIDE DEF r1, r2
  <2>3. OneLess(s, r1) /\ OneLess(s, r2)
    BY <2>1, <2>2 DEF OneLess
  <2> QED
    BY <2>1, <2>3, Becomes DEF MovesOn
<1>3. CASE DetectDone(p)
  <2> DEFINE r == [s EXCEPT !.pc = "menus"]
  <2>1. s.pc = "detect" /\ Become(p, r)
    BY <1>3 DEF DetectDone, At
  <2>2. r.cmd = s.cmd /\ r.pc = "menus"
    BY <1>1 DEF ProcState
  <2> HIDE DEF r
  <2> QED
    BY <2>1, <2>2, Becomes DEF MovesOn, NextLoop
<1>4. CASE Finish(p)
  BY <1>4, Becomes DEF Finish, At, MovesOn
<1>5. ASSUME NEW n \in Interfaces,
             OpenMenuFile(p, n) \/ WriteMenuFile(p, n) \/ FailMenuFile(p, n)
      PROVE  MovesOn(s, proc'[p])
  <2> DEFINE v == s.writes[n]
             r1 == [s EXCEPT !.writes[n].open = TRUE]
             r2 == [s EXCEPT !.writes[n].open = FALSE, !.writes[n].file = @ + 1]
             r3 == [s EXCEPT !.writes[n].ok = FALSE]
  <2>1. /\ s.pc = "menus" /\ v.ok
        /\ \/ Become(p, r1) /\ ~v.open
           \/ Become(p, r2)
           \/ Become(p, r3)
    BY <1>5 DEF OpenMenuFile, WriteMenuFile, FailMenuFile, Writing, At
  <2>2. v.file \in Nat
    BY <1>1, BoundsAssumption DEF ProcState, WriteProgress
  <2>3. /\ r1.cmd = s.cmd /\ r1.pc = s.pc /\ r1.todo = s.todo
        /\ r2.cmd = s.cmd /\ r2.pc = s.pc /\ r2.todo = s.todo
        /\ r3.cmd = s.cmd /\ r3.pc = s.pc /\ r3.todo = s.todo
    BY <1>1 DEF ProcState
  <2>4. \A m \in Interfaces \ {n} :
          /\ r1.writes[m] = s.writes[m]
          /\ r2.writes[m] = s.writes[m]
          /\ r3.writes[m] = s.writes[m]
    BY <1>1 DEF ProcState
  <2>5. /\ r1.writes[n].ok = v.ok /\ r1.writes[n].file = v.file
        /\ r1.writes[n].open
    BY <1>1 DEF ProcState, WriteProgress
  <2>6. r2.writes[n].ok = v.ok /\ r2.writes[n].file = v.file + 1
    BY <1>1 DEF ProcState, WriteProgress
  <2>7. ~r3.writes[n].ok
    BY <1>1 DEF ProcState, WriteProgress
  <2> HIDE DEF r1, r2, r3
  <2>8. ~v.open => Writes(v, r1.writes[n]) /\ r1.writes # s.writes
    BY <2>2, <2>5 DEF Writes
  <2>9. Writes(v, r2.writes[n]) /\ r2.writes # s.writes
    BY <2>2, <2>6 DEF Writes
  <2>10. Writes(v, r3.writes[n]) /\ r3.writes # s.writes
    BY <2>1, <2>7 DEF Writes
  <2>11. /\ ~v.open => OneWrite(s, r1)
         /\ OneWrite(s, r2) /\ OneWrite(s, r3)
    BY <2>1, <2>3, <2>4, <2>8, <2>9, <2>10 DEF OneWrite
  <2> QED
    BY <2>1, <2>11, Becomes DEF MovesOn
<1> QED
  BY <1>2, <1>3, <1>4, <1>5 DEF MenuStep

LEMMA StepMoves ==
    ASSUME BaseInv, NEW p \in Procs, HandHeld(proc[p]), Step(p)
    PROVE  MovesOn(proc[p], proc'[p])
<1> DEFINE s == proc[p]
<1>1. s \in ProcState
  BY LocalFacts
<1>2. ASSUME NEW l, NEW m, s.pc = l, Become(p, [s EXCEPT !.pc = m]),
             \/ l = "lock" /\ m = "discover"
             \/ l = "tree" /\ m = "mount"
      PROVE  MovesOn(s, proc'[p])
  <2> DEFINE r == [s EXCEPT !.pc = m]
  <2>1. r.cmd = s.cmd /\ r.pc = m
    BY <1>1 DEF ProcState
  <2> HIDE DEF r
  <2>2. proc'[p] = r
    BY <1>2, Becomes DEF r
  <2> QED
    BY <1>2, <2>1, <2>2 DEF MovesOn, NextLoop
<1>3. CASE AcquireLock(p) \/ RebuildTree(p)
  BY <1>2, <1>3 DEF AcquireLock, RebuildTree, At
<1>4. CASE LockBusy(p) \/ DiscoverNothing(p)
  BY <1>4, Becomes DEF LockBusy, DiscoverNothing, At, MovesOn
<1>5. CASE Discover(p)
  <2> DEFINE l == IF s.cmd = "prepare" THEN "tree" ELSE "mount"
  <2>1. PICK S : Become(p, [s EXCEPT !.todo = S, !.pc = l])
    BY <1>5, Zenon DEF Discover
  <2> DEFINE r == [s EXCEPT !.todo = S, !.pc = l]
  <2>2. s.pc = "discover" /\ l \in {"tree", "mount"}
    BY <1>5, Zenon DEF Discover, At
  <2> HIDE DEF l
  <2>3. r.cmd = s.cmd /\ r.pc = l
    BY <1>1 DEF ProcState
  <2> HIDE DEF r
  <2>4. proc'[p] = r
    BY <2>1, Becomes DEF r
  <2> QED
    BY <2>2, <2>3, <2>4 DEF MovesOn, NextLoop
<1> QED
  BY <1>3, <1>4, <1>5, MountMoves, MenuMoves, CleanupMoves DEF Step

(* A step of a run leaves the other runs alone.                            *)
LEMMA StepElsewhere ==
    ASSUME BaseInv, NEW p \in Procs, Start(p) \/ Step(p) \/ Crash(p)
    PROVE  \E r : Become(p, r)
<1>1. CASE MountSucceeds(p) \/ MountFails(p)
  BY <1>1 DEF MountSucceeds, MountFails
<1>2. CASE \/ Start(p) \/ AcquireLock(p) \/ LockBusy(p)
           \/ DiscoverNothing(p) \/ Discover(p) \/ RebuildTree(p) \/ Crash(p)
  BY <1>2, Zenon
  DEF Start, AcquireLock, LockBusy, DiscoverNothing, Discover, RebuildTree, Crash
<1>3. CASE MountStep(p)
  BY <1>1, <1>3, Zenon
  DEF MountStep, CheckMounted, Verify, Umount, PickLoop, AttachLoop, Inspect,
      MountsDone
<1>4. CASE MenuStep(p)
  BY <1>4, Zenon
  DEF MenuStep, Detect, DetectDone, Finish, OpenMenuFile, WriteMenuFile,
      FailMenuFile
<1>5. CASE CleanupStep(p)
  <2>1. CASE SweepCheck(p)
    BY <2>1, Zenon DEF SweepCheck
  <2> QED
    BY <1>5, <2>1, Zenon
    DEF CleanupStep, ListMountPoints, SweepUmount, SweepUmountSucceeds, SweepDone
<1> QED
  BY <1>2, <1>3, <1>4, <1>5, Zenon DEF Step

(* A command starts with no ISO in hand.                                   *)
LEMMA StartHolds ==
    ASSUME BaseInv, NEW p \in Procs, Start(p) \/ Crash(p)
    PROVE  HandHeld(proc'[p])
<1>1. proc[p] \in ProcState
  BY LocalFacts
<1>2. CASE Crash(p)
  BY <1>2, Becomes DEF Crash, HandHeld, Idle, HasIso
<1>3. CASE Start(p)
  <2> DEFINE l(c) == CASE c = "prepare" -> "lock"
                       [] c = "status" -> "discover"
                       [] c = "cleanup" -> "listdirs"
  <2>1. PICK c \in Commands : Become(p, [proc[p] EXCEPT !.cmd = c, !.pc = l(c)])
    BY <1>3, Zenon DEF Start
  <2> DEFINE m == l(c)
             r == [proc[p] EXCEPT !.cmd = c, !.pc = m]
  <2>2. m \in {"lock", "discover", "listdirs"}
    BY CommandsAssumption
  <2>3. Become(p, r)
    BY <2>1
  <2> HIDE DEF m, l
  <2>4. r.pc = m
    BY <1>1 DEF ProcState
  <2> HIDE DEF r
  <2> QED
    BY <2>2, <2>3, <2>4, Becomes DEF HandHeld, HasIso
<1> QED
  BY <1>2, <1>3

LEMMA InHandNext ==
    ASSUME BaseInv, InHand, [Next]_vars
    PROVE  InHand'
<1> SUFFICES ASSUME NEW q \in Procs PROVE HandHeld(proc'[q])
  BY DEF InHand, HandHeld
<1>1. HandHeld(proc[q])
  BY DEF InHand, HandHeld
<1>2. CASE UNCHANGED proc
  BY <1>1, <1>2
<1>3. ASSUME NEW p \in Procs, Start(p) \/ Step(p) \/ Crash(p)
      PROVE  HandHeld(proc'[q])
  <2>1. CASE p = q
    BY <1>1, <1>3, <2>1, StartHolds, StepMoves, MovesAdvance
  <2>2. CASE p # q
    BY <1>1, <1>3, <2>2, StepElsewhere, Becomes
  <2> QED
    BY <2>1, <2>2
<1> QED
  BY <1>2, <1>3 DEF Next, PutIso, RemoveIso, vars

(* The ISO a command has in hand is one of those it has left, so being     *)
(* through with it leaves less.                                            *)
THEOREM InHandInvariant == Spec => []InHand
<1>1. Init => InHand
  BY DEF Init, InHand, Idle, HasIso
<1>2. BaseInv /\ InHand /\ [Next]_vars => InHand'
  BY InHandNext
<1> QED
  BY <1>1, <1>2, BaseInvariant, PTL DEF Spec

(* No step of prepare(), cleanup() or status() takes the command back or   *)
(* leaves it where it is, whatever fails and whatever other runs do to the *)
(* mounts: for any number of ISOs, runs, interfaces and failures.          *)
THEOREM StepsAdvance == Spec => EveryStepAdvances
<1>1. BaseInv /\ InHand =>
        [\A p \in Procs : Step(p) => Advances(proc[p], proc'[p])]_vars
  <2> SUFFICES ASSUME BaseInv, InHand, NEW p \in Procs, Step(p)
               PROVE  Advances(proc[p], proc'[p])
    OBVIOUS
  <2>1. HandHeld(proc[p])
    BY DEF InHand, HandHeld
  <2> QED
    BY <2>1, StepMoves, MovesAdvance
<1> QED
  BY <1>1, BaseInvariant, InHandInvariant, PTL DEF EveryStepAdvances

(* Advancing leads back to no earlier state of the command, and there are  *)
(* finitely many: a command that is given its steps comes to its end.      *)
THEOREM AdvancesIsAnOrder ==
    ASSUME NEW s \in ProcState, NEW r \in ProcState, NEW q \in ProcState,
           Advances(s, r)
    PROVE  /\ r # s
           /\ Advances(r, q) => Advances(s, q)
<1>1. \A l \in Labels : Phase[l] \in 0..6
  BY Phases DEF Labels
<1>2. \A l \in Labels : l \in DOMAIN Stage => Stage[l] \in 1..6
  BY Stages DEF Labels
<1>3. \A l \in Labels : Phase[l] = Phase["menus"] => l = "menus"
  BY Phases DEF Labels
<1>4. \A l \in Labels : Phase[l] = Phase["idle"] => l = "idle"
  BY Phases DEF Labels
<1>5. /\ s.pc \in Labels /\ r.pc \in Labels /\ q.pc \in Labels
      /\ Idle.pc = "idle"
  BY DEF ProcState, Idle
<1>6. \A n \in Interfaces :
        /\ s.writes[n] \in WriteProgress
        /\ r.writes[n] \in WriteProgress
        /\ q.writes[n] \in WriteProgress
  BY DEF ProcState
<1>7. \A n \in Interfaces :
        Writes(s.writes[n], r.writes[n]) /\ Writes(r.writes[n], q.writes[n])
          => Writes(s.writes[n], q.writes[n])
  BY <1>6, BoundsAssumption DEF Writes, WriteProgress
<1>8. \A n \in Interfaces :
        Writes(s.writes[n], q.writes[n]) => q.writes[n] # s.writes[n]
  BY <1>6, BoundsAssumption DEF Writes, WriteProgress
<1>9. r # s
  BY <1>1, <1>2, <1>5 DEF Advances
<1>10. ASSUME Advances(r, q), r # Idle, q # Idle,
              Phase[s.pc] = Phase[r.pc], Phase[r.pc] = Phase[q.pc],
              r.todo = s.todo, q.todo = r.todo
       PROVE  Advances(s, q)
  <2>1. /\ s.pc # "idle" /\ q.cmd = s.cmd /\ q.todo = s.todo
        /\ Phase[s.pc] = Phase[q.pc]
    BY <1>1, <1>5, <1>10 DEF Advances
  <2> DEFINE Later(u, v) ==
               {u.pc, v.pc} \subseteq DOMAIN Stage /\ Stage[u.pc] < Stage[v.pc]
             More(u, v) ==
               /\ u.pc = "menus" /\ v.writes # u.writes
               /\ \A n \in Interfaces : \/ v.writes[n] = u.writes[n]
                                       \/ Writes(u.writes[n], v.writes[n])
  <2>2. Later(s, r) \/ More(s, r)
    BY <1>1, <1>5, <1>10 DEF Advances
  <2>3. Later(r, q) \/ More(r, q)
    BY <1>1, <1>5, <1>10 DEF Advances
  <2>4. CASE Later(s, r) /\ Later(r, q)
    BY <1>2, <1>5, <2>1, <2>4 DEF Advances
  <2>5. CASE More(s, r) /\ More(r, q)
    <3>1. PICK n \in Interfaces : r.writes[n] # s.writes[n]
      <4>1. /\ s.writes \in [Interfaces -> WriteProgress]
            /\ r.writes \in [Interfaces -> WriteProgress]
        BY DEF ProcState
      <4> QED
        BY <2>5, <4>1
    <3>2. Writes(s.writes[n], q.writes[n])
      BY <1>7, <2>5, <3>1
    <3>3. q.writes # s.writes
      BY <1>8, <3>2
    <3>4. \A m \in Interfaces : \/ q.writes[m] = s.writes[m]
                                \/ Writes(s.writes[m], q.writes[m])
      BY <1>7, <2>5
    <3> QED
      BY <2>1, <2>5, <3>3, <3>4 DEF Advances
  <2>6. "menus" \notin DOMAIN Stage
    BY Stages
  <2>7. s.pc = "menus" <=> r.pc = "menus"
    BY <1>3, <1>5, <1>10
  <2> QED
    BY <2>2, <2>3, <2>4, <2>5, <2>6, <2>7
<1>11. ASSUME Advances(r, q) PROVE Advances(s, q)
  <2>1. r # Idle /\ s.pc # "idle"
    BY <1>5, <1>11 DEF Advances
  <2>2. CASE q = Idle
    BY <2>1, <2>2 DEF Advances
  <2>3. CASE q # Idle
    <3>1. /\ q.cmd = s.cmd
          /\ Phase[s.pc] \in Int /\ Phase[r.pc] \in Int /\ Phase[q.pc] \in Int
          /\ Phase[s.pc] <= Phase[r.pc] /\ Phase[r.pc] <= Phase[q.pc]
      BY <1>1, <1>5, <1>11, <2>1, <2>3 DEF Advances
    <3>2. CASE Phase[s.pc] < Phase[q.pc]
      BY <2>1, <3>1, <3>2 DEF Advances
    <3>3. CASE Phase[s.pc] = Phase[r.pc] /\ Phase[r.pc] = Phase[q.pc]
      <4>1. r.todo \subseteq s.todo /\ q.todo \subseteq r.todo
        BY <1>11, <2>1, <2>3, <3>1, <3>3 DEF Advances
      <4>2. CASE r.todo = s.todo /\ q.todo = r.todo
        BY <1>10, <1>11, <2>1, <2>3, <3>3, <4>2
      <4>3. CASE q.todo # s.todo
        BY <2>1, <3>1, <3>3, <4>1, <4>3 DEF Advances
      <4> QED
        BY <4>1, <4>2, <4>3
    <3> QED
      BY <3>1, <3>2, <3>3
  <2> QED
    BY <2>2, <2>3
<1> QED
  BY <1>9, <1>11

=============================================================================
