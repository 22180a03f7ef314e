-------------------------- MODULE PxeRepairProofs ---------------------------
(* Proofs about PxeRepair, for every value of its constants: any ISOs,     *)
(* versions, interfaces, overrides, bounds on crashes and failures, and    *)
(* any number of runs beside the one that is left alone.                   *)
EXTENDS PxeRepair, PxeMenuProofs, FiniteSetTheorems

---------------------------------------------------------------------------
(* Mount points and loop devices *)

(* What a mount point shows is its topmost mount.                          *)
LEMMA TopMount ==
    ASSUME BaseInv, NEW i \in Isos, mounts[i] # <<>>
    PROVE  /\ Len(mounts[i]) \in Nat \ {0}
           /\ DOMAIN mounts[i] = 1..Len(mounts[i])
           /\ Head(mounts[i]) = mounts[i][1]
           /\ \A k \in DOMAIN mounts[i] : mounts[i][k] \in Loops
           /\ Content(i) = loops[mounts[i][Len(mounts[i])]]
<1>1. mounts[i] \in Seq(Loops)
  BY DEF BaseInv, TypeOK
<1>2. Len(mounts[i]) \in Nat \ {0} /\ DOMAIN mounts[i] = 1..Len(mounts[i])
  BY <1>1, EmptySeq, LenProperties
<1>3. \A k \in DOMAIN mounts[i] : mounts[i][k] \in Loops
  BY <1>1, <1>2, ElementOfSeq
<1>4. Head(mounts[i]) = mounts[i][1]
  BY <1>1, HeadTailProperties
<1> QED
  BY <1>2, <1>3, <1>4 DEF Content

(* If the first mount is the file in the folder, it is the only one: what  *)
(* lies above on a mount point is newer, and nothing newer was put there.  *)
LEMMA VerifiedShows ==
    ASSUME BaseInv, MountInv, NEW i \in Isos, VerifiedAs(i)
    PROVE  Shows(i)
<1> DEFINE n == Len(mounts[i])
           t == mounts[i][n]
<1>1. /\ n \in Nat \ {0} /\ DOMAIN mounts[i] = 1..n
      /\ loops[mounts[i][1]] = <<i, version[i]>> /\ Content(i) = loops[t]
  BY TopMount DEF VerifiedAs
<1>2. version[i] \in Nat
  BY BoundsAssumption DEF BaseInv, TypeOK
<1>3. 1 \in DOMAIN mounts[i] /\ n \in DOMAIN mounts[i]
  BY <1>1
<1>4. ~(1 < n)
  <2> SUFFICES ASSUME 1 < n PROVE FALSE
    OBVIOUS
  <2>1. loops[mounts[i][1]][2] < loops[t][2]
    BY <1>3 DEF MountInv, StacksAscend
  <2>2. loops[t] \in {i} \X (1..version[i])
    BY <1>3 DEF MountInv, MountsKnown
  <2>3. loops[t][2] \in 1..version[i]
    BY <2>2
  <2> QED
    BY <1>1, <1>2, <2>1, <2>3
<1>5. \A m \in Nat \ {0} : ~(1 < m) => m = 1
  OBVIOUS
<1>6. n = 1
  BY <1>1, <1>4, <1>5
<1> QED
  BY <1>1, <1>6 DEF Shows

(* Taking a mount off changes what another mount point shows in no way.    *)
LEMMA PopContent ==
    ASSUME BaseInv, NEW i \in Isos, mounts[i] # <<>>, PopMount(i),
           NEW j \in Isos \ {i}
    PROVE  mounts'[j] = mounts[j] /\ Content(j)' = Content(j)
<1>1. mounts'[j] = mounts[j]
  BY PopMounts
<1>2. CASE mounts[j] = <<>>
  BY <1>1, <1>2 DEF Content
<1>3. CASE mounts[j] # <<>>
  <2> DEFINE n == Len(mounts[j])
  <2>1. n \in DOMAIN mounts[j] /\ Content(j) = loops[mounts[j][n]]
    BY <1>3, TopMount
  <2>2. loops'[mounts'[j][n]] = loops[mounts[j][n]]
    BY <1>1, <2>1, PopMounts
  <2> QED
    BY <1>1, <1>3, <2>1, <2>2 DEF Content
<1> QED
  BY <1>2, <1>3

(* What the unmounted ISO shows then is older than its newest file, which  *)
(* can be mounted therefore.                                               *)
LEMMA PopMakesWay ==
    ASSUME BaseInv, MountInv, NEW i \in Isos, mounts[i] # <<>>, PopMount(i),
           UNCHANGED folder
    PROVE  ~AlreadyMounted(i)'
<1> SUFFICES ASSUME NEW k \in DOMAIN mounts'[i],
                    loops'[mounts'[i][k]] = <<i, version[i]>>
             PROVE  FALSE
  BY DEF AlreadyMounted, folder
<1> DEFINE n == Len(mounts[i])
<1>1. /\ n \in Nat \ {0} /\ DOMAIN mounts[i] = 1..n
      /\ mounts' \in [Isos -> Seq(Loops)] /\ Len(mounts'[i]) = n - 1
      /\ k \in DOMAIN mounts[i]
      /\ loops[mounts[i][k]] = <<i, version[i]>>
  BY TopMount, PopMounts
<1>2. k \in 1..(n - 1)
  <2>1. mounts'[i] \in Seq(Loops)
    BY <1>1
  <2> QED
    BY <1>1, <2>1, LenProperties
<1>3. n \in DOMAIN mounts[i] /\ k < n
  BY <1>1, <1>2
<1>4. loops[mounts[i][k]][2] < loops[mounts[i][n]][2]
  BY <1>1, <1>3 DEF MountInv, StacksAscend
<1>5. loops[mounts[i][n]] \in {i} \X (1..version[i])
  BY <1>3 DEF MountInv, MountsKnown
<1>6. loops[mounts[i][n]][2] \in 1..version[i] /\ version[i] \in Nat
  BY <1>5, BoundsAssumption DEF BaseInv, TypeOK
<1> QED
  BY <1>1, <1>4, <1>6

LEMMA PopAttached ==
    ASSUME BaseInv, AttachedIsMounted,
           NEW i \in Isos, mounts[i] # <<>>, PopMount(i)
    PROVE  AttachedIsMounted'
<1> SUFFICES ASSUME NEW e \in Loops, loops'[e] # NoFile
             PROVE  \E j \in Isos : \E k \in DOMAIN mounts'[j] : mounts'[j][k] = e
  BY DEF AttachedIsMounted
<1> DEFINE n == Len(mounts[i])
           rest == SubSeq(mounts[i], 1, n - 1)
<1>1. /\ mounts \in [Isos -> Seq(Loops)]
      /\ loops \in [Loops -> Files \cup {NoFile}]
      /\ mounts[i] \in Seq(Loops)
  BY DEF BaseInv, TypeOK
<1>2. /\ n \in Nat \ {0} /\ DOMAIN mounts[i] = 1..n /\ mounts[i][n] \in Loops
      /\ \A j \in Isos \ {i} : mounts'[j] = mounts[j]
  <2>1. n \in Nat \ {0} /\ DOMAIN mounts[i] = 1..n
    BY TopMount
  <2> QED
    BY <2>1, TopMount, PopMounts
<1>3. mounts'[i] = rest
  BY <1>1 DEF PopMount
<1>4. \A k \in 1..(n - 1) : k \in DOMAIN rest /\ rest[k] = mounts[i][k]
  <2>1. /\ mounts'[i] \in Seq(Loops) /\ Len(mounts'[i]) = n - 1
        /\ \A k \in DOMAIN mounts'[i] : mounts'[i][k] = mounts[i][k]
    BY PopMounts
  <2>2. DOMAIN mounts'[i] = 1..(n - 1)
    BY <2>1, LenProperties
  <2> HIDE DEF rest
  <2> QED
    BY <1>3, <2>1, <2>2
<1>5. loops[e] # NoFile
  BY PopMounts
<1>6. PICK j \in Isos : \E k \in DOMAIN mounts[j] : mounts[j][k] = e
  BY <1>5 DEF AttachedIsMounted
<1>7. CASE j # i
  BY <1>2, <1>6, <1>7
<1>8. CASE j = i
  <2>1. PICK k \in 1..n : mounts[i][k] = e
    BY <1>2, <1>6, <1>8
  <2>2. CASE k # n
    <3>1. k \in 1..(n - 1)
      BY <1>2, <2>2
    <3> HIDE DEF rest
    <3> QED
      BY <1>3, <1>4, <2>1, <3>1
  <2>3. CASE k = n
    <3>1. \/ \E m \in DOMAIN rest : rest[m] = e
          \/ \E m \in Isos \ {i} : \E x \in DOMAIN mounts[m] : mounts[m][x] = e
      BY <1>1, <2>1, <2>3 DEF PopMount
    <3> HIDE DEF rest
    <3> QED
      BY <1>2, <1>3, <3>1
  <2> QED
    BY <2>2, <2>3
<1> QED
  BY <1>7, <1>8

(* While there is room for one mount more, there is a free loop device, if *)
(* there are as many of them as mounts that could pile up.                 *)
LEMMA FreeLoopExists ==
    ASSUME BaseInv, MountInv, AttachedIsMounted,
           NumIsos * (1 + MaxFaults) <= NumLoops,
           NEW i \in Isos, Len(mounts[i]) <= faults
    PROVE  FreeLoops # {}
<1> SUFFICES ASSUME FreeLoops = {} PROVE FALSE
  OBVIOUS
<1> DEFINE high == 1 + MaxFaults
           room == Isos \X (1..high)
           slots == room \ {<<i, high>>}
           Holds(w, d) == w[2] \in DOMAIN mounts[w[1]] /\ mounts[w[1]][w[2]] = d
           at == [d \in Loops |-> CHOOSE w \in slots : Holds(w, d)]
<1>1. ASSUME NEW d \in Loops PROVE \E w \in slots : Holds(w, d)
  <2>1. loops[d] # NoFile
    BY DEF FreeLoops
  <2>2. PICK j \in Isos : \E k \in DOMAIN mounts[j] : mounts[j][k] = d
    BY <2>1 DEF AttachedIsMounted
  <2>3. PICK k \in DOMAIN mounts[j] : mounts[j][k] = d
    BY <2>2
  <2>4. mounts[j] # <<>>
    <3>1. DOMAIN <<>> = {}
      OBVIOUS
    <3> QED
      BY <2>3, <3>1
  <2>5. /\ Len(mounts[j]) \in Nat /\ k \in 1..Len(mounts[j])
        /\ Len(mounts[j]) <= 1 + faults /\ faults \in 0..MaxFaults
    BY <2>3, <2>4, TopMount DEF MountInv, BaseInv, TypeOK
  <2>6. k \in 1..high /\ (j = i => k # high)
    BY <2>5, BoundsAssumption
  <2>7. <<j, k>> \in slots
    BY <2>6
  <2> QED
    BY <2>3, <2>7
<1>2. \A d \in Loops : at[d] \in slots /\ Holds(at[d], d)
  BY <1>1
<1>3. at \in Injection(Loops, slots)
  <2>1. at \in [Loops -> slots]
    BY <1>2
  <2>2. \A a, b \in Loops : at[a] = at[b] => a = b
    BY <1>2
  <2> QED
    BY <2>1, <2>2 DEF Injection, IsInjective
<1>4. \A n \in Nat : IsFiniteSet(1..n) /\ Cardinality(1..n) = n
  <2> TAKE n \in Nat
  <2>1. 1 \in Int /\ n \in Int
    OBVIOUS
  <2>2. /\ IsFiniteSet(1..n)
        /\ Cardinality(1..n) = IF 1 > n THEN 0 ELSE n - 1 + 1
    BY <2>1, FS_Interval
  <2> QED
    BY <2>2
<1>5. high \in Nat \ {0} /\ NumIsos \in Nat /\ NumLoops \in Nat
  BY BoundsAssumption
<1>6. /\ IsFiniteSet(Isos) /\ Cardinality(Isos) = NumIsos
      /\ IsFiniteSet(Loops) /\ Cardinality(Loops) = NumLoops
      /\ IsFiniteSet(1..high) /\ Cardinality(1..high) = high
  BY <1>4, <1>5 DEF Isos, Loops
<1>7. IsFiniteSet(room) /\ Cardinality(room) = NumIsos * high
  BY <1>6, FS_Product
<1>8. <<i, high>> \in room
  BY <1>5
<1> HIDE DEF at, room, high
<1>9. IsFiniteSet(slots) /\ Cardinality(slots) = NumIsos * high - 1
  <2>1. /\ IsFiniteSet(room \ {<<i, high>>})
        /\ Cardinality(room \ {<<i, high>>}) = Cardinality(room) - 1
    BY <1>7, <1>8, FS_RemoveElement
  <2> QED
    BY <1>7, <2>1
<1> HIDE DEF slots
<1>10. NumLoops <= NumIsos * high - 1
  BY <1>3, <1>6, <1>9, FS_Injection
<1>11. NumIsos * high \in Nat /\ NumIsos * high <= NumLoops
  BY <1>5 DEF high
<1> QED
  BY <1>5, <1>10, <1>11

---------------------------------------------------------------------------
(* Steps of the run that is left alone *)

(* The steps of a process that is inside prepare().                        *)
PrepareStep(p) ==
    \/ DiscoverNothing(p) \/ Discover(p) \/ RebuildTree(p)
    \/ CheckMounted(p) \/ Verify(p) \/ Umount(p) \/ PickLoop(p)
    \/ AttachLoop(p) \/ MountsDone(p) \/ MenuStep(p)

LEMMA HolderPrepares ==
    ASSUME BaseInv, NEW p \in Procs, lock = p, Start(p) \/ Step(p)
    PROVE  PrepareStep(p)
<1>1. /\ proc[p] \in ProcState /\ LocalControl(proc[p])
      /\ proc[p].cmd = "prepare" /\ proc[p].pc \notin {"idle", "lock"}
  BY LocalFacts DEF Inside
<1>2. proc[p].pc # "inspect" /\ proc[p].pc \notin Sweeping
  BY <1>1 DEF LocalControl
<1> QED
  BY <1>1, <1>2
  DEF Start, Step, AcquireLock, LockBusy, MountStep, Inspect, CleanupStep,
      ListMountPoints, SweepCheck, SweepUmount, SweepDone, PrepareStep, At,
      Sweeping

(* r goes on from s with what s collected.                                 *)
SameResults(r, s) ==
    r.infos = s.infos /\ r.failed = s.failed /\ r.writes = s.writes

(* Neither the folder nor what a mount point shows is touched.             *)
LEMMA ResultsStay ==
    ASSUME UNCHANGED folder, NEW r, NEW s, DoneSoFar(s), SameResults(r, s)
    PROVE  /\ \A i \in Listed(r) : r.infos[i] = <<i, version'[i]>>
                                   /\ Bootable(<<i, version'[i]>>)
           /\ \A i \in r.failed : ~Bootable(<<i, version'[i]>>)
           /\ \A n \in Interfaces : r.writes[n].ok
BY DEF DoneSoFar, SameResults, Listed, folder

LEMMA EarlyClean ==
    ASSUME BaseInv, MenuInv, CleanInv, NEW p \in Procs, lock = p, clean,
           Undisturbed, Discover(p) \/ RebuildTree(p)
    PROVE  DoneSoFar(proc[p])'
<1> DEFINE s == proc[p]
<1>1. /\ s \in ProcState /\ s.cmd = "prepare" /\ DoneSoFar(s)
      /\ Collected(s)
  BY LocalFacts DEF Inside, CleanInv, MenuInv
<1>2. s.pc \in {"discover", "tree"} /\ s.mounted = {}
  BY DEF Discover, RebuildTree, At, CleanInv, NothingMountedYet
<1>3. UNCHANGED folder /\ UNCHANGED kernel
  BY DEF Undisturbed, Discover, RebuildTree
<1>4. CASE Discover(p)
  <2> PICK found \in (SUBSET present) \ {{}} :
        /\ Discovered(found)
        /\ Become(p, [s EXCEPT !.todo = found,
                               !.pc = IF s.cmd = "prepare"
                                      THEN "tree" ELSE "mount"])
    BY <1>4 DEF Discover
  <2> DEFINE r == [s EXCEPT !.todo = found, !.pc = "tree"]
  <2>1. /\ r.pc = "tree" /\ r.todo = found /\ r.mounted = {}
        /\ SameResults(r, s)
    BY <1>1, <1>2 DEF ProcState, SameResults
  <2> HIDE DEF r
  <2>2. proc'[p] = r
    BY <1>1, Becomes DEF r
  <2>3. r # s
    BY <1>4, <2>1 DEF Discover, At
  <2>4. found = present
    BY <2>2, <2>3, BoundsAssumption
    DEF Undisturbed, Discovered, Fault, NoFault, BaseInv, TypeOK
  <2> QED
    BY <1>1, <1>3, <2>1, <2>2, <2>4, ResultsStay
    DEF DoneSoFar, Mounting, Listed, folder
<1>5. CASE RebuildTree(p)
  <2> DEFINE r == [s EXCEPT !.pc = "mount"]
  <2>1. /\ r.pc = "mount" /\ r.todo = s.todo /\ r.mounted = {}
        /\ SameResults(r, s) /\ s.pc = "tree"
    BY <1>1, <1>2, <1>5 DEF ProcState, SameResults, RebuildTree, At
  <2> HIDE DEF r
  <2>2. proc'[p] = r
    BY <1>5, Becomes DEF r, RebuildTree
  <2>3. tree' = s.todo
    BY <1>5, <2>1, <2>2, BoundsAssumption
    DEF RebuildTree, Undisturbed, Fault, NoFault, BaseInv, TypeOK
  <2>4. s.todo = present
    BY <1>1, <2>1 DEF DoneSoFar
  <2> QED
    BY <1>1, <1>3, <2>1, <2>2, <2>3, <2>4, ResultsStay
    DEF DoneSoFar, Mounting, Listed, folder
<1> QED
  BY <1>4, <1>5

(* The ISO in hand is mounted: it shows the file that is in the folder.    *)
LEMMA MountedClean ==
    ASSUME BaseInv, CleanInv, NEW p \in Procs, lock = p, clean,
           proc[p].pc \in Mounting \ {"mount"}, MountSucceeds(p),
           NEW c, c = proc[p].cur, UNCHANGED <<folder, tree>>, Shows(c)',
           \A i \in Isos \ {c} : Shows(i) => Shows(i)'
    PROVE  DoneSoFar(proc[p])'
<1> DEFINE s == proc[p]
           r == [s EXCEPT !.pc = "mount", !.dev = 0, !.todo = @ \ {s.cur},
                          !.mounted = @ \cup {s.cur}]
<1>1. /\ s \in ProcState /\ s.cmd = "prepare" /\ DoneSoFar(s)
      /\ present \subseteq Isos
  BY LocalFacts DEF Inside, CleanInv, BaseInv, TypeOK
<1>2. /\ r.pc = "mount" /\ r.todo = s.todo \ {s.cur}
      /\ r.mounted = s.mounted \cup {s.cur} /\ SameResults(r, s)
  BY <1>1 DEF ProcState, SameResults
<1> HIDE DEF r
<1>3. proc'[p] = r
  BY <1>1, Becomes DEF r, MountSucceeds
<1>4. /\ s.mounted \cup s.todo = present /\ s.mounted \cap s.todo = {}
      /\ s.cur \in s.todo /\ tree = present
      /\ \A i \in s.mounted : Shows(i)
  BY <1>1 DEF DoneSoFar
<1>5. \A i \in r.mounted : Shows(i)'
  BY <1>1, <1>2, <1>4
<1>6. r.mounted \cup r.todo = present /\ r.mounted \cap r.todo = {}
  BY <1>2, <1>4
<1> QED
  BY <1>1, <1>2, <1>3, <1>4, <1>5, <1>6, ResultsStay
  DEF DoneSoFar, Mounting, Listed, folder

(* On to the next step with the ISO in hand.                               *)
LEMMA PcClean ==
    ASSUME BaseInv, CleanInv, NEW p \in Procs, lock = p, clean,
           proc[p].pc \in Mounting, NEW l \in {"verify", "umount", "pick"},
           NEW i, i \in proc[p].todo,
           Become(p, [proc[p] EXCEPT !.cur = i, !.pc = l]),
           l # "pick" => mounts'[i] # <<>>,
           l = "pick" => ~AlreadyMounted(i)',
           UNCHANGED <<folder, tree>>,
           \A j \in proc[p].mounted : Shows(j)'
    PROVE  DoneSoFar(proc[p])'
<1> DEFINE s == proc[p]
           r == [s EXCEPT !.cur = i, !.pc = l]
<1>1. s \in ProcState /\ DoneSoFar(s)
  BY LocalFacts DEF CleanInv
<1>2. /\ r.pc = l /\ r.todo = s.todo /\ r.cur = i
      /\ r.mounted = s.mounted /\ SameResults(r, s)
  BY <1>1 DEF ProcState, SameResults
<1> HIDE DEF r
<1>3. proc'[p] = r
  BY Becomes DEF r
<1>4. /\ s.mounted \cup s.todo = present /\ s.mounted \cap s.todo = {}
      /\ tree = present
  BY <1>1 DEF DoneSoFar
<1>5. (proc[p].pc = "pick" => ~AlreadyMounted(proc[p].cur))'
  BY <1>2, <1>3 DEF AlreadyMounted
<1> QED
  BY <1>1, <1>2, <1>3, <1>4, <1>5, ResultsStay
  DEF DoneSoFar, Mounting, Listed, folder

(* What the run has at hand while it mounts.                               *)
LEMMA MountingFacts ==
    ASSUME BaseInv, CleanInv, NEW p \in Procs, lock = p, clean,
           proc[p].pc \in Mounting
    PROVE  /\ proc[p] \in ProcState /\ proc[p].cmd = "prepare"
           /\ proc[p].todo \subseteq present /\ present \subseteq Isos
           /\ proc[p].mounted \cap proc[p].todo = {}
           /\ proc[p].mounted \subseteq Isos
           /\ \A i \in proc[p].mounted : Shows(i)
           /\ proc[p].pc # "mount" =>
                proc[p].cur \in proc[p].todo /\ proc[p].cur \in Isos
           /\ proc[p].pc \in {"verify", "umount"} => mounts[proc[p].cur] # <<>>
           /\ proc[p].pc = "pick" => ~AlreadyMounted(proc[p].cur)
<1>1. proc[p] \in ProcState /\ proc[p].cmd = "prepare" /\ DoneSoFar(proc[p])
  BY LocalFacts DEF Inside, CleanInv
<1>2. present \subseteq Isos
  BY DEF BaseInv, TypeOK
<1> QED
  BY <1>1, <1>2 DEF DoneSoFar

LEMMA CheckClean ==
    ASSUME BaseInv, CleanInv, NEW p \in Procs, lock = p, clean, Undisturbed,
           CheckMounted(p)
    PROVE  DoneSoFar(proc[p])'
<1> DEFINE s == proc[p]
           i == Least(s.todo)
           l == IF mounts[i] = <<>> THEN "pick" ELSE "verify"
           r == [s EXCEPT !.cur = i, !.todo = @ \ {i}]
           o == [s EXCEPT !.cur = i, !.pc = "pick"]
<1>1. s.pc = "mount" /\ s.pc \in Mounting /\ s.todo # {}
  BY DEF CheckMounted, At, Mounting
<1>2. /\ s \in ProcState /\ s.todo \subseteq present /\ present \subseteq Isos
      /\ \A j \in s.mounted : Shows(j)
  BY <1>1, MountingFacts
<1>3. i \in s.todo
  <2>1. s.todo \subseteq Nat
    <3>1. Isos \subseteq Nat
      BY BoundsAssumption DEF Isos
    <3> QED
      BY <1>2, <3>1
  <2> QED
    BY <1>1, <2>1, LeastIsElement
<1>4. UNCHANGED <<folder, kernel, tree>>
  BY DEF CheckMounted, served
<1>5. ~(Become(p, r) /\ Fault)
  <2> SUFFICES ASSUME Become(p, r), Fault PROVE FALSE
    OBVIOUS
  <2>1. r.todo = s.todo \ {i}
    BY <1>2 DEF ProcState
  <2> HIDE DEF r
  <2>2. proc'[p] = r
    BY Becomes
  <2>3. proc'[p] # s
    BY <1>3, <2>1, <2>2
  <2> QED
    BY <2>3, BoundsAssumption DEF Undisturbed, Fault, NoFault, BaseInv, TypeOK
<1>6. ~(Become(p, o) /\ Fault)
  <2> SUFFICES ASSUME Become(p, o), Fault PROVE FALSE
    OBVIOUS
  <2>1. o.pc = "pick"
    BY <1>2 DEF ProcState
  <2> HIDE DEF o
  <2>2. proc'[p] = o
    BY Becomes
  <2>3. proc'[p] # s
    BY <1>1, <2>1, <2>2
  <2> QED
    BY <2>3, BoundsAssumption DEF Undisturbed, Fault, NoFault, BaseInv, TypeOK
<1>7. Become(p, [s EXCEPT !.cur = i, !.pc = l])
  BY <1>5, <1>6 DEF CheckMounted
<1>8. PICK c \in Isos : c = i
  BY <1>2, <1>3
<1>9. /\ l \in {"verify", "umount", "pick"}
      /\ l # "pick" => mounts'[c] # <<>>
      /\ l = "pick" => ~AlreadyMounted(c)'
  <2>1. DOMAIN <<>> = {}
    OBVIOUS
  <2> QED
    BY <1>4, <1>8, <2>1 DEF kernel, AlreadyMounted
<1>10. \A j \in s.mounted : Shows(j)'
  BY <1>2, <1>4 DEF Shows, Content, folder, kernel
<1> HIDE DEF l
<1> QED
  BY <1>1, <1>3, <1>4, <1>7, <1>8, <1>9, <1>10, PcClean DEF folder

(* A failing system call would have disturbed the run.                     *)
LEMMA NoMountFault ==
    ASSUME BaseInv, NEW p \in Procs, lock = p, Undisturbed, MountFails(p),
           proc[p].pc # "mount"
    PROVE  ~Fault
<1> DEFINE r == [proc[p] EXCEPT !.pc = "mount", !.dev = 0,
                                !.todo = @ \ {proc[p].cur}]
<1>1. proc[p] \in ProcState
  BY LocalFacts
<1>2. r.pc = "mount"
  BY <1>1 DEF ProcState
<1> HIDE DEF r
<1>3. proc'[p] = r
  BY Becomes DEF r, MountFails
<1>4. proc'[p] # proc[p]
  BY <1>2, <1>3
<1> QED
  BY <1>4, BoundsAssumption DEF Undisturbed, Fault, NoFault, BaseInv, TypeOK

(* [EXCEPT !.pc = l] leaves the ISO in hand.                               *)
LEMMA SameCur ==
    ASSUME NEW s \in ProcState, NEW l
    PROVE  [s EXCEPT !.pc = l] = [s EXCEPT !.cur = s.cur, !.pc = l]
BY DEF ProcState

LEMMA VerifyClean ==
    ASSUME BaseInv, MountInv, CleanInv, NEW p \in Procs, lock = p, clean,
           Undisturbed, Verify(p)
    PROVE  DoneSoFar(proc[p])'
<1> DEFINE s == proc[p]
           i == s.cur
<1>1. s.pc = "verify" /\ s.pc \in Mounting
  BY DEF Verify, At, Mounting
<1>2. /\ s \in ProcState /\ i \in s.todo /\ i \in Isos /\ mounts[i] # <<>>
      /\ s.mounted \subseteq Isos
      /\ \A j \in s.mounted : Shows(j)
  BY <1>1, MountingFacts
<1>3. UNCHANGED <<folder, kernel, tree>>
  BY DEF Verify, served
<1>4. \A j \in Isos : Shows(j) => Shows(j)'
  BY <1>3 DEF Shows, Content, folder, kernel
<1>5. CASE VerifiedAs(i) /\ MountSucceeds(p)
  <2>1. Shows(i)
    BY <1>2, <1>5, VerifiedShows
  <2>2. PICK c \in Isos : c = s.cur
    BY <1>2
  <2>3. Shows(c)'
    BY <1>3, <2>1, <2>2 DEF Shows, Content, folder, kernel
  <2> QED
    BY <1>1, <1>3, <1>4, <1>5, <2>2, <2>3, MountedClean DEF folder
<1>6. CASE Become(p, [s EXCEPT !.pc = "umount"])
  <2>1. Become(p, [s EXCEPT !.cur = i, !.pc = "umount"])
    BY <1>2, <1>6, SameCur
  <2>2. mounts'[i] # <<>>
    BY <1>2, <1>3 DEF kernel
  <2> QED
    BY <1>1, <1>2, <1>3, <1>4, <2>1, <2>2, PcClean DEF folder
<1>7. ~(MountFails(p) /\ Fault)
  BY <1>1, NoMountFault
<1> QED
  BY <1>5, <1>6, <1>7 DEF Verify

LEMMA UmountClean ==
    ASSUME BaseInv, MountInv, CleanInv, NEW p \in Procs, lock = p, clean,
           Undisturbed, Umount(p)
    PROVE  DoneSoFar(proc[p])'
<1> DEFINE s == proc[p]
           i == s.cur
<1>1. s.pc = "umount" /\ s.pc \in Mounting
  BY DEF Umount, At, Mounting
<1>2. /\ s \in ProcState /\ i \in s.todo /\ i \in Isos /\ mounts[i] # <<>>
      /\ s.mounted \subseteq Isos /\ s.mounted \cap s.todo = {}
      /\ \A j \in s.mounted : Shows(j)
  BY <1>1, MountingFacts
<1>3. UNCHANGED <<folder, tree>>
  BY DEF Umount
<1>4. ~(MountFails(p) /\ Fault)
  BY <1>1, NoMountFault
<1>5. PopMount(i) /\ Become(p, [s EXCEPT !.pc = "pick"])
  BY <1>2, <1>4 DEF Umount
<1>6. Become(p, [s EXCEPT !.cur = i, !.pc = "pick"])
  BY <1>2, <1>5, SameCur
<1>7. ASSUME NEW j \in s.mounted PROVE Shows(j)'
  <2>1. j \in Isos \ {i} /\ Shows(j)
    BY <1>2
  <2>2. Content(j)' = Content(j)
    BY <1>2, <1>5, <2>1, PopContent
  <2> QED
    BY <1>3, <2>1, <2>2 DEF Shows, folder
<1>8. PICK c \in Isos : c = i
  BY <1>2
<1>9. ~AlreadyMounted(c)'
  BY <1>2, <1>3, <1>5, <1>8, PopMakesWay
<1> QED
  BY <1>1, <1>2, <1>3, <1>6, <1>7, <1>8, <1>9, PcClean

LEMMA PickClean ==
    ASSUME BaseInv, MountInv, CleanInv, NumIsos * (1 + MaxFaults) <= NumLoops,
           NEW p \in Procs, lock = p, clean,
           Undisturbed, PickLoop(p)
    PROVE  DoneSoFar(proc[p])'
<1> DEFINE s == proc[p]
           d == Least(FreeLoops)
           r == [s EXCEPT !.dev = d, !.pc = "attach"]
<1>1. s.pc = "pick" /\ s.pc \in Mounting
  BY DEF PickLoop, At, Mounting
<1>2. /\ s \in ProcState /\ s.cur \in s.todo /\ s.cur \in Isos
      /\ DoneSoFar(s) /\ MountReady(s) /\ ~AlreadyMounted(s.cur)
  BY <1>1, MountingFacts DEF CleanInv, MountInv
<1>3. FreeLoops # {}
  BY <1>1, <1>2, FreeLoopExists DEF CleanInv, MountReady
<1>4. ~(MountFails(p) /\ Fault)
  BY <1>1, NoMountFault
<1>5. Become(p, r)
  BY <1>2, <1>3, <1>4 DEF PickLoop
<1>6. UNCHANGED <<folder, kernel, tree>>
  BY DEF PickLoop, served
<1> HIDE DEF d
<1>7. /\ r.pc = "attach" /\ r.todo = s.todo /\ r.cur = s.cur
      /\ r.mounted = s.mounted /\ SameResults(r, s)
  BY <1>2 DEF ProcState, SameResults
<1> HIDE DEF r
<1>8. proc'[p] = r
  BY <1>5, Becomes
<1>9. /\ s.mounted \cup s.todo = present /\ s.mounted \cap s.todo = {}
      /\ tree = present
  BY <1>1, <1>2 DEF DoneSoFar
<1>10. \A j \in s.mounted : Shows(j)'
  BY <1>2, <1>6 DEF DoneSoFar, Shows, Content, folder, kernel
<1> QED
  BY <1>2, <1>6, <1>7, <1>8, <1>9, <1>10, ResultsStay
  DEF DoneSoFar, Mounting, Listed, folder

LEMMA AttachClean ==
    ASSUME BaseInv, MountInv, CleanInv, NEW p \in Procs, lock = p, clean,
           AttachLoop(p)
    PROVE  DoneSoFar(proc[p])'
<1> DEFINE s == proc[p]
           d == s.dev
<1>1. s.pc = "attach" /\ s.pc \in Mounting
  BY DEF AttachLoop, At, Mounting
<1>2. /\ s \in ProcState /\ s.cur \in present /\ s.cur \in Isos
      /\ MountReady(s) /\ LocalControl(s)
  BY <1>1, MountingFacts, LocalFacts DEF MountInv
<1>3. loops[d] = NoFile /\ d \in Loops
  BY <1>1, <1>2 DEF MountReady, LocalControl
<1>4. PICK c \in Isos : c = s.cur
  BY <1>2
<1>5. /\ loops' = [loops EXCEPT ![d] = <<c, version[c]>>]
      /\ mounts' = [mounts EXCEPT ![c] = Append(mounts[c], d)]
      /\ MountSucceeds(p) /\ UNCHANGED <<folder, tree>>
  BY <1>2, <1>3, <1>4 DEF AttachLoop, MountLoop
<1>6. /\ mounts \in [Isos -> Seq(Loops)]
      /\ loops \in [Loops -> Files \cup {NoFile}]
  BY DEF BaseInv, TypeOK
<1>7. Shows(c)'
  <2> DEFINE e == mounts[c]
             a == Append(e, d)
  <2>1. e \in Seq(Loops) /\ mounts'[c] = a
    BY <1>5, <1>6
  <2>2. /\ a \in Seq(Loops) /\ Len(a) = Len(e) + 1 /\ a[Len(e) + 1] = d
        /\ Len(e) \in Nat
    BY <1>3, <2>1, AppendProperties, LenProperties
  <2>3. a # <<>> /\ a[Len(a)] = d
    BY <2>2, EmptySeq
  <2>4. loops'[d] = <<c, version'[c]>>
    BY <1>3, <1>5, <1>6 DEF folder
  <2> HIDE DEF a
  <2> QED
    BY <2>1, <2>3, <2>4 DEF Shows, Content
<1>8. ASSUME NEW i \in Isos \ {c}, Shows(i) PROVE Shows(i)'
  <2>1. Content(i) # NoFile
    BY <1>8, BoundsAssumption DEF Shows, NoFile, Isos
  <2>2. Content(i)' = Content(i)
    BY <1>4, <2>1, AttachContent
  <2> QED
    BY <1>5, <1>8, <2>2 DEF Shows, folder
<1> QED
  BY <1>1, <1>4, <1>5, <1>7, <1>8, MountedClean DEF folder

LEMMA MountsDoneClean ==
    ASSUME BaseInv, CleanInv, NEW p \in Procs, lock = p, clean, MountsDone(p)
    PROVE  DoneSoFar(proc[p])'
<1> DEFINE s == proc[p]
           r == [s EXCEPT !.todo = s.mounted, !.pc = "detect"]
<1>1. s.pc = "mount" /\ s.todo = {} /\ s.pc \in Mounting
  BY DEF MountsDone, At, Mounting
<1>2. s \in ProcState /\ s.cmd = "prepare" /\ DoneSoFar(s)
  BY <1>1, MountingFacts DEF CleanInv
<1>3. /\ r.pc = "detect" /\ r.mounted = s.mounted /\ SameResults(r, s)
  BY <1>2 DEF ProcState, SameResults
<1> HIDE DEF r
<1>4. proc'[p] = r
  BY <1>2, Becomes DEF r, MountsDone
<1>5. s.mounted = present /\ tree = present
  BY <1>1, <1>2 DEF DoneSoFar
<1>6. UNCHANGED <<folder, kernel, tree>>
  BY DEF MountsDone, served
<1>7. \A j \in s.mounted : Shows(j)'
  BY <1>2, <1>6 DEF DoneSoFar, Shows, Content, folder, kernel
<1> QED
  BY <1>2, <1>3, <1>4, <1>5, <1>6, <1>7, ResultsStay
  DEF DoneSoFar, Mounting, Listed, folder

(* After the mounts nothing changes but what the run collects.             *)
LateClean(s) ==
    /\ s.pc \in {"detect", "menus"} /\ s.mounted = present
    /\ \A i \in Listed(s) :
         s.infos[i] = <<i, version[i]>> /\ Bootable(<<i, version[i]>>)
    /\ \A i \in s.failed : ~Bootable(<<i, version[i]>>)
    /\ \A n \in Interfaces : s.writes[n].ok

LEMMA LateStep ==
    ASSUME BaseInv, CleanInv, NEW p \in Procs, lock = p, clean,
           proc[p].pc \in {"detect", "menus"}, LateClean(proc'[p]),
           UNCHANGED <<folder, kernel, tree>>
    PROVE  DoneSoFar(proc[p])'
<1>1. DoneSoFar(proc[p])
  BY DEF CleanInv
<1>2. tree = present /\ \A j \in present : Shows(j)
  BY <1>1 DEF DoneSoFar
<1>3. \A j \in present : Shows(j)'
  BY <1>2 DEF Shows, Content, folder, kernel
<1> QED
  BY <1>2, <1>3 DEF LateClean, DoneSoFar, Mounting, Listed, folder

LEMMA LateFacts ==
    ASSUME CleanInv, NEW p \in Procs, lock = p, clean,
           proc[p].pc \in {"detect", "menus"}
    PROVE  LateClean(proc[p])
BY DEF CleanInv, DoneSoFar, LateClean

LEMMA DetectClean ==
    ASSUME BaseInv, MenuInv, CleanInv, NEW p \in Procs, lock = p, clean,
           Undisturbed, Detect(p)
    PROVE  DoneSoFar(proc[p])'
<1> DEFINE s == proc[p]
           i == Least(s.todo)
           c == Content(i)
           f == [s.infos EXCEPT ![i] = c]
           r1 == [s EXCEPT !.todo = @ \ {i}, !.infos[i] = c]
           r2 == [s EXCEPT !.todo = @ \ {i}, !.failed = @ \cup {i}]
<1>1. s \in ProcState /\ s.pc = "detect" /\ s.todo # {} /\ LateClean(s)
  BY LocalFacts, LateFacts DEF Detect, At
<1>2. i \in s.todo /\ i \in Isos /\ i \in present
  <2>1. s.todo \subseteq Isos /\ Isos \subseteq Nat
    BY <1>1, BoundsAssumption DEF ProcState, Isos
  <2>2. s.todo \subseteq s.mounted
    BY <1>1 DEF MenuInv, Collected
  <2> QED
    BY <1>1, <2>1, <2>2, LeastIsElement DEF LateClean
<1>3. c = <<i, version[i]>>
  <2>1. \A j \in present : Shows(j)
    BY <1>1 DEF CleanInv, DoneSoFar
  <2> QED
    BY <1>2, <2>1 DEF Shows
<1>4. \/ Bootable(c) /\ Become(p, r1)
      \/ Become(p, r2) /\ IF Bootable(c) THEN Fault ELSE NoFault
  BY DEF Detect
<1>5. UNCHANGED <<folder, kernel, tree>>
  BY DEF Detect, served
<1> HIDE DEF i, c
<1>6. /\ r1.pc = "detect" /\ r1.mounted = s.mounted /\ r1.infos = f
      /\ r1.failed = s.failed /\ r1.writes = s.writes
  BY <1>1 DEF ProcState
<1>7. /\ r2.pc = "detect" /\ r2.mounted = s.mounted /\ r2.infos = s.infos
      /\ r2.failed = s.failed \cup {i} /\ r2.writes = s.writes
      /\ r2.todo = s.todo \ {i}
  BY <1>1 DEF ProcState
<1> HIDE DEF r1, r2
<1>8. CASE Bootable(c) /\ Become(p, r1)
  <2>1. f[i] = c /\ \A j \in Isos : j # i => f[j] = s.infos[j]
    BY <1>1, <1>2 DEF ProcState
  <2> HIDE DEF f
  <2>2. \A j \in Listed(r1) :
          r1.infos[j] = <<j, version[j]>> /\ Bootable(<<j, version[j]>>)
    BY <1>1, <1>2, <1>3, <1>6, <1>8, <2>1 DEF Listed, LateClean
  <2>3. LateClean(r1)
    BY <1>1, <1>6, <2>2 DEF LateClean
  <2> QED
    BY <1>1, <1>5, <1>8, <2>3, Becomes, LateStep
<1>9. CASE Become(p, r2) /\ IF Bootable(c) THEN Fault ELSE NoFault
  <2>1. proc'[p] = r2
    BY <1>9, Becomes
  <2>2. proc'[p] # s
    BY <1>2, <1>7, <2>1
  <2>3. ~Bootable(c)
    BY <1>9, <2>2, BoundsAssumption
    DEF Undisturbed, Fault, NoFault, BaseInv, TypeOK
  <2>4. LateClean(r2)
    BY <1>1, <1>3, <1>7, <2>3 DEF LateClean, Listed
  <2> QED
    BY <1>1, <1>5, <2>1, <2>4, LateStep
<1> QED
  BY <1>4, <1>8, <1>9

LEMMA WriteClean ==
    ASSUME BaseInv, CleanInv, NEW p \in Procs, lock = p, clean, Undisturbed,
           NEW n \in Interfaces,
           OpenMenuFile(p, n) \/ WriteMenuFile(p, n) \/ FailMenuFile(p, n)
    PROVE  DoneSoFar(proc[p])'
<1> DEFINE s == proc[p]
           w == s.writes
           w1 == [w EXCEPT ![n] = [w[n] EXCEPT !.open = TRUE]]
           w2 == [w EXCEPT ![n] = [[w[n] EXCEPT !.open = FALSE]
                                      EXCEPT !.file = w[n].file + 1]]
           w3 == [w EXCEPT ![n] = [w[n] EXCEPT !.ok = FALSE]]
           r1 == [s EXCEPT !.writes[n].open = TRUE]
           r2 == [s EXCEPT !.writes[n].open = FALSE, !.writes[n].file = @ + 1]
           r3 == [s EXCEPT !.writes[n].ok = FALSE]
<1>1. /\ s \in ProcState /\ s.pc = "menus" /\ LateClean(s)
      /\ w \in [Interfaces -> WriteProgress] /\ w[n].ok
  BY LocalFacts, LateFacts
  DEF OpenMenuFile, WriteMenuFile, FailMenuFile, Writing, At, ProcState
<1>2. /\ r1.pc = s.pc /\ r1.mounted = s.mounted /\ r1.infos = s.infos
      /\ r1.failed = s.failed /\ r1.writes = w1
      /\ r2.pc = s.pc /\ r2.mounted = s.mounted /\ r2.infos = s.infos
      /\ r2.failed = s.failed /\ r2.writes = w2
      /\ r3.writes = w3
  BY <1>1 DEF ProcState
<1>3. \/ Become(p, r1)
      \/ Become(p, r2)
      \/ Become(p, r3) /\ Fault
  BY DEF OpenMenuFile, WriteMenuFile, FailMenuFile
<1> HIDE DEF r1, r2, r3
<1>4. \A m \in Interfaces : w1[m].ok = w[m].ok /\ w2[m].ok = w[m].ok
  BY <1>1 DEF WriteProgress
<1>5. w3[n].ok = FALSE
  BY <1>1 DEF WriteProgress
<1> HIDE DEF w1, w2, w3
<1>6. LateClean(r1) /\ LateClean(r2)
  BY <1>1, <1>2, <1>4 DEF LateClean, Listed
<1>7. UNCHANGED <<folder, kernel, tree>>
  BY DEF OpenMenuFile, WriteMenuFile, FailMenuFile, served
<1>8. ~(Become(p, r3) /\ Fault)
  <2> SUFFICES ASSUME Become(p, r3), Fault PROVE FALSE
    OBVIOUS
  <2>1. proc'[p] = r3 /\ proc'[p] # s
    BY <1>1, <1>2, <1>5, Becomes
  <2> QED
    BY <2>1, BoundsAssumption DEF Undisturbed, Fault, NoFault, BaseInv, TypeOK
<1> QED
  BY <1>1, <1>3, <1>6, <1>7, <1>8, Becomes, LateStep

LEMMA DetectDoneClean ==
    ASSUME BaseInv, CleanInv, NEW p \in Procs, lock = p, clean, DetectDone(p)
    PROVE  DoneSoFar(proc[p])'
<1> DEFINE s == proc[p]
           r == [s EXCEPT !.pc = "menus"]
<1>1. s \in ProcState /\ s.pc = "detect" /\ LateClean(s)
  BY LocalFacts, LateFacts DEF DetectDone, At
<1>2. /\ r.pc = "menus" /\ r.mounted = s.mounted /\ r.infos = s.infos
      /\ r.failed = s.failed /\ r.writes = s.writes
  BY <1>1 DEF ProcState
<1>3. Become(p, r) /\ UNCHANGED <<folder, kernel, tree>>
  BY DEF DetectDone, served
<1> HIDE DEF r
<1>4. LateClean(r)
  BY <1>1, <1>2 DEF LateClean, Listed
<1> QED
  BY <1>1, <1>3, <1>4, Becomes, LateStep

(* Every step of the run itself, as long as nothing disturbs it.           *)
LEMMA HolderClean ==
    ASSUME BaseInv, MountInv, MenuInv, CleanInv,
           NumIsos * (1 + MaxFaults) <= NumLoops, NEW p \in Procs, lock = p,
           clean, Undisturbed, lock' # NoProc, Start(p) \/ Step(p)
    PROVE  DoneSoFar(proc[p])'
<1>1. PrepareStep(p)
  BY HolderPrepares
<1>2. ~DiscoverNothing(p) /\ ~Finish(p)
  BY DEF DiscoverNothing, Finish, Unlock
<1> QED
  BY <1>1, <1>2, EarlyClean, CheckClean, VerifyClean, UmountClean, PickClean,
     AttachClean, MountsDoneClean, DetectClean, DetectDoneClean, WriteClean
  DEF PrepareStep, MenuStep

---------------------------------------------------------------------------
(* Steps of the others *)

(* Nobody else touches the tree.                                           *)
LEMMA OthersTree ==
    ASSUME BaseInv, NEW p \in Procs, lock # p,
           Start(p) \/ Step(p) \/ Crash(p)
    PROVE  tree' = tree
<1>1. proc[p].pc # "tree"
  BY LocalFacts DEF LocalControl, Inside
<1> QED
  BY <1>1
  DEF Start, Step, AcquireLock, LockBusy, DiscoverNothing, Discover,
      RebuildTree, MountStep, CheckMounted, Verify, Umount, PickLoop,
      AttachLoop, Inspect, MountsDone, MenuStep, Detect, DetectDone, Finish,
      OpenMenuFile, WriteMenuFile, FailMenuFile, CleanupStep,
      ListMountPoints, SweepCheck, SweepUmount, SweepDone, Crash, At, served

LEMMA OthersLock ==
    ASSUME BaseInv, NEW p \in Procs, lock # p, lock # NoProc,
           Start(p) \/ Step(p) \/ Crash(p)
    PROVE  lock' = lock
BY DEF Start, Step, AcquireLock, LockBusy, DiscoverNothing, Discover,
       RebuildTree, MountStep, CheckMounted, Verify, Umount, PickLoop,
       AttachLoop, Inspect, MountsDone, MenuStep, Detect, DetectDone, Finish,
       OpenMenuFile, WriteMenuFile, FailMenuFile, CleanupStep,
       ListMountPoints, SweepCheck, SweepUmount, SweepDone, Crash, Unlock

LEMMA OthersClean ==
    ASSUME BaseInv, CleanInv, NEW p \in Procs, NEW q \in Procs, q # p,
           lock = q, clean, Undisturbed, Start(p) \/ Step(p) \/ Crash(p)
    PROVE  lock' = q /\ DoneSoFar(proc[q])'
<1>1. proc'[q] = proc[q]
  BY StepElsewhere, Becomes
<1>2. UNCHANGED <<folder, kernel, tree>>
  BY <1>1, OthersTree DEF Undisturbed
<1>3. lock' = q
  BY OthersLock, ProcsAssumption
<1>4. DoneSoFar(proc[q])
  BY DEF CleanInv
<1> QED
  BY <1>1, <1>2, <1>3, <1>4
  DEF DoneSoFar, Shows, Content, AlreadyMounted, Listed, folder, kernel

(* A run that has just taken the lock has nothing behind it.               *)
LEMMA LockClean ==
    ASSUME BaseInv, MenuInv, CleanInv, NEW p \in Procs, lock = NoProc,
           lock' # NoProc, Start(p) \/ Step(p) \/ Crash(p)
    PROVE  lock' = p /\ DoneSoFar(proc[p])'
<1> DEFINE s == proc[p]
           r == [s EXCEPT !.pc = "discover"]
<1>1. AcquireLock(p)
  BY DEF Start, Step, AcquireLock, LockBusy, DiscoverNothing, Discover,
         RebuildTree, MountStep, CheckMounted, Verify, Umount, PickLoop,
         AttachLoop, Inspect, MountsDone, MenuStep, Detect, DetectDone,
         Finish, OpenMenuFile, WriteMenuFile, FailMenuFile, CleanupStep,
         ListMountPoints, SweepCheck, SweepUmount, SweepDone, Crash, Unlock
<1>2. /\ s \in ProcState /\ s.pc = "lock" /\ s.mounted = {} /\ Collected(s)
  BY <1>1, LocalFacts
  DEF AcquireLock, At, CleanInv, NothingMountedYet, MenuInv
<1>3. /\ r.pc = "discover" /\ r.mounted = {} /\ r.infos = s.infos
      /\ r.failed = s.failed /\ r.writes = s.writes
  BY <1>2 DEF ProcState
<1> HIDE DEF r
<1>4. proc'[p] = r /\ lock' = p
  BY <1>1, Becomes DEF AcquireLock, r
<1>5. /\ s.infos = Idle.infos /\ s.failed = {} /\ s.writes = Idle.writes
  BY <1>2 DEF Collected
<1>6. /\ \A i \in Isos : Idle.infos[i] = NoFile
      /\ \A n \in Interfaces : Idle.writes[n].ok
  BY DEF Idle
<1>7. Listed(r) = {}
  BY <1>3, <1>5, <1>6 DEF Listed
<1> QED
  BY <1>3, <1>4, <1>5, <1>6, <1>7 DEF DoneSoFar, Mounting, Listed

---------------------------------------------------------------------------
(* The rest of the invariant *)

First == {"lock", "discover", "tree"}

(* No later step leads back to the first ones, except by way of the end.   *)
LEMMA LaterSteps ==
    ASSUME BaseInv, NEW p \in Procs,
           \/ RebuildTree(p) \/ MountStep(p) \/ MenuStep(p) \/ CleanupStep(p)
    PROVE  proc'[p].pc \notin First
<1> DEFINE s == proc[p]
<1> USE DEF First
<1>1. s \in ProcState /\ Idle.pc = "idle"
  BY LocalFacts DEF Idle
<1>2. ASSUME NEW l, l \notin First, Become(p, [s EXCEPT !.pc = l])
      PROVE  proc'[p].pc \notin First
  BY <1>1, <1>2, Becomes DEF ProcState
<1>3. ASSUME NEW l, l \notin First, NEW i,
             \/ Become(p, [s EXCEPT !.cur = i, !.pc = l])
             \/ Become(p, [s EXCEPT !.dev = i, !.pc = l])
             \/ Become(p, [s EXCEPT !.todo = i, !.pc = l])
      PROVE  proc'[p].pc \notin First
  <2> DEFINE r1 == [s EXCEPT !.cur = i, !.pc = l]
             r2 == [s EXCEPT !.dev = i, !.pc = l]
             r3 == [s EXCEPT !.todo = i, !.pc = l]
  <2>1. r1.pc = l /\ r2.pc = l /\ r3.pc = l
    BY <1>1 DEF ProcState
  <2>2. Become(p, r1) \/ Become(p, r2) \/ Become(p, r3)
    BY <1>3
  <2> HIDE DEF r1, r2, r3
  <2> QED
    BY <1>3, <2>1, <2>2, Becomes
<1>4. ASSUME NEW i, NEW S, s.pc \notin First,
             \/ Become(p, [s EXCEPT !.cur = i, !.todo = S])
             \/ Become(p, [s EXCEPT !.todo = S])
             \/ Become(p, [s EXCEPT !.todo = S, !.failed = i])
      PROVE  proc'[p].pc \notin First
  <2> DEFINE r1 == [s EXCEPT !.cur = i, !.todo = S]
             r2 == [s EXCEPT !.todo = S]
             r3 == [s EXCEPT !.todo = S, !.failed = i]
  <2>1. r1.pc = s.pc /\ r2.pc = s.pc /\ r3.pc = s.pc
    BY <1>1 DEF ProcState
  <2>2. Become(p, r1) \/ Become(p, r2) \/ Become(p, r3)
    BY <1>4
  <2> HIDE DEF r1, r2, r3
  <2> QED
    BY <1>4, <2>1, <2>2, Becomes
<1>5. ASSUME MountSucceeds(p) \/ MountFails(p)
      PROVE  proc'[p].pc \notin First
  <2> DEFINE r2 == [s EXCEPT !.pc = "mount", !.dev = 0,
                             !.todo = @ \ {s.cur},
                             !.mounted = @ \cup {s.cur}]
             r3 == [s EXCEPT !.pc = "inspect", !.dev = 0]
             r4 == [s EXCEPT !.pc = "mount", !.dev = 0, !.todo = @ \ {s.cur}]
  <2>1. r2.pc = "mount" /\ r3.pc = "inspect" /\ r4.pc = "mount"
    BY <1>1 DEF ProcState
  <2>2. Become(p, r2) \/ Become(p, r3) \/ Become(p, r4)
    BY <1>5 DEF MountSucceeds, MountFails
  <2> HIDE DEF r2, r3, r4
  <2> QED
    BY <2>1, <2>2, Becomes
<1>6. CASE RebuildTree(p) \/ DetectDone(p)
  BY <1>2, <1>6 DEF RebuildTree, DetectDone
<1>7. CASE CheckMounted(p)
  <2>1. s.pc = "mount"
    BY <1>7 DEF CheckMounted, At
  <2>2. \/ \E l \in {"pick", "verify"} : \E i :
               Become(p, [s EXCEPT !.cur = i, !.pc = l])
        \/ \E i, S : Become(p, [s EXCEPT !.cur = i, !.todo = S])
    BY <1>7 DEF CheckMounted
  <2> QED
    BY <1>3, <1>4, <2>1, <2>2
<1>8. CASE Verify(p) \/ Umount(p)
  <2>1. \/ \E l \in {"umount", "pick"} : Become(p, [s EXCEPT !.pc = l])
        \/ MountSucceeds(p) \/ MountFails(p)
    BY <1>8 DEF Verify, Umount
  <2>2. \A l \in {"umount", "pick"} : l \notin First
    OBVIOUS
  <2> QED
    BY <1>2, <1>5, <2>1, <2>2
<1>9. CASE PickLoop(p) \/ AttachLoop(p)
  BY <1>3, <1>5, <1>9 DEF PickLoop, AttachLoop
<1>10. CASE Inspect(p) \/ MountsDone(p) \/ ListMountPoints(p) \/ SweepDone(p)
            \/ Finish(p)
  <2>1. \/ \E S, l : l \notin First /\ Become(p, [s EXCEPT !.todo = S, !.pc = l])
        \/ Become(p, Idle)
    BY <1>10 DEF Inspect, MountsDone, ListMountPoints, SweepDone, Finish
  <2> QED
    BY <1>1, <1>3, <2>1, Becomes
<1>11. CASE SweepCheck(p)
  <2>1. s.pc = "sweep"
    BY <1>11 DEF SweepCheck, At
  <2>2. \/ \E S : Become(p, [s EXCEPT !.todo = S])
        \/ \E i : Become(p, [s EXCEPT !.cur = i, !.pc = "sweepUmount"])
        \/ Become(p, Idle)
    BY <1>11 DEF SweepCheck
  <2> QED
    BY <1>1, <1>3, <1>4, <2>1, <2>2, Becomes
<1>12. CASE SweepUmount(p)
  <2>1. Become(p, [s EXCEPT !.todo = s.todo \ {s.cur}, !.pc = "sweep"])
    BY <1>12 DEF SweepUmount, SweepUmountSucceeds
  <2> QED
    BY <1>3, <2>1
<1>13. CASE Detect(p)
  <2> DEFINE i == Least(s.todo)
             c == Content(i)
             r1 == [s EXCEPT !.todo = @ \ {i}, !.infos[i] = c]
             r2 == [s EXCEPT !.todo = @ \ {i}, !.failed = @ \cup {i}]
  <2>1. s.pc = "detect" /\ (Become(p, r1) \/ Become(p, r2))
    BY <1>13 DEF Detect, At
  <2> HIDE DEF i, c
  <2>2. r1.pc = s.pc /\ r2.pc = s.pc
    BY <1>1 DEF ProcState
  <2> HIDE DEF r1, r2
  <2> QED
    BY <2>1, <2>2, Becomes
<1>14. ASSUME NEW n \in Interfaces,
              OpenMenuFile(p, n) \/ WriteMenuFile(p, n) \/ FailMenuFile(p, n)
       PROVE  proc'[p].pc \notin First
  <2> DEFINE r1 == [s EXCEPT !.writes[n].open = TRUE]
             r2 == [s EXCEPT !.writes[n].open = FALSE, !.writes[n].file = @ + 1]
             r3 == [s EXCEPT !.writes[n].ok = FALSE]
  <2>1. /\ s.pc = "menus"
        /\ Become(p, r1) \/ Become(p, r2) \/ Become(p, r3)
    BY <1>14 DEF OpenMenuFile, WriteMenuFile, FailMenuFile, Writing, At
  <2>2. r1.pc = s.pc /\ r2.pc = s.pc /\ r3.pc = s.pc
    BY <1>1 DEF ProcState
  <2> HIDE DEF r1, r2, r3
  <2> QED
    BY <2>1, <2>2, Becomes
<1> QED
  BY <1>6, <1>7, <1>8, <1>9, <1>10, <1>11, <1>12, <1>13, <1>14
  DEF MountStep, MenuStep, CleanupStep

LEMMA NothingMountedNext ==
    ASSUME BaseInv, CleanInv, [Next]_vars
    PROVE  NothingMountedYet'
<1> SUFFICES ASSUME NEW q \in Procs, proc'[q].pc \in First
             PROVE  proc'[q].mounted = {}
  BY DEF NothingMountedYet, First
<1>1. CASE proc'[q] = proc[q]
  BY <1>1 DEF CleanInv, NothingMountedYet, First
<1>2. CASE Start(q)
  <2> DEFINE l(c) == CASE c = "prepare" -> "lock"
                       [] c = "status" -> "discover"
                       [] c = "cleanup" -> "listdirs"
             r(c) == [proc[q] EXCEPT !.cmd = c, !.pc = l(c)]
  <2>1. PICK c : Become(q, r(c))
    BY <1>2 DEF Start
  <2>2. proc[q] \in ProcState /\ proc[q].mounted = {}
    BY <1>2, LocalFacts DEF Start, At, LocalControl, Idle
  <2> HIDE DEF l
  <2>3. r(c).mounted = {}
    BY <2>2 DEF ProcState
  <2> QED
    BY <2>1, <2>3, Becomes
<1>3. CASE AcquireLock(q) \/ Discover(q)
  <2> DEFINE r1 == [proc[q] EXCEPT !.pc = "discover"]
             l == IF proc[q].cmd = "prepare" THEN "tree" ELSE "mount"
             r2(S) == [proc[q] EXCEPT !.todo = S, !.pc = l]
  <2>1. Become(q, r1) \/ \E S : Become(q, r2(S))
    BY <1>3 DEF AcquireLock, Discover
  <2>2. proc[q] \in ProcState /\ proc[q].mounted = {}
    BY <1>3, LocalFacts DEF AcquireLock, Discover, At, CleanInv, NothingMountedYet
  <2> HIDE DEF l
  <2>3. r1.mounted = {} /\ \A S : r2(S).mounted = {}
    BY <2>2 DEF ProcState
  <2> HIDE DEF r1, r2
  <2> QED
    BY <2>1, <2>3, Becomes
<1>4. CASE LockBusy(q) \/ DiscoverNothing(q) \/ Crash(q)
  <2>1. Become(q, Idle)
    BY <1>4 DEF LockBusy, DiscoverNothing, Crash
  <2> QED
    BY <2>1, Becomes DEF Idle
<1>5. CASE UNCHANGED proc
  BY <1>1, <1>5
<1>6. ASSUME NEW p \in Procs, Start(p) \/ Step(p) \/ Crash(p), p # q
      PROVE  proc'[q] = proc[q]
  BY <1>6, StepElsewhere, Becomes
<1> QED
  BY <1>1, <1>2, <1>3, <1>4, <1>5, <1>6, LaterSteps
  DEF Next, Step, PutIso, RemoveIso, vars

LEMMA AttachedNext ==
    ASSUME BaseInv, CleanInv, [Next]_vars
    PROVE  AttachedIsMounted'
<1>1. AttachedIsMounted
  BY DEF CleanInv
<1>2. CASE UNCHANGED kernel
  BY <1>1, <1>2 DEF AttachedIsMounted, kernel
<1>3. ASSUME NEW p \in Procs, Umount(p) \/ SweepUmount(p)
      PROVE  AttachedIsMounted'
  <2>1. proc[p].cur \in Isos
    BY <1>3, LocalFacts DEF Umount, SweepUmount, At, LocalControl, HasIso
  <2>2. \/ mounts[proc[p].cur] # <<>> /\ PopMount(proc[p].cur)
        \/ UNCHANGED kernel
    BY <1>3 DEF Umount, SweepUmount, SweepUmountSucceeds
  <2> QED
    BY <1>1, <1>2, <2>1, <2>2, PopAttached
<1>4. ASSUME NEW p \in Procs, AttachLoop(p)
      PROVE  AttachedIsMounted'
  <2> DEFINE c == proc[p].cur
             d == proc[p].dev
  <2>1. /\ mounts \in [Isos -> Seq(Loops)]
        /\ loops \in [Loops -> Files \cup {NoFile}]
        /\ c \in Isos /\ d \in Loops
    BY <1>4, LocalFacts
    DEF AttachLoop, At, LocalControl, HasIso, BaseInv, TypeOK
  <2>2. CASE mounts' = [mounts EXCEPT ![c] = Append(mounts[c], d)]
    <3> DEFINE a == Append(mounts[c], d)
               n == Len(mounts[c])
    <3>1. /\ mounts'[c] = a /\ mounts[c] \in Seq(Loops)
          /\ \A j \in Isos \ {c} : mounts'[j] = mounts[j]
      BY <2>1, <2>2
    <3>2. /\ n \in Nat /\ a \in Seq(Loops) /\ Len(a) = n + 1
          /\ \A k \in 1..n : a[k] = mounts[c][k]
          /\ a[n + 1] = d /\ DOMAIN mounts[c] = 1..n
      BY <2>1, <3>1, AppendProperties, LenProperties
    <3>3. DOMAIN a = 1..(n + 1)
      BY <3>2, LenProperties
    <3> HIDE DEF a
    <3>4. n + 1 \in DOMAIN mounts'[c] /\ mounts'[c][n + 1] = d
      BY <3>1, <3>2, <3>3
    <3>5. \A e \in Loops \ {d} : loops'[e] = loops[e]
      BY <1>4, <2>1 DEF AttachLoop, kernel
    <3>6. ASSUME NEW i \in Isos, NEW k \in DOMAIN mounts[i]
          PROVE  k \in DOMAIN mounts'[i] /\ mounts'[i][k] = mounts[i][k]
      <4>1. CASE i # c
        BY <3>1, <4>1
      <4>2. CASE i = c
        <5>1. k \in 1..n /\ 1..n \subseteq 1..(n + 1)
          BY <3>2, <4>2
        <5> QED
          BY <3>1, <3>2, <3>3, <4>2, <5>1
      <4> QED
        BY <4>1, <4>2
    <3>7. ASSUME NEW e \in Loops \ {d}, loops'[e] # NoFile
          PROVE  \E i \in Isos : \E k \in DOMAIN mounts'[i] : mounts'[i][k] = e
      <4>1. PICK i \in Isos : \E k \in DOMAIN mounts[i] : mounts[i][k] = e
        BY <1>1, <3>5, <3>7 DEF AttachedIsMounted
      <4> QED
        BY <3>6, <4>1
    <3> QED
      BY <2>1, <3>4, <3>7 DEF AttachedIsMounted
  <2> QED
    BY <1>2, <1>4, <2>2 DEF AttachLoop, MountLoop
<1>5. ASSUME NEW p \in Procs, Start(p) \/ Step(p) \/ Crash(p),
             ~AttachLoop(p), ~Umount(p), ~SweepUmount(p)
      PROVE  UNCHANGED kernel
  BY <1>5
  DEF Step, Start, AcquireLock, LockBusy, DiscoverNothing, Discover,
      RebuildTree, MountStep, CheckMounted, Verify, PickLoop, Inspect,
      MountsDone, MenuStep, Detect, DetectDone, Finish, OpenMenuFile,
      WriteMenuFile, FailMenuFile, CleanupStep, ListMountPoints,
      SweepCheck, SweepDone, Crash
<1> QED
  BY <1>2, <1>3, <1>4, <1>5 DEF Next, PutIso, RemoveIso, vars, kernel

LEMMA CleanNext ==
    ASSUME BaseInv, BaseInv', MountInv, MenuInv, CleanInv,
           NumIsos * (1 + MaxFaults) <= NumLoops,
           [RepairNext]_repairVars
    PROVE  CleanInv'
<1>1. [Next]_vars
  BY DEF RepairNext, repairVars
<1>2. NothingMountedYet' /\ AttachedIsMounted'
  BY <1>1, NothingMountedNext, AttachedNext
<1>3. ASSUME clean'
      PROVE  lock' # NoProc /\ DoneSoFar(proc[lock])'
  <2>1. CASE UNCHANGED repairVars
    BY <1>3, <2>1
    DEF CleanInv, repairVars, vars, DoneSoFar, Shows, Content,
        AlreadyMounted, Listed
  <2>2. CASE RepairNext
    <3>1. lock' # NoProc /\ (lock = NoProc \/ (clean /\ Undisturbed))
      BY <1>3, <2>2 DEF RepairNext, Track
    <3>2. ASSUME NEW p \in Procs, Start(p) \/ Step(p) \/ Crash(p)
          PROVE  \E q \in Procs : lock' = q /\ DoneSoFar(proc[q])'
      <4>1. CASE lock = NoProc
        BY <3>1, <3>2, <4>1, LockClean
      <4>2. CASE lock = p
        <5>1. ~Crash(p)
          BY <3>1, <4>2 DEF Crash, Unlock
        <5>2. clean /\ Undisturbed /\ lock # NoProc
          BY <3>1, <4>2, ProcsAssumption
        <5>3. DoneSoFar(proc[p])'
          BY <3>1, <3>2, <4>2, <5>1, <5>2, HolderClean
        <5>4. lock' = p
          BY <3>1, <3>2, <4>2, <5>1
          DEF Start, Step, AcquireLock, LockBusy, DiscoverNothing, Discover,
              RebuildTree, MountStep, CheckMounted, Verify, Umount, PickLoop,
              AttachLoop, Inspect, MountsDone, MenuStep, Detect, DetectDone,
              Finish, OpenMenuFile, WriteMenuFile, FailMenuFile, CleanupStep,
              ListMountPoints, SweepCheck, SweepUmount, SweepDone, Unlock
        <5> QED
          BY <5>3, <5>4
      <4>3. CASE lock \in Procs \ {p}
        BY <3>1, <3>2, <4>3, OthersClean, ProcsAssumption
      <4> QED
        BY <4>1, <4>2, <4>3 DEF BaseInv, TypeOK
    <3>3. ASSUME NEW i \in Isos, PutIso(i) \/ RemoveIso(i)
          PROVE  FALSE
      <4>1. lock' = lock /\ lock # NoProc /\ UNCHANGED folder
        BY <3>1, <3>3 DEF PutIso, RemoveIso, Undisturbed
      <4>2. ~RemoveIso(i)
        BY <4>1 DEF RemoveIso, folder
      <4>3. version[i] \in Nat /\ version \in [Isos -> 0..MaxVersion]
        BY BoundsAssumption DEF BaseInv, TypeOK
      <4>4. ~PutIso(i)
        BY <4>1, <4>3 DEF PutIso, folder
      <4> QED
        BY <3>3, <4>2, <4>4
    <3>4. PICK q \in Procs : lock' = q /\ DoneSoFar(proc[q])'
      BY <2>2, <3>2, <3>3 DEF RepairNext, Next
    <3> QED
      BY <3>1, <3>4 DEF DoneSoFar, Listed
  <2> QED
    BY <2>1, <2>2
<1> QED
  BY <1>2, <1>3 DEF CleanInv

LEMMA CleanInit == RepairInit => CleanInv
<1> SUFFICES ASSUME RepairInit PROVE CleanInv
  OBVIOUS
<1>1. NothingMountedYet
  BY DEF RepairInit, Init, NothingMountedYet, Idle
<1>2. AttachedIsMounted
  BY DEF RepairInit, Init, AttachedIsMounted
<1> QED
  BY <1>1, <1>2 DEF RepairInit, CleanInv

(* What such a run has written in full is what the folder asks for.        *)
LEMMA CleanIsCurrent ==
    ASSUME BaseInv, MenuInv, CleanInv
    PROVE  CleanRunRepairs
<1> SUFFICES ASSUME NEW p \in Procs, lock = p, clean, At(p, "menus"),
                    \A n \in Interfaces : ~Writing(p, n)
             PROVE  Current
  BY DEF CleanRunRepairs
<1> DEFINE s == proc[p]
           good == {i \in present : Bootable(<<i, version[i]>>)}
<1>1. /\ s \in ProcState /\ s.pc = "menus" /\ DoneSoFar(s)
      /\ Collected(s) /\ WrittenBehind(s) /\ present \subseteq Isos
  BY LocalFacts DEF At, CleanInv, MenuInv, BaseInv, TypeOK
<1>2. /\ tree = present /\ s.mounted = present
      /\ \A i \in present : Content(i) = <<i, version[i]>>
  BY <1>1 DEF DoneSoFar, Shows
<1>3. /\ Listed(s) \cup s.failed = present /\ Listed(s) \cap s.failed = {}
  BY <1>1, <1>2 DEF Collected
<1>4. /\ \A i \in Listed(s) :
           s.infos[i] = <<i, version[i]>> /\ Bootable(<<i, version[i]>>)
      /\ \A i \in s.failed : ~Bootable(<<i, version[i]>>)
  BY <1>1 DEF DoneSoFar
<1>5. Listed(s) = good /\ s.failed = present \ good
  BY <1>3, <1>4
<1>6. s.infos = [i \in Isos |-> IF i \in good THEN <<i, version[i]>> ELSE NoFile]
  <2>1. \A i \in Isos :
          s.infos[i] = IF i \in good THEN <<i, version[i]>> ELSE NoFile
    BY <1>4, <1>5 DEF Listed
  <2>2. s.infos \in [Isos -> Files \cup {NoFile}]
    BY <1>1 DEF ProcState
  <2> HIDE DEF good
  <2> QED
    BY <2>1, <2>2
<1>7. ASSUME NEW n \in Interfaces, NEW k \in 0..NumOverrides
      PROVE  menu[<<n, k>>] = [state |-> "whole", entries |-> s.infos,
                               placeholders |-> s.failed]
  <2>1. s.writes[n].ok /\ s.writes[n].file \in 0..(NumOverrides + 1)
    BY <1>1 DEF DoneSoFar, ProcState, WriteProgress
  <2>2. k < s.writes[n].file
    BY <1>1, <2>1, BoundsAssumption DEF Writing, At
  <2> QED
    BY <1>1, <2>2 DEF WrittenBehind
<1>8. ASSUME NEW m \in MenuFiles
      PROVE  /\ menu[m].state = "whole"
             /\ menu[m].placeholders = present \ good
             /\ menu[m].entries = s.infos
  <2>1. PICK n \in Interfaces, k \in 0..NumOverrides : m = <<n, k>>
    BY DEF MenuFiles
  <2>2. menu[m] = [state |-> "whole", entries |-> s.infos,
                   placeholders |-> s.failed]
    BY <1>7, <2>1
  <2> HIDE DEF s, good
  <2> QED
    BY <1>5, <2>2
<1> QED
  BY <1>2, <1>6, <1>8 DEF Current

(* Left alone, one run of prepare() repairs everything: for any number of  *)
(* ISOs, runs, crashes, failures and replaced files before it, and with    *)
(* cleanup() running beside the others, it ends with the mounts, the tree  *)
(* and every menu as the folder has them.  Without status(), which mounts  *)
(* without the lock, and with a loop device for each ISO and for each      *)
(* mount that a misread mountpoint(1) can have piled up on it.             *)
THEOREM LeftAloneRepairs ==
    ASSUME "status" \notin Commands, NumIsos * (1 + MaxFaults) <= NumLoops
    PROVE  RepairSpec => []CleanRunRepairs
<1>1. RepairSpec => Spec
  <2>1. RepairInit => Init
    BY DEF RepairInit
  <2>2. [RepairNext]_repairVars => [Next]_vars
    BY DEF RepairNext, repairVars
  <2> QED
    BY <2>1, <2>2, PTL DEF RepairSpec, Spec
<1>2. Spec => []BaseInv /\ []MountInv /\ []MenuInv
  BY BaseInvariant, MountInvariant, MenuInvariant
<1>3. BaseInv /\ BaseInv' /\ MountInv /\ MenuInv /\ CleanInv
        /\ [RepairNext]_repairVars => CleanInv'
  BY CleanNext
<1>4. BaseInv /\ MenuInv /\ CleanInv => CleanRunRepairs
  BY CleanIsCurrent
<1> QED
  BY <1>1, <1>2, <1>3, <1>4, CleanInit, PTL DEF RepairSpec

=============================================================================
