------------------------- MODULE AutoinstallProofs -------------------------
(***************************************************************************)
(* Proofs about Autoinstall, for any scripts, ISOs, faults and changes:    *)
(* its invariant SeedInv is inductive and implies its safety properties.   *)
(***************************************************************************)
EXTENDS Autoinstall, TLAPS

LEMMA PathType == ASSUME NEW s \in Scripts PROVE Path(s) \in Paths
  BY DEF Paths

(* A script alone at its path shares it with no other.                     *)
LEMMA AlonePath ==
    ASSUME NEW s \in Scripts, NEW t \in Scripts, t # s, Alone(t)
    PROVE  Path(t) # Path(s)
  BY DEF Alone, SameSeed

LEMMA FaultType ==
    ASSUME faults \in 0..MaxFaults, Fault \/ UNCHANGED faults
    PROVE  faults' \in 0..MaxFaults
  BY BoundsAssumption DEF Fault

LEMMA NothingType == {} \in AtMostOne
  BY Zenon DEF AtMostOne

LEMMA CopyType ==
    ASSUME TypeOK, NEW s \in Scripts, NEW b \in BOOLEAN
    PROVE  {CopyOf(s, b)} \in AtMostOne
  <1>1. conf \in 0..MaxChanges
    BY BoundsAssumption DEF TypeOK
  <1>2. CopyOf(s, b) \in Copies
    BY <1>1 DEF CopyOf, Copies
  <1> QED BY <1>2 DEF AtMostOne

LEMMA SeedInit == Init => SeedInv
  <1> SUFFICES ASSUME Init PROVE SeedInv
    OBVIOUS
  <1>1. TypeOK
    <2>1. Absent \in Nodes
      BY NothingType DEF Absent, Nodes
    <2>2. faults \in 0..MaxFaults /\ changes \in 0..MaxChanges
      BY BoundsAssumption DEF Init
    <2>3. gen \in 0..changes /\ conf \in 0..gen
      BY DEF Init
    <2>4. seeds \in [Paths -> Nodes] /\ pc \in [Scripts -> AtWork \cup Ended]
      BY <2>1 DEF Init, Ended
    <2>5. \A s \in Scripts : pc[s] \in Ended
      BY DEF Init, Ended
    <2> QED BY <2>2, <2>3, <2>4, <2>5 DEF Init, TypeOK
  <1>2. TaskInv
    <2>1. \A s \in Scripts : ~Node(s).meta /\ pc[s] = "failed" /\ s \in hit
      BY PathType DEF Init, Node, Absent
    <2> QED BY <2>1 DEF TaskInv, LayoutSoFar, DataSoFar
  <1> QED BY <1>1, <1>2 DEF SeedInv

---------------------------------------------------------------------------
(* What a task does, whatever its call. *)

(* It goes on to `label` and leaves `node` at its own path.                *)
TaskChange(s, label, node) ==
    /\ running /\ pc[s] \in AtWork
    /\ pc' = [pc EXCEPT ![s] = label]
    /\ seeds' = [seeds EXCEPT ![Path(s)] = node]
    /\ Fault \/ UNCHANGED faults
    /\ hit \subseteq hit' /\ hit' \subseteq hit \cup {s}
    /\ UNCHANGED <<world, run>>

(* A task that keeps its own part of the invariant keeps all of it: it     *)
(* touches nobody else's path.                                             *)
LEMMA TaskKeeps ==
    ASSUME SeedInv, NEW s \in Scripts, NEW label \in AtWork \cup Ended,
           NEW node \in Nodes, TaskChange(s, label, node),
           Alone(s) => (LayoutSoFar(s) /\ DataSoFar(s))'
    PROVE  SeedInv'
  <1> USE DEF SeedInv, TaskChange
  <1>1. TypeOK'
    <2>1. faults' \in 0..MaxFaults
      BY FaultType DEF TypeOK
    <2>2. seeds' \in [Paths -> Nodes] /\ pc' \in [Scripts -> AtWork \cup Ended]
      BY PathType DEF TypeOK
    <2> QED BY <2>1, <2>2 DEF TypeOK, world, run
  <1>2. TaskInv'
    <2> SUFFICES ASSUME NEW t \in Scripts, Alone(t)
                 PROVE  (LayoutSoFar(t) /\ DataSoFar(t))'
      BY DEF TaskInv, Alone, SameSeed, Path
    <2>1. CASE t = s
      BY <2>1
    <2>2. CASE t # s
      <3>1. Node(t)' = Node(t)
        BY <2>2, AlonePath, PathType DEF Node, TypeOK, Path
      <3>2. pc'[t] = pc[t]
        BY <2>2 DEF TypeOK
      <3>3. LayoutSoFar(t) /\ DataSoFar(t)
        BY DEF TaskInv
      <3>4. IsUbuntu(t)' = IsUbuntu(t)
        BY DEF IsUbuntu, run
      <3>5. CopyOf(t, TRUE)' = CopyOf(t, TRUE)
            /\ CopyOf(t, FALSE)' = CopyOf(t, FALSE)
        BY DEF CopyOf, run
      <3>6. LayoutSoFar(t)'
        BY <3>1, <3>2, <3>3, <3>4 DEF LayoutSoFar
      <3> QED BY <3>1, <3>2, <3>3, <3>4, <3>5, <3>6 DEF DataSoFar
    <2> QED BY <2>1, <2>2
  <1> QED BY <1>1, <1>2

(* The node a task finds, and what its own part of the invariant says.     *)
LEMMA NodeFound ==
    ASSUME SeedInv, NEW s \in Scripts
    PROVE  /\ Node(s) \in Nodes
           /\ pc[s] \in AtWork \cup Ended
           /\ Alone(s) => LayoutSoFar(s) /\ DataSoFar(s)
  BY PathType DEF SeedInv, TypeOK, Node, TaskInv

(* A task that leaves the files as they are.                               *)
LEMMA SameSeeds ==
    ASSUME SeedInv, NEW s \in Scripts, UNCHANGED seeds
    PROVE  seeds' = [seeds EXCEPT ![Path(s)] = Node(s)] /\ Node(s)' = Node(s)
  BY PathType DEF SeedInv, TypeOK, Node, Path

(* The task's own path and program counter after its step.                 *)
LEMMA OwnAfter ==
    ASSUME SeedInv, NEW s \in Scripts, NEW label, NEW node,
           TaskChange(s, label, node)
    PROVE  /\ Node(s)' = node /\ pc'[s] = label
           /\ IsUbuntu(s)' = IsUbuntu(s)
           /\ CopyOf(s, TRUE)' = CopyOf(s, TRUE)
           /\ CopyOf(s, FALSE)' = CopyOf(s, FALSE)
  BY PathType
     DEF SeedInv, TypeOK, TaskChange, Node, Path, IsUbuntu, CopyOf, run

---------------------------------------------------------------------------
(* One lemma for the directory, one for the file, one for a failing call.  *)

LEMMA DirectoryKeepsSeedInv ==
    ASSUME SeedInv, NEW s \in Scripts,
           \/ EnsureIsoDir(s) \/ StatSeed(s) \/ UnlinkStale(s)
           \/ MakeSeedDir(s)
    PROVE  SeedInv'
  <1> USE DEF At, Goto, Put, NoFault, AtWork, Ended
  <1>0. running /\ pc[s] \in AtWork
    BY DEF EnsureIsoDir, StatSeed, UnlinkStale, MakeSeedDir
  <1>1. CASE UNCHANGED seeds
    <2> DEFINE label == pc'[s]
    <2>1. /\ label \in AtWork \cup Ended
          /\ pc' = [pc EXCEPT ![s] = label]
          /\ UNCHANGED <<faults, hit, world, run>>
      BY <1>1 DEF EnsureIsoDir, StatSeed, UnlinkStale, MakeSeedDir, SeedInv,
         TypeOK
    <2>2. TaskChange(s, label, Node(s))
      BY <1>0, <1>1, <2>1, SameSeeds DEF TaskChange
    <2>3. Alone(s) => (LayoutSoFar(s) /\ DataSoFar(s))'
      <3> SUFFICES ASSUME Alone(s) PROVE (LayoutSoFar(s) /\ DataSoFar(s))'
        OBVIOUS
      <3>1. LayoutSoFar(s)
        BY NodeFound
      <3>2. \/ label = "stat" /\ IsUbuntu(s)
            \/ label = "remove" /\ (IsUbuntu(s) => Node(s).dir)
            \/ label = "unlink" /\ IsUbuntu(s) /\ ~Node(s).dir
               /\ Node(s).data # {}
            \/ label = "mkdir" /\ IsUbuntu(s)
               /\ (Node(s).dir \/ Node(s).data = {})
        <4>1. CASE EnsureIsoDir(s)
          BY <4>1 DEF EnsureIsoDir, SeedInv, TypeOK
        <4>2. CASE StatSeed(s)
          BY <3>1, <4>2 DEF StatSeed, SeedInv, TypeOK, LayoutSoFar
        <4>3. CASE UnlinkStale(s)
          <5>1. ~Node(s).dir /\ Node(s) # Absent
            BY <3>1, <4>3 DEF UnlinkStale, LayoutSoFar, Absent
          <5>2. Node(s)' = Absent /\ Node(s)' = Node(s)
            BY <4>3, <5>1, <1>1, PathType, SameSeeds
               DEF UnlinkStale, SeedInv, TypeOK, Node, Path
          <5> QED BY <5>1, <5>2
        <4>4. CASE MakeSeedDir(s)
          <5>1. IsUbuntu(s) /\ (Node(s).dir \/ Node(s) = Absent)
            BY <3>1, <4>4 DEF MakeSeedDir, LayoutSoFar
          <5>2. Node(s)' = [Node(s) EXCEPT !.dir = TRUE]
            BY <4>4, <5>1, PathType
               DEF MakeSeedDir, SeedInv, TypeOK, Node, Path
          <5>3. Node(s).dir
            BY <5>2, <1>1, SameSeeds, NodeFound DEF Nodes
          <5> QED BY <4>4, <5>1, <5>3 DEF MakeSeedDir, SeedInv, TypeOK
        <4> QED BY <4>1, <4>2, <4>3, <4>4
      <3>3. Node(s).dir \/ Node(s).data # {} \/ Node(s) = Absent
        BY <3>1, NodeFound DEF Nodes, Absent, LayoutSoFar
      <3>4. Node(s)' = Node(s) /\ IsUbuntu(s)' = IsUbuntu(s)
        BY <2>2, OwnAfter
      <3>5. ~Node(s).dir => ~Node(s).meta
        BY <3>1 DEF LayoutSoFar
      <3>6. LayoutSoFar(s)'
        BY <3>2, <3>3, <3>4, <3>5 DEF LayoutSoFar
      <3> QED BY <3>2, <3>6 DEF DataSoFar
    <2> HIDE DEF label
    <2> QED BY <2>1, <2>2, <2>3, NodeFound, TaskKeeps
  <1>2. CASE UnlinkStale(s) /\ ~UNCHANGED seeds
    <2>1. TaskChange(s, "mkdir", Absent)
      BY <1>0, <1>2 DEF UnlinkStale, TaskChange
    <2>2. Absent \in Nodes /\ ~Absent.dir /\ ~Absent.meta
      BY NothingType DEF Absent, Nodes
    <2>3. Alone(s) => (LayoutSoFar(s) /\ DataSoFar(s))'
      <3> SUFFICES ASSUME Alone(s) PROVE (LayoutSoFar(s) /\ DataSoFar(s))'
        OBVIOUS
      <3>1. IsUbuntu(s)
        BY <1>2, NodeFound DEF UnlinkStale, LayoutSoFar
      <3>2. /\ Node(s)' = Absent /\ pc'[s] = "mkdir"
            /\ IsUbuntu(s)' = IsUbuntu(s)
        BY <2>1, OwnAfter
      <3> QED BY <2>2, <3>1, <3>2 DEF LayoutSoFar, DataSoFar
    <2> QED BY <2>1, <2>2, <2>3, TaskKeeps DEF AtWork
  <1>3. CASE MakeSeedDir(s) /\ ~UNCHANGED seeds
    <2> DEFINE node == [Node(s) EXCEPT !.dir = TRUE]
    <2>1. TaskChange(s, "remove", node)
      BY <1>0, <1>3 DEF MakeSeedDir, TaskChange
    <2>2. node \in Nodes /\ node.dir
      BY NodeFound DEF Nodes
    <2> HIDE DEF node
    <2>3. Node(s)' = node /\ pc'[s] = "remove"
      BY <2>1, OwnAfter
    <2>4. (LayoutSoFar(s) /\ DataSoFar(s))'
      BY <2>2, <2>3 DEF LayoutSoFar, DataSoFar
    <2> QED BY <2>1, <2>2, <2>4, TaskKeeps DEF AtWork
  <1>4. UNCHANGED seeds \/ UnlinkStale(s) \/ MakeSeedDir(s)
    BY DEF EnsureIsoDir, StatSeed
  <1> QED BY <1>1, <1>2, <1>3, <1>4

LEMMA FileKeepsSeedInv ==
    ASSUME SeedInv, NEW s \in Scripts,
           \/ RemoveDest(s) \/ OpenDest(s) \/ CopyDest(s)
           \/ RemoveMeta(s) \/ WriteMeta(s)
    PROVE  SeedInv'
  <1>0. Node(s) \in Nodes
    BY NodeFound
  <1>1. CASE RemoveDest(s)
    <2>1. CASE Node(s).dir /\ ~IsUbuntu(s)
      <3>1. TaskChange(s, "failed", Node(s))
        BY <1>1, <2>1, SameSeeds
           DEF RemoveDest, TaskChange, At, Goto, NoFault, AtWork
      <3>2. /\ Node(s)' = Node(s) /\ pc'[s] = "failed"
            /\ IsUbuntu(s)' = IsUbuntu(s)
        BY <3>1, OwnAfter
      <3>3. (LayoutSoFar(s) /\ DataSoFar(s))'
        BY <2>1, <3>2 DEF LayoutSoFar, DataSoFar
      <3> QED BY <1>0, <3>1, <3>3, TaskKeeps DEF Ended
    <2>2. CASE ~(Node(s).dir /\ ~IsUbuntu(s))
      <3> DEFINE node == [Node(s) EXCEPT !.data = {}]
      <3>1. TaskChange(s, "open", node)
        BY <1>1, <2>2
           DEF RemoveDest, TaskChange, At, Goto, Put, NoFault, AtWork
      <3>2. node \in Nodes /\ node.dir = Node(s).dir /\ node.data = {}
            /\ node.meta = Node(s).meta
        BY <1>0, NothingType DEF Nodes
      <3>3. Alone(s) => (LayoutSoFar(s) /\ DataSoFar(s))'
        <4> SUFFICES ASSUME Alone(s) PROVE (LayoutSoFar(s) /\ DataSoFar(s))'
          OBVIOUS
        <4>1. /\ (Node(s).dir <=> IsUbuntu(s))
              /\ ~Node(s).dir => ~Node(s).meta
          <5>1. /\ IsUbuntu(s) => Node(s).dir
                /\ ~Node(s).dir => ~Node(s).meta
            BY <1>1, NodeFound DEF RemoveDest, At, LayoutSoFar
          <5>2. Node(s).dir \in BOOLEAN /\ IsUbuntu(s) \in BOOLEAN
            BY <1>0 DEF Nodes, IsUbuntu
          <5> QED BY <2>2, <5>1, <5>2
        <4> HIDE DEF node
        <4>2. /\ Node(s)' = node /\ pc'[s] = "open"
              /\ IsUbuntu(s)' = IsUbuntu(s)
              /\ CopyOf(s, FALSE)' = CopyOf(s, FALSE)
          BY <3>1, OwnAfter
        <4> QED BY <3>2, <4>1, <4>2 DEF LayoutSoFar, DataSoFar
      <3> HIDE DEF node
      <3> QED BY <1>0, <3>1, <3>2, <3>3, TaskKeeps DEF AtWork
    <2> QED BY <2>1, <2>2
  <1>2. CASE OpenDest(s)
    <2>1. CASE Node(s).data # {}
      <3>1. TaskChange(s, "failed", Node(s))
        BY <1>2, <2>1, SameSeeds
           DEF OpenDest, TaskChange, At, Goto, NoFault, AtWork
      <3>2. ~Alone(s)
        BY <1>2, <2>1, NodeFound DEF OpenDest, At, DataSoFar
      <3> QED BY <1>0, <3>1, <3>2, TaskKeeps DEF Ended
    <2>2. CASE Node(s).data = {}
      <3> DEFINE node == [Node(s) EXCEPT !.data = {CopyOf(s, FALSE)}]
      <3>1. TaskChange(s, "copy", node)
        BY <1>2, <2>2
           DEF OpenDest, TaskChange, At, Goto, Put, NoFault, AtWork
      <3>2. /\ node \in Nodes /\ node.dir = Node(s).dir
            /\ node.data = {CopyOf(s, FALSE)} /\ node.meta = Node(s).meta
        BY <1>0, CopyType DEF Nodes, SeedInv
      <3>3. Alone(s) => (LayoutSoFar(s) /\ DataSoFar(s))'
        <4> SUFFICES ASSUME Alone(s) PROVE (LayoutSoFar(s) /\ DataSoFar(s))'
          OBVIOUS
        <4>1. /\ (Node(s).dir <=> IsUbuntu(s))
              /\ ~Node(s).dir => ~Node(s).meta
          BY <1>2, NodeFound DEF OpenDest, At, LayoutSoFar
        <4> HIDE DEF node
        <4>2. /\ Node(s)' = node /\ pc'[s] = "copy"
              /\ IsUbuntu(s)' = IsUbuntu(s)
              /\ CopyOf(s, FALSE)' = CopyOf(s, FALSE)
          BY <3>1, OwnAfter
        <4> QED BY <3>2, <4>1, <4>2 DEF LayoutSoFar, DataSoFar
      <3> HIDE DEF node
      <3> QED BY <1>0, <3>1, <3>2, <3>3, TaskKeeps DEF AtWork
    <2> QED BY <2>1, <2>2
  <1>3. CASE CopyDest(s)
    <2> DEFINE data == IF Node(s).data = {CopyOf(s, FALSE)}
                       THEN {CopyOf(s, TRUE)} ELSE Node(s).data
    <2> DEFINE node == [Node(s) EXCEPT !.data = data]
    <2> DEFINE label == IF IsUbuntu(s) THEN "remove_meta" ELSE "ok"
    <2>1. TaskChange(s, label, node)
      BY <1>3 DEF CopyDest, TaskChange, At, Goto, Put, NoFault, AtWork
    <2>2. data \in AtMostOne
      BY <1>0, CopyType DEF Nodes, SeedInv
    <2>3. /\ node \in Nodes /\ node.dir = Node(s).dir /\ node.data = data
          /\ node.meta = Node(s).meta
      BY <1>0, <2>2 DEF Nodes
    <2>4. Alone(s) => (LayoutSoFar(s) /\ DataSoFar(s))'
      <3> SUFFICES ASSUME Alone(s) PROVE (LayoutSoFar(s) /\ DataSoFar(s))'
        OBVIOUS
      <3>1. /\ (Node(s).dir <=> IsUbuntu(s)) /\ data = {CopyOf(s, TRUE)}
            /\ ~Node(s).dir => ~Node(s).meta
        BY <1>3, NodeFound DEF CopyDest, At, LayoutSoFar, DataSoFar
      <3> HIDE DEF node, data
      <3>2. /\ Node(s)' = node /\ pc'[s] = label
            /\ IsUbuntu(s)' = IsUbuntu(s)
            /\ CopyOf(s, TRUE)' = CopyOf(s, TRUE)
        BY <2>1, OwnAfter
      <3> QED BY <2>3, <3>1, <3>2 DEF LayoutSoFar, DataSoFar
    <2>5. label \in AtWork \cup Ended
      BY DEF AtWork, Ended
    <2> HIDE DEF node, data, label
    <2> QED BY <1>0, <2>1, <2>3, <2>4, <2>5, TaskKeeps
  <1>4. ASSUME NEW b \in BOOLEAN, NEW label \in {"write_meta", "ok"},
               pc[s] \in {"remove_meta", "write_meta"},
               TaskChange(s, label, [Node(s) EXCEPT !.meta = b]),
               label = "ok" => b
        PROVE  SeedInv'
    <2> DEFINE node == [Node(s) EXCEPT !.meta = b]
    <2>1. /\ node \in Nodes /\ node.dir = Node(s).dir
          /\ node.data = Node(s).data /\ node.meta = b
      BY <1>0 DEF Nodes
    <2>2. TaskChange(s, label, node)
      BY <1>4
    <2>3. Alone(s) => (LayoutSoFar(s) /\ DataSoFar(s))'
      <3> SUFFICES ASSUME Alone(s) PROVE (LayoutSoFar(s) /\ DataSoFar(s))'
        OBVIOUS
      <3>1. /\ IsUbuntu(s) /\ (Node(s).dir <=> IsUbuntu(s))
            /\ Node(s).data = {CopyOf(s, TRUE)}
        BY <1>4, NodeFound DEF LayoutSoFar, DataSoFar
      <3> HIDE DEF node
      <3>2. /\ Node(s)' = node /\ pc'[s] = label
            /\ IsUbuntu(s)' = IsUbuntu(s)
            /\ CopyOf(s, TRUE)' = CopyOf(s, TRUE)
        BY <2>2, OwnAfter
      <3> QED BY <1>4, <2>1, <3>1, <3>2 DEF LayoutSoFar, DataSoFar
    <2> HIDE DEF node
    <2> QED BY <1>4, <2>1, <2>2, <2>3, TaskKeeps DEF AtWork, Ended
  <1>5. CASE RemoveMeta(s)
    BY <1>4, <1>5
       DEF RemoveMeta, TaskChange, At, Goto, Put, NoFault, AtWork
  <1>6. CASE WriteMeta(s)
    BY <1>4, <1>6
       DEF WriteMeta, TaskChange, At, Goto, Put, NoFault, AtWork
  <1> QED BY <1>1, <1>2, <1>3, <1>5, <1>6

LEMMA CallFailsKeepsSeedInv ==
    ASSUME SeedInv, NEW s \in Scripts, CallFails(s)
    PROVE  SeedInv'
  <1>1. TaskChange(s, "failed", Node(s)) /\ s \in hit'
    BY SameSeeds DEF CallFails, TaskChange, Goto, Fault
  <1>2. Alone(s) => (LayoutSoFar(s) /\ DataSoFar(s))'
    <2> SUFFICES ASSUME Alone(s) PROVE (LayoutSoFar(s) /\ DataSoFar(s))'
      OBVIOUS
    <2>1. ~Node(s).dir => ~Node(s).meta
      BY NodeFound DEF LayoutSoFar
    <2>2. Node(s)' = Node(s) /\ pc'[s] = "failed"
      BY <1>1, OwnAfter
    <2> QED BY <1>1, <2>1, <2>2 DEF LayoutSoFar, DataSoFar
  <1> QED BY <1>1, <1>2, NodeFound, TaskKeeps DEF Ended

(* The run's beginning and end, crashes, and the operator leave the files. *)
LEMMA BeginKeepsSeedInv ==
    ASSUME SeedInv, Begin
    PROVE  SeedInv'
  <1>1. TypeOK'
    <2>1. faults' \in 0..MaxFaults
      BY FaultType DEF SeedInv, TypeOK, Begin, Fault
    <2>2. pc' \in [Scripts -> AtWork \cup Ended]
      BY DEF Begin, AtWork
    <2>3. hit' \subseteq Scripts /\ ubuntu' \subseteq Isos
      BY DEF SeedInv, TypeOK, Begin
    <2>4. conf' \in 0..gen'
      BY DEF SeedInv, TypeOK, Begin, world
    <2> QED BY <2>1, <2>2, <2>3, <2>4 DEF SeedInv, TypeOK, Begin, world
  <1>2. TaskInv'
    <2> SUFFICES ASSUME NEW s \in Scripts, Alone(s)
                 PROVE  (LayoutSoFar(s) /\ DataSoFar(s))'
      BY DEF TaskInv, Alone, SameSeed, Path
    <2>1. Node(s)' = Node(s) /\ pc'[s] = "ensure_iso"
      BY DEF Begin, Node, Path
    <2>2. ~Node(s).dir => ~Node(s).meta
      BY NodeFound DEF LayoutSoFar
    <2> QED BY <2>1, <2>2 DEF LayoutSoFar, DataSoFar
  <1> QED BY <1>1, <1>2 DEF SeedInv

LEMMA CrashKeepsSeedInv ==
    ASSUME SeedInv, Crash
    PROVE  SeedInv'
  <1>1. TypeOK'
    <2>1. faults' \in 0..MaxFaults
      BY FaultType DEF SeedInv, TypeOK, Crash
    <2>2. /\ pc' \in [Scripts -> AtWork \cup Ended]
          /\ \A s \in Scripts : pc'[s] \in Ended
      BY DEF Crash, Ended
    <2> QED BY <2>1, <2>2 DEF SeedInv, TypeOK, Crash, world
  <1>2. TaskInv'
    <2> SUFFICES ASSUME NEW s \in Scripts, Alone(s)
                 PROVE  (LayoutSoFar(s) /\ DataSoFar(s))'
      BY DEF TaskInv, Alone, SameSeed, Path
    <2>1. Node(s)' = Node(s) /\ pc'[s] = "failed" /\ s \in hit'
      BY DEF Crash, Node, Path
    <2>2. ~Node(s).dir => ~Node(s).meta
      BY NodeFound DEF LayoutSoFar
    <2> QED BY <2>1, <2>2 DEF LayoutSoFar, DataSoFar
  <1> QED BY <1>1, <1>2 DEF SeedInv

LEMMA RestKeepsSeedInv ==
    ASSUME SeedInv, Return \/ Operator \/ UNCHANGED vars
    PROVE  SeedInv'
  <1>1. /\ UNCHANGED <<seeds, pc, ubuntu, conf, faults, hit>>
        /\ running' \in BOOLEAN
        /\ ~running' => \A s \in Scripts : pc[s] \in Ended
    BY DEF Return, Operator, Reconfigure, ReplaceIso, Change, run, vars,
       SeedInv, TypeOK
  <1>2. TypeOK'
    <2>1. /\ ubuntuIsos' \subseteq Isos /\ changes' \in 0..MaxChanges
          /\ gen' \in 0..changes' /\ conf' \in 0..gen'
      BY <1>1, BoundsAssumption
         DEF Return, Operator, Reconfigure, ReplaceIso, Change, world, vars,
             SeedInv, TypeOK
    <2> QED BY <1>1, <2>1 DEF SeedInv, TypeOK
  <1>3. TaskInv'
    BY <1>1 DEF SeedInv, TaskInv, Alone, SameSeed, LayoutSoFar, DataSoFar,
       Node, Path, IsUbuntu, CopyOf
  <1> QED BY <1>2, <1>3 DEF SeedInv

LEMMA SeedNext == SeedInv /\ [Next]_vars => SeedInv'
  <1> SUFFICES ASSUME SeedInv, [Next]_vars PROVE SeedInv'
    OBVIOUS
  <1>1. CASE Begin
    BY <1>1, BeginKeepsSeedInv
  <1>2. ASSUME NEW s \in Scripts, Task(s) PROVE SeedInv'
    BY <1>2, DirectoryKeepsSeedInv, FileKeepsSeedInv, CallFailsKeepsSeedInv
       DEF Task
  <1>3. CASE Crash
    BY <1>3, CrashKeepsSeedInv
  <1>4. CASE Return \/ Operator \/ UNCHANGED vars
    BY <1>4, RestKeepsSeedInv
  <1> QED BY <1>1, <1>2, <1>3, <1>4 DEF Next, Step

LEMMA SeedAlways == Spec => []SeedInv
  BY SeedInit, SeedNext, PTL DEF Spec

---------------------------------------------------------------------------
(* Tasks that share a path. *)

(* What a step of s changes for a task u of the same path, and for others. *)
LEMMA SamePathAfter ==
    ASSUME TypeOK, NEW s \in Scripts, NEW u \in SameSeed(s),
           NEW label, NEW node, TaskChange(s, label, node)
    PROVE  /\ Node(u) = Node(s) /\ Node(u)' = node
           /\ SameSeed(u) = SameSeed(s) /\ s \in SameSeed(s)
           /\ IsUbuntu(u) = IsUbuntu(s) /\ IsUbuntu(u)' = IsUbuntu(u)
           /\ pc' = [pc EXCEPT ![s] = label] /\ pc \in [Scripts -> AtWork \cup Ended]
           /\ hit \subseteq hit'
           /\ \A t \in SameSeed(s) :
                /\ pc'[t] = IF t = s THEN label ELSE pc[t]
                /\ CopyOf(t, TRUE)' = CopyOf(t, TRUE)
                /\ CopyOf(t, FALSE)' = CopyOf(t, FALSE)
  <1>1. u \in Scripts /\ Path(u) = Path(s)
    BY DEF SameSeed
  <1>2. Node(u) = Node(s) /\ Node(u)' = node
    BY <1>1, PathType DEF TypeOK, TaskChange, Node, Path
  <1>3. IsUbuntu(u) = IsUbuntu(s) /\ IsUbuntu(u)' = IsUbuntu(u)
    BY <1>1 DEF IsUbuntu, Path, TaskChange, run
  <1>4. SameSeed(u) = SameSeed(s) /\ s \in SameSeed(s)
    BY <1>1 DEF SameSeed
  <1>5. \A t \in SameSeed(s) :
          /\ pc'[t] = IF t = s THEN label ELSE pc[t]
          /\ CopyOf(t, TRUE)' = CopyOf(t, TRUE)
          /\ CopyOf(t, FALSE)' = CopyOf(t, FALSE)
    BY DEF SameSeed, TypeOK, TaskChange, CopyOf, run
  <1> QED BY <1>2, <1>3, <1>4, <1>5 DEF TypeOK, TaskChange

LEMMA OtherPathAfter ==
    ASSUME TypeOK, NEW s \in Scripts, NEW u \in Scripts \ SameSeed(s),
           NEW label, NEW node, TaskChange(s, label, node),
           LaidOut(u), Filled(u), Described(u)
    PROVE  (LaidOut(u) /\ Filled(u) /\ Described(u))'
  <1>1. Node(u)' = Node(u) /\ pc'[u] = pc[u]
    BY PathType DEF SameSeed, TypeOK, TaskChange, Node, Path
  <1>2. IsUbuntu(u)' = IsUbuntu(u) /\ hit \subseteq hit'
    BY DEF IsUbuntu, TaskChange, run
  <1>3. \A t \in SameSeed(u) :
          /\ pc'[t] = pc[t]
          /\ CopyOf(t, TRUE)' = CopyOf(t, TRUE)
          /\ CopyOf(t, FALSE)' = CopyOf(t, FALSE)
    BY DEF SameSeed, TypeOK, TaskChange, CopyOf, run
  <1>4. SameSeed(u)' = SameSeed(u)
    BY DEF SameSeed, Path
  <1>5. LaidOut(u)'
    BY <1>1, <1>2 DEF LaidOut
  <1>6. Filled(u)'
    BY <1>1, <1>2, <1>3, <1>4 DEF Filled
  <1>7. Described(u)'
    BY <1>1, <1>2, <1>3, <1>4 DEF Described
  <1> QED BY <1>5, <1>6, <1>7

(* A step keeps the shared invariant if it keeps it at its own path.       *)
LEMMA SharedKeeps ==
    ASSUME TypeOK, SharedInv, NEW s \in Scripts,
           NEW label, NEW node, TaskChange(s, label, node),
           \A u \in SameSeed(s) : (LaidOut(u) /\ Filled(u) /\ Described(u))'
    PROVE  SharedInv'
  <1>1. \A u \in Scripts \ SameSeed(s) :
          (LaidOut(u) /\ Filled(u) /\ Described(u))'
    BY OtherPathAfter DEF SharedInv
  <1> QED BY <1>1 DEF SharedInv

(* The shared invariant of one path, as a condition on its node, on the     *)
(* calls f of its tasks and on the tasks h that a fault has hit.           *)
LaidAt(s, f, node) ==
    \A u \in SameSeed(s) :
        /\ f[u] \in {"stat", "unlink", "mkdir", "remove_meta", "write_meta"} =>
             IsUbuntu(s)
        /\ f[u] = "remove" => (IsUbuntu(s) => node.dir)
        /\ f[u] \in PastRemove => (node.dir <=> IsUbuntu(s))

FilledAt(s, f, h, node) ==
    (\E u \in SameSeed(s) : f[u] \in PastRemove) =>
        \E t \in SameSeed(s) :
            \/ node.data = {} /\ (f[t] = "open" \/ t \in h)
            \/ node.data = {CopyOf(t, FALSE)} /\ (f[t] = "copy" \/ t \in h)
            \/ node.data = {CopyOf(t, TRUE)}

DescribedAt(s, f, h, node) ==
    (\E u \in SameSeed(s) : f[u] = "ok" /\ IsUbuntu(s)) =>
        \/ node.meta
        \/ \E t \in SameSeed(s) : f[t] = "write_meta" \/ t \in h

LEMMA SharedFound ==
    ASSUME TypeOK, SharedInv, NEW s \in Scripts
    PROVE  /\ LaidAt(s, pc, Node(s))
           /\ FilledAt(s, pc, hit, Node(s))
           /\ DescribedAt(s, pc, hit, Node(s))
           /\ Node(s) \in Nodes /\ IsUbuntu(s) \in BOOLEAN
           /\ s \in SameSeed(s)
           /\ UNCHANGED seeds => seeds' = [seeds EXCEPT ![Path(s)] = Node(s)]
  <1>1. \A u \in SameSeed(s) :
          /\ Node(u) = Node(s) /\ IsUbuntu(u) = IsUbuntu(s)
          /\ SameSeed(u) = SameSeed(s)
          /\ LaidOut(u) /\ Filled(u) /\ Described(u)
    BY DEF SharedInv, SameSeed, Node, IsUbuntu, Path
  <1>2. LaidAt(s, pc, Node(s))
    BY <1>1 DEF LaidAt, LaidOut
  <1>3. FilledAt(s, pc, hit, Node(s))
    BY <1>1 DEF FilledAt, Filled
  <1>4. DescribedAt(s, pc, hit, Node(s))
    BY <1>1 DEF DescribedAt, Described
  <1>5. /\ Node(s) \in Nodes /\ IsUbuntu(s) \in BOOLEAN /\ s \in SameSeed(s)
        /\ UNCHANGED seeds => seeds' = [seeds EXCEPT ![Path(s)] = Node(s)]
    BY PathType DEF TypeOK, Node, IsUbuntu, SameSeed
  <1> QED BY <1>2, <1>3, <1>4, <1>5

LEMMA SharedChange ==
    ASSUME TypeOK, SharedInv, NEW s \in Scripts, NEW label, NEW node,
           TaskChange(s, label, node),
           \A f : f[s] = label /\ (\A u \in SameSeed(s) \ {s} : f[u] = pc[u]) =>
             /\ LaidAt(s, f, node)
             /\ FilledAt(s, f, hit', node)
             /\ DescribedAt(s, f, hit', node)
    PROVE  SharedInv'
  <1> SUFFICES ASSUME NEW u \in SameSeed(s)
               PROVE  (LaidOut(u) /\ Filled(u) /\ Described(u))'
    BY SharedKeeps
  <1>1. /\ Node(u)' = node
        /\ SameSeed(u) = SameSeed(s) /\ s \in SameSeed(s)
        /\ IsUbuntu(u) = IsUbuntu(s) /\ IsUbuntu(u)' = IsUbuntu(s)
        /\ \A t \in SameSeed(s) :
             /\ pc'[t] = IF t = s THEN label ELSE pc[t]
             /\ CopyOf(t, TRUE)' = CopyOf(t, TRUE)
             /\ CopyOf(t, FALSE)' = CopyOf(t, FALSE)
    BY SamePathAfter
  <1>2. SameSeed(u)' = SameSeed(u)
    BY DEF SameSeed, Path
  <1>3. /\ LaidAt(s, pc', node)
        /\ FilledAt(s, pc', hit', node)
        /\ DescribedAt(s, pc', hit', node)
    BY <1>1
  <1>4. LaidOut(u)'
    BY <1>1, <1>3 DEF LaidOut, LaidAt
  <1>5. Filled(u)'
    BY <1>1, <1>2, <1>3 DEF Filled, FilledAt
  <1>6. Described(u)'
    BY <1>1, <1>2, <1>3 DEF Described, DescribedAt
  <1> QED BY <1>4, <1>5, <1>6

(* A step that leaves the path as it is, of a task that no other waits     *)
(* for, or that is hit by a fault.                                         *)
LEMMA SharedQuiet ==
    ASSUME TypeOK, SharedInv, NEW s \in Scripts,
           NEW label, TaskChange(s, label, Node(s)),
           \/ s \in hit'
           \/ pc[s] \notin {"open", "copy", "write_meta"}
           \/ pc[s] = "open" /\ Node(s).data # {},
           \/ label = "failed"
           \/ label \in {"stat", "unlink", "mkdir"} /\ IsUbuntu(s)
           \/ label = "remove" /\ (IsUbuntu(s) => Node(s).dir)
    PROVE  SharedInv'
  <1> SUFFICES ASSUME NEW f, f[s] = label,
                      \A u \in SameSeed(s) \ {s} : f[u] = pc[u]
               PROVE  /\ LaidAt(s, f, Node(s))
                      /\ FilledAt(s, f, hit', Node(s))
                      /\ DescribedAt(s, f, hit', Node(s))
    BY SharedChange
  <1>1. hit \subseteq hit'
    BY DEF TaskChange
  <1>2. LaidAt(s, f, Node(s))
    BY SharedFound DEF LaidAt, PastRemove
  <1>3. FilledAt(s, f, hit', Node(s))
    <2> SUFFICES ASSUME NEW u \in SameSeed(s), f[u] \in PastRemove
                 PROVE  FilledAt(s, f, hit', Node(s))
      BY DEF FilledAt
    <2>1. pc[u] \in PastRemove
      BY DEF PastRemove
    <2>2. PICK t \in SameSeed(s) :
            \/ Node(s).data = {} /\ (pc[t] = "open" \/ t \in hit)
            \/ Node(s).data = {CopyOf(t, FALSE)} /\ (pc[t] = "copy" \/ t \in hit)
            \/ Node(s).data = {CopyOf(t, TRUE)}
      BY <2>1, SharedFound DEF FilledAt
    <2>3. \/ t \in hit' \/ f[t] = pc[t]
          \/ Node(s).data # {} /\ pc[t] # "copy"
          \/ pc[t] \notin {"open", "copy"}
      OBVIOUS
    <2> QED BY <1>1, <2>2, <2>3 DEF FilledAt
  <1>4. DescribedAt(s, f, hit', Node(s))
    BY <1>1, SharedFound DEF DescribedAt
  <1> QED BY <1>2, <1>3, <1>4

LEMMA DirectoryKeepsShared ==
    ASSUME TypeOK, SharedInv, NEW s \in Scripts,
           \/ EnsureIsoDir(s) \/ StatSeed(s) \/ UnlinkStale(s)
           \/ MakeSeedDir(s)
    PROVE  SharedInv'
  <1> USE DEF At, Goto, Put, NoFault, AtWork, Ended
  <1>0. pc[s] \in {"stat", "unlink", "mkdir"} => IsUbuntu(s)
    BY SharedFound DEF LaidAt
  <1>1. ASSUME NEW label, TaskChange(s, label, Node(s)),
               pc[s] \notin {"open", "copy", "write_meta"},
               \/ label = "failed"
               \/ label \in {"stat", "unlink", "mkdir"} /\ IsUbuntu(s)
               \/ label = "remove" /\ ~IsUbuntu(s)
        PROVE  SharedInv'
    BY <1>1, SharedQuiet
  <1>2. CASE EnsureIsoDir(s)
    BY <1>1, <1>2, SharedFound DEF EnsureIsoDir, TaskChange
  <1>3. CASE StatSeed(s)
    BY <1>0, <1>1, <1>3, SharedFound DEF StatSeed, TaskChange
  <1>4. CASE UnlinkStale(s)
    <2>1. CASE Node(s) = Absent \/ Node(s).dir
      BY <1>1, <1>4, <2>1, SharedFound DEF UnlinkStale, TaskChange
    <2>2. CASE ~(Node(s) = Absent \/ Node(s).dir)
      <3>1. TaskChange(s, "mkdir", Absent) /\ IsUbuntu(s)
        BY <1>0, <1>4, <2>2 DEF UnlinkStale, TaskChange
      <3>2. \A u \in SameSeed(s) : pc[u] \notin PastRemove /\ pc[u] # "remove"
        BY <2>2, <3>1, SharedFound DEF LaidAt
      <3> SUFFICES ASSUME NEW f, f[s] = "mkdir",
                          \A u \in SameSeed(s) \ {s} : f[u] = pc[u]
                   PROVE  /\ LaidAt(s, f, Absent)
                          /\ FilledAt(s, f, hit', Absent)
                          /\ DescribedAt(s, f, hit', Absent)
        BY <3>1, SharedChange
      <3>3. \A u \in SameSeed(s) : f[u] \notin PastRemove /\ f[u] # "remove"
        BY <3>2 DEF PastRemove
      <3>4. LaidAt(s, f, Absent)
        BY <3>1, <3>3 DEF LaidAt
      <3> QED BY <3>3, <3>4 DEF FilledAt, DescribedAt, PastRemove
    <2> QED BY <2>1, <2>2
  <1>5. CASE MakeSeedDir(s)
    <2>1. CASE Node(s).dir \/ Node(s) = Absent
      <3> DEFINE node == [Node(s) EXCEPT !.dir = TRUE]
      <3>1. TaskChange(s, "remove", node) /\ IsUbuntu(s) /\ pc[s] = "mkdir"
        BY <1>0, <1>5, <2>1 DEF MakeSeedDir, TaskChange
      <3>2. node.dir /\ node.data = Node(s).data /\ node.meta = Node(s).meta
        BY SharedFound DEF Nodes
      <3>3. hit \subseteq hit'
        BY <3>1 DEF TaskChange
      <3> HIDE DEF node
      <3> SUFFICES ASSUME NEW f, f[s] = "remove",
                          \A u \in SameSeed(s) \ {s} : f[u] = pc[u]
                   PROVE  /\ LaidAt(s, f, node)
                          /\ FilledAt(s, f, hit', node)
                          /\ DescribedAt(s, f, hit', node)
        BY <3>1, SharedChange
      <3>4. LaidAt(s, f, node)
        BY <3>1, <3>2, SharedFound DEF LaidAt, PastRemove
      <3>5. FilledAt(s, f, hit', node)
        BY <3>1, <3>2, <3>3, SharedFound DEF FilledAt, PastRemove
      <3>6. DescribedAt(s, f, hit', node)
        BY <3>1, <3>2, <3>3, SharedFound DEF DescribedAt
      <3> QED BY <3>4, <3>5, <3>6
    <2>2. CASE ~(Node(s).dir \/ Node(s) = Absent)
      BY <1>1, <1>5, <2>2, SharedFound DEF MakeSeedDir, TaskChange
    <2> QED BY <2>1, <2>2
  <1> QED BY <1>2, <1>3, <1>4, <1>5

LEMMA FileKeepsShared ==
    ASSUME TypeOK, SharedInv, NEW s \in Scripts,
           \/ RemoveDest(s) \/ OpenDest(s) \/ CopyDest(s)
           \/ RemoveMeta(s) \/ WriteMeta(s)
    PROVE  SharedInv'
  <1> USE DEF At, Goto, Put, NoFault, AtWork
  <1>0. Node(s) \in Nodes /\ s \in SameSeed(s)
    BY SharedFound
  <1>1. CASE RemoveDest(s)
    <2>1. CASE Node(s).dir /\ ~IsUbuntu(s)
      <3>1. TaskChange(s, "failed", Node(s)) /\ pc[s] = "remove"
        BY <1>1, <2>1, SharedFound DEF RemoveDest, TaskChange
      <3> QED BY <3>1, SharedQuiet
    <2>2. CASE ~(Node(s).dir /\ ~IsUbuntu(s))
      <3> DEFINE node == [Node(s) EXCEPT !.data = {}]
      <3>1. TaskChange(s, "open", node) /\ pc[s] = "remove"
        BY <1>1, <2>2 DEF RemoveDest, TaskChange
      <3>2. /\ node.data = {} /\ node.dir = Node(s).dir
            /\ node.meta = Node(s).meta /\ hit \subseteq hit'
        BY <1>0, <3>1 DEF Nodes, TaskChange
      <3>3. node.dir <=> IsUbuntu(s)
        BY <2>2, <3>1, <3>2, SharedFound DEF LaidAt, Nodes
      <3> HIDE DEF node
      <3> SUFFICES ASSUME NEW f, f[s] = "open",
                          \A u \in SameSeed(s) \ {s} : f[u] = pc[u]
                   PROVE  /\ LaidAt(s, f, node)
                          /\ FilledAt(s, f, hit', node)
                          /\ DescribedAt(s, f, hit', node)
        BY <3>1, SharedChange
      <3>4. LaidAt(s, f, node)
        BY <3>2, <3>3, SharedFound DEF LaidAt
      <3>5. FilledAt(s, f, hit', node)
        BY <1>0, <3>2 DEF FilledAt
      <3>6. DescribedAt(s, f, hit', node)
        BY <3>1, <3>2, SharedFound DEF DescribedAt
      <3> QED BY <3>4, <3>5, <3>6
    <2> QED BY <2>1, <2>2
  <1>2. CASE OpenDest(s)
    <2>1. CASE Node(s).data # {}
      <3>1. TaskChange(s, "failed", Node(s)) /\ pc[s] = "open"
        BY <1>2, <2>1, SharedFound DEF OpenDest, TaskChange
      <3> QED BY <2>1, <3>1, SharedQuiet
    <2>2. CASE Node(s).data = {}
      <3> DEFINE node == [Node(s) EXCEPT !.data = {CopyOf(s, FALSE)}]
      <3>1. TaskChange(s, "copy", node) /\ pc[s] = "open"
        BY <1>2, <2>2 DEF OpenDest, TaskChange
      <3>2. /\ node.data = {CopyOf(s, FALSE)} /\ node.dir = Node(s).dir
            /\ node.meta = Node(s).meta /\ hit \subseteq hit'
        BY <1>0, <3>1 DEF Nodes, TaskChange
      <3> HIDE DEF node
      <3> SUFFICES ASSUME NEW f, f[s] = "copy",
                          \A u \in SameSeed(s) \ {s} : f[u] = pc[u]
                   PROVE  /\ LaidAt(s, f, node)
                          /\ FilledAt(s, f, hit', node)
                          /\ DescribedAt(s, f, hit', node)
        BY <3>1, SharedChange
      <3>4. LaidAt(s, f, node)
        BY <3>1, <3>2, SharedFound DEF LaidAt, PastRemove
      <3>5. FilledAt(s, f, hit', node)
        BY <1>0, <3>2 DEF FilledAt
      <3>6. DescribedAt(s, f, hit', node)
        BY <3>1, <3>2, SharedFound DEF DescribedAt
      <3> QED BY <3>4, <3>5, <3>6
    <2> QED BY <2>1, <2>2
  <1>3. CASE CopyDest(s)
    <2> DEFINE data == IF Node(s).data = {CopyOf(s, FALSE)}
                       THEN {CopyOf(s, TRUE)} ELSE Node(s).data
               node == [Node(s) EXCEPT !.data = data]
               label == IF IsUbuntu(s) THEN "remove_meta" ELSE "ok"
    <2>1. TaskChange(s, label, node) /\ pc[s] = "copy"
      BY <1>3 DEF CopyDest, TaskChange
    <2>2. /\ node.data = data /\ node.dir = Node(s).dir
          /\ node.meta = Node(s).meta /\ hit \subseteq hit'
      BY <1>0, <2>1 DEF Nodes, TaskChange
    <2>3. /\ label \in {"remove_meta", "ok"}
          /\ label = "ok" <=> ~IsUbuntu(s)
      OBVIOUS
    <2>4. PICK t \in SameSeed(s) :
            \/ Node(s).data = {} /\ (pc[t] = "open" \/ t \in hit)
            \/ Node(s).data = {CopyOf(t, FALSE)} /\ (pc[t] = "copy" \/ t \in hit)
            \/ Node(s).data = {CopyOf(t, TRUE)}
      BY <1>0, <2>1, SharedFound DEF FilledAt, PastRemove
    <2>5. \/ data = {CopyOf(s, TRUE)} \/ data = {CopyOf(t, TRUE)}
          \/ data = {} /\ ((t # s /\ pc[t] = "open") \/ t \in hit)
          \/ data = {CopyOf(t, FALSE)} /\ ((t # s /\ pc[t] = "copy") \/ t \in hit)
      <3>1. CASE Node(s).data = {CopyOf(s, FALSE)}
        BY <3>1
      <3>2. CASE Node(s).data # {CopyOf(s, FALSE)}
        <4>1. data = Node(s).data
          BY <3>2
        <4> HIDE DEF data
        <4> QED BY <2>1, <2>4, <3>2, <4>1
      <3> QED BY <3>1, <3>2
    <2> HIDE DEF data, node, label
    <2> SUFFICES ASSUME NEW f, f[s] = label,
                        \A u \in SameSeed(s) \ {s} : f[u] = pc[u]
                 PROVE  /\ LaidAt(s, f, node)
                        /\ FilledAt(s, f, hit', node)
                        /\ DescribedAt(s, f, hit', node)
      BY <2>1, SharedChange
    <2>6. LaidAt(s, f, node)
      BY <2>1, <2>2, <2>3, SharedFound DEF LaidAt, PastRemove
    <2>7. FilledAt(s, f, hit', node)
      BY <1>0, <2>2, <2>5 DEF FilledAt
    <2>8. DescribedAt(s, f, hit', node)
      BY <2>1, <2>2, <2>3, SharedFound DEF DescribedAt
    <2> QED BY <2>6, <2>7, <2>8
  <1>4. ASSUME NEW b \in BOOLEAN, NEW label \in {"write_meta", "ok"},
               pc[s] \in {"remove_meta", "write_meta"},
               TaskChange(s, label, [Node(s) EXCEPT !.meta = b]),
               label = "ok" => b
        PROVE  SharedInv'
    <2> DEFINE node == [Node(s) EXCEPT !.meta = b]
    <2>1. TaskChange(s, label, node)
      BY <1>4
    <2>2. /\ node.data = Node(s).data /\ node.dir = Node(s).dir
          /\ node.meta = b /\ hit \subseteq hit'
      BY <1>0, <2>1 DEF Nodes, TaskChange
    <2> HIDE DEF node
    <2> SUFFICES ASSUME NEW f, f[s] = label,
                        \A u \in SameSeed(s) \ {s} : f[u] = pc[u]
                 PROVE  /\ LaidAt(s, f, node)
                        /\ FilledAt(s, f, hit', node)
                        /\ DescribedAt(s, f, hit', node)
      BY <2>1, SharedChange
    <2>3. LaidAt(s, f, node)
      BY <1>4, <2>2, SharedFound DEF LaidAt, PastRemove
    <2>4. FilledAt(s, f, hit', node)
      <3>1. PICK t \in SameSeed(s) :
              \/ Node(s).data = {} /\ (pc[t] = "open" \/ t \in hit)
              \/ Node(s).data = {CopyOf(t, FALSE)}
                 /\ (pc[t] = "copy" \/ t \in hit)
              \/ Node(s).data = {CopyOf(t, TRUE)}
        BY <1>0, <1>4, SharedFound DEF FilledAt, PastRemove
      <3> QED BY <1>4, <2>2, <3>1 DEF FilledAt
    <2>5. DescribedAt(s, f, hit', node)
      BY <1>0, <1>4, <2>2 DEF DescribedAt
    <2> QED BY <2>3, <2>4, <2>5
  <1>5. CASE RemoveMeta(s)
    BY <1>4, <1>5 DEF RemoveMeta, TaskChange
  <1>6. CASE WriteMeta(s)
    BY <1>4, <1>6 DEF WriteMeta, TaskChange
  <1> QED BY <1>1, <1>2, <1>3, <1>5, <1>6

LEMMA SharedNext == SeedInv /\ SharedInv /\ [Next]_vars => SharedInv'
  <1> SUFFICES ASSUME SeedInv, SharedInv, [Next]_vars PROVE SharedInv'
    OBVIOUS
  <1>0. TypeOK
    BY DEF SeedInv
  <1>1. CASE Begin
    BY <1>1 DEF Begin, SharedInv, LaidOut, Filled, Described, PastRemove
  <1>2. ASSUME NEW s \in Scripts, CallFails(s) PROVE SharedInv'
    <2>1. TaskChange(s, "failed", Node(s)) /\ s \in hit'
      BY <1>0, <1>2, SharedFound DEF CallFails, TaskChange, Goto, Fault
    <2> QED BY <1>0, <2>1, SharedQuiet
  <1>3. ASSUME NEW s \in Scripts, Task(s) PROVE SharedInv'
    BY <1>0, <1>2, <1>3, DirectoryKeepsShared, FileKeepsShared DEF Task
  <1>4. CASE Crash
    BY <1>4 DEF Crash, SharedInv, LaidOut, Filled, Described, PastRemove
  <1>5. CASE Return \/ Operator \/ UNCHANGED vars
    <2>1. UNCHANGED <<seeds, pc, ubuntu, conf, hit>>
      BY <1>5 DEF Return, Operator, Reconfigure, ReplaceIso, Change, run, vars
    <2>2. \A s \in Scripts :
            /\ Node(s)' = Node(s) /\ IsUbuntu(s)' = IsUbuntu(s)
            /\ SameSeed(s)' = SameSeed(s)
            /\ CopyOf(s, TRUE)' = CopyOf(s, TRUE)
            /\ CopyOf(s, FALSE)' = CopyOf(s, FALSE)
      BY <2>1 DEF Node, Path, IsUbuntu, SameSeed, CopyOf
    <2>3. \A s \in Scripts : SameSeed(s) \subseteq Scripts
      BY DEF SameSeed
    <2> SUFFICES ASSUME NEW s \in Scripts
                 PROVE  (LaidOut(s) /\ Filled(s) /\ Described(s))'
      BY DEF SharedInv
    <2>4. LaidOut(s) /\ Filled(s) /\ Described(s)
      BY DEF SharedInv
    <2>5. LaidOut(s)'
      BY <2>1, <2>2, <2>4 DEF LaidOut
    <2>6. Filled(s)'
      BY <2>1, <2>2, <2>3, <2>4 DEF Filled
    <2>7. Described(s)'
      BY <2>1, <2>2, <2>4 DEF Described
    <2> QED BY <2>5, <2>6, <2>7
  <1> QED BY <1>1, <1>3, <1>4, <1>5 DEF Next, Step

LEMMA SharedInit == Init => SharedInv
  BY DEF Init, SharedInv, LaidOut, Filled, Described, PastRemove

LEMMA SharedAlways == Spec => []SharedInv
  BY SharedInit, SharedNext, SeedAlways, PTL DEF Spec

---------------------------------------------------------------------------
(* The results. *)

(* Every variable keeps its type, and a run that is over has no task left  *)
(* at work, for any scripts and any number of faults and changes.          *)
THEOREM TypeCorrect == Spec => []TypeOK
  <1>1. SeedInv => TypeOK
    BY DEF SeedInv
  <1> QED BY <1>1, SeedAlways, PTL

(* A script that was installed is served in the layout its installer       *)
(* expects, whole and of the run's configuration, whatever was at its path *)
(* and whatever the other tasks do (manager.rs:41-47).                     *)
THEOREM InstalledIsServable == Spec => []SucceededIsServable
  <1>1. SeedInv => SucceededIsServable
    <2> SUFFICES ASSUME SeedInv, NEW s \in Scripts, Alone(s), pc[s] = "ok"
                 PROVE  Servable(s)
      BY DEF SucceededIsServable
    <2>1. LayoutSoFar(s) /\ DataSoFar(s)
      BY NodeFound
    <2>2. s \in SameSeed(s)
      BY DEF SameSeed
    <2>3. Node(s).dir <=> IsUbuntu(s)
      BY <2>1 DEF LayoutSoFar
    <2>4. Node(s).data = {CopyOf(s, TRUE)} /\ (IsUbuntu(s) => Node(s).meta)
      BY <2>1 DEF DataSoFar
    <2> QED BY <2>2, <2>3, <2>4 DEF Servable
  <1> QED BY <1>1, SeedAlways, PTL

(* A task fails by its own fault, or over a seed directory that cannot be  *)
(* replaced by a file, never by another script's fault (lib.rs:259-262).   *)
THEOREM FailuresStayAlone == Spec => []FailsAlone
  <1>1. SeedInv => FailsAlone
    BY NodeFound DEF FailsAlone, LayoutSoFar
  <1> QED BY <1>1, SeedAlways, PTL

(* Scripts of one name overwrite each other's seed in any order of calls,  *)
(* and leave one of them there, whole, with what its installer asks for.   *)
THEOREM SharedStaysWhole == Spec => []SharedIsWhole
  <1>1. TypeOK /\ SharedInv => SharedIsWhole
    <2> SUFFICES ASSUME TypeOK, SharedInv, NEW s \in Scripts, pc[s] = "ok",
                        \A t \in SameSeed(s) : pc[t] \in Ended /\ t \notin hit
                 PROVE  Servable(s)
      BY DEF SharedIsWhole
    <2>1. Node(s).dir <=> IsUbuntu(s)
      BY DEF SharedInv, LaidOut, PastRemove
    <2>2. \E t \in SameSeed(s) : Node(s).data = {CopyOf(t, TRUE)}
      BY DEF SharedInv, Filled, PastRemove, Ended
    <2>3. IsUbuntu(s) => Node(s).meta
      BY DEF SharedInv, Described, Ended
    <2> QED BY <2>1, <2>2, <2>3 DEF Servable
  <1> QED BY <1>1, TypeCorrect, SharedAlways, PTL

=============================================================================
