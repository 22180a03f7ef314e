--------------------------- MODULE ServeTreeProofs --------------------------
(***************************************************************************)
(* Proofs about ServeTree, for any folders, names, faults and changes: its *)
(* invariant TreeInv is inductive, and it implements RawTree.              *)
(***************************************************************************)
EXTENDS ServeTree, TLAPS

(* Folder numbers can be compared. *)
LEMMA LinkFields ==
    ASSUME NEW l \in Links
    PROVE  FolderOf(l) \in Nat /\ NameOf(l) \in Names
  BY BoundsAssumption DEF Links, Folders, FolderOf, NameOf

(* The counters stay within their bounds. *)
LEMMA FaultType ==
    ASSUME faults \in 0..MaxFaults, Fault \/ NoFault
    PROVE  faults' \in 0..MaxFaults
  BY BoundsAssumption DEF Fault, NoFault

(* Nothing has been discovered, staged or served at first. *)
LEMMA TreeInit == Init => TreeInv
  <1> SUFFICES ASSUME Init PROVE TreeInv
    OBVIOUS
  <1>1. TypeOK
    <2>1. faults \in 0..MaxFaults /\ changes \in 0..MaxChanges
      BY BoundsAssumption DEF Init
    <2> QED BY <2>1 DEF Init, TypeOK, Labels
  <1>2. StagingInv /\ ScanInv /\ ServedIsOfOneRebuild
    BY DEF Init, StagingInv, ScanInv, ServedIsOfOneRebuild, OneLinkPerName,
       Rebuilding
  <1> QED BY <1>1, <1>2 DEF TreeInv

(* A run that ends leaves the directories, and needs no local state.       *)
LEMMA EndKeepsTreeInv ==
    ASSUME TreeInv, End, Fault \/ NoFault,
           UNCHANGED <<files, isos, staging, changes, published>>
    PROVE  TreeInv'
  <1>1. faults' \in 0..MaxFaults
    BY FaultType DEF TreeInv, TypeOK
  <1> QED
    BY <1>1 DEF TreeInv, Rebuilding, End, TypeOK, StagingInv, ScanInv,
       ServedIsOfOneRebuild, OneLinkPerName, Labels

(* HashMap `seen` keeps the first file it meets under a name.              *)
LEMMA KeepFirst ==
    ASSUME NEW l \in Links, seen \subseteq Links, OneLinkPerName(seen),
           \A k \in seen : FolderOf(k) <= FolderOf(l)
    PROVE  /\ Keep(l) \subseteq Links /\ seen \subseteq Keep(l)
           /\ Keep(l) \subseteq seen \cup {l}
           /\ OneLinkPerName(Keep(l))
           /\ \E k \in Keep(l) : NameOf(k) = NameOf(l)
                                 /\ FolderOf(k) <= FolderOf(l)
  <1>1. FolderOf(l) <= FolderOf(l)
    BY LinkFields
  <1>2. CASE \E k \in seen : NameOf(k) = NameOf(l)
    BY <1>2 DEF Keep
  <1>3. CASE ~\E k \in seen : NameOf(k) = NameOf(l)
    BY <1>1, <1>3 DEF Keep, OneLinkPerName
  <1> QED BY <1>2, <1>3

(* Looking at one more entry keeps the scan's part of the invariant.       *)
LEMMA LookKeepsTreeInv ==
    ASSUME TreeInv, NEW l \in Links, Look(l)
    PROVE  TreeInv'
  <1> USE DEF TreeInv, Rebuilding
  <1>1. /\ pc = "scan" /\ l \in todo /\ pc' = "scan" /\ todo' = todo \ {l}
        /\ \A k \in todo : FolderOf(l) <= FolderOf(k)
        /\ \A k \in seen : FolderOf(k) <= FolderOf(l)
        /\ UNCHANGED <<files, isos, staging, failed, changes, published>>
    BY DEF Look, ScanInv
  <1>2. faults' \in 0..MaxFaults
    <2>1. Fault \/ NoFault
      BY DEF Look
    <2> QED BY <2>1, FaultType DEF TypeOK
  <1>3. CASE seen' = Keep(l) /\ steady' = steady
    <2>1. /\ seen' \subseteq Links /\ seen \subseteq seen'
          /\ seen' \subseteq seen \cup {l}
          /\ OneLinkPerName(seen')
          /\ \E k \in seen' : NameOf(k) = NameOf(l)
                              /\ FolderOf(k) <= FolderOf(l)
      BY <1>1, <1>3, KeepFirst DEF TypeOK, StagingInv
    <2>2. TypeOK'
      BY <1>1, <1>2, <1>3, <2>1 DEF TypeOK
    <2>3. StagingInv'
      BY <1>1, <2>1 DEF StagingInv, OneLinkPerName
    <2>4. ScanInv'
      <3>1. \A k \in steady' :
                \/ pc' = "scan" /\ k \in todo'
                \/ \E j \in seen' : NameOf(j) = NameOf(k)
                                    /\ FolderOf(j) <= FolderOf(k)
        BY <1>1, <1>3, <2>1 DEF ScanInv
      <3>2. \A k \in seen', j \in todo' : FolderOf(k) <= FolderOf(j)
        BY <1>1, <2>1 DEF ScanInv
      <3> QED BY <3>1, <3>2 DEF ScanInv
    <2> QED BY <1>1, <2>2, <2>3, <2>4 DEF ServedIsOfOneRebuild
  <1>4. CASE seen' = seen /\ l \notin steady' /\ steady' \subseteq steady
    <2>1. TypeOK'
      BY <1>1, <1>2, <1>4 DEF TypeOK
    <2>2. StagingInv'
      BY <1>1, <1>4 DEF StagingInv, OneLinkPerName
    <2>3. ScanInv'
      BY <1>1, <1>4 DEF ScanInv
    <2> QED BY <1>1, <2>1, <2>2, <2>3 DEF ServedIsOfOneRebuild
  <1>5. CASE l \in files /\ seen' = Keep(l) /\ UNCHANGED steady
    BY <1>3, <1>5
  <1>6. CASE l \notin files /\ seen' = seen /\ UNCHANGED steady
    BY <1>4, <1>6 DEF TypeOK
  <1>7. CASE seen' = seen /\ steady' = steady \ {l}
    BY <1>4, <1>7
  <1> QED BY <1>5, <1>6, <1>7 DEF Look

(* The staging directory grows to what was discovered, or the run gives up. *)
LEMMA SymlinkKeepsTreeInv ==
    ASSUME TreeInv, NEW l \in Links, Symlink(l)
    PROVE  TreeInv'
  <1> USE DEF TreeInv, Rebuilding
  <1>1. /\ pc = "link" /\ l \in todo /\ todo' = todo \ {l}
        /\ UNCHANGED <<files, isos, pc, seen, changes, steady, published>>
    BY DEF Symlink
  <1>2. \/ staging' = staging \cup {l} /\ failed' = failed
        \/ staging' = staging /\ failed' = TRUE
    <2> DEFINE taken == \E k \in staging : NameOf(k) = NameOf(l)
    <2>1. CASE taken
      BY <2>1 DEF Symlink
    <2>2. CASE ~taken
      BY <2>2 DEF Symlink, TypeOK
    <2> QED BY <2>1, <2>2
  <1>3. TypeOK'
    <2>1. Fault \/ NoFault
      BY DEF Symlink
    <2>2. faults' \in 0..MaxFaults
      BY <2>1, FaultType DEF TypeOK
    <2> QED BY <1>1, <1>2, <2>2 DEF TypeOK
  <1>4. StagingInv'
    BY <1>1, <1>2 DEF StagingInv, OneLinkPerName
  <1>5. ScanInv'
    BY <1>1 DEF ScanInv
  <1> QED BY <1>1, <1>3, <1>4, <1>5 DEF ServedIsOfOneRebuild

(* The operator changes files, of which the history forgets the old ones.  *)
LEMMA OperatorKeepsTreeInv ==
    ASSUME TreeInv, Operator
    PROVE  TreeInv'
  <1> USE DEF TreeInv, Rebuilding
  <1>1. PICK gone, come \in SUBSET Links : Change(gone, come)
    <2>1. CASE \E l \in files : Change({l}, {})
      BY <2>1 DEF TypeOK
    <2>2. CASE \E l \in Links \ files : Change({}, {l})
      BY <2>2
    <2>3. CASE \E l \in files : \E s \in Folders \ {FolderOf(l)} :
                 Change({l}, {<<s, NameOf(l)>>})
      BY <2>3, LinkFields DEF TypeOK, Links
    <2> QED BY <2>1, <2>2, <2>3 DEF Operator
  <1>2. /\ steady' \subseteq steady /\ steady' \subseteq files'
        /\ files' \subseteq Links /\ changes' \in 0..MaxChanges
    BY <1>1, BoundsAssumption DEF Change, TypeOK
  <1>3. UNCHANGED <<isos, staging, pc, todo, seen, failed, faults, published>>
    BY <1>1 DEF Change, run
  <1>4. TypeOK'
    BY <1>2, <1>3 DEF TypeOK
  <1>5. StagingInv'
    BY <1>3 DEF StagingInv, OneLinkPerName
  <1>6. ScanInv'
    BY <1>2, <1>3 DEF ScanInv
  <1> QED BY <1>3, <1>4, <1>5, <1>6 DEF ServedIsOfOneRebuild

(* The rest of the run, one action after the other. *)
LEMMA RunKeepsTreeInv ==
    ASSUME TreeInv, Discover \/ Step \/ Crash
    PROVE  TreeInv'
  <1> USE DEF TreeInv, Rebuilding
  <1>1. CASE Discover
    BY <1>1 DEF Discover, TypeOK, StagingInv, ScanInv, OneLinkPerName,
       ServedIsOfOneRebuild, Labels, budget
  <1>2. CASE Discovered
    <2>1. CASE seen = {}
      BY <1>2, <2>1, EndKeepsTreeInv DEF Discovered, budget, NoFault
    <2>2. CASE seen # {}
      <3>1. TypeOK' /\ StagingInv' /\ ServedIsOfOneRebuild'
        BY <1>2, <2>2 DEF Discovered, End, Goto, TypeOK, StagingInv,
           OneLinkPerName, ServedIsOfOneRebuild, Labels, budget
      <3>2. ScanInv'
        BY <1>2, <2>2 DEF Discovered, End, Goto, ScanInv
      <3> QED BY <3>1, <3>2
    <2> QED BY <2>1, <2>2
  <1>3. CASE \E l \in Links : ClearLeftover(l)
    BY <1>3 DEF ClearLeftover, TypeOK, StagingInv, ScanInv, OneLinkPerName,
       ServedIsOfOneRebuild, run, budget
  <1>4. CASE CreateStaging
    BY <1>4 DEF CreateStaging, TypeOK, StagingInv, ScanInv, OneLinkPerName,
       ServedIsOfOneRebuild, Labels, budget
  <1>5. CASE Linked
    <2>1. CASE failed
      BY <1>5, <2>1, EndKeepsTreeInv DEF Linked, budget, NoFault
    <2>2. CASE ~failed
      BY <1>5, <2>2 DEF Linked, Goto, TypeOK, StagingInv, ScanInv,
         OneLinkPerName, ServedIsOfOneRebuild, Labels, budget
    <2> QED BY <2>1, <2>2
  <1>6. CASE \E l \in Links : RemoveOld(l)
    BY <1>6 DEF RemoveOld, TypeOK, StagingInv, ScanInv, OneLinkPerName,
       ServedIsOfOneRebuild, run, budget
  <1>7. CASE Swap
    BY <1>7 DEF Swap, End, TypeOK, StagingInv, ScanInv, OneLinkPerName,
       ServedIsOfOneRebuild, Labels, budget
  <1>8. CASE Fail \/ Crash
    BY <1>8, EndKeepsTreeInv DEF Fail, Crash
  <1> QED BY <1>1, <1>2, <1>3, <1>4, <1>5, <1>6, <1>7, <1>8,
             LookKeepsTreeInv, SymlinkKeepsTreeInv DEF Step

(* TreeInv is inductive. *)
LEMMA TreeStep == TreeInv /\ [Next]_vars => TreeInv'
  <1> SUFFICES ASSUME TreeInv, [Next]_vars PROVE TreeInv'
    OBVIOUS
  <1>1. CASE Next
    BY <1>1, RunKeepsTreeInv, OperatorKeepsTreeInv DEF Next
  <1>2. CASE UNCHANGED vars
    BY <1>2 DEF vars, TreeInv, Rebuilding, TypeOK, StagingInv, ScanInv, OneLinkPerName,
       ServedIsOfOneRebuild
  <1> QED BY <1>1, <1>2

LEMMA TreeInvariant == Spec => []TreeInv
  BY TreeInit, TreeStep, PTL DEF Spec

---------------------------------------------------------------------------

(* Every variable keeps its type. *)
THEOREM TypeCorrect == Spec => []TypeOK
  <1>1. TreeInv => TypeOK
    BY DEF TreeInv
  <1> QED BY <1>1, TreeInvariant, PTL

(* discover() returns, for each name that stayed in some folder during the *)
(* scan, a file of that folder or of one listed earlier.                   *)
THEOREM FirstMatchKept == Spec => []FirstMatchWins
  <1>1. TreeInv => FirstMatchWins
    BY DEF TreeInv, ScanInv, FirstMatchWins, TypeOK
  <1> QED BY <1>1, TreeInvariant, PTL

(* Clients see links of the last completed tree only, whatever crashed.    *)
THEOREM OneRebuildServed == Spec => []ServedIsOfOneRebuild
  <1>1. TreeInv => ServedIsOfOneRebuild
    BY DEF TreeInv
  <1> QED BY <1>1, TreeInvariant, PTL

(* A step of ServeTree is a step of RawTree, or changes nothing there.     *)
LEMMA TreeStepRefines ==
    ASSUME TreeInv, [Next]_vars
    PROVE  [Promise!Next]_(Promise!vars)
  <1> USE DEF TreeInv, Rebuilding, Promise!vars
  <1>1. CASE Discover
    BY <1>1 DEF Discover, StagingInv
  <1>2. CASE Discovered
    <2>1. CASE seen = {}
      BY <1>2, <2>1 DEF Discovered, End
    <2>2. CASE seen # {}
      <3>1. Promise!Ask
        BY <1>2, <2>2 DEF Discovered, End, Goto, Promise!Ask, TypeOK
      <3> QED BY <3>1 DEF Promise!Next
    <2> QED BY <2>1, <2>2
  <1>3. CASE \E l \in Links : Look(l) \/ ClearLeftover(l) \/ Symlink(l)
    BY <1>3 DEF Look, ClearLeftover, Symlink, run
  <1>4. CASE CreateStaging
    BY <1>4 DEF CreateStaging
  <1>5. CASE Linked
    <2>1. CASE failed
      <3>1. Promise!GiveUp
        BY <1>5, <2>1 DEF Linked, End, Promise!GiveUp
      <3> QED BY <3>1 DEF Promise!Next
    <2>2. CASE ~failed
      <3>1. Promise!Complete
        BY <1>5, <2>2 DEF Linked, Goto, StagingInv, Promise!Complete
      <3> QED BY <3>1 DEF Promise!Next
    <2> QED BY <2>1, <2>2
  <1>6. CASE \E l \in Links : RemoveOld(l)
    <2>1. Promise!Withdraw
      BY <1>6 DEF RemoveOld, run, Promise!Withdraw
    <2> QED BY <2>1 DEF Promise!Next
  <1>7. CASE Swap
    <2>1. Promise!Publish
      BY <1>7 DEF Swap, End, StagingInv, Promise!Publish
    <2> QED BY <2>1 DEF Promise!Next
  <1>8. CASE Fail \/ Crash
    <2>1. Promise!GiveUp
      BY <1>8 DEF Fail, Crash, End, Promise!GiveUp
    <2> QED BY <2>1 DEF Promise!Next
  <1>9. CASE Operator
    BY <1>9 DEF Operator, Change, run
  <1>10. CASE UNCHANGED vars
    BY <1>10 DEF vars
  <1> QED BY <1>1, <1>2, <1>3, <1>4, <1>5, <1>6, <1>7, <1>8, <1>9, <1>10
          DEF Next, Step

(* rebuild() keeps what its comment promises of the live tree: it becomes  *)
(* all that was asked for, and loses links only once that is built.        *)
THEOREM Refinement == Spec => ImplementsRawTree
  <1>1. Init => Promise!Init
    BY DEF Init, Promise!Init, Rebuilding
  <1>2. TreeInv /\ [Next]_vars => [Promise!Next]_(Promise!vars)
    BY TreeStepRefines
  <1> QED BY <1>1, <1>2, TreeInvariant, PTL
          DEF Spec, ImplementsRawTree, Promise!Spec

=============================================================================
