--------------------------- MODULE BootMenuProofs ---------------------------
(* Proofs about BootMenu, for every value of its constants: any ISOs,      *)
(* scripts, configurations, interfaces, reservations and clients.          *)
EXTENDS BootMenu, TLAPS, WellFoundedInduction, SequenceTheorems,
        FiniteSetTheorems

(* A nonempty set of naturals has a least element.                         *)
LEMMA LeastExists ==
    ASSUME NEW S, S \subseteq Nat, S # {}
    PROVE  \E n \in S : \A k \in S : n <= k
<1>1. PICK n \in S : \A k \in S : <<k, n>> \notin OpToRel(<, Nat)
  BY NatLessThanWellFounded, WFMin
<1>2. \A k \in S : ~(k < n)
  BY <1>1 DEF OpToRel
<1> QED
  BY <1>2

---------------------------------------------------------------------------
(* Types *)

LEMMA ScanTypes ==
    ASSUME TypeOK
    PROVE  /\ scan.infos \in Seq(Isos) /\ scan.failed \in Seq(Isos)
           /\ Len(scan.infos) \in Nat
           /\ DOMAIN scan.infos = 1..Len(scan.infos)
           /\ \A a \in DOMAIN scan.infos : scan.infos[a] \in Isos
           /\ \A a, b \in DOMAIN scan.infos :
                 scan.infos[a] = scan.infos[b] => a = b
<1>1. scan \in Scans
  BY DEF TypeOK
<1>2. scan.infos \in Seq(Isos) /\ scan.failed \in Seq(Isos)
  BY <1>1, ConfigAssumption
<1>3. \A a, b \in DOMAIN scan.infos : scan.infos[a] = scan.infos[b] => a = b
  BY <1>1, UniqueAssumption
<1> QED
  BY <1>2, <1>3

LEMMA ScriptTypes ==
    ASSUME NEW iso \in Isos
    PROVE  /\ Len(ScriptsOf[iso]) \in Nat
           /\ DOMAIN ScriptsOf[iso] = 1..Len(ScriptsOf[iso])
           /\ \A s \in 1..Len(ScriptsOf[iso]) : ScriptsOf[iso][s] \in Scripts
<1>1. ScriptsOf[iso] \in Seq(Scripts)
  BY ConfigAssumption
<1> QED
  BY <1>1

LEMMA EntryType ==
    ASSUME NEW iso \in Isos, NEW s \in Nat, NEW p \in Nat
    PROVE  Entry(iso, s, p) \in Entries
<1>1. GrubCpu(iso) \in {"x86_64", "arm64", "i386", None}
  BY DEF GrubCpu, ToGrubCpu
<1>2. Distro[iso] \in {"nixos", "ubuntu", "rhel"}
  BY ConfigAssumption
<1>3. SeedUrl(Distro[iso], s) \in {"dir", "file", None}
  BY <1>2 DEF SeedUrl, NixosSeedUrl, UbuntuSeedUrl, RhelSeedUrl
<1> QED
  BY <1>1, <1>3 DEF Entry, Entries

(* A seed is fetched the way its distribution lays it out.                 *)
LEMMA SeedsFit ==
    ASSUME NEW iso \in Isos, NEW s \in Nat
    PROVE  SeedUrl(Distro[iso], s) \in {None, SeedLayout(Distro[iso])}
<1>1. Distro[iso] \in {"nixos", "ubuntu", "rhel"}
  BY ConfigAssumption
<1> QED
  BY <1>1 DEF SeedUrl, NixosSeedUrl, UbuntuSeedUrl, RhelSeedUrl, SeedLayout

LEMMA WishType ==
    ASSUME TypeOK, NEW x \in Subjects
    PROVE  Wish(x) \in Wishes
<1>1. conf \in [Subjects -> Wishes]
  BY ConfigAssumption DEF TypeOK
<1>2. CASE x \in Interfaces
  BY <1>1, <1>2 DEF Wish
<1>3. CASE x \notin Interfaces
  <2>1. On[x] \in Subjects
    BY <1>3, ConfigAssumption DEF Subjects
  <2>2. conf[x] \in Wishes /\ conf[On[x]] \in Wishes
    BY <1>1, <2>1
  <2> QED
    BY <1>3, <2>2 DEF Wish, Wishes, Or
<1> QED
  BY <1>2, <1>3

(* A default is the number of an entry that answers, if there is one.      *)
LEMMA DefaultType ==
    ASSUME NEW es \in Seq(Entries), NEW w
    PROVE  /\ DefaultPosition(es, w) \in Nat \cup {None}
           /\ DefaultPosition(es, w) = None <=>
                ~ \E n \in DOMAIN es : Answers(es[n], w)
<1> DEFINE found == {n \in DOMAIN es : Answers(es[n], w)}
<1>1. CASE found = {}
  BY <1>1 DEF DefaultPosition
<1>2. CASE found # {}
  <2>1. found \subseteq Nat
    OBVIOUS
  <2>2. \E n \in found : \A k \in found : n <= k
    BY <1>2, <2>1, LeastExists
  <2> DEFINE least == CHOOSE n \in found : \A k \in found : n <= k
  <2>3. least \in found
    BY <2>2
  <2>4. es[least] \in Entries
    BY <2>3
  <2>5. es[least].position \in Nat
    BY <2>4 DEF Entries
  <2>6. DefaultPosition(es, w) = es[least].position
    BY <1>2 DEF DefaultPosition
  <2> QED
    BY <1>2, <2>5, <2>6, ConfigAssumption
<1> QED
  BY <1>1, <1>2

LEMMA SubjectType ==
    ASSUME NEW i \in Interfaces, NEW n \in 0..Len(Reservations[i])
    PROVE  /\ Subject(i, n) \in Subjects
           /\ n = 0 => Subject(i, n) = i
           /\ n # 0 => Subject(i, n) \in Clients /\ On[Subject(i, n)] = i
<1>1. Reservations[i] \in Seq({r \in Clients : On[r] = i})
  BY UniqueAssumption
<1>2. n # 0 => Reservations[i][n] \in {r \in Clients : On[r] = i}
  BY <1>1
<1> QED
  BY <1>2 DEF Subject, Subjects

(* No two files of the interfaces are the same.                            *)
LEMMA SubjectsDiffer ==
    ASSUME NEW i \in Interfaces, NEW n \in 0..Len(Reservations[i]),
           NEW j \in Interfaces, NEW m \in 0..Len(Reservations[j]),
           Subject(i, n) = Subject(j, m)
    PROVE  i = j /\ n = m
<1>1. CASE n = 0 \/ m = 0
  <2>1. ~(n = 0 /\ m # 0) /\ ~(m = 0 /\ n # 0)
    <3>1. \A k \in Interfaces : k \notin Clients
      BY ConfigAssumption
    <3> QED
      BY <3>1, SubjectType
  <2> QED
    BY <1>1, <2>1, SubjectType
<1>2. CASE n # 0 /\ m # 0
  <2>1. i = j
    BY <1>2, SubjectType
  <2>2. DOMAIN Reservations[i] = 1..Len(Reservations[i])
    BY UniqueAssumption
  <2>3. n \in DOMAIN Reservations[i] /\ m \in DOMAIN Reservations[i]
    BY <1>2, <2>1, <2>2
  <2>4. Reservations[i][n] = Reservations[i][m]
    BY <1>2, <2>1 DEF Subject
  <2> QED
    BY <2>1, <2>3, <2>4, UniqueAssumption
<1> QED
  BY <1>1, <1>2

LEMMA NoContentType == Torn \in MenuContent /\ Absent \in MenuContent
<1>1. Torn \in MenuContent
  BY DEF Torn, MenuContent, Wishes
<1> QED
  BY <1>1 DEF Absent, MenuContent

LEMMA RenderedType ==
    ASSUME TypeOK, NEW i \in Interfaces, NEW x \in Subjects
    PROVE  Rendered(i, x) \in MenuContent
<1>1. task[i].entries \in Seq(Entries)
  BY DEF TypeOK, TaskState
<1> QED
  BY <1>1, DefaultType, WishType, ScanTypes DEF Rendered, MenuContent

LEMMA NewTaskType == NewTask \in TaskState
  BY DEF NewTask, TaskState

(* What the steps of a task change.                                        *)
LEMMA TaskTypes ==
    ASSUME NEW t \in TaskState
    PROVE  /\ [t EXCEPT !.iso = @ + 1, !.script = 0] \in TaskState
           /\ [t EXCEPT !.pc = "open", !.file = @ + 1] \in TaskState
           /\ \A e \in Entries :
                [t EXCEPT !.entries = Append(@, e), !.position = @ + 1,
                          !.script = @ + 1] \in TaskState
<1>1. /\ t.position + 1 \in Nat /\ t.script + 1 \in Nat /\ t.file + 1 \in Nat
      /\ t.iso + 1 \in Nat \ {0}
  BY DEF TaskState
<1>2. \A e \in Entries : Append(t.entries, e) \in Seq(Entries)
  BY DEF TaskState
<1>3. \A es \in Seq(Entries) : \A p, s \in Nat :
        [t EXCEPT !.entries = es, !.position = p, !.script = s] \in TaskState
  BY DEF TaskState
<1>4. \A k \in Nat \ {0} : \A s \in Nat :
        [t EXCEPT !.iso = k, !.script = s] \in TaskState
  BY DEF TaskState
<1>5. \A f \in Nat : [t EXCEPT !.pc = "open", !.file = f] \in TaskState
  BY DEF TaskState
<1> QED
  BY <1>1, <1>2, <1>3, <1>4, <1>5

LEMMA InitType == Init => TypeOK
<1> SUFFICES ASSUME Init PROVE TypeOK
  OBVIOUS
<1>1. [NewTask EXCEPT !.pc = "idle"] \in TaskState
  <2>1. \A t \in TaskState : [t EXCEPT !.pc = "idle"] \in TaskState
    BY DEF TaskState
  <2> QED
    BY <2>1, NewTaskType
<1>2. Off \in BootState /\ Off.own <= Off.nest
  BY NoContentType, BoundsAssumption DEF Off, BootState
<1> QED
  BY <1>1, <1>2, NoContentType, BoundsAssumption DEF Init, TypeOK

(* What a client reads is a menu file. *)
LEMMA ContentType ==
    ASSUME TypeOK, NEW c \in Clients
    PROVE  /\ grub[c] \in BootState /\ grub[c].own <= grub[c].nest
           /\ File(c) \in Subjects /\ Content(c) \in MenuContent
           /\ grub[c].menu \in MenuContent
<1>1. grub[c] \in BootState /\ grub[c].own <= grub[c].nest
  BY DEF TypeOK
<1>2. File(c) \in Subjects
  BY ConfigAssumption DEF File, Subjects
<1>3. Content(c) \in MenuContent
  BY <1>2 DEF Content, TypeOK
<1> QED
  BY <1>1, <1>2, <1>3 DEF BootState

(* The states that a client may come to.                                   *)
BootTypes == {g \in BootState : g.own <= g.nest}

LEMMA OffType ==
    ASSUME NEW pc \in {"test", "default", "prompt", "lost"}, NEW own \in Nat,
           NEW nest \in 0..MaxNest, own <= nest
    PROVE  /\ [Off EXCEPT !.pc = pc, !.own = own, !.nest = nest] \in BootTypes
           /\ [Off EXCEPT !.pc = pc, !.nest = nest] \in BootTypes
<1>1. Off \in BootState /\ Off.own = 0
  BY NoContentType, BoundsAssumption DEF Off, BootState
<1> HIDE DEF Off
<1>2. /\ [Off EXCEPT !.pc = pc, !.own = own, !.nest = nest] \in BootState
      /\ [Off EXCEPT !.pc = pc, !.nest = nest] \in BootState
  BY <1>1 DEF BootState
<1>3. /\ [Off EXCEPT !.pc = pc, !.own = own, !.nest = nest].own <=
           [Off EXCEPT !.pc = pc, !.own = own, !.nest = nest].nest
      /\ [Off EXCEPT !.pc = pc, !.nest = nest].own <=
           [Off EXCEPT !.pc = pc, !.nest = nest].nest
  BY <1>1, BoundsAssumption DEF BootState
<1> QED
  BY <1>2, <1>3 DEF BootTypes

LEMMA EnterType ==
    ASSUME TypeOK, NEW c \in Clients, NEW own \in Nat,
           own <= grub[c].nest + 1, Enter(c, own)
    PROVE  \E g \in BootTypes : Set(c, g)
<1> USE BoundsAssumption
<1>1. grub[c].nest \in 0..MaxNest
  BY ContentType DEF BootState
<1>2. CASE grub[c].nest < MaxNest
  <2>1. grub[c].nest + 1 \in 0..MaxNest
    BY <1>1, <1>2
  <2> QED
    BY <1>2, <2>1, OffType DEF Enter
<1>3. CASE ~(grub[c].nest < MaxNest)
  <2>1. MaxNest \in 0..MaxNest /\ 0 \in Nat /\ 0 <= MaxNest
    OBVIOUS
  <2> QED
    BY <1>3, <2>1, OffType DEF Enter
<1> QED
  BY <1>2, <1>3

LEMMA BackType ==
    ASSUME TypeOK, NEW c \in Clients, Back(c)
    PROVE  \E g \in BootTypes : Set(c, g)
<1> USE BoundsAssumption
<1>1. /\ grub[c].nest \in 0..MaxNest /\ grub[c].own \in Nat
      /\ grub[c].own <= grub[c].nest
  BY ContentType DEF BootState
<1>2. CASE grub[c].own = 0
  BY <1>1, <1>2, OffType DEF Back
<1>3. CASE grub[c].own # 0
  <2>1. /\ grub[c].own - 1 \in Nat /\ grub[c].nest - 1 \in 0..MaxNest
        /\ grub[c].own - 1 <= grub[c].nest - 1
    BY <1>1, <1>3
  <2> QED
    BY <1>3, <2>1, OffType DEF Back
<1> QED
  BY <1>2, <1>3

LEMMA ReadType ==
    ASSUME TypeOK, NEW c \in Clients, Read(c)
    PROVE  \E g \in BootTypes : Set(c, g)
<1> DEFINE s == grub[c]
<1>1. /\ s \in BootState /\ s.own <= s.nest /\ s.own \in Nat /\ s.nest \in Nat
      /\ Content(c) \in MenuContent /\ s.menu \in MenuContent
  BY ContentType, BoundsAssumption DEF BootState
<1>2. ASSUME NEW pc \in {"default", "menu"}, Set(c, [s EXCEPT !.pc = pc])
      PROVE  \E g \in BootTypes : Set(c, g)
  <2> DEFINE g == [s EXCEPT !.pc = pc]
  <2>1. g \in BootTypes
    BY <1>1 DEF BootTypes, BootState
  <2> HIDE DEF g
  <2> QED
    BY <1>2, <2>1 DEF g
<1>3. CASE ReadTest(c)
  <2>1. s.own + 1 \in Nat /\ s.own + 1 <= s.nest + 1
    BY <1>1
  <2>2. Back(c) \/ Enter(c, s.own + 1) \/ Set(c, [s EXCEPT !.pc = "default"])
    BY <1>3 DEF ReadTest
  <2> QED
    BY <1>2, <2>1, <2>2, BackType, EnterType
<1>4. CASE ReadDefault(c)
  <2> DEFINE m == [Torn EXCEPT !.default = Content(c).default,
                               !.wish = Content(c).wish]
             g == [s EXCEPT !.pc = "entries", !.at = 1, !.menu = m]
  <2>1. m \in MenuContent
    BY <1>1, NoContentType DEF MenuContent
  <2>2. Back(c) \/ Set(c, g)
    BY <1>4 DEF ReadDefault
  <2> HIDE DEF m
  <2>3. g \in BootTypes
    BY <1>1, <2>1 DEF BootTypes, BootState
  <2> HIDE DEF g
  <2> QED
    BY <2>2, <2>3, BackType
<1>5. ASSUME NEW k \in DOMAIN Content(c).entries, ReadEntry(c, k)
      PROVE  \E g \in BootTypes : Set(c, g)
  <2> DEFINE e == Content(c).entries[k]
             m == [s.menu EXCEPT !.entries = Append(@, e)]
             b == s.mixed \/ s.at = 0
             g == [s EXCEPT !.at = k + 1, !.mixed = b, !.menu = m]
  <2>1. e \in Entries /\ k + 1 \in Nat
    BY <1>1 DEF MenuContent
  <2>2. m \in MenuContent
    <3>1. Append(s.menu.entries, e) \in Seq(Entries)
      BY <1>1, <2>1 DEF MenuContent
    <3>2. \A es \in Seq(Entries) :
            [s.menu EXCEPT !.entries = es] \in MenuContent
      BY <1>1 DEF MenuContent
    <3> QED
      BY <3>1, <3>2
  <2>3. Set(c, g)
    BY <1>5 DEF ReadEntry
  <2>4. b \in BOOLEAN
    BY <1>1 DEF BootState
  <2> HIDE DEF m, b
  <2>5. g \in BootTypes
    BY <1>1, <2>1, <2>2, <2>4 DEF BootTypes, BootState
  <2> HIDE DEF g
  <2> QED
    BY <2>3, <2>5
<1>6. CASE ReadEnd(c)
  <2> DEFINE m == [s.menu EXCEPT !.state = "whole",
                                 !.placeholders = Content(c).placeholders]
             b == s.mixed \/ s.at = 0
             g == [s EXCEPT !.pc = "menu", !.mixed = b, !.menu = m]
  <2>1. m \in MenuContent
    BY <1>1 DEF MenuContent
  <2>2. Set(c, g)
    BY <1>6 DEF ReadEnd
  <2>3. b \in BOOLEAN
    BY <1>1 DEF BootState
  <2> HIDE DEF m, b
  <2>4. g \in BootTypes
    BY <1>1, <2>1, <2>3 DEF BootTypes, BootState
  <2> HIDE DEF g
  <2> QED
    BY <2>2, <2>4
<1>7. CASE ReadCut(c)
  BY <1>2, <1>7, BackType DEF ReadCut
<1> QED
  BY <1>3, <1>4, <1>5, <1>6, <1>7 DEF Read

LEMMA BootType ==
    ASSUME TypeOK, NEW c \in Clients, PowerOn(c) \/ Boot(c)
    PROVE  \E g \in BootTypes : Set(c, g)
<1>1. /\ grub[c] \in BootState /\ grub[c].own <= grub[c].nest
      /\ grub[c].nest \in Nat
  BY ContentType, BoundsAssumption DEF BootState
<1>2. CASE PowerOn(c)
  <2>1. 1 \in 0..MaxNest /\ 0 \in Nat /\ 0 <= 1
    BY BoundsAssumption
  <2> QED
    BY <1>2, <2>1, OffType DEF PowerOn
<1>3. CASE Timeout(c)
  <2> DEFINE g == [grub[c] EXCEPT !.pc = "chosen"]
  <2>1. Enter(c, 0) \/ Set(c, g)
    BY <1>3 DEF Timeout
  <2>2. g \in BootTypes
    BY <1>1 DEF BootTypes, BootState
  <2>3. 0 \in Nat /\ 0 <= grub[c].nest + 1
    BY <1>1
  <2> HIDE DEF g
  <2> QED
    BY <2>1, <2>2, <2>3, EnterType
<1> QED
  BY <1>2, <1>3, ReadType DEF Boot

LEMMA StepType ==
    ASSUME TypeOK, [Next]_vars
    PROVE  TypeOK'
<1> USE BoundsAssumption
<1>1. CASE \E c \in Configs, sc \in Scans : Start(c, sc)
  <2>1. PICK c \in Configs, sc \in Scans : Start(c, sc)
    BY <1>1
  <2>2. Interfaces \cup {r \in Reserved : HasOwn(r)}' \subseteq Subjects
    BY DEF Reserved, Subjects
  <2>3. warned' \subseteq Subjects
    BY <2>1, <2>2 DEF Start, Warnings, Reserved, Subjects
  <2> QED
    BY <2>1, <2>3, NewTaskType DEF Start, TypeOK
<1>2. ASSUME NEW i \in Interfaces, Generate(i) PROVE TypeOK'
  <2>1. task[i] \in TaskState
    BY DEF TypeOK
  <2>2. ASSUME NEW t \in TaskState, Become(i, t),
               files' \in [Subjects -> MenuContent],
               grub' \in [Clients -> BootTypes]
        PROVE  TypeOK'
    <3>1. \A c \in Clients : grub'[c] \in BootTypes
      BY <2>2
    <3>2. /\ grub' \in [Clients -> BootState]
          /\ \A c \in Clients : grub'[c].own <= grub'[c].nest
      BY <2>2, <3>1 DEF BootTypes
    <3> QED
      BY <2>2, <3>2 DEF Become, run, TypeOK
  <2>10. /\ grub \in [Clients -> BootTypes]
         /\ files \in [Subjects -> MenuContent]
    BY DEF TypeOK, BootTypes
  <2>3. CASE AddEntry(i)
    <3> DEFINE e == Entry(Iso(i), task[i].script, task[i].position)
               t == [task[i] EXCEPT !.entries = Append(@, e),
                        !.position = @ + 1, !.script = @ + 1]
    <3>1. Iso(i) \in Isos
      BY <2>3, ScanTypes DEF AddEntry, Listing, Unlisted, Iso
    <3>2. e \in Entries
      BY <2>1, <3>1, EntryType DEF TaskState
    <3>3. t \in TaskState
      BY <2>1, <3>2, TaskTypes
    <3>4. Become(i, t) /\ UNCHANGED <<files, grub>>
      BY <2>3 DEF AddEntry, Add
    <3> QED
      BY <2>2, <2>10, <3>3, <3>4
  <2>4. CASE NextIso(i)
    <3>1. [task[i] EXCEPT !.iso = @ + 1, !.script = 0] \in TaskState
      BY <2>1, TaskTypes
    <3> QED
      BY <2>2, <2>4, <2>10, <3>1 DEF NextIso
  <2>5. CASE MakeDir(i)
    <3>1. [task[i] EXCEPT !.pc = "open"] \in TaskState
      BY <2>1 DEF TaskState
    <3> QED
      BY <2>2, <2>5, <2>10, <3>1 DEF MakeDir
  <2>6. CASE SkipReservation(i)
    <3>1. \A f \in Nat : [task[i] EXCEPT !.file = f] \in TaskState
      BY <2>1 DEF TaskState
    <3>3. task[i].file + 1 \in Nat
      BY <2>1 DEF TaskState
    <3> QED
      BY <2>2, <2>6, <2>10, <3>1, <3>3 DEF SkipReservation
  <2>7. CASE OpenFile(i)
    <3>1. [task[i] EXCEPT !.pc = "write"] \in TaskState
      BY <2>1 DEF TaskState
    <3>2. files' \in [Subjects -> MenuContent]
      BY <2>7, NoContentType DEF OpenFile, TypeOK
    <3>3. ASSUME NEW c \in Clients
          PROVE  [grub[c] EXCEPT !.at = 0] \in BootTypes
      <4>1. grub[c] \in BootTypes
        BY <2>10
      <4> QED
        BY <4>1 DEF BootTypes, BootState
    <3>4. grub' \in [Clients -> BootTypes]
      BY <2>7, <2>10, <3>3 DEF OpenFile
    <3> QED
      BY <2>2, <2>7, <3>1, <3>2, <3>4 DEF OpenFile
  <2>8. CASE WriteFile(i)
    <3>1. [task[i] EXCEPT !.pc = "open", !.file = @ + 1] \in TaskState
      BY <2>1, TaskTypes
    <3>2. Target(i) \in Subjects => Rendered(i, Target(i)) \in MenuContent
      BY RenderedType
    <3>3. files' \in [Subjects -> MenuContent]
      BY <2>8, <3>2 DEF WriteFile, TypeOK
    <3> QED
      BY <2>2, <2>8, <2>10, <3>1, <3>3 DEF WriteFile
  <2>9. CASE Finish(i)
    <3>1. [task[i] EXCEPT !.pc = "done"] \in TaskState
      BY <2>1 DEF TaskState
    <3> QED
      BY <2>2, <2>9, <2>10, <3>1 DEF Finish
  <2> QED
    BY <1>2, <2>3, <2>4, <2>5, <2>6, <2>7, <2>8, <2>9 DEF Generate
<1>3. ASSUME NEW S \in SUBSET Interfaces, Fail(S) PROVE TypeOK'
  <2>1. \A i \in Interfaces : [task[i] EXCEPT !.pc = "failed"] \in TaskState
    BY DEF TypeOK, TaskState
  <2>2. task' \in [Interfaces -> TaskState]
    BY <1>3, <2>1 DEF Fail, TypeOK
  <2> QED
    BY <1>3, <2>2 DEF Fail, run, TypeOK
<1>4. ASSUME NEW c \in Clients, PowerOn(c) \/ Boot(c) PROVE TypeOK'
  <2>1. PICK g \in BootTypes : Set(c, g)
    BY <1>4, BootType
  <2>2. g \in BootState /\ g.own <= g.nest
    BY DEF BootTypes
  <2>3. /\ grub' \in [Clients -> BootState]
        /\ \A d \in Clients : grub'[d].own <= grub'[d].nest
    BY <2>1, <2>2 DEF Set, TypeOK
  <2>4. ClientStep /\ boots' \in 0..MaxBoots
    BY <1>4 DEF PowerOn, Boot, Read, Timeout, TypeOK
  <2> QED
    BY <2>3, <2>4 DEF ClientStep, run, TypeOK
<1>5. CASE UNCHANGED vars
  BY <1>5 DEF vars, TypeOK
<1>6. ASSUME NEW i \in Interfaces, FailWrite(i) PROVE TypeOK'
  BY <1>3, <1>6 DEF FailWrite
<1>7. CASE Kill
  BY <1>3, <1>7 DEF Kill
<1> QED
  BY <1>1, <1>2, <1>4, <1>5, <1>6, <1>7 DEF Next

(* Every variable of BootMenu keeps its type, whatever the configuration,  *)
(* the ISOs found and the clients do (lib.rs:324-504, grub/menu.rs).       *)
THEOREM TypeCorrect == Spec => []TypeOK
<1>1. TypeOK /\ [Next]_vars => TypeOK'
  BY StepType
<1> QED
  BY InitType, <1>1, PTL DEF Spec

---------------------------------------------------------------------------
(* The list of entries *)

LEMMA ListFrame ==
    ASSUME NEW i \in Interfaces, NEW u, ListedSoFar(u),
           task'[i] = u, scan' = scan
    PROVE  ListedSoFar(task[i])'
  BY DEF ListedSoFar, Passed, Later

LEMMA ScriptNumbers ==
    ASSUME NEW t \in TaskState
    PROVE  \A n \in DOMAIN t.entries : t.entries[n].script \in Nat
<1>1. t.entries \in Seq(Entries)
  BY DEF TaskState
<1>2. \A n \in DOMAIN t.entries : t.entries[n] \in Entries
  BY <1>1
<1> QED
  BY <1>2 DEF Entries

(* Only what the list is about matters to it.                              *)
LEMMA SameList ==
    ASSUME NEW t, NEW u, ListedSoFar(t), u.entries = t.entries,
           u.iso = t.iso, u.script = t.script, u.position = t.position
    PROVE  ListedSoFar(u)
<1>1. \A n, s : Passed(u, n, s) <=> Passed(t, n, s)
  BY DEF Passed
<1> QED
  BY <1>1 DEF ListedSoFar

LEMMA NewList ==
    ASSUME TypeOK, NEW u, u.entries = <<>>, u.iso = 1, u.script = 0,
           u.position = 0
    PROVE  ListedSoFar(u)
<1>1. \A a \in DOMAIN scan.infos : \A s \in Nat : ~Passed(u, a, s)
  BY ScanTypes DEF Passed
<1>2. \A a \in DOMAIN scan.infos : Len(ScriptsOf[scan.infos[a]]) \in Nat
  BY ScanTypes, ScriptTypes
<1> QED
  BY <1>1, <1>2, ScanTypes DEF ListedSoFar

(* An entry for the next script of the ISO in hand: it comes after all     *)
(* that are there.                                                         *)
LEMMA LongerList ==
    ASSUME TypeOK, NEW t \in TaskState, ListedSoFar(t),
           t.iso \in DOMAIN scan.infos,
           NEW iso, iso = scan.infos[t.iso], iso \notin OffMount,
           t.script <= Len(ScriptsOf[iso]),
           NEW u, u.iso = t.iso, u.script = t.script + 1,
           u.position = t.position + 1,
           u.entries = Append(t.entries, Entry(iso, t.script, t.position))
    PROVE  ListedSoFar(u)
<1> DEFINE es == t.entries
           fs == u.entries
           e == Entry(iso, t.script, t.position)
<1>1. /\ iso \in Isos /\ t.script \in Nat /\ t.position \in Nat
      /\ es \in Seq(Entries) /\ t.iso \in Nat \ {0} /\ Len(ScriptsOf[iso]) \in Nat
  BY ScanTypes, ScriptTypes DEF TaskState
<1>2. e.iso = iso /\ e.script = t.script
  BY DEF Entry
<1>3. e \in Entries
  BY <1>1, EntryType
<1>4. /\ fs \in Seq(Entries) /\ Len(fs) = Len(es) + 1
      /\ \A n \in 1..Len(es) : fs[n] = es[n]
      /\ fs[Len(es) + 1] = e
      /\ DOMAIN fs = 1..(Len(es) + 1) /\ DOMAIN es = 1..Len(es)
      /\ Len(es) \in Nat
  BY <1>1, <1>3
<1>5. u.position = Len(fs) /\ t.position = Len(es)
  BY <1>4 DEF ListedSoFar
<1>6. u.iso \in 1..(Len(scan.infos) + 1)
  BY DEF ListedSoFar
<1>7. u.script <= Len(ScriptsOf[iso]) + 1
  BY <1>1
<1>8. \A a \in DOMAIN scan.infos : \A s \in Nat :
        Passed(u, a, s) <=> Passed(t, a, s) \/ (a = t.iso /\ s = t.script)
  BY <1>1, ScanTypes DEF Passed
<1>12. \A n \in DOMAIN es : es[n].script \in Nat
  BY ScriptNumbers
<1> HIDE DEF es, fs, e
<1>9. ASSUME NEW n \in DOMAIN fs
      PROVE  /\ fs[n] = Entry(fs[n].iso, fs[n].script, n - 1)
             /\ fs[n].script \in 0..Len(ScriptsOf[fs[n].iso])
             /\ \E a \in DOMAIN scan.infos :
                   scan.infos[a] = fs[n].iso /\ Passed(u, a, fs[n].script)
             /\ \A k \in 1..(n - 1) : Later(fs[n], fs[k])
  <2>1. CASE n \in 1..Len(es)
    <3>1. /\ es[n] = Entry(es[n].iso, es[n].script, n - 1)
          /\ es[n].script \in 0..Len(ScriptsOf[es[n].iso])
          /\ \E a \in DOMAIN scan.infos :
                scan.infos[a] = es[n].iso /\ Passed(t, a, es[n].script)
          /\ \A k \in 1..(n - 1) : Later(es[n], es[k])
      BY <1>4, <2>1 DEF ListedSoFar, es
    <3>2. es[n].script \in Nat
      BY <1>4, <1>12, <2>1
    <3>3. \E a \in DOMAIN scan.infos :
            scan.infos[a] = es[n].iso /\ Passed(u, a, es[n].script)
      BY <1>8, <3>1, <3>2
    <3>4. fs[n] = es[n] /\ \A k \in 1..(n - 1) : fs[k] = es[k]
      BY <1>4, <2>1
    <3> QED
      BY <3>1, <3>3, <3>4
  <2>2. CASE n = Len(es) + 1
    <3>1. fs[n] = e /\ n - 1 = t.position
      BY <1>4, <1>5, <2>2
    <3>2. Passed(u, t.iso, t.script)
      BY <1>1, <1>8
    <3>3. ASSUME NEW k \in 1..(n - 1)
          PROVE  Later(e, es[k])
      <4>1. PICK a \in DOMAIN scan.infos :
              scan.infos[a] = es[k].iso /\ Passed(t, a, es[k].script)
        <5>1. k \in DOMAIN es
          BY <1>4, <2>2
        <5> QED
          BY <5>1 DEF ListedSoFar, es
      <4> QED
        BY <1>2, <4>1 DEF Later, Passed
    <3>4. \A k \in 1..(n - 1) : fs[k] = es[k]
      BY <1>4, <2>2
    <3>5. e.script \in 0..Len(ScriptsOf[e.iso])
      BY <1>1, <1>2
    <3>6. e = Entry(e.iso, e.script, n - 1)
      BY <1>2, <3>1 DEF e
    <3>7. e.iso = scan.infos[t.iso] /\ Passed(u, t.iso, e.script)
      BY <1>2, <3>2
    <3> QED
      BY <3>1, <3>3, <3>4, <3>5, <3>6, <3>7
  <2> QED
    BY <1>4, <2>1, <2>2
<1>10. ASSUME NEW a \in DOMAIN scan.infos, scan.infos[a] \notin OffMount,
              NEW s \in 0..Len(ScriptsOf[scan.infos[a]]), Passed(u, a, s)
       PROVE  \E n \in DOMAIN fs : fs[n].iso = scan.infos[a] /\ fs[n].script = s
  <2>1. s \in Nat
    BY ScanTypes, ScriptTypes
  <2>2. CASE Passed(t, a, s)
    <3>1. PICK n \in DOMAIN es : es[n].iso = scan.infos[a] /\ es[n].script = s
      BY <1>10, <2>2 DEF ListedSoFar, es
    <3> QED
      BY <1>4, <3>1
  <2>3. CASE a = t.iso /\ s = t.script
    <3>1. e.iso = scan.infos[a] /\ e.script = s
      BY <1>2, <2>3
    <3>2. Len(es) + 1 \in DOMAIN fs /\ fs[Len(es) + 1] = e
      BY <1>4
    <3> QED
      BY <3>1, <3>2
  <2> QED
    BY <1>8, <1>10, <2>1, <2>2, <2>3
<1>11. ~(iso \in OffMount) /\ scan.infos[u.iso] = iso
  OBVIOUS
<1>13. ASSUME NEW n \in DOMAIN fs
       PROVE  fs[n].iso \notin OffMount
  <2>1. n \in DOMAIN es => fs[n].iso \notin OffMount
    BY <1>4 DEF ListedSoFar, es
  <2> QED
    BY <1>2, <1>4, <1>11, <2>1
<1> QED
  BY <1>5, <1>6, <1>7, <1>9, <1>10, <1>11, <1>13 DEF ListedSoFar, fs

(* Once the scripts of the ISO in hand are behind the task, or its base    *)
(* entry cannot be made, so is the ISO.                                    *)
LEMMA IsoDone ==
    ASSUME TypeOK, NEW t \in TaskState, ListedSoFar(t),
           t.iso \in DOMAIN scan.infos,
           \/ scan.infos[t.iso] \in OffMount
           \/ t.script > Len(ScriptsOf[scan.infos[t.iso]]),
           NEW u, u.iso = t.iso + 1, u.script = 0,
           u.position = t.position, u.entries = t.entries
    PROVE  ListedSoFar(u)
<1>1. /\ t.script \in Nat /\ t.iso \in Nat \ {0} /\ t.entries \in Seq(Entries)
      /\ \A a \in DOMAIN scan.infos :
            scan.infos[a] \in Isos /\ Len(ScriptsOf[scan.infos[a]]) \in Nat
      /\ DOMAIN scan.infos = 1..Len(scan.infos) /\ Len(scan.infos) \in Nat
  BY ScanTypes, ScriptTypes DEF TaskState
<1>2. \A a \in DOMAIN scan.infos : \A s \in Nat :
        /\ Passed(t, a, s) => Passed(u, a, s)
        /\ Passed(u, a, s) => Passed(t, a, s) \/ a = t.iso
  BY <1>1 DEF Passed
<1>3. ASSUME scan.infos[t.iso] \notin OffMount,
             NEW s \in 0..Len(ScriptsOf[scan.infos[t.iso]])
      PROVE  Passed(t, t.iso, s)
  BY <1>1, <1>3 DEF Passed
<1>4. \A n \in DOMAIN t.entries : t.entries[n].script \in Nat
  BY ScriptNumbers
<1>5. u.position = Len(u.entries)
  BY DEF ListedSoFar
<1>6. /\ u.iso \in 1..(Len(scan.infos) + 1)
      /\ u.iso \in DOMAIN scan.infos =>
            u.script <= Len(ScriptsOf[scan.infos[u.iso]]) + 1
  BY <1>1
<1>7. ASSUME NEW n \in DOMAIN u.entries
      PROVE  /\ u.entries[n] = Entry(u.entries[n].iso, u.entries[n].script, n - 1)
             /\ u.entries[n].script \in 0..Len(ScriptsOf[u.entries[n].iso])
             /\ \E a \in DOMAIN scan.infos :
                   /\ scan.infos[a] = u.entries[n].iso
                   /\ Passed(u, a, u.entries[n].script)
             /\ \A k \in 1..(n - 1) : Later(u.entries[n], u.entries[k])
  BY <1>2, <1>4 DEF ListedSoFar
<1>8. ASSUME NEW a \in DOMAIN scan.infos, scan.infos[a] \notin OffMount,
             NEW s \in 0..Len(ScriptsOf[scan.infos[a]]), Passed(u, a, s)
      PROVE  \E n \in DOMAIN u.entries :
                u.entries[n].iso = scan.infos[a] /\ u.entries[n].script = s
  <2>1. s \in Nat
    BY <1>1
  <2>2. Passed(t, a, s)
    BY <1>2, <1>3, <1>8, <2>1
  <2> QED
    BY <1>8, <2>2 DEF ListedSoFar
<1> QED
  BY <1>5, <1>6, <1>7, <1>8 DEF ListedSoFar

LEMMA InitLists == Init => ListInv
<1> SUFFICES ASSUME Init PROVE ListInv
  OBVIOUS
<1>1. TypeOK
  BY InitType
<1>2. \A i \in Interfaces :
        /\ task[i].pc = "idle" /\ task[i].entries = <<>> /\ task[i].iso = 1
        /\ task[i].script = 0 /\ task[i].position = 0
  BY DEF Init, NewTask
<1>3. \A i \in Interfaces : ListedSoFar(task[i])
  BY <1>1, <1>2, NewList
<1> QED
  BY <1>2, <1>3 DEF ListInv, HasList

LEMMA StepLists ==
    ASSUME TypeOK, TypeOK', ListInv, [Next]_vars
    PROVE  ListInv'
<1>1. CASE \E c \in Configs, sc \in Scans : Start(c, sc)
  <2>1. PICK c \in Configs, sc \in Scans : Start(c, sc)
    BY <1>1
  <2>2. \A i \in Interfaces : task'[i] = NewTask
    BY <2>1 DEF Start
  <2>3. warned' = Warnings(scan.infos)'
    BY <2>1 DEF Start, Warnings, NoEffect, HasOwn, Wish, Reserved
  <2>4. /\ scan' = sc /\ Len(sc.infos) \in Nat
        /\ DOMAIN sc.infos = 1..Len(sc.infos)
        /\ \A a \in DOMAIN sc.infos : Len(ScriptsOf[sc.infos[a]]) \in Nat
    <3>1. sc.infos \in Seq(Isos)
      BY ConfigAssumption
    <3> QED
      BY <2>1, <3>1, ScriptTypes DEF Start
  <2>5. \A i \in Interfaces : ListedSoFar(task[i])'
    BY <2>2, <2>4 DEF ListedSoFar, Passed, NewTask
  <2> QED
    BY <2>2, <2>3, <2>5 DEF ListInv, HasList, NewTask
<1>2. ASSUME NEW i \in Interfaces, NEW u, Become(i, u), ListedSoFar(u),
             u.pc \in {"open", "write", "done"} => u.iso = Len(scan.infos) + 1,
             task[i].pc # "idle"
      PROVE  ListInv'
  <2>1. task'[i] = u /\ \A j \in Interfaces \ {i} : task'[j] = task[j]
    BY <1>2 DEF Become, TypeOK
  <2>2. \A j \in Interfaces : ListedSoFar(task[j])'
    <3>1. scan' = scan
      BY <1>2 DEF Become, run
    <3> QED
      BY <1>2, <2>1, <3>1, ListFrame DEF ListInv
  <2>3. warned' = warned /\ scan' = scan /\ conf' = conf
    BY <1>2 DEF Become, run
  <2>4. Warnings(scan.infos)' = Warnings(scan.infos)
    BY <2>3 DEF Warnings, NoEffect, HasOwn, Wish, Reserved
  <2> QED
    BY <1>2, <2>1, <2>2, <2>3, <2>4 DEF ListInv, HasList
<1>3. ASSUME NEW i \in Interfaces, Generate(i) PROVE ListInv'
  <2>1. task[i] \in TaskState /\ ListedSoFar(task[i])
    BY DEF TypeOK, ListInv
  <2>2. ASSUME NEW u, Become(i, u), task[i].pc # "idle",
               u.pc \in {"open", "write", "done"} =>
                    HasList(i) \/ task[i].iso = Len(scan.infos) + 1,
               u.entries = task[i].entries, u.iso = task[i].iso,
               u.script = task[i].script, u.position = task[i].position
        PROVE  ListInv'
    <3>1. ListedSoFar(u)
      BY <2>1, <2>2, SameList
    <3> QED
      BY <1>2, <2>2, <3>1 DEF ListInv
  <2>3. CASE AddEntry(i)
    <3> DEFINE t == task[i]
               u == [t EXCEPT
                 !.entries = Append(@, Entry(Iso(i), t.script, t.position)),
                 !.position = @ + 1, !.script = @ + 1]
    <3>1. /\ u.iso = t.iso /\ u.script = t.script + 1
          /\ u.position = t.position + 1 /\ u.pc = t.pc
          /\ u.entries = Append(t.entries, Entry(Iso(i), t.script, t.position))
      BY <2>1 DEF TaskState
    <3>2. Become(i, u) /\ t.pc = "entries" /\ t.iso \in DOMAIN scan.infos
      BY <2>3 DEF AddEntry, Add, Listing, Unlisted
    <3>3. Iso(i) = scan.infos[t.iso]
      BY DEF Iso
    <3>4. Iso(i) \notin OffMount /\ t.script <= Len(ScriptsOf[Iso(i)])
      BY <2>3 DEF AddEntry
    <3> HIDE DEF u
    <3>5. ListedSoFar(u)
      BY <2>1, <3>1, <3>2, <3>3, <3>4, LongerList
    <3> QED
      BY <1>2, <3>1, <3>2, <3>5
  <2>4. CASE NextIso(i)
    <3> DEFINE t == task[i]
               u == [t EXCEPT !.iso = @ + 1, !.script = 0]
    <3>1. /\ u.iso = t.iso + 1 /\ u.script = 0 /\ u.pc = t.pc
          /\ u.position = t.position /\ u.entries = t.entries
      BY <2>1 DEF TaskState
    <3>2. /\ Become(i, u) /\ t.pc = "entries" /\ t.iso \in DOMAIN scan.infos
          /\ \/ scan.infos[t.iso] \in OffMount
             \/ t.script > Len(ScriptsOf[scan.infos[t.iso]])
      BY <2>4 DEF NextIso, Listing, Unlisted, Iso
    <3> HIDE DEF u
    <3>3. ListedSoFar(u)
      BY <2>1, <3>1, <3>2, IsoDone
    <3> QED
      BY <1>2, <3>1, <3>2, <3>3
  <2>5. CASE MakeDir(i)
    <3>1. task[i].iso = Len(scan.infos) + 1
      <4>1. task[i].iso \in 1..(Len(scan.infos) + 1)
        BY <2>1 DEF ListedSoFar
      <4> QED
        BY <2>5, <4>1, ScanTypes DEF MakeDir
    <3> DEFINE u == [task[i] EXCEPT !.pc = "open"]
    <3>2. /\ u.entries = task[i].entries /\ u.iso = task[i].iso
          /\ u.script = task[i].script /\ u.position = task[i].position
      BY <2>1 DEF TaskState
    <3>3. Become(i, u) /\ task[i].pc # "idle"
      BY <2>5 DEF MakeDir
    <3> HIDE DEF u
    <3> QED
      BY <2>2, <3>1, <3>2, <3>3
  <2>6. CASE SkipReservation(i)
    <3> DEFINE u == [task[i] EXCEPT !.file = @ + 1]
    <3>1. /\ u.entries = task[i].entries /\ u.iso = task[i].iso
          /\ u.script = task[i].script /\ u.position = task[i].position
      BY <2>1 DEF TaskState
    <3>2. Become(i, u) /\ task[i].pc # "idle" /\ HasList(i)
      BY <2>6 DEF SkipReservation, Pending, HasList
    <3> HIDE DEF u
    <3> QED
      BY <2>2, <3>1, <3>2
  <2>7. ASSUME NEW pc,
               \/ Become(i, [task[i] EXCEPT !.pc = pc])
               \/ Become(i, [task[i] EXCEPT !.pc = pc, !.file = @ + 1]),
               HasList(i)
        PROVE  ListInv'
    <3> DEFINE u == [task[i] EXCEPT !.pc = pc]
               v == [task[i] EXCEPT !.pc = pc, !.file = @ + 1]
    <3>1. /\ u.entries = task[i].entries /\ u.iso = task[i].iso
          /\ u.script = task[i].script /\ u.position = task[i].position
      BY <2>1 DEF TaskState
    <3>2. /\ v.entries = task[i].entries /\ v.iso = task[i].iso
          /\ v.script = task[i].script /\ v.position = task[i].position
      BY <2>1 DEF TaskState
    <3>3. Become(i, u) \/ Become(i, v)
      BY <2>7
    <3>4. task[i].pc # "idle"
      BY <2>7 DEF HasList
    <3> HIDE DEF u, v
    <3> QED
      BY <2>2, <2>7, <3>1, <3>2, <3>3, <3>4
  <2>8. CASE OpenFile(i) \/ Finish(i)
    BY <2>7, <2>8 DEF OpenFile, Finish, Pending, HasList
  <2>9. CASE WriteFile(i)
    BY <2>7, <2>9 DEF WriteFile, HasList
  <2> QED
    BY <1>3, <2>3, <2>4, <2>5, <2>6, <2>8, <2>9 DEF Generate
<1>4. ASSUME NEW S \in SUBSET Interfaces, Fail(S) PROVE ListInv'
  <2>1. scan' = scan /\ warned' = warned /\ conf' = conf
    BY <1>4 DEF Fail, run
  <2>2. Warnings(scan.infos)' = Warnings(scan.infos)
    BY <2>1 DEF Warnings, NoEffect, HasOwn, Wish, Reserved
  <2>3. ASSUME NEW i \in Interfaces
        PROVE  /\ ListedSoFar(task[i])'
               /\ \/ task'[i] = task[i]
                  \/ task'[i].pc = "failed" /\ task[i].pc # "idle"
    <3> DEFINE u == [task[i] EXCEPT !.pc = "failed"]
    <3>1. task[i] \in TaskState /\ ListedSoFar(task[i])
      BY DEF TypeOK, ListInv
    <3>2. /\ u.entries = task[i].entries /\ u.iso = task[i].iso
          /\ u.script = task[i].script /\ u.position = task[i].position
          /\ u.pc = "failed"
      BY <3>1 DEF TaskState
    <3>3. task'[i] = task[i] \/ (task'[i] = u /\ ~Ended(task[i]))
      BY <1>4 DEF Fail
    <3> HIDE DEF u
    <3>4. ListedSoFar(u)
      BY <3>1, <3>2, SameList
    <3>5. ListedSoFar(task[i])'
      BY <2>1, <3>1, <3>3, <3>4, ListFrame
    <3> QED
      BY <3>2, <3>3, <3>5 DEF Ended
  <2> QED
    BY <2>1, <2>2, <2>3 DEF ListInv, HasList
<1>5. ASSUME UNCHANGED <<run, task>> PROVE ListInv'
  <2>1. conf' = conf /\ scan' = scan /\ warned' = warned /\ task' = task
    BY <1>5 DEF run
  <2>2. Warnings(scan.infos)' = Warnings(scan.infos)
    BY <2>1 DEF Warnings, NoEffect, HasOwn, Wish, Reserved
  <2>3. \A i \in Interfaces : ListedSoFar(task[i])'
    BY <2>1, ListFrame DEF ListInv
  <2> QED
    BY <2>1, <2>2, <2>3 DEF ListInv, HasList
<1>6. ASSUME NEW c \in Clients, PowerOn(c) \/ Boot(c) PROVE ListInv'
  BY <1>5, <1>6 DEF PowerOn, Boot, Read, Timeout, ClientStep
<1>7. ASSUME NEW i \in Interfaces, FailWrite(i) PROVE ListInv'
  BY <1>4, <1>7 DEF FailWrite
<1>8. CASE Kill
  BY <1>4, <1>8 DEF Kill
<1>9. CASE UNCHANGED vars
  BY <1>5, <1>9 DEF vars, run
<1> QED
  BY <1>1, <1>3, <1>6, <1>7, <1>8, <1>9 DEF Next

---------------------------------------------------------------------------
(* The files *)

LEMMA RenderedSame ==
    ASSUME NEW i \in Interfaces, task'[i].entries = task[i].entries,
           scan' = scan, conf' = conf
    PROVE  /\ \A x : Rendered(i, x)' = Rendered(i, x)
           /\ \A n : IsWritten(i, n)' <=> IsWritten(i, n)
<1>1. \A x : Wish(x)' = Wish(x) /\ (HasOwn(x)' <=> HasOwn(x))
  BY DEF Wish, HasOwn
<1> QED
  BY <1>1 DEF Rendered, IsWritten

LEMMA InitFiles == Init => WriteInv
<1> SUFFICES ASSUME Init PROVE WriteInv
  OBVIOUS
<1>1. \A i \in Interfaces : task[i].pc = "idle" /\ task[i].file = 0
  BY DEF Init, NewTask
<1>2. \A i \in Interfaces : Len(Reservations[i]) \in Nat
  BY UniqueAssumption
<1> QED
  BY <1>1, <1>2 DEF WriteInv, WrittenSoFar, HasList

(* A step that leaves the files alone, but for those not yet written by    *)
(* the task, keeps what is written.                                        *)
LEMMA FilesFrame ==
    ASSUME NEW i \in Interfaces, WrittenSoFar(i), scan' = scan, conf' = conf,
           task'[i].entries = task[i].entries, task'[i].file = task[i].file,
           HasList(i)' => HasList(i),
           task'[i].pc = "entries" => task[i].file = 0,
           task'[i].pc = "write" =>
             /\ task[i].file <= Len(Reservations[i])
             /\ IsWritten(i, task[i].file)
             /\ files'[Target(i)].state = "torn",
           task'[i].pc = "done" => task[i].file = Len(Reservations[i]) + 1,
           \A n \in 0..Len(Reservations[i]) : n < task[i].file =>
             files'[Subject(i, n)] = files[Subject(i, n)]
    PROVE  WrittenSoFar(i)'
<1>1. /\ \A x : Rendered(i, x)' = Rendered(i, x)
      /\ \A n : IsWritten(i, n)' <=> IsWritten(i, n)
  BY RenderedSame
<1>2. /\ \A n : Subject(i, n)' = Subject(i, n)
      /\ Target(i)' = Target(i)
  BY DEF Subject, Target
<1> QED
  BY <1>1, <1>2 DEF WrittenSoFar

LEMMA StepFiles ==
    ASSUME TypeOK, TypeOK', WriteInv, [Next]_vars
    PROVE  WriteInv'
<1>1. \A i \in Interfaces : Len(Reservations[i]) \in Nat
  BY UniqueAssumption
<1>2. CASE \E c \in Configs, sc \in Scans : Start(c, sc)
  <2>1. \A i \in Interfaces : task'[i].pc = "entries" /\ task'[i].file = 0
    BY <1>2 DEF Start, NewTask
  <2> QED
    BY <1>1, <2>1 DEF WriteInv, WrittenSoFar, HasList
<1>3. ASSUME NEW i \in Interfaces, Generate(i) PROVE WriteInv'
  <2> DEFINE t == task[i]
  <2>1. /\ t \in TaskState /\ WrittenSoFar(i)
        /\ t.file \in 0..(Len(Reservations[i]) + 1)
    BY DEF TypeOK, WriteInv, WrittenSoFar
  <2>2. scan' = scan /\ conf' = conf
    BY <1>3 DEF Generate, AddEntry, Add, NextIso, MakeDir, SkipReservation,
                OpenFile, WriteFile, Finish, Become, run
  <2>3. \A j \in Interfaces \ {i} : task'[j] = task[j]
    BY <1>3 DEF Generate, AddEntry, Add, NextIso, MakeDir, SkipReservation,
                OpenFile, WriteFile, Finish, Become, TypeOK
  <2>4. \/ files' = files
        \/ /\ t.file <= Len(Reservations[i])
           /\ \E f : files' = [files EXCEPT ![Target(i)] = f]
    BY <1>3, <2>1 DEF Generate, AddEntry, NextIso, MakeDir, SkipReservation,
                OpenFile, WriteFile, Finish, Pending, WrittenSoFar
  <2>5. ASSUME NEW j \in Interfaces, NEW n \in 0..Len(Reservations[j]),
               j # i \/ n # t.file
        PROVE  files'[Subject(j, n)] = files[Subject(j, n)]
    <3>1. t.file <= Len(Reservations[i]) => Target(i) # Subject(j, n)
      BY <1>1, <2>1, <2>5, SubjectsDiffer DEF Target
    <3>2. Subject(j, n) \in Subjects /\ files \in [Subjects -> MenuContent]
      BY SubjectType DEF TypeOK
    <3> QED
      BY <2>4, <3>1, <3>2
  <2>6. ASSUME NEW j \in Interfaces, j # i PROVE WrittenSoFar(j)'
    <3>1. task'[j] = task[j] /\ WrittenSoFar(j)
      BY <2>3, <2>6 DEF WriteInv
    <3>2. \A n \in 0..Len(Reservations[j]) :
            files'[Subject(j, n)] = files[Subject(j, n)]
      BY <2>5, <2>6
    <3>3. HasList(j)' => HasList(j)
      BY <3>1 DEF HasList
    <3>4. task'[j].pc = "write" =>
            /\ task[j].file <= Len(Reservations[j])
            /\ IsWritten(j, task[j].file)
            /\ files'[Target(j)].state = "torn"
      <4>1. task[j].pc = "write" => task[j].file \in 0..Len(Reservations[j])
        BY <1>1, <3>1 DEF WrittenSoFar
      <4> QED
        BY <3>1, <3>2, <4>1 DEF WrittenSoFar, Target
    <3>5. /\ task'[j].pc = "done" => task[j].file = Len(Reservations[j]) + 1
          /\ task'[j].pc = "entries" => task[j].file = 0
      BY <3>1 DEF WrittenSoFar
    <3> QED
      BY <2>2, <3>1, <3>2, <3>3, <3>4, <3>5, FilesFrame
  <2>7. WrittenSoFar(i)'
    <3>1. \A n \in 0..Len(Reservations[i]) : n < t.file =>
            files'[Subject(i, n)] = files[Subject(i, n)]
      BY <2>5
    <3>2. ASSUME NEW u, Become(i, u) PROVE task'[i] = u
      BY <3>2 DEF Become, TypeOK
    <3>3. CASE AddEntry(i) \/ NextIso(i)
      <4>1. /\ task[i].pc = "entries"
            /\ task'[i].pc = "entries" /\ task'[i].file = t.file
        BY <2>1, <3>2, <3>3 DEF AddEntry, Add, NextIso, Listing, Unlisted, TaskState
      <4> QED
        BY <2>1, <4>1 DEF WrittenSoFar, HasList
    <3>4. CASE MakeDir(i)
      <4>1. /\ task'[i].pc = "open" /\ task'[i].file = t.file
            /\ task'[i].entries = t.entries
        BY <2>1, <3>2, <3>4 DEF MakeDir, TaskState
      <4>2. t.file = 0
        BY <2>1, <3>4 DEF MakeDir, WrittenSoFar
      <4> QED
        BY <1>1, <4>1, <4>2 DEF WrittenSoFar
    <3>5. CASE OpenFile(i) \/ Finish(i)
      <4>1. /\ task'[i].file = t.file /\ task'[i].entries = t.entries
            /\ task'[i].pc = "write" =>
                 t.file <= Len(Reservations[i]) /\ IsWritten(i, t.file)
            /\ task'[i].pc = "done" => t.file > Len(Reservations[i])
            /\ task'[i].pc # "entries" /\ HasList(i)
            /\ task'[i].pc = "write" => OpenFile(i)
        BY <2>1, <3>2, <3>5
           DEF OpenFile, Finish, Pending, HasList, TaskState
      <4>3. OpenFile(i) => files'[Target(i)].state = "torn"
        <5>1. t.file <= Len(Reservations[i]) => Target(i) \in Subjects
          BY <1>1, <2>1, SubjectType DEF Target
        <5> QED
          BY <5>1 DEF OpenFile, Pending, Torn, TypeOK
      <4>2. t.file > Len(Reservations[i]) => t.file = Len(Reservations[i]) + 1
        BY <1>1, <2>1
      <4> QED
        BY <2>1, <2>2, <3>1, <4>1, <4>2, <4>3, FilesFrame
    <3>6. ASSUME t.file <= Len(Reservations[i]), HasList(i),
                 task'[i].file = t.file + 1, task'[i].pc = "open",
                 task'[i].entries = t.entries,
                 IsWritten(i, t.file) =>
                   files'[Target(i)] = Rendered(i, Target(i))
          PROVE  WrittenSoFar(i)'
      <4>1. /\ \A x : Rendered(i, x)' = Rendered(i, x)
            /\ \A n : IsWritten(i, n)' <=> IsWritten(i, n)
        BY <2>2, <3>6, RenderedSame
      <4>2. ASSUME NEW n \in 0..Len(Reservations[i]), n < t.file + 1,
                   IsWritten(i, n)
            PROVE  files'[Subject(i, n)] = Rendered(i, Subject(i, n))
        <5>1. CASE n = t.file
          BY <3>6, <4>2, <5>1 DEF Target
        <5>2. CASE n < t.file
          BY <2>1, <3>1, <3>6, <4>2, <5>2 DEF WrittenSoFar
        <5> QED
          BY <1>1, <2>1, <4>2, <5>1, <5>2
      <4>3. \A n : Subject(i, n)' = Subject(i, n)
        BY DEF Subject
      <4>4. task'[i].file \in 0..(Len(Reservations[i]) + 1)
        BY <1>1, <2>1, <3>6
      <4> QED
        BY <3>6, <4>1, <4>2, <4>3, <4>4 DEF WrittenSoFar
    <3>7. CASE SkipReservation(i)
      <4>1. /\ t.file <= Len(Reservations[i]) /\ ~IsWritten(i, t.file)
            /\ HasList(i)
        BY <3>7 DEF SkipReservation, Pending, HasList
      <4>2. /\ task'[i].file = t.file + 1 /\ task'[i].pc = "open"
            /\ task'[i].entries = t.entries
        BY <2>1, <3>2, <3>7 DEF SkipReservation, Pending, TaskState
      <4> QED
        BY <3>6, <4>1, <4>2
    <3>8. CASE WriteFile(i)
      <4>1. t.file <= Len(Reservations[i]) /\ HasList(i)
        BY <2>1, <3>8 DEF WriteFile, WrittenSoFar, HasList
      <4>2. /\ task'[i].file = t.file + 1 /\ task'[i].pc = "open"
            /\ task'[i].entries = t.entries
        BY <2>1, <3>2, <3>8 DEF WriteFile, TaskState
      <4>3. Target(i) \in Subjects
        BY <1>1, <2>1, <4>1, SubjectType DEF Target
      <4>4. files'[Target(i)] = Rendered(i, Target(i))
        BY <3>8, <4>3 DEF WriteFile, TypeOK
      <4> QED
        BY <3>6, <4>1, <4>2, <4>4
    <3> QED
      BY <1>3, <3>3, <3>4, <3>5, <3>7, <3>8 DEF Generate
  <2> QED
    BY <2>6, <2>7 DEF WriteInv
<1>4. ASSUME NEW S \in SUBSET Interfaces, Fail(S) PROVE WriteInv'
  <2>1. scan' = scan /\ conf' = conf /\ files' = files
    BY <1>4 DEF Fail, run
  <2>2. ASSUME NEW i \in Interfaces PROVE WrittenSoFar(i)'
    <3>1. task[i] \in TaskState /\ WrittenSoFar(i)
      BY DEF TypeOK, WriteInv
    <3>2. /\ task'[i].entries = task[i].entries /\ task'[i].file = task[i].file
          /\ task'[i].pc \in {task[i].pc, "failed"}
      BY <1>4, <3>1 DEF Fail, TaskState
    <3>3. HasList(i)' => HasList(i)
      BY <3>2 DEF HasList
    <3>4. task'[i].pc = "write" =>
            /\ task[i].file <= Len(Reservations[i])
            /\ IsWritten(i, task[i].file)
            /\ files'[Target(i)].state = "torn"
      <4>1. task'[i].pc = "write" => task[i].pc = "write"
        BY <3>2
      <4> QED
        BY <2>1, <3>1, <4>1 DEF WrittenSoFar
    <3>5. /\ task'[i].pc = "done" => task[i].file = Len(Reservations[i]) + 1
          /\ task'[i].pc = "entries" => task[i].file = 0
      BY <3>1, <3>2 DEF WrittenSoFar
    <3> QED
      BY <2>1, <3>1, <3>2, <3>3, <3>4, <3>5, FilesFrame
  <2> QED
    BY <2>2 DEF WriteInv
<1>5. ASSUME UNCHANGED <<run, task, files>> PROVE WriteInv'
  <2>1. conf' = conf /\ scan' = scan /\ task' = task /\ files' = files
    BY <1>5 DEF run
  <2>2. \A i \in Interfaces : HasList(i)' => HasList(i)
    BY <2>1 DEF HasList
  <2>3. ASSUME NEW i \in Interfaces PROVE WrittenSoFar(i)'
    <3>1. WrittenSoFar(i)
      BY DEF WriteInv
    <3>2. task[i].pc = "write" =>
            /\ task[i].file <= Len(Reservations[i])
            /\ IsWritten(i, task[i].file)
            /\ files'[Target(i)].state = "torn"
      BY <2>1, <3>1 DEF WrittenSoFar
    <3>3. /\ task[i].pc = "done" => task[i].file = Len(Reservations[i]) + 1
          /\ task[i].pc = "entries" => task[i].file = 0
      BY <3>1 DEF WrittenSoFar
    <3> QED
      BY <2>1, <2>2, <3>1, <3>2, <3>3, FilesFrame
  <2> QED
    BY <2>3 DEF WriteInv
<1>6. ASSUME NEW c \in Clients, PowerOn(c) \/ Boot(c) PROVE WriteInv'
  BY <1>5, <1>6 DEF PowerOn, Boot, Read, Timeout, ClientStep
<1>7. ASSUME NEW i \in Interfaces, FailWrite(i) PROVE WriteInv'
  BY <1>4, <1>7 DEF FailWrite
<1>8. CASE Kill
  BY <1>4, <1>8 DEF Kill
<1>9. CASE UNCHANGED vars
  BY <1>5, <1>9 DEF vars, run
<1> QED
  BY <1>2, <1>3, <1>6, <1>7, <1>8, <1>9 DEF Next

---------------------------------------------------------------------------
(* The theorems *)

LEMMA Invariant == Spec => []MenuInv
<1>1. Init => MenuInv
  BY InitType, InitLists, InitFiles DEF MenuInv
<1>2. MenuInv /\ [Next]_vars => MenuInv'
  BY StepType, StepLists, StepFiles DEF MenuInv
<1> QED
  BY <1>1, <1>2, PTL DEF Spec

(* For any ISOs and scripts, every menu built lists each bootable ISO and  *)
(* each of its scripts once, in order and rightly numbered                 *)
(* (lib.rs:332-386).                                                       *)
THEOREM MenusAreComplete == Spec => []MenuListsAll
<1>1. MenuInv => MenuListsAll
  <2> SUFFICES ASSUME MenuInv, NEW i \in Interfaces, HasList(i)
               PROVE  LET es == task[i].entries IN
                      /\ \A n \in DOMAIN es :
                           /\ es[n] = Entry(es[n].iso, es[n].script, n - 1)
                           /\ es[n].seed \in {None, SeedLayout(Distro[es[n].iso])}
                           /\ \A k \in 1..(n - 1) : Later(es[n], es[k])
                      /\ \A m \in DOMAIN scan.infos : scan.infos[m] \notin OffMount =>
                           \A s \in 0..Len(ScriptsOf[scan.infos[m]]) :
                             \E n \in DOMAIN es :
                               es[n].iso = scan.infos[m] /\ es[n].script = s
    BY DEF MenuListsAll
  <2>1. /\ TypeOK /\ ListedSoFar(task[i]) /\ task[i] \in TaskState
        /\ task[i].iso = Len(scan.infos) + 1
    BY DEF MenuInv, ListInv, TypeOK
  <2>2. \A m \in DOMAIN scan.infos : \A s : Passed(task[i], m, s)
    BY <2>1, ScanTypes DEF Passed
  <2>3. ASSUME NEW n \in DOMAIN task[i].entries
        PROVE  LET e == task[i].entries[n]
               IN e.seed \in {None, SeedLayout(Distro[e.iso])}
    <3> DEFINE e == task[i].entries[n]
    <3>1. e = Entry(e.iso, e.script, n - 1)
      BY <2>1 DEF ListedSoFar
    <3>2. task[i].entries \in Seq(Entries)
      BY <2>1 DEF TaskState
    <3>3. e \in Entries
      BY <3>2
    <3>4. e.iso \in Isos /\ e.script \in Nat
      BY <3>3 DEF Entries
    <3>5. e.seed = SeedUrl(Distro[e.iso], e.script)
      BY <3>1 DEF Entry
    <3> QED
      BY <3>4, <3>5, SeedsFit
  <2> QED
    BY <2>1, <2>2, <2>3 DEF ListedSoFar
<1> QED
  BY Invariant, <1>1, PTL

(* An interface whose task is done has the menus this run rendered, for    *)
(* any number of interfaces, reservations, failures and earlier runs       *)
(* (lib.rs:388-451).                                                       *)
THEOREM SettledMenus == Spec => []SettledIsCurrent
<1>1. MenuInv => SettledIsCurrent
  <2> SUFFICES ASSUME MenuInv, NEW i \in Interfaces, task[i].pc = "done"
               PROVE  /\ files[i] = Rendered(i, i)
                      /\ \A n \in DOMAIN Reservations[i] :
                           HasOwn(Reservations[i][n]) =>
                             files[Reservations[i][n]] =
                               Rendered(i, Reservations[i][n])
    BY DEF SettledIsCurrent
  <2>1. /\ DOMAIN Reservations[i] = 1..Len(Reservations[i])
        /\ Len(Reservations[i]) \in Nat
    BY UniqueAssumption
  <2>2. \A n \in 0..Len(Reservations[i]) : IsWritten(i, n) =>
          files[Subject(i, n)] = Rendered(i, Subject(i, n))
    BY <2>1 DEF MenuInv, WriteInv, WrittenSoFar, HasList
  <2>3. 0 \in 0..Len(Reservations[i]) /\ IsWritten(i, 0) /\ Subject(i, 0) = i
    BY <2>1 DEF IsWritten, Subject
  <2>4. \A n \in DOMAIN Reservations[i] :
          /\ n \in 0..Len(Reservations[i])
          /\ Subject(i, n) = Reservations[i][n]
          /\ HasOwn(Reservations[i][n]) => IsWritten(i, n)
    BY <2>1 DEF Subject, IsWritten
  <2> QED
    BY <2>2, <2>3, <2>4
<1> QED
  BY Invariant, <1>1, PTL

(* For any configuration and any ISOs found, those whose entry is refused   *)
(* included, a default that is wished for has no position in the menu      *)
(* exactly if prepare() warns of it or its ISO is refused                  *)
(* (lib.rs:270-290, 342-351, 621-739).                                     *)
THEOREM DefaultsWithoutEffect == Spec => []WarnedOrHonoured
<1>1. MenuInv => WarnedOrHonoured
  <2> SUFFICES ASSUME MenuInv, NEW i \in Interfaces, HasList(i),
                      NEW x \in {i} \cup {r \in Reserved : On[r] = i /\ HasOwn(r)},
                      Wish(x).iso # None
               PROVE  DefaultPosition(task[i].entries, Wish(x)) = None
                        <=> x \in warned \/ Refused(Wish(x).iso)
    BY DEF WarnedOrHonoured
  <2> DEFINE w == Wish(x)
             es == task[i].entries
  <2>1. /\ TypeOK /\ ListedSoFar(task[i]) /\ task[i] \in TaskState
        /\ task[i].iso = Len(scan.infos) + 1
        /\ warned = Warnings(scan.infos)
    BY DEF MenuInv, ListInv, TypeOK, HasList
  <2>2. es \in Seq(Entries)
    BY <2>1 DEF TaskState
  <2>3. x \in warned <=> NoEffect(w, scan.infos)
    BY <2>1 DEF Warnings
  <2>4. x \in Subjects
    BY DEF Reserved, Subjects
  <2>5. w.iso \in Isos /\ w.script \in Scripts \cup {"", None}
    BY <2>1, <2>4, WishType DEF Wishes
  <2>6. /\ Len(ScriptsOf[w.iso]) \in Nat
        /\ DOMAIN ScriptsOf[w.iso] = 1..Len(ScriptsOf[w.iso])
    BY <2>5, ScriptTypes
  <2>7. ASSUME NEW n \in DOMAIN es, Answers(es[n], w), NoEffect(w, scan.infos)
        PROVE  FALSE
    <3>1. \E a \in DOMAIN scan.infos : scan.infos[a] = es[n].iso
      BY <2>1 DEF ListedSoFar
    <3>2. /\ w.script \notin {None, ""}
          /\ \A s \in 1..Len(ScriptsOf[w.iso]) : ScriptsOf[w.iso][s] # w.script
      BY <2>6, <2>7, <3>1 DEF NoEffect, Answers
    <3>3. es[n].iso = w.iso /\ ScriptName(es[n]) = w.script
      BY <2>7, <3>2 DEF Answers
    <3>4. es[n].script \in 0..Len(ScriptsOf[es[n].iso])
      BY <2>1 DEF ListedSoFar
    <3>5. es[n].script # 0
      BY <3>2, <3>3 DEF ScriptName
    <3>6. es[n].script \in 1..Len(ScriptsOf[w.iso])
      BY <2>6, <3>3, <3>4, <3>5
    <3> QED
      BY <3>2, <3>3, <3>5, <3>6 DEF ScriptName
  <2>10. ASSUME NEW n \in DOMAIN es, Answers(es[n], w), Refused(w.iso)
         PROVE  FALSE
    BY <2>1, <2>10 DEF ListedSoFar, Answers, Refused
  <2>8. ASSUME ~NoEffect(w, scan.infos), ~Refused(w.iso)
        PROVE  \E n \in DOMAIN es : Answers(es[n], w)
    <3>1. PICK a \in DOMAIN scan.infos : scan.infos[a] = w.iso
      BY <2>8 DEF NoEffect
    <3>2. \A s \in 0..Len(ScriptsOf[w.iso]) :
            \E n \in DOMAIN es : es[n].iso = w.iso /\ es[n].script = s
      <4>1. \A s : Passed(task[i], a, s)
        BY <2>1, ScanTypes DEF Passed
      <4>2. w.iso \notin OffMount
        BY <2>8, <3>1 DEF Refused
      <4> QED
        BY <2>1, <3>1, <4>1, <4>2 DEF ListedSoFar
    <3>3. CASE w.script \in {None, ""}
      <4>1. PICK n \in DOMAIN es : es[n].iso = w.iso /\ es[n].script = 0
        BY <2>6, <3>2
      <4> QED
        BY <3>3, <4>1 DEF Answers
    <3>4. CASE w.script \notin {None, ""}
      <4>1. PICK s \in 1..Len(ScriptsOf[w.iso]) : ScriptsOf[w.iso][s] = w.script
        BY <2>6, <2>8, <3>4 DEF NoEffect
      <4>2. PICK n \in DOMAIN es : es[n].iso = w.iso /\ es[n].script = s
        BY <2>6, <3>2
      <4>3. s # 0 /\ ScriptName(es[n]) = w.script
        BY <2>6, <4>1, <4>2 DEF ScriptName
      <4> QED
        BY <3>4, <4>2, <4>3 DEF Answers
    <3> QED
      BY <3>3, <3>4
  <2> HIDE DEF w, es
  <2>9. DefaultPosition(es, w) = None <=> ~ \E n \in DOMAIN es : Answers(es[n], w)
    BY <2>2, DefaultType
  <2> QED
    BY <2>3, <2>7, <2>8, <2>9, <2>10 DEF w, es
<1> QED
  BY Invariant, <1>1, PTL

---------------------------------------------------------------------------
(* Sizes of sets *)

LEMMA IntervalSizes ==
    ASSUME NEW n \in Nat
    PROVE  /\ IsFiniteSet(1..n) /\ Cardinality(1..n) = n
           /\ IsFiniteSet(0..n) /\ Cardinality(0..n) = n + 1
<1>1. 0 \in Int /\ 1 \in Int /\ n \in Int
  OBVIOUS
<1>2. /\ IsFiniteSet(1..n) /\ Cardinality(1..n) = IF 1 > n THEN 0 ELSE n - 1 + 1
      /\ IsFiniteSet(0..n) /\ Cardinality(0..n) = IF 0 > n THEN 0 ELSE n - 0 + 1
  BY <1>1, FS_Interval
<1> QED
  BY <1>2

LEMMA PartSize ==
    ASSUME NEW S, IsFiniteSet(S), NEW T, T \subseteq S
    PROVE  /\ IsFiniteSet(T) /\ Cardinality(T) \in Nat
           /\ Cardinality(S) \in Nat /\ Cardinality(T) <= Cardinality(S)
<1>1. T \in SUBSET S
  OBVIOUS
<1>2. IsFiniteSet(T) /\ Cardinality(T) <= Cardinality(S)
  BY <1>1, FS_Subset
<1> QED
  BY <1>2, FS_CardinalityType

---------------------------------------------------------------------------
(* What a client boots *)

(* The default of a rendered menu is the number of the first entry that    *)
(* answers.                                                                *)
LEMMA DefaultAnswers ==
    ASSUME NEW menu \in MenuContent, SoundSoFar(menu), Wished(menu)
    PROVE  \E n \in DOMAIN menu.entries :
             menu.default = n - 1 /\ Answers(menu.entries[n], menu.wish)
<1> DEFINE es == menu.entries
           found == {n \in DOMAIN es : Answers(es[n], menu.wish)}
           least == CHOOSE n \in found : \A k \in found : n <= k
<1>1. es \in Seq(Entries)
  BY DEF MenuContent
<1>2. found \subseteq Nat /\ found # {}
  BY <1>1 DEF Wished
<1>3. \E n \in found : \A k \in found : n <= k
  BY <1>2, LeastExists
<1>4. least \in found
  BY <1>3
<1>5. menu.default = es[least].position
  BY <1>2 DEF SoundSoFar, DefaultPosition
<1> QED
  BY <1>4, <1>5 DEF SoundSoFar

(* Where no entry up to the n-th is hidden, GRUB's numbers are those of    *)
(* the file, and no later entry has one of them.                           *)
LEMMA CountedAsWritten ==
    ASSUME NEW c, NEW menu \in MenuContent, NEW n \in DOMAIN menu.entries,
           \A k \in 1..n : Visible(c, menu.entries[k])
    PROVE  /\ n - 1 < Reload(c, menu)
           /\ \A k \in Shown(c, menu) : Counted(c, menu, k) = n - 1 <=> k = n
           /\ n \in Shown(c, menu)
<1> DEFINE es == menu.entries
           shown == Shown(c, menu)
           before(k) == {j \in shown : j < k}
<1>1. /\ es \in Seq(Entries) /\ DOMAIN es = 1..Len(es) /\ Len(es) \in Nat
      /\ Len(menu.placeholders) \in Nat
  BY DEF MenuContent
<1>2. shown \subseteq 1..Len(es) /\ 1..n \subseteq shown /\ n \in 1..Len(es)
  BY <1>1 DEF Shown
<1> HIDE DEF shown, es
<1>3. IsFiniteSet(shown) /\ Cardinality(shown) \in Nat
  BY <1>1, <1>2, IntervalSizes, PartSize
<1>4. ASSUME NEW k \in 1..n
      PROVE  Cardinality(before(k)) = k - 1
  <2> k \in Nat \ {0} /\ n \in Nat /\ k <= n /\ 1..n \subseteq shown
    BY <1>2
  <2>1. before(k) = 1..(k - 1)
    <3>1. ASSUME NEW j \in shown, j < k
          PROVE  j \in 1..(k - 1)
      BY <1>1, <1>2, <3>1
    <3>2. ASSUME NEW j \in 1..(k - 1)
          PROVE  j \in shown /\ j < k
      <4>1. j \in Int /\ 1 <= j /\ j <= k - 1
        BY <3>2
      <4>2. j \in 1..n /\ j < k
        BY <4>1
      <4> QED
        BY <4>2
    <3> QED
      BY <3>1, <3>2
  <2>2. k - 1 \in Nat
    BY <1>2
  <2> QED
    BY <2>1, <2>2, IntervalSizes
<1>5. n \in Nat /\ IsFiniteSet(1..n) /\ Cardinality(1..n) = n
  <2>1. n \in Nat
    BY <1>2
  <2> QED
    BY <2>1, IntervalSizes
<1>6. ASSUME NEW k \in shown, n < k
      PROVE  Cardinality(before(k)) # n - 1
  <2>1. 1..n \subseteq before(k) /\ before(k) \subseteq shown
    BY <1>2, <1>6
  <2> HIDE DEF before
  <2>2. IsFiniteSet(before(k)) /\ Cardinality(before(k)) \in Nat
    BY <1>3, <2>1, PartSize
  <2>3. Cardinality(1..n) <= Cardinality(before(k))
    BY <2>1, <2>2, PartSize
  <2> QED
    BY <1>5, <2>2, <2>3
<1>7. Cardinality(1..n) <= Cardinality(shown)
  BY <1>2, <1>3, PartSize
<1>8. ASSUME NEW k \in shown
      PROVE  Cardinality(before(k)) = n - 1 <=> k = n
  <2>1. k \in Nat \ {0} /\ n \in 1..n
    BY <1>2, <1>5
  <2>2. CASE n < k
    BY <1>5, <1>6, <2>1, <2>2
  <2>3. CASE ~(n < k)
    <3>1. k \in 1..n
      BY <1>5, <2>1, <2>3
    <3>2. Cardinality(before(k)) = k - 1
      BY <1>4, <3>1
    <3> QED
      BY <1>5, <2>1, <3>2
  <2> QED
    BY <2>2, <2>3
<1>9. Reload(c, menu) = Cardinality(shown) + Len(menu.placeholders)
  BY DEF Reload, shown
<1>10. n - 1 < Reload(c, menu)
  BY <1>1, <1>3, <1>5, <1>7, <1>9
<1> QED
  BY <1>2, <1>5, <1>8, <1>10 DEF Counted, shown

LEMMA NoContentSound == Sound(Torn) /\ Sound(Absent)
<1>1. \A w : DefaultPosition(<<>>, w) = None
  BY DEF DefaultPosition
<1>2. /\ Torn.default = None /\ Torn.entries = <<>>
      /\ Absent.default = None /\ Absent.entries = <<>>
  BY DEF Torn, Absent
<1> QED
  BY <1>1, <1>2 DEF Sound

(* A file is written with the default of the entries in it.                *)
LEMMA RenderedSound ==
    ASSUME NEW i \in Interfaces, ListedSoFar(task[i]), NEW x
    PROVE  Sound(Rendered(i, x))
<1>1. ASSUME NEW n \in DOMAIN task[i].entries
      PROVE  task[i].entries[n].position = n - 1
  <2>1. \A iso, script, position :
          Entry(iso, script, position).position = position
    BY DEF Entry
  <2>2. \E iso, script : task[i].entries[n] = Entry(iso, script, n - 1)
    BY DEF ListedSoFar
  <2> QED
    BY <2>1, <2>2
<1> QED
  BY <1>1 DEF Rendered, Sound

(* What has come of a file so far has the file's default, if an entry that *)
(* answers has come.                                                       *)
LEMMA StartIsSound ==
    ASSUME NEW file \in MenuContent, Sound(file),
           NEW k \in 0..Len(file.entries), NEW menu,
           menu.default = file.default, menu.wish = file.wish,
           menu.entries = SubSeq(file.entries, 1, k)
    PROVE  SoundSoFar(menu)
<1> DEFINE es == file.entries
           w == file.wish
           Least(S) == CHOOSE n \in S : \A m \in S : n <= m
           all == {n \in DOMAIN es : Answers(es[n], w)}
           come == {n \in DOMAIN menu.entries : Answers(menu.entries[n], w)}
<1>1. es \in Seq(Entries) /\ Len(es) \in Nat /\ DOMAIN es = 1..Len(es)
  BY DEF MenuContent
<1>2. /\ DOMAIN menu.entries = 1..k
      /\ \A n \in 1..k : n \in DOMAIN es /\ menu.entries[n] = es[n]
  BY <1>1
<1>3. ASSUME Wished(menu)
      PROVE  DefaultPosition(menu.entries, w) = DefaultPosition(es, w)
  <2>1. come # {} /\ come \subseteq Nat
    BY <1>2, <1>3 DEF Wished
  <2>2. PICK p \in come : \A m \in come : p <= m
    BY <2>1, LeastExists
  <2>3. /\ come \subseteq all /\ all \subseteq Nat
        /\ \A n \in all : n \in come \/ n > k
    BY <1>1, <1>2
  <2>4. p \in all /\ p <= k /\ menu.entries[p] = es[p]
    BY <1>2, <2>3
  <2>5. \A m \in all : p <= m
    <3>1. \A m \in all : m \in Nat /\ (m \in come \/ m > k)
      BY <2>3
    <3>2. p \in Nat /\ p <= k /\ k \in Nat
      BY <2>3, <2>4
    <3> HIDE DEF come, all
    <3> QED
      BY <2>2, <3>1, <3>2
  <2> HIDE DEF come, all
  <2>6. \A S : S \subseteq Nat /\ p \in S /\ (\A m \in S : p <= m)
           => Least(S) = p
    <3> SUFFICES ASSUME NEW S, S \subseteq Nat, p \in S,
                        \A m \in S : p <= m
                 PROVE  Least(S) = p
      OBVIOUS
    <3>1. \E n \in S : \A m \in S : n <= m
      OBVIOUS
    <3>2. /\ Least(S) \in S /\ \A m \in S : Least(S) <= m
      BY <3>1, Zenon
    <3>3. Least(S) <= p /\ p <= Least(S) /\ Least(S) \in Nat /\ p \in Nat
      BY <3>2
    <3> HIDE DEF Least
    <3> QED
      BY <3>3
  <2>7. Least(come) = p /\ Least(all) = p
    BY <2>1, <2>2, <2>3, <2>4, <2>5, <2>6
  <2>8. DefaultPosition(menu.entries, w) = menu.entries[Least(come)].position
    BY <2>1 DEF DefaultPosition, come
  <2>9. DefaultPosition(es, w) = es[Least(all)].position
    BY <2>4 DEF DefaultPosition, all
  <2> QED
    BY <2>4, <2>7, <2>8, <2>9
<1>4. \A n \in DOMAIN menu.entries : menu.entries[n].position = n - 1
  BY <1>2 DEF Sound
<1>5. file.default = DefaultPosition(es, w)
  BY DEF Sound
<1> QED
  BY <1>3, <1>4, <1>5 DEF SoundSoFar

LEMMA NothingIsSound ==
    ASSUME NEW menu, menu.entries = <<>>
    PROVE  SoundSoFar(menu)
BY DEF SoundSoFar, Wished

(* A client that does nothing, and whose file stays as it is, if it is in  *)
(* the middle of it.                                                       *)
LEMMA ClientFrame ==
    ASSUME NEW c \in Clients, ClientInv(c), grub'[c] = grub[c],
           grub[c].pc = "entries" /\ grub[c].at # 0 =>
               files'[File(c)] = files[File(c)]
    PROVE  ClientInv(c)'
<1>1. File(c)' = File(c)
  BY DEF File
<1>2. grub[c].pc = "entries" /\ grub[c].at # 0 => Content(c)' = Content(c)
  BY <1>1 DEF Content
<1> QED
  BY <1>2 DEF ClientInv, Fetched

(* A client that goes to another menu, or has its own whole.               *)
LEMMA ClientMoves ==
    ASSUME NEW c \in Clients, NEW g, grub'[c] = g,
           g.pc # "entries", g.mixed \/ SoundSoFar(g.menu)
    PROVE  ClientInv(c)'
<1>1. SoundSoFar(grub[c].menu)' <=> SoundSoFar(grub'[c].menu)
  BY DEF SoundSoFar, Wished
<1> QED
  BY <1>1 DEF ClientInv

LEMMA EnterMoves ==
    ASSUME TypeOK, NEW c \in Clients, NEW own, Enter(c, own)
    PROVE  ClientInv(c)'
<1> DEFINE g == [Off EXCEPT !.pc = "test", !.own = own,
                            !.nest = grub[c].nest + 1]
           h == [Off EXCEPT !.pc = "lost", !.nest = MaxNest]
<1>1. /\ g.pc # "entries" /\ g.menu.entries = <<>>
      /\ h.pc # "entries" /\ h.menu.entries = <<>>
  BY DEF Off, Absent, Torn
<1>2. grub'[c] = g \/ grub'[c] = h
  BY DEF Enter, Set, TypeOK
<1> HIDE DEF g, h
<1> QED
  BY <1>1, <1>2, ClientMoves, NothingIsSound

LEMMA BackMoves ==
    ASSUME TypeOK, NEW c \in Clients, Back(c)
    PROVE  ClientInv(c)'
<1> DEFINE g == [Off EXCEPT !.pc = "prompt", !.nest = grub[c].nest]
           h == [Off EXCEPT !.pc = "default", !.own = grub[c].own - 1,
                            !.nest = grub[c].nest - 1]
<1>1. /\ g.pc # "entries" /\ g.menu.entries = <<>>
      /\ h.pc # "entries" /\ h.menu.entries = <<>>
  BY DEF Off, Absent, Torn
<1>2. grub'[c] = g \/ grub'[c] = h
  BY DEF Back, Set, TypeOK
<1> HIDE DEF g, h
<1> QED
  BY <1>1, <1>2, ClientMoves, NothingIsSound

(* The next block of a file.                                               *)
LEMMA ReadStep ==
    ASSUME TypeOK, BootInv, NEW c \in Clients, Read(c)
    PROVE  ClientInv(c)'
<1> DEFINE s == grub[c]
           file == Content(c)
<1>1. /\ s \in BootState /\ file \in MenuContent /\ s.menu \in MenuContent
      /\ file.entries \in Seq(Entries) /\ Len(file.entries) \in Nat
  BY ContentType DEF MenuContent
<1>2. Sound(file) /\ ClientInv(c)
  BY ContentType DEF BootInv, Content
<1>3. /\ \A g : Set(c, g) => grub'[c] = g
      /\ files' = files
  BY DEF Set, TypeOK, Read, ClientStep
<1>4. ASSUME NEW g, Set(c, g), g.own = s.own
      PROVE  Content(c)' = file
  BY <1>3, <1>4 DEF Content, File
<1>5. ASSUME NEW pc \in {"default", "menu"}, Set(c, [s EXCEPT !.pc = pc]) 
      PROVE  ClientInv(c)'
  <2> DEFINE g == [s EXCEPT !.pc = pc]
  <2>1. g.pc = pc /\ g.mixed = s.mixed /\ g.menu = s.menu
    BY <1>1 DEF BootState
  <2>2. grub'[c] = g
    BY <1>3, <1>5
  <2>3. s.mixed \/ SoundSoFar(s.menu)
    BY <1>2 DEF ClientInv
  <2> HIDE DEF g
  <2> QED
    BY <2>1, <2>2, <2>3, ClientMoves
<1>6. CASE ReadTest(c)
  <2>1. \/ Back(c) \/ Enter(c, s.own + 1)
        \/ Set(c, [s EXCEPT !.pc = "default"])
    BY <1>6 DEF ReadTest
  <2> QED
    BY <1>5, <2>1, BackMoves, EnterMoves
<1>7. CASE ReadDefault(c)
  <2>1. CASE Back(c)
    BY <2>1, BackMoves
  <2>2. CASE ~Back(c)
    <3> DEFINE menu == [Torn EXCEPT !.default = file.default,
                                    !.wish = file.wish]
               g == [s EXCEPT !.pc = "entries", !.at = 1, !.menu = menu]
    <3>1. Set(c, g) /\ file.state = "whole"
      BY <1>7, <2>2 DEF ReadDefault
    <3>2. g.own = s.own /\ g.at = 1 /\ g.menu = menu
      BY <1>1 DEF BootState
    <3>3. /\ menu.default = file.default /\ menu.wish = file.wish
          /\ menu.entries = <<>> /\ SubSeq(file.entries, 1, 0) = <<>>
      BY <1>1 DEF Torn
    <3>4. grub'[c] = g /\ Content(c)' = file
      BY <1>3, <1>4, <3>1, <3>2
    <3> HIDE DEF menu, g, file
    <3>5. SoundSoFar(grub'[c].menu)
      BY <3>2, <3>3, <3>4, NothingIsSound
    <3>6. SoundSoFar(grub[c].menu)'
      BY <3>5 DEF SoundSoFar, Wished
    <3>7. Fetched(c)'
      <4>1. 1 \in 1..(Len(file.entries) + 1) /\ 1 - 1 = 0
        BY <1>1
      <4>2. grub'[c].menu = menu /\ grub'[c].at = 1
        BY <3>2, <3>4
      <4> QED
        BY <3>3, <3>4, <4>1, <4>2 DEF Fetched
    <3> QED
      BY <3>1, <3>4, <3>6, <3>7 DEF ClientInv
  <2> QED
    BY <2>1, <2>2
<1>8. ASSUME NEW k \in DOMAIN file.entries, ReadEntry(c, k)
      PROVE  ClientInv(c)'
  <2> DEFINE es == Append(s.menu.entries, file.entries[k])
             menu == [s.menu EXCEPT !.entries = es]
             g == [s EXCEPT !.at = k + 1, !.mixed = s.mixed \/ s.at = 0,
                            !.menu.entries = es]
  <2>1. /\ Set(c, g) /\ file.state = "whole"
        /\ s.pc = "entries" /\ s.at \in {0, k}
    BY <1>8 DEF ReadEntry
  <2>2. /\ g.own = s.own /\ g.at = k + 1 /\ g.menu = menu
        /\ g.mixed = (s.mixed \/ s.at = 0) /\ g.pc = "entries"
    BY <1>1, <2>1 DEF BootState
  <2>3. /\ menu.default = s.menu.default /\ menu.wish = s.menu.wish
        /\ menu.entries = es
    BY <1>1 DEF MenuContent
  <2>4. grub'[c] = g /\ Content(c)' = file
    BY <1>3, <1>4, <2>1, <2>2
  <2>5. k \in 1..Len(file.entries) /\ k # 0
    BY <1>1
  <2>6. ASSUME ~g.mixed
        PROVE  /\ menu.default = file.default /\ menu.wish = file.wish
               /\ menu.entries = SubSeq(file.entries, 1, k)
    <3>1. ~s.mixed /\ s.at = k
      BY <2>1, <2>2, <2>6
    <3>2. Fetched(c)
      BY <1>2, <2>1, <2>5, <3>1 DEF ClientInv
    <3>3. /\ s.menu.default = file.default /\ s.menu.wish = file.wish
          /\ s.menu.entries = SubSeq(file.entries, 1, k - 1)
      BY <3>1, <3>2 DEF Fetched
    <3> HIDE DEF file, s
    <3>4. Append(SubSeq(file.entries, 1, k - 1), file.entries[k])
            = SubSeq(file.entries, 1, k)
      BY <1>1, <2>5
    <3> QED
      BY <2>3, <3>3, <3>4
  <2> HIDE DEF menu, g, file
  <2>7. ~g.mixed => SoundSoFar(menu)
    BY <1>1, <1>2, <2>5, <2>6, StartIsSound
  <2>8. ~g.mixed => SoundSoFar(grub[c].menu)'
    BY <2>2, <2>4, <2>7 DEF SoundSoFar, Wished
  <2>9. ~g.mixed => Fetched(c)'
    <3>1. k + 1 \in 1..(Len(file.entries) + 1) /\ (k + 1) - 1 = k
      BY <1>1, <2>5
    <3> QED
      BY <2>2, <2>4, <2>6, <3>1 DEF Fetched
  <2> QED
    BY <2>1, <2>4, <2>8, <2>9 DEF ClientInv
<1>9. CASE ReadEnd(c)
  <2> DEFINE menu == [s.menu EXCEPT !.state = "whole",
                                    !.placeholders = file.placeholders]
             g == [s EXCEPT !.pc = "menu", !.mixed = s.mixed \/ s.at = 0,
                            !.menu = menu]
  <2>1. Set(c, g)
    <3>1. [s EXCEPT !.pc = "menu", !.mixed = s.mixed \/ s.at = 0,
                    !.menu.state = "whole",
                    !.menu.placeholders = file.placeholders] = g
      BY <1>1 DEF BootState
    <3> QED
      BY <1>9, <3>1 DEF ReadEnd
  <2>2. g.pc = "menu" /\ g.mixed = (s.mixed \/ s.at = 0) /\ g.menu = menu
    BY <1>1 DEF BootState
  <2>3. /\ menu.default = s.menu.default /\ menu.wish = s.menu.wish
        /\ menu.entries = s.menu.entries
    BY <1>1 DEF MenuContent
  <2>4. ~s.mixed => SoundSoFar(s.menu)
    BY <1>2 DEF ClientInv
  <2>5. grub'[c] = g
    BY <1>3, <2>1
  <2> HIDE DEF menu, g
  <2>6. g.mixed \/ SoundSoFar(g.menu)
    BY <2>2, <2>3, <2>4 DEF SoundSoFar, Wished
  <2> QED
    BY <2>2, <2>5, <2>6, ClientMoves
<1>10. CASE ReadCut(c)
  <2>1. Back(c) \/ Set(c, [s EXCEPT !.pc = "menu"])
    BY <1>10 DEF ReadCut
  <2> QED
    BY <1>5, <2>1, BackMoves
<1> QED
  BY <1>6, <1>7, <1>8, <1>9, <1>10 DEF Read

(* A task writes a file: clients in the middle of it lose their place, and *)
(* no client has a place in one that is being written.                     *)
LEMMA TaskStep ==
    ASSUME MenuInv, BootInv, NEW i \in Interfaces, Generate(i),
           NEW c \in Clients
    PROVE  ClientInv(c)'
<1> DEFINE s == grub[c]
<1>1. ClientInv(c) /\ TypeOK /\ s \in BootState
  BY ContentType DEF BootInv, MenuInv
<1>2. CASE OpenFile(i)
  <2>1. CASE s.pc = "entries" /\ File(c) = Target(i)
    <3> DEFINE g == [s EXCEPT !.at = 0]
    <3>1. grub'[c] = g
      BY <1>2, <2>1 DEF OpenFile
    <3>2. g.at = 0 /\ g.menu = s.menu /\ g.mixed = s.mixed
      BY <1>1 DEF BootState
    <3> HIDE DEF g
    <3>3. SoundSoFar(grub[c].menu) => SoundSoFar(grub[c].menu)'
      BY <3>1, <3>2 DEF SoundSoFar, Wished
    <3> QED
      BY <1>1, <3>1, <3>2, <3>3 DEF ClientInv
  <2>2. CASE ~(s.pc = "entries" /\ File(c) = Target(i))
    <3>1. grub'[c] = s
      BY <1>2, <2>2 DEF OpenFile
    <3>2. s.pc = "entries" => files'[File(c)] = files[File(c)]
      BY <1>1, <1>2, <2>2, ContentType DEF OpenFile, TypeOK
    <3> QED
      BY <1>1, <3>1, <3>2, ClientFrame
  <2> QED
    BY <2>1, <2>2
<1>3. CASE WriteFile(i)
  <2>1. files[Target(i)].state = "torn"
    BY <1>3 DEF WriteFile, MenuInv, WriteInv, WrittenSoFar
  <2>2. s.pc = "entries" /\ s.at # 0 => File(c) # Target(i)
    BY <1>1, <2>1 DEF ClientInv, Content
  <2>3. s.pc = "entries" /\ s.at # 0 => files'[File(c)] = files[File(c)]
    BY <1>1, <1>3, <2>2, ContentType DEF WriteFile, TypeOK
  <2>4. grub'[c] = s
    BY <1>3 DEF WriteFile
  <2> QED
    BY <1>1, <2>3, <2>4, ClientFrame
<1>4. CASE UNCHANGED <<files, grub>>
  BY <1>1, <1>4, ClientFrame
<1> QED
  BY <1>2, <1>3, <1>4 DEF Generate, AddEntry, NextIso, MakeDir,
     SkipReservation, Finish

LEMMA BootStep ==
    ASSUME MenuInv, MenuInv', BootInv, [Next]_vars
    PROVE  BootInv'
<1> DEFINE FilesSound == \A x \in Subjects : Sound(files[x])
           ClientsSound == \A c \in Clients : ClientInv(c)
<1>1. FilesSound'
  <2>1. ASSUME NEW i \in Interfaces, OpenFile(i)
        PROVE  FilesSound'
    BY <2>1, NoContentSound DEF OpenFile, BootInv, MenuInv, TypeOK
  <2>2. ASSUME NEW i \in Interfaces, WriteFile(i)
        PROVE  FilesSound'
    <3>1. Sound(Rendered(i, Target(i)))
      BY RenderedSound DEF MenuInv, ListInv
    <3>2. \A x \in Subjects : files'[x] = files[x]
                                \/ files'[x] = Rendered(i, Target(i))
      BY <2>2 DEF WriteFile, MenuInv, TypeOK
    <3> QED
      BY <3>1, <3>2 DEF BootInv
  <2>3. CASE UNCHANGED files
    BY <2>3 DEF BootInv
  <2> QED
    BY <2>1, <2>2, <2>3 DEF Next, Start, Generate, AddEntry, NextIso, MakeDir,
       SkipReservation, Finish, FailWrite, Kill, Fail, PowerOn, Boot, Read,
       Timeout, ClientStep, vars
<1>2. ClientsSound'
  <2>1. ASSUME NEW c \in Clients, PowerOn(c) \/ Boot(c), NEW d \in Clients
        PROVE  ClientInv(d)'
    <3>1. TypeOK /\ ClientInv(c) /\ ClientInv(d) /\ files' = files
      BY <2>1 DEF MenuInv, BootInv, PowerOn, Boot, Read, Timeout, ClientStep
    <3>2. CASE PowerOn(c) /\ d = c
      <4> DEFINE g == [Off EXCEPT !.pc = "test", !.nest = 1]
      <4>1. g.pc # "entries" /\ g.menu.entries = <<>>
        BY DEF Off, Absent, Torn
      <4>2. grub'[c] = g
        BY <3>1, <3>2 DEF PowerOn, Set, TypeOK
      <4> HIDE DEF g
      <4> QED
        BY <3>2, <4>1, <4>2, ClientMoves, NothingIsSound
    <3>3. CASE Timeout(c) /\ d = c
      <4> DEFINE g == [grub[c] EXCEPT !.pc = "chosen"]
      <4>1. Enter(c, 0) \/ Set(c, g)
        BY <3>3 DEF Timeout
      <4>2. /\ g.pc = "chosen" /\ g.mixed = grub[c].mixed
            /\ g.menu = grub[c].menu
        BY <3>1 DEF TypeOK, BootState
      <4>3. Set(c, g) => grub'[c] = g
        BY <3>1 DEF Set, TypeOK
      <4>4. grub[c].mixed \/ SoundSoFar(grub[c].menu)
        BY <3>1 DEF ClientInv
      <4> HIDE DEF g
      <4> QED
        BY <3>1, <3>3, <4>1, <4>2, <4>3, <4>4, EnterMoves, ClientMoves
    <3>4. CASE d # c
      <4>1. grub'[d] = grub[d]
        <5>1. \E g : Set(c, g)
          BY <2>1, <3>1, BootType
        <5> QED
          BY <3>1, <3>4, <5>1 DEF Set, TypeOK
      <4> QED
        BY <3>1, <4>1, ClientFrame
    <3> QED
      BY <2>1, <3>1, <3>2, <3>3, <3>4, ReadStep DEF Boot
  <2>2. ASSUME UNCHANGED <<files, grub>> PROVE ClientsSound'
    BY <2>2, ClientFrame DEF BootInv
  <2>3. ASSUME NEW i \in Interfaces, Generate(i) PROVE ClientsSound'
    BY <2>3, TaskStep
  <2> QED
    BY <2>1, <2>2, <2>3 DEF Next, Start, FailWrite, Kill, Fail, vars
<1> QED
  BY <1>1, <1>2 DEF BootInv

(* Of a menu that came from one version of its file, cut or whole, the     *)
(* entry that a client boots after the timeout is the one its configured   *)
(* default names, for any menus, CPUs and timing of writes and downloads,  *)
(* where no entry up to it is hidden from that client (lib.rs:496,         *)
(* 621-640, grub/menu.rs:124-151, 182-193).                                *)
THEOREM DefaultIsBooted == Spec => []HonoursWish
<1>1. Init => BootInv
  <2> SUFFICES ASSUME Init PROVE BootInv
    OBVIOUS
  <2>1. \A c \in Clients : grub[c].pc = "off" /\ grub[c].menu.entries = <<>>
    BY DEF Init, Off, Absent, Torn
  <2>2. \A c \in Clients : ClientInv(c)
    BY <2>1, NothingIsSound DEF ClientInv
  <2>3. \A x \in Subjects : Sound(files[x])
    BY NoContentSound DEF Init
  <2> QED
    BY <2>2, <2>3 DEF BootInv
<1>2. MenuInv /\ BootInv => HonoursWish
  <2> SUFFICES ASSUME MenuInv, BootInv, NEW c \in Clients,
                      ~grub[c].mixed, Wished(grub[c].menu)
               PROVE  LET menu == grub[c].menu IN
                      /\ menu.default # None
                      /\ (\A n \in 1..(menu.default + 1) :
                            Visible(c, menu.entries[n])) =>
                           /\ Chosen(c, menu) # {}
                           /\ \A e \in Chosen(c, menu) : Answers(e, menu.wish)
    BY DEF HonoursWish
  <2> DEFINE menu == grub[c].menu
  <2>1. menu \in MenuContent /\ SoundSoFar(menu)
    BY DEF MenuInv, TypeOK, BootState, BootInv, ClientInv
  <2> HIDE DEF menu
  <2>2. PICK n \in DOMAIN menu.entries :
          menu.default = n - 1 /\ Answers(menu.entries[n], menu.wish)
    BY <2>1, DefaultAnswers DEF menu
  <2>3. n \in Nat \ {0} /\ n - 1 \in Nat /\ (n - 1) + 1 = n
    BY <2>1 DEF MenuContent
  <2>4. menu.default # None /\ menu.default + 1 = n
    BY <2>2, <2>3, ConfigAssumption
  <2>5. ASSUME \A k \in 1..n : Visible(c, menu.entries[k])
        PROVE  Chosen(c, menu) = {menu.entries[n]}
    <3>1. /\ n - 1 < Reload(c, menu)
          /\ \A k \in Shown(c, menu) : Counted(c, menu, k) = n - 1 <=> k = n
          /\ n \in Shown(c, menu)
      BY <2>1, <2>5, CountedAsWritten
    <3>2. Number(c, menu) = n - 1
      BY <2>2, <3>1 DEF Number
    <3>3. {k \in Shown(c, menu) : Counted(c, menu, k) = Number(c, menu)} = {n}
      BY <3>1, <3>2
    <3> QED
      BY <3>3 DEF Chosen
  <2> QED
    BY <2>2, <2>4, <2>5 DEF menu
<1> QED
  BY <1>1, <1>2, BootStep, Invariant, PTL DEF Spec

=============================================================================
