--------------------------- MODULE LeaseZoneProofs --------------------------
(***************************************************************************)
(* Proofs about LeaseZone, for any number of hooks, addresses, clients,    *)
(* lease events and killed scripts.                                        *)
(***************************************************************************)
EXTENDS LeaseZone, TLAPS

(* The variables of which BackedInv speaks. *)
LeaseInv == TypeOK /\ BackedInv

---------------------------------------------------------------------------
(* Types. *)

(* A hook's new state takes its place among the others'.                   *)
LEMMA BecomeType ==
    ASSUME hook \in [Hooks -> HookState], NEW h \in Hooks,
           NEW s \in HookState, Become(h, s)
    PROVE  /\ hook' \in [Hooks -> HookState]
           /\ hook'[h] = s
           /\ \A k \in Hooks \ {h} : hook'[k] = hook[k]
  BY DEF Become

LEMMA IdleType == Idle \in HookState
  BY DEF Idle, HookState

(* The counters stay within their bounds. *)
LEMMA CounterType ==
    /\ events < MaxEvents /\ events \in 0..MaxEvents
         => events + 1 \in 0..MaxEvents
    /\ kills < MaxKills /\ kills \in 0..MaxKills
         => kills + 1 \in 0..MaxKills
  BY BoundsAssumption

(* Who is published has a name, and had the address.                       *)
LEMMA PublishableName ==
    ASSUME NEW op \in Op, IsPublish(op), NEW holders,
           <<op.client, op.addr>> \in holders
    PROVE  /\ op.client \in Clients /\ op.client.name \in Names
           /\ Entitled(op.client, op.addr, holders)
  <1>1. op.client \in Clients
    BY DEF IsPublish, Op
  <1>2. Publishable(op.client)
    BY DEF IsPublish
  <1> QED BY <1>1, <1>2 DEF Publishable, Names, Entitled

---------------------------------------------------------------------------
(* Lemmas about the invariant. *)

(* Nobody loses the records he is entitled to. *)
LEMMA EntitledGrows ==
    ASSUME NEW was, NEW now, was \subseteq now
    PROVE  \A c, a : Entitled(c, a, was) => Entitled(c, a, now)
  BY DEF Entitled

LEMMA BackedGrows ==
    ASSUME NEW record, NEW was, NEW now, was \subseteq now,
           Backed(record, was)
    PROVE  Backed(record, now)
  BY EntitledGrows DEF Backed

(* What a fact file reads as, torn or not, is backed.                      *)
LEMMA LinesBacked ==
    ASSUME LeaseInv, NEW a \in Addrs, facts[a] # Absent
    PROVE  /\ Lines(facts[a]) \subseteq LineNames
           /\ \A n \in Lines(facts[a]) : Backed(<<n, a>>, held)
  <1> DEFINE content == facts[a]
             Shorter(n) == {m \in content : Length[m] < Length[n]}
  <1>1. /\ content \subseteq Names
        /\ \A n \in content :
             \E c \in Clients : Entitled(c, a, held) /\ c.name = n
    BY DEF LeaseInv, TypeOK, BackedInv
  <1>2. ASSUME NEW n \in Lines(content)
        PROVE  \/ n \in content
               \/ \E v \in content \X content :
                    n = Piece[v] /\ v[2] \in Shorter(v[1])
    BY <1>2 DEF Lines
  <1> HIDE DEF content
  <1>3. ASSUME NEW n \in content
        PROVE  n \in LineNames /\ Backed(<<n, a>>, held)
    BY <1>1, <1>3 DEF LineNames, Backed
  <1>4. ASSUME NEW v \in content \X content, v[2] \in Shorter(v[1])
        PROVE  Piece[v] \in LineNames /\ Backed(<<Piece[v], a>>, held)
    <2>1. PICK c \in Clients : Entitled(c, a, held) /\ c.name = v[1]
      BY <1>1
    <2>2. PICK d \in Clients : Entitled(d, a, held) /\ d.name = v[2]
      BY <1>1
    <2>3. v = <<c.name, d.name>> /\ Length[d.name] < Length[c.name]
      BY <1>4, <2>1, <2>2
    <2>4. v \in Names \X Names
      BY <1>1
    <2> QED BY <2>1, <2>2, <2>3, <2>4 DEF LineNames, Backed
  <1>5. \A n \in Lines(content) : n \in LineNames /\ Backed(<<n, a>>, held)
    BY <1>2, <1>3, <1>4
  <1> QED BY <1>5 DEF content

LEMMA HookOKGrows ==
    ASSUME NEW s, NEW was, NEW now, was \subseteq now, HookOK(s, was)
    PROVE  HookOK(s, now)
  BY BackedGrows DEF HookOK

LEMMA IdleOK == ASSUME NEW holders PROVE HookOK(Idle, holders)
  BY DEF Idle, HookOK

(* A step of one hook keeps the invariant where it leaves that hook and    *)
(* the facts right, and adds nothing to a zone but the hook's records.     *)
LEMMA HookChange ==
    ASSUME LeaseInv, NEW h \in Hooks, NEW s \in HookState, Become(h, s),
           held' = held, HookOK(s, held),
           \A a \in Addrs : facts'[a] = Absent => writers'[a] = {},
           \A a \in Addrs : facts'[a] # Absent => \A n \in facts'[a] :
               \E c \in Clients : Entitled(c, a, held) /\ c.name = n,
           zone' = zone \/ zone' = hook[h].records,
           UNCHANGED <<copy, shared, served>>
    PROVE  BackedInv' /\ hook' \in [Hooks -> HookState]
  <1>1. /\ hook' \in [Hooks -> HookState]
        /\ hook'[h] = s
        /\ \A k \in Hooks \ {h} : hook'[k] = hook[k]
    BY BecomeType DEF LeaseInv, TypeOK
  <1>2. \A k \in Hooks : HookOK(hook'[k], held')
    BY <1>1 DEF LeaseInv, BackedInv
  <1>3. RecordsBacked'
    BY DEF LeaseInv, BackedInv, RecordsBacked, HookOK
  <1> QED BY <1>1, <1>2, <1>3 DEF BackedInv

---------------------------------------------------------------------------
(* The actions. *)

LEMMA LeaseInit == Init => LeaseInv
  <1> SUFFICES ASSUME Init PROVE LeaseInv
    OBVIOUS
  <1>1. hook \in [Hooks -> HookState] /\ \A h \in Hooks : hook[h] = Idle
    BY IdleType DEF Init
  <1>2. TypeOK
    <2>1. events \in 0..MaxEvents /\ kills \in 0..MaxKills
      BY BoundsAssumption DEF Init
    <2> QED BY <1>1, <2>1 DEF Init, TypeOK
  <1>3. BackedInv
    <2>1. \A a \in Addrs : facts[a] = Absent /\ writers[a] = {}
      BY DEF Init
    <2>2. RecordsBacked
      BY DEF Init, RecordsBacked
    <2> QED BY <1>1, <2>1, <2>2, IdleOK DEF BackedInv
  <1> QED BY <1>2, <1>3 DEF LeaseInv

(* Kea starts a hook for a lease that is now held.                         *)
LEMMA SpawnKeeps ==
    ASSUME LeaseInv, NEW h \in Hooks, NEW ops \in Seq(Op), Spawn(h, ops),
           leases' \in [Addrs -> Clients \cup {Nobody}],
           held \subseteq held', held' \subseteq Clients \X Addrs,
           ops # <<>>,
           \A i \in 1..Len(ops) : ops[i].client # Nobody =>
                <<ops[i].client, ops[i].addr>> \in held'
    PROVE  LeaseInv'
  <1> DEFINE s == [Idle EXCEPT !.pc = "clear", !.ops = ops]
  <1>1. s \in HookState /\ s.pc = "clear" /\ s.ops = ops /\ s.records = {}
    BY DEF Idle, HookState
  <1>2. Become(h, s)
    BY DEF Spawn
  <1> HIDE DEF s
  <1>3. HookOK(s, held')
    BY <1>1 DEF HookOK
  <1>4. /\ hook' \in [Hooks -> HookState] /\ hook'[h] = s
        /\ \A k \in Hooks \ {h} : hook'[k] = hook[k]
    BY <1>1, <1>2, BecomeType DEF LeaseInv, TypeOK
  <1>5. /\ UNCHANGED <<facts, writers, zone, pending, svc, copy, shared,
                       served, missed, kills>>
        /\ events' \in 0..MaxEvents /\ alone' \subseteq Hooks
        /\ serial' \in BOOLEAN
    <2>1. UNCHANGED <<facts, writers, zone, pending, svc, copy, shared,
                      served, missed, kills>>
      BY DEF Spawn, files, sync
    <2>2. events' \in 0..MaxEvents
      BY CounterType DEF Spawn, LeaseInv, TypeOK
    <2>3. alone' \subseteq Hooks /\ serial' \in BOOLEAN
      BY DEF Spawn
    <2> QED BY <2>1, <2>2, <2>3
  <1>6. TypeOK'
    BY <1>4, <1>5 DEF LeaseInv, TypeOK
  <1>7. RecordsBacked'
    BY <1>5, BackedGrows DEF LeaseInv, BackedInv, RecordsBacked
  <1>8. \A k \in Hooks : HookOK(hook'[k], held')
    BY <1>3, <1>4, HookOKGrows DEF LeaseInv, BackedInv
  <1>9. \A a \in Addrs : facts'[a] # Absent => \A n \in facts'[a] :
            \E c \in Clients : Entitled(c, a, held') /\ c.name = n
    BY <1>5, EntitledGrows DEF LeaseInv, BackedInv
  <1>10. \A a \in Addrs : facts'[a] = Absent => writers'[a] = {}
    BY <1>5 DEF LeaseInv, BackedInv
  <1> QED BY <1>6, <1>7, <1>8, <1>9, <1>10 DEF LeaseInv, BackedInv

LEMMA KeaKeeps ==
    ASSUME LeaseInv, KeaEvent
    PROVE  LeaseInv'
  <1>1. PICK h \in Hooks, a \in Addrs :
            Ended(h, a) \/ \E c \in Clients : Committed(h, a, c)
    BY DEF KeaEvent
  <1>2. CASE Ended(h, a)
    <2> DEFINE ops == <<Remove(a)>>
    <2>1. ops \in Seq(Op) /\ Len(ops) = 1 /\ ops[1].client = Nobody
      BY DEF Remove, Op
    <2>2. /\ Spawn(h, ops) /\ held' = held
          /\ leases' \in [Addrs -> Clients \cup {Nobody}]
      BY <1>2 DEF Ended, LeaseInv, TypeOK
    <2>3. /\ held \subseteq held' /\ held' \subseteq Clients \X Addrs
      BY <2>2 DEF LeaseInv, TypeOK
    <2> HIDE DEF ops
    <2>4. /\ ops # <<>>
          /\ \A i \in 1..Len(ops) : ops[i].client # Nobody =>
               <<ops[i].client, ops[i].addr>> \in held'
      <3>1. ops # <<>>
        BY <2>1
      <3>2. ASSUME NEW i \in 1..Len(ops)
            PROVE  ops[i].client = Nobody
        <4>1. i = 1
          BY <2>1
        <4> QED BY <2>1, <4>1
      <3> QED BY <3>1, <3>2
    <2> QED BY <2>1, <2>2, <2>3, <2>4, SpawnKeeps
  <1>3. ASSUME NEW c \in Clients, Committed(h, a, c)
        PROVE  LeaseInv'
    <2>1. /\ held \subseteq held' /\ held' \subseteq Clients \X Addrs
          /\ <<c, a>> \in held'
      BY <1>3 DEF Committed, LeaseInv, TypeOK
    <2>2. CASE leases' = [leases EXCEPT ![a] = c]
               /\ Spawn(h, <<Publish(a, c)>>)
      <3> DEFINE ops == <<Publish(a, c)>>
      <3>1. /\ ops \in Seq(Op) /\ Len(ops) = 1
            /\ ops[1].client = c /\ ops[1].addr = a
        BY DEF Publish, Op
      <3>2. leases' \in [Addrs -> Clients \cup {Nobody}]
        BY <2>2 DEF LeaseInv, TypeOK
      <3>3. Spawn(h, ops)
        BY <2>2
      <3> HIDE DEF ops
      <3>4. /\ ops # <<>>
            /\ \A i \in 1..Len(ops) : ops[i].client # Nobody =>
                 <<ops[i].client, ops[i].addr>> \in held'
        BY <2>1, <3>1
      <3> QED BY <2>1, <3>1, <3>2, <3>3, <3>4, SpawnKeeps
    <2>3. ASSUME NEW b \in Addrs \ {a},
                 leases' = [leases EXCEPT ![a] = c, ![b] = Nobody],
                 Spawn(h, <<Publish(a, c), Remove(b)>>)
          PROVE  LeaseInv'
      <3> DEFINE ops == <<Publish(a, c), Remove(b)>>
      <3>1. /\ ops \in Seq(Op) /\ Len(ops) = 2
            /\ ops[1].client = c /\ ops[1].addr = a
            /\ ops[2].client = Nobody
        BY DEF Publish, Remove, Op
      <3>2. leases' \in [Addrs -> Clients \cup {Nobody}]
        BY <2>3 DEF LeaseInv, TypeOK
      <3>3. Spawn(h, ops)
        BY <2>3
      <3> HIDE DEF ops
      <3>4. /\ ops # <<>>
            /\ \A i \in 1..Len(ops) : ops[i].client # Nobody =>
                 <<ops[i].client, ops[i].addr>> \in held'
        BY <2>1, <3>1
      <3> QED BY <2>1, <3>1, <3>2, <3>3, <3>4, SpawnKeeps
    <2> QED BY <1>3, <2>2, <2>3 DEF Committed
  <1> QED BY <1>1, <1>2, <1>3

(* The next entry of ops is dealt with. *)
LEMMA NextOpState ==
    ASSUME NEW h \in Hooks, LeaseInv, hook[h].ops # <<>>, NextOp(h)
    PROVE  \E s \in HookState : Become(h, s) /\ HookOK(s, held)
  <1> DEFINE t == hook[h]
             rest == Tail(t.ops)
             label == IF rest = <<>> THEN "find" ELSE "clear"
             s == [t EXCEPT !.ops = rest, !.pc = label]
  <1>1. t \in HookState /\ HookOK(t, held)
    BY DEF LeaseInv, TypeOK, BackedInv
  <1>2. t.ops \in Seq(Op) /\ t.ops # <<>>
    BY <1>1 DEF HookState
  <1>3. /\ rest \in Seq(Op) /\ Len(rest) = Len(t.ops) - 1
        /\ Len(t.ops) \in Nat
        /\ \A i \in 1..Len(rest) : rest[i] = t.ops[i + 1]
    BY <1>2
  <1>4. \A i \in 1..Len(rest) : i + 1 \in 1..Len(t.ops)
    BY <1>3
  <1>5. Become(h, s)
    BY DEF NextOp
  <1> HIDE DEF rest
  <1>6. /\ s \in HookState /\ s.ops = rest /\ s.pc = label
        /\ s.records = t.records
    BY <1>1, <1>3 DEF HookState
  <1> HIDE DEF s, t
  <1>7. HookOK(s, held)
    BY <1>1, <1>3, <1>4, <1>6 DEF HookOK
  <1> QED BY <1>5, <1>6, <1>7

(* A hook goes on with the same data, not to write a fact.                 *)
LEMMA GotoState ==
    ASSUME LeaseInv, NEW h \in Hooks,
           NEW label \in {"idle", "find", "cat", "cmp", "mv"},
           Goto(h, label)
    PROVE  \E s \in HookState : Become(h, s) /\ HookOK(s, held)
  <1> DEFINE t == hook[h]
             s == [t EXCEPT !.pc = label]
  <1>1. t \in HookState /\ HookOK(t, held)
    BY DEF LeaseInv, TypeOK, BackedInv
  <1>2. Become(h, s)
    BY DEF Goto
  <1> HIDE DEF t
  <1>3. /\ s \in HookState /\ s.pc = label
        /\ s.ops = t.ops /\ s.records = t.records
    BY <1>1 DEF HookState
  <1> HIDE DEF s
  <1>4. HookOK(s, held)
    BY <1>1, <1>3 DEF HookOK
  <1> QED BY <1>2, <1>3, <1>4

(* ... or to write one that may be written.                                *)
LEMMA GotoFactState ==
    ASSUME LeaseInv, NEW h \in Hooks, NEW label \in {"open", "echo"},
           Goto(h, label), hook[h].ops # <<>>, IsPublish(Current(h))
    PROVE  \E s \in HookState : Become(h, s) /\ HookOK(s, held)
  <1> DEFINE t == hook[h]
             s == [t EXCEPT !.pc = label]
  <1>1. /\ t \in HookState /\ HookOK(t, held)
        /\ t.ops # <<>> /\ IsPublish(Head(t.ops))
    BY DEF LeaseInv, TypeOK, BackedInv, Current
  <1>2. Become(h, s)
    BY DEF Goto
  <1> HIDE DEF t
  <1>3. /\ s \in HookState /\ s.pc = label
        /\ s.ops = t.ops /\ s.records = t.records
    BY <1>1 DEF HookState
  <1> HIDE DEF s
  <1>4. HookOK(s, held)
    BY <1>1, <1>3 DEF HookOK
  <1> QED BY <1>2, <1>3, <1>4

(* What a hook that changes facts has in hand. *)
LEMMA CurrentOp ==
    ASSUME LeaseInv, NEW h \in Hooks,
           hook[h].pc \in {"clear", "open", "echo"}
    PROVE  /\ hook[h].ops # <<>>
           /\ Current(h) \in Op
           /\ Current(h).client # Nobody =>
                <<Current(h).client, Current(h).addr>> \in held
           /\ hook[h].pc \in {"open", "echo"} => IsPublish(Current(h))
  <1> DEFINE t == hook[h]
  <1>1. t \in HookState /\ HookOK(t, held)
    BY DEF LeaseInv, TypeOK, BackedInv
  <1>2. t.ops \in Seq(Op) /\ t.ops # <<>>
    BY <1>1 DEF HookState, HookOK
  <1>3. Head(t.ops) \in Op /\ 1 \in 1..Len(t.ops) /\ Head(t.ops) = t.ops[1]
    BY <1>2
  <1> QED BY <1>1, <1>2, <1>3 DEF HookOK, Current

LEMMA ClearFactKeeps ==
    ASSUME LeaseInv, NEW h \in Hooks, ClearFact(h)
    PROVE  LeaseInv'
  <1>1. /\ hook[h].ops # <<>> /\ Current(h) \in Op
        /\ Current(h).addr \in Addrs
    BY CurrentOp DEF ClearFact, At, Op
  <1>2. \E s \in HookState : Become(h, s) /\ HookOK(s, held)
    BY <1>1, GotoFactState, NextOpState DEF ClearFact
  <1>3. \A a \in Addrs : \/ facts'[a] = facts[a] /\ writers'[a] = writers[a]
                         \/ facts'[a] = Absent /\ writers'[a] = {}
    BY <1>1 DEF ClearFact, LeaseInv, TypeOK
  <1>5. /\ facts' \in [Addrs -> {Absent} \cup SUBSET Names]
        /\ writers' \in [Addrs -> SUBSET Hooks]
        /\ UNCHANGED <<leases, zone, pending, svc, copy, shared, served,
                       missed, events, kills, held, alone, serial>>
    BY DEF ClearFact, LeaseInv, TypeOK, sync, history
  <1>6. BackedInv' /\ hook' \in [Hooks -> HookState]
    <2>1. \A a \in Addrs : facts'[a] = Absent => writers'[a] = {}
      BY <1>3 DEF LeaseInv, BackedInv
    <2>2. \A a \in Addrs : facts'[a] # Absent => \A n \in facts'[a] :
              \E c \in Clients : Entitled(c, a, held) /\ c.name = n
      BY <1>3 DEF LeaseInv, BackedInv
    <2> QED BY <1>2, <1>5, <2>1, <2>2, HookChange
  <1> QED BY <1>5, <1>6 DEF LeaseInv, TypeOK

LEMMA OpenFactKeeps ==
    ASSUME LeaseInv, NEW h \in Hooks, OpenFact(h)
    PROVE  LeaseInv'
  <1>1. /\ hook[h].ops # <<>> /\ Current(h) \in Op
        /\ Current(h).addr \in Addrs /\ IsPublish(Current(h))
    BY CurrentOp DEF OpenFact, At, Op
  <1>2. \E s \in HookState : Become(h, s) /\ HookOK(s, held)
    <2>1. Goto(h, "echo") /\ "echo" \in {"open", "echo"}
      BY DEF OpenFact
    <2> QED BY <1>1, <2>1, GotoFactState
  <1>3. \A a \in Addrs : \/ facts'[a] = facts[a] /\ writers'[a] = writers[a]
                         \/ facts'[a] = {}
    <2> DEFINE at == Current(h).addr
    <2>1. /\ facts' = [facts EXCEPT ![at] = {}]
          /\ writers' = [writers EXCEPT ![at] = @ \cup {h}]
      BY DEF OpenFact
    <2> HIDE DEF at
    <2> QED BY <2>1 DEF LeaseInv, TypeOK
  <1>4. {} # Absent
    BY ClientsAssumption
  <1>5. /\ facts' \in [Addrs -> {Absent} \cup SUBSET Names]
        /\ writers' \in [Addrs -> SUBSET Hooks]
        /\ UNCHANGED <<leases, zone, pending, svc, copy, shared, served,
                       missed, events, kills, held, alone, serial>>
    BY DEF OpenFact, LeaseInv, TypeOK, sync, history
  <1>6. BackedInv' /\ hook' \in [Hooks -> HookState]
    <2>1. \A a \in Addrs : facts'[a] = Absent => writers'[a] = {}
      BY <1>3, <1>4 DEF LeaseInv, BackedInv
    <2>2. \A a \in Addrs : facts'[a] # Absent => \A n \in facts'[a] :
              \E c \in Clients : Entitled(c, a, held) /\ c.name = n
      BY <1>3 DEF LeaseInv, BackedInv
    <2> QED BY <1>2, <1>5, <2>1, <2>2, HookChange
  <1> QED BY <1>5, <1>6 DEF LeaseInv, TypeOK

LEMMA EchoFactKeeps ==
    ASSUME LeaseInv, NEW h \in Hooks, EchoFact(h)
    PROVE  LeaseInv'
  <1> DEFINE op == Current(h)
  <1>1. /\ hook[h].ops # <<>> /\ op \in Op /\ op.addr \in Addrs
        /\ IsPublish(op)
        /\ op.client # Nobody => <<op.client, op.addr>> \in held
    BY CurrentOp DEF EchoFact, At, Op
  <1>2. \E s \in HookState : Become(h, s) /\ HookOK(s, held)
    BY <1>1, NextOpState DEF EchoFact
  <1>3. /\ writers' = [writers EXCEPT ![op.addr] = @ \ {h}]
        /\ writers' \in [Addrs -> SUBSET Hooks]
        /\ UNCHANGED <<leases, zone, pending, svc, copy, shared, served,
                       missed, events, kills, held, alone, serial>>
    BY DEF EchoFact, LeaseInv, TypeOK, sync, history
  <1>4. \/ facts' = facts
        \/ /\ h \in writers[op.addr]
           /\ facts' = [facts EXCEPT
                          ![op.addr] = WrittenOver(@, op.client.name)]
    BY DEF EchoFact
  <1> HIDE DEF op
  <1>5. /\ op.client \in Clients /\ op.client.name \in Names
        /\ Entitled(op.client, op.addr, held)
    <2>1. op.client # Nobody
      BY <1>1 DEF IsPublish
    <2> QED BY <1>1, <2>1, PublishableName
  <1>6. ASSUME NEW a \in Addrs
        PROVE  /\ facts'[a] \in {Absent} \cup SUBSET Names
               /\ facts'[a] = Absent => writers'[a] = {}
               /\ facts'[a] # Absent => \A n \in facts'[a] :
                    \E c \in Clients : Entitled(c, a, held) /\ c.name = n
    <2> DEFINE over == WrittenOver(facts[op.addr], op.client.name)
    <2>1. /\ facts \in [Addrs -> {Absent} \cup SUBSET Names]
          /\ writers \in [Addrs -> SUBSET Hooks]
          /\ writers'[a] \subseteq writers[a]
          /\ facts[a] = Absent => writers[a] = {}
          /\ facts[a] # Absent => \A n \in facts[a] :
               \E c \in Clients : Entitled(c, a, held) /\ c.name = n
      BY <1>3 DEF LeaseInv, TypeOK, BackedInv
    <2>2. CASE facts'[a] = facts[a]
      BY <2>1, <2>2
    <2>3. CASE facts'[a] # facts[a]
      <3>1. /\ a = op.addr /\ h \in writers[a] /\ facts'[a] = over
            /\ facts[a] # Absent
        BY <1>4, <2>1, <2>3
      <3>2. over \subseteq facts[a] \cup {op.client.name}
        BY <3>1 DEF WrittenOver
      <3>3. over \in SUBSET Names /\ over # Absent
        BY <1>5, <2>1, <3>1, <3>2, ClientsAssumption
      <3> HIDE DEF over
      <3> QED BY <1>5, <2>1, <3>1, <3>2, <3>3
    <2> QED BY <2>2, <2>3
  <1>7. facts' \in [Addrs -> {Absent} \cup SUBSET Names]
    <2>1. facts' = [a \in Addrs |-> facts'[a]]
      BY <1>4 DEF LeaseInv, TypeOK
    <2> QED BY <1>6, <2>1
  <1>8. BackedInv' /\ hook' \in [Hooks -> HookState]
    BY <1>2, <1>3, <1>6, HookChange
  <1> QED BY <1>3, <1>7, <1>8 DEF LeaseInv, TypeOK

(* find and cat read facts that are backed. *)
LEMMA ReadFactsKeeps ==
    ASSUME LeaseInv, NEW h \in Hooks,
           FindFacts(h) \/ CatDone(h) \/ \E a \in Addrs : CatFact(h, a)
    PROVE  LeaseInv'
  <1> DEFINE t == hook[h]
  <1>1. t \in HookState /\ HookOK(t, held)
    BY DEF LeaseInv, TypeOK, BackedInv
  <1>2. UNCHANGED <<leases, facts, writers, zone, pending, svc, copy, shared,
                    served, missed, events, kills, held, alone, serial>>
    BY DEF FindFacts, CatDone, CatFact, files, sync, history
  <1>3. ASSUME FindFacts(h)
        PROVE  \E s \in HookState : Become(h, s) /\ HookOK(s, held)
    <2> DEFINE s == [t EXCEPT !.pc = "cat",
                              !.names = {a \in Addrs : facts[a] # Absent}]
    <2>1. Become(h, s)
      BY <1>3 DEF FindFacts
    <2> HIDE DEF t
    <2>2. /\ s \in HookState /\ s.pc = "cat"
          /\ s.ops = t.ops /\ s.records = t.records
      BY <1>1 DEF HookState
    <2> HIDE DEF s
    <2>3. HookOK(s, held)
      BY <1>1, <2>2 DEF HookOK
    <2> QED BY <2>1, <2>2, <2>3
  <1>4. ASSUME CatDone(h)
        PROVE  \E s \in HookState : Become(h, s) /\ HookOK(s, held)
    BY <1>4, GotoState DEF CatDone
  <1>5. ASSUME NEW a \in Addrs, CatFact(h, a)
        PROVE  \E s \in HookState : Become(h, s) /\ HookOK(s, held)
    <2> DEFINE more == t.records \cup (Lines(facts[a]) \X {a})
               s == [t EXCEPT !.names = @ \ {a}, !.records = more]
    <2>1. Become(h, s) /\ facts[a] # Absent /\ t.pc = "cat"
      BY <1>5 DEF CatFact, At
    <2>2. /\ more \subseteq Records
          /\ \A r \in more : Backed(r, held)
      <3>1. /\ Lines(facts[a]) \subseteq LineNames
            /\ \A n \in Lines(facts[a]) : Backed(<<n, a>>, held)
        BY <2>1, LinesBacked
      <3>2. t.records \subseteq Records /\ \A r \in t.records : Backed(r, held)
        BY <1>1 DEF HookState, HookOK
      <3> QED BY <3>1, <3>2 DEF Records
    <2> HIDE DEF t, more
    <2>3. /\ s \in HookState /\ s.pc = t.pc
          /\ s.ops = t.ops /\ s.records = more
      BY <1>1, <2>2 DEF HookState
    <2> HIDE DEF s
    <2>4. HookOK(s, held)
      BY <1>1, <2>1, <2>2, <2>3 DEF HookOK
    <2> QED BY <2>1, <2>3, <2>4
  <1>6. \E s \in HookState : Become(h, s) /\ HookOK(s, held)
    BY <1>3, <1>4, <1>5
  <1>7. BackedInv' /\ hook' \in [Hooks -> HookState]
    BY <1>2, <1>6, HookChange DEF LeaseInv, BackedInv
  <1> QED BY <1>2, <1>7 DEF LeaseInv, TypeOK

(* A script ends, perhaps after it replaced the zone file. *)
LEMMA ExitKeeps ==
    ASSUME LeaseInv, NEW h \in Hooks, NEW finished \in BOOLEAN,
           Exit(h, finished),
           zone' = zone \/ zone' = hook[h].records, pending' \in BOOLEAN,
           kills' \in 0..MaxKills,
           UNCHANGED <<leases, facts, svc, copy, shared, served, missed,
                       events>>
    PROVE  LeaseInv'
  <1>1. /\ Become(h, Idle) /\ held' = held
        /\ writers' \in [Addrs -> SUBSET Hooks]
        /\ alone' \subseteq Hooks
    BY DEF Exit, LeaseInv, TypeOK
  <1>2. serial' \in BOOLEAN
    BY DEF Exit
  <1>3. BackedInv' /\ hook' \in [Hooks -> HookState]
    <2>1. \A a \in Addrs : writers'[a] = writers[a] \ {h}
      BY DEF Exit
    <2>2. \A a \in Addrs : facts'[a] = Absent => writers'[a] = {}
      BY <2>1 DEF LeaseInv, BackedInv
    <2>3. \A a \in Addrs : facts'[a] # Absent => \A n \in facts'[a] :
              \E c \in Clients : Entitled(c, a, held) /\ c.name = n
      BY DEF LeaseInv, BackedInv
    <2> QED BY <1>1, <2>2, <2>3, IdleType, IdleOK, HookChange
  <1>4. hook[h].records \subseteq Records
    BY DEF LeaseInv, TypeOK, HookState
  <1> QED BY <1>1, <1>2, <1>3, <1>4 DEF LeaseInv, TypeOK

LEMMA EndOfHookKeeps ==
    ASSUME LeaseInv, NEW h \in Hooks,
           \/ Compare(h) \/ MoveZone(h) \/ KillHook(h)
           \/ \E a \in Addrs : CatFails(h, a)
    PROVE  LeaseInv'
  <1>1. kills' \in 0..MaxKills
    BY CounterType DEF LeaseInv, TypeOK, Kill, Compare, MoveZone, KillHook,
                       CatFails
  <1>2. pending \in BOOLEAN
    BY DEF LeaseInv, TypeOK
  <1>3. CASE Compare(h)
    <2>1. UNCHANGED <<leases, facts, zone, pending, svc, copy, shared, served,
                      missed, events, kills>>
      BY <1>3 DEF Compare, sync
    <2>2. CASE hook[h].records = zone
      BY <1>1, <1>2, <1>3, <2>1, <2>2, ExitKeeps DEF Compare
    <2>3. CASE hook[h].records # zone
      <3>1. Goto(h, "mv") /\ UNCHANGED <<writers, held, alone, serial>>
        BY <1>3, <2>3 DEF Compare, history
      <3>2. \E s \in HookState : Become(h, s) /\ HookOK(s, held)
        BY <3>1, GotoState
      <3>3. BackedInv' /\ hook' \in [Hooks -> HookState]
        BY <2>1, <3>1, <3>2, HookChange DEF LeaseInv, BackedInv
      <3> QED BY <2>1, <3>1, <3>3 DEF LeaseInv, TypeOK
    <2> QED BY <2>2, <2>3
  <1>4. CASE MoveZone(h)
    BY <1>1, <1>4, ExitKeeps DEF MoveZone
  <1>5. CASE KillHook(h)
    BY <1>1, <1>2, <1>5, ExitKeeps DEF KillHook, sync
  <1>6. CASE \E a \in Addrs : CatFails(h, a)
    BY <1>1, <1>2, <1>6, ExitKeeps DEF CatFails, sync
  <1> QED BY <1>3, <1>4, <1>5, <1>6

(* The sync only copies what is backed. *)
LEMMA SyncKeeps ==
    ASSUME LeaseInv, SyncStep \/ KillSync
    PROVE  LeaseInv'
  <1>1. UNCHANGED <<leases, facts, writers, zone, hook, events, held, alone,
                    serial>>
    BY DEF SyncStep, KillSync, PathTriggers, SyncCat, SyncMove, SyncReload,
           files, history
  <1>2. /\ copy' \in {copy, zone, {}} /\ shared' \in {shared, copy}
        /\ served' \in {served, shared}
        /\ svc' \in {"idle", "cat", "mv", "reload"}
        /\ pending' \in BOOLEAN /\ missed' \in BOOLEAN
    BY DEF SyncStep, KillSync, PathTriggers, SyncCat, SyncMove, SyncReload,
           LeaseInv, TypeOK
  <1>3. kills' \in 0..MaxKills
    BY CounterType DEF SyncStep, KillSync, PathTriggers, SyncCat, SyncMove,
           SyncReload, LeaseInv, TypeOK, Kill
  <1>4. TypeOK'
    BY <1>1, <1>2, <1>3 DEF LeaseInv, TypeOK
  <1>5. RecordsBacked'
    BY <1>1, <1>2 DEF LeaseInv, BackedInv, RecordsBacked
  <1> QED BY <1>1, <1>4, <1>5 DEF LeaseInv, BackedInv

LEMMA LeaseStep == LeaseInv /\ [Next]_vars => LeaseInv'
  <1> SUFFICES ASSUME LeaseInv, [Next]_vars PROVE LeaseInv'
    OBVIOUS
  <1>1. CASE KeaEvent
    BY <1>1, KeaKeeps
  <1>2. CASE SyncStep \/ KillSync
    BY <1>2, SyncKeeps
  <1>3. ASSUME NEW h \in Hooks, HookStep(h) \/ KillHook(h)
        PROVE  LeaseInv'
    BY <1>3, ClearFactKeeps, OpenFactKeeps, EchoFactKeeps, ReadFactsKeeps,
       EndOfHookKeeps DEF HookStep
  <1>4. CASE UNCHANGED vars
    BY <1>4 DEF vars, LeaseInv, TypeOK, BackedInv, RecordsBacked
  <1> QED BY <1>1, <1>2, <1>3, <1>4 DEF Next

LEMMA LeaseInvariant == Spec => []LeaseInv
  BY LeaseInit, LeaseStep, PTL DEF Spec

---------------------------------------------------------------------------

(* Every variable keeps its type. *)
THEOREM TypeCorrect == Spec => []TypeOK
  <1>1. LeaseInv => TypeOK
    BY DEF LeaseInv
  <1> QED BY <1>1, LeaseInvariant, PTL

(* Every record ever written to a zone, copied or served is the name of a  *)
(* client that had the address and was free to publish it (options.nix:    *)
(* 1068-1075), or what a shorter line of such a client left of it.         *)
THEOREM RecordsAreBacked == Spec => []RecordsBacked
  <1>1. LeaseInv => RecordsBacked
    BY DEF LeaseInv, BackedInv
  <1> QED BY <1>1, LeaseInvariant, PTL

(* The content of the zone file that a sync was started for, and no later  *)
(* change was missed, is on its way to unbound.                            *)
LEMMA SyncStepKeeps == SyncInv /\ [Next]_vars => SyncInv'
  <1> SUFFICES ASSUME SyncInv, [Next]_vars PROVE SyncInv'
    OBVIOUS
  <1> USE DEF SyncInv, sync
  <1>1. CASE KeaEvent
    <2>1. UNCHANGED <<zone, pending, svc, copy, shared, served, missed>>
      BY <1>1 DEF KeaEvent, Ended, Committed, Spawn
    <2> QED BY <2>1
  <1>2. CASE SyncStep
    BY <1>2 DEF SyncStep, PathTriggers, SyncCat, SyncMove, SyncReload
  <1>3. CASE KillSync
    BY <1>3 DEF KillSync
  <1>4. ASSUME NEW h \in Hooks, HookStep(h) \/ KillHook(h)
        PROVE  SyncInv'
    BY <1>4 DEF HookStep, KillHook, ClearFact, OpenFact, EchoFact, FindFacts,
       CatFact, CatFails, CatDone, Compare, MoveZone
  <1>5. CASE UNCHANGED vars
    BY <1>5 DEF vars
  <1> QED BY <1>1, <1>2, <1>3, <1>4, <1>5 DEF Next

(* Unbound answers from the current zone file once the sync is done,       *)
(* unless a change came while it was running.                              *)
THEOREM Synced == Spec => []SyncedUnlessMissed
  <1>1. Init => SyncInv
    BY DEF Init, SyncInv
  <1>2. SyncInv => SyncedUnlessMissed
    BY DEF SyncInv, SyncedUnlessMissed
  <1> QED BY <1>1, <1>2, SyncStepKeeps, PTL DEF Spec

---------------------------------------------------------------------------
(* A hook that nobody runs next to. *)

(* The fields that a step of a hook changes. *)
LEMMA GotoFields ==
    ASSUME LeaseInv, NEW h \in Hooks, NEW label, Goto(h, label)
    PROVE  /\ hook'[h].pc = label /\ hook'[h].ops = hook[h].ops
           /\ hook'[h].names = hook[h].names
           /\ hook'[h].records = hook[h].records
           /\ \A k \in Hooks \ {h} : hook'[k] = hook[k]
  <1> DEFINE t == hook[h]
             s == [t EXCEPT !.pc = label]
  <1>1. t \in HookState /\ hook \in [Hooks -> HookState]
    BY DEF LeaseInv, TypeOK
  <1>2. hook' = [hook EXCEPT ![h] = s]
    BY DEF Goto, Become
  <1> HIDE DEF t
  <1>3. /\ s.pc = label /\ s.ops = t.ops /\ s.names = t.names
        /\ s.records = t.records
    BY <1>1 DEF HookState
  <1> HIDE DEF s
  <1> QED BY <1>1, <1>2, <1>3 DEF t

LEMMA NextOpFields ==
    ASSUME LeaseInv, NEW h \in Hooks, hook[h].ops # <<>>, NextOp(h)
    PROVE  /\ hook'[h].pc = IF hook'[h].ops = <<>> THEN "find" ELSE "clear"
           /\ Len(hook[h].ops) \in Nat \ {0}
           /\ Len(hook'[h].ops) = Len(hook[h].ops) - 1
           /\ \A i \in 1..Len(hook'[h].ops) :
                /\ i + 1 \in 1..Len(hook[h].ops)
                /\ hook'[h].ops[i] = hook[h].ops[i + 1]
           /\ Current(h) = hook[h].ops[1]
           /\ hook'[h].names = hook[h].names
           /\ hook'[h].records = hook[h].records
           /\ \A k \in Hooks \ {h} : hook'[k] = hook[k]
  <1> DEFINE t == hook[h]
             rest == Tail(t.ops)
             label == IF rest = <<>> THEN "find" ELSE "clear"
             s == [t EXCEPT !.ops = rest, !.pc = label]
  <1>1. t \in HookState /\ hook \in [Hooks -> HookState]
    BY DEF LeaseInv, TypeOK
  <1>2. t.ops \in Seq(Op) /\ t.ops # <<>>
    BY <1>1 DEF HookState
  <1>3. /\ Len(rest) = Len(t.ops) - 1
        /\ Len(t.ops) \in Nat \ {0} /\ Head(t.ops) = t.ops[1]
        /\ \A i \in 1..Len(rest) : rest[i] = t.ops[i + 1]
    BY <1>2
  <1>4. \A i \in 1..Len(rest) : i + 1 \in 1..Len(t.ops)
    BY <1>3
  <1>5. hook' = [hook EXCEPT ![h] = s]
    BY DEF NextOp, Become
  <1> HIDE DEF rest, t
  <1>6. /\ s.pc = label /\ s.ops = rest /\ s.names = t.names
        /\ s.records = t.records
    BY <1>1 DEF HookState
  <1> HIDE DEF s
  <1>7. hook'[h] = s /\ \A k \in Hooks \ {h} : hook'[k] = hook[k]
    BY <1>1, <1>5
  <1> QED BY <1>3, <1>4, <1>6, <1>7 DEF t, Current

LEMMA FindFields ==
    ASSUME LeaseInv, NEW h \in Hooks, FindFacts(h)
    PROVE  /\ hook'[h].pc = "cat" /\ hook'[h].ops = hook[h].ops
           /\ hook'[h].names = {a \in Addrs : facts[a] # Absent}
           /\ hook'[h].records = hook[h].records
           /\ \A k \in Hooks \ {h} : hook'[k] = hook[k]
  <1> DEFINE t == hook[h]
             found == {a \in Addrs : facts[a] # Absent}
             s == [t EXCEPT !.pc = "cat", !.names = found]
  <1>1. t \in HookState /\ hook \in [Hooks -> HookState]
    BY DEF LeaseInv, TypeOK
  <1>2. hook' = [hook EXCEPT ![h] = s]
    BY DEF FindFacts, Become
  <1> HIDE DEF t, found
  <1>3. /\ s.pc = "cat" /\ s.ops = t.ops /\ s.names = found
        /\ s.records = t.records
    BY <1>1 DEF HookState
  <1> HIDE DEF s
  <1> QED BY <1>1, <1>2, <1>3 DEF t, found

LEMMA CatFields ==
    ASSUME LeaseInv, NEW h \in Hooks, NEW a \in Addrs, CatFact(h, a)
    PROVE  /\ hook'[h].pc = "cat" /\ hook'[h].ops = hook[h].ops
           /\ hook'[h].names = hook[h].names \ {a}
           /\ hook'[h].records = hook[h].records
                                   \cup (Lines(facts[a]) \X {a})
           /\ \A k \in Hooks \ {h} : hook'[k] = hook[k]
  <1> DEFINE t == hook[h]
             more == t.records \cup (Lines(facts[a]) \X {a})
             s == [t EXCEPT !.names = @ \ {a}, !.records = more]
  <1>1. t \in HookState /\ hook \in [Hooks -> HookState] /\ t.pc = "cat"
    BY DEF LeaseInv, TypeOK, CatFact, At
  <1>2. hook' = [hook EXCEPT ![h] = s]
    BY DEF CatFact, Become
  <1> HIDE DEF t, more
  <1>3. /\ s.pc = "cat" /\ s.ops = t.ops /\ s.names = t.names \ {a}
        /\ s.records = more
    BY <1>1 DEF HookState
  <1> HIDE DEF s
  <1> QED BY <1>1, <1>2, <1>3 DEF t, more

LEMMA ExitFields ==
    ASSUME LeaseInv, NEW h \in Hooks, NEW finished, Exit(h, finished)
    PROVE  /\ hook'[h] = Idle /\ \A k \in Hooks \ {h} : hook'[k] = hook[k]
           /\ alone' = alone \ {h} /\ serial' = (serial /\ finished)
  BY DEF LeaseInv, TypeOK, Exit, Become

(* A running hook is the only one that can be alone.                       *)
LEMMA AloneChange ==
    ASSUME AloneInv, NEW h \in Hooks, ~At(h, "idle"),
           \A k \in Hooks \ {h} : hook'[k] = hook[k],
           alone \subseteq Hooks, alone' \subseteq alone,
           h \in alone' => ~At(h, "idle")' /\ LoneOK(hook[h])'
    PROVE  AloneInv'
  <1> SUFFICES ASSUME NEW g \in alone'
               PROVE  /\ ~At(g, "idle")'
                      /\ \A k \in Hooks \ {g} : At(k, "idle")'
                      /\ LoneOK(hook[g])'
    BY DEF AloneInv
  <1>1. g = h
    BY DEF AloneInv
  <1> QED BY <1>1 DEF AloneInv, At

(* What cat has read of the fact files, one file later.                    *)
LEMMA ReadOneMore ==
    ASSUME LeaseInv, NEW a \in Addrs, facts[a] # Absent,
           NEW names \in SUBSET Addrs, a \in names
    PROVE  {r \in RecordsOf(facts) : r[2] \notin names \ {a}}
             = {r \in RecordsOf(facts) : r[2] \notin names}
                 \cup (Lines(facts[a]) \X {a})
  <1>1. \A r : r \in RecordsOf(facts) <=>
              \E b \in Addrs : facts[b] # Absent /\ r \in Lines(facts[b]) \X {b}
    BY DEF RecordsOf
  <1>2. ASSUME NEW r
        PROVE  r \in {q \in RecordsOf(facts) : q[2] \notin names \ {a}}
                 <=> \/ r \in {q \in RecordsOf(facts) : q[2] \notin names}
                     \/ r \in Lines(facts[a]) \X {a}
    BY <1>1
  <1> QED BY <1>2

LEMMA HookAlone ==
    ASSUME LeaseInv, AloneInv, NEW h \in Hooks, HookStep(h) \/ KillHook(h)
    PROVE  AloneInv'
  <1> USE DEF At
  <1>0. /\ ~At(h, "idle") /\ alone \subseteq Hooks
        /\ h \in alone => LoneOK(hook[h])
    BY DEF HookStep, KillHook, ClearFact, OpenFact, EchoFact, FindFacts,
       CatFact, CatFails, CatDone, Compare, MoveZone, LeaseInv, TypeOK,
       AloneInv
  <1>1. CASE ClearFact(h) \/ OpenFact(h) \/ EchoFact(h)
    <2>1. /\ hook'[h].pc \in {"clear", "open", "echo", "find"}
          /\ hook'[h].records = hook[h].records
          /\ \A k \in Hooks \ {h} : hook'[k] = hook[k]
      BY <1>1, CurrentOp, GotoFields, NextOpFields
         DEF ClearFact, OpenFact, EchoFact
    <2>2. h \in alone => hook[h].records = {}
      BY <1>0, <1>1 DEF ClearFact, OpenFact, EchoFact, LoneOK
    <2>3. alone' = alone
      BY <1>1 DEF ClearFact, OpenFact, EchoFact, history
    <2>4. h \in alone => LoneOK(hook[h])'
      BY <2>1, <2>2 DEF LoneOK
    <2> QED BY <1>0, <2>1, <2>3, <2>4, AloneChange
  <1>2. CASE FindFacts(h)
    <2>1. UNCHANGED <<facts, alone>>
      BY <1>2 DEF FindFacts, files, history
    <2>2. h \in alone => hook[h].records = {}
      BY <1>0, <1>2 DEF FindFacts, LoneOK
    <2>3. \A r \in RecordsOf(facts) : r[2] \in Addrs /\ facts[r[2]] # Absent
      BY DEF RecordsOf
    <2>4. h \in alone => LoneOK(hook[h])'
      BY <1>2, <2>1, <2>2, <2>3, FindFields DEF LoneOK
    <2> QED BY <1>0, <1>2, <2>1, <2>4, FindFields, AloneChange
  <1>3. ASSUME NEW a \in Addrs, CatFact(h, a) PROVE AloneInv'
    <2>1. /\ UNCHANGED <<facts, alone>> /\ facts[a] # Absent
          /\ a \in hook[h].names /\ hook[h].pc = "cat"
          /\ hook[h].names \in SUBSET Addrs
      BY <1>3 DEF CatFact, files, history, LeaseInv, TypeOK, HookState
    <2>2. {r \in RecordsOf(facts) : r[2] \notin hook[h].names \ {a}}
             = {r \in RecordsOf(facts) : r[2] \notin hook[h].names}
                 \cup (Lines(facts[a]) \X {a})
      BY <2>1, ReadOneMore
    <2>3. h \in alone => LoneOK(hook[h])'
      BY <1>0, <1>3, <2>1, <2>2, CatFields DEF LoneOK
    <2>4. /\ hook'[h].pc = "cat"
          /\ \A k \in Hooks \ {h} : hook'[k] = hook[k]
      BY <1>3, CatFields
    <2> QED BY <1>0, <2>1, <2>3, <2>4, AloneChange
  <1>4. CASE CatDone(h) \/ (Compare(h) /\ hook[h].records # zone)
    <2>1. UNCHANGED <<facts, alone>>
      BY <1>4 DEF CatDone, Compare, files, history
    <2>2. /\ hook'[h].pc \in {"cmp", "mv"}
          /\ hook'[h].names = hook[h].names
          /\ hook'[h].records = hook[h].records
          /\ \A k \in Hooks \ {h} : hook'[k] = hook[k]
      BY <1>4, GotoFields DEF CatDone, Compare
    <2>3. h \in alone => LoneOK(hook[h])'
      BY <1>0, <1>4, <2>1, <2>2 DEF LoneOK, CatDone, Compare
    <2> QED BY <1>0, <2>1, <2>2, <2>3, AloneChange
  <1>5. ASSUME NEW finished, Exit(h, finished) PROVE AloneInv'
    BY <1>0, <1>5, ExitFields, AloneChange
  <1>6. CASE (Compare(h) /\ hook[h].records = zone) \/ MoveZone(h)
             \/ KillHook(h) \/ \E a \in Addrs : CatFails(h, a)
    BY <1>5, <1>6 DEF Compare, MoveZone, KillHook, CatFails
  <1> QED BY <1>1, <1>2, <1>3, <1>4, <1>6 DEF HookStep

LEMMA SpawnFields ==
    ASSUME LeaseInv, NEW h \in Hooks, NEW ops, Spawn(h, ops)
    PROVE  /\ At(h, "idle")
           /\ hook'[h].pc = "clear" /\ hook'[h].ops = ops
           /\ hook'[h].records = {}
           /\ \A k \in Hooks \ {h} : hook'[k] = hook[k]
           /\ alone' = IF Running = {} THEN {h} ELSE {}
           /\ serial' = (serial /\ Running = {})
  BY DEF Spawn, Become, LeaseInv, TypeOK, Idle

LEMMA KeaAlone ==
    ASSUME LeaseInv, KeaEvent
    PROVE  AloneInv'
  <1>1. PICK h \in Hooks : \E ops : Spawn(h, ops)
    BY DEF KeaEvent, Ended, Committed
  <1>2. /\ hook'[h].pc = "clear" /\ hook'[h].records = {}
        /\ \A k \in Hooks \ {h} : hook'[k] = hook[k]
        /\ alone' = IF Running = {} THEN {h} ELSE {}
    BY <1>1, SpawnFields
  <1>3. LoneOK(hook[h])'
    BY <1>2 DEF LoneOK
  <1>4. Running = {} => \A k \in Hooks \ {h} : At(k, "idle")'
    BY <1>2 DEF Running, At
  <1> QED BY <1>2, <1>3, <1>4 DEF AloneInv, At

LEMMA AloneStep == LeaseInv /\ AloneInv /\ [Next]_vars => AloneInv'
  <1> SUFFICES ASSUME LeaseInv, AloneInv, [Next]_vars PROVE AloneInv'
    OBVIOUS
  <1>1. CASE SyncStep \/ KillSync \/ UNCHANGED vars
    <2>1. UNCHANGED <<facts, hook, alone>>
      BY <1>1 DEF SyncStep, KillSync, PathTriggers, SyncCat, SyncMove,
         SyncReload, files, history, vars
    <2> QED BY <2>1 DEF AloneInv, LoneOK, At, RecordsOf
  <1> QED BY <1>1, KeaAlone, HookAlone DEF Next

LEMMA AloneAlways == Spec => []AloneInv
  <1>1. Init => AloneInv
    BY DEF Init, AloneInv
  <1> QED BY <1>1, AloneStep, LeaseInvariant, PTL DEF Spec

(* Where the zone file is replaced or left alone, a lone hook has read     *)
(* exactly the fact files; no other step ends it but a kill.               *)
LEMMA LoneEnd ==
    ASSUME LeaseInv, AloneInv, [Next]_vars, NEW h \in alone,
           hook'[h] = Idle, kills' = kills
    PROVE  zone' = RecordsOf(facts')
  <1>0. /\ h \in Hooks /\ hook[h].pc # "idle" /\ LoneOK(hook[h])
        /\ hook'[h].pc = "idle" /\ hook'[h] # hook[h]
        /\ kills \in Nat
    BY BoundsAssumption DEF LeaseInv, TypeOK, AloneInv, At, Idle
  <1>1. HookStep(h)
    <2>1. ~KeaEvent
      <3> SUFFICES ASSUME KeaEvent PROVE FALSE
        OBVIOUS
      <3>1. PICK g \in Hooks : \E ops : Spawn(g, ops)
        BY DEF KeaEvent, Ended, Committed
      <3> QED BY <1>0, <3>1, SpawnFields
    <2>2. ~(SyncStep \/ KillSync \/ UNCHANGED vars)
      BY <1>0 DEF SyncStep, KillSync, PathTriggers, SyncCat, SyncMove,
         SyncReload, vars
    <2>3. \A g \in Hooks : ~KillHook(g)
      <3>1. kills \in Nat /\ kills' = kills
        BY <1>0
      <3>2. ~Kill
        BY <3>1 DEF Kill
      <3> QED BY <3>2 DEF KillHook
    <2>4. PICK g \in Hooks : HookStep(g)
      <3>1. Next
        BY <2>2
      <3> QED BY <2>1, <2>2, <2>3, <3>1 DEF Next
    <2>5. ~At(g, "idle")
      BY <2>4 DEF HookStep, At, ClearFact, OpenFact, EchoFact, FindFacts,
         CatFact, CatFails, CatDone, Compare, MoveZone
    <2>6. g = h
      BY <1>0, <2>5 DEF AloneInv
    <2> QED BY <2>4, <2>6
  <1>2. ~(ClearFact(h) \/ OpenFact(h) \/ EchoFact(h) \/ FindFacts(h)
          \/ CatDone(h) \/ \E a \in Addrs : CatFact(h, a))
    <2>1. ASSUME ClearFact(h) \/ OpenFact(h) \/ EchoFact(h) PROVE FALSE
      <3>1. hook[h].ops # <<>>
        BY <1>0, <2>1, CurrentOp DEF ClearFact, OpenFact, EchoFact, At
      <3>2. hook'[h].pc \in {"clear", "open", "echo", "find"}
        BY <1>0, <2>1, <3>1, GotoFields, NextOpFields
           DEF ClearFact, OpenFact, EchoFact
      <3> QED BY <1>0, <3>2
    <2>2. ~FindFacts(h)
      BY <1>0, FindFields
    <2>3. ~CatDone(h)
      BY <1>0, GotoFields DEF CatDone
    <2>4. \A a \in Addrs : ~CatFact(h, a)
      BY <1>0, CatFields
    <2> QED BY <2>1, <2>2, <2>3, <2>4
  <1>3. ~\E a \in Addrs : CatFails(h, a)
    BY <1>0 DEF CatFails, At, LoneOK
  <1>4. CASE Compare(h)
    <2>1. hook[h].records = zone
      BY <1>0, <1>4, GotoFields DEF Compare
    <2>2. zone' = zone /\ facts' = facts /\ hook[h].pc = "cmp"
      BY <1>4 DEF Compare, At
    <2> QED BY <1>0, <2>1, <2>2 DEF LoneOK
  <1>5. CASE MoveZone(h)
    <2>1. zone' = hook[h].records /\ facts' = facts /\ hook[h].pc = "mv"
      BY <1>5 DEF MoveZone, At
    <2> QED BY <1>0, <2>1 DEF LoneOK
  <1> QED BY <1>1, <1>2, <1>3, <1>4, <1>5 DEF HookStep

(* A hook that ran alone to its end has made the zone file what the fact   *)
(* files say, whatever was there before.                                   *)
THEOREM LoneHooksRepair == Spec => LoneHookRepairs
  <1>1. LeaseInv /\ AloneInv /\ [Next]_vars
          => [\A h \in alone : hook'[h] = Idle /\ kills' = kills
                                 => zone' = RecordsOf(facts')]_vars
    BY LoneEnd
  <1> QED BY <1>1, LeaseInvariant, AloneAlways, PTL
          DEF Spec, LoneHookRepairs

---------------------------------------------------------------------------
(* Hooks that do not overlap make the zone file follow Kea. *)

LEMMA SerialSpawn ==
    ASSUME LeaseInv, SerialInv, NEW h \in Hooks, NEW ops, Spawn(h, ops),
           \A i \in 1..Len(ops) : ops[i].client = leases'[ops[i].addr],
           \A a \in Addrs : \/ leases'[a] = leases[a]
                            \/ \E i \in 1..Len(ops) : ops[i].addr = a
    PROVE  SerialInv'
  <1>1. /\ hook'[h].pc = "clear" /\ hook'[h].ops = ops
        /\ \A k \in Hooks \ {h} : hook'[k] = hook[k]
        /\ alone' = IF Running = {} THEN {h} ELSE {}
        /\ serial' = (serial /\ Running = {})
    BY SpawnFields
  <1>2. facts' = facts
    BY DEF Spawn, files
  <1> SUFFICES ASSUME serial' PROVE SerialInv'
    BY DEF SerialInv
  <1>3. serial /\ Running = {}
    BY <1>1
  <1>4. Running' = {h}
    BY <1>1, <1>3 DEF Running, At
  <1>5. \A a \in Addrs : facts[a] = FactOf(leases[a])
    BY <1>3 DEF SerialInv
  <1>6. FollowOK(h)'
    BY <1>1, <1>2, <1>5 DEF FollowOK, At
  <1> QED BY <1>1, <1>3, <1>4, <1>6 DEF SerialInv

LEMMA KeaSerial ==
    ASSUME LeaseInv, SerialInv, KeaEvent
    PROVE  SerialInv'
  <1>0. leases \in [Addrs -> Clients \cup {Nobody}]
    BY DEF LeaseInv, TypeOK
  <1>1. ASSUME NEW h \in Hooks, NEW a \in Addrs, Ended(h, a)
        PROVE  SerialInv'
    <2> DEFINE ops == <<Remove(a)>>
    <2>1. Len(ops) = 1 /\ ops[1].client = Nobody /\ ops[1].addr = a
      BY DEF Remove
    <2>2. Spawn(h, ops) /\ leases' = [leases EXCEPT ![a] = Nobody]
      BY <1>1 DEF Ended
    <2> HIDE DEF ops
    <2> QED BY <1>0, <2>1, <2>2, SerialSpawn
  <1>2. ASSUME NEW h \in Hooks, NEW a \in Addrs, NEW c \in Clients,
               Committed(h, a, c)
        PROVE  SerialInv'
    <2>1. CASE /\ leases' = [leases EXCEPT ![a] = c]
               /\ Spawn(h, <<Publish(a, c)>>)
      <3> DEFINE ops == <<Publish(a, c)>>
      <3>1. Len(ops) = 1 /\ ops[1].client = c /\ ops[1].addr = a
        BY DEF Publish
      <3>2. Spawn(h, ops)
        BY <2>1
      <3> HIDE DEF ops
      <3> QED BY <1>0, <2>1, <3>1, <3>2, SerialSpawn
    <2>2. ASSUME NEW b \in Addrs \ {a},
                 leases' = [leases EXCEPT ![a] = c, ![b] = Nobody],
                 Spawn(h, <<Publish(a, c), Remove(b)>>)
          PROVE  SerialInv'
      <3> DEFINE ops == <<Publish(a, c), Remove(b)>>
      <3>1. /\ Len(ops) = 2 /\ ops[1].client = c /\ ops[1].addr = a
            /\ ops[2].client = Nobody /\ ops[2].addr = b
        BY DEF Publish, Remove
      <3>2. Spawn(h, ops)
        BY <2>2
      <3> HIDE DEF ops
      <3>3. /\ leases'[a] = c /\ leases'[b] = Nobody
            /\ \A d \in Addrs \ {a, b} : leases'[d] = leases[d]
        BY <1>0, <2>2
      <3>4. \A i \in 1..Len(ops) : i = 1 \/ i = 2
        BY <3>1
      <3>5. 1 \in 1..Len(ops) /\ 2 \in 1..Len(ops)
        BY <3>1
      <3> QED BY <3>1, <3>2, <3>3, <3>4, <3>5, SerialSpawn
    <2> QED BY <1>2, <2>1, <2>2 DEF Committed
  <1> QED BY <1>1, <1>2 DEF KeaEvent

(* A running hook that goes on, alone and with what it has to do.          *)
LEMMA SerialRun ==
    ASSUME AloneInv, NEW h \in alone, h \in Hooks,
           \A k \in Hooks \ {h} : hook'[k] = hook[k],
           hook'[h].pc # "idle", alone' = alone, FollowOK(h)'
    PROVE  SerialInv'
  <1>1. Running' = {h}
    BY DEF AloneInv, Running, At
  <1> QED BY <1>1 DEF SerialInv

(* The next address of a hook, once the fact of the last one is right.     *)
LEMMA FollowNext ==
    ASSUME LeaseInv, NEW h \in Hooks, hook[h].ops # <<>>, NextOp(h),
           FollowOK(h), UNCHANGED leases,
           facts'[Current(h).addr] = FactOf(leases[Current(h).addr]),
           \A a \in Addrs \ {Current(h).addr} : facts'[a] = facts[a]
    PROVE  FollowOK(h)'
  <1>1. /\ hook'[h].pc = IF hook'[h].ops = <<>> THEN "find" ELSE "clear"
        /\ Len(hook[h].ops) \in Nat \ {0}
        /\ Len(hook'[h].ops) = Len(hook[h].ops) - 1
        /\ \A i \in 1..Len(hook'[h].ops) :
             /\ i + 1 \in 1..Len(hook[h].ops)
             /\ hook'[h].ops[i] = hook[h].ops[i + 1]
        /\ Current(h) = hook[h].ops[1]
    BY NextOpFields
  <1> DEFINE was == hook[h].ops
             is == hook'[h].ops
  <1>2. /\ \A i \in 1..Len(was) : was[i].client = leases[was[i].addr]
        /\ \A b \in Addrs : \/ facts[b] = FactOf(leases[b])
                            \/ \E i \in 1..Len(was) : was[i].addr = b
    BY DEF FollowOK
  <1>3. \A i \in 1..Len(is) : is[i].client = leases[is[i].addr]
    <2> SUFFICES ASSUME NEW i \in 1..Len(is)
                 PROVE  is[i].client = leases[is[i].addr]
      OBVIOUS
    <2>1. i + 1 \in 1..Len(was) /\ is[i] = was[i + 1]
      BY <1>1
    <2> QED BY <1>2, <2>1
  <1>4. ASSUME NEW a \in Addrs, facts'[a] # FactOf(leases[a])
        PROVE  \E i \in 1..Len(is) : is[i].addr = a
    <2>1. a # Current(h).addr /\ facts[a] # FactOf(leases[a])
      BY <1>4
    <2>2. PICK i \in 1..Len(was) : was[i].addr = a
      BY <1>2, <2>1
    <2>3. i # 1
      BY <1>1, <2>1, <2>2
    <2>4. i - 1 \in 1..Len(is) /\ (i - 1) + 1 = i
      BY <1>1, <2>3
    <2>5. is[i - 1] = was[i]
      BY <1>1, <2>4
    <2> QED BY <2>2, <2>4, <2>5
  <1>5. hook'[h].pc \in {"find", "cat", "cmp", "mv"} => is = <<>>
    BY <1>1
  <1>6. hook'[h].pc # "echo"
    BY <1>1
  <1> QED BY <1>3, <1>4, <1>5, <1>6 DEF FollowOK, At

(* The steps of a lone hook that change fact files.                        *)
LEMMA FactSerial ==
    ASSUME LeaseInv, AloneInv, NEW h \in Hooks, h \in alone, FollowOK(h),
           ClearFact(h) \/ OpenFact(h) \/ EchoFact(h)
    PROVE  SerialInv'
  <1> DEFINE op == Current(h)
  <1>1. /\ hook[h].pc \in {"clear", "open", "echo"}
        /\ hook[h].ops # <<>> /\ op \in Op
        /\ hook[h].pc \in {"open", "echo"} => IsPublish(op)
    BY CurrentOp DEF ClearFact, OpenFact, EchoFact, At
  <1>2. /\ 1 \in 1..Len(hook[h].ops) /\ op = hook[h].ops[1]
    <2>1. hook[h].ops \in Seq(Op)
      BY DEF LeaseInv, TypeOK, HookState
    <2> QED BY <1>1, <2>1 DEF Current
  <1>3. /\ op.addr \in Addrs /\ op.client = leases[op.addr]
        /\ FactOf(leases[op.addr]) = IF IsPublish(op) THEN {op.client.name}
                                     ELSE Absent
    BY <1>1, <1>2 DEF FollowOK, Op, FactOf, IsPublish
  <1>4. UNCHANGED <<leases, alone>>
    BY DEF ClearFact, OpenFact, EchoFact, history
  <1>5. /\ facts \in [Addrs -> {Absent} \cup SUBSET Names]
        /\ writers \in [Addrs -> SUBSET Hooks]
    BY DEF LeaseInv, TypeOK
  <1>6. CASE (ClearFact(h) /\ IsPublish(op)) \/ OpenFact(h)
    <2>1. /\ hook'[h].pc = IF ClearFact(h) THEN "open" ELSE "echo"
          /\ hook'[h].ops = hook[h].ops
          /\ \A k \in Hooks \ {h} : hook'[k] = hook[k]
      BY <1>6, GotoFields DEF ClearFact, OpenFact, At
    <2>2. \A a \in Addrs \ {op.addr} : facts'[a] = facts[a]
      BY <1>5, <1>6 DEF ClearFact, OpenFact
    <2>3. OpenFact(h) => h \in writers'[op.addr] /\ facts'[op.addr] = {}
      BY <1>3, <1>5 DEF OpenFact
    <2>4. Current(h)' = op
      BY <2>1 DEF Current
    <2> HIDE DEF op
    <2>5. \A i \in 1..Len(hook'[h].ops) :
             hook'[h].ops[i].client = leases'[hook'[h].ops[i].addr]
      BY <1>4, <2>1 DEF FollowOK
    <2>6. \A a \in Addrs : \/ facts'[a] = FactOf(leases[a])
                           \/ \E i \in 1..Len(hook[h].ops) :
                                hook[h].ops[i].addr = a
      BY <1>2, <2>2 DEF FollowOK
    <2>7. hook'[h].pc = "echo"
            => h \in writers'[op.addr] /\ facts'[op.addr] = {}
      BY <1>6, <2>1, <2>3
    <2>8. hook'[h].pc \in {"open", "echo"}
      BY <2>1
    <2>9. FollowOK(h)'
      BY <1>4, <2>1, <2>4, <2>5, <2>6, <2>7, <2>8 DEF FollowOK, At
    <2> QED BY <1>4, <2>1, <2>8, <2>9, SerialRun
  <1>7. CASE (ClearFact(h) /\ ~IsPublish(op)) \/ EchoFact(h)
    <2>1. NextOp(h)
      BY <1>7 DEF ClearFact, EchoFact
    <2>2. EchoFact(h) => h \in writers[op.addr] /\ facts[op.addr] = {}
      BY DEF FollowOK, EchoFact
    <2>3. facts'[op.addr] = FactOf(leases[op.addr])
      BY <1>1, <1>3, <1>5, <1>7, <2>2
         DEF ClearFact, EchoFact, At, WrittenOver
    <2>4. \A a \in Addrs \ {op.addr} : facts'[a] = facts[a]
      BY <1>5, <1>7 DEF ClearFact, EchoFact
    <2>5. FollowOK(h)'
      BY <1>1, <1>4, <2>1, <2>3, <2>4, FollowNext
    <2>6. /\ hook'[h].pc \in {"find", "clear"}
          /\ \A k \in Hooks \ {h} : hook'[k] = hook[k]
      BY <1>1, <2>1, NextOpFields
    <2> QED BY <1>4, <2>5, <2>6, SerialRun
  <1> QED BY <1>6, <1>7

(* The steps that read them.                                               *)
LEMMA ReadSerial ==
    ASSUME LeaseInv, AloneInv, NEW h \in Hooks, h \in alone, FollowOK(h),
           \/ FindFacts(h) \/ CatDone(h)
           \/ Compare(h) /\ hook[h].records # zone
           \/ \E a \in Addrs : CatFact(h, a)
    PROVE  SerialInv'
  <1>1. /\ hook'[h].pc \in {"cat", "cmp", "mv"}
        /\ hook'[h].ops = hook[h].ops
        /\ \A k \in Hooks \ {h} : hook'[k] = hook[k]
    BY GotoFields, FindFields, CatFields DEF CatDone, Compare
  <1>2. hook[h].pc \in {"find", "cat", "cmp"}
    BY DEF FindFacts, CatDone, Compare, CatFact, At
  <1>3. UNCHANGED <<leases, facts, alone>>
    BY DEF FindFacts, CatDone, Compare, CatFact, files, history
  <1>4. FollowOK(h)'
    BY <1>1, <1>2, <1>3 DEF FollowOK, At
  <1> QED BY <1>1, <1>3, <1>4, SerialRun

(* The steps that end it.                                                  *)
LEMMA EndSerial ==
    ASSUME LeaseInv, AloneInv, [Next]_vars, NEW h \in Hooks, h \in alone,
           FollowOK(h),
           (Compare(h) /\ hook[h].records = zone) \/ MoveZone(h)
    PROVE  SerialInv'
  <1>1. Exit(h, TRUE) /\ UNCHANGED <<leases, facts, kills>>
    BY DEF Compare, MoveZone
  <1>2. hook'[h] = Idle /\ \A k \in Hooks \ {h} : hook'[k] = hook[k]
    BY <1>1, ExitFields
  <1>3. zone' = RecordsOf(facts')
    BY <1>1, <1>2, LoneEnd
  <1>4. Running' = {}
    BY <1>2 DEF AloneInv, Running, At, Idle
  <1>5. hook[h].ops = <<>>
    BY DEF FollowOK, Compare, MoveZone, At
  <1>6. \A a \in Addrs : facts[a] = FactOf(leases[a])
    BY <1>5 DEF FollowOK
  <1>7. RecordsOf(facts)' = RecordsOf(facts')
    BY DEF RecordsOf
  <1> QED BY <1>1, <1>3, <1>4, <1>6, <1>7 DEF SerialInv

LEMMA SerialStep == LeaseInv /\ AloneInv /\ SerialInv /\ [Next]_vars
                      => SerialInv'
  <1> SUFFICES ASSUME LeaseInv, AloneInv, SerialInv, [Next]_vars
               PROVE  SerialInv'
    OBVIOUS
  <1>1. CASE SyncStep \/ KillSync \/ UNCHANGED vars
    <2>1. UNCHANGED <<leases, facts, writers, zone, hook, alone, serial>>
      BY <1>1 DEF SyncStep, KillSync, PathTriggers, SyncCat, SyncMove,
         SyncReload, files, history, vars
    <2>2. Running' = Running
      BY <2>1 DEF Running, At
    <2>3. \A h \in Running : FollowOK(h) => FollowOK(h)'
      BY <2>1 DEF FollowOK, At, Current
    <2>4. RecordsOf(facts)' = RecordsOf(facts)
      BY <2>1 DEF RecordsOf
    <2> QED BY <2>1, <2>2, <2>3, <2>4 DEF SerialInv
  <1>2. ASSUME NEW h \in Hooks, HookStep(h) \/ KillHook(h)
        PROVE  SerialInv'
    <2> SUFFICES ASSUME serial' PROVE SerialInv'
      BY DEF SerialInv
    <2>1. \A g \in Hooks : ~Exit(g, FALSE)
      BY DEF Exit
    <2>2. serial /\ ~At(h, "idle")
      BY <1>2, <2>1 DEF HookStep, KillHook, ClearFact, OpenFact, EchoFact,
         FindFacts, CatFact, CatFails, CatDone, Compare, MoveZone, Exit,
         history, At
    <2>3. h \in alone /\ FollowOK(h)
      BY <2>2 DEF SerialInv, Running
    <2>4. ~KillHook(h) /\ \A a \in Addrs : ~CatFails(h, a)
      BY <2>1 DEF KillHook, CatFails
    <2> QED BY <1>2, <2>3, <2>4, FactSerial, ReadSerial, EndSerial
            DEF HookStep
  <1> QED BY <1>1, <1>2, KeaSerial DEF Next

(* A file with one line reads as that line.                                *)
LEMMA OneLine ==
    ASSUME NEW n \in Names
    PROVE  Lines({n}) = {n}
  <1>1. Length[n] \in Nat
    BY LinesAssumption
  <1>2. \A m, k \in {n} : ~(Length[m] < Length[k])
    BY <1>1
  <1> QED BY <1>2 DEF Lines

(* While the hooks of lease events do not overlap and none is killed, the  *)
(* zone file is, between them, what Kea's leases make it.                  *)
THEOREM FollowsKea == Spec => []ZoneFollowsLeases
  <1>1. Init => SerialInv
    <2> SUFFICES ASSUME Init PROVE SerialInv
      OBVIOUS
    <2>1. Running = {}
      BY DEF Init, Running, At, Idle
    <2>2. \A a \in Addrs : facts[a] = Absent /\ leases[a] = Nobody
      BY DEF Init
    <2>3. RecordsOf(facts) = {}
      BY <2>2 DEF RecordsOf
    <2> QED BY <2>1, <2>2, <2>3 DEF Init, SerialInv, FactOf
  <1>2. LeaseInv /\ SerialInv => ZoneFollowsLeases
    <2> SUFFICES ASSUME LeaseInv, SerialInv, serial, Running = {}
                 PROVE  zone = Expected
      BY DEF ZoneFollowsLeases
    <2>1. /\ \A a \in Addrs : facts[a] = FactOf(leases[a])
          /\ zone = RecordsOf(facts)
      BY DEF SerialInv
    <2>2. \A a \in Addrs :
            IF leases[a] # Nobody /\ Publishable(leases[a])
            THEN facts[a] # Absent /\ Lines(facts[a]) = {leases[a].name}
            ELSE facts[a] = Absent
      <3> SUFFICES ASSUME NEW a \in Addrs, leases[a] # Nobody,
                          Publishable(leases[a])
                   PROVE  /\ facts[a] # Absent
                          /\ Lines(facts[a]) = {leases[a].name}
        BY <2>1 DEF FactOf
      <3>1. leases[a].name \in Names /\ facts[a] = {leases[a].name}
        BY <2>1 DEF LeaseInv, TypeOK, Publishable, Names, FactOf
      <3>2. facts[a] # Absent
        BY <3>1, ClientsAssumption
      <3> QED BY <3>1, <3>2, OneLine
    <2> QED BY <2>1, <2>2 DEF RecordsOf, Expected
  <1> QED BY <1>1, <1>2, SerialStep, LeaseInvariant, AloneAlways, PTL
          DEF Spec

(* The missing records of run lease_race have one cause: as long as no two  *)
(* hooks overlap and none is killed, each lease of a client with a         *)
(* reservation has its record.  (Outside the LAN, and of a client without  *)
(* a hostname, the hook publishes nothing.)                                *)
THEOREM ReservationsWhileSerial ==
    ASSUME \A c \in Clients : c.reserved /\ c.lan => c.name # ""
    PROVE  Spec => [](serial => ReservationPublished)
  <1>1. LeaseInv /\ ZoneFollowsLeases => (serial => ReservationPublished)
    <2> SUFFICES ASSUME LeaseInv, ZoneFollowsLeases, serial, Running = {},
                        NEW a \in Addrs, leases[a] # Nobody,
                        leases[a].reserved, leases[a].lan
                 PROVE  <<leases[a].name, a>> \in zone
      BY DEF ReservationPublished
    <2>1. leases[a] \in Clients
      BY DEF LeaseInv, TypeOK
    <2>2. Publishable(leases[a])
      BY <2>1 DEF Publishable
    <2>3. zone = Expected
      BY DEF ZoneFollowsLeases
    <2> QED BY <2>2, <2>3 DEF Expected
  <1> QED BY <1>1, LeaseInvariant, FollowsKea, PTL

=============================================================================
