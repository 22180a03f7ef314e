----------------------------- MODULE LeaseZone ------------------------------
(***************************************************************************)
(* How a DHCP lease becomes a DNS record.  Kea runs the lease hook         *)
(* (nixosModule/scripts/dns-server-lease-hook.sh) for a lease event and    *)
(* does not wait for it (config.nix:617, sync = false), so hooks overlap.  *)
(* A hook changes fact files, one per address, and rebuilds a zone file    *)
(* from all of them.  A systemd.path unit (config-dns.nix:316-323) starts  *)
(* dns-server-leases-sync.sh when the zone file changes, which copies it   *)
(* to where unbound reads it and reloads unbound.                          *)
(*                                                                         *)
(* One action is one command of a script.  The scripts run with errexit    *)
(* and pipefail: a command that fails ends its script.  A zone is the set  *)
(* of its records <<name, address>>; no zone file and one without records  *)
(* are not told apart.                                                     *)
(***************************************************************************)
EXTENDS Naturals, Sequences

CONSTANTS
    Hooks,          \* hook processes that can run at a time
    Addrs,          \* the addresses Kea leases
    Clients,        \* what Kea passes of a client: [lan, reserved, name],
                    \* `reserved`: its MAC has a reservation on some LAN
                    \* interface, this one or another; `name`: the hostname
                    \* it has here, less one trailing dot
    Nobody,         \* no client: the address is free
    PublishPool,    \* DNS_SERVER_PUBLISH_POOL_LEASES
    Reservations,   \* the FQDNs of the reservations that have a hostname
    Overrides,      \* the keys of dns-server.spoof.overrides, as they are
    Length,         \* how long each name is
    Piece,          \* what is left of a line reads as, under a shorter one
    Absent,         \* no fact file
    MaxEvents,      \* bound: lease events in a behaviour
    MaxKills        \* bound: scripts killed, or stopped by a failing command

Names == {c.name : c \in Clients} \ {""}
LineNames == Names \cup {Piece[w] : w \in Names \X Names}
Records == LineNames \X Addrs

ASSUME ClientsAssumption ==
    /\ Clients \subseteq [lan : BOOLEAN, reserved : BOOLEAN, name : STRING]
    /\ Nobody \notin Clients /\ \A content \in SUBSET Names : content # Absent
    /\ PublishPool \in BOOLEAN
    /\ Reservations \subseteq STRING /\ Overrides \subseteq STRING
ASSUME LinesAssumption ==
    Length \in [Names -> Nat] /\ Piece \in [Names \X Names -> STRING]
ASSUME BoundsAssumption == MaxEvents \in Nat /\ MaxKills \in Nat

VARIABLES
    leases,     \* Kea's database: who has each address
    facts,      \* whose lines facts/<address> shows, by name, or Absent
    writers,    \* the hooks that have that file open to write it
    zone,       \* leases.rpz in Kea's state directory, written by hooks
    hook,       \* the local state of each hook
    pending,    \* systemd has yet to handle a change of the zone file
    svc,        \* where dns-server-leases-sync is
    copy,       \* the sync's temporary file
    shared,     \* leases.rpz where unbound reads it
    served,     \* the zone unbound has loaded
    events, kills,
    held,       \* history: who had which address
    missed,     \* history: the last change of the zone file started no sync,
                \* or one that was killed
    alone,      \* history: the hooks nobody else ran next to so far
    serial      \* history: no hooks overlapped yet and none was killed

vars == <<leases, facts, writers, zone, hook, pending, svc, copy, shared,
          served, events, kills, held, missed, alone, serial>>
files == <<facts, writers>>
sync == <<pending, svc, copy, shared, served, missed>>
history == <<held, alone, serial>>

(* A fact file to be written for a client, or removed.                     *)
Op == [addr : Addrs, client : Clients \cup {Nobody}]

HookState ==
    [pc : {"idle", "clear", "open", "echo", "find", "cat", "cmp", "mv"},
     ops : Seq(Op),             \* the LEASES4_AT<n>, then the deleted ones
     names : SUBSET Addrs,      \* the fact files find passed to cat
     records : SUBSET Records]

Idle == [pc |-> "idle", ops |-> <<>>, names |-> {}, records |-> {}]

Init ==
    /\ leases = [a \in Addrs |-> Nobody]
    /\ facts = [a \in Addrs |-> Absent] /\ writers = [a \in Addrs |-> {}]
    /\ zone = {} /\ shared = {} /\ served = {} /\ copy = {}
    /\ hook = [h \in Hooks |-> Idle]
    /\ pending = FALSE /\ svc = "idle"
    /\ events = 0 /\ kills = 0
    /\ held = {} /\ missed = FALSE /\ alone = {} /\ serial = TRUE

Become(h, state) == hook' = [hook EXCEPT ![h] = state]
At(h, label) == hook[h].pc = label
Running == {h \in Hooks : ~At(h, "idle")}
Goto(h, label) == Become(h, [hook[h] EXCEPT !.pc = label])

---------------------------------------------------------------------------
(* Kea: an event changes a lease and spawns a hook with the event's data.  *)

Spawn(h, ops) ==
    /\ At(h, "idle")
    /\ events < MaxEvents /\ events' = events + 1
    /\ Become(h, [Idle EXCEPT !.pc = "clear", !.ops = ops])
    /\ alone' = IF Running = {} THEN {h} ELSE {}
    /\ serial' = (serial /\ Running = {})
    /\ UNCHANGED <<files, zone, sync, kills>>

(* The script ends; `finished` is whether it got to its end.               *)
Exit(h, finished) ==
    /\ Become(h, Idle)
    /\ writers' = [a \in Addrs |-> writers[a] \ {h}]
    /\ alone' = alone \ {h}
    /\ serial' = (serial /\ finished)
    /\ UNCHANGED held

Remove(a) == [addr |-> a, client |-> Nobody]
Publish(a, c) == [addr |-> a, client |-> c]

(* leases4_committed: a new lease, one renewed, or an address reused after *)
(* the lease of another client ran out.  Another lease of the client may   *)
(* be deleted with it.                                                     *)
Committed(h, a, c) ==
    /\ held' = held \cup {<<c, a>>}
    /\ \/ /\ leases' = [leases EXCEPT ![a] = c]
          /\ Spawn(h, <<Publish(a, c)>>)
       \/ \E b \in Addrs \ {a} :
            /\ leases[b] = c
            /\ leases' = [leases EXCEPT ![a] = c, ![b] = Nobody]
            /\ Spawn(h, <<Publish(a, c), Remove(b)>>)

(* lease4_release, or lease4_expire with REMOVE_LEASE.  (Without it Kea    *)
(* keeps the lease, and the script does nothing.)                          *)
Ended(h, a) ==
    /\ leases[a] # Nobody
    /\ leases' = [leases EXCEPT ![a] = Nobody]
    /\ UNCHANGED held
    /\ Spawn(h, <<Remove(a)>>)

KeaEvent ==
    \E h \in Hooks, a \in Addrs :
        Ended(h, a) \/ \E c \in Clients : Committed(h, a, c)

---------------------------------------------------------------------------
(* publish_fact and remove_fact *)

(* The lines of the reserved-fqdns file: the keys of the overrides go into *)
(* it as they are written, a trailing dot or capitals included.            *)
ReservedFqdns == Reservations \cup Overrides

(* Mutant: a pool client's name is not looked up in that file. *)
PublishableUnchecked(c) ==
    c.lan /\ (c.reserved \/ PublishPool) /\ c.name # ""

(* `grep -qxF`: a name is compared with whole lines.  Where the MAC has a  *)
(* reservation, on whatever interface, any name goes.                      *)
Publishable(c) ==
    /\ c.lan
    /\ c.reserved \/ (PublishPool /\ c.name \notin ReservedFqdns)
    /\ c.name # ""

Current(h) == Head(hook[h].ops)
IsPublish(op) == op.client # Nobody /\ Publishable(op.client)

(* Mutant: the loop over the deleted leases is missing. *)
NextOpSkippingDeleted(h) ==
    Become(h, [hook[h] EXCEPT !.ops = <<>>, !.pc = "find"])

(* On to the next address, or to regenerate_zonefile.                      *)
NextOp(h) ==
    LET rest == Tail(hook[h].ops)
    IN Become(h, [hook[h] EXCEPT
                    !.ops = rest,
                    !.pc = IF rest = <<>> THEN "find" ELSE "clear"])

(* rm -f, in both functions.                                               *)
ClearFact(h) ==
    /\ At(h, "clear")
    /\ facts' = [facts EXCEPT ![Current(h).addr] = Absent]
    /\ writers' = [writers EXCEPT ![Current(h).addr] = {}]
    /\ IF IsPublish(Current(h)) THEN Goto(h, "open") ELSE NextOp(h)
    /\ UNCHANGED <<leases, zone, sync, events, kills, history>>

(* The shell creates or truncates the file, ...                            *)
OpenFact(h) ==
    /\ At(h, "open")
    /\ facts' = [facts EXCEPT ![Current(h).addr] = {}]
    /\ writers' = [writers EXCEPT ![Current(h).addr] = @ \cup {h}]
    /\ Goto(h, "echo")
    /\ UNCHANGED <<leases, zone, sync, events, kills, history>>

(* Mutant: echo "$addr A $hostname". *)
EchoFactSwapped(h) ==
    /\ At(h, "echo")
    /\ LET op == Current(h)
       IN /\ facts' = IF h \in writers[op.addr]
                      THEN [facts EXCEPT ![op.addr] = {op.addr}]
                      ELSE facts
          /\ writers' = [writers EXCEPT ![op.addr] = @ \ {h}]
    /\ NextOp(h)
    /\ UNCHANGED <<leases, zone, sync, events, kills, history>>

(* A line is written over the start of the file: of the lines there, those *)
(* that are longer show behind it.                                         *)
WrittenOver(content, name) ==
    {name} \cup {n \in content : Length[name] < Length[n]}

(* ... and echo writes to its start, in vain if it was removed meanwhile.  *)
(* (The redirection is no O_APPEND, and each shell has an offset of its    *)
(* own.)                                                                   *)
EchoFact(h) ==
    /\ At(h, "echo")
    /\ LET op == Current(h)
       IN /\ facts' = IF h \in writers[op.addr]
                      THEN [facts EXCEPT
                              ![op.addr] = WrittenOver(@, op.client.name)]
                      ELSE facts
          /\ writers' = [writers EXCEPT ![op.addr] = @ \ {h}]
    /\ NextOp(h)
    /\ UNCHANGED <<leases, zone, sync, events, kills, history>>

(* What such a file reads as: the shortest line, written last, and of each *)
(* longer one what the next shorter one leaves of it, a line of its own.   *)
Lines(content) ==
    LET Shorter(n) == {m \in content : Length[m] < Length[n]}
        Below(n) == {m \in Shorter(n) :
                       \A k \in Shorter(n) : Length[k] <= Length[m]}
    IN {n \in content : Shorter(n) = {}}
       \cup {Piece[w] : w \in {v \in content \X content :
                                 v[2] \in Below(v[1])}}

---------------------------------------------------------------------------
(* regenerate_zonefile *)

FindFacts(h) ==
    /\ At(h, "find")
    /\ Become(h, [hook[h] EXCEPT
                    !.pc = "cat",
                    !.names = {a \in Addrs : facts[a] # Absent}])
    /\ UNCHANGED <<leases, files, zone, sync, events, kills, history>>

(* cat reads one file after the other.                                     *)
CatFact(h, a) ==
    /\ At(h, "cat") /\ a \in hook[h].names
    /\ facts[a] # Absent
    /\ Become(h, [hook[h] EXCEPT
                    !.names = @ \ {a},
                    !.records = @ \cup (Lines(facts[a]) \X {a})])
    /\ UNCHANGED <<leases, files, zone, sync, events, kills, history>>

(* A file that is gone makes cat, the pipeline and so the script fail.     *)
CatFails(h, a) ==
    /\ At(h, "cat") /\ a \in hook[h].names
    /\ facts[a] = Absent
    /\ Exit(h, FALSE)
    /\ UNCHANGED <<leases, facts, zone, sync, events, kills>>

CatDone(h) ==
    /\ At(h, "cat") /\ hook[h].names = {}
    /\ Goto(h, "cmp")
    /\ UNCHANGED <<leases, files, zone, sync, events, kills, history>>

(* Mutant: the new zone is compared with the copy unbound reads. *)
CompareWithShared(h) ==
    /\ At(h, "cmp")
    /\ IF hook[h].records = shared
       THEN Exit(h, TRUE)
       ELSE Goto(h, "mv") /\ UNCHANGED <<writers, history>>
    /\ UNCHANGED <<leases, facts, zone, sync, events, kills>>

(* An unchanged zone is left alone, so that unbound is not reloaded.       *)
Compare(h) ==
    /\ At(h, "cmp")
    /\ IF hook[h].records = zone
       THEN Exit(h, TRUE)
       ELSE Goto(h, "mv") /\ UNCHANGED <<writers, history>>
    /\ UNCHANGED <<leases, facts, zone, sync, events, kills>>

MoveZone(h) ==
    /\ At(h, "mv")
    /\ zone' = hook[h].records
    /\ pending' = TRUE
    /\ Exit(h, TRUE)
    /\ UNCHANGED <<leases, facts, svc, copy, shared, served, missed, events,
                   kills>>

---------------------------------------------------------------------------
(* The path unit, the sync and unbound *)

(* Starting a unit that is already starting does nothing.                  *)
PathTriggers ==
    /\ pending
    /\ pending' = FALSE
    /\ svc' = IF svc = "idle" THEN "cat" ELSE svc
    /\ missed' = (svc # "idle")
    /\ UNCHANGED <<leases, files, zone, hook, copy, shared, served, events,
                   kills, history>>

SyncCat ==
    /\ svc = "cat"
    /\ copy' = zone /\ svc' = "mv"
    /\ UNCHANGED <<leases, files, zone, hook, pending, shared, served, missed,
                   events, kills, history>>

(* Mutant: unbound is not reloaded. *)
SyncMoveOnly ==
    /\ svc = "mv"
    /\ shared' = copy /\ svc' = "idle" /\ copy' = {}
    /\ UNCHANGED <<leases, files, zone, hook, pending, served, missed, events,
                   kills, history>>

SyncMove ==
    /\ svc = "mv"
    /\ shared' = copy /\ svc' = "reload"
    /\ UNCHANGED <<leases, files, zone, hook, pending, copy, served, missed,
                   events, kills, history>>

SyncReload ==
    /\ svc = "reload"
    /\ served' = shared /\ svc' = "idle" /\ copy' = {}
    /\ UNCHANGED <<leases, files, zone, hook, pending, shared, missed, events,
                   kills, history>>

---------------------------------------------------------------------------

Kill == kills < MaxKills /\ kills' = kills + 1

(* A hook is killed, as with a restart of Kea, or its disk is full.        *)
KillHook(h) ==
    /\ ~At(h, "idle") /\ Kill
    /\ Exit(h, FALSE)
    /\ UNCHANGED <<leases, facts, zone, sync, events>>

KillSync ==
    /\ svc # "idle" /\ Kill
    /\ svc' = "idle" /\ copy' = {} /\ missed' = TRUE
    /\ UNCHANGED <<leases, files, zone, hook, pending, shared, served, events,
                   history>>

HookStep(h) ==
    \/ ClearFact(h) \/ OpenFact(h) \/ EchoFact(h) \/ FindFacts(h)
    \/ CatDone(h) \/ Compare(h) \/ MoveZone(h)
    \/ \E a \in Addrs : CatFact(h, a) \/ CatFails(h, a)

SyncStep == PathTriggers \/ SyncCat \/ SyncMove \/ SyncReload

Next ==
    \/ KeaEvent \/ SyncStep \/ KillSync
    \/ \E h \in Hooks : HookStep(h) \/ KillHook(h)

Spec == Init /\ [][Next]_vars

(* Commands return, and systemd handles the changes it watches for.        *)
FairSpec == Spec /\ WF_vars(SyncStep) /\ \A h \in Hooks : WF_vars(HookStep(h))

---------------------------------------------------------------------------
(* Properties. *)

TypeOK ==
    /\ leases \in [Addrs -> Clients \cup {Nobody}]
    /\ facts \in [Addrs -> {Absent} \cup SUBSET Names]
    /\ writers \in [Addrs -> SUBSET Hooks]
    /\ zone \subseteq Records /\ copy \subseteq Records
    /\ shared \subseteq Records /\ served \subseteq Records
    /\ hook \in [Hooks -> HookState]
    /\ pending \in BOOLEAN /\ svc \in {"idle", "cat", "mv", "reload"}
    /\ events \in 0..MaxEvents /\ kills \in 0..MaxKills
    /\ held \subseteq Clients \X Addrs
    /\ missed \in BOOLEAN /\ alone \subseteq Hooks /\ serial \in BOOLEAN

(* The client had the address, on a LAN interface, and either its MAC has  *)
(* a reservation or pool leases are published and its name is not listed.  *)
Entitled(c, a, holders) ==
    /\ <<c, a>> \in holders /\ c.lan /\ c.name # ""
    /\ c.name \in ReservedFqdns \/ ~PublishPool => c.reserved

Backed(record, holders) ==
    \E c \in Clients :
        /\ Entitled(c, record[2], holders)
        /\ \/ record[1] = c.name
           \/ \E d \in Clients :
                /\ Entitled(d, record[2], holders)
                /\ Length[d.name] < Length[c.name]
                /\ record[1] = Piece[c.name, d.name]

(* options.nix:1068-1075 has a pool client's name "rejected outright if it *)
(* collides with any reservation's hostname".  What the hooks keep of it,  *)
(* however they interleave and whoever dies: a record, in the zone file or *)
(* on its way to unbound, is of a client that had this very address and    *)
(* was free to publish the name, by the lines of reserved-fqdns or by its  *)
(* MAC.  The one other record there can be is what the line of one such    *)
(* client leaves of a longer one's, at an address that both of them had.   *)
RecordsBacked ==
    \A r \in zone \cup copy \cup shared \cup served : Backed(r, held)

RecordsOf(content) ==
    UNION {Lines(content[a]) \X {a} : a \in {b \in Addrs : content[b] # Absent}}

(* Whatever hooks did to each other before, and wherever one was killed: a *)
(* hook that runs to its end with no other one next to it leaves a zone    *)
(* file that has exactly the records of the fact files.                    *)
LoneHookRepairs ==
    [][\A h \in alone :
         hook'[h] = Idle /\ kills' = kills => zone' = RecordsOf(facts')]_vars

Expected ==
    {<<leases[a].name, a>> :
        a \in {b \in Addrs : leases[b] # Nobody /\ Publishable(leases[b])}}

(* As long as lease events are far enough apart for their hooks not to     *)
(* overlap, the zone file is what Kea's leases make it.                    *)
ZoneFollowsLeases == serial /\ Running = {} => zone = Expected

(* Unbound answers from the zone file as soon as the sync is done, unless  *)
(* the change came while the sync was running.                             *)
SyncedUnlessMissed ==
    svc = "idle" /\ ~pending /\ ~missed => served = zone

(* options.nix:384-391: a reservation's hostname is published "via the     *)
(* DHCP-lease hook -- always": once the hooks have ended, each lease of a  *)
(* client with a reservation has its record.                               *)
ReservationPublished ==
    Running = {} =>
        \A a \in Addrs :
            leases[a] # Nobody /\ leases[a].reserved /\ leases[a].lan
                => <<leases[a].name, a>> \in zone

(* config-dns.nix:311-315: the path unit and its service notice "the       *)
(* Kea-side file change", sync it and reload unbound.                      *)
ChangesArrive == <>[](served = zone)

---------------------------------------------------------------------------
(* The inductive invariants behind the safety properties. *)

(* What a hook has in hand comes from leases that were held. *)
HookOK(s, holders) ==
    /\ \A r \in s.records : Backed(r, holders)
    /\ \A i \in 1..Len(s.ops) :
         s.ops[i].client # Nobody =>
            <<s.ops[i].client, s.ops[i].addr>> \in holders
    /\ s.pc \in {"clear", "open", "echo"} => s.ops # <<>>
    /\ s.pc \in {"open", "echo"} => IsPublish(Head(s.ops))

BackedInv ==
    /\ RecordsBacked
    /\ \A a \in Addrs : facts[a] = Absent => writers[a] = {}
    /\ \A a \in Addrs : facts[a] # Absent => \A n \in facts[a] :
         \E c \in Clients : Entitled(c, a, held) /\ c.name = n
    /\ \A h \in Hooks : HookOK(hook[h], held)

(* How far the current content of the zone file has come. *)
SyncInv ==
    ~missed /\ ~pending =>
        /\ svc = "idle" => served = zone
        /\ svc = "mv" => copy = zone
        /\ svc = "reload" => shared = zone

(* What a hook that nobody runs next to has read of the fact files.        *)
LoneOK(s) ==
    /\ s.pc \in {"clear", "open", "echo", "find"} => s.records = {}
    /\ s.pc \in {"cat", "cmp", "mv"} =>
         s.records = {r \in RecordsOf(facts) : r[2] \notin s.names}
    /\ s.pc = "cat" => \A a \in s.names : facts[a] # Absent
    /\ s.pc \in {"cmp", "mv"} => s.names = {}

AloneInv ==
    \A h \in alone :
        /\ ~At(h, "idle") /\ \A k \in Hooks \ {h} : At(k, "idle")
        /\ LoneOK(hook[h])

FactOf(c) == IF c # Nobody /\ Publishable(c) THEN {c.name} ELSE Absent

(* What such a hook still has to do to make the fact files follow Kea.     *)
FollowOK(h) ==
    LET ops == hook[h].ops
    IN /\ \A i \in 1..Len(ops) : ops[i].client = leases[ops[i].addr]
       /\ \A a \in Addrs : \/ facts[a] = FactOf(leases[a])
                           \/ \E i \in 1..Len(ops) : ops[i].addr = a
       /\ hook[h].pc \in {"find", "cat", "cmp", "mv"} => ops = <<>>
       /\ At(h, "echo") =>
            h \in writers[Current(h).addr] /\ facts[Current(h).addr] = {}

SerialInv ==
    serial =>
        /\ Running \subseteq alone
        /\ \A h \in Running : FollowOK(h)
        /\ Running = {} =>
             /\ \A a \in Addrs : facts[a] = FactOf(leases[a])
             /\ zone = RecordsOf(facts)

=============================================================================
