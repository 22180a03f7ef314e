------------------------------ MODULE BootMenu ------------------------------
(***************************************************************************)
(* Step 5 of prepare(): what is in the GRUB menus                          *)
(* (packages/pxe-boot-prepare/src/lib.rs:324-504, grub/entry.rs,           *)
(* grub/menu.rs), which of its entries is the default of each interface    *)
(* and of each reserved client, what prepare() warns of, and what a        *)
(* client's GRUB makes of the files.  PxeService has the files' life among *)
(* the other steps of prepare(), without what they say.                    *)
(***************************************************************************)
EXTENDS Naturals, Sequences, FiniteSets

CONSTANTS
    Isos, Scripts,  \* file names of ISOs, names of autoinstall scripts
    ScriptsOf,      \* config.autoinstall
    Distro, Arch,   \* what detection says of each ISO
    OffMount,       \* the ISOs whose kernel is not below the mount point
    Interfaces, Clients,
    On,             \* the interface a client is connected to
    Reservations,   \* of each interface, in order
    Cpu,            \* $grub_cpu of each client
    Bios,           \* the clients that boot grub.pxe, which has no `['
    Configs,        \* the default entries a configuration may ask for
    Scans,          \* what detection may come to: iso_infos and failed_isos
    None,           \* no such value
    MaxRuns, MaxFaults, MaxBoots, MaxNest   \* bounds

Wishes == [iso : Isos \cup {None}, script : Scripts \cup {"", None}]
Subjects == Interfaces \cup Clients

ASSUME ConfigAssumption ==
    /\ ScriptsOf \in [Isos -> Seq(Scripts)]
    /\ Distro \in [Isos -> {"nixos", "ubuntu", "rhel"}]
    /\ "" \notin Scripts /\ None \notin Isos \cup Scripts \cup {""} \cup Nat
    /\ On \in [Clients -> Interfaces] /\ Bios \subseteq Clients
    /\ Interfaces \cap Clients = {}
    /\ Configs \subseteq [Subjects -> Wishes]
    /\ Scans \subseteq [infos : Seq(Isos), failed : Seq(Isos)]
ASSUME UniqueAssumption ==
    /\ \A scan \in Scans : \A a, b \in DOMAIN scan.infos :
           scan.infos[a] = scan.infos[b] => a = b
    /\ \A i \in Interfaces :
           /\ Reservations[i] \in Seq({r \in Clients : On[r] = i})
           /\ \A a, b \in DOMAIN Reservations[i] :
                 Reservations[i][a] = Reservations[i][b] => a = b
ASSUME BoundsAssumption ==
    /\ MaxRuns \in Nat /\ MaxFaults \in Nat /\ MaxBoots \in Nat
    /\ MaxNest \in Nat \ {0}

VARIABLES
    conf,       \* the wish of each interface and of each reservation
    scan,       \* iso_infos and failed_isos of the run
    task,       \* generate_grub_menu of each interface
    warned,     \* whose default prepare() says will have no effect
    files,      \* grub.cfg of an interface, grub.cfg-override-<mac> of a client
    grub,       \* each client's boot loader
    runs, faults, boots

vars == <<conf, scan, task, warned, files, grub, runs, faults, boots>>
run == <<conf, scan, warned, runs>>

---------------------------------------------------------------------------
(* Menu entries *)

(* generate_boot_params: of the command line, where the seed is fetched    *)
(* from.  Script 0 is the base entry.                                      *)
NixosSeedUrl(s) == None
UbuntuSeedUrl(s) == IF s = 0 THEN None ELSE "dir"
RhelSeedUrl(s) == IF s = 0 THEN None ELSE "file"

(* Mutant: the placeholder of the directory's URL replaced by the file's.  *)
SeedUrlOfFile(d, s) == IF d = "nixos" THEN NixosSeedUrl(s) ELSE RhelSeedUrl(s)

SeedUrl(d, s) ==
    CASE d = "nixos" -> NixosSeedUrl(s)
      [] d = "ubuntu" -> UbuntuSeedUrl(s)
      [] d = "rhel" -> RhelSeedUrl(s)

ToGrubCpu == [x86_64 |-> "x86_64", aarch64 |-> "arm64", i686 |-> "i386"]

(* Mutant: the name Linux has for the architecture.                        *)
LinuxCpu(iso) == Arch[iso]

(* None: no condition around the entry.                                    *)
GrubCpu(iso) ==
    IF Arch[iso] \in DOMAIN ToGrubCpu THEN ToGrubCpu[Arch[iso]] ELSE None

Entry(iso, s, position) ==
    [iso |-> iso, script |-> s, position |-> position, cpu |-> GrubCpu(iso),
     seed |-> SeedUrl(Distro[iso], s)]

Entries ==
    [iso : Isos, script : Nat, position : Nat,
     cpu : {"x86_64", "arm64", "i386", None}, seed : {"dir", "file", None}]

ScriptName(e) == IF e.script = 0 THEN None ELSE ScriptsOf[e.iso][e.script]

---------------------------------------------------------------------------
(* Default entries *)

Reserved == {r \in Clients : \E n \in DOMAIN Reservations[On[r]] :
                                  Reservations[On[r]][n] = r}

HasOwn(r) == conf[r].iso # None \/ conf[r].script # None

Or(a, b) == IF a # None THEN a ELSE b

(* Field by field, the reservation before its interface.                   *)
Wish(x) ==
    IF x \in Interfaces
    THEN conf[x]
    ELSE [iso |-> Or(conf[x].iso, conf[On[x]].iso),
          script |-> Or(conf[x].script, conf[On[x]].script)]

Answers(e, w) ==
    /\ e.iso = w.iso
    /\ IF w.script \in {None, ""}
       THEN e.script = 0 ELSE ScriptName(e) = w.script

(* Mutant: the number of the entry among GRUB's, which counts from 0.      *)
OneBasedPosition(es, w) ==
    LET found == {n \in DOMAIN es : Answers(es[n], w)}
    IN IF found = {} THEN None
       ELSE CHOOSE n \in found : \A k \in found : n <= k

(* The first entry that answers the wish; None if there is none, as when   *)
(* no ISO is wished for.                                                   *)
DefaultPosition(es, w) ==
    LET found == {n \in DOMAIN es : Answers(es[n], w)}
    IN IF found = {} THEN None
       ELSE es[CHOOSE n \in found : \A k \in found : n <= k].position

(* Mutant: the script is looked for among those of all ISOs.               *)
NoEffectAnyScript(w, infos) ==
    /\ w.iso # None
    /\ \/ \A n \in DOMAIN infos : infos[n] # w.iso
       \/ /\ w.script \notin {None, ""}
          /\ \A iso \in Isos : \A s \in DOMAIN ScriptsOf[iso] :
                ScriptsOf[iso][s] # w.script

(* push_default_pair_warnings                                              *)
NoEffect(w, infos) ==
    /\ w.iso # None
    /\ \/ \A n \in DOMAIN infos : infos[n] # w.iso
       \/ /\ w.script \notin {None, ""}
          /\ \A s \in DOMAIN ScriptsOf[w.iso] : ScriptsOf[w.iso][s] # w.script

(* Interfaces and reservations with a default of their own.                *)
Warnings(infos) ==
    {x \in Interfaces \cup {r \in Reserved : HasOwn(r)} :
        NoEffect(Wish(x), infos)}

---------------------------------------------------------------------------
(* generate_grub_menu *)

NewTask == [pc |-> "entries", iso |-> 1, script |-> 0, position |-> 0,
            entries |-> <<>>, file |-> 0]
Torn == [state |-> "torn", entries |-> <<>>, default |-> None,
         placeholders |-> <<>>, wish |-> [iso |-> None, script |-> None]]
Absent == [Torn EXCEPT !.state = "absent"]
Off == [pc |-> "off", own |-> 0, nest |-> 0, menu |-> Absent, at |-> 0,
        mixed |-> FALSE]

Init ==
    /\ conf \in Configs /\ scan \in Scans
    /\ task = [i \in Interfaces |-> [NewTask EXCEPT !.pc = "idle"]]
    /\ warned = {} /\ files = [x \in Subjects |-> Absent]
    /\ grub = [c \in Clients |-> Off]
    /\ runs = 0 /\ faults = 0 /\ boots = 0

Ended(t) == t.pc \in {"idle", "done", "failed"}

(* A run of prepare() comes to step 5, perhaps with a new configuration.   *)
(* All interfaces are done for at the same time.                           *)
Start(c, sc) ==
    /\ runs < MaxRuns /\ runs' = runs + 1
    /\ \A i \in Interfaces : Ended(task[i])
    /\ conf' = c /\ scan' = sc
    /\ warned' = Warnings(sc.infos)'
    /\ task' = [i \in Interfaces |-> NewTask]
    /\ UNCHANGED <<files, grub, faults, boots>>

Become(i, t) ==
    task' = [task EXCEPT ![i] = t] /\ UNCHANGED <<run, faults, boots>>

Unlisted(i) == task[i].pc = "entries" /\ task[i].iso \in DOMAIN scan.infos

(* A list is made at a stretch: there is nothing to await in it.           *)
Listing(i) ==
    /\ Unlisted(i)
    /\ \A j \in Interfaces \ {i} : Unlisted(j) => task[j] = NewTask
Iso(i) == scan.infos[task[i].iso]

(* Mutant: position is not counted up.                                     *)
AddUncounted(i) ==
    LET t == task[i] IN
    Become(i, [t EXCEPT
        !.entries = Append(@, Entry(Iso(i), t.script, t.position)),
        !.script = @ + 1])

Add(i) ==
    LET t == task[i] IN
    Become(i, [t EXCEPT
        !.entries = Append(@, Entry(Iso(i), t.script, t.position)),
        !.position = @ + 1, !.script = @ + 1])

(* create_entry for the ISO itself (script 0), then for each script.       *)
AddEntry(i) ==
    /\ Listing(i) /\ Iso(i) \notin OffMount
    /\ task[i].script <= Len(ScriptsOf[Iso(i)])
    /\ Add(i) /\ UNCHANGED <<files, grub>>

(* On to the next ISO.  Without a kernel below the mount point there is no *)
(* base entry, and nothing of this ISO is listed.                          *)
NextIso(i) ==
    /\ Listing(i)
    /\ \/ Iso(i) \in OffMount
       \/ task[i].script > Len(ScriptsOf[Iso(i)])
    /\ Become(i, [task[i] EXCEPT !.iso = @ + 1, !.script = 0])
    /\ UNCHANGED <<files, grub>>

(* create_dir_all                                                          *)
MakeDir(i) ==
    /\ task[i].pc = "entries" /\ task[i].iso \notin DOMAIN scan.infos
    /\ Become(i, [task[i] EXCEPT !.pc = "open"])
    /\ UNCHANGED <<files, grub>>

(* The files in their order: grub.cfg, then one for each reservation.      *)
Subject(i, n) == IF n = 0 THEN i ELSE Reservations[i][n]
Target(i) == Subject(i, task[i].file)
Pending(i) == task[i].pc = "open" /\ task[i].file <= Len(Reservations[i])
IsWritten(i, n) == n = 0 \/ HasOwn(Subject(i, n))

SkipReservation(i) ==
    /\ Pending(i) /\ ~IsWritten(i, task[i].file)
    /\ Become(i, [task[i] EXCEPT !.file = @ + 1])
    /\ UNCHANGED <<files, grub>>

(* The file that a client is in.                                           *)
File(c) == IF grub[c].own = 0 THEN On[c] ELSE c

(* tokio::fs::write truncates the file, then writes it, the very file that *)
(* clients are fetching: their place in it is not that of any entry now.   *)
OpenFile(i) ==
    /\ Pending(i) /\ IsWritten(i, task[i].file)
    /\ files' = [files EXCEPT ![Target(i)] = Torn]
    /\ grub' = [c \in Clients |->
                   IF grub[c].pc = "entries" /\ File(c) = Target(i)
                   THEN [grub[c] EXCEPT !.at = 0] ELSE grub[c]]
    /\ Become(i, [task[i] EXCEPT !.pc = "write"])

(* write_grub_cfg: the same entries and placeholders for all, and the      *)
(* default of the one the file is for.                                     *)
Rendered(i, x) ==
    [state |-> "whole", entries |-> task[i].entries,
     default |-> DefaultPosition(task[i].entries, Wish(x)),
     placeholders |-> scan.failed, wish |-> Wish(x)]

WriteFile(i) ==
    /\ task[i].pc = "write"
    /\ files' = [files EXCEPT ![Target(i)] = Rendered(i, Target(i))]
    /\ Become(i, [task[i] EXCEPT !.pc = "open", !.file = @ + 1])
    /\ UNCHANGED grub

Finish(i) ==
    /\ task[i].pc = "open" /\ task[i].file > Len(Reservations[i])
    /\ Become(i, [task[i] EXCEPT !.pc = "done"])
    /\ UNCHANGED <<files, grub>>

Generate(i) ==
    \/ AddEntry(i) \/ NextIso(i) \/ MakeDir(i) \/ SkipReservation(i)
    \/ OpenFile(i) \/ WriteFile(i) \/ Finish(i)

(* A directory or a file that cannot be written ends this interface's      *)
(* task, and a killed process all of them.                                 *)
Fail(S) ==
    /\ faults < MaxFaults /\ faults' = faults + 1
    /\ \E i \in S : ~Ended(task[i])
    /\ task' = [i \in Interfaces |->
                    IF i \in S /\ ~Ended(task[i])
                    THEN [task[i] EXCEPT !.pc = "failed"] ELSE task[i]]
    /\ UNCHANGED <<run, files, grub, boots>>

Writing(i) ==
    \/ task[i].pc = "entries" /\ task[i].iso \notin DOMAIN scan.infos
    \/ Pending(i) /\ IsWritten(i, task[i].file)
    \/ task[i].pc = "write"

(* Mutant: the error of one file is not that of the interface.             *)
FailWriteGoingOn(i) ==
    /\ task[i].pc = "write" /\ faults < MaxFaults /\ faults' = faults + 1
    /\ task' = [task EXCEPT ![i] = [@ EXCEPT !.pc = "open", !.file = @ + 1]]
    /\ UNCHANGED <<run, files, grub, boots>>

FailWrite(i) ==
    Writing(i) /\ Fail({i})

Kill == Fail(Interfaces)

---------------------------------------------------------------------------
(* A client's GRUB.  It runs a menu file as it comes, block by block: the  *)
(* test for the override, the default, the entries, and at the end the     *)
(* placeholders and "Reload Grub".  A file that is rewritten under it goes *)
(* on, from the old one's place, wherever that is in the new one.  (A      *)
(* block that takes half of an entry counts as one without it.)            *)

Set(c, g) == grub' = [grub EXCEPT ![c] = g]
ClientStep == UNCHANGED <<run, task, files, faults>>
Content(c) == files[File(c)]

(* configfile: the interface's menu, or one override more.                 *)
Enter(c, own) ==
    Set(c, IF grub[c].nest < MaxNest
           THEN [Off EXCEPT !.pc = "test", !.own = own,
                            !.nest = grub[c].nest + 1]
           ELSE [Off EXCEPT !.pc = "lost", !.nest = MaxNest])

(* A file that does not exist, or has no menu, returns to the one whose    *)
(* test named it.                                                          *)
Back(c) ==
    Set(c, IF grub[c].own = 0
           THEN [Off EXCEPT !.pc = "prompt", !.nest = grub[c].nest]
           ELSE [Off EXCEPT !.pc = "default", !.own = grub[c].own - 1,
                            !.nest = grub[c].nest - 1])

(* The client is switched on, or off and on again.                         *)
PowerOn(c) ==
    /\ boots < MaxBoots /\ boots' = boots + 1
    /\ Set(c, [Off EXCEPT !.pc = "test", !.nest = 1])
    /\ ClientStep

(* The head of every menu file names the client's override if it exists,   *)
(* and in any case, to no effect, where there is no `['.                   *)
ReadTest(c) ==
    /\ grub[c].pc = "test"
    /\ CASE Content(c).state # "whole" -> Back(c)
         [] Content(c).state = "whole" /\ files[c].state # "absent" ->
                Enter(c, grub[c].own + 1)
         [] Content(c).state = "whole" /\ files[c].state = "absent" ->
                Set(c, [grub[c] EXCEPT !.pc = "default"])

(* `wish' is history: whose default it is.                                 *)
ReadDefault(c) ==
    /\ grub[c].pc = "default"
    /\ IF Content(c).state = "whole"
       THEN Set(c, [grub[c] EXCEPT
                      !.pc = "entries", !.at = 1,
                      !.menu = [Torn EXCEPT !.default = Content(c).default,
                                            !.wish = Content(c).wish]])
       ELSE Back(c)

(* The k-th entry, the next one unless the file has been rewritten.        *)
ReadEntry(c, k) ==
    /\ grub[c].pc = "entries" /\ Content(c).state = "whole"
    /\ grub[c].at \in {0, k}
    /\ Set(c, [grub[c] EXCEPT
                 !.at = k + 1, !.mixed = @ \/ grub[c].at = 0,
                 !.menu.entries = Append(@, Content(c).entries[k])])

ReadEnd(c) ==
    /\ grub[c].pc = "entries" /\ Content(c).state = "whole"
    /\ grub[c].at \in {0, Len(Content(c).entries) + 1}
    /\ Set(c, [grub[c] EXCEPT
                 !.pc = "menu", !.mixed = @ \/ grub[c].at = 0,
                 !.menu.state = "whole",
                 !.menu.placeholders = Content(c).placeholders])

(* Without `[' every condition counts as true.                             *)
Visible(c, e) == c \in Bios \/ e.cpu \in {None, Cpu[c]}

(* Entries for other CPUs are not in the menu at all.  Placeholders, and   *)
(* "Reload Grub" at the end, are.                                          *)
Shown(c, menu) == {n \in DOMAIN menu.entries : Visible(c, menu.entries[n])}
Reload(c, menu) == Cardinality(Shown(c, menu)) + Len(menu.placeholders)

(* The file ends where the client is: it is being written, or the new one  *)
(* is shorter.  What came of it is a menu if it has an entry.              *)
ReadCut(c) ==
    /\ grub[c].pc = "entries"
    /\ Content(c).state # "whole" \/ grub[c].at = 0
    /\ IF Shown(c, grub[c].menu) = {} THEN Back(c)
       ELSE Set(c, [grub[c] EXCEPT !.pc = "menu"])

Read(c) ==
    /\ ReadTest(c) \/ ReadDefault(c) \/ ReadEnd(c) \/ ReadCut(c)
       \/ \E k \in DOMAIN Content(c).entries : ReadEntry(c, k)
    /\ ClientStep /\ UNCHANGED boots

(* GRUB counts what it shows, from 0.                                      *)
Counted(c, menu, n) == Cardinality({k \in Shown(c, menu) : k < n})

(* It takes the first item if there is none of the default's number.  A    *)
(* menu that was cut has no "Reload Grub".                                 *)
Number(c, menu) ==
    IF \/ menu.default < Reload(c, menu)
       \/ menu.default = Reload(c, menu) /\ menu.state = "whole"
    THEN menu.default ELSE 0

(* The entry chosen; none if it is a placeholder or "Reload Grub".         *)
Chosen(c, menu) ==
    {menu.entries[n] :
        n \in {k \in Shown(c, menu) :
                  Counted(c, menu, k) = Number(c, menu)}}

(* After five seconds the default is taken, if there is one.               *)
Timeout(c) ==
    LET menu == grub[c].menu IN
    /\ grub[c].pc = "menu" /\ menu.default # None
    /\ ClientStep /\ UNCHANGED boots
    /\ IF Number(c, menu) = Reload(c, menu)
       THEN Enter(c, 0)
       ELSE Set(c, [grub[c] EXCEPT !.pc = "chosen"])

Boot(c) == Read(c) \/ Timeout(c)

Next ==
    \/ \E c \in Configs, sc \in Scans : Start(c, sc)
    \/ \E i \in Interfaces : Generate(i) \/ FailWrite(i)
    \/ Kill
    \/ \E c \in Clients : PowerOn(c) \/ Boot(c)

Spec == Init /\ [][Next]_vars

(* System calls return, and a boot loader goes on.  Nobody has to start a  *)
(* run or to switch a client on or off.                                    *)
FairSpec ==
    /\ Spec
    /\ \A i \in Interfaces : WF_vars(Generate(i))
    /\ \A c \in Clients : WF_vars(Boot(c))

---------------------------------------------------------------------------
(* Properties. *)

MenuContent ==
    [state : {"absent", "torn", "whole"}, entries : Seq(Entries),
     default : Nat \cup {None}, placeholders : Seq(Isos), wish : Wishes]
TaskState ==
    [pc : {"idle", "entries", "open", "write", "done", "failed"},
     iso : Nat \ {0}, script : Nat, position : Nat, entries : Seq(Entries),
     file : Nat]
BootState ==
    [pc : {"off", "test", "default", "entries", "menu", "prompt", "chosen",
           "lost"},
     own : Nat, nest : 0..MaxNest, menu : MenuContent, at : Nat,
     mixed : BOOLEAN]

TypeOK ==
    /\ conf \in Configs /\ scan \in Scans
    /\ task \in [Interfaces -> TaskState] /\ warned \subseteq Subjects
    /\ files \in [Subjects -> MenuContent] /\ grub \in [Clients -> BootState]
    /\ \A c \in Clients : grub[c].own <= grub[c].nest
    /\ runs \in 0..MaxRuns /\ faults \in 0..MaxFaults /\ boots \in 0..MaxBoots

HasList(i) == task[i].pc \in {"open", "write", "done"}

(* d comes later in the menu than e.                                       *)
Later(d, e) ==
    \/ d.iso = e.iso /\ e.script < d.script
    \/ \E a, b \in DOMAIN scan.infos :
          a < b /\ scan.infos[a] = e.iso /\ scan.infos[b] = d.iso

(* How an autoinstall seed is laid out for the distribution that reads it  *)
(* (AutoinstallManager; Autoinstall has the details).                      *)
SeedLayout(d) == IF d = "ubuntu" THEN "dir" ELSE "file"

(* lib.rs:332-386: the menu lists every bootable ISO with its scripts,     *)
(* each once and in order, numbered as GRUB counts them, and each fetches  *)
(* its seed the way it is laid out.  The position is counted by hand in    *)
(* two nested loops that skip what fails.                                  *)
MenuListsAll ==
    \A i \in Interfaces : HasList(i) =>
        LET es == task[i].entries IN
        /\ \A n \in DOMAIN es :
             /\ es[n] = Entry(es[n].iso, es[n].script, n - 1)
             /\ es[n].seed \in {None, SeedLayout(Distro[es[n].iso])}
             /\ \A k \in 1..(n - 1) : Later(es[n], es[k])
        /\ \A m \in DOMAIN scan.infos : scan.infos[m] \notin OffMount =>
             \A s \in 0..Len(ScriptsOf[scan.infos[m]]) :
               \E n \in DOMAIN es : es[n].iso = scan.infos[m] /\ es[n].script = s

(* The ISO is found, but no entry can be made of it: it is not listed.     *)
Refused(iso) == iso \in OffMount /\ \E n \in DOMAIN scan.infos :
                                        scan.infos[n] = iso

(* The warnings come from the configuration and the names discovered, the  *)
(* defaults from the entries built (lib.rs:270-290, 642-648): a default    *)
(* that is wished for has no position exactly if it is warned of, or its   *)
(* ISO is refused, which the warnings do not know of.                      *)
WarnedOrHonoured ==
    \A i \in Interfaces : HasList(i) =>
        \A x \in {i} \cup {r \in Reserved : On[r] = i /\ HasOwn(r)} :
            Wish(x).iso # None =>
                (DefaultPosition(task[i].entries, Wish(x)) = None
                    <=> x \in warned \/ Refused(Wish(x).iso))

(* An interface whose task is done has its menu and all overrides as this  *)
(* run renders them, whatever earlier or broken off runs left, and         *)
(* whatever became of the other interfaces.                                *)
SettledIsCurrent ==
    \A i \in Interfaces : task[i].pc = "done" =>
        /\ files[i] = Rendered(i, i)
        /\ \A n \in DOMAIN Reservations[i] : HasOwn(Reservations[i][n]) =>
             files[Reservations[i][n]] = Rendered(i, Reservations[i][n])

AtMenu(c) == grub[c].pc = "menu"
Wished(menu) ==
    \E n \in DOMAIN menu.entries : Answers(menu.entries[n], menu.wish)

(* What the configured default names, if it has come down the wire, is     *)
(* what a client boots after the timeout, however the files are written    *)
(* and cut while it fetches them.  Left out are a menu of two versions,    *)
(* the default of one and entries of another, and one where an entry up to *)
(* the default is hidden from that client: GRUB does not count hidden      *)
(* entries, the position does.                                             *)
HonoursWish ==
    \A c \in Clients :
        LET menu == grub[c].menu IN
        AtMenu(c) /\ ~grub[c].mixed /\ Wished(menu) =>
            /\ menu.default # None
            /\ (\A n \in 1..(menu.default + 1) : Visible(c, menu.entries[n])) =>
                 /\ Chosen(c, menu) # {}
                 /\ \A e \in Chosen(c, menu) : Answers(e, menu.wish)

(* options.nix:396-404: a reservation's default is what its client boots,  *)
(* so it gets to some menu.  Violated: the override names itself.          *)
OverrideIsReached ==
    \A c \in Clients :
        grub[c].pc = "test" ~> grub[c].pc \in {"menu", "prompt"}

---------------------------------------------------------------------------
(* The inductive invariants. *)

(* Script s of the n-th ISO is behind the task.                            *)
Passed(t, n, s) == n < t.iso \/ (n = t.iso /\ s < t.script)

(* What is behind the task is listed, in order, and nothing else.          *)
ListedSoFar(t) ==
    LET es == t.entries
        infos == scan.infos
    IN /\ t.position = Len(es) /\ t.iso \in 1..(Len(infos) + 1)
       /\ t.iso \in DOMAIN infos =>
            IF infos[t.iso] \in OffMount
            THEN t.script = 0 ELSE t.script <= Len(ScriptsOf[infos[t.iso]]) + 1
       /\ \A n \in DOMAIN es :
            /\ es[n] = Entry(es[n].iso, es[n].script, n - 1)
            /\ es[n].script \in 0..Len(ScriptsOf[es[n].iso])
            /\ es[n].iso \notin OffMount
            /\ \E a \in DOMAIN infos :
                  infos[a] = es[n].iso /\ Passed(t, a, es[n].script)
            /\ \A k \in 1..(n - 1) : Later(es[n], es[k])
       /\ \A a \in DOMAIN infos : infos[a] \notin OffMount =>
            \A s \in 0..Len(ScriptsOf[infos[a]]) : Passed(t, a, s) =>
              \E n \in DOMAIN es : es[n].iso = infos[a] /\ es[n].script = s

ListInv ==
    \A i \in Interfaces :
        /\ ListedSoFar(task[i])
        /\ HasList(i) => task[i].iso = Len(scan.infos) + 1
        /\ task[i].pc # "idle" => warned = Warnings(scan.infos)

(* The files behind the task are as this run renders them.                 *)
WrittenSoFar(i) ==
    /\ task[i].file \in 0..(Len(Reservations[i]) + 1)
    /\ task[i].pc = "entries" => task[i].file = 0
    /\ task[i].pc = "write" =>
         /\ task[i].file <= Len(Reservations[i]) /\ IsWritten(i, task[i].file)
         /\ files[Target(i)].state = "torn"
    /\ task[i].pc = "done" => task[i].file = Len(Reservations[i]) + 1
    /\ HasList(i) =>
         \A n \in 0..Len(Reservations[i]) :
           n < task[i].file /\ IsWritten(i, n) =>
             files[Subject(i, n)] = Rendered(i, Subject(i, n))

WriteInv == \A i \in Interfaces : WrittenSoFar(i)

MenuInv == TypeOK /\ ListInv /\ WriteInv

(* The default is the number of the entry that answers, of all entries.    *)
Sound(menu) ==
    /\ menu.default = DefaultPosition(menu.entries, menu.wish)
    /\ \A n \in DOMAIN menu.entries : menu.entries[n].position = n - 1

(* The same of what has come of one, if the default's entry has.           *)
SoundSoFar(menu) ==
    /\ Wished(menu) => menu.default = DefaultPosition(menu.entries, menu.wish)
    /\ \A n \in DOMAIN menu.entries : menu.entries[n].position = n - 1

(* What a client has of a file that has not been rewritten since.          *)
Fetched(c) ==
    LET g == grub[c] IN
    /\ g.at \in 1..(Len(Content(c).entries) + 1)
    /\ g.menu.default = Content(c).default /\ g.menu.wish = Content(c).wish
    /\ g.menu.entries = SubSeq(Content(c).entries, 1, g.at - 1)

ClientInv(c) ==
    LET Placed == grub[c].pc = "entries" /\ grub[c].at # 0
    IN /\ Placed => Content(c).state = "whole"
       /\ ~grub[c].mixed => /\ SoundSoFar(grub[c].menu)
                            /\ Placed => Fetched(c)

BootInv ==
    /\ \A x \in Subjects : Sound(files[x])
    /\ \A c \in Clients : ClientInv(c)

=============================================================================
