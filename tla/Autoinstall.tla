---------------------------- MODULE Autoinstall ----------------------------
(***************************************************************************)
(* AutoinstallManager::prepare                                             *)
(* (packages/pxe-boot-prepare/src/autoinstall/manager.rs): one concurrent  *)
(* task per autoinstall script, which installs the script as the seed that *)
(* nginx serves to the installer.  An Ubuntu ISO wants a directory         *)
(* <name>/ with user-data and meta-data, any other ISO a file <name>.  The *)
(* layout depends on what this run detected (lib.rs:252-272), while the    *)
(* seeds of earlier runs, with other images under the same file name, are  *)
(* still there; calls fail, runs crash, and nothing checks that two        *)
(* scripts of an ISO have different names.                                 *)
(***************************************************************************)
EXTENDS Naturals

CONSTANTS
    Isos,           \* keys of config.autoinstall
    Scripts,        \* the scripts of all ISOs
    IsoOf,          \* the ISO a script is for
    NameOf,         \* its scriptName
    MaxFaults,      \* bound: crashes and failing calls in a behaviour
    MaxChanges      \* bound: the operator's changes in a behaviour

ASSUME ScriptsAssumption == IsoOf \in [Scripts -> Isos]
ASSUME BoundsAssumption ==
    MaxFaults \in Nat /\ MaxChanges \in Nat

Path(s) == <<IsoOf[s], NameOf[s]>>
Paths == {Path(s) : s \in Scripts}
SameSeed(s) == {t \in Scripts : Path(t) = Path(s)}

VARIABLES
    seeds,      \* what is at each path below unattented-install
    ubuntuIsos, \* the ISOs that hold an Ubuntu image now
    gen,        \* generation of the configuration, hence of the sources
    running,    \* prepare() is running
    pc,         \* each task's next call; its outcome once the run is over
    ubuntu,     \* the run's distro_by_iso: where it says Ubuntu
    conf,       \* the run's configuration
    faults, changes,
    hit         \* history: the tasks of this run that a fault has touched

vars == <<seeds, ubuntuIsos, gen, running, pc, ubuntu, conf, faults, changes,
          hit>>
world == <<ubuntuIsos, gen, changes>>
run == <<running, ubuntu, conf>>

(* A copy of a script.  Its mode is that of the source, 0444, from the     *)
(* moment it is created; it is whole when fs::copy returns.                *)
Copies == [of : Scripts, gen : 0..MaxChanges, whole : BOOLEAN]
CopyOf(s, whole) == [of |-> s, gen |-> conf, whole |-> whole]
AtMostOne == {{}} \cup {{c} : c \in Copies}

(* dir: the path is a directory, and data is user-data in it; else data is *)
(* the file at the path.                                                   *)
Nodes == [dir : BOOLEAN, data : AtMostOne, meta : BOOLEAN]
Absent == [dir |-> FALSE, data |-> {}, meta |-> FALSE]

AtWork == {"ensure_iso", "stat", "unlink", "mkdir", "remove", "open", "copy",
           "remove_meta", "write_meta"}
Ended == {"ok", "failed"}

Init ==
    /\ seeds = [p \in Paths |-> Absent]
    /\ ubuntuIsos \in SUBSET Isos /\ gen = 0
    /\ running = FALSE /\ pc = [s \in Scripts |-> "failed"]
    /\ ubuntu = {} /\ conf = 0
    /\ faults = 0 /\ changes = 0 /\ hit = Scripts

Fault == faults < MaxFaults /\ faults' = faults + 1
NoFault == UNCHANGED <<faults, hit>>

IsUbuntu(s) == IsoOf[s] \in ubuntu

---------------------------------------------------------------------------
(* The run. *)

(* Detection may have failed for one ISO: it is then missing in            *)
(* distro_by_iso, and is_ubuntu is false.                                  *)
Begin ==
    /\ ~running /\ running' = TRUE
    /\ pc' = [s \in Scripts |-> "ensure_iso"] /\ conf' = gen
    /\ \/ ubuntu' = ubuntuIsos /\ hit' = {} /\ UNCHANGED faults
       \/ \E i \in ubuntuIsos :
            /\ Fault /\ ubuntu' = ubuntuIsos \ {i}
            /\ hit' = {s \in Scripts : IsoOf[s] = i}
    /\ UNCHANGED <<seeds, world>>

(* Mutant: the tasks are spawned and not waited for. *)
ReturnAtOnce ==
    /\ running /\ running' = FALSE
    /\ UNCHANGED <<seeds, world, pc, ubuntu, conf, faults, hit>>

(* join_all waits for every task, and prepare() only warns of an error.    *)
Return ==
    /\ running /\ \A s \in Scripts : pc[s] \in Ended
    /\ running' = FALSE
    /\ UNCHANGED <<seeds, world, pc, ubuntu, conf, faults, hit>>

---------------------------------------------------------------------------
(* One task, call by call. *)

At(s, label) == running /\ pc[s] = label
Goto(s, label) == pc' = [pc EXCEPT ![s] = label]
Put(s, node) == seeds' = [seeds EXCEPT ![Path(s)] = node]
Node(s) == seeds[Path(s)]

(* ensure_dir of the ISO's directory.                                      *)
EnsureIsoDir(s) ==
    /\ At(s, "ensure_iso")
    /\ Goto(s, IF IsUbuntu(s) THEN "stat" ELSE "remove")
    /\ NoFault /\ UNCHANGED <<seeds, world, run>>

(* ensure_dir of the seed: metadata, remove_file, create_dir_all.          *)
StatSeed(s) ==
    /\ At(s, "stat")
    /\ Goto(s, IF ~Node(s).dir /\ Node(s).data # {} THEN "unlink" ELSE "mkdir")
    /\ NoFault /\ UNCHANGED <<seeds, world, run>>

UnlinkStale(s) ==
    /\ At(s, "unlink")
    /\ IF Node(s) = Absent \/ Node(s).dir
       THEN Goto(s, "failed") /\ UNCHANGED seeds
       ELSE Goto(s, "mkdir") /\ Put(s, Absent)
    /\ NoFault /\ UNCHANGED <<world, run>>

MakeSeedDir(s) ==
    /\ At(s, "mkdir")
    /\ IF Node(s).dir \/ Node(s) = Absent
       THEN Put(s, [Node(s) EXCEPT !.dir = TRUE]) /\ Goto(s, "remove")
       ELSE Goto(s, "failed") /\ UNCHANGED seeds
    /\ NoFault /\ UNCHANGED <<world, run>>

(* Mutant: the destination is not removed before the copy. *)
KeepDest(s) ==
    /\ At(s, "remove") /\ Goto(s, "open")
    /\ NoFault /\ UNCHANGED <<seeds, world, run>>

(* Mutant: what an earlier run has installed is not installed again. *)
SkipInstalled(s) ==
    /\ At(s, "remove")
    /\ IF Node(s).data # {}
       THEN Goto(s, IF IsUbuntu(s) THEN "remove_meta" ELSE "ok")
       ELSE Goto(s, "open")
    /\ NoFault /\ UNCHANGED <<seeds, world, run>>

(* remove_if_exists of the destination: unlink(2) refuses a directory.     *)
RemoveDest(s) ==
    /\ At(s, "remove")
    /\ IF Node(s).dir /\ ~IsUbuntu(s)
       THEN Goto(s, "failed") /\ UNCHANGED seeds
       ELSE Put(s, [Node(s) EXCEPT !.data = {}]) /\ Goto(s, "open")
    /\ NoFault /\ UNCHANGED <<world, run>>

(* fs::copy opens a 0444 file that is there only to be refused.            *)
OpenDest(s) ==
    /\ At(s, "open")
    /\ IF Node(s).data # {}
       THEN Goto(s, "failed") /\ UNCHANGED seeds
       ELSE /\ Put(s, [Node(s) EXCEPT !.data = {CopyOf(s, FALSE)}])
            /\ Goto(s, "copy")
    /\ NoFault /\ UNCHANGED <<world, run>>

(* Mutant: meta-data is left out, as it is empty anyway. *)
CopyDestOnly(s) ==
    /\ At(s, "copy")
    /\ Put(s, [Node(s) EXCEPT !.data = {CopyOf(s, TRUE)}])
    /\ Goto(s, "ok") /\ NoFault /\ UNCHANGED <<world, run>>

(* The copy ends.  A task of the same name that has removed the file       *)
(* meanwhile leaves this one writing to an inode without a name.           *)
CopyDest(s) ==
    /\ At(s, "copy")
    /\ Put(s, [Node(s) EXCEPT !.data =
                 IF @ = {CopyOf(s, FALSE)} THEN {CopyOf(s, TRUE)} ELSE @])
    /\ Goto(s, IF IsUbuntu(s) THEN "remove_meta" ELSE "ok")
    /\ NoFault /\ UNCHANGED <<world, run>>

(* write_fresh of meta-data. *)
RemoveMeta(s) ==
    /\ At(s, "remove_meta")
    /\ Put(s, [Node(s) EXCEPT !.meta = FALSE])
    /\ Goto(s, "write_meta") /\ NoFault /\ UNCHANGED <<world, run>>

WriteMeta(s) ==
    /\ At(s, "write_meta")
    /\ Put(s, [Node(s) EXCEPT !.meta = TRUE])
    /\ Goto(s, "ok") /\ NoFault /\ UNCHANGED <<world, run>>

(* Mutant: try_join_all, which drops the other tasks when one fails. *)
CallFailsAll(s) ==
    /\ running /\ pc[s] \in AtWork
    /\ Fault /\ hit' = hit \cup {s}
    /\ pc' = [t \in Scripts |-> IF pc[t] = "ok" THEN "ok" ELSE "failed"]
    /\ UNCHANGED <<seeds, world, run>>

(* Any call fails.  A copy that fails has created its file.                *)
CallFails(s) ==
    /\ running /\ pc[s] \in AtWork
    /\ Fault /\ hit' = hit \cup {s}
    /\ Goto(s, "failed")
    /\ UNCHANGED <<seeds, world, run>>

Task(s) ==
    \/ EnsureIsoDir(s) \/ StatSeed(s) \/ UnlinkStale(s) \/ MakeSeedDir(s)
    \/ RemoveDest(s) \/ OpenDest(s) \/ CopyDest(s)
    \/ RemoveMeta(s) \/ WriteMeta(s) \/ CallFails(s)

---------------------------------------------------------------------------
(* Crashes and the operator. *)

Crash ==
    /\ running /\ running' = FALSE
    /\ Fault /\ hit' = Scripts
    /\ pc' = [s \in Scripts |-> "failed"]
    /\ UNCHANGED <<seeds, world, ubuntu, conf>>

Change ==
    /\ changes < MaxChanges /\ changes' = changes + 1
    /\ UNCHANGED <<seeds, run, pc, faults, hit>>

(* A new generation of the configuration has new contents of the scripts.  *)
Reconfigure == Change /\ gen' = gen + 1 /\ UNCHANGED ubuntuIsos

(* Another image takes the file name of an ISO.                            *)
ReplaceIso(i) ==
    /\ Change /\ UNCHANGED gen
    /\ \/ ubuntuIsos' = ubuntuIsos \ {i}
       \/ ubuntuIsos' = ubuntuIsos \cup {i}

Step == Return \/ \E s \in Scripts : Task(s)

Operator == Reconfigure \/ \E i \in Isos : ReplaceIso(i)

Next == Begin \/ Step \/ Crash \/ Operator

Spec == Init /\ [][Next]_vars

(* File-system calls return.  Nobody has to start a run.                   *)
FairSpec == Spec /\ WF_vars(Step)

---------------------------------------------------------------------------
(* Properties. *)

TypeOK ==
    /\ seeds \in [Paths -> Nodes]
    /\ ubuntuIsos \subseteq Isos /\ ubuntu \subseteq Isos
    /\ gen \in 0..changes /\ conf \in 0..gen
    /\ running \in BOOLEAN /\ pc \in [Scripts -> AtWork \cup Ended]
    /\ ~running => \A s \in Scripts : pc[s] \in Ended
    /\ faults \in 0..MaxFaults /\ changes \in 0..MaxChanges
    /\ hit \subseteq Scripts

(* The layout that the installer of this run's menu expects, with a whole  *)
(* copy of one of the scripts of that name.                                *)
Servable(s) ==
    /\ (Node(s).dir <=> IsUbuntu(s))
    /\ \E t \in SameSeed(s) : Node(s).data = {CopyOf(t, TRUE)}
    /\ IsUbuntu(s) => Node(s).meta

Alone(s) == SameSeed(s) = {s}

(* manager.rs:41-47: a task that reports success has left a seed its       *)
(* installer can use, and no other task of the run, failing ones included, *)
(* has touched it since; whatever earlier runs, crashed ones and ones for  *)
(* another distribution, had left at its path.                             *)
SucceededIsServable ==
    \A s \in Scripts : Alone(s) /\ pc[s] = "ok" => Servable(s)

(* Two scripts with one name overwrite each other, but what is served when *)
(* the tasks have ended is one of them, whole.                             *)
SharedIsWhole ==
    \A s \in Scripts :
        /\ pc[s] = "ok"
        /\ \A t \in SameSeed(s) : pc[t] \in Ended /\ t \notin hit
        => Servable(s)

(* lib.rs:259-262 and the comment on join_all: a script whose installation *)
(* fails does not take the others with it.  A task that no fault touched   *)
(* fails only over a directory where it wants a file, or over a task of    *)
(* its own name.                                                           *)
FailsAlone ==
    \A s \in Scripts :
        Alone(s) /\ pc[s] = "failed" /\ s \notin hit
        => Node(s).dir /\ ~IsUbuntu(s)

(* Once faults and changes end, going on running prepare() leaves every    *)
(* seed in the layout for its ISO, of the current configuration, though    *)
(* 0444 files, files in place of directories and half copies are there.    *)
(* The exception is a directory where a file is wanted: nothing removes    *)
(* the seed of an Ubuntu image whose name another distribution has taken.  *)
Converges ==
    []<>running =>
        <>[](~running =>
                /\ ubuntu = ubuntuIsos /\ conf = gen
                /\ \A s \in Scripts :
                     Servable(s) \/ (Node(s).dir /\ ~IsUbuntu(s)))

---------------------------------------------------------------------------
(* The inductive invariant behind the safety properties: what is at the    *)
(* path of a task that shares it with no other, at each of its calls.      *)

(* What the task has found out or made of the directory.                   *)
LayoutSoFar(s) ==
    /\ ~Node(s).dir => ~Node(s).meta
    /\ pc[s] \in {"stat", "unlink", "mkdir", "remove_meta", "write_meta"} =>
         IsUbuntu(s)
    /\ pc[s] = "unlink" => ~Node(s).dir /\ Node(s).data # {}
    /\ pc[s] = "mkdir" => Node(s).dir \/ Node(s) = Absent
    /\ pc[s] = "remove" => (IsUbuntu(s) => Node(s).dir)
    /\ pc[s] \in {"open", "copy", "remove_meta", "write_meta", "ok"} =>
         (Node(s).dir <=> IsUbuntu(s))
    /\ pc[s] = "failed" => s \in hit \/ (Node(s).dir /\ ~IsUbuntu(s))

(* What it has made of the file.                                           *)
DataSoFar(s) ==
    /\ pc[s] = "open" => Node(s).data = {}
    /\ pc[s] = "copy" => Node(s).data = {CopyOf(s, FALSE)}
    /\ pc[s] \in {"remove_meta", "write_meta", "ok"} =>
         Node(s).data = {CopyOf(s, TRUE)}
    /\ pc[s] = "ok" /\ IsUbuntu(s) => Node(s).meta

TaskInv == \A s \in Scripts : Alone(s) => LayoutSoFar(s) /\ DataSoFar(s)

SeedInv == TypeOK /\ TaskInv

(* The same for a path that tasks share: what each of them relies on, or   *)
(* which other task is about to put it right.                              *)
PastRemove == {"open", "copy", "remove_meta", "write_meta", "ok"}

LaidOut(s) ==
    /\ pc[s] \in {"stat", "unlink", "mkdir", "remove_meta", "write_meta"} =>
         IsUbuntu(s)
    /\ pc[s] = "remove" => (IsUbuntu(s) => Node(s).dir)
    /\ pc[s] \in PastRemove => (Node(s).dir <=> IsUbuntu(s))

Filled(s) ==
    pc[s] \in PastRemove =>
        \E t \in SameSeed(s) :
            \/ Node(s).data = {} /\ (pc[t] = "open" \/ t \in hit)
            \/ Node(s).data = {CopyOf(t, FALSE)} /\ (pc[t] = "copy" \/ t \in hit)
            \/ Node(s).data = {CopyOf(t, TRUE)}

Described(s) ==
    pc[s] = "ok" /\ IsUbuntu(s) =>
        \/ Node(s).meta
        \/ \E t \in SameSeed(s) : pc[t] = "write_meta" \/ t \in hit

SharedInv == \A s \in Scripts : LaidOut(s) /\ Filled(s) /\ Described(s)

=============================================================================
