----------------------------- MODULE ServeTree ------------------------------
(***************************************************************************)
(* From ISO folders to the raw-ISO tree: IsoDiscovery::discover            *)
(* (packages/pxe-boot-prepare/src/iso/discovery.rs) and ServeTree::rebuild *)
(* (iso/serve_tree.rs), file-system call by file-system call, against an   *)
(* operator who changes the folders meanwhile and against crashes and      *)
(* failing calls.  Only one run at a time does this: PxeServiceProofs      *)
(* proves it of the lock prepare() holds.                                  *)
(*                                                                         *)
(* A link <<s, n>> is the file name n in the s-th folder of                *)
(* iso_folder_paths: the file there, and the symlink that points to it.    *)
(* An absent directory and an empty one are the same here: create_dir_all, *)
(* remove_dir_all and rename(2) treat them alike, and so do clients.       *)
(***************************************************************************)
EXTENDS Naturals

CONSTANTS
    NumFolders,     \* length of iso_folder_paths
    Names,          \* ISO file names
    MaxFaults,      \* bound: crashes and failing calls in a behaviour
    MaxChanges      \* bound: the operator's changes in a behaviour

ASSUME BoundsAssumption ==
    NumFolders \in Nat /\ MaxFaults \in Nat /\ MaxChanges \in Nat

Folders == 1..NumFolders
Links == Folders \X Names
FolderOf(l) == l[1]
NameOf(l) == l[2]

VARIABLES
    files,      \* the ISO files in the folders
    isos,       \* the links in runtime_root/isos, which nginx serves
    staging,    \* the links in runtime_root/isos.new
    pc,         \* where the run is
    todo,       \* the entries, then the symlinks, still to be done
    seen,       \* discover(): the files kept; rebuild(): iso_paths
    failed,     \* one of the symlink() results is an error
    faults, changes,
    steady,     \* history: files there since the scan began and readable
    published   \* history: the tree the last finished rebuild() made

vars == <<files, isos, staging, pc, todo, seen, failed, faults, changes,
          steady, published>>
run == <<pc, todo, seen, failed>>
budget == <<faults, changes>>

Init ==
    /\ files \in SUBSET Links
    /\ isos = {} /\ staging = {}
    /\ pc = "idle" /\ todo = {} /\ seen = {} /\ failed = FALSE
    /\ faults = 0 /\ changes = 0
    /\ steady = {} /\ published = {}

Fault == faults < MaxFaults /\ faults' = faults + 1
NoFault == faults' = faults

(* The run is over: it returns to prepare(), or its process is gone.       *)
End ==
    /\ pc' = "idle" /\ todo' = {} /\ seen' = {} /\ failed' = FALSE
    /\ steady' = {}

Goto(label) == pc' = label /\ UNCHANGED <<todo, seen, failed, steady>>

---------------------------------------------------------------------------
(* IsoDiscovery::discover *)

Discover ==
    /\ pc = "idle"
    /\ pc' = "scan" /\ todo' = Links /\ steady' = files
    /\ UNCHANGED <<files, isos, staging, seen, failed, budget, published>>

(* Mutant: HashMap::insert whatever the map has, so that the last match wins. *)
KeepLast(l) == {k \in seen : NameOf(k) # NameOf(l)} \cup {l}

Keep(l) ==
    IF \E k \in seen : NameOf(k) = NameOf(l) THEN seen ELSE seen \cup {l}

(* The walk meets the entries of a folder in any order, folder by folder.  *)
(* An entry that cannot be read is skipped.                                *)
Look(l) ==
    /\ pc = "scan" /\ l \in todo
    /\ \A k \in todo : FolderOf(l) <= FolderOf(k)
    /\ todo' = todo \ {l}
    /\ \/ /\ seen' = IF l \in files THEN Keep(l) ELSE seen
          /\ NoFault /\ UNCHANGED steady
       \/ /\ l \in files /\ Fault
          /\ steady' = steady \ {l} /\ UNCHANGED seen
    /\ UNCHANGED <<files, isos, staging, pc, failed, changes, published>>

(* Without an ISO prepare() returns before it calls rebuild().             *)
Discovered ==
    /\ pc = "scan" /\ todo = {}
    /\ IF seen = {} THEN End ELSE Goto("clear")
    /\ UNCHANGED <<files, isos, staging, budget, published>>

---------------------------------------------------------------------------
(* ServeTree::rebuild *)

(* remove_dir_all of what a crashed run left, entry by entry.              *)
ClearLeftover(l) ==
    /\ pc = "clear" /\ l \in staging
    /\ staging' = staging \ {l}
    /\ UNCHANGED <<files, isos, run, budget, steady, published>>

(* Mutant: isos.new is not cleared first. *)
CreateStagingOverLeftover ==
    /\ pc = "clear"
    /\ pc' = "link" /\ todo' = seen
    /\ UNCHANGED <<files, isos, staging, seen, failed, budget, steady,
                   published>>

CreateStaging ==
    /\ pc = "clear" /\ staging = {}
    /\ pc' = "link" /\ todo' = seen
    /\ UNCHANGED <<files, isos, staging, seen, failed, budget, steady,
                   published>>

(* Mutant: the arguments of symlink() are swapped. *)
SymlinkSwapped(l) ==
    /\ pc = "link" /\ l \in todo
    /\ todo' = todo \ {l}
    /\ staging' = staging \cup {<<NameOf(l), FolderOf(l)>>}
    /\ UNCHANGED <<files, isos, pc, seen, failed, budget, steady, published>>

(* Mutant: the live directory is populated in place. *)
SymlinkInPlace(l) ==
    /\ pc = "link" /\ l \in todo
    /\ todo' = todo \ {l}
    /\ isos' = isos \cup {l}
    /\ UNCHANGED <<files, staging, pc, seen, failed, budget, steady,
                   published>>

(* One of the concurrent symlink() calls; they are all awaited, the failed *)
(* ones too.  A name that is taken is an error.                            *)
Symlink(l) ==
    /\ pc = "link" /\ l \in todo
    /\ todo' = todo \ {l}
    /\ LET taken == \E k \in staging : NameOf(k) = NameOf(l)
       IN \/ /\ staging' = IF taken THEN staging ELSE staging \cup {l}
             /\ failed' = (failed \/ taken) /\ NoFault
          \/ /\ failed' = TRUE /\ Fault /\ UNCHANGED staging
    /\ UNCHANGED <<files, isos, pc, seen, changes, steady, published>>

(* Mutant: the results of join_all are not looked at. *)
LinkedIgnoringErrors ==
    /\ pc = "link" /\ todo = {}
    /\ Goto("remove")
    /\ UNCHANGED <<files, isos, staging, budget, published>>

Linked ==
    /\ pc = "link" /\ todo = {}
    /\ IF failed THEN End ELSE Goto("remove")
    /\ UNCHANGED <<files, isos, staging, budget, published>>

(* remove_dir_all of the tree that is being served.                        *)
RemoveOld(l) ==
    /\ pc = "remove" /\ l \in isos
    /\ isos' = isos \ {l}
    /\ UNCHANGED <<files, staging, run, budget, steady, published>>

Swap ==
    /\ pc = "remove" /\ isos = {}
    /\ isos' = staging /\ staging' = {} /\ published' = seen
    /\ End
    /\ UNCHANGED <<files, budget>>

(* Any other call fails: rebuild() returns its error, prepare() warns.     *)
Fail ==
    /\ pc \in {"clear", "remove"}
    /\ Fault /\ End
    /\ UNCHANGED <<files, isos, staging, changes, published>>

Crash ==
    /\ pc # "idle"
    /\ Fault /\ End
    /\ UNCHANGED <<files, isos, staging, changes, published>>

---------------------------------------------------------------------------
(* The operator, or a rebuilt set of nixIsos: a file appears, goes away,   *)
(* or is moved to another folder.                                          *)

Change(gone, come) ==
    /\ changes < MaxChanges /\ changes' = changes + 1
    /\ files' = (files \ gone) \cup come
    /\ steady' = steady \ gone
    /\ UNCHANGED <<isos, staging, run, faults, published>>

Operator ==
    \/ \E l \in files : Change({l}, {})
    \/ \E l \in Links \ files : Change({}, {l})
    \/ \E l \in files : \E s \in Folders \ {FolderOf(l)} :
         Change({l}, {<<s, NameOf(l)>>})

Step ==
    \/ Discovered \/ CreateStaging \/ Linked \/ Swap \/ Fail
    \/ \E l \in Links :
         Look(l) \/ ClearLeftover(l) \/ Symlink(l) \/ RemoveOld(l)

Next == Discover \/ Step \/ Crash \/ Operator

Spec == Init /\ [][Next]_vars

(* File-system calls return.  Nobody has to start a run.                   *)
FairSpec == Spec /\ WF_vars(Step)

---------------------------------------------------------------------------
(* Properties. *)

Labels == {"idle", "scan", "clear", "link", "remove"}

TypeOK ==
    /\ files \subseteq Links /\ isos \subseteq Links /\ staging \subseteq Links
    /\ pc \in Labels /\ failed \in BOOLEAN
    /\ todo \subseteq Links /\ seen \subseteq Links
    /\ faults \in 0..MaxFaults /\ changes \in 0..MaxChanges
    /\ steady \subseteq files /\ published \subseteq Links

(* discovery.rs:23-30: "the first match wins (by iso_folders list order)". *)
(* A file that was there all through the scan is kept, unless a folder     *)
(* listed earlier also has the name, whatever the operator moved meanwhile.*)
FirstMatchWins ==
    pc \in Labels \ {"idle", "scan"} =>
        \A l \in steady : \E k \in seen :
            NameOf(k) = NameOf(l) /\ FolderOf(k) <= FolderOf(l)

(* A client never sees a link of an unfinished or an older rebuild: what   *)
(* is in the live tree is of the last tree that was completed, though a    *)
(* run that was interrupted left links of another one in isos.new.         *)
ServedIsOfOneRebuild == isos \subseteq published

(* serve_tree.rs:35-43, as RawTree states it: the live tree changes to all *)
(* that was asked for and nothing else, and links are taken from it only   *)
(* when its replacement is fully built.                                    *)
Rebuilding == pc \in {"clear", "link", "remove"}

Promise == INSTANCE RawTree WITH
    offered <- isos,
    asked <- IF Rebuilding THEN seen ELSE {},
    complete <- pc = "remove"

ImplementsRawTree == Promise!Spec

Wanted ==
    {l \in files : \A k \in files :
        NameOf(k) = NameOf(l) => FolderOf(l) <= FolderOf(k)}

(* Once faults and changes end, going on running prepare() makes the tree  *)
(* that of the folders, with no dangling link and no ISO missing.  Empty   *)
(* folders are the exception: then nothing is rebuilt.                     *)
Converges ==
    []<>(pc = "scan") => <>[](pc = "idle" /\ files # {} => isos = Wanted)

(* serve_tree.rs:35-43: "a crash or panic partway through leaves the       *)
(* PREVIOUS complete tree intact instead of a truncated one".              *)
PreviousTreeIntact == pc = "idle" => isos = published

---------------------------------------------------------------------------
(* The inductive invariant behind the safety properties.                   *)

OneLinkPerName(dir) ==
    \A k, l \in dir : NameOf(k) = NameOf(l) => k = l

(* isos.new and the links still to be made are what was discovered.        *)
StagingInv ==
    /\ OneLinkPerName(seen)
    /\ pc = "idle" => seen = {}
    /\ Rebuilding => seen # {}
    /\ pc \notin {"link", "remove"} => failed = FALSE
    /\ pc = "link" => /\ staging \subseteq seen /\ todo \subseteq seen
                      /\ staging \cap todo = {}
                      /\ failed \/ staging \cup todo = seen
    /\ pc = "remove" => staging = seen

(* What the scan has met so far is kept, or hidden by an earlier folder.   *)
ScanInv ==
    pc # "idle" =>
        /\ \A l \in steady :
             \/ pc = "scan" /\ l \in todo
             \/ \E k \in seen : NameOf(k) = NameOf(l)
                               /\ FolderOf(k) <= FolderOf(l)
        /\ pc = "scan" => \A k \in seen, l \in todo :
                            FolderOf(k) <= FolderOf(l)

TreeInv == TypeOK /\ StagingInv /\ ScanInv /\ ServedIsOfOneRebuild

=============================================================================
