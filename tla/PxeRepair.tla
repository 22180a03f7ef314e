----------------------------- MODULE PxeRepair ------------------------------
(***************************************************************************)
(* What one run of prepare() achieves if it is left alone, whatever        *)
(* crashes, failures and replaced files came before it.  PxeService with a *)
(* history variable: whether the run that holds the lock has been left     *)
(* alone since it took it.                                                 *)
(***************************************************************************)
EXTENDS PxeService

VARIABLE clean      \* history: nothing disturbed the lock's holder so far

repairVars == <<vars, clean>>

(* The step changes no ISO file, nobody but the holder mounts or unmounts, *)
(* and no system call of the holder fails.                                 *)
Undisturbed ==
    /\ UNCHANGED folder
    /\ UNCHANGED kernel \/ proc'[lock] # proc[lock]
    /\ NoFault \/ proc'[lock] = proc[lock]

Track ==
    clean' = (lock' # NoProc /\ (lock = NoProc \/ (clean /\ Undisturbed)))

RepairInit == Init /\ clean = FALSE
RepairNext == Next /\ Track
RepairSpec == RepairInit /\ [][RepairNext]_repairVars
FairRepairSpec == RepairSpec /\ \A p \in Procs : WF_vars(Step(p))

---------------------------------------------------------------------------

(* A run of prepare() that is left alone and has written its menus leaves  *)
(* everything as the folder has it (Current), whatever state of the        *)
(* mounts, the tree and the menus it found: stale or foreign mounts, torn  *)
(* menus, a tree removed halfway.  It is what a restart of the service is  *)
(* for, and the step Converges rests on.                                   *)
CleanRunRepairs ==
    \A p \in Procs :
        lock = p /\ clean /\ At(p, "menus")
            /\ (\A n \in Interfaces : ~Writing(p, n))
        => Current

---------------------------------------------------------------------------
(* The inductive invariant. *)

Shows(i) == Content(i) = <<i, version[i]>>

(* What a run that was left alone has behind it, by where it is.           *)
DoneSoFar(s) ==
    /\ s.pc = "tree" => s.todo = present
    /\ s.pc \in Mounting \cup {"detect", "menus"} => tree = present
    /\ s.pc \in Mounting =>
         s.mounted \cup s.todo = present /\ s.mounted \cap s.todo = {}
    /\ s.pc \in Mounting \ {"mount"} => s.cur \in s.todo
    /\ s.pc \in {"verify", "umount"} => mounts[s.cur] # <<>>
    /\ s.pc = "pick" => ~AlreadyMounted(s.cur)
    /\ s.pc \in {"detect", "menus"} => s.mounted = present
    /\ \A i \in s.mounted : Shows(i)
    /\ \A i \in Listed(s) :
         s.infos[i] = <<i, version[i]>> /\ Bootable(<<i, version[i]>>)
    /\ \A i \in s.failed : ~Bootable(<<i, version[i]>>)
    /\ \A n \in Interfaces : s.writes[n].ok

(* Every attached loop device is mounted somewhere, so that there is a     *)
(* free one while an ISO is not mounted.                                   *)
AttachedIsMounted ==
    \A d \in Loops : loops[d] # NoFile =>
        \E i \in Isos : \E k \in DOMAIN mounts[i] : mounts[i][k] = d

NothingMountedYet ==
    \A p \in Procs : proc[p].pc \in {"lock", "discover", "tree"} =>
        proc[p].mounted = {}

CleanInv ==
    /\ NothingMountedYet
    /\ AttachedIsMounted
    /\ clean => lock # NoProc /\ DoneSoFar(proc[lock])

=============================================================================
