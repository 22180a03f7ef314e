------------------------------ MODULE RawTree -------------------------------
(***************************************************************************)
(* What the raw-ISO tree promises to the clients that download whole ISOs  *)
(* from it, and to prepare(), without the directories and renames behind   *)
(* it.  The comment of ServeTree::rebuild (packages/pxe-boot-prepare/src/  *)
(* iso/serve_tree.rs:35-43) in one state machine: what is offered changes  *)
(* as a whole, and is given up only once its replacement is complete.      *)
(*                                                                         *)
(* ServeTree implements it; the one step RebuildTree of PxeService is a    *)
(* pass from Ask to Publish or GiveUp.                                     *)
(***************************************************************************)
CONSTANT Links      \* what a tree can consist of

VARIABLES
    offered,    \* the links clients can follow
    asked,      \* the tree the current rebuild is to publish, {} for none
    complete    \* the replacement is built

vars == <<offered, asked, complete>>

Init == offered = {} /\ asked = {} /\ complete = FALSE

Ask ==
    /\ asked = {}
    /\ asked' \in (SUBSET Links) \ {{}}
    /\ UNCHANGED <<offered, complete>>

Complete ==
    /\ asked # {}
    /\ complete' = TRUE
    /\ UNCHANGED <<offered, asked>>

Withdraw ==
    /\ complete
    /\ offered' \in SUBSET offered
    /\ UNCHANGED <<asked, complete>>

Publish ==
    /\ complete
    /\ offered' = asked
    /\ asked' = {}
    /\ complete' = FALSE

GiveUp ==
    /\ asked' = {}
    /\ complete' = FALSE
    /\ UNCHANGED offered

Next == Ask \/ Complete \/ Withdraw \/ Publish \/ GiveUp

Spec == Init /\ [][Next]_vars

=============================================================================
