---------------------------- MODULE MCPxeRepair -----------------------------
(* PxeRepair with the values of PxeService's constants. *)
EXTENDS PxeRepair, MCPxeService

=============================================================================
