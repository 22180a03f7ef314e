---------------------------- MODULE MCPxeService ----------------------------
(* Values of PxeService's constants that a .cfg cannot write. *)
EXTENDS PxeService

(* The file under the second name is no image a detector knows. *)
SecondIsUnbootable == {<<2, 1>>}
NoneUnbootable == {}

=============================================================================
