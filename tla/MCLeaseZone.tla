----------------------------- MODULE MCLeaseZone ----------------------------
(* Values of LeaseZone's constants that a .cfg cannot write. *)
EXTENDS LeaseZone, TLC

Client(lan, reserved, name) == [lan |-> lan, reserved |-> reserved, name |-> name]

(* A reservation, and a pool client that asks for the same name. *)
NasAndImpostor == {Client(TRUE, TRUE, "nas"), Client(TRUE, FALSE, "nas")}

(* A reservation and a pool client. *)
NasAndLaptop == {Client(TRUE, TRUE, "nas"), Client(TRUE, FALSE, "laptop")}

(* Two pool clients, one of which asks for a name that a reservation has,  *)
(* and one whose MAC has a reservation on another interface, and that asks *)
(* for a name the overrides have.                                          *)
PoolAndReserved ==
    {Client(TRUE, FALSE, "nas"), Client(TRUE, FALSE, "laptop"),
     Client(TRUE, TRUE, "proxy")}

NameLength ==
    [n \in Names |-> CASE n = "nas" -> 3
                       [] n = "proxy" -> 5
                       [] n = "laptop" -> 6]

(* What is left of a longer line is none of the names. *)
Remainder == [w \in Names \X Names |-> "remainder"]

Symmetry == Permutations(Hooks) \cup Permutations(Addrs)
=============================================================================
