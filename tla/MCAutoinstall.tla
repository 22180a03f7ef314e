--------------------------- MODULE MCAutoinstall ---------------------------
EXTENDS Autoinstall, TLC

(* Two ISOs.  The first has two scripts of one name, the second has one.   *)
CONSTANTS i1, i2, s1, s2, s3, n

MCIsoOf == s1 :> i1 @@ s2 :> i1 @@ s3 :> i2
MCNameOf == s1 :> n @@ s2 :> n @@ s3 :> n

=============================================================================
