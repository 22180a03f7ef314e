----------------------------- MODULE MCBootMenu -----------------------------
EXTENDS BootMenu, TLC

(* Two interfaces, the first with a reservation, the other with a BIOS    *)
(* client that has none.  One ISO is for another CPU than the rest, and    *)
(* one names a kernel outside its mount point.                             *)
CONSTANTS arm, ubuntu, rhel, odd, lan, lab, r1, guest

MCScriptsOf ==
    ubuntu :> <<"max">> @@ rhel :> <<"ks">> @@
    arm :> <<>> @@ odd :> <<"ks">>
MCDistro ==
    ubuntu :> "ubuntu" @@ rhel :> "rhel" @@ arm :> "nixos" @@ odd :> "nixos"
MCArch ==
    ubuntu :> "x86_64" @@ rhel :> None @@ arm :> "aarch64" @@ odd :> "s390x"

MCOn == r1 :> lan @@ guest :> lab
MCReservations == lan :> <<r1>> @@ lab :> <<>>
MCCpu == r1 :> "x86_64" @@ guest :> "i386"

Want(iso, script) == [iso |-> iso, script |-> script]
Nothing == Want(None, None)

(* Overrides of neither field, of the script and of the ISO, a script of   *)
(* another ISO, an empty script, a script without an ISO, and an ISO that  *)
(* is not listed.                                                          *)
MCConfigs ==
    {lan :> Want(ubuntu, "max") @@ r1 :> Nothing @@
        lab :> Want(None, "ks") @@ guest :> Nothing,
     lan :> Want(rhel, "") @@ r1 :> Want(None, "ks") @@
        lab :> Want(rhel, "max") @@ guest :> Nothing,
     lan :> Want(ubuntu, None) @@ r1 :> Want(odd, None) @@
        lab :> Nothing @@ guest :> Nothing}

MCScans ==
    {[infos |-> <<ubuntu, odd, arm>>, failed |-> <<>>],
     [infos |-> <<rhel>>, failed |-> <<arm>>]}

=============================================================================
