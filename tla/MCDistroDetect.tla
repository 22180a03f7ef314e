-------------------------- MODULE MCDistroDetect ---------------------------
EXTENDS DistroDetect, TLC

(* Two NixOS images that share a kernel, one whose initrd is missing, one  *)
(* without boot.json; an Ubuntu server image, one with a decoy in place of *)
(* the kernel; a RHEL image; an image with the marks of two distributions; *)
(* and one with those of none.                                             *)
CONSTANTS nix1, nix2, nixTorn, nixStock, server, decoy, rhel, both, other

UbuntuFiles == {ServerSquashfs, "casper/vmlinuz", "casper/initrd"}
RhelFiles ==
    {RedHatKey, "images/pxeboot/vmlinuz", "images/pxeboot/initrd.img"}

MCFilesOf ==
    nix1 :> {Squashfs, "boot.json", "boot/bzimage", "boot/initrd-1"} @@
    nix2 :> {Squashfs, "boot.json", "boot/bzimage", "boot/initrd-2"} @@
    nixTorn :> {Squashfs, "boot.json", "boot/bzimage"} @@
    nixStock :> {Squashfs, "boot/bzimage", "boot/initrd-1"} @@
    server :> UbuntuFiles @@
    decoy :> {ServerSquashfs, "casper/vmlinuz.efi", "casper/initrd"} @@
    rhel :> RhelFiles @@
    both :> UbuntuFiles \cup RhelFiles @@
    other :> {"boot/bzimage", "casper/vmlinuz", "casper/initrd"}

SpecOf(img, initrd) ==
    [kernel |-> "/bzimage", initrd |-> initrd, cpu |-> "x86_64",
     init |-> img]

MCBootJson ==
    nix1 :> SpecOf(nix1, "/initrd-1") @@
    nix2 :> SpecOf(nix2, "/initrd-2") @@
    nixTorn :> SpecOf(nixTorn, "/initrd-1") @@
    [img \in Images |-> NoSpec]

(* A name for several architectures, and one for none.                     *)
MCArchMarkers == <<{"i386", "amd64"}, {}>>

=============================================================================
