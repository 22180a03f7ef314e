# A verification development for nixos-router-module

`nixos-router-module` turns a NixOS host into a router: systemd-networkd, Kea
DHCP, unbound, and a PXE boot service that serves a folder of ISO images. Most
of it is Nix expressions that are evaluated once. The parts that *run* are

* `packages/pxe-boot-prepare`, the Rust program that mounts the ISOs, builds the
  raw-ISO tree, installs the autoinstall seeds and writes the GRUB menus;
* the systemd units around it (`nixosModule/config-tftp.nix`);
* the shell scripts that carry DHCP leases and block lists into unbound
  (`nixosModule/scripts`, `nixosModule/config-dns.nix`);
* the boot-time units of the ISOs built by `modules/iso-builder`.

Those are what these modules are about. Paths below are relative to `src/`, and
`P` is `packages/pxe-boot-prepare/src`.

## Inventory

| Component | Keeps | Operations | Talks to | Hard parts |
|---|---|---|---|---|
| Orchestration, `P/lib.rs` | the lock file; per run: the ISOs mounted, detected, failed | `prepare`, `cleanup`, `status`, `list` | everything below | overlapping invocations, crashes, one step of several failing |
| Mounting, `P/iso/mount.rs` | kernel mounts and loop devices | `mount`, `unmount_all` | mount(8), umount(8), `/proc/mounts` | check-then-act across commands, loop-device race, replaced files |
| Discovery, `P/iso/discovery.rs` | nothing | `discover` | ISO folders | the folder changes while it is used |
| Raw-ISO tree, `P/iso/serve_tree.rs` | `isos/`, `isos.new/` | `rebuild` | nginx reads `isos/` | a crash or a failure between removing and renaming |
| Autoinstall, `P/autoinstall/manager.rs` | the seed files | `prepare` | nginx serves them | concurrent tasks, half-written seeds, layout changes |
| Menus, `P/grub/*.rs`, `P/lib.rs:324-504` | `grub.cfg` and its per-MAC overrides | `generate_grub_menu` | atftpd serves them | default positions, torn files, variants that drift |
| Distribution detection, `P/distro/*.rs` | nothing | `detect`, `extract_boot_info` | mounted ISOs | order of detectors, fallbacks |
| Configuration, `P/config/*.rs` | nothing | `validate` | - | runs before every command, `cleanup` too |
| Units, `nixosModule/config-tftp.nix` | unit states | start, stop, path trigger, restart | the program | a path unit that triggers a unit which is already active |
| DHCP-lease records, `nixosModule/scripts/dns-server-lease-hook.sh`, `dns-server-leases-sync.sh` | fact files, zone files | hook points, sync | Kea, systemd.path, unbound | hooks run concurrently; changes lost while the sync runs |
| Block list, `nixosModule/scripts/dns-server-blocklist-update.sh` | the RPZ zone file | update | unbound | a crash between replacing the file and reloading |
| Find-ISO boot, `modules/iso-builder` | downloaded ISO | search, download, mount | the router's nginx | waiting for a device that never appears |

What makes each correct: the lock is exclusive and never leaked; mounts do not pile
up, and a mount point shows its own ISO; menus point at what is mounted, and all
variants of a menu agree; an ISO that cannot be booted is shown as such; repeated
runs converge to the folder's content; the raw-ISO tree is whole; seeds are in
the layout the installer expects; the DNS zone follows the leases; every command
ends. PROJECT.json lists the hazards at their lines.

## Modules

### `PxeService`: the core

One action is one command, system call or step between two awaits of
`P/lib.rs` and `P/iso/mount.rs`.

| State | In the code |
|---|---|
| `present`, `version` | the ISO folders; a version is one inode put under a name |
| `loops`, `mounts` | `/dev/loop*` and the stack of mounts on each `iso-mountpoint/<name>` |
| `tree`, `menu` | names in `isos/`; `grub.cfg` and `grub.cfg-override-<mac>` per interface |
| `lock` | the flock on `.prepare.lock` |
| `proc[p]` | one invocation: `pc`, the loop's rest `todo`, the ISO in hand `cur`, and prepare()'s locals `mounted`, `infos`, `failed`, `writes` |
| `faults`, `settled` | the fault budget, and a history variable: interfaces fully written by the last prepare() with nothing unmounted since |

`prepare` is AcquireLock/LockBusy, Discover/DiscoverNothing, RebuildTree, then
CheckMounted, Verify, Umount, PickLoop, AttachLoop for one ISO after the other,
Detect per ISO, and the menus of all interfaces concurrently (OpenMenuFile,
WriteMenuFile, FailMenuFile), Finish. `status` shares discovery and mounting and
takes no lock. `cleanup` is ListMountPoints, SweepCheck, SweepUmount, SweepDone.
Every `?` and every `Err` arm is an alternative that spends the fault budget;
Crash is possible everywhere and takes the mount(8) child with it, as systemd's
control-group kill does. Loop devices are handed out in two steps, chosen and
then attached, as mount(8) does it; a device attached in between gives an error
or, as prepare()'s comment on sequential mounting reports, the other's content.

`mountpoint -q` has one answer for everything but success (`P/iso/mount.rs:98-108`):
a mount that it fails to see, or its own death by a signal, reads as "not mounted".
CheckMounted then goes on to mount over what is there, and SweepCheck passes the
mount point over. Such a misread spends the fault budget like any failure, so that
`faults` bounds their number. Where the ISO's present file is among the mounts of the
mount point already, mount(8) refuses to mount it there again (AlreadyMounted; this is
util-linux's behaviour, an assumption of the model) and the ISO counts as failed; where
it was replaced, the new file goes on top and the pile grows by one.

`PxeRepair` adds one history variable to it, `clean`: the run that holds the lock
has been left alone since it took it. No ISO file changed, nobody else mounted or
unmounted, and none of its system calls failed. `CleanRunRepairs` says that such a run
ends with `Current`: mounts, tree and every menu are what the folder holds, whatever
state it found. That is the promise of one run; Converges is that of running it again
and again, and asks for nothing but fair scheduling.

`MCPxeService` and `MCPxeRepair` give the values a .cfg cannot write.

| Run | Question | Bounds |
|---|---|---|
| `core_prepare` | Can two overlapping prepare() runs, an operator replacing files and one fault pile up mounts, mix ISOs, make menus stale or lose an ISO? Does one run that is left alone repair all it finds? Do repeated runs repair everything once faults and changes end? | 2 processes, 2 ISOs, one of them with 2 files and the other one unbootable, 4 loops, 1 interface with 1 override |
| `core_commands` | Can any mix of the commands leak the lock, write without it, pile up mounts, or hang? Does every step bring its command on? | 2 processes, 1 ISO with 2 files, 2 loops |
| `core_restart` (violation) | Is a run inside prepare() alone with the mounts, as the lock's comment says? | prepare and cleanup, no fault needed |

Two processes show every pairwise race; two ISOs are needed for
cross-contamination and for one failing next to another; two files under one name
for replacement (`Replaced`). One fault is a crash, a failing call or a misread at any point. Four loops
are one for each ISO and each mount that a misread can leave on top of another, so that
a run that is left alone finds one (the bound of LeftAloneRepairs); the two of
`core_commands` do run out when mounts pile up, and mounting fails for want of one.

`core_restart`: the comment on the lock promises protection against "a
`systemctl restart` landing mid-run", but ExecStop's `cleanup` takes no lock.

StacksBounded says how far mounts pile up: to one for each invocation that can mount
at a time (prepare() under its lock, and any status()), and one more for each misread.
No code takes a pile off: unmount() and unmount_all() call umount(8) once.
With `status` next to `prepare`, MountsShowOwnIso fails: status() is documented as
read-only but mounts what it finds unmounted, without the lock, and two mount(8) meet
at one loop device. That property is therefore stated for systems without `status`.

`EveryStepAdvances` is the safety half of EveryCommandEnds: every step brings its
command into a later loop, leaves it less to do in this one, or brings it to a later
stage for the ISO in hand (or writes more of the menus). `Phase` and `Stage` number
the loops and the stages. An ISO that cannot be mounted, tried once more, breaks it.

**Fairness.** `FairSpec` adds `WF_vars(Step(p))`: a process that runs gets its
commands' results. Nobody has to start a process, to crash or to fail.
EveryCommandEnds uses no more; Converges additionally assumes, in its formula,
that prepare() is started again and again.

### `ServeTree` and `RawTree`: the raw-ISO tree

`ServeTree` opens up the one step `RebuildTree` of `PxeService`, together with
the discovery before it (`P/iso/discovery.rs`, `P/iso/serve_tree.rs`), call by
call. PxeServiceProofs shows that only the holder of the lock gets there, so one
run at a time is enough here.

| State | In the code |
|---|---|
| `files` | the ISO files; a link `<<s, n>>` is name `n` in the `s`-th of `iso_folder_paths` |
| `isos`, `staging` | the symlinks in `isos/` and `isos.new/` |
| `pc`, `todo`, `seen`, `failed` | where the run is, the entries or symlinks left, the HashMap of discover() (then `iso_paths`), a failed result of `join_all` |
| `steady`, `published` | history: files that stayed and were readable all through the scan; the last tree renamed to `isos/` |

A run is Discover, Look per entry and Discovered; ClearLeftover, CreateStaging,
Symlink in any order, Linked, RemoveOld entry by entry, and Swap. Fail is any
`?`, Crash ends the process anywhere, Operator adds, removes and moves files.
An absent directory is the same as an empty one, as it is for `create_dir_all`,
`remove_dir_all`, `rename(2)` and clients; a stat in `try_exists` does not fail.

`RawTree` is what the comment of rebuild() promises: one offered set of links
that changes as a whole to what was asked for, and that is given up only once
the replacement is complete. `ImplementsRawTree` is the refinement, with
`offered <- isos`, `asked <- seen` while rebuilding, `complete <- pc = "remove"`.

| Run | Question | Bounds |
|---|---|---|
| `tree` | Is the first match kept, is what clients see of one completed rebuild, does rebuild() implement RawTree, and does a run after faults and changes end repair the tree? | 2 folders, 2 names, 2 faults, 2 changes |
| `tree_crash` (violation) | Does a crash leave the previous complete tree intact? | the same folders and names, 1 fault |

Two folders with two names make one name hide another while a third link is
linked next to it; two faults crash a run and fail the one after it; two changes
move a file and then another one.

`tree_crash`: the comment says that a crash partway through leaves the previous
tree intact. It does until `remove_dir_all(isos)`; from there to the rename
clients get part of the old tree or none.

**Fairness.** `WF_vars(Step)`: file-system calls return. Converges assumes in its
formula that runs are started again and again.

### `LeaseZone`: from a DHCP lease to a DNS record

One action is one command of `nixosModule/scripts/dns-server-lease-hook.sh` or
`dns-server-leases-sync.sh`.

| State | In the code |
|---|---|
| `leases` | Kea's database |
| `facts`, `writers` | `facts/<address>`, and the hooks with that inode open for `echo` |
| `zone` | `leases.rpz` in Kea's state directory |
| `hook[h]` | one hook process: its command, the leases it was given, the files `find` listed, the records `cat` gave |
| `pending`, `svc`, `copy`, `shared`, `served` | the path unit's event, the sync's command and temporary file, the file unbound reads, the zone it has loaded |
| `held`, `missed`, `alone`, `serial` | history: who had which address; whether the last change of the zone got no whole sync; hooks nobody ran next to; whether hooks never overlapped |

Committed and Ended are Kea's events; ClearFact, OpenFact and EchoFact are
`publish_fact` and `remove_fact`; FindFacts, CatFact, CatFails, CatDone, Compare
and MoveZone are `regenerate_zonefile`; PathTriggers, SyncCat, SyncMove and
SyncReload are the path unit and the sync; KillHook and KillSync end a script
anywhere. Of a client only what `publish_fact` decides by is kept: whether its
subnet is a LAN, whether its MAC has a reservation, and its name. A MAC with a
reservation publishes any name it has, also one that the reservation of another
client or an override holds, as on a LAN where it is a pool client: the branch asks
for nothing else. The list of reserved names is compared line by line, and the keys
of `dns-server.spoof.overrides` are in it as they are written (config-dns.nix:61-62),
so that a key with a trailing dot or a capital letter reserves nothing.

A fact file is the set of the names whose lines show in it. `echo` writes at the
start of the file, without O_APPEND: two hooks that have the same inode open leave
the later line and, if it is the shorter one, the tail of the earlier (WrittenOver).
What such a file reads as is Lines: the short line, and of each longer one a piece
that is a line of its own. Length and Piece are constants. A piece is a record like
any other here; what unbound makes of a malformed one is not modelled.

Assumed of what is outside the repository: Kea runs hooks without waiting
(`sync = false`, config.nix:617), a write through an open descriptor to a
removed file is lost, one `echo` is one write, and systemd does nothing when it is
asked to start a unit that is still activating.

| Run | Question | Bounds |
|---|---|---|
| `lease_hooks` | Can overlapping or killed hooks publish a record nobody is entitled to? Does an undisturbed hook repair the zone? Does it follow the leases while hooks do not overlap? Does it reach unbound? | 2 hooks, 2 addresses, a pool client with the name of a reservation, one with a longer name that is an override's but for its normal form, a MAC reserved elsewhere with an overridden name, 3 events, 1 kill |
| `lease_race` (violation) | Is a reservation's hostname always published? | 2 hooks, 2 addresses, 2 clients, 2 events |
| `lease_path` (violation) | Does a change of the zone file always reach unbound? | 1 hook, 2 addresses, 2 clients, 2 events |

Two hooks with three events give an overlap and a hook after it; two addresses
give a lease that moves, with its old one deleted in the same event.
`ClientsAssumption` keeps the two markers for an absent and an empty fact file
apart from names. Hooks and addresses are interchangeable, and the run has no
liveness property, so that they are symmetric there.

`lease_race`: the hook with the older snapshot of the facts moves its zone over
the newer one. `lease_path`: a change while the sync is running starts no second
sync. LoneHookRepairs says how far this goes: the next hook that runs alone makes
the zone right again, and SyncedUnlessMissed that without a missed change unbound
has it. An expired lease that Kea keeps for a while (`REMOVE_LEASE` false) runs
the hook to no effect and is therefore not an event of the model; that Kea
deletes it later without a hook is listed as a hazard.

RecordsBacked is what the hooks keep of options.nix:1068-1075, which has the name of
a pool client "rejected outright if it collides with any reservation's `hostname` or
`dns-server.spoof.overrides` entry". It holds for names that are lines of the list. It
does not hold for an override whose key is not in normal form, nor for a client whose
MAC is reserved on another LAN, nor for the piece of a longer line, which is nobody's
name; RecordsBacked allows these three and no other record.

**Fairness.** WF on SyncStep and on each HookStep(h): commands return and systemd
handles changes it watches for. Kea owes no event.

### `Autoinstall`: the seeds

Opens up step 4 of prepare(), which `PxeService` leaves out: one concurrent task
per script (`P/autoinstall/manager.rs`), one action per file-system call.

| State | In the code |
|---|---|
| `seeds` | what is at `unattented-install/<iso>/<name>`: nothing, a file, or a directory with user-data and meta-data; each copy with its script, its configuration and whether it is whole |
| `ubuntuIsos`, `gen` | the images now under the file names, and the generation of the configuration |
| `running`, `pc` | prepare(), and each task's next call or outcome |
| `ubuntu`, `conf` | `distro_by_iso` and the configuration of the run |
| `hit` | history: the tasks that a fault has touched |

StatSeed, UnlinkStale and MakeSeedDir are `ensure_dir`; RemoveDest and OpenDest
with CopyDest are `install_file`; RemoveMeta and WriteMeta are `write_fresh`.
CallFails is any `?`, Crash the end of the process, Begin may find that the
detection of one ISO failed. Reconfigure and ReplaceIso are the operator's.

| Run | Question | Bounds |
|---|---|---|
| `seeds` | Are seeds whole and in the layout of the run whenever a task reports success? Does a failure stay with its script? What becomes of two scripts with one name? Do later runs repair the rest? | 2 ISOs, 3 scripts, two of which share ISO and name, 2 faults, 1 change |

Two faults crash a run and fail the next one, or break a detection and a copy;
one change is a new configuration or another image.

Converges has one exception, which the code has: where an Ubuntu image was, a
directory stays, and the kickstart of another distribution under that file name
cannot replace it (`remove_file` of a directory), in this run and every later
one. FailsAlone has the same one.

**Fairness.** `WF_vars(Step)`: calls return. Nobody has to start a run.

### `DistroDetect`: which distribution is on a mounted ISO

Opens up the step `Detect` of `PxeService` (`P/distro/*.rs`, `P/iso/info.rs`): a
loop over the mounted ISOs in which every look at the mount point is an action,
while `cleanup` unmounts and `status` mounts under its hands.

| State | In the code |
|---|---|
| `mnt` | the image on each mount point |
| `cur`, `pc`, `declined`, `spec` | the ISO in hand, the next look, the detectors that have declined, the bootspec read |
| `infos`, `failed` | `iso_infos`, `failed_isos` |
| `seen` | history: what was on each mount point during its ISO's turn |

Decline and Accept are one `can_handle` each; ReadBootspec, FindKernel and
FindInitrd are the steps of `extract_boot_info`; Remount is the environment's.
Kernels and initrds are looked for whatever the case of their paths (`find_file`), the
detectors' own files by their exact names (`P/distro/rhel.rs:35`): FilesOf has the
former in lower case and the latter as they are.
The reference definition is `BootInfoOf`: what is on an image when it is looked at
as a whole.

| Run | Question | Bounds |
|---|---|---|
| `detect` | Is what is found step by step what is there? Can a mount that comes and goes make an image pass for another? Is every ISO accounted for? | 9 images, among them torn, decoy and hybrid ones, 2 ISOs, 3 mounts or unmounts by others |

Three remounts are an unmount, a mount of another image and one more. Images
with the marks of two distributions are excluded from RemountIsSafe: an unmount
while the first detector looks makes the second one accept them. It speaks of one
image that comes and goes; of an ISO whose image is exchanged during its turn
nothing is promised but that it is accounted for.
Detection ends, hence CHECK_DEADLOCK FALSE.

**Fairness.** `WF_vars(Detect)`: system calls return.

### `BootMenu`: what the menus say, and what GRUB makes of them

Opens up step 5 (`P/lib.rs:270-504`, `P/grub/*.rs`, `generate_boot_params` of the
detectors) and adds the clients that read the result.

| State | In the code |
|---|---|
| `conf`, `scan` | default ISO and script of each interface and reservation; `iso_infos` and `failed_isos` |
| `task[i]` | generate_grub_menu() of an interface: the ISO and script in hand, `position`, the entries, the file in hand |
| `warned` | the interfaces and reservations that prepare() warns of |
| `files` | `grub.cfg` of an interface, `grub.cfg-override-<mac>` of a client: absent, torn or whole, with entries, default and placeholders |
| `grub[c]` | a client's boot loader: the file it reads, its menu, how deep files are nested |

AddEntry and NextIso are the two nested loops, MakeDir, OpenFile, WriteFile,
SkipReservation and Finish the rest of the task, FailWrite and Kill its failures;
all interfaces run concurrently. A list of entries is made without an `await`, so that
no other task gets a turn in the middle of it (Listing).

A client fetches a menu block by block over TFTP while `tokio::fs::write` truncates the
file and writes it again in place (`P/lib.rs:496`). ReadTest, ReadDefault, ReadEntry and
ReadEnd are the parts of a menu in the order of `P/grub/menu.rs:71-151`. A client keeps
its place in a file; when the file is rewritten under it, that place is anywhere in the
new one (`at` is 0), and what it reads on is `mixed`, of two versions. ReadCut is the
end of a file that is being written or that has become shorter: what has come is the
menu. The head is the same in all versions. Timeout boots the default; menu choices of
a user are not modelled. Directories are one key per interface, as ids are unique;
titles, URLs and kernel parameters are left out but for how a seed is fetched.

Assumed of GRUB: `default` numbers the entries it shows; `configfile` opens the
file in a context of its own; on BIOS, where `[` is missing, every condition
counts as true (as menu.rs:170-186 reports). No detector of today names a kernel
outside its mount point; the `DistroDetector` trait allows it, entry.rs refuses
it (Refused), and `odd` is such an ISO.

| Run | Question | Bounds |
|---|---|---|
| `menus` | Does a menu list every ISO and script in order and rightly numbered? Do warnings and defaults agree with it? Are the files of a finished interface those of the run? Does a client boot the default? | 4 ISOs, 2 scripts, 2 interfaces, a reservation and a BIOS client, 3 configurations and 2 scans, 2 runs, 1 fault, 1 boot |
| `menu_override` (violation) | Does a client with an override get to a menu? | the same, 1 run, no fault |

Two runs leave old files under new ones; the configurations contain overrides of
either field and of none, a script of another ISO, and defaults that are given up;
one fault is a file that cannot be written or a killed process; one boot at any
moment of it all. Runs and boots are bounded and the system may stop, hence
CHECK_DEADLOCK FALSE. MaxNest bounds how deep GRUB nests files: a client without
an override needs one level, a third one is a loop.

`menu_override`: the head that loads the override is in the override, too, so
GRUB loads it again and again. Other things are read off the model and have no
property of their own:

* A menu of two versions takes its default from the old one and its entries from the
  new, so that a client that fetches it across a rewrite may boot an entry nobody
  configured. Menus are not replaced by a rename, so no property can exclude this;
  HonoursWish leaves such menus out (`~mixed`) and holds for all others, those included
  that are cut off in the middle.
* `position` counts entries that GRUB hides from a client with another CPU, and such a
  client boots a later entry. HonoursWish is stated for a default with no hidden entry
  before it.
* A default that names a refused ISO has no effect and is not warned of: the warnings
  know what was found, not what could be listed. WarnedOrHonoured says that this is the
  only gap. `status` counts entries of such an ISO too, although the comment at
  `P/lib.rs:572-574` has it mirror the menu "exactly".
* No step removes an override, so that of a reservation that lost its default stays
  (SettledIsCurrent is about the files the run writes).

**Fairness.** Weak fairness of Generate(i) and of Boot(c), used by `menu_override`
only: system calls return and a boot loader goes on.

## Proofs

All by TLAPS, for every value of the constants that the named assumptions allow:
the bounds are natural numbers, placeholders (`NoProc`, `NoSpec`, `NotMounted`,
`None`) are none of the values they stand next to, Commands are commands,
functions have the domains and ranges their comments say, and ClientsAssumption,
which keeps names apart. UniqueAssumption (BootMenu): detection lists an ISO once,
as discover() keys them by file name, and an interface has a reservation once, as
Nix keys them by MAC.

### `PxeServiceProofs`

TLAPS proves, for every value of the constants:

* `TypeCorrect` and `LockExclusion`, from `BaseInv == TypeOK /\ Control /\
  LockExclusive`. LockExclusive alone is not inductive: a step of `cleanup`
  keeps it only because `Control` knows that a process in a sweep is not running
  `prepare`. `LocalStep` reduces a step to the local state it leads to; then one
  lemma per group of actions (`EarlyBase`, `MountBase`, `MenuBase`,
  `CleanupBase`, `EnvironmentBase`).
* `ServedOnlyUnderLock`, from BaseInv.
* `MountsDoNotPileUp`, `MountsAscend` and `MountsAreOwn`, assuming
  `"status" \notin Commands`, from `MountInv`: at most `1 + faults` mounts on a mount
  point, the newer file on top (StacksAscend), files of its own name only (MountsKnown),
  and for who is about to mount, room for one more and a free loop device (MountReady).
  That is kept because whoever is about to mount holds the lock (`MounterHoldsLock`),
  because a misread pays for the mount it adds, and because cleanup only takes mounts
  away (`PopMounts`). StacksAscend is what makes VerifiedAs, which reads the first line
  of `/proc/mounts`, right about the top: if the bottom is current, nothing is above.
* `HolderMountsAlone`, assuming that every run is a `prepare`.

### `PxeMenuProofs`

`NothingVanishes` and `VariantsNeverDrift`, for any Commands, follow from `MenuInv`
next to BaseInv: Collected says that entries and failures share out exactly the ISOs
that were mounted, as far as detection has come, and WrittenBehind that the menu
files behind a run are as it renders them. The latter is about every process and
survives the writes of another one because only the lock's holder writes, and nobody
else has written anything yet.

`StepsAdvance` (`Spec => EveryStepAdvances`) and `AdvancesIsAnOrder` hold for all
Commands. Between them they leave liveness one fact short: no command comes back to a
state it has been in, and it has finitely many. What stays with TLC is that a command
always has a step to take (ENABLED) and is given it (fairness). A mount or unmount that
fails counts as progress because the ISO in hand is one of those that are left
(`InHandInvariant`), so that being through with it leaves less. `StepMoves` sorts the
steps into five kinds (on to the next stage, through with an ISO, into the next loop,
one write, over); `MovesAdvance` shows the rest of each kind once.

`DetectedIsCurrent` and `MenusAreServable` assume that every run is a `prepare`, as
`cleanup` unmounts between detection and menus (`core_restart`). Under that condition
the holder alone changes mounts (`KernelStep`), and it does so before detection only;
`AttachContent` says that a new mount shows the ISO's own file.

### `PxeRepairProofs`

`LeftAloneRepairs` (`RepairSpec => []CleanRunRepairs`) follows from `CleanInv` next to
BaseInv, MountInv and MenuInv. CleanRunRepairs speaks of the end of a run only; CleanInv
says what a clean run has behind it wherever it is (`DoneSoFar`): the tree is the folder
from RebuildTree on; the ISOs it has mounted and those it has left are those of the
folder, and the mounted ones show the file that is there now; what is detected is
bootable and what failed is not. The hard step is a mount: Verify accepts only the
current file (`VerifyClean`), an unmount changes no other mount point (`PopContent`), and
PickLoop finds a device, by counting: every attached device is mounted somewhere
(AttachedIsMounted), a mount point has no more than `1 + faults`, so while one has room
fewer devices are attached than there is room for (`FreeLoopExists`, with the library's
FS_Injection).
Any step that is not the holder's keeps DoneSoFar or ends `clean` (`OthersClean`).

Two hypotheses. `"status" \notin Commands`, as for MountsDoNotPileUp: status() mounts
without the lock. `NumIsos * (1 + MaxFaults) <= NumLoops`: Linux makes loop devices on
demand, so that a host has enough unless it was set up otherwise (max_loop); there,
mounts fail for want of a device and the run goes on without those ISOs.

### `ServeTreeProofs`

`TypeCorrect`, `FirstMatchKept` and `OneRebuildServed` follow from `TreeInv ==
TypeOK /\ StagingInv /\ ScanInv /\ ServedIsOfOneRebuild`. ServedIsOfOneRebuild
alone is not inductive: Swap keeps it because StagingInv knows that `isos.new`
holds exactly `seen` by then, which needs every symlink to have worked and no
leftover to be there. ScanInv carries FirstMatchWins through the scan: folders
are walked in order, so whatever hides a name comes from an earlier folder.
`Refinement` (`Spec => ImplementsRawTree`) maps each step to a step of RawTree or
a stutter, under TreeInv.

### `LeaseZoneProofs`

`TypeCorrect` and `RecordsAreBacked` follow from `LeaseInv == TypeOK /\ BackedInv`.
RecordsBacked speaks of four zone files; BackedInv adds what flows into them: the
fact files, the records a hook has read, and the leases it was given, all backed
by somebody who had the address and was free to publish the name. That a torn fact file
reads as names of such clients and pieces of their lines is shown for any Length and
Piece. `HookChange` does the part that all commands share. `Synced` follows from
`SyncInv`, which says at each command of the sync which copy is the current zone.

`LoneHooksRepair` follows from `AloneInv`: what a hook that nobody runs next to has
read is what the fact files hold, but for the files it has not come to, whatever
earlier hooks left there. `FollowsKea` adds `SerialInv`: while hooks do not overlap,
each fact file either is what Kea's lease makes it or is still to be handled by the
one hook that runs (FollowOK); at its end LoneHooksRepair's argument (`LoneEnd`)
carries the facts into the zone. `ReservationsWhileSerial` draws the line that run
`lease_race` is on the other side of: until hooks overlap or one is killed, every lease
of a LAN client with a reservation and a hostname has its record whenever no hook is
running.

### `AutoinstallProofs`

`TypeCorrect`, `InstalledIsServable` and `FailuresStayAlone` follow from `SeedInv ==
TypeOK /\ TaskInv`. SucceededIsServable speaks of tasks that have ended; TaskInv
says what is at a task's path at each of its calls (LayoutSoFar, DataSoFar). It
is kept by the steps of all other tasks because a task with a name of its own is
alone at its path (`OwnAfter`).

`SharedStaysWhole` is about tasks that share a path, where OwnAfter does not hold;
`SharedInv` says of each of them what it relies on at the path, or which of the
others is about to put it right.

### `DistroDetectProofs`

`TypeCorrect`, `StepwiseIsExact`, `RemountsAreSafe` and `AllAccounted` follow from
`DetectInv`, which adds TurnInv to the properties: what the looks so far say of an
image if it was the only one seen. A detector that has declined is evidence only
if the mount never went away; one that has accepted is evidence in any case, as
an absent file never makes a detector accept. `FirstMatches` turns the order of the
detectors into the order of the reference definition.

### `BootMenuProofs`

`TypeCorrect`, `MenusAreComplete`, `DefaultsWithoutEffect` and `SettledMenus` follow from
`MenuInv == TypeOK /\ ListInv /\ WriteInv`. ListInv is the loop invariant of the two
nested loops: what is behind the task is listed, in order, and nothing else
(`LongerList` for one more entry, `IsoDone` for the next ISO). WriteInv is that of
the loop over the files, and needs that no two interfaces share a file
(`SubjectsDiffer`). DefaultsWithoutEffect compares the two computations of a default by
`LeastExists`: some entry answers a wish exactly when there is a first one. It includes
the ISOs no entry can be made of, since ListedSoFar says that nothing of them is listed.

`DefaultIsBooted` follows from `BootInv`. Every file is Sound: its default is computed
from its own entries and wish, and entry n carries position n - 1. What a client has of a
file that was not rewritten since (Fetched) is a start of it, and a start has the file's
default if an entry that answers the wish is in it, because it is then the same first one
(`StartIsSound`); so a menu that is cut off is SoundSoFar. A rewrite takes every reader's
place away, and no client has a place in a file that is being written, which is torn
(WriteInv, `TaskStep`). GRUB numbers the entries it shows, the program those it writes; if
no hidden entry precedes the default, the two counts agree (`CountedAsWritten`).
Both counts are of sets of positions, not of a filtered sequence, whose definition is
recursive.

### Only model-checked

All liveness (EveryCommandEnds, the three Converges, ChangesArrive, DetectionEnds,
OverrideIsReached), which is out of the prover's reach. Every invariant and action
property of a passing run is stated by a theorem. Of liveness the theorems have the
safety part where it carries the argument: StepsAdvance for EveryCommandEnds,
LeftAloneRepairs for Converges of the core.

## Plan

1. `PxeService` with `PxeServiceProofs` and `PxeMenuProofs`, `PxeRepair` with
   `PxeRepairProofs` (done).
2. `ServeTree`, `RawTree`, `ServeTreeProofs` (done).
3. `LeaseZone`, `LeaseZoneProofs` (done).
4. `Autoinstall`, `AutoinstallProofs` (done).
5. `DistroDetect`, `DistroDetectProofs` (done).
6. `BootMenu`, `BootMenuProofs` (done).

What would come next: user choices in a menu, and a client's boot beside the
program's whole run instead of beside its menus only.

How the modules fit together: `PxeService` has all the steps of a run, in the order
of prepare(); `ServeTree`, `DistroDetect`, `Autoinstall` and `BootMenu` each open up
one of them. What they need of the rest is shown there or is part of their
environment: LockExclusive makes one run at a time enough for ServeTree,
Autoinstall and BootMenu; DistroDetect lets anybody remount, as HolderAlone fails
with `cleanup`; BootMenu takes any result of detection that lists an ISO once, which
Accounted gives it.

## Not modelled

* The units of the PXE service. Starting, stopping, killing and restarting the
  program are steps of `PxeService`; the units' own states would add that the path
  unit asks systemd to start a unit which RemainAfterExit keeps active, to no effect
  (a hazard in PROJECT.json). Converges therefore assumes that prepare() is started
  again and again; nothing but an operator, a failed unit or a reboot does so.
* `validate()`: it refuses a command before its first step, `cleanup` included, so
  that such a command is one that does not start.
* The block list: one sequential script, never run twice at once. If it is killed
  between `mv` and the reload, later runs with an unchanged list skip the reload (a
  hazard in PROJECT.json).
* The find-ISO boot: units of an image that this repository builds, which run on
  the client and share nothing with the router but a download.
* Text layout of menus and logs, escaping and percent-encoding; the contents of ISO
  images beyond the files that detection looks for; overwriting an ISO file in
  place (`cp` over it: same inode, the mount shows the new bytes).
* Nix evaluation (options, addresses, Kea and networkd configuration), which has
  no run-time state of its own.
