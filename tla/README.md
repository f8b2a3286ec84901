# TLA+ verification of chr-install

`chr-install` replaces a running Debian or Ubuntu system with a MikroTik CHR
image. It finds the disk that backs `/`, downloads and prepares the image, and
writes it either directly from a rescue system or from a RAM-resident writer that
it starts with kexec or through a one-shot GRUB entry. A mistake is not
repairable: the wrong disk is overwritten, or the right one is left half written.
This directory models the parts of the program in which order, failure, crashes
and stale information decide between those outcomes, together with the calculations on
which they rest, model-checks them with TLC and proves their safety properties with TLAPS.

`PROJECT.json` holds the machine-readable side: every run, the line of the source
each definition translates (`map`), the mutants that show each property can fail,
the hazards and the divergences found.

    tlc -workers 2 -config StageOneRun.cfg Stage      # a run of the table below
    tlapm StageProofs.tla                             # the proofs

## Inventory

| Component | Source | State | Operations | What makes it correct | Modelled by |
|---|---|---|---|---|---|
| Staging and hand-over | `internal/install/stage.go`, `initramfs.go` | files in `/var/lib/chr-install`, `/boot/chr-install`, `/etc/grub.d`; the menu entry; `next_entry`; the kexec image; systemd's shutdown job | PrepareStage, StageAndBoot, executeKexec, executeGRUB, two cleanups | an error undoes what the run did; an armed entry boots; the one-shot entry is used once; every run ends | `Stage`, `Handover`, `StageProofs` |
| RAM writer | `internal/install/writer_linux.go`, `write.go` | target path, open descriptor, running hashes, the disks | RunWriter, waitForFingerprint, ensureUnmounted, CopyImage, HashPrefix | only the authorised disk is written; a reboot means a verified image; it ends | `Writer`, `WriterProofs` |
| Disk identity | `internal/disk/fingerprint.go` | none | FingerprintsMatch, SelectAuthorizedFingerprint | a stable identity never degrades; the fallback needs a single disk | `Fingerprint`, `WriterProofs` |
| Writer manifest | `internal/install/manifest.go` | manifest file, two clocks | NewManifest, measuredRTCOffset, validateTimestamp | fresh manifests pass, stale ones do not, whatever the hardware clock does | `Manifest`, `ManifestProofs` |
| Resource estimates | `internal/install/resources.go`, `stage.go` | none | ensureFilesystemSpace, validateInitramfsMemory, parseInitramfsListing | no sum or product wraps around | `Resources`, `Calculations`, `CalculationsProofs` |
| MikroTik client | `internal/mikrotik/client.go` | `.partial` file, archive, checksum, attempts | ResolveLatest, download, extractImage, Prepare | the image is the one whose checksum was read; downloads end | `Download`, `MCDownload`, `DownloadProofs` |
| Image preparation | `internal/mikrotik/image.go`, `uefi.go` | image file, loop mounts | Inspect, InjectAutorun, prepareUEFIImage | mounts are released; the hash is of a final image; partitions are apart | `Image`, `ImageProofs`, `ImageLayout`, `CalculationsProofs` |
| Interactive run | `internal/app/app.go`, `dependencies.go`, `internal/ui`, `internal/preflight` | report, review, acknowledgements | Run, installInitramfsTools, ReviewPreflight, sameInstallTarget | what is staged is what was reviewed and acknowledged | `Installation`, `InstallationProofs` |
| Target detection | `internal/disk/detect.go` | none (reads lsblk and sysfs) | Detect, parseGraph, backingDisks, hasMountedDescendant, configureStaging | the target is the one disk under the device of `/`, or the only free disk of a rescue system | `BlockGraph`, `Calculations`, `CalculationsProofs`, `Installation` |
| GPT validation | `internal/mikrotik/gpt.go` | none (pure) | validateOfficialUEFIGPT, readGPTMetadata | the rewritten partition is where a reader of either table looks for the ESP | `ImageLayout`, `Calculations`, `CalculationsProofs` |
| FAT16 | `internal/mikrotik/fat16.go` | none (pure) | buildUEFIFAT16, validateUEFIFAT16, file reader | what passes can be read whole; files that pass their checks are built | `Fat16`, `Calculations`, `CalculationsProofs` |
| Network plan | `internal/network/detect.go`, `validate.go`, `internal/ui` | none | Detect, selectDefault, inspectRouteSet, isRedundantDHCPRoute, Validate, the form | CHR forwards as Linux did | `Routes`, `Network`, `FirstBoot`, `FirstBootProofs` |
| DHCP probe | `internal/network/dhcp_linux.go` | a socket and a deadline | ProbeDHCP, parseDHCPOffer | it ends; it accepts its own offers only | `Network`, `FirstBootProofs` |
| RouterOS script | `internal/network/routeros.go` | the configuration of CHR | RouterOSScript and its commands | it may be broken off and run again; it touches one port | `FirstBoot`, `FirstBootProofs`, `MCFirstBoot` |
| Report, command runner, data types, flag parsing, bootstrap script | `internal/report`, `command`, `model`, `cmd/chr-install`, `installer.sh` | | | | not modelled: formatting and wrappers |

How they interact. `app.Run` calls preflight (which calls `disk.Detect`, the network
detection and `ResolveLatest`), the UI, `Client.Prepare` and, after detecting the
disk again, `StageAndBoot` or, in a rescue system, `RunWriter` directly. Staging
puts the writer binary, the image and the manifest into an initramfs and leaves the
machine to kexec or GRUB; the writer reads the manifest, waits for the authorised
disk, copies, verifies and reboots. No two components share memory; they share the
host: files that survive a kill, `grubenv`, the kernel's kexec slot, the page cache,
mounts, kernel disk names and the hardware clock. One context, cancelled by SIGINT
or SIGTERM, is passed through everything before the writer.

What is hard here: steps are external commands that may fail after their effect;
undoing has several steps, each of which may fail; a kill or power loss can come
between any two; disks are renamed by the order in which they appear; the disk is
matched by identity and then opened by name; data that was read is used after a
human pause. `hazards` in `PROJECT.json` lists these places by line.

## Modules

`Stage` (state machine of `StageAndBoot`). `pc` names the next external step; every
action is one such step with its outcomes: done, failed without effect, failed after
its effect. `now[o]` says whether an object (a file, directory, temporary, the menu
entry `cfgEntry`, the setting `armed` of `next_entry`) exists for the running system;
`unsynced` are those whose state on the medium may differ, so `PowerLoss` chooses
among `Survivors`. `todo` is at first the list of partial files that `PrepareStage`'s
deferred cleanup would remove, and in a cleanup what is left to remove, taken in the
order of the code (`PartialRank`, `CleanRank`). `loaded` is the kexec slot, `pending`
the job systemd accepted. `Machine` has what the program does not control: signals,
kills, power losses, GRUB at boot (`FirmwareBoot`, which translates the one-shot block
that `grubScript` writes), the writer seen from outside, and the administrator, who
may start the installer again or follow the recovery recipe. File contents are
abstracted to presence: the script and the copy of the initramfs below `/boot` are
written to a temporary, synced and renamed; the output of `mkinitramfs` itself is not
(stage.go:193), so it is unsynced until the sync before the commit. The direct method does not stage and is in `Writer`.

`Handover` is what staging promises, without files, commands or boot loaders. A *grant* is
one way in which the next start of the machine may be the writer: a kexec image the kernel
holds, or the one-shot entry. A run gives and takes back grants, a success has one to show,
an error leaves none but those it found or failed to undo, and the writer starts only by
using one up. `Stage` instantiates it (`Abstract`), computing its variables from its own:
`GrantsOf` from `loaded` and `armed`, the run from `pc`, `after` and the verdict, what was
inherited from `stale`.

The modules named `...Proofs` hold the theorems: `StageProofs` about `Stage` and its refinement of
`Handover`, `WriterProofs` about `Fingerprint` and `Writer`, `ManifestProofs`, `DownloadProofs`,
`ImageProofs` and `InstallationProofs` about the module of that name, `FirstBootProofs` about
`Routes`, `Network` and `FirstBoot`, `CalculationsProofs` about `Calculations` and the four modules
it puts its questions to.

`Fingerprint` has the matching policy as operators. `Writer` and `Installation` INSTANCE it.

`Writer` (state machine of `RunWriter`). Disks attach and disappear; a disk gets the
first free kernel name, and `path` is a name. `cache` is the page cache and `media`
the medium: a write reaches the cache, `SyncTarget` the medium, where it may be lost;
`ReopenAndFlush` (BLKFLSBUF) makes the cache agree with the medium. A hash is the
function of the chunks it has covered. Every error return is `Fail`: a staged writer
halts, a direct one returns.

`Manifest` has two clocks: true time (Linux) and the hardware clock, which differs by
`skew` and may be put right between staging and boot. `Resources` does the arithmetic of
the estimates modulo `MaxWord + 1`, as Go's `uint64` does, and compares it with
unbounded arithmetic; its steps are composed with the other calculations in `Calculations`.

`Download` has the client and an origin that publishes other builds meanwhile. A
response is where its body starts, the length and the total it announces; a body may
break off anywhere. An archive is the sequence of its chunks and its checksum is that
sequence, so equality of checksums is equality of archives. `MCDownload` gives it four
builds: two of the same length, one longer, one beyond the limit.

`Image` follows `InjectAutorun` through the partitions of the MBR and then the UEFI
rebuild. `mounted` are read-write loop mounts, which the kernel may write back at any
time (`Writeback`); a mount or umount can fail, and under a cancelled context umount
does not run.

`Installation` is `app.Run`, with the host changing under it. `report` is the preflight
the user saw, `checked` what the revalidation saw. Preparing the image is one step here.

`Calculations` asks the pure parts their questions and puts each answer next to a definition
of what it has to be, which does not follow the code: `BlockGraph` (the graph of lsblk, the
two searches and the choice of the target, against "n carries the devices S when every set
that contains S and the parents of its members contains n"), `Fat16` (allocation, the two
tables, directories and the validating reader, against a reader that only follows the
table), `ImageLayout` (the checks of the MBR and of the GPT, against the sectors they name)
and the estimates. `MCCalculations` has the graphs, tables and images.

`Routes` has the verdict of `inspectRouteSet` on each route; a destination is the set of
addresses it covers, forwarding takes the longest prefix. `Network` is `Detect` with the
probe, `Validate` and the review in the form: `phase` follows the calls, `clock` counts receive
time-outs until the deadline of the probe, `heard` is the last frame. `FirstBoot` continues
with the script that the accepted plan becomes: `chr` is the configuration of CHR, changed by
one command per step, `matching` the ports that have the MAC address of the plan, and a reboot
starts the script again on what it left. `MCFirstBoot` has the hosts.

## Runs

| Run | Module, cfg | Question | Bounds | States |
|---|---|---|---|---|
| `stage_one_run` | Stage, StageOneRun | What does an armed entry find at boot, what do a crash and a commit leave, does staging end? | 1 run, 2 interruptions, 1 failing undo | 123 thousand |
| `stage_retry` | Stage, StageRetry | After an interrupted earlier run: does an error undo what the run did, does staging keep to the hand-over, does a reported error ever become a disk write, is the entry used once? | 2 runs, 1 interruption, 1 failing undo | 2.8 million |
| `writer` | Writer, Writer | Which disk is overwritten, when does the machine reboot, does the writer end? | 2 disks, 2 chunks, 1 disappearance | 2.1 million |
| `manifest` | Manifest, Manifest | Are fresh manifests accepted and stale ones refused? | age 4, offset 4, skew -7..7, 13 ticks | 6 thousand |
| `download` | MCDownload, Download | Is the image the official one, is it resumed at the right place, does it end? | 4 builds, limit 3 chunks, 2 republications | 6 thousand |
| `image` | Image, Image | Are mounts released, is the hash of a final image? | 3 partitions | 6 thousand |
| `installation` | Installation, Installation | Is what is staged what was reviewed and acknowledged? | 2 disks, 2 changes of the host | 580 thousand |
| `calculations` | MCCalculations, Calculations | Is each calculation right: target, EFI partition, partition tables, estimates? | 4 devices; 8 clusters of 3 cells, files up to 3 and 2 clusters; 3 MBR entries on 6 sectors; an image of 16 sectors; word 31 | 1.2 million |
| `network` | MCFirstBoot, FirstBoot | Does CHR forward as Linux did, is a DHCP plan confirmed, may the script run again, does the detection end? | 4 addresses, 3 kinds of default, 2 ports, 2 time-outs, 1 reboot | 2.3 million |
| `stage_recovery_boot` | Stage, StageRecoveryBoot | violated: README on the recovery recipe | 1 run, 1 interruption | |
| `writer_replaced` | Writer, WriterReplaced | violated: README on a target that disappears | 2 disks, 1 disappearance | |
| `network_untranslated` | MCFirstBoot, NetworkUntranslated | violated: README on layouts that cannot be translated | as `network` | |

Why the bounds are enough. *Stage*: an attempt starts from what earlier attempts left,
and it keeps no counter, so one interrupted attempt before the one observed gives every
combination of stale objects that matters; two interruptions cover a signal followed
by a kill or a power loss during the undoing; one failing undo operation covers each
position of a failure. *Writer*: one disk that is authorised and one that is not; two
chunks make "some, not all" possible; one disappearance is enough to give a name to the
other disk. *Manifest*: every relation between the three limits, skews beyond the limit
and ages beyond the sum of the limits occur. *Calculations*: four devices
allow two layers between `/` and its disks, a stack on two disks, and a disk on disks, with `/` on the
device found for it, on that and another, or on others; eight clusters hold two directories and files
of every length that is allowed, some of one cluster and some of several, with and without a rest, and
one cluster stays free, as many do in the code, whose limits let the files take little more than half
of the partition; every entry of the tables takes every word when read back; three MBR entries overlap in every order; each GPT differs from the official one in
one field at a time, both at once. For the estimates, with the word at 31 the sizes
include zero, the reserve, half a word, its neighbours and the largest word, so that each
sum and product can wrap. *Download*: a limit of three chunks has archives below, at and
beyond it; two republications let an archive be swapped and swapped back. *Image*: the
official layout has two partitions, the third shows the loop going on. *Installation*:
two changes allow a disk to go and another to come between review and revalidation. *Network*: with
four addresses there is a link with two hosts, a gateway behind it and a host that only the default
route reaches; every pair of a default and one other route occurs, and the pairs of nested redundant
ones; two ports make the MAC address missing, unique and ambiguous; one reboot can come after any
command, and no command counts. The hosts are those that can be (`RealHost`), which the proof
assumes of every host.

What each property says is in the comment before it. The most important ones:
`ErrorUndoesThisRun`, `ArmedEntryBoots`, `CrashBootsCompletePayload`, `OneShot`,
`NoWriterAfterError` and `CommitIsComplete` (Stage), `OnlyTheStableTargetIsWritten`,
`LostIdentityStops` and `RebootMeansInstalled` (Writer), `ImageIsOfficial` (Download),
`AuthorisedImageIsFinal` (Image), `StagedTargetWasReviewed` and `StageIsAuthorised`
(Installation), `ImplementsHandover` (Stage), `RootTargetIsWholeStack`, `RescueTargetIsFree`,
`AcceptedEspIsWhole` and `RewrittenPartitionIsTheEsp` (Calculations), `ForwardingPreserved`,
`DHCPIsConfirmed` and `ScriptIsIdempotent` (FirstBoot). Where a property has exceptions they are named in its comment and are
behaviour of the code, for example a kexec image the kernel took although `kexec -l`
reported an error.

`CHECK_DEADLOCK` is off in every run because every one of these systems ends: an
installed, refused or halted machine does nothing more.

## Fairness

*Stage*: weak fairness of the installer (the process is scheduled and the commands it
runs end) and of a shutdown that systemd has accepted. Nothing is assumed of the outcome
of a command, of signals, of the writer or of the administrator. *Writer*: weak fairness
of `RunWriter` (the only process of the initramfs) and of the clock, which is what ends
`waitForFingerprint`; no disk has to appear. *Download*: weak fairness of the client;
its HTTP client has a timeout (`client.go`, `NewClient`), so a request ends although the
origin is silent. *Network*: weak fairness of `Detect` and of the clock (`PlanFairness`); nothing is
assumed of frames, which may keep coming for ever. The other modules state no liveness: they are straight-line programs.

## Proofs

Every safety property that a passing run checks is proved by TLAPS for every value of the
constants:

| Theorem | Statement |
|---|---|
| `StageProofs!TypeCorrect` | `Spec => []TypeOK` |
| `StageProofs!OneShotHolds` | `Spec => []OneShot`, for any number of runs, kills, power losses and failing undo operations |
| `StageProofs!StageImplementsHandover` | `Spec => ImplementsHandover`: staging is the abstract hand-over, for any number of runs, kills, power losses and failing undo operations |
| `StageProofs!NoWriterAfterErrorHolds` | `Spec => []NoWriterAfterError`, as a consequence of the abstract specification |
| `StageProofs!ArmedEntryBootsHolds`, `CrashFindsPayload` | `Spec => []ArmedEntryBoots` and `Spec => []CrashBootsCompletePayload`: a reboot or a power loss at any step finds an armed entry bootable, whatever part of the unsynced writes survives |
| `StageProofs!CommitCompletes` | `Spec => []CommitIsComplete` |
| `StageProofs!ErrorUndoesThisRunHolds` | `Spec => []ErrorUndoesThisRun`: whatever step failed or was cancelled, and whatever earlier runs had left |
| `WriterProofs!StableNeverDegrades` | what is selected for a stable fingerprint shows the same WWN or serial, and no other visible disk matches |
| `WriterProofs!FallbackIsAlone` | what is selected without a stable identity is the only visible disk at that moment |
| `WriterProofs!StableTargetOnly` | `Spec => []OnlyTheStableTargetIsWritten`, for any number of disks in any order of attaching |
| `WriterProofs!LostIdentity` | `Spec => []LostIdentityStops`: a recorded WWN, or a serial recorded without one, that is not reported any more; disappearances included |
| `WriterProofs!InstalledAtReboot` | `Spec => []RebootMeansInstalled`, for any number of chunks, with failing and lost writes |
| `InstallationProofs!InstallationTypes` | `Spec => []TypeOK` |
| `InstallationProofs!ReviewedDiskIsStaged` | `Spec => []StagedTargetWasReviewed`, for any number of disks and changes of the host |
| `InstallationProofs!StageNeedsConsent`, `PackagesNeedConsent` | `Spec => []StageIsAuthorised` and `Spec => []PackagesOnlyWhenTheyHelp` |
| `ManifestProofs!FreshAccepted`, `StaleRefused` | `Spec => []FreshManifestAccepted` and `Spec => []StaleManifestRefused`, for all limits and all skews within the offset limit (a larger one is recorded as no offset, and an older manifest may then pass) |
| `DownloadProofs!OfficialImage` | `Spec => []ImageIsOfficial`, for all builds, lengths, limits and republications |
| `DownloadProofs!ResumedInPlace`, `NoShortArchive` | `Spec => []ResumeKeepsPrefix` and `Spec => []ShortBodyNoticed`, for all lengths and limits |
| `ImageProofs!MountsAreReleased`, `AuthorisedIsFinal` | `Spec => []MountsReleased` and `Spec => []AuthorisedImageIsFinal`, for any number of partitions |
| `FirstBootProofs!RedundantRoutesChangeNothing` | leaving out redundant DHCP routes changes the forwarding of no address, for every table in which no kept route other than a default covers one of them |
| `FirstBootProofs!FirstBootTypes` | `Spec => []TypeOK` |
| `FirstBootProofs!DHCPIsConfirmedHolds` | `Spec => []DHCPIsConfirmed`, for every host and sequence of frames |
| `FirstBootProofs!ScriptIsIdempotentHolds` | `Spec => []ScriptIsIdempotent`, for every valid plan and any number of restarts |
| `FirstBootProofs!OtherPortsUntouchedHolds` | `Spec => OtherPortsUntouched`, for any set of ports |
| `FirstBootProofs!ForwardingPreservedHolds` | `Spec => []ForwardingPreserved`, for every set of real hosts (`RealHost`) and every address, but for the four layouts that the property names |
| `CalculationsProofs!BuildFitsHolds`, `WriterFitsHolds` | `Spec => []BuildFits` and `Spec => []WriterFits`, for every word size and listing |
| `CalculationsProofs!RootTargetIsWholeStackHolds`, `RescueTargetIsFreeHolds` | `Spec => []RootTargetIsWholeStack` and `Spec => []RescueTargetIsFree`, for block graphs of any size and depth; the first speaks of the device found for `/`, and of its whole file system but for those of `OnOtherDevices` |
| `CalculationsProofs!AcceptedPartitionsAreApartHolds` | `Spec => []AcceptedPartitionsAreApart`, for tables of any length |
| `CalculationsProofs!RewrittenPartitionIsTheEspHolds` | `Spec => []RewrittenPartitionIsTheEsp`, for every geometry |
| `CalculationsProofs!CheckedFilesAreBuiltHolds`, `AcceptedEspIsWholeHolds` | `Spec => []CheckedFilesAreBuilt` and `Spec => []AcceptedEspIsWhole`, for every number and size of clusters and all limits that fit them |
| `TypeCorrect` in `WriterProofs`, `ManifestProofs`, `DownloadProofs`, `ImageProofs` | `Spec => []TypeOK`; the runs of these modules leave it to the proof |

The assumptions are the named ones of the modules, which TLC evaluates in the runs: bounds and
limits are naturals, sets of disks, ports, devices and addresses are finite, builds have a length.
One compares constants of the code: the greatest loader and map fit the EFI partition (`LimitsFit`:
8192, 512 and 2 clusters of more than 16000).
Two say what the environment guarantees: a graph of lsblk is well formed (`WellFormed`: a supported
disk lies on no device, a partition or a mapping lies on one), and hosts are real (`RealHost`: the default route leaves through the uplink, the kernel's
routes on it lead to the prefixes of its addresses, and a DHCP server names the router that it named
before).

The argument for `Stage`. `TypeOK` is inductive; its proof has a step per action, over
a few lemmas on the shared small steps. `OneShot` is not inductive: that the
entry is cleared when GRUB boots it depends on the file system of `grubenv` being plain,
which the run checked long before. `PlainInv` records that: `next_entry` is set, or may be
set on the medium, only on a host whose file system is plain; the steps that can set it
(`ArmedPcs`) are reached only after `ValidateGrubStorage`; and the installer runs only in
Linux. A power loss takes a survivor, which may have `armed` only if `now` has it or it is
unsynced, so the invariant speaks of both. With it `FirmwareBoot` clears the entry
whenever it boots the writer, and while the writer runs or is halted nothing sets it.

The argument for the hand-over. A step of `Stage` maps to a step of `Handover` once it is known
where grants can come from: `HandoverInv` says that an image is loaded, or the entry is armed,
outside the steps that hand over only when the run found it so or an undoing has failed; that
`next_entry` is always synced; and that Linux runs only from an untouched disk. The steps are grouped
as in the module (preparing, cleaning, booting, the machine), each mapped to one abstract action.
`NoWriterAfterError` then needs nothing of `Stage`: it is an invariant of `Handover` alone.

The argument for what an armed entry boots (`BootsInv`). From the renaming of the initrd until the
undoing has cleared `next_entry`, with which it begins, the initrd is in `/boot`, and without the
fallback it is synced (`InitrdInv`). A run's own entry is armed only between `grub-reboot` and that
step, so that outside of it an armed entry was found, or an undoing failed (`EntryInv`). When GRUB
boots Linux with `next_entry` still set there is no menu entry, and there is none on the medium that
a crash could bring back (`Durable`). The entry is in `grub.cfg` from the check before `grub-reboot`
to the commit (`CommitInv`).

The argument for the undoing. Objects that a run made itself, `Own`, must at every step be accounted
for by a cleanup that is still to come: `ProgressInv` says where the process is, which method it
stages and which partial files `PrepareStage` has registered; `Undone` says what the next cleanup is
going to undo, whether it has begun or not; `AccountInv` says that, unless an undo operation
failed, every own object is among those, is the temporary of the step, or is a directory that an
older file keeps from being removed (`GivenUp`). When a run
ends with an error nothing is to come any more, so nothing of its own is left. A kernel image that
stays loaded was found, or belongs to a `kexec -l` that reported an error (`LoadedAfterError`).

The argument for `Installation`. No two disks share a name and the disk of a running system stays
(`OneName`); a report is about at most one disk and shows its identity (`FoundInv`), so that
`sameInstallTarget` on two stable identities compares two disks; what has been acknowledged when a
step of the dialogue is reached (`AckInv`) and what a report lacked when packages were offered
(`ReportInv`) are carried along.

The argument for `Manifest`. The invariant `Recorded` ties the offset in the manifest to
the skew at the time it was made, and says that the skew is still that or zero. Then the
writer's clock is right, or right after adding the offset, which gives the first theorem;
and it is wrong by at most the limit, which gives the second.

The argument for `Download`. `Official` says what each step may rely on: from the
archive on, a UEFI host has the checksum of a validated build; once verified, the archive
has that checksum; once extracted, the image comes from that archive. Nothing is needed
about the partial file, which is why republication cannot break it. That the partial file is a prefix
is inductive by itself: a body starts at the beginning or at the length of the file, and what is kept
and what is read are adjacent parts of one archive.

The argument for the writer. With a stable identity `WriterProofs!StableNeverDegrades` gives a name
whose disk shows that identity, which is the target's; the names of attached disks are distinct,
because an attaching disk takes a free one and there are as many names as disks (the pigeonhole
lemma `SomeNameIsFree`); while nothing disappears the name keeps its disk, so that the disk opened is
the target. Without a match the writer never leaves the search (`NotFound`). For the reboot,
`Verified` says that the cache of the open disk was refilled from its medium and that the running hash
covers exactly the chunks of that medium up to the position; once it equals the image, so does the medium.

The argument for the image. While the loop runs at most the partition of this turn is mounted, and a
partition left behind was left by a failing unmount or a cancellation (`Mounts`); the script is in a
partition that is unmounted again, which on a UEFI host is not the boot partition (`Scripted`), so the
rebuild of the boot partition does not take it away.

The argument for redundant routes. Among the routes for an address there is a best one, because
prefixes are finite sets and metrics natural numbers. If it is kept, it is best without the dropped
ones too; if it is dropped, no kept route but the default covers it, so that the default takes over,
which has the same key.

The argument for the script (`ScriptInv`). Whatever the plan, the script has one shape (`Shape`): the
search for the uplink, the eight removals, then each addition of the plan once, in any order.
`After(S, n, c, u, r)` says what the first `n` commands leave of the uplink in a configuration `c`,
whatever they found: a client, address or route is there exactly when a command among them added it,
once its kind was removed by one of them; before the removal nothing is said. That is what makes a
restart harmless, and it is inductive command by command; at the last command it is the
configuration of the plan (`Final`). No command is refused after the search, because what could
stand in its way was removed and is added once.

The argument for the forwarding. `AgreedInv` carries the plan from the detection to CHR: one that is
accepted without acknowledgement is the one observed, and no issue was. Then every route of the
uplink is a default along one path, a route to a prefix, the host route to the gateway or a redundant
one (`RouteKinds`); CHR has the same prefixes on the link, from the plan, a lease or an advertisement
(`SameLink`); and its other routes all lead to the one gateway, which resolves (`ScriptServes`,
`GatewayIsReached`). Where routes lead to the prefixes `C` and otherwise to `g` (`Leads`), the
longest prefix decides as the one best route of Linux does, in four cases (`KeptWhereItLeads`).

The argument for the calculations. `AnswersInv` says that an answer is the operator's value at the
question; the rest is about the operators. *Recursive functions* are unfolded after their existence is
shown: a function with the recursive property exists on every interval of the naturals
(`Recursion`), so the one that CHOOSE takes has it. Induction is by a least counterexample, with a set
in place of a predicate (`IntervalInduction`). *Estimates*: sums and
products are exact until the first that wraps, and that one is refused (`EstimatesInv`).
*Target*: a search that has taken as many steps as there are devices has stopped growing, hence is
closed, hence contains exactly what carries the devices. *MBR*: in a sorted table neighbours that are
apart are all apart. *GPT*: the fields that are compared with constants leave one place for the ESP.
*FAT16*: the reader that is accepted visits distinct clusters, so its chain is no longer than the
table and the reader that only follows the table sees the same; the files that `buildUEFIFAT16`
lays out are consecutive clusters, whose chain and contents are what the reader expects, and since a
longer file takes no fewer clusters the limits on the lengths keep them within the partition.

Only model-checked: liveness (`EveryRunEnds`, `CommitReachesWriter`, `WriterEnds`,
`PrepareEnds`, `DetectionEnds`), which depends on fairness and so on ENABLED, which the prover does
not handle.

## Divergences between documentation and code

- **The recovery recipe and kexec** (`stage_recovery_boot`). A kill between `kexec -l`
  and `systemctl kexec` leaves an image loaded. The recipe has no `kexec -u`, and an
  orderly reboot may use a loaded image (the model allows systemd to or not to).
- **A target that disappears** (`writer_replaced`). The README says that disappearance or
  change halts before writing. The identity is resolved to a path once, the path is opened
  later: another disk that takes the name in between is written. Without a disappearance
  `OnlyTheStableTargetIsWritten` holds.
- **Layouts that cannot be translated** (`network_untranslated`). The README says that the preflight
  rejects them. The IPv4 mode follows from the addresses alone: a static default route over a DHCP
  address passes, and CHR uses the gateway of the offer instead. A redundant DHCP route inside
  another kept prefix and an IPv6 default route without gateway pass too, and so does an IPv6 default
  route over a DHCPv6 address: the script adds the DHCPv6 client with `add-default-route=yes`
  (routeros.go:58), so CHR has a second default route, to the DHCPv6 server
  (`DefaultBesideDHCPv6`). `ForwardingPreserved` holds for everything else.

Three further ones are not runs. The first two restate a single step. *Returned errors and an entry
armed earlier*: README.md:105 says that returned staging errors clear an armed GRUB entry; a run that
fails in `PrepareStage` removes files only, so an entry that an earlier killed run left stays armed
(`Handover` counts it as inherited). *The BIOS boot partition*: README.md:32 says that it stays
unchanged; `InjectAutorun` mounts it read-write while it looks for `/rw`, which may update its
superblock. *A file system on several devices*: README.md:30 says that the preflight rejects RAID and
layouts that cannot be translated credibly. `Detect` asks for btrfs and for the types of the devices
under the one it has found; a bcachefs on two devices names both in its SOURCE, the lookup falls back
to the last part of that, and no blocker appears; a journal on another device is not seen either
(`OnOtherDevices`). `RootTargetIsWholeStack` holds of every other file system, and of the device that
was found always.

## Not modelled, and why

Texts, forms, reports and flags: no property is about them. The other fields of the
manifest are stateless checks of one record. sysfs and VPD parsing is abstracted to what it
yields (a normalised identity, how it was spelled, or nothing), lsblk output to the graph, the
output of `ip` and configuration files to routes, addresses and the evidence they give. Checksums of
the GPT are one flag; attributes, names and unique identities of partitions, the boot sector, dates
and short names of the FAT16 file system are compared with constants and left out. DNS servers, MTU
and peer DNS take part in no decision but the blocker for missing DNS; the range of the MTU and the
syntax of addresses that `Validate` checks are left out with them. Multipath default routes are
not decoded by `detect.go` (their `nexthops` are ignored), so such a host looks like one without
gateway. Addresses whose prefix route was suppressed and routes that a router advertises beside the
prefixes are left out of the hosts (`RealHost`). What a kernel, GRUB, systemd, mkinitramfs, RouterOS, a DHCP server or an origin does is
modelled from how the code uses it, and marked external in `map`.

## Plan

1. `Installation` with the whole record that `disk.Detect` returns, for what staging takes from the
   first report without looking again (kernel path, memory), and the theorem about it.
2. The ranking of VPD descriptors in `Fingerprint`, with `StableNeverDegrades` restated for it.
