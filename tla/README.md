# Verification of amipi400

TLA+ models, TLC checks and TLAPS proofs of the two programs in this repository:
`amiga_disk_devices`, which shows floppies, CDs and disks of the Amiga as files
(ADF, ISO, HDF) over FUSE, and `amipi400`, which runs the Amiberry emulator and puts
those files, and disk images from removable media, into its drives.

## The system

| Part | State | Operations | Hard because |
|---|---|---|---|
| `AsyncFileOps`, a queue of delayed operations per floppy drive | slice of operations, map of one-time-final writes, `running` | `FileReadBytesDirect`, `FileWriteBytes`, `FileWriteBytesOneTimeFinal`; a goroutine executes them | no lock on slice and map; refused writes; stop with work left |
| Floppy driver and cache | medium of each drive (UUID, handle, cached, caching disabled), cached ADF files, header in the last sector of the floppy | probe, read, write, cache, close | trust in a cached file rests on times; floppies change drive and computer; crash at any step; two drives share a directory with a quota |
| `AddFileSystem`, media, CD and disk drivers | list of media, open handles | FUSE calls, attach, detach | list and handles shared without a lock |
| `AmiberryCommander` | queue of commands, `executeLoops`, commands being collected, tmp ini file | put, execute; a goroutine writes the file, signals the emulator and waits | no locks; a wait without timeout; the process may be dead or starting |
| `AmiberryEmulator` and the patched Amiberry | drive slots, process, rerun flag | attach, detach, hard reset; a goroutine runs the emulator again and again | restart races with commands and signals |
| Slots and mountpoints of `amipi400` | ADF, HDF and CD slots, list of mountpoints with default files | attach and detach of media and devices, keyboard commands, disk copy, `unmountAll` | four kinds of goroutines, no locks, many partial failures |
| `BlockDevices`, `AmigaDiskDevicesDiscovery` | what the last poll saw, idle flags | poll, callbacks, start of the emulator | idle handshake; errors end the loop and the program |
| Keyboards | pressed and released keys, key sequence | events, callbacks, clear | several keyboards at once; bounded sequence |
| LED and mute timers | a counter each | blink or mute for n seconds | counter written by both sides |
| `WIFIControl` | command channel, last error | connect, disconnect, wait | waits without timeout, channel closed on stop |

Interaction: the FUSE thread of a drive calls the driver, which puts delayed writes
into the drive's queue. The polls of `amipi400` call back into its slots, the slots
call `AmiberryEmulator`, that puts commands into the queue of `AmiberryCommander`,
and the commander hands them to the emulator through a file and SIGUSR1.

What makes each part correct, in a line: an accepted write reaches the floppy, and the
newest one wins; the emulator always reads what was last written to a floppy; a crash
costs at most the writes that had not reached the floppy, and none once the header on the
floppy leads to its file; the quota of the cache holds; the emulator has in its drives what the
slots say; no goroutine waits for ever; a slot holds a file only while its medium is
there.

## Modules

| Module | Models | State and actions |
|---|---|---|
| `DelayedWrites` | what a queue of delayed writes promises | `due` and `stored` writes per sector; `Accept`, `Store`, `Refuse` |
| `AsyncFileOps` | `shared/components/async_file_ops.go` for one drive | `operations`, `final`, `running` are the fields; `ppc`, `pop`, `pview` the producer inside `append`, `wpc`, `wview`, `head` the worker inside `loop`; an action per load, store or device write |
| `AsyncFileOpsProofs` | theorems about it | |
| `FloppyCache` | floppy driver, cache directory, quota, queue as its effect | floppies (`disk`, `header`), `files`, `medium`, `due`, `dueHeader`; `pc`, `snap`, `victim` are `floppyCacheAdf` in progress; `orphan` the contents of a removed file that is still open |
| `Amiberry` | commander, emulator, signal handler | `adf` the slot, `commands`, `executeLoops`, `ini`, `process`; `todo` what a goroutine in `AttachAdf` or `DetachAdf` still has to do; `emu` the life of the emulator, `drive` what it has in the drive |
| `Slots` | `amipi400.go`, `mountpoint_list.go`, the two polls | `slot` the drives of the emulator, `list` the slice of mountpoints and `heap` the arrays it has had, `loaded` the slice an `append` or a `slices.Delete` is working on, `mounted` what the kernel has mounted, `blocks`, `oldBlocks`, `currentFiles`, `oldFiles` the last two looks of each poll; `todo` what each goroutine still has to do, `ranged` the slice `unmountAll` ranges over |
| `AddFileSystem` | `add_file_system.go`, `medium_base.go`, the handle and mutex of `medium_driver_base.go`, attach, detach and format of `amiga_disk_devices.go`, its poll | `array` and `size` the slice of media, `media` every medium made so far with handle and owner of its mutex, `closing` the one removed and not closed yet; `leaving`, `coming` the callbacks a poll still has to make; `thread` the FUSE calls in progress |
| `Services` | the start, the two polls and their idle handshake, runners and their blocker, `gracefulShutdown` | `initializing`, `rerunEmulator`, `running`, `isIdle`, `old` and `new` are the fields; `pc` and `current` where each poll is, `shutdown`, `round`, `left` where the shutdown is |
| `Console` | `keyboard_control.go`, `all_keyboards_control.go`, the commands of `amipi400.go` for the WIFI, `wifi_control.go`, the LED controls | `spelled` what the key sequences spell, `pc` and `command` the callback of each keyboard, `wpc` and `operation` the loop of the WIFI, `seconds`, `lpc`, `view` the loop of each LED |
| `FloppyCacheProofs`, `AddFileSystemProofs`, `ServicesProofs`, `ConsoleProofs`, `AmiberryProofs`, `SlotsProofs`, `SlotsFilesProofs` | theorems about those modules | |
| `MC*` | the instances TLC checks | |

A variable after "Observation only" records what a property needs and guides no action.

### AsyncFileOps
`append` and `slices.Delete` are each a load of the slice and a store, because the code
takes no lock; `slices.Delete` moves elements in place, which a producer that holds the
same array sees and one that has grown to a new array does not: both are tried. Slice
headers and map entries are loaded and stored as a whole. The producer is single: the
medium's mutex is held around it. A write is its sector and its number; the number stands
for the contents. After `Stop` the process may end at any time.

### FloppyCache
One action per driver call; `floppyCacheAdf` is split where another drive can come
between (quota check, eviction, begin and end of the file, stat). Contents are write
numbers. The file time has the grain the code uses (seconds); the clocks of two hosts
agree and another host's write takes place in a later second. A floppy is taken out
only when its drive is quiet, as its light says. When `Stat` fails on a removed file the
code panics and the FUSE library answers with an error. `fullyCached` and the other
flags of the medium are folded into `cached` and `disabled`. The queue writes what is
due in any order, headers included, and may drop a sector or the header (`DropDue`, `DropDueHeader`: the drive
refuses it, or the queue loses it): what `AsyncFileOps` guarantees. `cachedWriteFails` is the write to the file that
fails after the floppy's copy of it was queued. `newest` is what the emulator was told is written and what is not
lost; `unstored` names the blocks whose newest write only the file has.

### Amiberry
Commands for all drives travel alike, so one drive stands for all; the commands around
an insertion are one command. Writing the tmp ini file is one step; if it fails, a short file
that holds the command or not may stay, and nothing is signalled. A signal sent to a
process that has not installed the handler kills it; one sent to a reaped process is an
error that the code ignores, and so is a `Start()` that fails (it counts as one of `MaxKills`). What is
sent when the queue is empty is the last of that execution (`last`): the commander then goes back to `loop()`. `SetEmulatorPaused` has no caller and is left out.

### Slots
A goroutine is given a list of steps by what it starts on (a callback of a poll, a command, a
signal) and takes them one by one; a step whose test fails goes on with its `orelse`: an early
return with its deferred calls, or simply the rest where the code ignores the result. The test
of a drive and the change of it are two steps, and so are mounting and listing, unmounting and
removing. The list has no lock either (`mountpoint_list.go` 23-35): `AddMountpoint` loads the slice
(`LoadToAdd`) and then appends and stores it; `RemoveMountpoint` looks for the mountpoint
(`FindToRemove`), loads the slice (`LoadToRemove`), and then deletes in place and stores. If one of
these runs inside another, what was stored in between is lost: an appended mountpoint is in no list,
a removed one is back, or the wrong element goes. The ghost `torn` says that this has happened, and
`MountedKnown`, `ListedOnce` and `UnmountAllUnmounts` then say nothing more: the code breaks them,
and does nothing against it. `TypeOK`, `RerunRestored` and `DeviceNotDangling` hold nevertheless, and
goroutines that take turns do not tear the list (theorem `TurnsDoNotTear`). An index that
`FindToRemove` found may lie behind the slice that is loaded, which ends the program (`Panic`).
One step each: a look into the list; the tests at the start of a command; mounting with its checks
and files; the shift of the elements with the store of the slice. A nil in the list ends the program
when it is next searched, which is taken to be at once.

`fillIndexes` knows `MAX_ADFS` only: a command that unmounts a hard disk or CD drive behind
that number does nothing. `lowLevelCopy` lets a floppy be copied to a hard disk number that does not exist (`Beyond`): it
has taken the file out of the source, and the look into the target's drive ends the program.

A medium is its device pathname, its label and its directory at once: no two media have one
label, and a medium comes back under its own device name. A changed property of a block device
is the medium leaving and coming back, as the code treats it. The files of a medium are the
disks of one title, and a name may match any of them or none. `unmountAll` sees
the elements of the list move under its `range` when `slices.Delete` removes one. `go.mod` says
Go 1.19, but `mountpoint_list.go` imports the `slices` of the standard library, which Go has
since 1.21; from 1.22 on `slices.Delete` sets the element behind the new end to nil, and
`ClearsTail` tells the two apart. With it, `unmountAll` with two mountpoints or more comes to a
nil mountpoint and ends the program (`slots_turns` runs that build, `slots_races` the other).
The queue and the commander import `golang.org/x/exp/slices` of 2022, which never clears. The eight tries of an unmount are one step. A mounted
directory can be given to a drive without being mounted; a floppy or CD image is taken by name
only; an HDF must be readable. Everything happens after the start (`initializing` is false).

### AddFileSystem
A disk is a number, and what `lsblk` shows of it is its look; two disks may look the same. A
call copies the slice header and then ranges over it, an element a step, while the poll removes
in place and appends in place or to a new array. After the search a call locks the medium's
mutex, opens the handle if there is none (the open and the store of the handle are two steps),
accesses the device and unlocks. `CloseMedium` takes no mutex, and comes after the removal
from the list: the base driver closes the handle and then forgets it (`CloseHandle` first), the floppy driver the
other way round (`CloseMedium` alone; a use of the handle that is not over when it is closed fails). `Open`, `Getattr`, `Read` and `Write` differ in what follows the search; the
model has the longest, `Read`. `Truncate` changes nothing in the code. A probe that fails, or
finds no driver, is one fault.

### Services
A poll is a look, then a callback per thing that left or came, with steps in between, then the
idle callback, whose tests are a step each. A callback may return at once (`CallbackRefused`: no slot, or
a label without one) or fail on the way (`CallbackFails`); it has no result, and the poll never tries again. Attaching a hard disk clears `rerunEmulator` and stops the
emulator. `unmountAll` is a set of mountpoints and at most 8 rounds (`Rounds`), with every unmount well
or not; its element-by-element order is in `Slots`. The other runners stop only in
`stopServices`.

### Console
What the sequences of all keyboards spell is a command or nothing; a keyboard looks, clears all
sequences and runs the command in three steps, so two may run the same one. The WIFI's channel has no
buffer: a keyboard that sends waits for the loop to receive. `WaitUntilConnected` and
`WaitUntilDisconnected` look at the interface only. The seconds of an LED are loaded and stored by its loop in two
steps; a command stores in between. `Save` marshals the configuration and then writes the file, in two
steps; a failure is only logged and may leave the file truncated. The zoom keys save the same
configuration. Of its settings the model has `WIFIManage`. `MaxInt` seconds (`Pending`) never count down to zero.

## Runs

| Run | Instance | Shows |
|---|---|---|
| `queue` | 2 data sectors and the header, 4 operations, 1 refused write | types, the inductive invariant of the proofs, newest write stored or due, motor reads only in front, headers in order, refinement of `DelayedWrites`; data reaches the floppy even under endless reads, the header once reads and writes end |
| `queue_lost` | 2 writes | *violated*: an append between load and store of a delete loses an accepted write |
| `cache_hosts` | 2 drives, 3 floppies, quota 1, another computer with a cache | reads see the newest contents, with eviction by the other drive; quota exceeded by at most one file per further drive |
| `cache_crash` | 1 drive, 2 blocks, a crash, and one failure (a write of a file, a refused sector or header) | a crash at any step costs the floppy at most the blocks whose newest write had not reached it, and none if its header leads to its file |
| `cache_torn` | a crash while a file is written over | *violated*: a torn file is accepted |
| `amiberry_wakeup` | 2 callers, 2 calls, 2 overlaps on the slice | no wake-up is lost |
| `amiberry_live` | 1 caller, 2 floppies, 2 calls, a kill or a failed start, an HD operation | at rest the emulator has what the slot says; the wait for the tmp ini file ends; commands are taken |
| `slots_turns` | 2 floppy drives, a hard disk and a CD drive, 3 media, a device, 3 arrivals or departures, 2 commands, a failure, a copy, one goroutine at a time | as long as nothing fails, what is listed is mounted and a drive with its own medium's file has it mounted; unmounting leaves nothing in the drives; commands spare devices |
| `slots_races` | a floppy drive and 2 hard disk drives, 3 media, a device, 3 arrivals or departures, 2 commands (one may be a signal), a failure, one operation inside another | until two changes of the list run inside one another, every mounted medium is listed, none twice, and `unmountAll` (4 tries) leaves nothing mounted; a device's file leaves with it and the emulator may run again, come what may |
| `files` | 2 drives, 2 FUSE threads, 3 things the user does, 2 calls, a failing probe | a call for a disk that stays is served by it; one handle at most; no search meets an empty place; calls end; the list catches up with the drives |
| `services` | a medium attached as a hard disk and a file that is one, 1 plug, 1 failure (`lsblk`, the configuration or a callback), 2 rounds | the Amiga starts with what is plugged in and did not fail to attach; SIGTERM leaves unmounted what can be; the emulator runs again; the program ends |
| `console` | 2 keyboards, 2 commands (zoom keys among them), another key, a fault | the saved setting is how the WIFI is left; commands end or wait for a network that cannot come; LEDs stop blinking |

Why the bounds are enough: the races need one operation inside another, which two writes
(or one write and a read) and one worker give; four writes add growth of the array and
an operation brought back after a later one. An eviction of a file in use needs two
drives and a quota of one. A torn file needs two blocks. A restart needs one kill; a
command that outlives an emulator needs one more call after it. The loop of `unmountAll`
skips an element only from three media on: with two, the element left behind the end of the
list hides it. A mountpoint gets lost between mounting and listing, or between unmounting and
removing, only if another goroutine comes between: one overlap does. In `slots_turns`, three plugs let a medium come, leave and be back, or two media and a device be
there for a copy and a command after it. In `files`, removing one
of two media while another thread ranges over the list needs two drives and two insertions; a
third event gives a swap or an eject under a call. In `services`, a hard disk on either poll
stops the emulator during the idle handshake; two rounds tell the last round of `unmountAll`
from the others. In `console`, two commands on two keyboards are an overlap, and each may
be run twice.

Deadlock is not checked: the users of the system may stop, and the bounds on counters
end the runs.

### Fairness
`AsyncFileOps!FairSpec`: the worker and a producer inside `append` go on (the Go
scheduler is preemptive); no one is obliged to read, write or stop.
`Slots` and `FloppyCache` are checked for safety only. `Amiberry!FairSpec`: goroutines and emulator go on, an HD operation ends; nobody must
attach or reset. The emulator is reset finitely often (`MaxKills`); without that bound a
reset just before each signal could keep the commander waiting.
`AddFileSystem!FairSpec`: the poll runs every 10 ms, a FUSE thread goes on, and a Go mutex gives
every waiter its turn in the end (strong fairness of `OpenMediumHandle`); no one is obliged to insert, press or call.
`Services!FairSpec`: the polls, the goroutine of the emulator, the shutdown once begun and the
blocker go on; plugs, signals, failures and an emulator that quits need not come.
`Console!FairSpec`: goroutines go on, and `wpa_supplicant` with the right password connects; nobody must type.

### Assumptions on Amiberry runs
`amiberry_live` has one caller and no overlapping access to the slice
(`MaxRaces = 0`): with overlaps commands are lost, as in `queue_lost`, and a sleep command
of one caller makes the commander forget the commands of another. `InSync` also leaves out
commands that the code loses when the emulator ends or starts at that moment, or when the tmp ini file cannot be
written (`missed`).
`NoLostWakeUp` is checked with the overlaps.

## Findings
Checked by a run:
1. `queue_lost`: `async_file_ops.go` 38 and 309 share a slice without a lock.
2. `cache_torn`: a cached file is written in place; torn, it looks complete.

Seen while modelling, and kept in the models as the code has it (a property that needs an
exception names it):

* `amipi400.go` 824-859: `lowLevelCopy` detaches first and looks for the mountpoints later; its
  early returns leave the drives empty. A device's file that left during a copy is attached again (929).
* 1351: `hfEjectFromSourceIndex` knows a directory by a slash its path never has, so it ejects directories.
* 1222: `cdInsertFromSourceIndexToTargetIndex` uses a mountpoint that may be nil (the step `panic`).
* 1409: `isHdfAttached` looks at the first drive only; the disks of a title are inserted without
  looking for them in other drives.
* A medium that leaves ejects whatever is in its drive, a real floppy too, and leaves its own
  file in other drives.
* 1702, 1883: a medium that could not be unmounted when it left stays listed. When it is back it is unmounted first and then
  not mounted, because it is listed (`MountsMatch` says `failures = 0`).
* `realWrite` does not touch the header, so another computer that writes directly makes an
  older file acceptable here (`OtherHost <- RealHost`).
* `floppy_medium_driver.go` 892-914: a write to the cached file that fails is queued for the floppy nevertheless, and
  only then reported as failed.
* 221-248: the header is put off until the drive is left alone, and with it the only way back to the writes
  that are due; a crash before loses them.
* After a cached file that stopped short, `checkQuota` may remove that file and free nothing: the
  quota is then exceeded by one more (`QuotaKept` is checked without failing writes).
* `add_file_system.go` 52, 72: a search during a removal may pass over a medium that stays, and
  answers ENOENT. `slices.Delete` of `golang.org/x/exp` leaves the end of the array alone; that
  of Go 1.22 would put a nil in the way of the search (the mutant of `NoNilMedium`).
* `amiberry_commander.go` 158-165, 176: a tmp ini file that cannot be written loses its commands; what is queued
  while the last commands of an execution are sent waits for the next wake-up, which `Execute` has counted.
* `main_config.go` 49-69: two keyboards in `Save` at once may write the older text last (`overlapped`
  in `SettingKept`).
* A call that found a medium before its removal opens the device again after `CloseMedium`, and nobody
  closes that handle. A floppy swapped between two polls for one that looks the same is not noticed.
* `medium_driver_base.go` 95: a read beyond the end of a medium has a negative size.
* `block_devices.go` 44-50: SIGINT from the terminal kills a running `lsblk` too; its poll ends and the
  program with it, in the middle of `unmountAll`. A signal's `unmountAll` runs while the polls still mount
  and may start the emulator again.
* `wifi_control.go`: `WaitUntilConnected(32)` never looks at its number. With a bad password, or
  when another keyboard wants the opposite, it waits for ever, and so does its keyboard. `Wait`
  looks at the length of a channel without buffer, which is always 0, so it returns at once and an
  error is reported with a later command.
* `power_led_control.go` 44: a loop that has loaded `MaxInt` may store it less one over the last
  seconds; the LED then blinks for ever (`lost` in `LEDsSteady`).
* `keyboard_control.go` 277, 292, 319: another keyboard ranges over maps that this one writes.
  Go ends a program it catches at that; the model has no such end.

## Proofs
`AsyncFileOpsProofs`, for any set of sectors and any bounds, from
`ConstantsAssumption` alone:

* `Invariance`: `Spec => []IInv`. `NewestStoredOrDue` is not inductive: that the newest
  write of an undamaged sector is in the queue after a delete depends on what the worker
  and the producer have loaded. `IInv` adds: the views hold what the slice
  held (a producer's view ends with the newest write if the slice does; the worker's
  view is a prefix of the slice), older writes of a sector never stand behind the newest
  in any of the three copies, header numbers in map, hand and device are in order, and
  motor reads are first in every copy.
* `TypeCorrect`, `NewestKept`, `ReadsInFront` follow from `IInv`; `HeaderMonotone` is an
  action property from it; `Refinement` shows that every step is a step of
  `DelayedWrites` or a stutter.

TLC checks `IInv` as an invariant of `queue`.

`FloppyCacheProofs`, for any drives, floppies, blocks and bounds: a UUID belongs to one floppy
(`SInv`), and a file is fit to stand for its floppy only if it holds what was last written:
`CachedAt` for a medium that is served from its file, `UncachedAt` for one that is
served from the device, `LooseAt` for a floppy in no drive, `TimesOK` for what the times say.
`NewestRead` (`ReadsNewest`) assumes `HostsOrFaults`: either there is one computer, with any crashes,
failing writes and refused sectors, or there are others and none of those. What a crash or a refused
sector loses is not the newest any more (`Forget`), and `CrashesLoseOnlyUnstored` says how much that can be. Outside `HostsOrFaults` `cache_torn` is the
counterexample. It also assumes that another computer updates the header (`OtherHost # "real"`):
one that writes directly is the uncovered hazard of `realWrite`. `CrashesLoseOnlyUnstored` (`CrashLosesOnlyUnstored`) is about one
computer. A crash is not harmless: until the queue has been empty once, and the first header is on the floppy, all
writes that are due die with the process although the emulator was told they are written; the same when the file is removed that
was to stand in for them. The theorem says that nothing else is lost. `QuotaIsKept` (`QuotaKept`) bounds full files and files being written together, each of
which costs a drive; it assumes no crash and no failing write, as the eviction of a short file frees nothing.

`AddFileSystemProofs`, for any devices, threads and bounds: `SearchMeetsMedia` (`NoNilMedium`) and
`OneHandleOpen` (`OneHandle`) follow from `AInv`. The search reads places of an array that the
poll shortens, so that the list holds media (`ListOK`) is not enough; `SearchOK` says that every
place that ever held a medium, in the list's array or in one left behind by `append`, still
holds one. `MutexOK` says that whoever works on a medium owns its mutex and that a handle
opened but not stored is the only one: a close in between only takes one away.
`ServedWhatStays` (`ServedByOwnDisk`) needs that a device has one listed medium and that one the poll is
about to add is not listed (`PollOK`), that a handle is good for the disk it was opened on
(`MediaOK`, where later media have later disks) and what a call found (`CallOK`).

`ServicesProofs`, for any media, files and number of rounds: `StartsWithBootMedia`
(`BootMediaAttached`) follows from `BInv`. Each test of the idle callback is stale when
the next is made; what lasts is that a poll seen idle once has attached everything that
has been there from the start and did not fail (`Seen`), and `Handshake` carries that from each test to the
clearing of `initializing`. `TermLeavesUnmounted` (`EndsUnmounted`) follows from `EInv`: what is
mounted during `unmountAll` is excused or still in `left`, which every round fills again, and
no runner stops before `stopServices` but by a failure or the SIGINT that kills `lsblk`.
`TypeCorrect` (`TypeOK`) adds `RInv`.

`ConsoleProofs`, for any keyboards: `SettingIsKept` (`SettingKept`) follows from `Kept`. A command waits for
the network, not for the loop, so the loop may lag behind the saved setting; whatever
will still change the network is what the only keyboard in a WIFI command waits for. `Kept` says so while
neither WIFI commands nor two `Save`s have overlapped and no saving or operation has failed, the exceptions `SettingKept` itself makes.
What any keyboard has marshalled is then the setting as it is.

`AmiberryProofs`, for any callers, floppies, overlaps and bounds: `WakeUpNeverLost`
(`NoLostWakeUp`) is inductive with `PutsAreWoken`: every put that is still to come has an Execute
behind it, and what Execute stores is at least one, whichever store it overwrites. `TypesCorrect` adds that the
commander never deletes from an empty queue. `DriveFollowsSlot` (`InSync`) assumes one caller, for the
reason given under *Assumptions on Amiberry runs*; it follows from `SyncInv`. What the slot
says, or will say after the call in progress, is wanted (`Wants`) of the last insertion not yet done, wherever
that is: still to be put (`LastPut`), in the queue (`LastQueued`), in the commander's hands, in the tmp ini file, or in the
configuration of an emulator that starts (`OnWay`). A sleep then forgets nothing, as a commit follows each insertion
in the queue (`QueuedOK`, `CurrentOK`), and a file that nobody waits for is missed or
removed by the next emulator (`FileOK`).

`SlotsProofs`, for any drives of each kind, media, files, keyboards, overlaps and bounds:
`NothingListedTwice` (`ListedOnce`) needs that the places of the list hold different mountpoints and that a
label is listed by the poll alone, and that whoever stores the list has met it as it was loaded; `MountedIsKnown` (`MountedKnown`) follows from `MountsOK`: a mounted medium is listed, or
one without files that could not be unmounted, or first in the poll's hands (`Held`). Both end with the first change
of the list that another overwrites (`torn`), as the code's do; they show that nothing short of that hides a mounted medium or lists one twice. `UnlistsOK` says that
whoever is about to take a mountpoint out of the list has unmounted it and nobody has mounted it since. `EmulatorReruns` (`RerunRestored`) follows from
`RestartsOK`: every sequence of steps that has begun an operation on a hard disk comes to
its `hdDone` whichever step fails (`Restores`), because each `orelse` does. `TypesCorrect` needs the shapes of all
sequences a goroutine may be given (`Proper`) and which mountpoints anybody can know
(`Known`).

`SlotsFilesProofs`, for the same constants: `DevicesLeave` (`DeviceNotDangling`) follows from `FInv`. Goroutines other
than the discovery only take files out of drives or put those of media in (`Sparing`, `OthersSpare`). The discovery's own steps have
one of a few shapes (`DiscoveryOK`), for a file that comes (`Coming`) or leaves (`Leaving`); and a device's file is in
a drive it fits and in no other, and the discovery knows it is there or is about to take it out of that very
drive (`DeviceSlots`). It is stated until the first disk copy: a copy takes a device's file out and puts it
back at its end, whether it is still there or not, which is the hazard at `amipi400.go:831`.
`KeyboardsSpare` (`KeyboardsSpareDevices`) adds that goroutines take turns (`OneBusy`): a keyboard's steps then empty
only drives without a device's file that is there (`KeyboardsHarmless`, which is `Sparing` for those drives). The
discovery's look for new files does not spoil that, for it has told of the last ones and by `DeviceSlots` the drives
hold no others. After a copy they may: a file that is gone comes back into its drive unknown to the discovery, a
keyboard may start to eject it, and the file be there again when it does; so both properties say `copies = 0`.
What steps may do, which differs between these arguments, is a record (`may`) that `Sparing` and its lemmas take; `Allowed` says
which records make sense.
`UnmountsLeaveNothing` (`UnmountLeavesNothing`) needs two invariants. Whatever the goroutines do to each other, a drive holds
a medium's file only if it is of the medium's kind (`SlotsFit`), as nobody has another to attach (`TodosFit`): the
commands that unmount one drive or one kind look only at the drives of that kind, and this is why it suffices. And when
goroutines take turns, the one that unmounts has emptied, or will on its way to the unmounting, each drive that
holds a file of the medium (`Unmounting`); what it does afterwards unmounts nothing it knows of yet (`QuietMay`).
`TurnsDoNotTear`: when goroutines take turns, what one has found in the list and loaded of it is still so when
it stores (`Fresh`), so the list is never torn. `MountsAgree` (`MountsMatch`) follows from `Fresh` and `MInv`, for goroutines that take turns and do not fail. What a goroutine has to do
names mountpoints it found earlier, which must not be the ones of an earlier mount: each is listed if its medium is
mounted (`Current`), in the slice of `unmountAll` too (`ViewOK`). A file comes to the drive of its medium only while that is mounted (`Sound`). The
poll of the block devices is different: it mounts before it lists and empties the drive before it unmounts, so its
courses are spelled out (`Attaching`, `Mounting`, `Clearing`, `Unlisting`), and it has told of all media that are mounted
(`PollMay`), as a medium it meets while mounted would be unmounted and stay listed. This is also why nothing
may fail: an unmount that fails when a medium leaves makes just that happen when the medium is back.
`UnmountsAllMounted` (`UnmountAllUnmounts`) is about any overlaps and failures, until the list is torn. The loop of `unmountAll` goes by index through a slice
that shares its array with the list, so whoever takes an element out of the list moves the others under the loop. `RInv` says: as long
as nothing has left the list since the round began, nothing the loop has passed is mounted (`Progress`), but for the one in hand; and
when round r begins the list is shorter by at least r - 1 than there are media, or nothing in it is mounted (`InRounds`). So a round that leaves something mounted has shortened the list. The theorem
assumes finitely many media and no more than `Rounds`, of which the code has 8; nothing in the code bounds the media. Some such
bound is needed: with `Rounds = 1` TLC finds a medium that is left mounted. This one may not be tight: in the instance of `slots_races`, with
three media, TLC finds two rounds enough.

The constants' assumptions the proofs use are finite sets of drives, kinds with their number of
drives, names of different things that differ (`None`, `Nothing`, goroutines and keyboards), and a clock that can advance.

Only model-checked: all liveness, which the prover does not do. Every invariant and action property of the
passing runs is a theorem.

## Plan
1. An abstract specification of a drive (empty or with a file of a medium that is there) that
   `Slots` implements when goroutines take turns.
2. A device disk swapped while writes are due: `AddFileSystem` composed with `AsyncFileOps`.

## Not modelled
* Monitor control, drive discovery, most utilities, the reading of the main configuration: each runs a command or reads a
  file once. `utils` is modelled only where a driver's result depends on it.
* The mute timer: the same countdown as the LEDs'.
* Keys within a sequence, shift and combinations; the commands for zoom, sound and reset, which
  travel through `Amiberry` like any other.
* The force-insert keys of `amiga_disk_devices`, its motor and LED handling.
* `WIFIControl.Stop` and the connection made at the start; offsets and sizes of accesses to media.
