-------------------------------- MODULE Slots --------------------------------
(***************************************************************************)
(* The drive slots and the mountpoints of amipi400 (amipi400.go and        *)
(* mountpoint_list.go).  Four kinds of goroutines work on them without a   *)
(* lock: the poll of the block devices mounts media and attaches their     *)
(* default files, the discovery attaches the files amiga_disk_devices      *)
(* shows, every keyboard executes commands, and a signal unmounts all.     *)
(*                                                                         *)
(* todo[t] is what goroutine t still has to do, step by step.  A step that *)
(* finds its condition failed goes on with its orelse.  The slot is looked *)
(* at and changed in separate steps, and so are mount and list.            *)
(*                                                                         *)
(* A medium stands for its device pathname, its label and the directory it *)
(* is mounted at.  A mountpoint is a medium and the number of the mount:   *)
(* the pointer in the list.                                                *)
(***************************************************************************)
EXTENDS Naturals, Sequences, SequencesExt

CONSTANTS
    NumDrives,              (* per kind: MAX_ADFS, MAX_HDFS and MAX_CDS      *)
    Media, Home,            (* block devices with a label; its drive         *)
    Files, Default,         (* files on a medium; what its config asks for   *)
    Dirs,                   (* media attached as a directory (AP4_DHn)       *)
    Devices, DeviceDrive,   (* files of amiga_disk_devices and their drives  *)
    Keyboards,
    None, Missing,          (* no file; a default file that is not there     *)
    Rounds,                 (* tries of unmountAll                           *)
    ClearsTail,             (* slices.Delete: from Go 1.22 it does           *)
    MaxPlugs, MaxCommands, MaxFailures, MaxCopies, MaxOverlaps  (* bounds    *)

Kinds == {"DF", "HD", "CD"}

(* The drives are numbered kind by kind.                                   *)
First(k) == CASE k = "DF" -> 0
              [] k = "HD" -> NumDrives["DF"]
              [] k = "CD" -> NumDrives["DF"] + NumDrives["HD"]
AllDrives   == First("CD") + NumDrives["CD"]
Drives      == 0..AllDrives - 1
DriveSeq    == [i \in 1..AllDrives |-> i - 1]
DrivesOf(k) == [i \in 1..NumDrives[k] |-> First(k) + i - 1]
Kind == [d \in Drives |-> IF d < First("HD") THEN "DF" ELSE IF d < First("CD") THEN "HD" ELSE "CD"]

FilesOf(m) == ToSet(Files[m]) \union (Dirs \intersect {m})
Images == UNION {FilesOf(m) : m \in Media}

ASSUME ConstantsAssumption ==
    /\ NumDrives \in [Kinds -> Nat] /\ Rounds \in Nat \ {0} /\ ClearsTail \in BOOLEAN
    /\ Home \in [Media -> Drives]
    /\ Dirs \subseteq {m \in Media : Kind[Home[m]] = "HD" /\ Files[m] = <<>>}
    /\ \A m \in Media : /\ Files[m] \in Seq(ToSet(Files[m]))
                         /\ Default[m] \in ToSet(Files[m]) \union {None, Missing}
    /\ DeviceDrive \in [Devices -> Drives]
    /\ \A m, n \in Media : m # n => FilesOf(m) \intersect FilesOf(n) = {}
    /\ Images \intersect Devices = {} /\ {None, Missing} \intersect (Images \union Devices) = {}
    /\ None \notin [medium : Media, n : Nat]
    /\ {"blockDevices", "discovery", "signal"} \intersect Keyboards = {}
    /\ {MaxPlugs, MaxCommands, MaxFailures, MaxCopies, MaxOverlaps} \subseteq Nat

Threads == {"blockDevices", "discovery", "signal"} \union Keyboards

VARIABLES
    slot,               (* adfs, hdfs and cds of the emulator                *)
    heap,               (* the arrays Mountpoints has had                    *)
    list,               (* Mountpoints: its array and how much of it is used *)
    ranged,             (* per goroutine: the slice unmountAll ranges over,  *)
    loaded,             (* and the one append or slices.Delete works on      *)
    mounted,            (* media whose file system is mounted                *)
    mounts,             (* number of the last mount                          *)
    blocks, oldBlocks,  (* the last two lists of lsblk                       *)
    currentFiles, oldFiles,     (* the last two lists of the discovery       *)
    rerunEmulator,
    todo, ended,        (* ended: the program is over                        *)
    plugged,            (* media and device files that are there             *)
    plugs, commands, failures, copies, overlaps     (* counters              *)

(* Observation only: media whose file system could not be unmounted after  *)
(* they turned out to have no files; goroutines whose unmountAll met a     *)
(* failure or a new mountpoint; whether the list was stored over a change  *)
(* that another goroutine had made since it was loaded.                    *)
VARIABLES leaked, disturbed, torn

listVars == <<heap, list, ranged, loaded>>
pollVars == <<blocks, oldBlocks, currentFiles, oldFiles>>
counters == <<plugged, plugs, commands, failures, copies, overlaps>>
ghosts   == <<leaked, disturbed, torn>>
vars == <<slot, listVars, mounted, mounts, pollVars, rerunEmulator, todo, ended, counters, ghosts>>

(* A slice: the first len elements of an array of the heap.                *)
Slices  == [at : Nat, len : Nat]
NoSlice == [at |-> 1, len |-> 0]

(* The array of the list, how much of it is used, and what a goroutine     *)
(* ranges over, at this moment.                                            *)
array   == heap[list.at]
size    == list.len
view(t) == SubSeq(heap[ranged[t].at], 1, ranged[t].len)

Init ==
    /\ slot = [d \in Drives |-> None]
    /\ heap = <<<<>>>> /\ list = NoSlice
    /\ ranged = [t \in Threads |-> NoSlice] /\ loaded = [t \in Threads |-> NoSlice]
    /\ mounted = {} /\ mounts = 0
    /\ blocks = {} /\ oldBlocks = {} /\ currentFiles = {} /\ oldFiles = {}
    /\ rerunEmulator = TRUE
    /\ todo = [t \in Threads |-> <<>>] /\ ended = FALSE
    /\ plugged = {}
    /\ plugs = 0 /\ commands = 0 /\ failures = 0 /\ copies = 0 /\ overlaps = 0
    /\ leaked = {} /\ disturbed = {} /\ torn = FALSE

-----------------------------------------------------------------------------
(* Steps.                                                                  *)

Detach(d, f, orelse)   == [do |-> "detach", d |-> d, f |-> f, orelse |-> orelse]
Clear(d)               == [do |-> "clear", d |-> d]
Attach(d, f, orelse)   == [do |-> "attach", d |-> d, f |-> f, orelse |-> orelse]
Fill(d, f)             == [do |-> "fill", d |-> d, f |-> f]
Mount(m)               == [do |-> "mount", m |-> m]
Add(mp)                == [do |-> "add", mp |-> mp]
Grow(mp)               == [do |-> "grow", mp |-> mp]
Unmount(mp, remove)    == [do |-> "unmount", mp |-> mp, remove |-> remove]
Unlist(mp)             == [do |-> "unlist", mp |-> mp]
Load(mp, i)            == [do |-> "load", mp |-> mp, i |-> i]
Delete(mp, i)          == [do |-> "delete", mp |-> mp, i |-> i]
DetachROM(d, mp)       == [do |-> "rom", d |-> d, mp |-> mp]
Free(f, k, orelse)     == [do |-> "free", f |-> f, k |-> k, orelse |-> orelse]
EjectIndex(d)          == [do |-> "eject", d |-> d]
InsertIndex(d, f)      == [do |-> "insert", d |-> d, f |-> f]
UnmountIndex(d)        == [do |-> "index", d |-> d]
CopySource(s, t, orelse)     == [do |-> "source", s |-> s, t |-> t, orelse |-> orelse]
CopyTarget(s, f, t, orelse)  == [do |-> "target", s |-> s, f |-> f, t |-> t, orelse |-> orelse]
CopyFile(s, f, t, g, orelse) == [do |-> "copy", s |-> s, f |-> f, t |-> t, g |-> g, orelse |-> orelse]
Round(r)               == [do |-> "round", r |-> r]
Each(i, r)             == [do |-> "each", i |-> i, r |-> r]
Report  == [do |-> "report"]
HDStart == [do |-> "hdStart"]
HDDone  == [do |-> "hdDone"]
Panic   == [do |-> "panic"]
Stop    == [do |-> "stop"]

(* onHDOperationStart and its deferred onHDOperationDone.                  *)
Before(k) == IF k = "HD" THEN <<HDStart>> ELSE <<>>
After(k)  == IF k = "HD" THEN <<HDDone>> ELSE <<>>

FirstDrive(k, f) == SelectInSeq(DriveSeq, LAMBDA d : Kind[d] = k /\ slot[d] = f) - 1
IsHeld(k, f)     == \E d \in Drives : Kind[d] = k /\ slot[d] = f
HasFile(f)  == f \in currentFiles

(* Where in the list a mountpoint is; 0: nowhere.                          *)
Mountpoints == SubSeq(array, 1, size)
FindMountpoint(mp) == SelectInSeq(Mountpoints, LAMBDA x : x = mp)
GetMountpointByIndex(d) == SelectInSeq(Mountpoints, LAMBDA x : Home[x.medium] = d)
GetMountpointByDevicePathname(m) == SelectInSeq(Mountpoints, LAMBDA x : x.medium = m)

-----------------------------------------------------------------------------
(* A goroutine starts on something.                                        *)

Busy == {t \in Threads : todo[t] # <<>>}

Begin(t, steps) ==
    /\ ~ended
    /\ todo[t] = <<>>
    /\ todo' = [todo EXCEPT ![t] = steps]
    /\ LET overlap == steps # <<>> /\ Busy # {}
       IN /\ overlap => overlaps < MaxOverlaps
          /\ overlaps' = IF overlap THEN overlaps + 1 ELSE overlaps

(* attach*MediumDiskImage up to setupAddMountpoint: the drive must be      *)
(* empty; a file system that is mounted already is unmounted.              *)
AttachMedium(m) ==
    IF slot[Home[m]] # None THEN <<>>
    ELSE (IF m \in mounted THEN <<Unmount([medium |-> m, n |-> 0], FALSE)>> ELSE <<>>)
         \o <<Mount(m)>>

(* Mutant: the drive is not emptied.                                       *)
DetachMediumKeepFile(m) ==
    LET i == GetMountpointByDevicePathname(m)
        k == Kind[Home[m]]
    IN IF i = 0 THEN <<>> ELSE Before(k) \o <<Unmount(array[i], TRUE)>> \o After(k)

(* detach*MediumDiskImage: whatever is in the drive of the medium goes.    *)
DetachMedium(m) ==
    LET i == GetMountpointByDevicePathname(m)
        d == Home[m]
        rest == <<Unmount(array[i], TRUE)>> \o After(Kind[d])
    IN IF i = 0 THEN <<>>
       ELSE Before(Kind[d])
            \o (IF slot[d] # None THEN <<Detach(d, slot[d], rest)>> ELSE <<>>)
            \o rest

(* BlockDevices: a detached callback for each medium of the last list that *)
(* is gone, then an attached callback for each new one, then lsblk again.  *)
BlockDevices ==
    LET gone == oldBlocks \ blocks
        new  == blocks \ oldBlocks
    IN /\ \/ \E m \in gone :
                /\ Begin("blockDevices", DetachMedium(m))
                /\ oldBlocks' = oldBlocks \ {m}
                /\ UNCHANGED blocks
          \/ \E m \in new :
                /\ gone = {}
                /\ Begin("blockDevices", AttachMedium(m))
                /\ oldBlocks' = oldBlocks \union {m}
                /\ UNCHANGED blocks
          \/ /\ gone = {} /\ new = {}
             /\ Begin("blockDevices", <<>>)
             /\ blocks' = plugged \intersect Media
             /\ UNCHANGED oldBlocks
       /\ UNCHANGED <<slot, listVars, mounted, mounts, currentFiles, oldFiles, rerunEmulator,
                      ended, plugged, plugs, commands, failures, copies, ghosts>>

(* attachAmigaDiskDevice*: an HDF goes to the first free drive.            *)
AttachDevice(f) ==
    LET k == Kind[DeviceDrive[f]]
        d == IF k = "HD" THEN FirstDrive(k, None) ELSE DeviceDrive[f]
    IN IF k = "HD" /\ ~IsHeld(k, None) THEN <<>>
       ELSE Before(k) \o <<Attach(d, f, After(k))>> \o After(k)

(* Mutant: the first free drive is looked for instead of the file's.       *)
DetachDeviceFree(f) ==
    LET k == Kind[DeviceDrive[f]]
        d == IF k = "HD" THEN FirstDrive(k, None) ELSE DeviceDrive[f]
    IN IF k = "HD" /\ ~IsHeld(k, None) THEN <<>>
       ELSE Before(k) \o <<Detach(d, f, After(k))>> \o After(k)

(* detachAmigaDiskDevice*                                                  *)
DetachDevice(f) ==
    LET k == Kind[DeviceDrive[f]]
        d == IF k = "HD" THEN FirstDrive(k, f) ELSE DeviceDrive[f]
    IN IF k = "HD" /\ ~IsHeld(k, f) THEN <<>>
       ELSE Before(k) \o <<Detach(d, f, After(k))>> \o After(k)

(* AmigaDiskDevicesDiscovery, likewise.                                    *)
Discovery ==
    LET gone == oldFiles \ currentFiles
        new  == currentFiles \ oldFiles
    IN /\ \/ \E f \in gone :
                /\ Begin("discovery", DetachDevice(f))
                /\ oldFiles' = oldFiles \ {f}
                /\ UNCHANGED currentFiles
          \/ \E f \in new :
                /\ gone = {}
                /\ Begin("discovery", AttachDevice(f))
                /\ oldFiles' = oldFiles \union {f}
                /\ UNCHANGED currentFiles
          \/ /\ gone = {} /\ new = {}
             /\ Begin("discovery", <<>>)
             /\ currentFiles' = plugged \intersect Devices
             /\ UNCHANGED oldFiles
       /\ UNCHANGED <<slot, listVars, mounted, mounts, blocks, oldBlocks, rerunEmulator,
                      ended, plugged, plugs, commands, failures, copies, ghosts>>

-----------------------------------------------------------------------------
(* The commands of a keyboard.  What does nothing but blink is left out.   *)

Command(t, steps) ==
    /\ steps # <<>>
    /\ commands < MaxCommands
    /\ commands' = commands + 1
    /\ Begin(t, steps)
    /\ UNCHANGED <<slot, listVars, mounted, mounts, pollVars, rerunEmulator, ended, plugged,
                   plugs, failures, ghosts>>

(* The file in the target drive goes first, unless it is a device's.       *)
MakeRoom(d, after) == IF slot[d] = None THEN <<>> ELSE <<Detach(d, slot[d], after)>>

(* ??InsertFromSourceIndexToTargetIndex: f is what the name finds among    *)
(* the files of the medium, None if nothing.  Only floppies have commands  *)
(* with a target of its own.  Without a medium, the CD command goes on to  *)
(* look into the missing mountpoint.                                       *)
InsertFromSourceIndexToTargetIndex(t, s, d) ==
    LET i == GetMountpointByIndex(s)
        k == Kind[s]
        m == array[i].medium
        known == i # 0 /\ m \notin Dirs
    IN /\ d = s \/ (k = "DF" /\ Kind[d] = k)
       /\ known \/ (k = "CD" /\ i = 0)
       /\ \E f \in IF known THEN ToSet(Files[m]) \union {None} ELSE {None} :
             Command(t, Before(k)
                \o (IF HasFile(slot[d]) THEN <<>>
                    ELSE MakeRoom(d, After(k))
                         \o (IF ~known THEN <<Panic>>
                             ELSE IF f = None THEN <<>>
                             ELSE <<Free(f, k, After(k)), Attach(d, f, After(k))>>))
                \o After(k))
       /\ UNCHANGED copies

(* dfInsertFromSourceIndexToTargetIndexByDiskNo: the target is emptied     *)
(* even if the source, of which another disk is wanted, turns out empty.   *)
InsertByDiskNo(t, s, d) ==
    LET i == GetMountpointByIndex(s)
    IN /\ Kind[s] = "DF" /\ Kind[d] = "DF"
       /\ i # 0
       /\ ~HasFile(slot[d])
       /\ \E f \in IF slot[s] = None THEN {None} ELSE ToSet(Files[array[i].medium]) \union {None} :
             Command(t, MakeRoom(d, <<>>)
                \o (IF f = None THEN <<>> ELSE <<Free(f, "DF", <<>>), Attach(d, f, <<>>)>>))
       /\ UNCHANGED copies

(* dfInsertFromSourceIndexToManyIndex: the disks of a title, from drive 0. *)
InsertToManyIndex(t, s) ==
    LET i == GetMountpointByIndex(s)
        fs == Files[array[i].medium]
        n == Len(DrivesOf("DF"))
    IN /\ Kind[s] = "DF"
       /\ i # 0
       /\ Command(t, [j \in 1..(IF Len(fs) < n THEN Len(fs) ELSE n) |->
                        InsertIndex(DrivesOf("DF")[j], fs[j])])
       /\ UNCHANGED copies

(* Mutant: an early return leaves the emulator stopped.                    *)
EjectFromSourceIndexNoDefer(t, d) ==
    LET k == Kind[d]
    IN /\ slot[d] # None
       /\ ~HasFile(slot[d])
       /\ Command(t, Before(k) \o <<Detach(d, slot[d], <<>>)>> \o After(k))
       /\ UNCHANGED copies

(* ??EjectFromSourceIndex: not for a device's file.  The test for a        *)
(* directory looks for a slash at the end, which no slot's path has.       *)
EjectFromSourceIndex(t, d) ==
    LET k == Kind[d]
    IN /\ slot[d] # None
       /\ ~HasFile(slot[d])
       /\ Command(t, Before(k) \o <<Detach(d, slot[d], After(k))>> \o After(k))
       /\ UNCHANGED copies

EjectFromSourceIndexAll(t) ==
    /\ Command(t, [i \in 1..Len(DrivesOf("DF")) |-> EjectIndex(DrivesOf("DF")[i])])
    /\ UNCHANGED copies

(* One drive; MAX_ADFS is the limit for every kind.                        *)
fillIndexes(d) == IF d - First(Kind[d]) < NumDrives["DF"] THEN <<d>> ELSE <<>>

(* ??UnmountFromSourceIndex, for one drive or for all of a kind.           *)
UnmountFromSourceIndex(t, k, ds) ==
    /\ Command(t, Before(k) \o [i \in 1..Len(ds) |-> UnmountIndex(ds[i])] \o After(k))
    /\ UNCHANGED copies

UnmountAll(t) ==
    /\ Command(t, <<HDStart, Round(1), Report, HDDone>>)
    /\ UNCHANGED copies

(* The target of a copy from a floppy may be a hard disk beyond the last.  *)
Beyond == AllDrives

LowLevelCopy(t, s, d) ==
    LET kinds == {Kind[s], IF d = Beyond THEN "HD" ELSE Kind[d]}
        after == IF "HD" \in kinds THEN <<HDDone>> ELSE <<>>
    IN /\ s # d /\ (d = Beyond => Kind[s] = "DF")
       /\ "CD" \notin kinds
       /\ copies < MaxCopies
       /\ copies' = copies + 1
       /\ Command(t, (IF after # <<>> THEN <<HDStart>> ELSE <<>>)
                      \o <<CopySource(s, d, after)>> \o after)

Keyboard(t) ==
    \/ \E s, d \in Drives : InsertFromSourceIndexToTargetIndex(t, s, d)
    \/ \E s, d \in Drives : InsertByDiskNo(t, s, d)
    \/ \E s \in Drives : InsertToManyIndex(t, s)
    \/ \E d \in Drives : EjectFromSourceIndex(t, d)
    \/ EjectFromSourceIndexAll(t)
    \/ \E d \in Drives : UnmountFromSourceIndex(t, Kind[d], fillIndexes(d))
    \/ \E k \in Kinds : UnmountFromSourceIndex(t, k, DrivesOf(k))
    \/ UnmountAll(t)
    \/ \E s \in Drives, d \in Drives \union {Beyond} : LowLevelCopy(t, s, d)

(* gracefulShutdown.                                                       *)
Signal ==
    /\ Begin("signal", <<Round(1), Report, Stop>>)
    /\ commands < MaxCommands
    /\ commands' = commands + 1
    /\ UNCHANGED <<slot, listVars, mounted, mounts, pollVars, rerunEmulator, ended, plugged,
                   plugs, failures, copies, ghosts>>

-----------------------------------------------------------------------------
(* What a goroutine does next.                                             *)

Doing(t, step) == ~ended /\ todo[t] # <<>> /\ Head(todo[t]).do = step
Now(t)   == Head(todo[t])
Later(t) == Tail(todo[t])
Then(t, steps) == todo' = [todo EXCEPT ![t] = steps]

listAndPolls == <<listVars, mounted, mounts, pollVars>>

(* Nothing but todo changes.                                               *)
Goes(t, steps) ==
    /\ Then(t, steps)
    /\ UNCHANGED <<slot, listAndPolls, rerunEmulator, ended, counters, ghosts>>

MayFail == failures < MaxFailures
Fails   == failures' = failures + 1

(* detachAdf, detachHd, detachIso: is it this file that is in the drive?   *)
LookForDetach(t) ==
    /\ Doing(t, "detach")
    /\ LET s == Now(t)
       IN Goes(t, IF slot[s.d] = s.f THEN <<Clear(s.d)>> \o Later(t) ELSE s.orelse)

DetachSlot(t) ==
    /\ Doing(t, "clear")
    /\ slot' = [slot EXCEPT ![Now(t).d] = None]
    /\ Then(t, Later(t))
    /\ UNCHANGED <<listAndPolls, rerunEmulator, ended, counters, ghosts>>

(* attachAdf, attachHdf, attachHdDir, attachIso: is the drive empty?       *)
LookForAttach(t) ==
    /\ Doing(t, "attach")
    /\ LET s == Now(t)
       IN Goes(t, IF slot[s.d] = None THEN <<Fill(s.d, s.f)>> \o Later(t) ELSE s.orelse)

(* A file that can be opened.                                              *)
Readable(f) ==
    \/ f \in Devices /\ f \in plugged
    \/ \E m \in mounted \intersect plugged : f \in FilesOf(m)

(* The emulator takes any name for a floppy or a CD.  An HDF must be       *)
(* readable and have a header it knows; attachHdf ignores the error.       *)
AttachSlot(t) ==
    /\ Doing(t, "fill")
    /\ LET s == Now(t)
           hdf == Kind[s.d] = "HD" /\ s.f \notin Dirs
       IN \/ /\ hdf => Readable(s.f)
             /\ slot' = [slot EXCEPT ![s.d] = s.f]
             /\ UNCHANGED failures
          \/ /\ hdf /\ ~Readable(s.f)
             /\ UNCHANGED <<slot, failures>>
          \/ /\ hdf /\ Readable(s.f)
             /\ MayFail /\ Fails
             /\ UNCHANGED slot
    /\ Then(t, Later(t))
    /\ UNCHANGED <<listAndPolls, rerunEmulator, ended, plugged, plugs, commands, copies, overlaps,
                   ghosts>>

(* Mutant: the list is not asked for the label.                            *)
MountMountpointAgain(t) ==
    /\ Doing(t, "mount")
    /\ LET m == Now(t).m
           mp == [medium |-> m, n |-> mounts + 1]
       IN IF m \notin plugged \/ m \in mounted THEN Goes(t, Later(t))
          ELSE /\ mounted' = mounted \union {m}
               /\ mounts' = mounts + 1
               /\ Then(t, <<Add(mp)>>)
               /\ UNCHANGED <<slot, listVars, pollVars, rerunEmulator, ended, counters, ghosts>>

(* setupAddMountpoint up to the files of the medium: one with the label    *)
(* must not be listed.  A medium without files is unmounted again, unless  *)
(* its config wants no file.                                               *)
MountMountpoint(t) ==
    /\ Doing(t, "mount")
    /\ LET m == Now(t).m
           mp == [medium |-> m, n |-> mounts + 1]
           listed == GetMountpointByDevicePathname(m) # 0
           empty == Files[m] = <<>> /\ m \notin Dirs /\ Default[m] # None
       IN \/ /\ listed \/ m \notin plugged \/ m \in mounted
             /\ Goes(t, Later(t))
          \/ /\ ~listed
             /\ MayFail /\ Fails
             /\ Then(t, Later(t))
             /\ UNCHANGED <<slot, listAndPolls, rerunEmulator, ended, plugged, plugs, commands,
                            copies, overlaps, ghosts>>
          \/ /\ ~listed /\ m \in plugged /\ m \notin mounted
             /\ mounted' = mounted \union {m}
             /\ mounts' = mounts + 1
             /\ Then(t, <<IF empty THEN Unmount(mp, FALSE) ELSE Add(mp)>>)
             /\ UNCHANGED <<slot, listVars, pollVars, rerunEmulator, ended, counters, ghosts>>

(* AddMountpoint loads the slice it appends to.                            *)
LoadToAdd(t) ==
    /\ Doing(t, "add")
    /\ loaded' = [loaded EXCEPT ![t] = list]
    /\ Then(t, <<Grow(Now(t).mp)>>)
    /\ UNCHANGED <<slot, heap, list, ranged, mounted, mounts, pollVars, rerunEmulator, ended,
                   counters, ghosts>>

(* The list is stored.  A nil in it ends the program when it is next       *)
(* searched, which is taken to be at once.                                 *)
Stores(t, slice, tears) ==
    /\ list' = slice
    /\ loaded' = [loaded EXCEPT ![t] = NoSlice]
    /\ torn' = (torn \/ tears)
    /\ ended' = \E i \in 1..slice.len : heap'[slice.at][i] = None
    /\ UNCHANGED <<slot, ranged, mounted, mounts, pollVars, rerunEmulator, counters, leaked>>

(* What is done once a medium is listed: the default file; without the     *)
(* drive there is no mountpoint either.                                    *)
AttachDefault(mp) ==
    LET m == mp.medium
        k == Kind[Home[m]]
        f == IF m \in Dirs THEN m ELSE Default[m]
    IN IF f = None THEN <<>>
       ELSE Before(k) \o <<Attach(Home[m], f, <<Unmount(mp, TRUE)>> \o After(k))>> \o After(k)

(* Mutant: the array does not grow.                                        *)
AddMountpointNoGrow(t) ==
    /\ Doing(t, "grow")
    /\ list' = [loaded[t] EXCEPT !.len = @ + 1]
    /\ loaded' = [loaded EXCEPT ![t] = NoSlice]
    /\ disturbed' = Threads
    /\ Then(t, AttachDefault(Now(t).mp))
    /\ UNCHANGED <<slot, heap, ranged, mounted, mounts, pollVars, rerunEmulator, ended, counters,
                   leaked, torn>>

(* AddMountpoint appends and stores the slice: in place if there is room.  *)
AddMountpoint(t) ==
    /\ Doing(t, "grow")
    /\ LET h  == loaded[t]
           mp == Now(t).mp
           a  == heap[h.at]
       IN \/ /\ h.len < Len(a)
             /\ heap' = [heap EXCEPT ![h.at] = [a EXCEPT ![h.len + 1] = mp]]
             /\ Stores(t, [h EXCEPT !.len = @ + 1], h # list)
          \/ /\ h.len = Len(a)
             /\ heap' = Append(heap, a \o [i \in 1..(IF h.len = 0 THEN 1 ELSE h.len) |-> mp])
             /\ Stores(t, [at |-> Len(heap) + 1, len |-> h.len + 1], h # list)
    /\ disturbed' = Threads
    /\ Then(t, AttachDefault(Now(t).mp))

(* Mutant: what could not be unmounted is removed from the list too.       *)
UnmountAnyway(t) ==
    /\ Doing(t, "unmount")
    /\ LET s == Now(t)
           m == s.mp.medium
           rest == (IF s.remove THEN <<Unlist(s.mp)>> ELSE <<>>) \o Later(t)
       IN \/ /\ m \in mounted
             /\ mounted' = mounted \ {m}
             /\ leaked' = leaked \ {m}
             /\ Then(t, rest)
             /\ UNCHANGED <<slot, listVars, mounts, pollVars, rerunEmulator, ended, counters,
                            disturbed, torn>>
          \/ /\ m \notin mounted
             /\ Goes(t, Later(t))
          \/ /\ m \in mounted
             /\ MayFail /\ Fails
             /\ leaked' = IF s.remove THEN leaked ELSE leaked \union {m}
             /\ disturbed' = Threads
             /\ Then(t, rest)
             /\ UNCHANGED <<slot, listAndPolls, rerunEmulator, ended, plugged, plugs, commands,
                            copies, overlaps, torn>>

(* unmountMountpoint, all its tries in one.                                *)
UnmountMountpoint(t) ==
    /\ Doing(t, "unmount")
    /\ LET s == Now(t)
           m == s.mp.medium
       IN \/ /\ m \in mounted
             /\ mounted' = mounted \ {m}
             /\ leaked' = leaked \ {m}
             /\ Then(t, (IF s.remove THEN <<Unlist(s.mp)>> ELSE <<>>) \o Later(t))
             /\ UNCHANGED <<slot, listVars, mounts, pollVars, rerunEmulator, ended, counters,
                            disturbed, torn>>
          \/ /\ m \notin mounted
             /\ Goes(t, Later(t))
          \/ /\ m \in mounted
             /\ MayFail /\ Fails
             /\ leaked' = IF s.remove THEN leaked ELSE leaked \union {m}
             /\ disturbed' = Threads
             /\ Then(t, Later(t))
             /\ UNCHANGED <<slot, listAndPolls, rerunEmulator, ended, plugged, plugs, commands,
                            copies, overlaps, torn>>

(* RemoveMountpoint looks for the mountpoint.                              *)
FindToRemove(t) ==
    /\ Doing(t, "unlist")
    /\ LET mp == Now(t).mp
           i  == FindMountpoint(mp)
       IN Goes(t, IF i = 0 THEN Later(t) ELSE <<Load(mp, i)>> \o Later(t))

(* It loads the slice, which may be shorter than what it searched.         *)
LoadToRemove(t) ==
    /\ Doing(t, "load")
    /\ LET s == Now(t)
       IN \/ /\ s.i <= size
             /\ loaded' = [loaded EXCEPT ![t] = list]
             /\ Then(t, <<Delete(s.mp, s.i)>> \o Later(t))
             /\ UNCHANGED <<slot, heap, list, ranged, mounted, mounts, pollVars, rerunEmulator,
                            ended, counters, ghosts>>
          \/ /\ s.i > size
             /\ Goes(t, <<Panic>> \o Later(t))

(* What slices.Delete makes of an array of which n are used: what follows  *)
(* element i moves down; the last one stays or gives way to nil.           *)
Deleted(a, n, i) ==
    [j \in 1..Len(a) |->
        IF j \in i..n - 1 THEN a[j + 1]
        ELSE IF j = n /\ ClearsTail THEN None ELSE a[j]]

(* RemoveMountpoint deletes in place and stores the slice.                 *)
RemoveMountpoint(t) ==
    /\ Doing(t, "delete")
    /\ LET h == loaded[t]
           s == Now(t)
           tears == h # list \/ heap[h.at][s.i] # s.mp
       IN /\ heap' = [heap EXCEPT ![h.at] = Deleted(@, h.len, s.i)]
          /\ Stores(t, [h EXCEPT !.len = @ - 1], tears)
    /\ Then(t, Later(t))
    /\ UNCHANGED disturbed

(* detach??MountpointROMs, at one drive; a medium's directory counts too.  *)
DetachMountpointROM(t) ==
    /\ Doing(t, "rom")
    /\ LET s == Now(t)
       IN Goes(t, IF slot[s.d] \in FilesOf(s.mp.medium)
                  THEN <<Detach(s.d, slot[s.d], Later(t))>> \o Later(t)
                  ELSE Later(t))

(* is???Attached: the file leaves the drive it is in.  isHdfAttached looks *)
(* no further than MAX_CDS, the first drive.                               *)
FreeFile(t) ==
    /\ Doing(t, "free")
    /\ LET s == Now(t)
           ds == IF s.k = "HD" THEN {DrivesOf("HD")[1]} ELSE ToSet(DrivesOf(s.k))
           holding == {d \in ds : slot[d] = s.f}
           first == CHOOSE d \in holding : \A e \in holding : d <= e
       IN Goes(t, IF holding = {} THEN Later(t)
                  ELSE <<Detach(first, s.f, s.orelse)>> \o Later(t))

(* Mutant: a device's file is ejected too.                                 *)
EjectNextAny(t) ==
    /\ Doing(t, "eject")
    /\ LET d == Now(t).d
       IN Goes(t, (IF slot[d] = None THEN <<>> ELSE <<Detach(d, slot[d], <<>>)>>) \o Later(t))

(* One turn of the loops of dfEjectFromSourceIndexAll,                     *)
(* dfInsertFromSourceIndexToManyIndex and ??UnmountFromSourceIndex.        *)
EjectNext(t) ==
    /\ Doing(t, "eject")
    /\ LET d == Now(t).d
       IN Goes(t, (IF slot[d] = None \/ HasFile(slot[d]) THEN <<>>
                   ELSE <<Detach(d, slot[d], <<>>)>>) \o Later(t))

(* Mutant: only the drive itself is emptied.                               *)
UnmountNextHome(t) ==
    /\ Doing(t, "index")
    /\ LET d == Now(t).d
           i == GetMountpointByIndex(d)
       IN Goes(t, (IF i = 0 THEN <<>>
                   ELSE <<DetachROM(d, array[i]), Unmount(array[i], TRUE)>>) \o Later(t))

InsertNext(t) ==
    /\ Doing(t, "insert")
    /\ LET d == Now(t).d
       IN Goes(t, (IF HasFile(slot[d]) THEN <<>>
                   ELSE MakeRoom(d, <<>>) \o <<Attach(d, Now(t).f, <<>>)>>) \o Later(t))

UnmountNext(t) ==
    /\ Doing(t, "index")
    /\ LET d == Now(t).d
           i == GetMountpointByIndex(d)
           ds == DrivesOf(Kind[d])
       IN Goes(t, (IF i = 0 THEN <<>>
                   ELSE [j \in 1..Len(ds) |-> DetachROM(ds[j], array[i])]
                        \o <<Unmount(array[i], TRUE)>>) \o Later(t))

-----------------------------------------------------------------------------
(* lowLevelCopy: it takes the file out of the source, then out of the      *)
(* target; each drive must belong to a mountpoint, which it looks at when  *)
(* the file is out; it copies and attaches both.                           *)

IsImage(d) == slot[d] # None /\ slot[d] \notin Dirs

TakeSource(t) ==
    /\ Doing(t, "source")
    /\ LET s == Now(t)
       IN IF ~IsImage(s.s) THEN Goes(t, s.orelse)
          ELSE Goes(t, <<Detach(s.s, slot[s.s], s.orelse),
                         CopyTarget(s.s, slot[s.s], s.t, s.orelse)>> \o Later(t))

TakeTarget(t) ==
    /\ Doing(t, "target")
    /\ LET s == Now(t)
       IN IF GetMountpointByIndex(s.s) = 0 THEN Goes(t, s.orelse)
          ELSE IF s.t = Beyond THEN Goes(t, <<Panic>> \o Later(t))
          ELSE IF ~IsImage(s.t) THEN Goes(t, s.orelse)
          ELSE Goes(t, <<Detach(s.t, slot[s.t], s.orelse),
                         CopyFile(s.s, s.f, s.t, slot[s.t], s.orelse)>> \o Later(t))

(* copyFile                                                                *)
Copy(t) ==
    /\ Doing(t, "copy")
    /\ LET s == Now(t)
           fit == Readable(s.f) /\ Readable(s.g)
       IN IF GetMountpointByIndex(s.t) = 0 \/ ~fit THEN Goes(t, s.orelse)
          ELSE \/ Goes(t, <<Attach(s.s, s.f, s.orelse), Attach(s.t, s.g, s.orelse)>> \o Later(t))
               \/ /\ MayFail /\ Fails
                  /\ Then(t, s.orelse)
                  /\ UNCHANGED <<slot, listAndPolls, rerunEmulator, ended, plugged, plugs,
                                 commands, copies, overlaps, ghosts>>

-----------------------------------------------------------------------------
(* unmountAll.  range takes the slice once and reads each element when its *)
(* turn comes, while RemoveMountpoint moves the elements of the array.  A  *)
(* nil mountpoint is looked into at once.                                  *)

BeginRound(t) ==
    /\ Doing(t, "round")
    /\ LET r == Now(t).r
       IN /\ ranged' = [ranged EXCEPT ![t] = list]
          /\ disturbed' = IF r = 1 THEN disturbed \ {t} ELSE disturbed
          /\ Then(t, <<Each(1, r)>> \o Later(t))
    /\ UNCHANGED <<slot, heap, list, loaded, mounted, mounts, pollVars, rerunEmulator, ended,
                   counters, leaked, torn>>

(* Mutant: a single try.                                                   *)
UnmountEachOnce(t) ==
    /\ Doing(t, "each")
    /\ LET i == Now(t).i
           mp == heap[ranged[t].at][i]
       IN Goes(t, IF i <= ranged[t].len
                  THEN [j \in 1..AllDrives |-> DetachROM(DriveSeq[j], mp)]
                       \o <<Unmount(mp, TRUE), Each(i + 1, 1)>> \o Later(t)
                  ELSE Later(t))

UnmountEach(t) ==
    /\ Doing(t, "each")
    /\ LET i == Now(t).i
           r == Now(t).r
           mp == heap[ranged[t].at][i]
       IN IF i <= ranged[t].len
          THEN Goes(t, (IF mp = None THEN <<Panic>>
                        ELSE [j \in 1..AllDrives |-> DetachROM(DriveSeq[j], mp)]
                             \o <<Unmount(mp, TRUE), Each(i + 1, r)>>) \o Later(t))
          ELSE /\ Then(t, (IF size = 0 \/ r = Rounds THEN <<>> ELSE <<Round(r + 1)>>) \o Later(t))
               /\ ranged' = [ranged EXCEPT ![t] = NoSlice]
               /\ UNCHANGED <<slot, heap, list, loaded, mounted, mounts, pollVars, rerunEmulator,
                              ended, counters, ghosts>>

(* The last look at the list only chooses the blink.                       *)
ReportUnmounted(t) ==
    /\ Doing(t, "report")
    /\ Goes(t, Later(t))

-----------------------------------------------------------------------------
(* onHDOperationStart and onHDOperationDone.                               *)
SetRerunEmulator(t) ==
    /\ Doing(t, "hdStart") \/ Doing(t, "hdDone")
    /\ rerunEmulator' = (Now(t).do = "hdDone")
    /\ Then(t, Later(t))
    /\ UNCHANGED <<slot, listAndPolls, ended, counters, ghosts>>

(* A missing mountpoint is looked into, or main returns: all is over.      *)
End(t) ==
    /\ Doing(t, "panic") \/ Doing(t, "stop")
    /\ ended' = TRUE
    /\ Then(t, Later(t))
    /\ UNCHANGED <<slot, listAndPolls, rerunEmulator, counters, ghosts>>

(* A medium or a device file comes or goes.                                *)
Plug ==
    /\ ~ended
    /\ plugs < MaxPlugs
    /\ plugs' = plugs + 1
    /\ \E x \in Media \union Devices :
          plugged' = IF x \in plugged THEN plugged \ {x} ELSE plugged \union {x}
    /\ UNCHANGED <<slot, listAndPolls, rerunEmulator, todo, ended, commands, failures, copies,
                   overlaps, ghosts>>

Work(t) ==
    \/ LookForDetach(t) \/ DetachSlot(t) \/ LookForAttach(t) \/ AttachSlot(t)
    \/ MountMountpoint(t) \/ LoadToAdd(t) \/ AddMountpoint(t)
    \/ UnmountMountpoint(t) \/ FindToRemove(t) \/ LoadToRemove(t) \/ RemoveMountpoint(t)
    \/ DetachMountpointROM(t) \/ FreeFile(t) \/ EjectNext(t) \/ InsertNext(t) \/ UnmountNext(t)
    \/ TakeSource(t) \/ TakeTarget(t) \/ Copy(t)
    \/ BeginRound(t) \/ UnmountEach(t) \/ ReportUnmounted(t)
    \/ SetRerunEmulator(t) \/ End(t)

Next ==
    \/ Plug \/ BlockDevices \/ Discovery \/ Signal
    \/ \E t \in Keyboards : Keyboard(t)
    \/ \E t \in Threads : Work(t)

Spec == Init /\ [][Next]_vars

-----------------------------------------------------------------------------
(* Properties.                                                             *)

Slottable == Images \union Devices \union {None, Missing}
MountpointsOf == [medium : Media, n : Nat]
Steps == {"detach", "clear", "attach", "fill", "mount", "add", "grow", "unmount", "unlist", "load",
          "delete", "rom", "free", "eject", "insert", "index", "source", "target", "copy", "round", "each", "report", "hdStart",
          "hdDone", "panic", "stop"}

(* The variables have their types: a slot holds a file that exists, and    *)
(* the used part of the list is within its array.                          *)
TypeOK ==
    /\ slot \in [Drives -> Slottable]
    /\ heap \in Seq(Seq(MountpointsOf \union {None}))
    /\ \A s \in {list} \union {ranged[t] : t \in Threads} \union {loaded[t] : t \in Threads} :
          s.at \in 1..Len(heap) /\ s.len \in 0..Len(heap[s.at])
    /\ ended \/ \A i \in 1..size : array[i] # None
    /\ \A t \in Threads : \A i \in DOMAIN todo[t] : todo[t][i].do \in Steps
    /\ mounted \subseteq Media /\ leaked \subseteq Media /\ plugged \subseteq Media \union Devices
    /\ blocks \subseteq Media /\ oldBlocks \subseteq Media
    /\ currentFiles \subseteq Devices /\ oldFiles \subseteq Devices
    /\ disturbed \subseteq Threads
    /\ {rerunEmulator, ended, torn} \subseteq BOOLEAN
    /\ {mounts, plugs, commands, failures, copies, overlaps} \subseteq Nat

Listed == {array[i].medium : i \in 1..size}
AtRest == Busy = {} /\ ~ended

(* The poll of the block devices is between mounting m and listing it.     *)
InHand(m) ==
    /\ todo["blockDevices"] # <<>>
    /\ LET s == Now("blockDevices")
       IN s.do \in {"add", "grow", "unmount"} /\ s.mp.medium = m

(* Whatever the goroutines do to each other between two accesses to the    *)
(* list, a mounted medium can be found in it, so that a command or a       *)
(* signal can still unmount it.  The exceptions are a medium without files *)
(* that could not be unmounted again, and a list that was torn: an append  *)
(* and a slices.Delete, or two of these, ran inside one another, which the *)
(* code does nothing against, and what one stored is lost.                 *)
MountedKnown == torn \/ \A m \in mounted : m \in Listed \/ m \in leaked \/ InHand(m)

(* The list has no medium and no mountpoint twice: it is found by label    *)
(* and by drive, and only the first would ever be unmounted.  Once it was  *)
(* torn it may have.                                                       *)
ListedOnce == torn \/ \A i, j \in 1..size : array[i].medium = array[j].medium => i = j

(* When the discovery has told of every file that left, no drive holds a   *)
(* device's file that is not there, whatever the keyboards did meanwhile;  *)
(* until a disk is copied, which puts a file back, there or not.           *)
DeviceNotDangling ==
    copies = 0 /\ todo["discovery"] = <<>> /\ oldFiles \subseteq currentFiles =>
        \A d \in Drives : slot[d] \in Devices => slot[d] \in currentFiles

(* When unmountAll gives up, nothing in the list is mounted, though its    *)
(* loop skips elements that RemoveMountpoint has moved: its tries are      *)
(* enough, unless an unmount failed or a medium was added meanwhile, or    *)
(* the list was torn.                                                      *)
UnmountAllUnmounts ==
    \A t \in Threads :
        Doing(t, "report") /\ t \notin disturbed /\ ~torn => Listed \intersect mounted = {}

(* When everybody is done, the emulator is started again if it ends: each  *)
(* early return of an operation on a hard disk drive restores that.        *)
RerunRestored == AtRest => rerunEmulator

(* Commands that do not overlap, as long as nothing fails: what is listed  *)
(* is mounted, and the other way round; and a drive with its own medium's  *)
(* file has it mounted.                                                    *)
MountsMatch ==
    overlaps = 0 /\ failures = 0 /\ AtRest =>
        /\ Listed = mounted
        /\ \A m \in Media : slot[Home[m]] \in FilesOf(m) => m \in mounted

(* Commands that do not overlap: when a keyboard or a signal has unmounted *)
(* a medium, no drive holds a file of it.                                  *)
UnmountLeavesNothing ==
    overlaps = 0 =>
        \A t \in Threads \ {"blockDevices"} :
            Doing(t, "unlist") =>
                \A d \in Drives : slot[d] \notin FilesOf(Now(t).mp.medium)

(* Commands that do not overlap: a keyboard takes no device's file that is *)
(* there out of a drive, though it looks for it a while before; until a    *)
(* disk is copied, which may leave a file that the discovery has forgotten.*)
KeyboardsSpareDevices ==
    overlaps = 0 /\ copies = 0 =>
        \A t \in Keyboards : Doing(t, "clear") => slot[Now(t).d] \notin currentFiles
=============================================================================
