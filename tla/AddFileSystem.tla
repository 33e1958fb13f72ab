---------------------------- MODULE AddFileSystem ----------------------------
(***************************************************************************)
(* The file system of amiga_disk_devices (add_file_system.go) with the     *)
(* media it shows (medium_base.go, medium_driver_base.go) and the poll     *)
(* that adds and removes them (block_devices.go).                          *)
(*                                                                         *)
(* FUSE calls back in threads of its own: a call searches the slice of     *)
(* media that the poll changes without a lock, then works on the medium    *)
(* under the medium's mutex.  The poll closes a removed medium without it. *)
(*                                                                         *)
(* A disk is a number; what lsblk shows of it is its look.  A medium is    *)
(* the object made for the device when the poll saw a look: it has a       *)
(* device, an open handle (the disk it was opened on), the mutex, and for  *)
(* observation the disk that Probe met.                                    *)
(***************************************************************************)
EXTENDS Naturals, Sequences, FiniteSets

CONSTANTS
    Devices, Threads,
    Wants,                  (* per thread: the calls it is given             *)
    Looks, Blank, None,     (* Blank: the look of a disk formatted here      *)
    ENOENT, EIO,            (* answers other than a disk or devices; EIO is  *)
                            (* any failure, an empty read included           *)
    MaxEvents, MaxCalls, MaxFaults      (* bounds: what the user does, ...   *)

ASSUME ConstantsAssumption ==
    /\ Blank \in Looks /\ None \notin Looks /\ None \notin Nat /\ None \notin Devices \union Threads
    /\ Wants \in [Threads -> SUBSET (Devices \union {None})]
    /\ {MaxEvents, MaxCalls, MaxFaults} \subseteq Nat

VARIABLES
    inDrive,                (* per device: the disk in it, or None           *)
    look,                   (* the looks of the disks so far                 *)
    old,                    (* old_parsed_output: per device a look or None  *)
    leaving, coming,        (* devices whose callbacks are still to be made  *)
    media,                  (* every medium made so far                      *)
    array, size,            (* mediums: its array and how much is used       *)
    closing,                (* the medium RemoveMediumByDevicePathname took  *)
                            (* out and has not closed yet, or None           *)
    shut,                   (* its handle is closed and still stored         *)
    thread,                 (* the FUSE threads                              *)
    pressed,                (* FORMAT_DEVICE_KEYS are among the pressed keys *)
    events, calls, faults   (* counters                                      *)

(* Observation only: devices whose disk no driver took.                    *)
VARIABLE refused

listVars == <<media, array, size, closing, shut>>
pollVars == <<old, leaving, coming>>
counters == <<events, calls, faults>>
world    == <<inDrive, look, pressed>>
vars == <<world, pollVars, listVars, thread, counters, refused>>

(* A call looks for the medium of a device, or with want = None lists the  *)
(* directory.  own is the array its slice is of, <<>> while that is the    *)
(* list's.  steady and crossed are observations: the devices whose listed  *)
(* disk has stayed since the call began, and whether a medium was removed  *)
(* during the search.                                                      *)
Idle == [pc |-> "idle", want |-> None, own |-> <<>>, len |-> 0, i |-> 0, medium |-> 0,
         handle |-> None, answer |-> {}, steady |-> {}, crossed |-> FALSE]

Init ==
    /\ inDrive = [d \in Devices |-> None] /\ look = <<>>
    /\ old = [d \in Devices |-> None] /\ leaving = {} /\ coming = {}
    /\ media = <<>> /\ array = <<>> /\ size = 0 /\ closing = None /\ shut = FALSE
    /\ thread = [t \in Threads |-> Idle]
    /\ pressed = FALSE
    /\ events = 0 /\ calls = 0 /\ faults = 0
    /\ refused = {}

Shown(d)  == IF inDrive[d] = None THEN None ELSE look[inDrive[d]]
Listed    == {array[k] : k \in 1..size}
(* The device's medium is listed, and its disk is the one in the drive.    *)
Settled(d) == inDrive[d] # None /\ \E m \in Listed : media[m].device = d /\ media[m].disk = inDrive[d]

-----------------------------------------------------------------------------
(* The user.                                                               *)

Unsteady(d) == [t \in Threads |-> [thread[t] EXCEPT !.steady = @ \ {d}]]

Insert(d) ==
    /\ inDrive[d] = None /\ events < MaxEvents
    /\ \E l \in Looks \ {Blank} : look' = Append(look, l)
    /\ inDrive' = [inDrive EXCEPT ![d] = Len(look) + 1]
    /\ events' = events + 1
    /\ UNCHANGED <<pressed, pollVars, listVars, thread, calls, faults, refused>>

Eject(d) ==
    /\ inDrive[d] # None /\ events < MaxEvents
    /\ inDrive' = [inDrive EXCEPT ![d] = None]
    /\ events' = events + 1
    /\ thread' = Unsteady(d)
    /\ UNCHANGED <<look, pressed, pollVars, listVars, calls, faults, refused>>

PressFormatKeys ==
    /\ ~pressed /\ events < MaxEvents
    /\ pressed' = TRUE
    /\ events' = events + 1
    /\ UNCHANGED <<inDrive, look, pollVars, listVars, thread, calls, faults, refused>>

-----------------------------------------------------------------------------
(* The poll: all detached devices first, then all attached ones, each in   *)
(* the order a Go map gives.  A device that looks different is both.       *)

Changed(d) == old[d] # Shown(d)

(* Mutant: a device that looks different is neither detached nor attached. *)
loopGoneOrNew ==
    /\ leaving = {} /\ coming = {} /\ closing = None
    /\ old' = [d \in Devices |-> Shown(d)]
    /\ leaving' = {d \in Devices : old[d] # None /\ Shown(d) = None}
    /\ coming'  = {d \in Devices : old[d] = None /\ Shown(d) # None}
    /\ UNCHANGED <<world, listVars, thread, counters, refused>>

loop ==
    /\ leaving = {} /\ coming = {} /\ closing = None
    /\ old' = [d \in Devices |-> Shown(d)]
    /\ leaving' = {d \in Devices : Changed(d) /\ old[d] # None}
    /\ coming'  = {d \in Devices : Changed(d) /\ Shown(d) # None}
    /\ UNCHANGED <<world, listVars, thread, counters, refused>>

(* The place of the device's medium in the list; 0: it is not there.       *)
Place(d) ==
    LET places == {k \in 1..size : media[array[k]].device = d}
    IN IF places = {} THEN 0 ELSE CHOOSE k \in places : \A j \in places : k <= j

(* Mutant: the slices.Delete of later Go versions, which clears the end.   *)
DownClears(k) ==
    [j \in DOMAIN array |-> IF j >= k /\ j < size THEN array[j + 1]
                           ELSE IF j = size THEN 0 ELSE array[j]]

(* slices.Delete moves the rest down in place, under every search that has *)
(* the same array, and leaves the end as it is.                            *)
Down(k)  == [j \in DOMAIN array |-> IF j >= k /\ j < size THEN array[j + 1] ELSE array[j]]
Searching(t) == thread[t].pc = "search"

RemoveMediumByDevicePathname(d) ==
    /\ d \in leaving /\ closing = None
    /\ leaving' = leaving \ {d}
    /\ refused' = refused \ {d}
    /\ IF Place(d) = 0 THEN UNCHANGED <<array, size, closing, thread>>
       ELSE /\ array' = Down(Place(d))
            /\ size' = size - 1
            /\ closing' = array[Place(d)]
            /\ thread' = [t \in Threads |-> [thread[t] EXCEPT !.crossed = @ \/ Searching(t),
                                                             !.steady = @ \ {d}]]
    /\ UNCHANGED <<world, old, coming, media, shut, counters>>

(* CloseMedium, without the mutex: whoever uses the handle gets an error.  *)
Using == {t \in Threads : thread[t].pc = "use" /\ thread[t].medium = closing}

Fail(failed) ==
    thread' = [t \in Threads |-> IF t \in failed THEN [thread[t] EXCEPT !.handle = None]
                                                 ELSE thread[t]]

(* The base driver closes the handle before it forgets it.                 *)
CloseHandle ==
    /\ closing # None /\ ~shut /\ media[closing].handle # None
    /\ shut' = TRUE
    /\ Fail(Using)
    /\ UNCHANGED <<world, pollVars, media, array, size, closing, counters, refused>>

(* The floppy driver forgets it and closes it after: who is still using it *)
(* then gets the error.                                                    *)
CloseMedium ==
    /\ closing # None
    /\ closing' = None
    /\ shut' = FALSE
    /\ media' = [media EXCEPT ![closing].handle = None]
    /\ \E failed \in SUBSET Using : Fail(failed)
    /\ UNCHANGED <<world, pollVars, array, size, counters, refused>>

(* formatDeviceIfNeeded: the keys are forgotten, so that one press formats *)
(* one device; the next poll sees the device change.                       *)
Format(d) ==
    /\ pressed /\ inDrive[d] # None
    /\ pressed' = FALSE
    /\ look' = [look EXCEPT ![inDrive[d]] = Blank]

FormatFails(d) ==
    /\ pressed /\ inDrive[d] = None
    /\ pressed' = FALSE
    /\ UNCHANGED look

formatDeviceIfNeeded(d) ==
    \/ Format(d)
    \/ FormatFails(d)
    \/ ~pressed /\ UNCHANGED <<pressed, look>>

(* append: in place, or in an array twice as long.                         *)
AddMedium(m) ==
    /\ size' = size + 1
    /\ IF size < Len(array)
       THEN /\ array' = [array EXCEPT ![size + 1] = m]
            /\ UNCHANGED thread
       ELSE /\ array' = [k \in 1..(IF size = 0 THEN 1 ELSE 2 * size) |->
                            IF k <= size THEN array[k] ELSE IF k = size + 1 THEN m ELSE 0]
            /\ thread' = [t \in Threads |-> IF thread[t].own = <<>> /\ Searching(t)
                            THEN [thread[t] EXCEPT !.own = array] ELSE thread[t]]

(* The other alternative: ProbeMediumForDriver finds no driver, or fails.   *)
Attach(d) ==
    /\ d \in coming
    /\ coming' = coming \ {d}
    /\ formatDeviceIfNeeded(d)
    /\ \/ /\ media' = Append(media, [device |-> d, disk |-> inDrive[d],
                 look |-> IF pressed THEN Blank ELSE old[d], handle |-> None, owner |-> None])
          /\ AddMedium(Len(media) + 1)
          /\ UNCHANGED <<faults, refused>>
       \/ /\ faults < MaxFaults \/ inDrive[d] = None
          /\ faults' = IF inDrive[d] = None THEN faults ELSE faults + 1
          /\ refused' = refused \union {d}
          /\ UNCHANGED <<media, array, size, thread>>
    /\ UNCHANGED <<inDrive, old, leaving, closing, shut, events, calls>>

(* Mutant: devices are attached before those that left are detached.       *)
attachedFirst(d) == closing = None /\ Attach(d)

attachedBlockDeviceCallback(d) == leaving = {} /\ closing = None /\ Attach(d)

-----------------------------------------------------------------------------
(* FUSE threads: Open, Getattr, Read and Write search for a medium,        *)
(* Readdir walks over all of them; Read and Write stand for what follows.  *)

Set(t, r) == thread' = [thread EXCEPT ![t] = r]
Step(t) == UNCHANGED <<world, pollVars, array, size, closing, shut, counters, refused>>

Call(t, want) ==
    /\ thread[t].pc = "idle" /\ calls < MaxCalls
    /\ calls' = calls + 1
    /\ Set(t, [Idle EXCEPT !.pc = "search", !.want = want, !.len = size, !.i = 1,
                           !.steady = {d \in Devices : Settled(d)}])
    /\ UNCHANGED <<world, pollVars, listVars, events, faults, refused>>

At(t, k) == IF thread[t].own = <<>> THEN array[k] ELSE thread[t].own[k]
Element(t) == At(t, thread[t].i)

(* One element of the range in FindMediumByPublicFSPathname or Readdir.    *)
RangeElement(t) ==
    LET r == thread[t]
        d == media[Element(t)].device
    IN /\ r.pc = "search" /\ r.i <= r.len
       /\ Set(t, CASE r.want = None -> [r EXCEPT !.i = @ + 1, !.answer = @ \union {d}]
                   [] r.want = d    -> [r EXCEPT !.pc = "lock", !.medium = Element(t)]
                   [] OTHER         -> [r EXCEPT !.i = @ + 1])
       /\ UNCHANGED media /\ Step(t)

RangeEnd(t) ==
    LET r == thread[t]
    IN /\ r.pc = "search" /\ r.i > r.len
       /\ Set(t, [r EXCEPT !.pc = "return", !.answer = IF r.want = None THEN @ ELSE {ENOENT}])
       /\ UNCHANGED media /\ Step(t)

(* Mutant: a return that forgets the mutex.                                *)
UnlockNot(m) == UNCHANGED media
Unlock(m) == media' = [media EXCEPT ![m].owner = None]
(* Mutant: no mutex.                                                       *)
LockNot(m, t) == media' = [media EXCEPT ![m].owner = t]
Lock(m, t) == media[m].owner = None /\ media' = [media EXCEPT ![m].owner = t]

(* OpenMediumHandle under the mutex: the stored handle, which the poll may *)
(* have closed, or a new one on the device, stored in a further step.      *)
StoredHandle(m) == IF shut /\ m = closing THEN None ELSE media[m].handle

OpenMediumHandle(t) ==
    LET r == thread[t]  m == r.medium  disk == inDrive[media[m].device]
    IN /\ r.pc = "lock"
       /\ \/ /\ media[m].handle # None
             /\ Lock(m, t)
             /\ Set(t, [r EXCEPT !.pc = "use", !.handle = StoredHandle(m)])
          \/ /\ media[m].handle = None /\ disk # None
             /\ Lock(m, t)
             /\ Set(t, [r EXCEPT !.pc = "opened", !.handle = disk])
          \/ /\ media[m].handle = None /\ disk = None /\ media[m].owner = None
             /\ Set(t, [r EXCEPT !.pc = "return", !.answer = {EIO}])
             /\ UNCHANGED media
       /\ Step(t)

SetHandle(t) ==
    LET r == thread[t]
    IN /\ r.pc = "opened"
       /\ media' = [media EXCEPT ![r.medium].handle = r.handle]
       /\ Set(t, [r EXCEPT !.pc = "use"])
       /\ Step(t)

(* The read or write itself; a handle is good for the disk it was opened   *)
(* on while that is in the drive.                                          *)
Access(t) ==
    LET r == thread[t]  m == r.medium
    IN /\ r.pc = "use"
       /\ Set(t, [r EXCEPT !.pc = "return",
            !.answer = IF r.handle # None /\ r.handle = inDrive[media[m].device]
                       THEN {r.handle} ELSE {EIO}])
       /\ Unlock(m)
       /\ Step(t)

Return(t) ==
    /\ thread[t].pc = "return"
    /\ Set(t, Idle)
    /\ UNCHANGED media /\ Step(t)

-----------------------------------------------------------------------------
Poll == \/ loop
        \/ CloseHandle \/ CloseMedium
        \/ \E d \in Devices : RemoveMediumByDevicePathname(d) \/ attachedBlockDeviceCallback(d)

Fuse(t) == \/ RangeElement(t) \/ RangeEnd(t) \/ OpenMediumHandle(t)
           \/ SetHandle(t) \/ Access(t) \/ Return(t)

User == \/ \E d \in Devices : Insert(d) \/ Eject(d)
        \/ PressFormatKeys
        \/ \E t \in Threads : \E d \in Wants[t] : Call(t, d)

Next == Poll \/ User \/ \E t \in Threads : Fuse(t)

Spec == Init /\ [][Next]_vars

(* The poll runs every 10 ms, a call goes on, and a Go mutex lets nobody   *)
(* wait for ever.  Nobody must plug, press or call.                        *)
FairSpec == Spec /\ WF_vars(Poll)
                 /\ \A t \in Threads : WF_vars(Fuse(t)) /\ SF_vars(OpenMediumHandle(t))

-----------------------------------------------------------------------------
(* Properties.                                                             *)

(* Types; the poll has one medium at most per device in the list, and the  *)
(* mutex has the owner that stands behind it.                              *)
TypeOK ==
    /\ inDrive \in [Devices -> 1..Len(look) \union {None}]
    /\ old \in [Devices -> Looks \union {None}]
    /\ size <= Len(array) /\ Listed \subseteq 1..Len(media)
    /\ closing \in 1..Len(media) \union {None}
    /\ \A k \in 1..size : Place(media[array[k]].device) = k
    /\ \A m \in 1..Len(media), t \in Threads :
         media[m].owner = t <=> thread[t].medium = m /\ thread[t].pc \in {"opened", "use"}

(* A call for a disk that is listed and stays in its drive for the whole   *)
(* call gets that disk, through polls, other media that come and the       *)
(* handle another thread opens; a listing has it.  The search may miss a   *)
(* medium only if another one is removed during it.                        *)
ServedByOwnDisk ==
    \A t \in Threads : LET r == thread[t] IN
        r.pc = "return" =>
            /\ r.want \in r.steady /\ (r.crossed => r.answer # {ENOENT})
                 => r.answer = {inDrive[r.want]}
            /\ r.want = None /\ ~r.crossed => r.steady \subseteq r.answer

(* A medium has one handle open at most, although two threads may come to  *)
(* OpenMediumHandle at once, and the poll closes it without the mutex: a   *)
(* second handle would never be closed.                                    *)
OneHandle ==
    \A m \in 1..Len(media) :
        Cardinality({t \in Threads : thread[t].medium = m /\ thread[t].pc = "opened"})
        + (IF media[m].handle = None THEN 0 ELSE 1) <= 1

(* No search meets a place without a medium, however the list shrinks and  *)
(* grows under it: Go would end the program at the nil.                    *)
NoNilMedium ==
    \A t \in Threads : Searching(t) =>
        \A k \in thread[t].i..thread[t].len : At(t, k) \in 1..Len(media)

(* A call ends whatever happens to the disk: no return forgets the mutex.  *)
CallsEnd == \A t \in Threads : thread[t].pc # "idle" ~> thread[t].pc = "idle"

(* Once nobody plugs any more, the list has a medium for every drive with  *)
(* a disk, made for what the disk looks like, but for disks no driver      *)
(* takes, and no medium that was taken out waits to be closed.             *)
ListMatches ==
    /\ closing = None
    /\ \A m \in Listed : media[m].look = Shown(media[m].device)
    /\ \A d \in Devices \ refused : Shown(d) # None => \E m \in Listed : media[m].device = d
ListCatchesUp == <>[]ListMatches
=============================================================================
