--------------------------- MODULE SlotsFilesProofs ---------------------------
(***************************************************************************)
(* Which files the drives hold, those of amiga_disk_devices until a disk   *)
(* is copied to another, and which media are mounted, for any drives,      *)
(* media, files, keyboards and bounds; but the media that unmountAll is    *)
(* sure to unmount are no more than its tries.                             *)
(*                                                                         *)
(* The argument.  Whatever the other goroutines do, they attach no file of *)
(* amiga_disk_devices (Sparing): a command or a default names a file of a  *)
(* medium.  So such a file is in the drive where the discovery attached it *)
(* and in no other (DeviceSlots), and the discovery, which chooses the     *)
(* drive when it starts to detach, has chosen that one (Leaving).  Others  *)
(* may only take the file out in between.                                  *)
(*                                                                         *)
(* Goroutines that take turns: a keyboard's steps empty only drives        *)
(* without a device's file that is there (KeyboardsHarmless), and while    *)
(* it is busy nothing else changes which those are.                        *)
(*                                                                         *)
(* Unmounting, by goroutines that take turns: whatever was done before, a  *)
(* drive holds a file of a medium only if it is of the medium's kind       *)
(* (SlotsFit), so the drives of that kind are all that must be emptied;    *)
(* the goroutine passes through them, and those it has passed stay as they *)
(* are (Unmounting).                                                       *)
(*                                                                         *)
(* The mounts, by goroutines that take turns: a mountpoint anybody may     *)
(* unmount is listed as long as it is mounted (Current); only while its    *)
(* medium is mounted does a file of it come to its drive (Sound); and the  *)
(* poll follows one of a few courses, in which it has told of all that is  *)
(* mounted but for a medium it is about to unmount (PollMay).              *)
(*                                                                         *)
(* unmountAll, whatever overlaps and fails: of the elements its loop has   *)
(* passed none is mounted, unless one left the list meanwhile (Progress),  *)
(* for only then do the elements move under the loop.  So each round       *)
(* shortens the list, or leaves nothing in it mounted (InRounds), and      *)
(* there are enough rounds if there are no more media.                     *)
(***************************************************************************)
EXTENDS SlotsProofs

(* What steps may do is a record: the drives they may empty, which file    *)
(* they may look for in which drive to detach it, which file they may      *)
(* attach to which drive, the drives they may copy, the mountpoints they   *)
(* may unmount, the media they may mount, and the loops they may begin.    *)

(* The loops that unmount.                                                 *)
UnmountLoops == {"index", "round", "each"}

(* The steps without an early return.                                      *)
Calm(may) ==
    [do : {"clear"}, d : may.empty]
    \union [do : {"eject"} \union ({"index"} \intersect may.loops), d : Drives]
    \union {s \in [do : {"fill", "insert"}, d : Drives, f : Slottable] : <<s.d, s.f>> \in may.attach}
    \union [do : {"unmount"}, mp : may.unmount, remove : BOOLEAN]
    \union [do : {"rom"}, d : Drives, mp : may.unmount]
    \union [do : {"round"} \intersect may.loops, r : Nat]
    \union [do : {"each"} \intersect may.loops, i : Nat \ {0}, r : Nat]
    \union [do : {"hdDone", "panic", "stop"} \union {s \in {"report"} : "round" \in may.loops}]

(* All steps.                                                              *)
Sparing(may) ==
    Calm(may)
    \union {s \in [do : {"detach"}, d : Drives, f : Slottable, orelse : Seq(Calm(may))] :
              <<s.d, s.f>> \in may.detach}
    \union {s \in [do : {"attach"}, d : Drives, f : Slottable, orelse : Seq(Calm(may))] :
              <<s.d, s.f>> \in may.attach}
    \union [do : {"free"}, f : Slottable \ Devices, k : {Kind[d] : d \in Drives}, orelse : Seq(Calm(may))]
    \union [do : {"source"}, s : may.copy, t : may.copy \union {Beyond}, orelse : Seq(Calm(may))]
    \union {s \in [do : {"target"}, s : may.copy, f : Slottable, t : may.copy \union {Beyond},
                   orelse : Seq(Calm(may))] : <<s.s, s.f>> \in may.attach}
    \union {s \in [do : {"copy"}, s : may.copy, f : Slottable, t : may.copy, g : Slottable,
                   orelse : Seq(Calm(may))] :
              <<s.s, s.f>> \in may.attach /\ <<s.t, s.g>> \in may.attach}
    \union [do : {"unlist"}, mp : may.unmount]
    \union [do : {"load", "delete"}, mp : may.unmount, i : Nat \ {0}]
    \union [do : {"add", "grow"}, mp : {mp \in may.unmount : mp.medium \in may.media}]
    \union [do : {"mount"}, m : {m \in may.media : [medium |-> m, n |-> 0] \in may.unmount}]
    \union [do : {"hdStart"}]

(* What makes these hold together: a file found in a drive leaves one that *)
(* may be emptied; what is not a device's may be detached; the files of a  *)
(* medium may be attached to the drives of its kind; what a copy takes out *)
(* of a drive it may put back; and who mounts may unmount anything.        *)
Allowed(may) ==
    /\ may.empty \subseteq Drives /\ may.copy \subseteq Drives /\ may.media \subseteq Media
    /\ may.unmount \subseteq MountpointsOf /\ may.loops \subseteq UnmountLoops
    /\ may.media = {} \/ may.unmount \in {{}, MountpointsOf}
    /\ "each" \in may.loops => "round" \in may.loops
    /\ \A d \in Drives : /\ slot[d] \notin currentFiles => <<d, slot[d]>> \in may.detach
                         /\ <<d, slot[d]>> \in may.detach => d \in may.empty
                         /\ \A f \in Slottable \ Devices : <<d, f>> \in may.detach
                         /\ \A m \in may.media : Kind[d] = Kind[Home[m]] =>
                              \A f \in FilesOf(m) \union {None, Missing} : <<d, f>> \in may.attach
    /\ \A d \in may.copy : <<d, slot[d]>> \in may.detach /\ <<d, slot[d]>> \in may.attach

(* Without restriction, but for the files of devices.                      *)
Anything == Drives \X Slottable
NoDevices == Drives \X (Slottable \ Devices)
OthersMay == [empty |-> Drives, detach |-> Anything, attach |-> NoDevices, copy |-> {},
              unmount |-> MountpointsOf, media |-> Media, loops |-> UnmountLoops]
Harmless == Sparing(OthersMay)

(* Only the discovery attaches files of devices.                           *)
OthersSpare == \A t \in Threads \ {"discovery"} : todo[t] \in Seq(Harmless)

(* The drive is one for the device's file: its own, or any for hard disks. *)
Fits(d, f) == /\ Kind[d] = Kind[DeviceDrive[f]]
              /\ Kind[d] = "HD" \/ d = DeviceDrive[f]

(* Steps that attach f to d, with or without the rerun flag around.        *)
Coming(q, d, f) ==
    q \in {<<Attach(d, f, <<>>)>>, <<Fill(d, f)>>,
           <<HDStart, Attach(d, f, <<HDDone>>), HDDone>>, <<Attach(d, f, <<HDDone>>), HDDone>>,
           <<Fill(d, f), HDDone>>}
(* Steps that detach f from d.                                             *)
Leaving(q, d, f) ==
    q \in {<<Detach(d, f, <<>>)>>, <<Clear(d)>>,
           <<HDStart, Detach(d, f, <<HDDone>>), HDDone>>, <<Detach(d, f, <<HDDone>>), HDDone>>,
           <<Clear(d), HDDone>>}

(* The discovery does nothing else; what it attaches it knows, and has     *)
(* attached nowhere yet.                                                   *)
DiscoveryOK ==
    \/ todo["discovery"] \in {<<>>, <<HDDone>>}
    \/ \E d \in Drives, f \in Devices : Leaving(todo["discovery"], d, f)
    \/ \E d \in Drives, f \in oldFiles :
          /\ Coming(todo["discovery"], d, f) /\ Fits(d, f)
          /\ \A e \in Drives : slot[e] # f

(* A device's file is in a drive for it, in no other drive, and either the *)
(* discovery has yet to tell that it is gone, or it is about to take it    *)
(* out of that drive.                                                      *)
DeviceSlots ==
    \A d \in Drives : slot[d] \in Devices =>
        /\ Fits(d, slot[d])
        /\ \A e \in Drives : slot[e] = slot[d] => e = d
        /\ slot[d] \in oldFiles \/ Leaving(todo["discovery"], d, slot[d])

(* The inductive invariant.                                                *)
FInv == OthersSpare /\ DiscoveryOK /\ DeviceSlots

-----------------------------------------------------------------------------
(* Steps that spare the devices.                                           *)

(* What such a step is about.                                              *)
LEMMA SpareKinds ==
  ASSUME NEW may, Allowed(may), NEW s \in Sparing(may)
  PROVE  /\ s \in Calm(may) <=> s.do \notin {"detach", "attach", "free", "source", "target", "copy",
                                            "add", "grow", "unlist", "load", "delete", "mount", "hdStart"}
         /\ s.do \in {"clear", "eject", "index", "fill", "insert", "rom", "detach", "attach"} => s.d \in Drives
         /\ s.do = "clear" => s.d \in may.empty
         /\ s.do = "detach" => s.f \in Slottable /\ <<s.d, s.f>> \in may.detach
         /\ s.do \in {"fill", "insert", "attach"} => s.f \in Slottable /\ <<s.d, s.f>> \in may.attach
         /\ s.do = "free" => s.f \in Slottable \ Devices
         /\ s.do \in {"unmount", "rom", "add", "grow", "unlist", "load", "delete"} =>
              s.mp \in may.unmount /\ s.mp \in MountpointsOf
         /\ s.do \in {"load", "delete"} => s.i \in Nat \ {0}
         /\ s.do \in {"add", "grow"} => s.mp.medium \in may.media /\ may.unmount = MountpointsOf
         /\ s.do \in UnmountLoops => s.do \in may.loops
         /\ s.do = "report" => "round" \in may.loops
         /\ s.do = "each" => s.i \in Nat \ {0} /\ s.r \in Nat
         /\ s.do = "round" => s.r \in Nat
         /\ s.do = "free" => s.k \in {Kind[d] : d \in Drives}
         /\ s.do = "mount" => s.m \in may.media /\ may.unmount = MountpointsOf
         /\ s.do \in {"detach", "attach", "free", "source", "target", "copy"} => s.orelse \in Seq(Calm(may))
         /\ s.do \in {"source", "target", "copy"} => s.s \in may.copy /\ s.t \in may.copy \union {Beyond}
         /\ s.do \in {"target", "copy"} => s.f \in Slottable /\ <<s.s, s.f>> \in may.attach
         /\ s.do = "copy" => s.t \in may.copy /\ s.g \in Slottable /\ <<s.t, s.g>> \in may.attach
  <1>1. may.unmount \subseteq MountpointsOf
    BY DEF Allowed
  <1>2. CASE s \in Calm(may)
    BY <1>1, <1>2 DEF Calm, Allowed, UnmountLoops
  <1>3. CASE s \notin Calm(may)
    <2>1. s.do \in {"mount"} => s.m \in may.media /\ may.unmount = MountpointsOf
      <3>1. s.do \in {"mount"} => s.m \in {m \in may.media : [medium |-> m, n |-> 0] \in may.unmount}
        BY <1>3 DEF Sparing
      <3> QED  BY <3>1 DEF Allowed
    <2>5. s.do \in {"add", "grow"} => s.mp.medium \in may.media /\ may.unmount = MountpointsOf
      <3>1. s.do \in {"add", "grow"} => s.mp \in {mp \in may.unmount : mp.medium \in may.media}
        BY <1>3 DEF Sparing
      <3> QED  BY <3>1 DEF Allowed
    <2>2. s.do \in {"detach", "attach", "free", "source", "target", "copy",
                    "add", "grow", "unlist", "load", "delete", "mount", "hdStart"}
      BY <1>3 DEF Sparing
    <2>3. /\ s.do = "detach" => /\ s.d \in Drives /\ s.f \in Slottable /\ <<s.d, s.f>> \in may.detach
                                /\ s.orelse \in Seq(Calm(may))
          /\ s.do = "attach" => /\ s.d \in Drives /\ s.f \in Slottable /\ <<s.d, s.f>> \in may.attach
                                /\ s.orelse \in Seq(Calm(may))
          /\ s.do = "free" => /\ s.f \in Slottable \ Devices /\ s.k \in {Kind[d] : d \in Drives}
                              /\ s.orelse \in Seq(Calm(may))
          /\ s.do \in {"add", "grow", "unlist", "load", "delete"} => s.mp \in may.unmount
          /\ s.do \in {"load", "delete"} => s.i \in Nat \ {0}
      BY <1>3 DEF Sparing
    <2>4. /\ s.do \in {"source", "target", "copy"} => /\ s.s \in may.copy /\ s.t \in may.copy \union {Beyond}
                                                       /\ s.orelse \in Seq(Calm(may))
          /\ s.do \in {"target", "copy"} => s.f \in Slottable /\ <<s.s, s.f>> \in may.attach
          /\ s.do = "copy" => s.t \in may.copy /\ s.g \in Slottable /\ <<s.t, s.g>> \in may.attach
      BY <1>3 DEF Sparing
    <2> QED  BY <1>1, <1>3, <2>1, <2>2, <2>3, <2>4, <2>5 DEF UnmountLoops
  <1> QED  BY <1>2, <1>3

(* The steps as the operations make them.                                  *)
LEMMA SpareMade ==
  ASSUME NEW may, Allowed(may)
  PROVE  /\ {HDDone, Panic, Stop} \subseteq Calm(may) /\ HDStart \in Sparing(may)
         /\ \A d \in may.empty : Clear(d) \in Calm(may)
         /\ \A d \in Drives, f \in Slottable : <<d, f>> \in may.attach =>
              {Fill(d, f), InsertIndex(d, f)} \subseteq Calm(may)
         /\ \A mp \in may.unmount :
              /\ Unmount(mp, TRUE) \in Calm(may) /\ Unmount(mp, FALSE) \in Calm(may)
              /\ \A d \in Drives : DetachROM(d, mp) \in Calm(may)
              /\ Unlist(mp) \in Sparing(may)
              /\ \A i \in Nat \ {0} : Load(mp, i) \in Sparing(may) /\ Delete(mp, i) \in Sparing(may)
              /\ mp.medium \in may.media => Grow(mp) \in Sparing(may)
              /\ mp.medium \in may.media => Add(mp) \in Sparing(may) /\ Mount(mp.medium) \in Sparing(may)
         /\ \A q \in Seq(Calm(may)), d \in Drives, f \in Slottable :
              /\ f \notin Devices \/ <<d, f>> \in may.detach => Detach(d, f, q) \in Sparing(may)
              /\ <<d, f>> \in may.attach => Attach(d, f, q) \in Sparing(may)
              /\ f \notin Devices => \A k \in {Kind[c] : c \in Drives} : Free(f, k, q) \in Sparing(may)
  <1>1. {HDDone, Panic, Stop} \subseteq Calm(may) /\ HDStart \in Sparing(may)
    BY DEF Calm, Sparing, HDDone, Panic, Stop, HDStart
  <1>2. \A d \in may.empty : Clear(d) \in Calm(may)
    BY DEF Calm, Clear
  <1>3. \A d \in Drives, f \in Slottable : <<d, f>> \in may.attach =>
          {Fill(d, f), InsertIndex(d, f)} \subseteq Calm(may)
    BY DEF Calm, Fill, InsertIndex
  <1>4. \A mp \in may.unmount :
          /\ Unmount(mp, TRUE) \in Calm(may) /\ Unmount(mp, FALSE) \in Calm(may)
          /\ \A d \in Drives : DetachROM(d, mp) \in Calm(may)
    BY DEF Calm, Unmount, DetachROM
  <1>5. \A mp \in may.unmount :
          /\ Unlist(mp) \in Sparing(may)
          /\ \A i \in Nat \ {0} : Load(mp, i) \in Sparing(may) /\ Delete(mp, i) \in Sparing(may)
          /\ mp.medium \in may.media => Grow(mp) \in Sparing(may)
          /\ mp.medium \in may.media => Add(mp) \in Sparing(may) /\ Mount(mp.medium) \in Sparing(may)
    <2>1. ASSUME NEW mp \in may.unmount, mp.medium \in may.media
          PROVE  [medium |-> mp.medium, n |-> 0] \in may.unmount
      <3>1. may.unmount = MountpointsOf
        BY <2>1 DEF Allowed
      <3> QED  BY <3>1 DEF MountpointsOf
    <2>2. ASSUME NEW mp \in may.unmount
          PROVE  /\ Unlist(mp) \in Sparing(may)
                 /\ \A i \in Nat \ {0} : Load(mp, i) \in Sparing(may) /\ Delete(mp, i) \in Sparing(may)
      BY DEF Sparing, Unlist, Load, Delete
    <2>3. ASSUME NEW mp \in may.unmount, mp.medium \in may.media
          PROVE  Grow(mp) \in Sparing(may) /\ Add(mp) \in Sparing(may)
      BY <2>3 DEF Sparing, Add, Grow
    <2>4. ASSUME NEW mp \in may.unmount, mp.medium \in may.media
          PROVE  Mount(mp.medium) \in Sparing(may)
      BY <2>1, <2>4 DEF Sparing, Mount
    <2> QED  BY <2>2, <2>3, <2>4
  <1>7. ASSUME NEW q \in Seq(Calm(may)), NEW d \in Drives, NEW f \in Slottable
        PROVE  /\ <<d, f>> \in may.detach => Detach(d, f, q) \in Sparing(may)
               /\ <<d, f>> \in may.attach => Attach(d, f, q) \in Sparing(may)
               /\ f \notin Devices => \A k \in {Kind[c] : c \in Drives} : Free(f, k, q) \in Sparing(may)
    BY DEF Sparing, Detach, Attach, Free
  <1>8. \A d \in Drives, f \in Slottable : f \notin Devices => <<d, f>> \in may.detach
    BY DEF Allowed
  <1> QED  BY <1>1, <1>2, <1>3, <1>4, <1>5, <1>7, <1>8

(* The loops.                                                              *)
LEMMA LoopsMade ==
  ASSUME NEW may
  PROVE  /\ \A d \in Drives : EjectIndex(d) \in Calm(may)
         /\ "index" \in may.loops => \A d \in Drives : UnmountIndex(d) \in Calm(may)
         /\ "round" \in may.loops => Report \in Calm(may) /\ \A r \in Nat : Round(r) \in Calm(may)
         /\ "each" \in may.loops => \A r \in Nat, i \in Nat \ {0} : Each(i, r) \in Calm(may)
  <1>1. /\ \A d \in Drives : EjectIndex(d) \in Calm(may)
        /\ "index" \in may.loops => \A d \in Drives : UnmountIndex(d) \in Calm(may)
    BY DEF Calm, EjectIndex, UnmountIndex
  <1>2. "round" \in may.loops => Report \in Calm(may) /\ \A r \in Nat : Round(r) \in Calm(may)
    BY DEF Calm, Round, Report
  <1>3. "each" \in may.loops => \A r \in Nat, i \in Nat \ {0} : Each(i, r) \in Calm(may)
    BY DEF Calm, Each
  <1> QED  BY <1>1, <1>2, <1>3

(* The steps of a copy.                                                    *)
LEMMA CopyMade ==
  ASSUME NEW may, NEW s \in may.copy, NEW t \in may.copy \union {Beyond}, NEW q \in Seq(Calm(may))
  PROVE  /\ CopySource(s, t, q) \in Sparing(may)
         /\ \A f \in Slottable : <<s, f>> \in may.attach =>
              /\ CopyTarget(s, f, t, q) \in Sparing(may)
              /\ \A g \in Slottable : t \in may.copy /\ <<t, g>> \in may.attach =>
                    CopyFile(s, f, t, g, q) \in Sparing(may)
  BY DEF Sparing, CopySource, CopyTarget, CopyFile

(* Sequences of them.                                                      *)
LEMMA SpareSeqs ==
  ASSUME NEW may
  PROVE  /\ <<>> \in Seq(Calm(may)) /\ <<>> \in Seq(Sparing(may)) /\ Seq(Calm(may)) \subseteq Seq(Sparing(may))
         /\ Calm(may) \subseteq Sparing(may)
         /\ \A s \in Calm(may) : <<s>> \in Seq(Calm(may)) /\ \A r \in Calm(may) : <<s, r>> \in Seq(Calm(may))
         /\ \A s \in Sparing(may) : /\ <<s>> \in Seq(Sparing(may))
                                    /\ \A r \in Sparing(may) : <<s, r>> \in Seq(Sparing(may))
         /\ \A p, q \in Seq(Calm(may)) : p \o q \in Seq(Calm(may))
         /\ \A p, q \in Seq(Sparing(may)) : p \o q \in Seq(Sparing(may))
  <1>1. Calm(may) \subseteq Sparing(may)
    BY DEF Sparing
  <1>2. Seq(Calm(may)) \subseteq Seq(Sparing(may))
    BY <1>1, SeqMonotonic
  <1> QED  BY <1>1, <1>2, ConcatProperties

(* The start and the end of an operation on a hard disk.                   *)
LEMMA SpareBrackets ==
  ASSUME NEW may, Allowed(may), NEW k
  PROVE  Before(k) \in Seq(Sparing(may)) /\ After(k) \in Seq(Calm(may)) /\ After(k) \in Seq(Sparing(may))
  <1>1. HDStart \in Sparing(may) /\ HDDone \in Calm(may)
    BY SpareMade
  <1>2. Before(k) \in {<<>>, <<HDStart>>} /\ After(k) \in {<<>>, <<HDDone>>}
    BY DEF Before, After
  <1> HIDE DEF HDStart, HDDone
  <1>3. <<HDStart>> \in Seq(Sparing(may)) /\ <<HDDone>> \in Seq(Calm(may))
    BY <1>1
  <1> QED  BY <1>2, <1>3, SpareSeqs

(* No medium has a device's file.                                          *)
LEMMA MediaSpare ==
  /\ None \notin Devices
  /\ \A m \in Media :
       /\ FilesOf(m) \subseteq Slottable \ Devices
       /\ Files[m] \in Seq(Slottable \ Devices) /\ ToSet(Files[m]) \subseteq Slottable \ Devices
       /\ {None, Missing} \subseteq Slottable \ Devices /\ ToSet(Files[m]) \subseteq FilesOf(m)
       /\ Default[m] \in FilesOf(m) \union {None, Missing} /\ (m \in Dirs => m \in FilesOf(m))
  <1>1. /\ Images \intersect Devices = {} /\ {None, Missing} \intersect (Images \union Devices) = {}
        /\ \A m \in Media : /\ Files[m] \in Seq(ToSet(Files[m]))
                             /\ Default[m] \in ToSet(Files[m]) \union {None, Missing}
    BY ConstantsAssumption
  <1>2. ASSUME NEW m \in Media
        PROVE  /\ FilesOf(m) \subseteq Slottable \ Devices /\ ToSet(Files[m]) \subseteq FilesOf(m)
               /\ m \in Dirs => m \in FilesOf(m)
    BY <1>1 DEF FilesOf, Images, Slottable
  <1>3. ASSUME NEW m \in Media PROVE Files[m] \in Seq(Slottable \ Devices)
    <2>1. ToSet(Files[m]) \subseteq Slottable \ Devices
      BY <1>2
    <2> QED  BY <1>1, <2>1, SeqMonotonic
  <1>4. {None, Missing} \subseteq Slottable \ Devices
    BY <1>1 DEF Slottable
  <1> QED  BY <1>1, <1>2, <1>3, <1>4

(* The mountpoints of the list, while the program runs.                    *)
LEMMA ListedMountpoints ==
  ASSUME LInv, ~ended
  PROVE  /\ \A m : GetMountpointByDevicePathname(m) # 0 => array[GetMountpointByDevicePathname(m)] \in MountpointsOf
         /\ \A d : GetMountpointByIndex(d) # 0 => /\ array[GetMountpointByIndex(d)] \in MountpointsOf
                                                 /\ Home[array[GetMountpointByIndex(d)].medium] = d
                                                 /\ array[GetMountpointByIndex(d)].medium \in Listed
                                                 /\ GetMountpointByIndex(d) \in 1..size
         /\ Listed \subseteq Media
  <1>1. Types /\ TodosOK
    BY DEF LInv
  <1>2. MountpointsTo(Known) \subseteq MountpointsOf
    BY <1>1, HandFacts DEF MountpointsTo, MountpointsOf
  <1>4. \A d : GetMountpointByIndex(d) # 0 => /\ Home[array[GetMountpointByIndex(d)].medium] = d
                                              /\ GetMountpointByIndex(d) \in 1..size
    BY <1>1, ListFacts, Found
  <1>5. \A d : GetMountpointByIndex(d) # 0 => array[GetMountpointByIndex(d)].medium \in Listed
    BY <1>4 DEF Listed
  <1>6. Listed \subseteq Media
    BY <1>1, ListFacts DEF Listed, MountpointsTo
  <1> QED  BY <1>1, <1>2, <1>4, <1>5, <1>6, ListFacts

(* The files of the drives, and what unmountAll ranges over.               *)
LEMMA SlotsTyped ==
  ASSUME LInv
  PROVE  /\ \A d \in Drives : slot[d] \in Slottable
         /\ \A t \in Threads : /\ ranged[t].len \in Nat
                               /\ \A i \in 1..ranged[t].len :
                                     heap[ranged[t].at][i] \in MountpointsOf \union {None}
  <1>1. Types /\ TodosOK
    BY DEF LInv
  <1>2. ASSUME NEW t \in Threads
        PROVE  /\ ranged[t].len \in Nat
               /\ \A i \in 1..ranged[t].len : heap[ranged[t].at][i] \in MountpointsOf \union {None}
    <2>1. /\ ranged[t].len \in Nat /\ ranged[t].at \in 1..Len(heap)
          /\ ranged[t].len <= Len(heap[ranged[t].at])
      BY <1>1 DEF Types, Within, Slices
    <2>2. heap[ranged[t].at] \in Seq(MountpointsTo(Known) \union {None})
      BY <1>1, <2>1 DEF Types
    <2>3. MountpointsTo(Known) \subseteq MountpointsOf
      BY <1>1, HandFacts DEF MountpointsTo, MountpointsOf
    <2>4. Len(heap[ranged[t].at]) \in Nat
      BY <2>2, LenProperties
    <2> QED  BY <2>1, <2>2, <2>3, <2>4, ElementOfSeq
  <1> QED  BY <1>1, <1>2 DEF Types

(* The next step of a goroutine that spares the devices, and the others.   *)
LEMMA SpareNow ==
  ASSUME LInv, NEW may, Allowed(may), NEW t \in Threads, todo[t] \in Seq(Sparing(may)), todo[t] # <<>>
  PROVE  /\ Now(t) \in Sparing(may) /\ Later(t) \in Seq(Sparing(may))
         /\ Now(t).do \in Loops => Later(t) \in Seq(Calm(may))
  <1>1. Now(t) \in Sparing(may) /\ Later(t) \in Seq(Sparing(may))
    BY DEF Now, Later
  <1>2. ASSUME Now(t).do \in Loops PROVE Later(t) \in Seq(Calm(may))
    <2>2. Later(t) \in Seq(Simple(Known))
      <3>1. Types /\ TodosOK
        BY DEF LInv
      <3>2. Now(t) \notin Firsts(Known)
        BY <1>2 DEF Firsts, Loops
      <3>3. \A m, n : /\ Now(t) # Mount(m) /\ Now(t) # Unmount([medium |-> m, n |-> 0], FALSE)
                      /\ Now(t) # Add([medium |-> m, n |-> n]) /\ Now(t) # Grow([medium |-> m, n |-> n])
        BY <1>2 DEF Loops, Mount, Unmount, Add, Grow
      <3> QED  BY <1>2, <3>1, <3>2, <3>3, NowCases
    <2>3. Simple(Known) \intersect Sparing(may) \subseteq Calm(may)
      <3>1. \A s \in Simple(Known) :
              s.do \notin {"detach", "attach", "free", "source", "target", "copy",
                           "add", "grow", "unlist", "load", "delete", "mount", "hdStart"}
        BY DEF Simple
      <3> QED  BY <3>1, SpareKinds
    <2>4. \A i \in 1..Len(Later(t)) : Later(t)[i] \in Simple(Known) /\ Later(t)[i] \in Sparing(may)
      BY <1>1, <2>2
    <2>5. Len(Later(t)) \in Nat /\ Later(t) \in [1..Len(Later(t)) -> Sparing(may)]
      BY <1>1, LenProperties
    <2>6. Later(t) \in [1..Len(Later(t)) -> Calm(may)]
      BY <2>3, <2>4, <2>5, Zenon
    <2> QED  BY <2>5, <2>6, SeqDef, Zenon
  <1> QED  BY <1>1, <1>2

(* A goroutine goes on, or starts, with steps that spare the devices.      *)
Spares(t, may) == \E q \in Seq(Sparing(may)) : todo' = [todo EXCEPT ![t] = q]

(* Both ways to go on from a step, and one more step in front.             *)
LEMMA SpareOn ==
  ASSUME LInv, NEW may, Allowed(may), NEW t \in Threads, todo[t] \in Seq(Sparing(may)), NEW k, Doing(t, k)
  PROVE  /\ todo[t] # <<>> /\ Now(t).do = k /\ Now(t) \in Sparing(may) /\ Later(t) \in Seq(Sparing(may))
         /\ k \in Loops => Later(t) \in Seq(Calm(may))
         /\ <<>> \o Later(t) = Later(t)
         /\ Then(t, Later(t)) => Spares(t, may)
         /\ k \in Branching /\ Then(t, Now(t).orelse) => Spares(t, may)
         /\ \A s \in Sparing(may) : Then(t, <<s>> \o Later(t)) => Spares(t, may)
         /\ \A p \in Seq(Sparing(may)) : Then(t, p \o Later(t)) => Spares(t, may)
  <1>1. todo[t] # <<>> /\ Now(t).do = k
    BY DEF Doing, Now
  <1>2. Now(t) \in Sparing(may) /\ Later(t) \in Seq(Sparing(may)) /\ (k \in Loops => Later(t) \in Seq(Calm(may)))
    BY <1>1, SpareNow
  <1>3. <<>> \o Later(t) = Later(t)
    BY <1>2, ConcatEmptySeq
  <1>4. k \in Branching => Now(t).orelse \in Seq(Sparing(may))
    BY <1>1, <1>2, SpareKinds, SpareSeqs DEF Branching
  <1>5. ASSUME NEW p \in Seq(Sparing(may)) PROVE p \o Later(t) \in Seq(Sparing(may))
    BY <1>2, SpareSeqs
  <1>6. ASSUME NEW s \in Sparing(may) PROVE <<s>> \o Later(t) \in Seq(Sparing(may))
    BY <1>5, SpareSeqs
  <1> QED  BY <1>1, <1>2, <1>3, <1>4, <1>5, <1>6 DEF Spares, Then

(* The steps that look at slots and change them.                           *)
LEMMA SpareSlotSteps ==
  ASSUME LInv, NEW may, Allowed(may), NEW t \in Threads, todo[t] \in Seq(Sparing(may)),
         LookForDetach(t) \/ DetachSlot(t) \/ LookForAttach(t) \/ AttachSlot(t)
  PROVE  Spares(t, may)
  <1>1. CASE LookForDetach(t)
    <2> DEFINE s == Clear(Now(t).d)
    <2>1. /\ Doing(t, "detach")
          /\ \/ slot[Now(t).d] = Now(t).f /\ Then(t, <<s>> \o Later(t))
             \/ Then(t, Now(t).orelse)
      BY <1>1 DEF LookForDetach, Goes
    <2>2. Now(t) \in Sparing(may) /\ Now(t).do = "detach"
      BY <2>1, SpareOn
    <2>3. slot[Now(t).d] = Now(t).f => s \in Sparing(may)
      <3>1. Now(t).d \in Drives /\ <<Now(t).d, Now(t).f>> \in may.detach
        BY <2>2, SpareKinds
      <3>2. slot[Now(t).d] = Now(t).f => Now(t).d \in may.empty
        BY <3>1 DEF Allowed
      <3> QED  BY <3>2, SpareMade, SpareSeqs
    <2> HIDE DEF s
    <2> QED  BY <2>1, <2>3, SpareOn DEF Branching
  <1>2. CASE DetachSlot(t)
    <2>1. Doing(t, "clear") /\ Then(t, Later(t))
      BY <1>2 DEF DetachSlot
    <2> QED  BY <2>1, SpareOn
  <1>3. CASE LookForAttach(t)
    <2>1. Doing(t, "attach") /\ (Then(t, <<Fill(Now(t).d, Now(t).f)>> \o Later(t)) \/ Then(t, Now(t).orelse))
      BY <1>3 DEF LookForAttach, Goes
    <2>2. Now(t) \in Sparing(may) /\ Now(t).do = "attach"
      BY <2>1, SpareOn
    <2>3. Fill(Now(t).d, Now(t).f) \in Sparing(may)
      <3>1. Now(t).d \in Drives /\ Now(t).f \in Slottable /\ <<Now(t).d, Now(t).f>> \in may.attach
        BY <2>2, SpareKinds
      <3> QED  BY <3>1, SpareMade, SpareSeqs
    <2> QED  BY <2>1, <2>3, SpareOn DEF Branching
  <1>4. CASE AttachSlot(t)
    <2>1. Doing(t, "fill") /\ Then(t, Later(t))
      BY <1>4 DEF AttachSlot
    <2> QED  BY <2>1, SpareOn
  <1> QED  BY <1>1, <1>2, <1>3, <1>4

(* The steps on mountpoints and the list.                                  *)
LEMMA SpareMountSteps ==
  ASSUME LInv, NEW may, Allowed(may), NEW t \in Threads, todo[t] \in Seq(Sparing(may)),
         \/ MountMountpoint(t) \/ LoadToAdd(t) \/ AddMountpoint(t)
         \/ UnmountMountpoint(t) \/ FindToRemove(t) \/ LoadToRemove(t) \/ RemoveMountpoint(t)
  PROVE  Spares(t, may)
  <1>1. CASE MountMountpoint(t)
    <2> DEFINE m == Now(t).m
               mp == [medium |-> m, n |-> mounts + 1]
    <2>1. /\ Doing(t, "mount")
          /\ Then(t, Later(t)) \/ Then(t, <<Unmount(mp, FALSE)>>) \/ Then(t, <<Add(mp)>>)
      BY <1>1 DEF MountMountpoint, Goes
    <2>2. m \in may.media /\ m \in Media /\ may.unmount = MountpointsOf
      <3>1. Now(t) \in Sparing(may) /\ Now(t).do = "mount"
        BY <2>1, SpareOn
      <3> QED  BY <3>1, SpareKinds DEF Allowed
    <2>3. mounts \in Nat
      BY DEF LInv, Types
    <2>4. mp \in MountpointsOf /\ mp.medium \in may.media
      BY <2>2, <2>3 DEF MountpointsOf
    <2> HIDE DEF mp
    <2>5. Unmount(mp, FALSE) \in Sparing(may) /\ Add(mp) \in Sparing(may)
      BY <2>2, <2>4, SpareMade, SpareSeqs
    <2>6. <<Unmount(mp, FALSE)>> \in Seq(Sparing(may)) /\ <<Add(mp)>> \in Seq(Sparing(may))
      BY <2>5, SpareSeqs
    <2> QED  BY <2>1, <2>6, SpareOn DEF Spares, Then
  <1>2. CASE AddMountpoint(t)
    <2> DEFINE mp == Now(t).mp
               m == mp.medium
               k == Kind[Home[m]]
               f == IF m \in Dirs THEN m ELSE Default[m]
               back == <<Unmount(mp, TRUE)>> \o After(k)
               s == Attach(Home[m], f, back)
    <2>1. Doing(t, "grow") /\ (Then(t, <<>>) \/ Then(t, (Before(k) \o <<s>>) \o After(k)))
      BY <1>2 DEF AddMountpoint, AttachDefault
    <2>2. mp \in MountpointsOf /\ mp \in may.unmount /\ m \in may.media
      <3>1. Now(t) \in Sparing(may) /\ Now(t).do = "grow"
        BY <2>1, SpareOn
      <3> QED  BY <3>1, SpareKinds
    <2>3. m \in Media /\ Home[m] \in Drives /\ f \in Slottable /\ <<Home[m], f>> \in may.attach
      <3>1. m \in Media /\ Home[m] \in Drives
        BY <2>2, FilesFacts DEF MountpointsOf
      <3>2. f \in FilesOf(m) \union {None, Missing} /\ f \in Slottable
        BY <3>1, MediaSpare
      <3> QED  BY <2>2, <3>1, <3>2 DEF Allowed
    <2>4. back \in Seq(Calm(may))
      <3>1. <<Unmount(mp, TRUE)>> \in Seq(Calm(may))
        BY <2>2, SpareMade, SpareSeqs
      <3> QED  BY <3>1, SpareBrackets, SpareSeqs
    <2> HIDE DEF back, f, k
    <2>5. <<s>> \in Seq(Sparing(may))
      BY <2>3, <2>4, SpareMade, SpareSeqs
    <2> HIDE DEF s
    <2>6. (Before(k) \o <<s>>) \o After(k) \in Seq(Sparing(may))
      BY <2>5, SpareBrackets, SpareSeqs
    <2> QED  BY <2>1, <2>6, SpareSeqs DEF Spares, Then
  <1>3. CASE UnmountMountpoint(t)
    <2> DEFINE s == Unlist(Now(t).mp)
    <2>1. /\ Doing(t, "unmount")
          /\ \/ Then(t, Later(t)) \/ Then(t, <<>> \o Later(t)) \/ Then(t, <<s>> \o Later(t))
      BY <1>3 DEF UnmountMountpoint, Goes
    <2>2. s \in Sparing(may)
      <3>1. Now(t) \in Sparing(may) /\ Now(t).do = "unmount"
        BY <2>1, SpareOn
      <3> QED  BY <3>1, SpareKinds, SpareMade
    <2> HIDE DEF s
    <2> QED  BY <2>1, <2>2, SpareOn
  <1>4. CASE RemoveMountpoint(t)
    <2>1. Doing(t, "delete") /\ Then(t, Later(t))
      BY <1>4 DEF RemoveMountpoint
    <2> QED  BY <2>1, SpareOn
  <1>5. CASE LoadToAdd(t)
    <2> DEFINE s == Grow(Now(t).mp)
    <2>1. Doing(t, "add") /\ Then(t, <<s>>)
      BY <1>5 DEF LoadToAdd
    <2>2. s \in Sparing(may)
      <3>1. Now(t) \in Sparing(may) /\ Now(t).do = "add"
        BY <2>1, SpareOn
      <3> QED  BY <3>1, SpareKinds, SpareMade
    <2> HIDE DEF s
    <2>3. <<s>> \in Seq(Sparing(may))
      BY <2>2, SpareSeqs
    <2> QED  BY <2>1, <2>3 DEF Spares, Then
  <1>6. CASE FindToRemove(t)
    <2> DEFINE i == FindMountpoint(Now(t).mp)
               s == Load(Now(t).mp, i)
    <2>1. Doing(t, "unlist") /\ (Then(t, Later(t)) \/ (i # 0 /\ Then(t, <<s>> \o Later(t))))
      BY <1>6 DEF FindToRemove, Goes
    <2>2. i # 0 => s \in Sparing(may)
      <3>1. Now(t) \in Sparing(may) /\ Now(t).do = "unlist"
        BY <2>1, SpareOn
      <3>2. ~ended /\ Types /\ TodosOK
        BY <2>1 DEF Doing, LInv
      <3>3. i # 0 => i \in Nat \ {0}
        BY <3>2, ListFacts, Found
      <3> QED  BY <3>1, <3>3, SpareKinds, SpareMade
    <2> HIDE DEF s
    <2> QED  BY <2>1, <2>2, SpareOn
  <1>7. CASE LoadToRemove(t)
    <2> DEFINE s == Delete(Now(t).mp, Now(t).i)
    <2>1. Doing(t, "load") /\ (Then(t, <<s>> \o Later(t)) \/ Then(t, <<Panic>> \o Later(t)))
      BY <1>7 DEF LoadToRemove, Goes
    <2>2. s \in Sparing(may) /\ Panic \in Sparing(may)
      <3>1. Now(t) \in Sparing(may) /\ Now(t).do = "load"
        BY <2>1, SpareOn
      <3> QED  BY <3>1, SpareKinds, SpareMade, SpareSeqs
    <2> HIDE DEF s, Panic
    <2> QED  BY <2>1, <2>2, SpareOn
  <1> QED  BY <1>1, <1>2, <1>3, <1>4, <1>5, <1>6, <1>7

(* A drive without a device's file that is there may be emptied.           *)
LEMMA EmptySpares ==
  ASSUME LInv, NEW may, Allowed(may), NEW d \in Drives, slot[d] \notin currentFiles, NEW q \in Seq(Calm(may))
  PROVE  Detach(d, slot[d], q) \in Sparing(may)
  <1>1. slot[d] \in Slottable /\ <<d, slot[d]>> \in may.detach
    BY SlotsTyped DEF Allowed
  <1> QED  BY <1>1, SpareMade

(* A loop comes to a mountpoint.                                           *)
Expands(t) ==
    \/ UnmountNext(t) /\ GetMountpointByIndex(Now(t).d) # 0
    \/ UnmountEach(t) /\ Now(t).i <= ranged[t].len /\ heap[ranged[t].at][Now(t).i] # None

(* That mountpoint.                                                        *)
Expanded(t) == IF Now(t).do = "index" THEN array[GetMountpointByIndex(Now(t).d)]
               ELSE heap[ranged[t].at][Now(t).i]

(* The loops of the commands.                                              *)
LEMMA SpareLoopSteps ==
  ASSUME LInv, NEW may, Allowed(may), NEW t \in Threads, todo[t] \in Seq(Sparing(may)),
         may.unmount = MountpointsOf \/ (Expands(t) => Expanded(t) \in may.unmount),
         DetachMountpointROM(t) \/ FreeFile(t) \/ EjectNext(t) \/ InsertNext(t) \/ UnmountNext(t)
  PROVE  Spares(t, may)
  <1>0. \A d \in Drives : slot[d] \in Slottable
    BY SlotsTyped
  <1>1. CASE DetachMountpointROM(t)
    <2> DEFINE s == Detach(Now(t).d, slot[Now(t).d], Later(t))
    <2>1. /\ Doing(t, "rom")
          /\ \/ slot[Now(t).d] \in FilesOf(Now(t).mp.medium) /\ Then(t, <<s>> \o Later(t))
             \/ Then(t, Later(t))
      BY <1>1 DEF DetachMountpointROM, Goes
    <2>2. Now(t).d \in Drives /\ Later(t) \in Seq(Calm(may)) /\ Now(t).mp.medium \in Media
      <3>1. Now(t) \in Sparing(may) /\ Now(t).do = "rom" /\ Later(t) \in Seq(Calm(may))
        BY <2>1, SpareOn DEF Loops
      <3> QED  BY <3>1, SpareKinds DEF MountpointsOf
    <2>3. slot[Now(t).d] \in FilesOf(Now(t).mp.medium) => s \in Sparing(may)
      <3>1. slot[Now(t).d] \in FilesOf(Now(t).mp.medium) => slot[Now(t).d] \in Slottable \ Devices
        BY <2>2, MediaSpare
      <3> QED  BY <2>2, <3>1, SpareMade
    <2> HIDE DEF s
    <2> QED  BY <2>1, <2>3, SpareOn
  <1>2. CASE FreeFile(t)
    <2> DEFINE ds == IF Now(t).k = "HD" THEN {DrivesOf("HD")[1]} ELSE ToSet(DrivesOf(Now(t).k))
               holding == {d \in ds : slot[d] = Now(t).f}
               first == CHOOSE d \in holding : \A e \in holding : d <= e
               s == Detach(first, Now(t).f, Now(t).orelse)
    <2>1. Doing(t, "free") /\ (Then(t, Later(t)) \/ (holding # {} /\ Then(t, <<s>> \o Later(t))))
      BY <1>2 DEF FreeFile, Goes
    <2>2. /\ Now(t).f \in Slottable \ Devices /\ Now(t).k \in {Kind[d] : d \in Drives}
          /\ Now(t).orelse \in Seq(Calm(may))
      <3>1. Now(t) \in Sparing(may) /\ Now(t).do = "free"
        BY <2>1, SpareOn
      <3> QED  BY <3>1, SpareKinds
    <2>3. ds \subseteq Drives
      <3>1. PICK d \in Drives : Now(t).k = Kind[d]
        BY <2>2
      <3>2. /\ ToSet(DrivesOf(Now(t).k)) \subseteq Drives /\ Len(DrivesOf(Now(t).k)) > 0
            /\ DrivesOf(Now(t).k) \in Seq(Drives)
        BY <3>1, DrivesFacts
      <3>3. DrivesOf(Now(t).k)[1] \in Drives
        BY <3>2
      <3> QED  BY <3>2, <3>3
    <2>4. holding # {} => first \in Drives
      <3>1. holding \in SUBSET Nat
        BY <2>3 DEF Drives
      <3>2. first = Min(holding)
        BY DEF Min
      <3>3. holding # {} => Min(holding) \in holding
        <4> HIDE DEF holding
        <4> QED  BY <3>1, LeastNumber
      <3> QED  BY <2>3, <3>2, <3>3
    <2> HIDE DEF first, holding
    <2>5. holding # {} => s \in Sparing(may)
      BY <2>2, <2>4, SpareMade
    <2> HIDE DEF s
    <2> QED  BY <2>1, <2>5, SpareOn
  <1>3. CASE EjectNext(t)
    <2> DEFINE s == Detach(Now(t).d, slot[Now(t).d], <<>>)
    <2>1. /\ Doing(t, "eject")
          /\ \/ slot[Now(t).d] \notin currentFiles /\ Then(t, <<s>> \o Later(t))
             \/ Then(t, <<>> \o Later(t))
      BY <1>3 DEF EjectNext, Goes, HasFile
    <2>2. slot[Now(t).d] \notin currentFiles => s \in Sparing(may)
      <3>1. Now(t) \in Sparing(may) /\ Now(t).do = "eject"
        BY <2>1, SpareOn
      <3>2. Now(t).d \in Drives
        BY <3>1, SpareKinds
      <3>3. <<>> \in Seq(Calm(may))
        OBVIOUS
      <3> QED  BY <3>2, <3>3, EmptySpares
    <2> HIDE DEF s
    <2> QED  BY <2>1, <2>2, SpareOn
  <1>4. CASE InsertNext(t)
    <2> DEFINE s == Detach(Now(t).d, slot[Now(t).d], <<>>)
               r == Attach(Now(t).d, Now(t).f, <<>>)
    <2>1. /\ Doing(t, "insert")
          /\ \/ Then(t, <<>> \o Later(t)) \/ Then(t, (<<>> \o <<r>>) \o Later(t))
             \/ slot[Now(t).d] \notin currentFiles /\ Then(t, (<<s>> \o <<r>>) \o Later(t))
      BY <1>4 DEF InsertNext, Goes, MakeRoom, HasFile
    <2>2. (slot[Now(t).d] \notin currentFiles => s \in Sparing(may)) /\ r \in Sparing(may)
      <3>1. Now(t) \in Sparing(may) /\ Now(t).do = "insert"
        BY <2>1, SpareOn
      <3>2. Now(t).d \in Drives /\ Now(t).f \in Slottable /\ <<Now(t).d, Now(t).f>> \in may.attach
        BY <3>1, SpareKinds
      <3> QED  BY <3>2, EmptySpares, SpareMade, SpareSeqs
    <2> HIDE DEF s, r
    <2>3. /\ <<>> \o <<r>> \in Seq(Sparing(may))
          /\ slot[Now(t).d] \notin currentFiles => <<s>> \o <<r>> \in Seq(Sparing(may))
      BY <2>2, SpareSeqs
    <2> QED  BY <2>1, <2>3, SpareOn
  <1>5. CASE UnmountNext(t)
    <2> DEFINE mp == array[GetMountpointByIndex(Now(t).d)]
               ds == DrivesOf(Kind[Now(t).d])
               roms == [j \in 1..Len(ds) |-> DetachROM(ds[j], mp)]
    <2>1. Doing(t, "index")
      BY <1>5 DEF UnmountNext
    <2>2. CASE GetMountpointByIndex(Now(t).d) = 0
      <3>1. Then(t, <<>> \o Later(t))
        BY <1>5, <2>2 DEF UnmountNext, Goes
      <3> QED  BY <2>1, <3>1, SpareOn
    <2>3. CASE GetMountpointByIndex(Now(t).d) # 0
      <3>1. Then(t, (roms \o <<Unmount(mp, TRUE)>>) \o Later(t))
        BY <1>5, <2>3 DEF UnmountNext, Goes
      <3>2. mp \in may.unmount
        <4>1. Now(t).do = "index" /\ ~ended
          BY <2>1, SpareOn DEF Doing
        <4> QED  BY <1>5, <2>3, <4>1, ListedMountpoints DEF Expands, Expanded
      <3>3. ds \in Seq(Drives)
        <4>1. Now(t) \in Sparing(may) /\ Now(t).do = "index"
          BY <2>1, SpareOn
        <4> QED  BY <4>1, SpareKinds, DrivesFacts
      <3> HIDE DEF mp, ds
      <3>4. roms \in Seq(Calm(may))
        <4>1. Len(ds) \in Nat /\ \A j \in 1..Len(ds) : ds[j] \in Drives
          BY <3>3, LenProperties
        <4>2. \A j \in 1..Len(ds) : DetachROM(ds[j], mp) \in Calm(may)
          BY <3>2, <4>1, SpareMade
        <4> QED  BY <4>1, <4>2
      <3>5. <<Unmount(mp, TRUE)>> \in Seq(Calm(may))
        BY <3>2, SpareMade, SpareSeqs
      <3> HIDE DEF roms
      <3>6. roms \o <<Unmount(mp, TRUE)>> \in Seq(Sparing(may))
        BY <3>4, <3>5, SpareSeqs
      <3> QED  BY <2>1, <3>1, <3>6, SpareOn
    <2> QED  BY <2>2, <2>3
  <1> QED  BY <1>1, <1>2, <1>3, <1>4, <1>5

(* unmountAll, the rerun flag, and the end.                                *)
LEMMA SpareAllSteps ==
  ASSUME LInv, NEW may, Allowed(may), NEW t \in Threads, todo[t] \in Seq(Sparing(may)),
         may.unmount = MountpointsOf \/ (Expands(t) => Expanded(t) \in may.unmount),
         "each" \in may.loops \/ ~BeginRound(t),
         BeginRound(t) \/ UnmountEach(t) \/ ReportUnmounted(t) \/ SetRerunEmulator(t) \/ End(t)
  PROVE  Spares(t, may)
  <1>1. CASE BeginRound(t)
    <2> DEFINE s == Each(1, Now(t).r)
    <2>1. Doing(t, "round") /\ Then(t, <<s>> \o Later(t))
      BY <1>1 DEF BeginRound
    <2>2. s \in Sparing(may)
      <3>1. Now(t) \in Sparing(may) /\ Now(t).do = "round"
        BY <2>1, SpareOn
      <3>2. Now(t).r \in Nat
        BY <3>1, SpareKinds
      <3>3. \A i \in Nat \ {0} : Each(i, Now(t).r) \in Calm(may)
        BY <1>1, <3>2, LoopsMade
      <3> QED  BY <3>3, SpareSeqs
    <2> HIDE DEF s
    <2> QED  BY <2>1, <2>2, SpareOn
  <1>2. CASE UnmountEach(t)
    <2> DEFINE mp == heap[ranged[t].at][Now(t).i]
               roms == [j \in 1..AllDrives |-> DetachROM(DriveSeq[j], mp)]
               one == Unmount(mp, TRUE)
               two == Each(Now(t).i + 1, Now(t).r)
    <2>1. Doing(t, "each")
      BY <1>2 DEF UnmountEach
    <2>2. Now(t).i \in Nat \ {0} /\ Now(t).r \in Nat /\ {"round", "each"} \subseteq may.loops
      <3>1. Now(t) \in Sparing(may) /\ Now(t).do = "each"
        BY <2>1, SpareOn
      <3>2. Now(t).i \in Nat \ {0} /\ Now(t).r \in Nat /\ "each" \in may.loops
        BY <3>1, SpareKinds DEF UnmountLoops
      <3> QED  BY <3>2 DEF Allowed
    <2>3. CASE Now(t).i <= ranged[t].len /\ mp = None
      <3>1. Then(t, <<Panic>> \o Later(t))
        BY <1>2, <2>3 DEF UnmountEach, Goes
      <3>2. Panic \in Sparing(may)
        BY SpareMade, SpareSeqs
      <3> QED  BY <2>1, <3>1, <3>2, SpareOn
    <2>4. CASE Now(t).i <= ranged[t].len /\ mp # None
      <3>1. Then(t, (roms \o <<one, two>>) \o Later(t))
        BY <1>2, <2>4 DEF UnmountEach, Goes
      <3>2. mp \in may.unmount
        <4>1. ranged[t].len \in Nat
          BY SlotsTyped
        <4>2. Now(t).i \in 1..ranged[t].len
          BY <2>2, <2>4, <4>1
        <4>3. mp \in MountpointsOf \union {None}
          BY <4>2, SlotsTyped
        <4>4. Now(t).do = "each"
          BY <2>1, SpareOn
        <4> QED  BY <1>2, <2>4, <4>3, <4>4 DEF Expands, Expanded
      <3> HIDE DEF mp
      <3>3. roms \in Seq(Calm(may))
        <4>1. AllDrives \in Nat /\ \A j \in 1..AllDrives : DriveSeq[j] \in Drives
          BY DrivesFacts
        <4>2. \A j \in 1..AllDrives : DetachROM(DriveSeq[j], mp) \in Calm(may)
          BY <3>2, <4>1, SpareMade
        <4> QED  BY <4>1, <4>2
      <3>4. one \in Calm(may) /\ two \in Calm(may)
        <4>1. Now(t).i + 1 \in Nat \ {0}
          BY <2>2
        <4> QED  BY <2>2, <3>2, <4>1, SpareMade, LoopsMade
      <3> HIDE DEF roms, one, two
      <3>5. roms \o <<one, two>> \in Seq(Sparing(may))
        BY <3>3, <3>4, SpareSeqs
      <3> QED  BY <2>1, <3>1, <3>5, SpareOn
    <2>5. CASE ~(Now(t).i <= ranged[t].len)
      <3> DEFINE s == Round(Now(t).r + 1)
      <3>1. Then(t, <<>> \o Later(t)) \/ Then(t, <<s>> \o Later(t))
        BY <1>2, <2>5 DEF UnmountEach
      <3>2. s \in Sparing(may)
        <4>1. Now(t).r + 1 \in Nat
          BY <2>2
        <4> QED  BY <2>2, <4>1, LoopsMade, SpareSeqs
      <3> HIDE DEF s
      <3> QED  BY <2>1, <3>1, <3>2, SpareOn
    <2> QED  BY <2>3, <2>4, <2>5
  <1>3. CASE ReportUnmounted(t) \/ SetRerunEmulator(t) \/ End(t)
    <2>1. \E k : Doing(t, k) /\ Then(t, Later(t))
      BY <1>3 DEF ReportUnmounted, SetRerunEmulator, End, Goes
    <2> QED  BY <2>1, SpareOn
  <1> QED  BY <1>1, <1>2, <1>3

(* The disk copy.                                                          *)
LEMMA SpareCopySteps ==
  ASSUME LInv, NEW may, Allowed(may), NEW t \in Threads, todo[t] \in Seq(Sparing(may)),
         TakeSource(t) \/ TakeTarget(t) \/ Copy(t)
  PROVE  Spares(t, may)
  <1>0. ASSUME NEW k \in {"source", "target", "copy"}, Doing(t, k)
        PROVE  /\ Now(t) \in Sparing(may) /\ Now(t).do = k /\ Later(t) \in Seq(Sparing(may))
               /\ Now(t).s \in Drives
               /\ Now(t).s \in may.copy /\ Now(t).t \in may.copy \union {Beyond}
               /\ k = "copy" => Now(t).t \in Drives
               /\ Now(t).orelse \in Seq(Calm(may))
    <2>1. Now(t) \in Sparing(may) /\ Now(t).do = k /\ Later(t) \in Seq(Sparing(may))
      BY <1>0, SpareOn
    <2>2. /\ Now(t).s \in may.copy /\ Now(t).t \in may.copy \union {Beyond}
          /\ k = "copy" => Now(t).t \in may.copy
          /\ Now(t).orelse \in Seq(Calm(may))
      BY <2>1, SpareKinds
    <2> QED  BY <2>1, <2>2 DEF Allowed
  <1>1. ASSUME NEW d \in may.copy, NEW q \in Seq(Calm(may))
        PROVE  slot[d] \in Slottable /\ <<d, slot[d]>> \in may.attach /\ Detach(d, slot[d], q) \in Sparing(may)
    <2>1. d \in Drives /\ slot[d] \in Slottable /\ <<d, slot[d]>> \in may.attach /\ <<d, slot[d]>> \in may.detach
      BY SlotsTyped DEF Allowed
    <2> QED  BY <2>1, SpareMade
  <1>2. CASE TakeSource(t)
    <2> DEFINE s == Now(t).s
               f == slot[s]
               q == Now(t).orelse
               a == Detach(s, f, q)
               b == CopyTarget(s, f, Now(t).t, q)
    <2>1. Doing(t, "source") /\ (Then(t, Now(t).orelse) \/ Then(t, <<a, b>> \o Later(t)))
      BY <1>2 DEF TakeSource, Goes
    <2>2. s \in may.copy /\ Now(t).t \in may.copy \union {Beyond} /\ q \in Seq(Calm(may)) /\ Later(t) \in Seq(Sparing(may))
      BY <1>0, <2>1
    <2>3. a \in Sparing(may) /\ b \in Sparing(may)
      <3>1. f \in Slottable /\ <<s, f>> \in may.attach /\ a \in Sparing(may)
        BY <1>1, <2>2
      <3> QED  BY <2>2, <3>1, CopyMade
    <2> HIDE DEF a, b
    <2>4. <<a, b>> \in Seq(Sparing(may))
      BY <2>3, SpareSeqs
    <2> QED  BY <2>1, <2>4, SpareOn DEF Branching
  <1>3. CASE TakeTarget(t)
    <2> DEFINE u == Now(t).t
               g == slot[u]
               q == Now(t).orelse
               a == Detach(u, g, q)
               b == CopyFile(Now(t).s, Now(t).f, u, g, q)
    <2>1. /\ Doing(t, "target")
          /\ \/ Then(t, Now(t).orelse) \/ Then(t, <<Panic>> \o Later(t))
             \/ u # Beyond /\ Then(t, <<a, b>> \o Later(t))
      BY <1>3 DEF TakeTarget, Goes
    <2>2. Now(t).s \in may.copy /\ u \in may.copy \union {Beyond} /\ q \in Seq(Calm(may)) /\ Later(t) \in Seq(Sparing(may))
      BY <1>0, <2>1
    <2>5. Panic \in Sparing(may)
      BY SpareMade, SpareSeqs
    <2>3. ASSUME u # Beyond PROVE a \in Sparing(may) /\ b \in Sparing(may)
      <3>1. u \in may.copy /\ g \in Slottable /\ <<u, g>> \in may.attach /\ a \in Sparing(may)
        BY <1>1, <2>2, <2>3
      <3>2. Now(t).f \in Slottable /\ <<Now(t).s, Now(t).f>> \in may.attach
        <4>1. Now(t) \in Sparing(may) /\ Now(t).do = "target"
          BY <2>1, SpareOn
        <4> QED  BY <4>1, SpareKinds
      <3> QED  BY <2>2, <3>1, <3>2, CopyMade
    <2> HIDE DEF a, b, Panic
    <2>4. u # Beyond => <<a, b>> \in Seq(Sparing(may))
      BY <2>3, SpareSeqs
    <2> QED  BY <2>1, <2>4, <2>5, SpareOn DEF Branching
  <1>4. CASE Copy(t)
    <2> DEFINE q == Now(t).orelse
               a == Attach(Now(t).s, Now(t).f, q)
               b == Attach(Now(t).t, Now(t).g, q)
    <2>1. Doing(t, "copy") /\ (Then(t, Now(t).orelse) \/ Then(t, <<a, b>> \o Later(t)))
      BY <1>4 DEF Copy, Goes
    <2>2. /\ Now(t) \in Sparing(may) /\ Now(t).do = "copy" /\ q \in Seq(Calm(may)) /\ Later(t) \in Seq(Sparing(may))
          /\ Now(t).s \in Drives /\ Now(t).t \in Drives
      BY <1>0, <2>1
    <2>3. a \in Sparing(may) /\ b \in Sparing(may)
      <3>1. /\ Now(t).f \in Slottable /\ <<Now(t).s, Now(t).f>> \in may.attach
            /\ Now(t).g \in Slottable /\ <<Now(t).t, Now(t).g>> \in may.attach
        BY <2>2, SpareKinds
      <3> QED  BY <2>2, <3>1, SpareMade
    <2> HIDE DEF a, b
    <2>4. <<a, b>> \in Seq(Sparing(may))
      BY <2>3, SpareSeqs
    <2> QED  BY <2>1, <2>4, SpareOn DEF Branching
  <1> QED  BY <1>2, <1>3, <1>4

(* Whatever a goroutine does next, it does only what it may.               *)
LEMMA SpareWork ==
  ASSUME LInv, NEW may, Allowed(may), NEW t \in Threads, todo[t] \in Seq(Sparing(may)), Work(t),
         may.unmount = MountpointsOf \/ (Expands(t) => Expanded(t) \in may.unmount),
         "each" \in may.loops \/ ~BeginRound(t)
  PROVE  Spares(t, may)
  BY SpareSlotSteps, SpareMountSteps, SpareLoopSteps, SpareAllSteps, SpareCopySteps DEF Work

-----------------------------------------------------------------------------
(* What the others start with.                                             *)

(* The file in the target drive goes first.                                *)
LEMMA RoomSpares ==
  ASSUME LInv, NEW may, Allowed(may), NEW d \in Drives, slot[d] \notin currentFiles,
         NEW q \in Seq(Calm(may))
  PROVE  MakeRoom(d, q) \in Seq(Sparing(may))
  <1> DEFINE s == Detach(d, slot[d], q)
  <1>1. s \in Sparing(may)
    BY EmptySpares
  <1>2. MakeRoom(d, q) \in {<<>>, <<s>>}
    BY DEF MakeRoom
  <1> HIDE DEF s
  <1> QED  BY <1>1, <1>2, SpareSeqs

(* ??InsertFromSourceIndexToTargetIndex and its like for a disk number.    *)
LEMMA InsertSpares ==
  ASSUME LInv, ~ended, NEW may, Allowed(may), Listed \subseteq may.media, NEW t, NEW s \in Drives, NEW d \in Drives,
         InsertFromSourceIndexToTargetIndex(t, s, d) \/ InsertByDiskNo(t, s, d)
  PROVE  \E q \in Seq(Sparing(may)) : Command(t, q)
  <1> DEFINE i == GetMountpointByIndex(s)
             m == array[i].medium
  <1>1. i # 0 /\ Kind[d] = Kind[s] =>
          ToSet(Files[m]) \subseteq {f \in Slottable \ Devices : <<d, f>> \in may.attach}
    <2>1. i # 0 => m \in Media /\ Home[m] = s /\ m \in may.media
      BY ListedMountpoints DEF MountpointsOf
    <2> QED  BY <2>1, MediaSpare DEF Allowed
  <1>2. \A q \in Seq(Calm(may)), k \in {Kind[c] : c \in Drives}, f \in Slottable \ Devices :
          <<d, f>> \in may.attach => <<Free(f, k, q), Attach(d, f, q)>> \in Seq(Sparing(may))
    <2> SUFFICES ASSUME NEW q \in Seq(Calm(may)), NEW k \in {Kind[c] : c \in Drives}, NEW f \in Slottable \ Devices,
                        <<d, f>> \in may.attach
                 PROVE  <<Free(f, k, q), Attach(d, f, q)>> \in Seq(Sparing(may))
      OBVIOUS
    <2>1. Free(f, k, q) \in Sparing(may) /\ Attach(d, f, q) \in Sparing(may)
      BY SpareMade
    <2> QED  BY <2>1, SpareSeqs
  <1>3. CASE InsertFromSourceIndexToTargetIndex(t, s, d)
    <2> DEFINE k == Kind[s]
               known == i # 0 /\ m \notin Dirs
               insert(f) == IF ~known THEN <<Panic>>
                            ELSE IF f = None THEN <<>>
                            ELSE <<Free(f, k, After(k)), Attach(d, f, After(k))>>
               p(f) == IF HasFile(slot[d]) THEN <<>> ELSE MakeRoom(d, After(k)) \o insert(f)
    <2>0. Kind[d] = Kind[s]
      BY <1>3 DEF InsertFromSourceIndexToTargetIndex
    <2>1. PICK f \in IF known THEN ToSet(Files[m]) \union {None} ELSE {None} :
            Command(t, (Before(k) \o p(f)) \o After(k))
      BY <1>3 DEF InsertFromSourceIndexToTargetIndex
    <2>2. insert(f) \in Seq(Sparing(may))
      <3>1. <<Panic>> \in Seq(Sparing(may))
        BY SpareMade, SpareSeqs
      <3>2. ASSUME known, f # None
            PROVE  <<Free(f, k, After(k)), Attach(d, f, After(k))>> \in Seq(Sparing(may))
        <4>1. f \in Slottable \ Devices /\ <<d, f>> \in may.attach
          BY <1>1, <2>0, <2>1, <3>2
        <4>2. After(k) \in Seq(Calm(may)) /\ k \in {Kind[c] : c \in Drives}
          BY SpareBrackets
        <4> QED  BY <1>2, <4>1, <4>2
      <3> QED  BY <3>1, <3>2, SpareSeqs
    <2> HIDE DEF insert, k
    <2>3. p(f) \in Seq(Sparing(may))
      <3>1. ~HasFile(slot[d]) => MakeRoom(d, After(k)) \in Seq(Sparing(may))
        BY RoomSpares, SpareBrackets DEF HasFile
      <3> QED  BY <2>2, <3>1, SpareSeqs
    <2> HIDE DEF p
    <2> QED  BY <2>1, <2>3, SpareBrackets, SpareSeqs
  <1>4. CASE InsertByDiskNo(t, s, d)
    <2> DEFINE insert(f) == IF f = None THEN <<>> ELSE <<Free(f, "DF", <<>>), Attach(d, f, <<>>)>>
    <2>1. /\ i # 0 /\ Kind[s] = "DF" /\ Kind[d] = "DF" /\ ~HasFile(slot[d])
          /\ \E f \in IF slot[s] = None THEN {None} ELSE ToSet(Files[m]) \union {None} :
               Command(t, MakeRoom(d, <<>>) \o insert(f))
      BY <1>4 DEF InsertByDiskNo
    <2>2. PICK f \in IF slot[s] = None THEN {None} ELSE ToSet(Files[m]) \union {None} :
            Command(t, MakeRoom(d, <<>>) \o insert(f))
      BY <2>1
    <2>3. insert(f) \in Seq(Sparing(may))
      <3>1. ASSUME f # None PROVE <<Free(f, "DF", <<>>), Attach(d, f, <<>>)>> \in Seq(Sparing(may))
        <4>1. f \in Slottable \ Devices /\ <<d, f>> \in may.attach /\ "DF" \in {Kind[c] : c \in Drives}
          BY <1>1, <2>1, <2>2, <3>1
        <4> QED  BY <1>2, <4>1, SpareSeqs
      <3> QED  BY <3>1, SpareSeqs
    <2> HIDE DEF insert
    <2>4. MakeRoom(d, <<>>) \in Seq(Sparing(may))
      BY <2>1, RoomSpares, SpareSeqs DEF HasFile
    <2> QED  BY <2>2, <2>3, <2>4, SpareSeqs
  <1> QED  BY <1>3, <1>4

(* The commands that unmount.                                              *)
UnmountCommand(t) ==
    \/ \E d \in Drives : UnmountFromSourceIndex(t, Kind[d], fillIndexes(d))
    \/ \E k \in Kinds : UnmountFromSourceIndex(t, k, DrivesOf(k))
    \/ UnmountAll(t)

(* A command is executed while the program runs.                           *)
LEMMA KeyboardRuns ==
  ASSUME NEW t, Keyboard(t)
  PROVE  ~ended
  <1>1. \E q : Command(t, q)
    BY DEF Keyboard, InsertFromSourceIndexToTargetIndex, InsertByDiskNo, InsertToManyIndex,
           EjectFromSourceIndex, EjectFromSourceIndexAll, UnmountFromSourceIndex, UnmountAll, LowLevelCopy
  <1> QED  BY <1>1 DEF Command, Begin

(* Every other command; a disk copy only where it may be.                  *)
LEMMA OthersSpared ==
  ASSUME LInv, NEW may, Allowed(may), Listed \subseteq may.media, copies' = 0 \/ may.copy = Drives,
         NEW t \in Keyboards, Keyboard(t), ~UnmountCommand(t)
  PROVE  \E q \in Seq(Sparing(may)) : Command(t, q)
  <1>0. ~ended
    BY KeyboardRuns
  <1>1. ASSUME NEW s \in Drives, InsertToManyIndex(t, s)
        PROVE  \E q \in Seq(Sparing(may)) : Command(t, q)
    <2> DEFINE i == GetMountpointByIndex(s)
               fs == Files[array[i].medium]
               n == Len(DrivesOf("DF"))
               l == IF Len(fs) < n THEN Len(fs) ELSE n
               p == [j \in 1..l |-> InsertIndex(DrivesOf("DF")[j], fs[j])]
    <2>1. i # 0 /\ Command(t, p) /\ Kind[s] = "DF"
      BY <1>1 DEF InsertToManyIndex
    <2> DEFINE F == {f \in Slottable : \A d \in Drives : Kind[d] = "DF" => <<d, f>> \in may.attach}
    <2>2. fs \in Seq(F)
      <3>1. /\ array[i].medium \in Media /\ array[i].medium \in may.media
            /\ Kind[Home[array[i].medium]] = "DF"
        BY <1>0, <2>1, ListedMountpoints DEF MountpointsOf
      <3>2. ToSet(Files[array[i].medium]) \subseteq F
        BY <3>1, MediaSpare DEF Allowed
      <3>3. Files[array[i].medium] \in Seq(ToSet(Files[array[i].medium]))
        BY <3>1, ConstantsAssumption
      <3> HIDE DEF F
      <3> QED  BY <3>2, <3>3, SeqMonotonic
    <2>3. DrivesOf("DF") \in Seq(Drives) /\ \A j \in 1..Len(DrivesOf("DF")) : Kind[DrivesOf("DF")[j]] = "DF"
      BY DrivesFacts DEF Kinds
    <2> HIDE DEF F
    <2> HIDE DEF fs
    <2>4. l \in Nat /\ l <= Len(fs) /\ l <= n
      BY <2>2, <2>3, LenProperties
    <2>5. \A j \in 1..l : fs[j] \in F /\ DrivesOf("DF")[j] \in Drives /\ Kind[DrivesOf("DF")[j]] = "DF"
      BY <2>2, <2>3, <2>4, LenProperties
    <2> HIDE DEF l
    <2>6. \A j \in 1..l : InsertIndex(DrivesOf("DF")[j], fs[j]) \in Calm(may)
      BY <2>5, SpareMade DEF F
    <2>7. p \in Seq(Calm(may))
      BY <2>4, <2>6
    <2> HIDE DEF p
    <2> QED  BY <2>1, <2>7, SpareSeqs
  <1>2. ASSUME NEW d \in Drives, EjectFromSourceIndex(t, d)
        PROVE  \E q \in Seq(Sparing(may)) : Command(t, q)
    <2> DEFINE k == Kind[d]
               s == Detach(d, slot[d], After(k))
    <2>1. Command(t, (Before(k) \o <<s>>) \o After(k))
      BY <1>2 DEF EjectFromSourceIndex
    <2>2. s \in Sparing(may)
      BY <1>2, EmptySpares, SpareBrackets DEF EjectFromSourceIndex, HasFile
    <2> HIDE DEF s, k
    <2> QED  BY <2>1, <2>2, SpareBrackets, SpareSeqs
  <1>3. ASSUME EjectFromSourceIndexAll(t)
        PROVE  \E q \in Seq(Sparing(may)) : Command(t, q)
    <2> DEFINE ds == DrivesOf("DF")
               p == [i \in 1..Len(ds) |-> EjectIndex(ds[i])]
    <2>1. Command(t, p)
      BY <1>3 DEF EjectFromSourceIndexAll
    <2>2. ds \in Seq(Drives)
      BY DrivesFacts DEF Kinds
    <2> HIDE DEF ds
    <2>3. \A i \in 1..Len(ds) : EjectIndex(ds[i]) \in Calm(may)
      <3>1. \A d \in Drives : EjectIndex(d) \in Calm(may)
        BY LoopsMade
      <3> QED  BY <2>2, <3>1
    <2>4. p \in Seq(Calm(may))
      BY <2>2, <2>3, LenProperties
    <2> HIDE DEF p
    <2> QED  BY <2>1, <2>4, SpareSeqs
  <1>4. ASSUME NEW s \in Drives, NEW d \in Drives \union {Beyond}, LowLevelCopy(t, s, d)
        PROVE  \E q \in Seq(Sparing(may)) : Command(t, q)
    <2> DEFINE hd == "HD" \in {Kind[s], IF d = Beyond THEN "HD" ELSE Kind[d]}
               after == IF hd THEN <<HDDone>> ELSE <<>>
               before == IF after # <<>> THEN <<HDStart>> ELSE <<>>
               a == CopySource(s, d, after)
    <2>1. may.copy = Drives /\ Command(t, (before \o <<a>>) \o after)
      BY <1>4 DEF LowLevelCopy, LInv, Types
    <2>2. HDStart \in Sparing(may) /\ HDDone \in Calm(may)
      BY SpareMade
    <2> HIDE DEF HDStart, HDDone
    <2>3. before \in Seq(Sparing(may)) /\ after \in Seq(Calm(may))
      <3>1. <<HDStart>> \in Seq(Sparing(may)) /\ <<HDDone>> \in Seq(Calm(may))
        BY <2>2
      <3> QED  BY <3>1, SpareSeqs
    <2> HIDE DEF before, after
    <2>4. a \in Sparing(may)
      BY <2>1, <2>3, CopyMade
    <2> HIDE DEF a
    <2> QED  BY <2>1, <2>3, <2>4, SpareSeqs
  <1> QED  BY <1>0, <1>1, <1>2, <1>3, <1>4, InsertSpares DEF Keyboard, UnmountCommand

(* The commands that unmount one drive's medium, or those of a kind.       *)
LEMMA UnmountIndexSpares ==
  ASSUME LInv, NEW may, Allowed(may), "index" \in may.loops, NEW t, NEW k, NEW ds \in Seq(Drives),
         UnmountFromSourceIndex(t, k, ds)
  PROVE  \E q \in Seq(Sparing(may)) : Command(t, q)
  <1> DEFINE p == [i \in 1..Len(ds) |-> UnmountIndex(ds[i])]
  <1>1. Command(t, (Before(k) \o p) \o After(k))
    BY DEF UnmountFromSourceIndex
  <1>2. \A i \in 1..Len(ds) : UnmountIndex(ds[i]) \in Calm(may)
    <2>1. \A d \in Drives : UnmountIndex(d) \in Calm(may)
      BY LoopsMade
    <2> QED  BY <2>1
  <1>3. p \in Seq(Calm(may))
    BY <1>2, LenProperties
  <1> HIDE DEF p
  <1> QED  BY <1>1, <1>3, SpareBrackets, SpareSeqs

(* And the one that unmounts all.                                          *)
LEMMA UnmountsSpared ==
  ASSUME LInv, NEW may, Allowed(may), {"index", "round"} \subseteq may.loops, NEW t \in Keyboards, UnmountCommand(t)
  PROVE  \E q \in Seq(Sparing(may)) : Command(t, q)
  <1>1. ASSUME NEW k, NEW ds \in Seq(Drives), UnmountFromSourceIndex(t, k, ds)
        PROVE  \E q \in Seq(Sparing(may)) : Command(t, q)
    BY <1>1, UnmountIndexSpares
  <1>2. ASSUME UnmountAll(t)
        PROVE  \E q \in Seq(Sparing(may)) : Command(t, q)
    <2>1. HDStart \in Sparing(may) /\ {Round(1), Report, HDDone} \subseteq Sparing(may)
      BY SpareMade, LoopsMade, SpareSeqs
    <2> DEFINE s == Round(1)
    <2>2. Command(t, <<HDStart, s, Report, HDDone>>)
      BY <1>2 DEF UnmountAll
    <2> HIDE DEF s
    <2>3. s \in Sparing(may)
      BY <2>1 DEF s
    <2> HIDE DEF HDStart, Report, HDDone
    <2>4. <<HDStart, s, Report, HDDone>> \in Seq(Sparing(may))
      BY <2>1, <2>3
    <2> QED  BY <2>2, <2>4
  <1>3. \A d \in Drives : fillIndexes(d) \in Seq(Drives)
    BY DEF fillIndexes
  <1>4. \A k \in Kinds : DrivesOf(k) \in Seq(Drives)
    BY DrivesFacts
  <1> QED  BY <1>1, <1>2, <1>3, <1>4 DEF UnmountCommand

(* Every command.                                                          *)
LEMMA KeyboardSpares ==
  ASSUME LInv, NEW may, Allowed(may), may.media = Media, may.loops = UnmountLoops,
         copies' = 0 \/ may.copy = Drives, NEW t \in Keyboards, Keyboard(t)
  PROVE  \E q \in Seq(Sparing(may)) : Command(t, q)
  <1>1. Listed \subseteq may.media /\ {"index", "round"} \subseteq may.loops
    BY ListedMountpoints, KeyboardRuns DEF UnmountLoops
  <1> QED  BY <1>1, UnmountsSpared, OthersSpared

(* Without restriction all is allowed.                                     *)
LEMMA AllAllowed ==
  ASSUME LInv
  PROVE  Allowed(OthersMay)
  <1>1. /\ \A d \in Drives : slot[d] \in Slottable
        /\ \A m \in Media : FilesOf(m) \union {None, Missing} \subseteq Slottable \ Devices
    BY MediaSpare DEF LInv, Types
  <1> QED  BY <1>1 DEF Allowed, OthersMay, Anything, NoDevices, UnmountLoops

(* The poll of the block devices.                                          *)
LEMMA DetachMediumSpares ==
  ASSUME LInv, ~ended, NEW may, Allowed(may), may.detach = Anything, NEW m \in Media,
         GetMountpointByDevicePathname(m) # 0 => array[GetMountpointByDevicePathname(m)] \in may.unmount
  PROVE  DetachMedium(m) \in Seq(Sparing(may))
  <1> DEFINE i == GetMountpointByDevicePathname(m)
             d == Home[m]
             k == Kind[d]
             rest == <<Unmount(array[i], TRUE)>> \o After(k)
             s == Detach(d, slot[d], rest)
             first == IF slot[d] # None THEN <<s>> ELSE <<>>
  <1>1. CASE i = 0
    BY <1>1, SpareSeqs DEF DetachMedium
  <1>2. CASE i # 0
    <2>1. DetachMedium(m) = (Before(k) \o first) \o rest
      BY <1>2 DEF DetachMedium
    <2>2. rest \in Seq(Calm(may))
      <3>1. <<Unmount(array[i], TRUE)>> \in Seq(Calm(may))
        BY <1>2, SpareMade, SpareSeqs
      <3> QED  BY <3>1, SpareBrackets, SpareSeqs
    <2> HIDE DEF rest
    <2>3. first \in Seq(Sparing(may))
      <3>1. d \in Drives /\ slot[d] \in Slottable /\ <<d, slot[d]>> \in Anything
        BY FilesFacts, SlotsTyped DEF Anything
      <3>2. s \in Sparing(may)
        BY <2>2, <3>1, SpareMade
      <3> HIDE DEF s
      <3> QED  BY <3>2
    <2> HIDE DEF first, k
    <2> QED  BY <2>1, <2>2, <2>3, SpareBrackets, SpareSeqs
  <1> QED  BY <1>1, <1>2

LEMMA BlockDevicesSpare ==
  ASSUME LInv, ~ended, NEW may, Allowed(may), may.detach = Anything, may.unmount = MountpointsOf, may.media = Media,
         NEW m \in Media
  PROVE  DetachMedium(m) \in Seq(Sparing(may)) /\ AttachMedium(m) \in Seq(Sparing(may))
  <1>1. DetachMedium(m) \in Seq(Sparing(may))
    BY ListedMountpoints, DetachMediumSpares
  <1>2. AttachMedium(m) \in Seq(Sparing(may))
    <2> DEFINE mp == [medium |-> m, n |-> 0]
    <2>1. mp \in MountpointsOf /\ mp.medium = m
      BY DEF MountpointsOf
    <2>2. \/ AttachMedium(m) = <<>>
          \/ AttachMedium(m) = <<>> \o <<Mount(m)>>
          \/ AttachMedium(m) = <<Unmount(mp, FALSE)>> \o <<Mount(m)>>
      BY DEF AttachMedium
    <2> HIDE DEF mp
    <2>3. <<Unmount(mp, FALSE)>> \in Seq(Sparing(may)) /\ <<Mount(m)>> \in Seq(Sparing(may))
      BY <2>1, SpareMade, SpareSeqs
    <2> QED  BY <2>2, <2>3, SpareSeqs
  <1> QED  BY <1>1, <1>2

-----------------------------------------------------------------------------
(* What the others do.                                                     *)

(* A goroutine that spares the devices leaves the others as they are.      *)
LEMMA OthersKeep ==
  ASSUME LInv, OthersSpare, NEW t \in Threads \ {"discovery"}, Spares(t, OthersMay)
  PROVE  OthersSpare' /\ todo'["discovery"] = todo["discovery"]
  <1>1. PICK q \in Seq(Harmless) : todo' = [todo EXCEPT ![t] = q]
    BY DEF Spares, Harmless
  <1>2. DOMAIN todo = Threads /\ "discovery" \in Threads
    BY DEF LInv, TodosOK, Threads
  <1>3. \A u \in Threads : todo'[u] = IF u = t THEN q ELSE todo[u]
    BY <1>1, <1>2
  <1> QED  BY <1>1, <1>2, <1>3 DEF OthersSpare

(* Files that leave a drive, and files of media, do no harm.               *)
LEMMA SlotsKept ==
  ASSUME LInv, DiscoveryOK, DeviceSlots,
         todo'["discovery"] = todo["discovery"], oldFiles' = oldFiles,
         \A d \in Drives : slot'[d] = slot[d] \/ slot'[d] \notin Devices
  PROVE  DiscoveryOK' /\ DeviceSlots'
  <1>1. oldFiles \subseteq Devices
    BY DEF LInv, Types
  <1>2. DiscoveryOK'
    <2>1. \A f \in oldFiles : (\A e \in Drives : slot[e] # f) => \A e \in Drives : slot'[e] # f
      BY <1>1
    <2> QED  BY <2>1 DEF DiscoveryOK
  <1>3. DeviceSlots'
    BY DEF DeviceSlots
  <1> QED  BY <1>2, <1>3

(* It only takes files out of the drives, or puts files of media there.    *)
LEMMA OtherLeaves ==
  ASSUME LInv, FInv, NEW t \in Threads \ {"discovery"}, Work(t)
  PROVE  oldFiles' = oldFiles /\ \A d \in Drives : slot'[d] = slot[d] \/ slot'[d] \notin Devices
  <1>0. Allowed(OthersMay)
    BY AllAllowed
  <1>1. todo[t] \in Seq(Harmless)
    BY DEF FInv, OthersSpare
  <1>2. DOMAIN slot = Drives /\ None \notin Devices
    BY MediaSpare DEF LInv, Types
  <1> USE DEF listAndPolls, pollVars, Goes
  <1>3. CASE LookForDetach(t) \/ LookForAttach(t) \/ DetachMountpointROM(t) \/ FreeFile(t)
             \/ EjectNext(t) \/ InsertNext(t) \/ UnmountNext(t) \/ ReportUnmounted(t)
    BY <1>3 DEF LookForDetach, LookForAttach, DetachMountpointROM, FreeFile, EjectNext, InsertNext,
                UnmountNext, ReportUnmounted
  <1>4. CASE DetachSlot(t)
    BY <1>2, <1>4 DEF DetachSlot
  <1>5. CASE AttachSlot(t)
    <2>1. Doing(t, "fill") /\ oldFiles' = oldFiles
          /\ (slot' = slot \/ slot' = [slot EXCEPT ![Now(t).d] = Now(t).f])
      BY <1>5 DEF AttachSlot
    <2>2. Now(t).f \notin Devices
      <3>1. Now(t) \in Harmless /\ Now(t).do = "fill"
        BY <1>0, <1>1, <2>1, SpareOn DEF Harmless
      <3>2. Now(t).f \in Slottable /\ <<Now(t).d, Now(t).f>> \in OthersMay.attach
        BY <1>0, <3>1, SpareKinds DEF Harmless
      <3> QED  BY <3>2 DEF OthersMay, NoDevices
    <2> QED  BY <1>2, <2>1, <2>2
  <1>6. CASE MountMountpoint(t) \/ LoadToAdd(t) \/ AddMountpoint(t)
               \/ UnmountMountpoint(t) \/ FindToRemove(t) \/ LoadToRemove(t) \/ RemoveMountpoint(t)
    BY <1>6 DEF MountMountpoint, LoadToAdd, AddMountpoint, Stores, UnmountMountpoint, FindToRemove,
                LoadToRemove, RemoveMountpoint
  <1>7. CASE TakeSource(t) \/ TakeTarget(t) \/ Copy(t)
    BY <1>7 DEF TakeSource, TakeTarget, Copy
  <1>8. CASE BeginRound(t) \/ UnmountEach(t) \/ SetRerunEmulator(t) \/ End(t)
    BY <1>8 DEF BeginRound, UnmountEach, SetRerunEmulator, End
  <1> QED  BY <1>3, <1>4, <1>5, <1>6, <1>7, <1>8 DEF Work

(* A step of another goroutine.                                            *)
LEMMA OtherWork ==
  ASSUME LInv, FInv, NEW t \in Threads \ {"discovery"}, Work(t)
  PROVE  FInv'
  <1>0. Allowed(OthersMay)
    BY AllAllowed
  <1>1. Spares(t, OthersMay)
    <2>1. /\ todo[t] \in Seq(Sparing(OthersMay))
          /\ OthersMay.unmount = MountpointsOf /\ "each" \in OthersMay.loops
      BY DEF FInv, OthersSpare, Harmless, OthersMay, UnmountLoops
    <2> QED  BY <1>0, <2>1, SpareWork
  <1>2. oldFiles' = oldFiles /\ \A d \in Drives : slot'[d] = slot[d] \/ slot'[d] \notin Devices
    BY OtherLeaves
  <1>3. OthersSpare' /\ todo'["discovery"] = todo["discovery"]
    BY <1>1, OthersKeep DEF FInv
  <1> QED  BY <1>2, <1>3, SlotsKept DEF FInv

(* Another goroutine starts on something.                                  *)
LEMMA OtherBegins ==
  ASSUME LInv, FInv, NEW t \in Threads \ {"discovery"}, NEW q \in Seq(Harmless), Begin(t, q),
         UNCHANGED <<slot, oldFiles>>
  PROVE  FInv'
  <1>1. OthersSpare' /\ todo'["discovery"] = todo["discovery"]
    BY OthersKeep DEF FInv, Spares, Begin, Harmless
  <1> QED  BY <1>1, SlotsKept DEF FInv

-----------------------------------------------------------------------------
(* What the discovery does.                                                *)

(* Its steps one by one: the first and the others.                         *)
LEMMA Shapes ==
  /\ \A s : <<s>> # <<>> /\ Head(<<s>>) = s /\ Tail(<<s>>) = <<>>
  /\ \A s, r : <<s, r>> # <<>> /\ Head(<<s, r>>) = s /\ Tail(<<s, r>>) = <<r>>
  /\ \A s, r, u : <<s, r, u>> # <<>> /\ Head(<<s, r, u>>) = s /\ Tail(<<s, r, u>>) = <<r, u>>
  OBVIOUS

(* What is done next tells the action.                                     *)
LEMMA WorkOf ==
  ASSUME NEW t, Work(t)
  PROVE  /\ Now(t).do \in {"hdStart", "hdDone"} => SetRerunEmulator(t)
         /\ Now(t).do = "detach" => LookForDetach(t)
         /\ Now(t).do = "clear" => DetachSlot(t)
         /\ Now(t).do = "attach" => LookForAttach(t)
         /\ Now(t).do = "fill" => AttachSlot(t)
         /\ todo[t] # <<>>
  <1>1. \/ SetRerunEmulator(t)
        \/ LookForDetach(t) /\ Doing(t, "detach")
        \/ DetachSlot(t) /\ Doing(t, "clear")
        \/ LookForAttach(t) /\ Doing(t, "attach")
        \/ AttachSlot(t) /\ Doing(t, "fill")
        \/ \E k \in Steps \ {"hdStart", "hdDone", "detach", "clear", "attach", "fill"} : Doing(t, k)
    <2>1. CASE MountMountpoint(t) \/ LoadToAdd(t) \/ AddMountpoint(t)
               \/ UnmountMountpoint(t) \/ FindToRemove(t) \/ LoadToRemove(t) \/ RemoveMountpoint(t)
               \/ DetachMountpointROM(t) \/ FreeFile(t) \/ EjectNext(t) \/ InsertNext(t) \/ UnmountNext(t)
      BY <2>1 DEF MountMountpoint, LoadToAdd, AddMountpoint, Stores, UnmountMountpoint, FindToRemove,
                LoadToRemove, RemoveMountpoint,
                  DetachMountpointROM, FreeFile, EjectNext, InsertNext, UnmountNext, Steps
    <2>2. CASE TakeSource(t) \/ TakeTarget(t) \/ Copy(t) \/ BeginRound(t) \/ UnmountEach(t)
               \/ ReportUnmounted(t) \/ End(t)
      BY <2>2 DEF TakeSource, TakeTarget, Copy, BeginRound, UnmountEach, ReportUnmounted, End, Steps
    <2>3. CASE LookForDetach(t) \/ DetachSlot(t) \/ LookForAttach(t) \/ AttachSlot(t)
      BY <2>3 DEF LookForDetach, DetachSlot, LookForAttach, AttachSlot
    <2> QED  BY <2>1, <2>2, <2>3 DEF Work
  <1>2. SetRerunEmulator(t) => Now(t).do \in {"hdStart", "hdDone"} /\ todo[t] # <<>>
    BY DEF SetRerunEmulator, Doing, Now
  <1> QED  BY <1>1, <1>2 DEF Doing, Now

(* Only one of the two.                                                    *)
LEMMA NotBoth ==
  ASSUME NEW q, NEW d, NEW f, NEW e, NEW g, Coming(q, d, f)
  PROVE  ~Leaving(q, e, g) /\ q \notin {<<>>, <<HDDone>>}
  <1> DEFINE names(p) == [i \in DOMAIN p |-> p[i].do]
  <1>1. /\ Attach(d, f, <<>>).do = "attach" /\ Attach(d, f, <<HDDone>>).do = "attach" /\ Fill(d, f).do = "fill"
        /\ Detach(e, g, <<>>).do = "detach" /\ Detach(e, g, <<HDDone>>).do = "detach" /\ Clear(e).do = "clear"
        /\ HDStart.do = "hdStart" /\ HDDone.do = "hdDone"
    BY StepNames
  <1> DEFINE a == Attach(d, f, <<>>)
             b == Attach(d, f, <<HDDone>>)
             c == Fill(d, f)
             x == Detach(e, g, <<>>)
             y == Detach(e, g, <<HDDone>>)
             z == Clear(e)
  <1>2. q \in {<<a>>, <<c>>, <<HDStart, b, HDDone>>, <<b, HDDone>>, <<c, HDDone>>}
    BY DEF Coming
  <1>3. Leaving(q, e, g) => q \in {<<x>>, <<z>>, <<HDStart, y, HDDone>>, <<y, HDDone>>, <<z, HDDone>>}
    BY DEF Leaving
  <1>4. /\ a.do = "attach" /\ b.do = "attach" /\ c.do = "fill"
        /\ x.do = "detach" /\ y.do = "detach" /\ z.do = "clear"
    BY <1>1
  <1> HIDE DEF a, b, c, x, y, z, HDStart, HDDone
  <1>5. q[1].do \in {"attach", "fill"} \/ (q[1].do = "hdStart" /\ q[2].do = "attach")
    BY <1>1, <1>2, <1>4
  <1>6. Leaving(q, e, g) => q[1].do \in {"detach", "clear"} \/ (q[1].do = "hdStart" /\ q[2].do = "detach")
    BY <1>1, <1>3, <1>4
  <1>7. q # <<>> /\ q # <<HDDone>>
    BY <1>1, <1>2, <1>5
  <1> QED  BY <1>5, <1>6, <1>7

(* The discovery detaches: nothing happens to the slots before it has      *)
(* found the file there.                                                   *)
LEMMA LeavingOn ==
  ASSUME LInv, NEW d \in Drives, NEW f \in Devices, Leaving(todo["discovery"], d, f), Work("discovery")
  PROVE  /\ oldFiles' = oldFiles
         /\ \E q : todo' = [todo EXCEPT !["discovery"] = q]
         /\ \/ slot' = slot /\ Leaving(todo'["discovery"], d, f)
            \/ slot' = slot /\ slot[d] # f /\ todo'["discovery"] \in {<<>>, <<HDDone>>}
            \/ slot' = [slot EXCEPT ![d] = None] /\ todo'["discovery"] \in {<<>>, <<HDDone>>}
  <1> DEFINE t == "discovery"
  <1>1. DOMAIN todo = Threads /\ t \in Threads
    BY DEF LInv, TodosOK, Threads
  <1>2. ASSUME NEW q, Then(t, q) PROVE todo'[t] = q /\ \E r : todo' = [todo EXCEPT ![t] = r]
    BY <1>1, <1>2 DEF Then
  <1>3. CASE todo[t] = <<HDStart, Detach(d, f, <<HDDone>>), HDDone>>
    <2>1. Now(t) = HDStart /\ Later(t) = <<Detach(d, f, <<HDDone>>), HDDone>>
      BY <1>3, Shapes DEF Now, Later
    <2>2. SetRerunEmulator(t)
      BY <2>1, WorkOf, StepNames
    <2>3. Then(t, Later(t)) /\ slot' = slot /\ oldFiles' = oldFiles
      BY <2>2 DEF SetRerunEmulator, listAndPolls, pollVars
    <2> QED  BY <1>2, <2>1, <2>3 DEF Leaving
  <1>4. ASSUME NEW r \in {<<>>, <<HDDone>>}, Now(t) = Detach(d, f, r), Later(t) = r
        PROVE  /\ oldFiles' = oldFiles
               /\ \E q : todo' = [todo EXCEPT ![t] = q]
               /\ \/ slot' = slot /\ Leaving(todo'[t], d, f)
                  \/ slot' = slot /\ slot[d] # f /\ todo'[t] \in {<<>>, <<HDDone>>}
    <2>1. LookForDetach(t)
      BY <1>4, WorkOf, StepNames
    <2>2. Now(t).d = d /\ Now(t).f = f /\ Now(t).orelse = r
      BY <1>4 DEF Detach
    <2>3. /\ Then(t, IF slot[d] = f THEN <<Clear(d)>> \o r ELSE r)
          /\ slot' = slot /\ oldFiles' = oldFiles
      BY <1>4, <2>1, <2>2 DEF LookForDetach, Goes, listAndPolls, pollVars
    <2> DEFINE c == Clear(d)
    <2>4. <<c>> \o r \in {<<c>>, <<c, HDDone>>}
      <3> HIDE DEF c, HDDone
      <3>1. <<c>> \o <<>> = <<c>>
        <4>1. <<c>> \in Seq({c})
          OBVIOUS
        <4> QED  BY <4>1, ConcatEmptySeq
      <3>2. <<c>> \o <<HDDone>> = <<c, HDDone>>
        BY Pairs
      <3> QED  BY <1>4, <3>1, <3>2
    <2>5. Leaving(<<c>> \o r, d, f)
      <3> DEFINE q == <<c>> \o r
      <3>1. q \in {<<c>>, <<c, HDDone>>}
        BY <2>4
      <3> HIDE DEF q
      <3>2. Leaving(q, d, f)
        BY <3>1 DEF Leaving
      <3> QED  BY <3>2 DEF q
    <2>6. CASE slot[d] = f
      <3>1. Then(t, <<c>> \o r)
        BY <2>3, <2>6
      <3> DEFINE q == <<c>> \o r
      <3>2. Then(t, q) /\ Leaving(q, d, f)
        BY <2>5, <3>1
      <3> HIDE DEF q
      <3>3. todo'[t] = q /\ \E s : todo' = [todo EXCEPT ![t] = s]
        BY <1>2, <3>2
      <3> QED  BY <2>3, <3>2, <3>3
    <2>7. CASE slot[d] # f
      <3>1. Then(t, r)
        BY <2>3, <2>7
      <3>2. todo'[t] = r /\ \E s : todo' = [todo EXCEPT ![t] = s]
        BY <1>2, <3>1
      <3> QED  BY <2>3, <2>7, <3>2
    <2> QED  BY <2>6, <2>7
  <1>5. ASSUME NEW r \in {<<>>, <<HDDone>>}, Now(t) = Clear(d), Later(t) = r
        PROVE  /\ oldFiles' = oldFiles
               /\ \E q : todo' = [todo EXCEPT ![t] = q]
               /\ slot' = [slot EXCEPT ![d] = None] /\ todo'[t] \in {<<>>, <<HDDone>>}
    <2>1. DetachSlot(t)
      BY <1>5, WorkOf, StepNames
    <2>2. Now(t).d = d
      BY <1>5 DEF Clear
    <2>3. Then(t, r) /\ slot' = [slot EXCEPT ![d] = None] /\ oldFiles' = oldFiles
      BY <1>5, <2>1, <2>2 DEF DetachSlot, listAndPolls, pollVars
    <2>4. todo'[t] = r /\ \E s : todo' = [todo EXCEPT ![t] = s]
      BY <1>2, <2>3
    <2> QED  BY <2>3, <2>4
  <1>6. \/ todo[t] = <<HDStart, Detach(d, f, <<HDDone>>), HDDone>>
        \/ \E r \in {<<>>, <<HDDone>>} : Now(t) = Detach(d, f, r) /\ Later(t) = r
        \/ \E r \in {<<>>, <<HDDone>>} : Now(t) = Clear(d) /\ Later(t) = r
    <2>1. ASSUME NEW s, todo[t] = <<s>> PROVE Now(t) = s /\ Later(t) = <<>>
      BY <2>1 DEF Now, Later
    <2>2. ASSUME NEW s, todo[t] = <<s, HDDone>> PROVE Now(t) = s /\ Later(t) = <<HDDone>>
      BY <2>2, Shapes DEF Now, Later
    <2> QED  BY <2>1, <2>2 DEF Leaving
  <1> QED  BY <1>3, <1>4, <1>5, <1>6

(* The discovery attaches.                                                 *)
LEMMA ComingOn ==
  ASSUME LInv, NEW d \in Drives, NEW f \in Devices, Coming(todo["discovery"], d, f), Work("discovery")
  PROVE  /\ oldFiles' = oldFiles
         /\ \E q : todo' = [todo EXCEPT !["discovery"] = q]
         /\ \/ slot' = slot /\ Coming(todo'["discovery"], d, f)
            \/ slot' = slot /\ todo'["discovery"] \in {<<>>, <<HDDone>>}
            \/ slot' = [slot EXCEPT ![d] = f] /\ todo'["discovery"] \in {<<>>, <<HDDone>>}
  <1> DEFINE t == "discovery"
  <1>1. DOMAIN todo = Threads /\ t \in Threads
    BY DEF LInv, TodosOK, Threads
  <1>2. ASSUME NEW q, Then(t, q) PROVE todo'[t] = q /\ \E r : todo' = [todo EXCEPT ![t] = r]
    BY <1>1, <1>2 DEF Then
  <1>3. CASE todo[t] = <<HDStart, Attach(d, f, <<HDDone>>), HDDone>>
    <2>1. Now(t) = HDStart /\ Later(t) = <<Attach(d, f, <<HDDone>>), HDDone>>
      BY <1>3, Shapes DEF Now, Later
    <2>2. SetRerunEmulator(t)
      BY <2>1, WorkOf, StepNames
    <2>3. Then(t, Later(t)) /\ slot' = slot /\ oldFiles' = oldFiles
      BY <2>2 DEF SetRerunEmulator, listAndPolls, pollVars
    <2> QED  BY <1>2, <2>1, <2>3 DEF Coming
  <1>4. ASSUME NEW r \in {<<>>, <<HDDone>>}, Now(t) = Attach(d, f, r), Later(t) = r
        PROVE  /\ oldFiles' = oldFiles
               /\ \E q : todo' = [todo EXCEPT ![t] = q]
               /\ slot' = slot /\ (Coming(todo'[t], d, f) \/ todo'[t] \in {<<>>, <<HDDone>>})
    <2>1. LookForAttach(t)
      BY <1>4, WorkOf, StepNames
    <2>2. Now(t).d = d /\ Now(t).f = f /\ Now(t).orelse = r
      BY <1>4 DEF Attach
    <2>3. /\ Then(t, IF slot[d] = None THEN <<Fill(d, f)>> \o r ELSE r)
          /\ slot' = slot /\ oldFiles' = oldFiles
      BY <1>4, <2>1, <2>2 DEF LookForAttach, Goes, listAndPolls, pollVars
    <2> DEFINE c == Fill(d, f)
    <2>4. <<c>> \o r \in {<<c>>, <<c, HDDone>>}
      <3> HIDE DEF c, HDDone
      <3>1. <<c>> \o <<>> = <<c>>
        <4>1. <<c>> \in Seq({c})
          OBVIOUS
        <4> QED  BY <4>1, ConcatEmptySeq
      <3>2. <<c>> \o <<HDDone>> = <<c, HDDone>>
        BY Pairs
      <3> QED  BY <1>4, <3>1, <3>2
    <2> DEFINE q == <<c>> \o r
    <2>5. q \in {<<c>>, <<c, HDDone>>} /\ (Then(t, q) \/ Then(t, r))
      BY <2>3, <2>4
    <2> HIDE DEF q
    <2>6. Coming(q, d, f)
      BY <2>5 DEF Coming
    <2>7. (todo'[t] = q \/ todo'[t] = r) /\ \E s : todo' = [todo EXCEPT ![t] = s]
      BY <1>2, <2>5
    <2> QED  BY <2>3, <2>6, <2>7
  <1>5. ASSUME NEW r \in {<<>>, <<HDDone>>}, Now(t) = Fill(d, f), Later(t) = r
        PROVE  /\ oldFiles' = oldFiles
               /\ \E q : todo' = [todo EXCEPT ![t] = q]
               /\ slot' = slot \/ slot' = [slot EXCEPT ![d] = f]
               /\ todo'[t] \in {<<>>, <<HDDone>>}
    <2>1. AttachSlot(t)
      BY <1>5, WorkOf, StepNames
    <2>2. Now(t).d = d /\ Now(t).f = f
      BY <1>5 DEF Fill
    <2>3. Then(t, r) /\ (slot' = slot \/ slot' = [slot EXCEPT ![d] = f]) /\ oldFiles' = oldFiles
      BY <1>5, <2>1, <2>2 DEF AttachSlot, listAndPolls, pollVars
    <2>4. todo'[t] = r /\ \E s : todo' = [todo EXCEPT ![t] = s]
      BY <1>2, <2>3
    <2> QED  BY <2>3, <2>4
  <1>6. \/ todo[t] = <<HDStart, Attach(d, f, <<HDDone>>), HDDone>>
        \/ \E r \in {<<>>, <<HDDone>>} : Now(t) = Attach(d, f, r) /\ Later(t) = r
        \/ \E r \in {<<>>, <<HDDone>>} : Now(t) = Fill(d, f) /\ Later(t) = r
    <2>1. ASSUME NEW s, todo[t] = <<s>> PROVE Now(t) = s /\ Later(t) = <<>>
      BY <2>1 DEF Now, Later
    <2>2. ASSUME NEW s, todo[t] = <<s, HDDone>> PROVE Now(t) = s /\ Later(t) = <<HDDone>>
      BY <2>2, Shapes DEF Now, Later
    <2> QED  BY <2>1, <2>2 DEF Coming
  <1> QED  BY <1>3, <1>4, <1>5, <1>6

(* A step of the discovery.                                                *)
LEMMA DiscoveryWork ==
  ASSUME LInv, FInv, Work("discovery")
  PROVE  FInv'
  <1> DEFINE t == "discovery"
  <1>1. /\ DOMAIN todo = Threads /\ t \in Threads /\ DOMAIN slot = Drives
        /\ oldFiles \subseteq Devices /\ None \notin Devices
    BY MediaSpare DEF LInv, TodosOK, Types, Threads
  <1>2. ASSUME NEW q, todo' = [todo EXCEPT ![t] = q] PROVE OthersSpare'
    BY <1>1, <1>2 DEF FInv, OthersSpare
  <1>3. CASE todo[t] \in {<<>>, <<HDDone>>}
    <2>1. todo[t] = <<HDDone>>
      BY <1>3, WorkOf
    <2>2. Now(t) = HDDone /\ Later(t) = <<>>
      BY <2>1 DEF Now, Later
    <2>3. SetRerunEmulator(t)
      BY <2>2, WorkOf, StepNames
    <2>4. todo' = [todo EXCEPT ![t] = <<>>] /\ slot' = slot /\ oldFiles' = oldFiles
      BY <2>2, <2>3 DEF SetRerunEmulator, Then, listAndPolls, pollVars
    <2>5. todo'[t] = <<>>
      BY <1>1, <2>4
    <2>6. \A d, f : ~Leaving(todo[t], d, f)
      <3>1. ASSUME NEW d, NEW f, Leaving(<<HDDone>>, d, f) PROVE FALSE
        <4> DEFINE x == Detach(d, f, <<>>)
                   y == Detach(d, f, <<HDDone>>)
                   z == Clear(d)
        <4>1. <<HDDone>> \in {<<x>>, <<z>>, <<HDStart, y, HDDone>>, <<y, HDDone>>, <<z, HDDone>>}
          BY <3>1 DEF Leaving
        <4>2. x.do = "detach" /\ y.do = "detach" /\ z.do = "clear" /\ HDDone.do = "hdDone"
          BY StepNames
        <4> HIDE DEF x, y, z, HDDone, HDStart
        <4> QED  BY <4>1, <4>2
      <3> QED  BY <2>1, <3>1
    <2> QED  BY <1>2, <2>4, <2>5, <2>6 DEF FInv, DiscoveryOK, DeviceSlots
  <1>4. CASE \E d \in Drives, f \in Devices : Leaving(todo[t], d, f)
    <2>1. PICK d \in Drives, f \in Devices : Leaving(todo[t], d, f)
      BY <1>4
    <2>2. /\ oldFiles' = oldFiles /\ OthersSpare'
          /\ \A e \in Drives : slot'[e] = slot[e] \/ slot'[e] = None
          /\ Leaving(todo'[t], d, f) \/ todo'[t] \in {<<>>, <<HDDone>>}
      BY <1>1, <1>2, <2>1, LeavingOn
    <2>3. ASSUME NEW e \in Drives, slot[e] \in Devices, Leaving(todo[t], e, slot[e])
          PROVE  Leaving(todo'[t], e, slot[e]) \/ slot'[e] = None
      BY <1>1, <2>3, LeavingOn
    <2>4. DiscoveryOK'
      BY <2>1, <2>2 DEF DiscoveryOK
    <2>5. DeviceSlots'
      <3>1. ASSUME NEW e \in Drives, slot'[e] \in Devices
            PROVE  /\ Fits(e, slot'[e])
                   /\ \A c \in Drives : slot'[c] = slot'[e] => c = e
                   /\ slot'[e] \in oldFiles' \/ Leaving(todo'[t], e, slot'[e])
        <4>1. slot'[e] = slot[e] /\ slot[e] \in Devices
          BY <1>1, <2>2, <3>1
        <4>2. /\ Fits(e, slot[e])
              /\ \A c \in Drives : slot[c] = slot[e] => c = e
              /\ slot[e] \in oldFiles \/ Leaving(todo[t], e, slot[e])
          BY <4>1 DEF FInv, DeviceSlots
        <4> QED  BY <1>1, <2>2, <2>3, <3>1, <4>1, <4>2
      <3> QED  BY <3>1 DEF DeviceSlots, Fits
    <2> QED  BY <2>2, <2>4, <2>5 DEF FInv
  <1>5. CASE \E d \in Drives, f \in oldFiles :
               Coming(todo[t], d, f) /\ Fits(d, f) /\ \A e \in Drives : slot[e] # f
    <2>1. PICK d \in Drives, f \in oldFiles :
            Coming(todo[t], d, f) /\ Fits(d, f) /\ \A e \in Drives : slot[e] # f
      BY <1>5
    <2>2. /\ oldFiles' = oldFiles /\ OthersSpare'
          /\ \/ slot' = slot /\ (Coming(todo'[t], d, f) \/ todo'[t] \in {<<>>, <<HDDone>>})
             \/ slot' = [slot EXCEPT ![d] = f] /\ todo'[t] \in {<<>>, <<HDDone>>}
      BY <1>1, <1>2, <2>1, ComingOn
    <2>3. \A e, g : ~Leaving(todo[t], e, g)
      BY <2>1, NotBoth
    <2>4. \A e \in Drives : slot[e] \in Devices =>
            /\ Fits(e, slot[e])
            /\ \A c \in Drives : slot[c] = slot[e] => c = e
            /\ slot[e] \in oldFiles
      BY <2>3 DEF FInv, DeviceSlots
    <2>5. \A e \in Drives : slot'[e] = slot[e] \/ (e = d /\ slot'[e] = f)
      BY <1>1, <2>2
    <2>6. DiscoveryOK'
      BY <2>1, <2>2 DEF DiscoveryOK, Fits
    <2>7. DeviceSlots'
      <3>1. ASSUME NEW e \in Drives, slot'[e] \in Devices
            PROVE  /\ Fits(e, slot'[e])
                   /\ \A c \in Drives : slot'[c] = slot'[e] => c = e
                   /\ slot'[e] \in oldFiles
        BY <2>1, <2>4, <2>5, <3>1
      <3> QED  BY <2>2, <3>1 DEF DeviceSlots, Fits
    <2> QED  BY <2>2, <2>6, <2>7 DEF FInv
  <1> QED  BY <1>3, <1>4, <1>5 DEF FInv, DiscoveryOK

(* An operation of the discovery, put together.                            *)
LEMMA BracketedShape ==
  ASSUME NEW k, NEW s
  PROVE  (Before(k) \o <<s>>) \o After(k) =
           IF k = "HD" THEN <<HDStart, s, HDDone>> ELSE <<s>>
  <1> DEFINE S == {HDStart, s, HDDone}
  <1> HIDE DEF HDStart, HDDone
  <1>1. CASE k = "HD"
    <2>1. Before(k) = <<HDStart>> /\ After(k) = <<HDDone>>
      BY <1>1 DEF Before, After
    <2>2. <<HDStart>> \o <<s>> = <<HDStart, s>>
      BY Pairs
    <2>3. <<HDStart, s>> \o <<HDDone>> = <<HDStart, s, HDDone>>
      <3> DEFINE p == <<HDStart, s>>
                 q == <<HDDone>>
                 r == <<HDStart, s, HDDone>>
      <3>1. p \in Seq(S) /\ q \in Seq(S) /\ r \in Seq(S) /\ Len(p) = 2 /\ Len(q) = 1 /\ Len(r) = 3
        OBVIOUS
      <3>2. r[1] = p[1] /\ r[2] = p[2] /\ r[3] = q[1]
        OBVIOUS
      <3> HIDE DEF p, q, r, S
      <3>3. /\ p \o q \in Seq(S) /\ Len(p \o q) = Len(p) + Len(q)
            /\ \A i \in 1..Len(p) + Len(q) : (p \o q)[i] = IF i <= Len(p) THEN p[i] ELSE q[i - Len(p)]
        BY <3>1, ConcatProperties
      <3>4. /\ p \o q \in Seq(S) /\ Len(p \o q) = 3
            /\ \A i \in 1..3 : (p \o q)[i] = IF i <= 2 THEN p[i] ELSE q[i - 2]
        BY <3>1, <3>3
      <3>5. \A i \in 1..3 : (p \o q)[i] = r[i]
        BY <3>2, <3>4
      <3>6. p \o q = r
        BY <3>1, <3>4, <3>5, SeqEqual
      <3> QED  BY <3>6 DEF p, q, r
    <2> QED  BY <1>1, <2>1, <2>2, <2>3
  <1>2. CASE k # "HD"
    <2>1. Before(k) = <<>> /\ After(k) = <<>>
      BY <1>2 DEF Before, After
    <2>2. <<>> \o <<s>> = <<s>>
      BY Pairs
    <2>3. <<s>> \o <<>> = <<s>>
      <3>1. <<s>> \in Seq({s})
        OBVIOUS
      <3> QED  BY <3>1, ConcatEmptySeq
    <2> QED  BY <1>2, <2>1, <2>2, <2>3
  <1> QED  BY <1>1, <1>2

(* The operations of the discovery have the shapes above.                  *)
LEMMA ShapesMade ==
  ASSUME NEW k, NEW d, NEW f
  PROVE  /\ Coming((Before(k) \o <<Attach(d, f, After(k))>>) \o After(k), d, f)
         /\ Leaving((Before(k) \o <<Detach(d, f, After(k))>>) \o After(k), d, f)
  <1> DEFINE p == (Before(k) \o <<Attach(d, f, After(k))>>) \o After(k)
             q == (Before(k) \o <<Detach(d, f, After(k))>>) \o After(k)
  <1>1. CASE k = "HD"
    <2>1. After(k) = <<HDDone>>
      BY <1>1 DEF After
    <2>2. \A s : (Before(k) \o <<s>>) \o After(k) = <<HDStart, s, HDDone>>
      BY <1>1, BracketedShape
    <2>3. p = <<HDStart, Attach(d, f, <<HDDone>>), HDDone>> /\ q = <<HDStart, Detach(d, f, <<HDDone>>), HDDone>>
      BY <2>1, <2>2
    <2> HIDE DEF p, q
    <2>4. Coming(p, d, f) /\ Leaving(q, d, f)
      BY <2>3 DEF Coming, Leaving
    <2> QED  BY <2>4 DEF p, q
  <1>2. CASE k # "HD"
    <2>1. After(k) = <<>>
      BY <1>2 DEF After
    <2>2. \A s : (Before(k) \o <<s>>) \o After(k) = <<s>>
      BY <1>2, BracketedShape
    <2>3. p = <<Attach(d, f, <<>>)>> /\ q = <<Detach(d, f, <<>>)>>
      BY <2>1, <2>2
    <2> HIDE DEF p, q
    <2>4. Coming(p, d, f) /\ Leaving(q, d, f)
      BY <2>3 DEF Coming, Leaving
    <2> QED  BY <2>4 DEF p, q
  <1> QED  BY <1>1, <1>2

(* The discovery starts to detach or to attach a file, or only looks.      *)
LEMMA DiscoveryBegins ==
  ASSUME LInv, FInv, Discovery
  PROVE  FInv'
  <1> DEFINE t == "discovery"
  <1>1. /\ DOMAIN todo = Threads /\ t \in Threads /\ DOMAIN slot = Drives
        /\ oldFiles \subseteq Devices /\ currentFiles \subseteq Devices
    BY DEF LInv, TodosOK, Types, Threads
  <1>2. slot' = slot /\ todo[t] = <<>> /\ \E q : todo' = [todo EXCEPT ![t] = q]
    BY DEF Discovery, Begin
  <1>3. OthersSpare'
    BY <1>1, <1>2 DEF FInv, OthersSpare
  <1>4. \A d \in Drives : slot[d] \in Devices =>
          /\ Fits(d, slot[d])
          /\ \A e \in Drives : slot[e] = slot[d] => e = d
          /\ slot[d] \in oldFiles
    <2>1. \A d, f : ~Leaving(<<>>, d, f)
      BY DEF Leaving
    <2> QED  BY <1>2, <2>1 DEF FInv, DeviceSlots
  <1>5. CASE \E f \in oldFiles \ currentFiles :
               /\ Begin(t, DetachDevice(f))
               /\ oldFiles' = oldFiles \ {f} /\ UNCHANGED currentFiles
    <2>1. PICK f \in oldFiles \ currentFiles :
            /\ Begin(t, DetachDevice(f))
            /\ oldFiles' = oldFiles \ {f}
      BY <1>5
    <2> DEFINE k == Kind[DeviceDrive[f]]
    <2>2. todo'[t] = DetachDevice(f) /\ f \in Devices /\ DeviceDrive[f] \in Drives
      BY <1>1, <2>1, FilesFacts DEF Begin
    <2>3. ASSUME NEW d \in Drives, DetachDevice(f) = (Before(k) \o <<Detach(d, f, After(k))>>) \o After(k)
          PROVE  Leaving(DetachDevice(f), d, f)
      BY <2>3, ShapesMade
    <2>4. CASE k = "HD" /\ ~IsHeld(k, f)
      <3>1. DetachDevice(f) = <<>>
        BY <2>4 DEF DetachDevice
      <3>2. \A d \in Drives : slot[d] # f
        BY <1>4, <2>2, <2>4 DEF IsHeld, Fits
      <3>3. DeviceSlots'
        BY <1>2, <1>4, <2>1, <3>2 DEF DeviceSlots, Fits
      <3> QED  BY <1>3, <2>2, <3>1, <3>3 DEF FInv, DiscoveryOK
    <2>5. CASE ~(k = "HD" /\ ~IsHeld(k, f))
      <3> DEFINE d == IF k = "HD" THEN FirstDrive(k, f) ELSE DeviceDrive[f]
      <3>1. d \in Drives /\ (k = "HD" => slot[d] = f)
        BY <2>2, <2>5, FoundDrive
      <3>2. DetachDevice(f) = (Before(k) \o <<Detach(d, f, After(k))>>) \o After(k)
        BY <2>5 DEF DetachDevice
      <3>3. Leaving(DetachDevice(f), d, f)
        BY <2>3, <3>1, <3>2
      <3>4. \A e \in Drives : slot[e] = f => e = d
        <4>1. ASSUME NEW e \in Drives, slot[e] = f PROVE e = d
          <5>1. Fits(e, f) /\ \A c \in Drives : slot[c] = f => c = e
            BY <1>4, <2>2, <4>1
          <5>2. CASE k = "HD"
            BY <3>1, <5>1, <5>2
          <5>3. CASE k # "HD"
            BY <5>1, <5>3 DEF Fits
          <5> QED  BY <5>2, <5>3
        <4> QED  BY <4>1
      <3> HIDE DEF d
      <3>5. DiscoveryOK'
        BY <2>2, <3>1, <3>3 DEF DiscoveryOK
      <3>6. DeviceSlots'
        <4>1. ASSUME NEW e \in Drives, slot'[e] \in Devices
              PROVE  /\ Fits(e, slot'[e])
                     /\ \A c \in Drives : slot'[c] = slot'[e] => c = e
                     /\ slot'[e] \in oldFiles' \/ Leaving(todo'[t], e, slot'[e])
          <5>1. slot'[e] # f => slot'[e] \in oldFiles'
            BY <1>2, <1>4, <2>1, <4>1
          <5>2. slot'[e] = f => Leaving(todo'[t], e, slot'[e])
            BY <1>2, <2>2, <3>3, <3>4
          <5> QED  BY <1>2, <1>4, <4>1, <5>1, <5>2
        <4> QED  BY <4>1 DEF DeviceSlots, Fits
      <3> QED  BY <1>3, <3>5, <3>6 DEF FInv
    <2> QED  BY <2>4, <2>5
  <1>6. CASE \E f \in currentFiles \ oldFiles :
               /\ Begin(t, AttachDevice(f))
               /\ oldFiles' = oldFiles \union {f} /\ UNCHANGED currentFiles
    <2>1. PICK f \in currentFiles \ oldFiles :
            /\ Begin(t, AttachDevice(f))
            /\ oldFiles' = oldFiles \union {f}
      BY <1>6
    <2> DEFINE k == Kind[DeviceDrive[f]]
    <2>2. todo'[t] = AttachDevice(f) /\ f \in Devices /\ DeviceDrive[f] \in Drives
      BY <1>1, <2>1, FilesFacts DEF Begin
    <2>3. \A d \in Drives : slot'[d] # f
      BY <1>2, <1>4, <2>1, <2>2
    <2>4. DeviceSlots'
      BY <1>2, <1>4, <2>1 DEF DeviceSlots, Fits
    <2>5. DiscoveryOK'
      <3>1. CASE k = "HD" /\ ~IsHeld(k, None)
        BY <2>2, <3>1 DEF AttachDevice, DiscoveryOK
      <3>2. CASE ~(k = "HD" /\ ~IsHeld(k, None))
        <4> DEFINE d == IF k = "HD" THEN FirstDrive(k, None) ELSE DeviceDrive[f]
        <4>1. d \in Drives /\ Fits(d, f)
          BY <2>2, <3>2, FoundDrive DEF Fits
        <4>2. AttachDevice(f) = (Before(k) \o <<Attach(d, f, After(k))>>) \o After(k)
          BY <3>2 DEF AttachDevice
        <4> HIDE DEF d
        <4>3. Coming(AttachDevice(f), d, f)
          BY <4>2, ShapesMade
        <4> QED  BY <2>1, <2>2, <2>3, <4>1, <4>3 DEF DiscoveryOK, Fits
      <3> QED  BY <3>1, <3>2
    <2> QED  BY <1>3, <2>4, <2>5 DEF FInv
  <1>7. CASE Begin(t, <<>>) /\ UNCHANGED oldFiles
    <2>1. todo'[t] = <<>>
      BY <1>1, <1>7 DEF Begin
    <2> QED  BY <1>2, <1>3, <1>4, <1>7, <2>1 DEF FInv, DiscoveryOK, DeviceSlots, Fits
  <1> QED  BY <1>5, <1>6, <1>7 DEF Discovery

-----------------------------------------------------------------------------
(* The invariant.                                                          *)

LEMMA FilesInit ==
  ASSUME Init
  PROVE  FInv
  <1>1. /\ \A t \in Threads : todo[t] = <<>>
        /\ \A d \in Drives : slot[d] = None
    BY DEF Init
  <1>2. None \notin Devices /\ "discovery" \in Threads
    BY MediaSpare DEF Threads
  <1>3. <<>> \in Seq(Harmless)
    OBVIOUS
  <1> QED  BY <1>1, <1>2, <1>3 DEF FInv, OthersSpare, DiscoveryOK, DeviceSlots

(* Every step that copies no disk.                                         *)
LEMMA FilesNext ==
  ASSUME LInv, FInv, copies' = 0, [Next]_vars
  PROVE  FInv'
  <1>0. Allowed(OthersMay)
    BY AllAllowed
  <1>1. /\ "discovery" \in Threads /\ Keyboards \subseteq Threads \ {"discovery"}
        /\ {"blockDevices", "signal"} \subseteq Threads \ {"discovery"}
    BY ConstantsAssumption DEF Threads
  <1>2. CASE Plug \/ UNCHANGED vars
    <2>1. UNCHANGED <<slot, oldFiles, todo>>
      BY <1>2 DEF Plug, vars, listAndPolls, pollVars
    <2>2. OthersSpare'
      BY <2>1 DEF FInv, OthersSpare
    <2> QED  BY <2>1, <2>2, SlotsKept DEF FInv
  <1>3. CASE BlockDevices
    <2>1. \E q \in Seq(Harmless) : Begin("blockDevices", q)
      <3>1. oldBlocks \subseteq Media /\ blocks \subseteq Media
        BY DEF LInv, Types
      <3>2. <<>> \in Seq(Harmless)
        OBVIOUS
      <3>3. OthersMay.detach = Anything /\ OthersMay.unmount = MountpointsOf /\ OthersMay.media = Media
        BY DEF OthersMay
      <3>4. ~ended
        BY <1>3 DEF BlockDevices, Begin
      <3> QED  BY <1>0, <1>3, <3>1, <3>2, <3>3, <3>4, BlockDevicesSpare DEF BlockDevices, Harmless
    <2>2. UNCHANGED <<slot, oldFiles>>
      BY <1>3 DEF BlockDevices
    <2> QED  BY <1>1, <2>1, <2>2, OtherBegins
  <1>4. CASE Signal
    <2>1. {Round(1), Report, Stop} \subseteq Harmless
      <3>1. "round" \in OthersMay.loops
        BY DEF OthersMay, UnmountLoops
      <3> QED  BY <1>0, <3>1, SpareMade, LoopsMade, SpareSeqs DEF Harmless
    <2> DEFINE s == Round(1)
    <2>2. Begin("signal", <<s, Report, Stop>>) /\ UNCHANGED <<slot, oldFiles>>
      BY <1>4 DEF Signal, pollVars
    <2>3. s \in Harmless /\ Report \in Harmless /\ Stop \in Harmless
      BY <2>1
    <2> HIDE DEF s, Report, Stop
    <2>4. <<s, Report, Stop>> \in Seq(Harmless)
      BY <2>3
    <2> QED  BY <1>1, <2>2, <2>4, OtherBegins
  <1>5. ASSUME NEW t \in Keyboards, Keyboard(t) PROVE FInv'
    <2>1. PICK q \in Seq(Harmless) : Command(t, q)
      <3>1. OthersMay.media = Media /\ OthersMay.loops = UnmountLoops
        BY DEF OthersMay
      <3> QED  BY <1>0, <1>5, <3>1, KeyboardSpares DEF Harmless
    <2>2. Begin(t, q) /\ UNCHANGED <<slot, oldFiles>>
      BY <2>1 DEF Command, pollVars
    <2> QED  BY <1>1, <2>2, OtherBegins
  <1>6. ASSUME NEW t \in Threads, Work(t) PROVE FInv'
    BY <1>6, OtherWork, DiscoveryWork
  <1> QED  BY <1>2, <1>3, <1>4, <1>5, <1>6, DiscoveryBegins DEF Next

(* A disk copy is not undone.                                              *)
LEMMA CopiesStay ==
  ASSUME LInv, [Next]_vars, copies' = 0
  PROVE  copies = 0
  <1>1. CASE Plug \/ BlockDevices \/ Discovery \/ Signal \/ UNCHANGED vars
    BY <1>1 DEF Plug, BlockDevices, Discovery, Signal, vars, counters
  <1>2. ASSUME NEW t \in Keyboards, Keyboard(t) PROVE copies = 0
    <2>1. copies' = copies \/ copies' = copies + 1
      BY <1>2 DEF Keyboard, InsertFromSourceIndexToTargetIndex, InsertByDiskNo, InsertToManyIndex,
                  EjectFromSourceIndex, EjectFromSourceIndexAll, UnmountFromSourceIndex, UnmountAll, LowLevelCopy
    <2> QED  BY <2>1 DEF LInv, Types
  <1>3. ASSUME NEW t \in Threads, Work(t) PROVE copies' = copies
    <2> USE DEF counters, Goes
    <2>1. CASE LookForDetach(t) \/ DetachSlot(t) \/ LookForAttach(t) \/ AttachSlot(t)
      BY <2>1 DEF LookForDetach, DetachSlot, LookForAttach, AttachSlot
    <2>2. CASE MountMountpoint(t) \/ LoadToAdd(t) \/ AddMountpoint(t)
               \/ UnmountMountpoint(t) \/ FindToRemove(t) \/ LoadToRemove(t) \/ RemoveMountpoint(t)
      BY <2>2 DEF MountMountpoint, LoadToAdd, AddMountpoint, Stores, UnmountMountpoint, FindToRemove,
                LoadToRemove, RemoveMountpoint
    <2>3. CASE DetachMountpointROM(t) \/ FreeFile(t) \/ EjectNext(t) \/ InsertNext(t) \/ UnmountNext(t)
      BY <2>3 DEF DetachMountpointROM, FreeFile, EjectNext, InsertNext, UnmountNext
    <2>4. CASE TakeSource(t) \/ TakeTarget(t) \/ Copy(t)
      BY <2>4 DEF TakeSource, TakeTarget, Copy
    <2>5. CASE BeginRound(t) \/ UnmountEach(t) \/ ReportUnmounted(t) \/ SetRerunEmulator(t) \/ End(t)
      BY <2>5 DEF BeginRound, UnmountEach, ReportUnmounted, SetRerunEmulator, End
    <2> QED  BY <1>3, <2>1, <2>2, <2>3, <2>4, <2>5 DEF Work
  <1> QED  BY <1>1, <1>2, <1>3 DEF Next

LEMMA FilesHold == Spec => [](copies = 0 => FInv)
  <1>1. Init => FInv
    BY FilesInit
  <1>2. LInv /\ (copies = 0 => FInv) /\ [Next]_vars => (copies = 0 => FInv)'
    BY FilesNext, CopiesStay
  <1> QED  BY <1>1, <1>2, InvariantHolds, PTL DEF Spec

(* Whatever the keyboards and the poll of the block devices do to the      *)
(* drives meanwhile, when amiga_disk_devices takes a file away and the     *)
(* discovery is done with it, no drive holds it: detachAmigaDiskDevice*    *)
(* chooses the drive by the file and detaches only if it is still there.   *)
(* This is so until the first disk copy, which takes a file out of its     *)
(* drive and puts it back later, there or not.                             *)
THEOREM DevicesLeave == Spec => []DeviceNotDangling
  <1>1. (copies = 0 => FInv) => DeviceNotDangling
    <2>1. \A d, f : ~Leaving(<<>>, d, f)
      BY DEF Leaving
    <2> QED  BY <2>1 DEF FInv, DeviceSlots, DeviceNotDangling
  <1> QED  BY <1>1, FilesHold, PTL

-----------------------------------------------------------------------------
(* Goroutines that take turns.                                             *)

(* One at a time.                                                          *)
OneBusy == \A t, u \in Threads : todo[t] # <<>> /\ todo[u] # <<>> => t = u

(* The drives without a device's file that is there, and the files that,   *)
(* where they are, may be detached.                                        *)
MayEmpty  == {d \in Drives : slot[d] \notin currentFiles}
MayDetach == {p \in Anything : slot[p[1]] = p[2] => p[2] \notin currentFiles}
KeyboardsMay == [empty |-> MayEmpty, detach |-> MayDetach, attach |-> NoDevices, copy |-> {},
                 unmount |-> MountpointsOf, media |-> Media, loops |-> UnmountLoops]

KeyboardsHarmless == \A t \in Keyboards : todo[t] \in Seq(Sparing(KeyboardsMay))

(* Who may do more has more steps.                                         *)
LEMMA SpareMore ==
  ASSUME NEW may, NEW more, may.empty \subseteq more.empty, may.detach \subseteq more.detach,
         may.attach \subseteq more.attach, may.copy \subseteq more.copy, may.unmount \subseteq more.unmount,
         may.media \subseteq more.media, may.loops \subseteq more.loops
  PROVE  Seq(Sparing(may)) \subseteq Seq(Sparing(more))
  <1>1. Calm(may) \subseteq Calm(more)
    BY DEF Calm
  <1>2. Seq(Calm(may)) \subseteq Seq(Calm(more))
    BY <1>1, SeqMonotonic
  <1>3. Sparing(may) \subseteq Sparing(more)
    <2>1. ASSUME NEW s \in Sparing(may) PROVE s \in Sparing(more)
      <3>1. CASE s \in Calm(may)
        BY <1>1, <3>1 DEF Sparing
      <3>2. CASE s \notin Calm(may)
        BY <1>2, <3>2 DEF Sparing
      <3> QED  BY <3>1, <3>2
    <2> QED  BY <2>1
  <1> QED  BY <1>3, SeqMonotonic

(* What a keyboard may do is allowed.                                      *)
LEMMA KeyboardsAllowed ==
  ASSUME LInv
  PROVE  /\ Allowed(KeyboardsMay) /\ KeyboardsMay.unmount = MountpointsOf
         /\ KeyboardsMay.media = Media /\ KeyboardsMay.loops = UnmountLoops /\ "each" \in KeyboardsMay.loops
  <1>1. /\ currentFiles \subseteq Devices /\ \A d \in Drives : slot[d] \in Slottable
        /\ \A m \in Media : FilesOf(m) \union {None, Missing} \subseteq Slottable \ Devices
    BY MediaSpare DEF LInv, Types
  <1> QED  BY <1>1 DEF Allowed, KeyboardsMay, MayEmpty, MayDetach, Anything, NoDevices, UnmountLoops

(* What a step of a goroutine leaves alone.                                *)
LEMMA WorkKeeps ==
  ASSUME NEW t \in Threads, Work(t)
  PROVE  overlaps' = overlaps /\ currentFiles' = currentFiles /\ oldFiles' = oldFiles /\ todo[t] # <<>>
  <1> USE DEF counters, Goes, listAndPolls, pollVars, Doing
  <1>1. CASE LookForDetach(t) \/ DetachSlot(t) \/ LookForAttach(t) \/ AttachSlot(t)
    BY <1>1 DEF LookForDetach, DetachSlot, LookForAttach, AttachSlot
  <1>2. CASE MountMountpoint(t) \/ LoadToAdd(t) \/ AddMountpoint(t)
               \/ UnmountMountpoint(t) \/ FindToRemove(t) \/ LoadToRemove(t) \/ RemoveMountpoint(t)
    BY <1>2 DEF MountMountpoint, LoadToAdd, AddMountpoint, Stores, UnmountMountpoint, FindToRemove,
                LoadToRemove, RemoveMountpoint
  <1>3. CASE DetachMountpointROM(t) \/ FreeFile(t) \/ EjectNext(t) \/ InsertNext(t) \/ UnmountNext(t)
    BY <1>3 DEF DetachMountpointROM, FreeFile, EjectNext, InsertNext, UnmountNext
  <1>4. CASE TakeSource(t) \/ TakeTarget(t) \/ Copy(t)
    BY <1>4 DEF TakeSource, TakeTarget, Copy
  <1>5. CASE BeginRound(t) \/ UnmountEach(t) \/ ReportUnmounted(t) \/ SetRerunEmulator(t) \/ End(t)
    BY <1>5 DEF BeginRound, UnmountEach, ReportUnmounted, SetRerunEmulator, End
  <1> QED  BY <1>1, <1>2, <1>3, <1>4, <1>5 DEF Work

(* A goroutine only changes its own steps.                                 *)
LEMMA WorkMoves ==
  ASSUME NEW t \in Threads, Work(t)
  PROVE  \E q : todo' = [todo EXCEPT ![t] = q]
  <1> USE DEF Goes, Then
  <1>1. CASE LookForDetach(t) \/ DetachSlot(t) \/ LookForAttach(t) \/ AttachSlot(t)
    BY <1>1 DEF LookForDetach, DetachSlot, LookForAttach, AttachSlot
  <1>2. CASE MountMountpoint(t) \/ LoadToAdd(t) \/ AddMountpoint(t)
               \/ UnmountMountpoint(t) \/ FindToRemove(t) \/ LoadToRemove(t) \/ RemoveMountpoint(t)
    BY <1>2 DEF MountMountpoint, LoadToAdd, AddMountpoint, Stores, UnmountMountpoint, FindToRemove,
                LoadToRemove, RemoveMountpoint
  <1>3. CASE DetachMountpointROM(t) \/ FreeFile(t) \/ EjectNext(t) \/ InsertNext(t) \/ UnmountNext(t)
    BY <1>3 DEF DetachMountpointROM, FreeFile, EjectNext, InsertNext, UnmountNext
  <1>4. CASE TakeSource(t) \/ TakeTarget(t) \/ Copy(t)
    BY <1>4 DEF TakeSource, TakeTarget, Copy
  <1>5. CASE BeginRound(t) \/ UnmountEach(t) \/ ReportUnmounted(t) \/ SetRerunEmulator(t) \/ End(t)
    BY <1>5 DEF BeginRound, UnmountEach, ReportUnmounted, SetRerunEmulator, End
  <1> QED  BY <1>1, <1>2, <1>3, <1>4, <1>5 DEF Work

(* Every step is one of a goroutine's, or its start on something, or       *)
(* touches no goroutine.                                                   *)
LEMMA Turn ==
  ASSUME [Next]_vars
  PROVE  \/ UNCHANGED <<todo, overlaps, slot, currentFiles, oldFiles>>
         \/ \E t \in Threads : Work(t)
         \/ \E t \in Threads : \E q : Begin(t, q) /\ slot' = slot
  <1>1. CASE Plug \/ UNCHANGED vars
    BY <1>1 DEF Plug, vars, counters, listAndPolls, pollVars
  <1>2. CASE BlockDevices \/ Discovery \/ Signal
    BY <1>2 DEF BlockDevices, Discovery, Signal, Threads
  <1>3. ASSUME NEW t \in Keyboards, Keyboard(t) PROVE \E q : Begin(t, q) /\ slot' = slot
    <2>1. \E q : Command(t, q)
      BY <1>3 DEF Keyboard, InsertFromSourceIndexToTargetIndex, InsertByDiskNo, InsertToManyIndex,
                  EjectFromSourceIndex, EjectFromSourceIndexAll, UnmountFromSourceIndex, UnmountAll, LowLevelCopy
    <2> QED  BY <2>1 DEF Command
  <1> QED  BY <1>1, <1>2, <1>3 DEF Next, Threads

(* As long as no goroutine starts while another one is busy, one is.       *)
LEMMA TurnsTaken ==
  ASSUME LInv, overlaps = 0 => OneBusy, [Next]_vars, overlaps' = 0
  PROVE  overlaps = 0 /\ OneBusy'
  <1>0. DOMAIN todo = Threads /\ overlaps \in Nat
    BY DEF LInv, TodosOK, Types
  <1>1. CASE UNCHANGED <<todo, overlaps, slot, currentFiles, oldFiles>>
    BY <1>1 DEF OneBusy
  <1>2. ASSUME NEW t \in Threads, Work(t) PROVE overlaps = 0 /\ OneBusy'
    <2>1. PICK q : todo' = [todo EXCEPT ![t] = q]
      BY <1>2, WorkMoves
    <2> QED  BY <1>0, <1>2, <2>1, WorkKeeps DEF OneBusy
  <1>3. ASSUME NEW t \in Threads, NEW q, Begin(t, q) PROVE overlaps = 0 /\ OneBusy'
    <2>1. overlaps = 0 /\ (q = <<>> \/ Busy = {})
      BY <1>0, <1>3 DEF Begin
    <2>2. todo' = [todo EXCEPT ![t] = q]
      BY <1>3 DEF Begin
    <2> QED  BY <1>0, <2>1, <2>2 DEF OneBusy, Busy
  <1> QED  BY <1>1, <1>2, <1>3, Turn

(* What the keyboards do stays harmless as long as more becomes so.        *)
LEMMA KeyboardsOn ==
  ASSUME \A d \in Drives : slot[d] \notin currentFiles => slot'[d] \notin currentFiles',
         \A d \in Drives : slot'[d] \in currentFiles' => slot'[d] = slot[d],
         \A t \in Keyboards : todo'[t] \in Seq(Sparing(KeyboardsMay))
  PROVE  KeyboardsHarmless'
  <1>1. MayEmpty \subseteq (MayEmpty)'
    BY DEF MayEmpty
  <1>2. MayDetach \subseteq (MayDetach)'
    <2>1. ASSUME NEW p \in Anything, slot[p[1]] = p[2] => p[2] \notin currentFiles, slot'[p[1]] = p[2]
          PROVE  p[2] \notin currentFiles'
      <3>1. p[1] \in Drives
        BY DEF Anything
      <3> QED  BY <2>1, <3>1
    <2> QED  BY <2>1 DEF MayDetach
  <1> DEFINE now == KeyboardsMay
             then == (KeyboardsMay)'
  <1>3. /\ now.empty \subseteq then.empty /\ now.detach \subseteq then.detach
        /\ now.attach \subseteq then.attach /\ now.copy \subseteq then.copy /\ now.unmount \subseteq then.unmount
        /\ now.media \subseteq then.media /\ now.loops \subseteq then.loops
    BY <1>1, <1>2 DEF KeyboardsMay
  <1>4. \A t \in Keyboards : todo'[t] \in Seq(Sparing(now))
    OBVIOUS
  <1> HIDE DEF now, then
  <1>5. \A t \in Keyboards : todo'[t] \in Seq(Sparing(then))
    BY <1>3, <1>4, SpareMore
  <1> QED  BY <1>5 DEF KeyboardsHarmless, then

(* A step of a goroutine: the keyboards but this one are idle.             *)
LEMMA KeyboardsWork ==
  ASSUME LInv, FInv, OneBusy, KeyboardsHarmless, NEW t \in Threads, Work(t)
  PROVE  KeyboardsHarmless'
  <1>1. DOMAIN todo = Threads /\ Keyboards \subseteq Threads
    BY DEF LInv, TodosOK, Threads
  <1>2. todo[t] # <<>> /\ currentFiles' = currentFiles
    BY WorkKeeps
  <1>3. PICK q : todo' = [todo EXCEPT ![t] = q]
    BY WorkMoves
  <1>4. \A u \in Keyboards \ {t} : todo'[u] = <<>>
    BY <1>1, <1>2, <1>3 DEF OneBusy
  <1>5. <<>> \in Seq(Sparing(KeyboardsMay))
    OBVIOUS
  <1>6. CASE t \in Keyboards
    <2>1. t \in Threads \ {"discovery"} /\ todo[t] \in Seq(Sparing(KeyboardsMay))
      BY <1>6, ConstantsAssumption DEF KeyboardsHarmless
    <2>2. todo'[t] \in Seq(Sparing(KeyboardsMay))
      <3>1. Spares(t, KeyboardsMay)
        BY <2>1, KeyboardsAllowed, SpareWork
      <3> QED  BY <1>1, <3>1 DEF Spares
    <2>3. \A d \in Drives : slot'[d] = slot[d] \/ slot'[d] \notin Devices
      BY <2>1, OtherLeaves
    <2>4. currentFiles \subseteq Devices
      BY DEF LInv, Types
    <2>5. \A u \in Keyboards : todo'[u] \in Seq(Sparing(KeyboardsMay))
      BY <1>4, <1>5, <2>2
    <2> QED  BY <1>2, <2>3, <2>4, <2>5, KeyboardsOn
  <1>7. CASE t \notin Keyboards
    <2>1. \A u \in Keyboards : todo'[u] = <<>>
      BY <1>4, <1>7
    <2>2. <<>> \in Seq(Sparing((KeyboardsMay)'))
      OBVIOUS
    <2> QED  BY <2>1, <2>2 DEF KeyboardsHarmless
  <1> QED  BY <1>6, <1>7

(* Nothing that the keyboards' steps depend on changes.                    *)
LEMMA KeyboardsRest ==
  ASSUME KeyboardsHarmless, slot' = slot, currentFiles' = currentFiles,
         \A t \in Keyboards : todo'[t] = todo[t] \/ todo'[t] \in Seq(Sparing(KeyboardsMay))
  PROVE  KeyboardsHarmless'
  <1>1. \A t \in Keyboards : todo'[t] \in Seq(Sparing(KeyboardsMay))
    BY DEF KeyboardsHarmless
  <1> QED  BY <1>1, KeyboardsOn

(* A look of the discovery for files: it has told of all there were, so    *)
(* the device's files in the drives were all there.                        *)
LEMMA KeyboardsLook ==
  ASSUME LInv, FInv, KeyboardsHarmless, Discovery
  PROVE  KeyboardsHarmless'
  <1>1. DOMAIN todo = Threads /\ Keyboards \subseteq Threads \ {"discovery"} /\ oldFiles \subseteq Devices
    BY ConstantsAssumption DEF LInv, TodosOK, Types, Threads
  <1>2. slot' = slot /\ todo["discovery"] = <<>> /\ \E q : todo' = [todo EXCEPT !["discovery"] = q]
    BY DEF Discovery, Begin
  <1>3. \A t \in Keyboards : todo'[t] \in Seq(Sparing(KeyboardsMay))
    BY <1>1, <1>2 DEF KeyboardsHarmless
  <1>4. \/ currentFiles' = currentFiles
        \/ oldFiles \subseteq currentFiles /\ currentFiles' = plugged \intersect Devices
    BY DEF Discovery
  <1>5. \A d \in Drives : slot[d] \in Devices => slot[d] \in oldFiles
    <2>1. \A d, f : ~Leaving(<<>>, d, f)
      BY DEF Leaving
    <2> QED  BY <1>2, <2>1 DEF FInv, DeviceSlots
  <1>6. \A d \in Drives : slot[d] \notin currentFiles => slot'[d] \notin currentFiles'
    BY <1>2, <1>4, <1>5
  <1> QED  BY <1>2, <1>3, <1>6, KeyboardsOn

(* Every step that copies no disk and overlaps with nothing.               *)
LEMMA KeyboardsNext ==
  ASSUME LInv, FInv, OneBusy, KeyboardsHarmless, copies' = 0, [Next]_vars
  PROVE  KeyboardsHarmless'
  <1>1. DOMAIN todo = Threads /\ {"blockDevices", "signal"} \intersect Keyboards = {}
        /\ Keyboards \subseteq Threads
    BY ConstantsAssumption DEF LInv, TodosOK, Threads
  <1>2. CASE Plug \/ UNCHANGED vars
    <2>1. UNCHANGED <<slot, currentFiles, todo>>
      BY <1>2 DEF Plug, vars, listAndPolls, pollVars
    <2> QED  BY <2>1, KeyboardsRest
  <1>3. CASE BlockDevices
    <2>1. slot' = slot /\ currentFiles' = currentFiles /\ \E q : todo' = [todo EXCEPT !["blockDevices"] = q]
      BY <1>3 DEF BlockDevices, Begin
    <2> QED  BY <1>1, <2>1, KeyboardsRest
  <1>4. CASE Signal
    <2>1. slot' = slot /\ currentFiles' = currentFiles /\ \E q : todo' = [todo EXCEPT !["signal"] = q]
      BY <1>4 DEF Signal, Begin, pollVars
    <2> QED  BY <1>1, <2>1, KeyboardsRest
  <1>5. ASSUME NEW t \in Keyboards, Keyboard(t) PROVE KeyboardsHarmless'
    <2>1. PICK q \in Seq(Sparing(KeyboardsMay)) : Command(t, q)
      BY <1>5, KeyboardsAllowed, KeyboardSpares
    <2>2. todo' = [todo EXCEPT ![t] = q] /\ slot' = slot /\ currentFiles' = currentFiles
      BY <2>1 DEF Command, Begin, pollVars
    <2> QED  BY <1>1, <2>1, <2>2, KeyboardsRest
  <1>6. ASSUME NEW t \in Threads, Work(t) PROVE KeyboardsHarmless'
    BY <1>6, KeyboardsWork
  <1> QED  BY <1>2, <1>3, <1>4, <1>5, <1>6, KeyboardsLook DEF Next

(* The invariant.                                                          *)
KInv == (overlaps = 0 => OneBusy) /\ (overlaps = 0 /\ copies = 0 => KeyboardsHarmless)

(* Until goroutines overlap or a disk is copied, no keyboard takes out a   *)
(* file of amiga_disk_devices that is there, though ??EjectFromSourceIndex *)
(* and the others ask HasFile long before detach??: such a file comes into *)
(* a drive only by the discovery, which is idle then, and one that its     *)
(* last look did not find can not be in a drive at the next, when it is    *)
(* back.                                                                   *)
THEOREM KeyboardsSpare == Spec => []KeyboardsSpareDevices
  <1>1. Init => KInv
    <2>1. ASSUME Init PROVE \A t \in Threads : todo[t] = <<>>
      BY <2>1 DEF Init
    <2>2. <<>> \in Seq(Sparing(KeyboardsMay)) /\ Keyboards \subseteq Threads
      BY DEF Threads
    <2> QED  BY <2>1, <2>2 DEF KInv, OneBusy, KeyboardsHarmless
  <1>2. LInv /\ (copies = 0 => FInv) /\ KInv /\ [Next]_vars => KInv'
    <2> SUFFICES ASSUME LInv, copies = 0 => FInv, KInv, [Next]_vars
                 PROVE  KInv'
      OBVIOUS
    <2>1. overlaps' = 0 => overlaps = 0 /\ OneBusy'
      BY TurnsTaken DEF KInv
    <2>2. overlaps' = 0 /\ copies' = 0 => KeyboardsHarmless'
      BY <2>1, KeyboardsNext, CopiesStay DEF KInv
    <2> QED  BY <2>1, <2>2 DEF KInv
  <1>3. LInv /\ KInv => KeyboardsSpareDevices
    <2> SUFFICES ASSUME LInv, KInv, overlaps = 0, copies = 0, NEW t \in Keyboards, Doing(t, "clear")
                 PROVE  slot[Now(t).d] \notin currentFiles
      BY DEF KeyboardsSpareDevices
    <2>1. t \in Threads /\ todo[t] \in Seq(Sparing(KeyboardsMay))
      BY DEF KInv, KeyboardsHarmless, Threads
    <2>2. Now(t) \in Sparing(KeyboardsMay) /\ Now(t).do = "clear"
      BY <2>1, KeyboardsAllowed, SpareOn
    <2>3. Now(t).d \in KeyboardsMay.empty
      BY <2>2, KeyboardsAllowed, SpareKinds
    <2> QED  BY <2>3 DEF KeyboardsMay, MayEmpty
  <1> QED  BY <1>1, <1>2, <1>3, FilesHold, InvariantHolds, PTL DEF Spec

-----------------------------------------------------------------------------
(* Files in drives of their kind.                                          *)

(* The files that fit a drive: those of no medium, or of one of its kind.  *)
Fitting == {p \in Anything : \A m \in Media : p[2] \in FilesOf(m) => Kind[p[1]] = Kind[Home[m]]}
AllMay == [empty |-> Drives, detach |-> Anything, attach |-> Fitting, copy |-> Drives,
           unmount |-> MountpointsOf, media |-> Media, loops |-> UnmountLoops]

(* Whatever the goroutines do to each other, a drive holds only a file     *)
(* that fits, and nobody has another to attach.                            *)
SlotsFit == \A d \in Drives : <<d, slot[d]>> \in Fitting
TodosFit == \A t \in Threads : todo[t] \in Seq(Sparing(AllMay))

LEMMA FittingAllowed ==
  ASSUME LInv, SlotsFit
  PROVE  Allowed(AllMay)
  <1>1. ASSUME NEW d \in Drives, NEW m \in Media, Kind[d] = Kind[Home[m]],
               NEW f \in FilesOf(m) \union {None, Missing}
        PROVE  <<d, f>> \in Fitting
    <2>1. f \in Slottable
      BY MediaSpare
    <2>2. ASSUME NEW n \in Media, f \in FilesOf(n) PROVE n = m
      <3>1. f \in Images
        BY <2>2 DEF Images
      <3>2. f \in FilesOf(m)
        BY <3>1, ConstantsAssumption
      <3> QED  BY <2>2, <3>2, ConstantsAssumption
    <2> QED  BY <1>1, <2>1, <2>2 DEF Fitting, Anything
  <1>2. \A d \in Drives : slot[d] \in Slottable /\ \A f \in Slottable : <<d, f>> \in Anything
    BY DEF LInv, Types, Anything
  <1> QED  BY <1>1, <1>2 DEF Allowed, AllMay, SlotsFit, UnmountLoops

(* The operations of the discovery.                                        *)
LEMMA DiscoverySpares ==
  ASSUME LInv, NEW may, Allowed(may), may.detach = Anything, NEW f \in Devices,
         \A d \in Drives : <<d, f>> \in may.attach
  PROVE  AttachDevice(f) \in Seq(Sparing(may)) /\ DetachDevice(f) \in Seq(Sparing(may))
  <1> DEFINE k == Kind[DeviceDrive[f]]
  <1>1. f \in Slottable /\ DeviceDrive[f] \in Drives
    BY FilesFacts
  <1>2. ASSUME NEW d \in Drives
        PROVE  /\ (Before(k) \o <<Attach(d, f, After(k))>>) \o After(k) \in Seq(Sparing(may))
               /\ (Before(k) \o <<Detach(d, f, After(k))>>) \o After(k) \in Seq(Sparing(may))
    <2> DEFINE a == Attach(d, f, After(k))
               b == Detach(d, f, After(k))
    <2>1. After(k) \in Seq(Calm(may)) /\ <<d, f>> \in may.detach /\ <<d, f>> \in may.attach
      BY <1>1, SpareBrackets DEF Anything
    <2>2. a \in Sparing(may) /\ b \in Sparing(may)
      BY <1>1, <2>1, SpareMade
    <2>3. Before(k) \in Seq(Sparing(may)) /\ After(k) \in Seq(Sparing(may))
      BY SpareBrackets
    <2> HIDE DEF a, b, k
    <2>4. <<a>> \in Seq(Sparing(may)) /\ <<b>> \in Seq(Sparing(may))
      BY <2>2
    <2>5. \A p \in Seq(Sparing(may)) : (Before(k) \o p) \o After(k) \in Seq(Sparing(may))
      BY <2>3, SpareSeqs
    <2> QED  BY <2>4, <2>5 DEF a, b
  <1>3. AttachDevice(f) \in Seq(Sparing(may))
    <2>1. CASE k = "HD" /\ ~IsHeld(k, None)
      BY <2>1, SpareSeqs DEF AttachDevice
    <2>2. CASE ~(k = "HD" /\ ~IsHeld(k, None))
      <3> DEFINE d == IF k = "HD" THEN FirstDrive(k, None) ELSE DeviceDrive[f]
      <3>1. d \in Drives
        BY <1>1, <2>2, FoundDrive
      <3>2. AttachDevice(f) = (Before(k) \o <<Attach(d, f, After(k))>>) \o After(k)
        BY <2>2 DEF AttachDevice
      <3> HIDE DEF d, k
      <3> QED  BY <1>2, <3>1, <3>2
    <2> QED  BY <2>1, <2>2
  <1>4. DetachDevice(f) \in Seq(Sparing(may))
    <2>1. CASE k = "HD" /\ ~IsHeld(k, f)
      BY <2>1, SpareSeqs DEF DetachDevice
    <2>2. CASE ~(k = "HD" /\ ~IsHeld(k, f))
      <3> DEFINE d == IF k = "HD" THEN FirstDrive(k, f) ELSE DeviceDrive[f]
      <3>1. d \in Drives
        BY <1>1, <2>2, FoundDrive
      <3>2. DetachDevice(f) = (Before(k) \o <<Detach(d, f, After(k))>>) \o After(k)
        BY <2>2 DEF DetachDevice
      <3> HIDE DEF d, k
      <3> QED  BY <1>2, <3>1, <3>2
    <2> QED  BY <2>1, <2>2
  <1> QED  BY <1>3, <1>4

(* A goroutine starts only on what it may do.                              *)
LEMMA AllBegin ==
  ASSUME LInv, NEW may, Allowed(may), may.detach = Anything, may.copy = Drives, Fitting \subseteq may.attach,
         may.media = Media, may.loops = UnmountLoops, [Next]_vars
  PROVE  \/ slot' = slot /\ todo' = todo
         \/ \E t \in Threads : Work(t)
         \/ \E t \in Threads : /\ slot' = slot /\ \E q : Begin(t, q)
                               /\ t # "blockDevices" \/ may.unmount = MountpointsOf => Spares(t, may)
  <1>1. CASE Plug \/ UNCHANGED vars
    BY <1>1 DEF Plug, vars
  <1>2. CASE BlockDevices
    <2>1. oldBlocks \subseteq Media /\ blocks \subseteq Media
      BY DEF LInv, Types
    <2>2. slot' = slot /\ "blockDevices" \in Threads /\ \E q : Begin("blockDevices", q)
      BY <1>2 DEF BlockDevices, Threads
    <2>4. ~ended
      BY <1>2 DEF BlockDevices, Begin
    <2>3. ASSUME may.unmount = MountpointsOf PROVE Spares("blockDevices", may)
      <3>1. \E q \in Seq(Sparing(may)) : Begin("blockDevices", q)
        BY <1>2, <2>1, <2>3, <2>4, BlockDevicesSpare, SpareSeqs DEF BlockDevices
      <3> QED  BY <3>1 DEF Begin, Spares
    <2> QED  BY <2>2, <2>3
  <1>3. CASE Discovery
    <2>1. oldFiles \subseteq Devices /\ currentFiles \subseteq Devices
      BY DEF LInv, Types
    <2>2. \A f \in Devices, d \in Drives : <<d, f>> \in may.attach
      BY ConstantsAssumption DEF Fitting, Anything, Slottable, Images
    <2>3. \E q \in Seq(Sparing(may)) : Begin("discovery", q)
      BY <1>3, <2>1, <2>2, DiscoverySpares, SpareSeqs DEF Discovery
    <2> QED  BY <1>3, <2>3 DEF Discovery, Begin, Spares, Threads
  <1>4. CASE Signal
    <2> DEFINE s == Round(1)
    <2>1. s \in Sparing(may) /\ Report \in Sparing(may) /\ Stop \in Sparing(may)
      BY SpareMade, LoopsMade, SpareSeqs DEF UnmountLoops
    <2>2. Begin("signal", <<s, Report, Stop>>) /\ slot' = slot
      BY <1>4 DEF Signal
    <2> HIDE DEF s, Report, Stop
    <2>3. <<s, Report, Stop>> \in Seq(Sparing(may))
      BY <2>1
    <2> QED  BY <2>2, <2>3 DEF Begin, Spares, Threads
  <1>5. ASSUME NEW t \in Keyboards, Keyboard(t)
        PROVE  slot' = slot /\ Spares(t, may) /\ \E q : Begin(t, q)
    <2>1. PICK q \in Seq(Sparing(may)) : Command(t, q)
      BY <1>5, KeyboardSpares
    <2>2. slot' = slot /\ Begin(t, q)
      BY <2>1 DEF Command
    <2> QED  BY <2>2 DEF Begin, Spares
  <1> QED  BY <1>1, <1>2, <1>3, <1>4, <1>5 DEF Next, Threads

(* A step changes a slot only if it is one of these.                       *)
LEMMA WorkSlots ==
  ASSUME NEW t, Work(t)
  PROVE  slot' = slot \/ DetachSlot(t) \/ AttachSlot(t)
  <1> USE DEF Goes
  <1>1. CASE LookForDetach(t) \/ LookForAttach(t) \/ DetachMountpointROM(t) \/ FreeFile(t)
             \/ EjectNext(t) \/ InsertNext(t) \/ UnmountNext(t) \/ ReportUnmounted(t)
    BY <1>1 DEF LookForDetach, LookForAttach, DetachMountpointROM, FreeFile, EjectNext, InsertNext,
                UnmountNext, ReportUnmounted
  <1>2. CASE MountMountpoint(t) \/ LoadToAdd(t) \/ AddMountpoint(t)
               \/ UnmountMountpoint(t) \/ FindToRemove(t) \/ LoadToRemove(t) \/ RemoveMountpoint(t)
    BY <1>2 DEF MountMountpoint, LoadToAdd, AddMountpoint, Stores, UnmountMountpoint, FindToRemove,
                LoadToRemove, RemoveMountpoint
  <1>3. CASE TakeSource(t) \/ TakeTarget(t) \/ Copy(t)
    BY <1>3 DEF TakeSource, TakeTarget, Copy
  <1>4. CASE BeginRound(t) \/ UnmountEach(t) \/ SetRerunEmulator(t) \/ End(t)
    BY <1>4 DEF BeginRound, UnmountEach, SetRerunEmulator, End
  <1> QED  BY <1>1, <1>2, <1>3, <1>4 DEF Work

LEMMA FitNext ==
  ASSUME LInv, SlotsFit, TodosFit, [Next]_vars
  PROVE  SlotsFit' /\ TodosFit'
  <1>1. DOMAIN todo = Threads /\ DOMAIN slot = Drives
    BY DEF LInv, TodosOK, Types
  <1>2. Allowed(AllMay) /\ AllMay.detach = Anything /\ AllMay.copy = Drives /\ AllMay.unmount = MountpointsOf
        /\ AllMay.attach = Fitting /\ AllMay.media = Media /\ AllMay.loops = UnmountLoops
    BY FittingAllowed DEF AllMay
  <1>3. ASSUME NEW t \in Threads, Spares(t, AllMay) PROVE TodosFit'
    BY <1>1, <1>3 DEF TodosFit, Spares
  <1>4. ASSUME NEW t \in Threads, Work(t) PROVE SlotsFit' /\ TodosFit'
    <2>1. todo[t] \in Seq(Sparing(AllMay)) /\ Spares(t, AllMay)
      BY <1>2, <1>4, SpareWork DEF TodosFit, UnmountLoops
    <2>2. SlotsFit'
      <3>1. CASE slot' = slot
        BY <3>1 DEF SlotsFit
      <3>2. CASE DetachSlot(t)
        <4>1. slot' = [slot EXCEPT ![Now(t).d] = None]
          BY <3>2 DEF DetachSlot
        <4>2. \A d \in Drives : <<d, None>> \in Fitting
          <5>1. None \in Slottable
            BY DEF Slottable
          <5>2. \A m \in Media : FilesOf(m) \subseteq Images
            BY DEF Images
          <5>3. None \notin Images
            BY ConstantsAssumption
          <5> QED  BY <5>1, <5>2, <5>3 DEF Fitting, Anything
        <4> QED  BY <1>1, <4>1, <4>2 DEF SlotsFit
      <3>3. CASE AttachSlot(t)
        <4>1. Doing(t, "fill") /\ (slot' = slot \/ slot' = [slot EXCEPT ![Now(t).d] = Now(t).f])
          BY <3>3 DEF AttachSlot
        <4>2. <<Now(t).d, Now(t).f>> \in Fitting
          <5>1. Now(t) \in Sparing(AllMay) /\ Now(t).do = "fill"
            BY <1>2, <2>1, <4>1, SpareOn
          <5> QED  BY <1>2, <5>1, SpareKinds
        <4> QED  BY <1>1, <4>1, <4>2 DEF SlotsFit
      <3> QED  BY <1>4, <3>1, <3>2, <3>3, WorkSlots
    <2> QED  BY <1>3, <2>1, <2>2
  <1>5. CASE slot' = slot /\ todo' = todo
    BY <1>5 DEF SlotsFit, TodosFit
  <1>6. ASSUME NEW t \in Threads, slot' = slot, Spares(t, AllMay) PROVE SlotsFit' /\ TodosFit'
    BY <1>3, <1>6 DEF SlotsFit
  <1> QED  BY <1>2, <1>4, <1>5, <1>6, AllBegin

-----------------------------------------------------------------------------
(* Unmounting.                                                             *)

(* What a keyboard or a signal does but for unmounting.                    *)
QuietMay == [empty |-> Drives, detach |-> Anything, attach |-> Anything, copy |-> Drives,
             unmount |-> {}, media |-> Media, loops |-> UnmountLoops]

(* Steps that empty drives before mp is unmounted.                         *)
Emptying(mp) == [do : {"rom"}, d : Drives, mp : {mp}] \union [do : {"clear"}, d : Drives]

(* Step i of q unmounts; the steps before empty each drive in D that holds *)
(* a file of the medium, and no other is unmounted after.                  *)
UnmountsAt(q, i, D) ==
    /\ q[i] \in [do : {"unmount"}, mp : MountpointsOf, remove : {TRUE}]
    /\ \A j \in 1..i - 1 : q[j] \in Emptying(q[i].mp)
    /\ \A j \in i + 1..Len(q) : q[j] \in Calm(QuietMay)
    /\ \A d \in D : slot[d] \in FilesOf(q[i].mp.medium) => \E j \in 1..i - 1 : q[j].d = d
Unmounts(q, D) == \E i \in 1..Len(q) : UnmountsAt(q, i, D)

(* The steps of a goroutine that unmounts: it empties drives, or has found *)
(* the file it is about to detach, or has emptied all and is about to      *)
(* remove the mountpoint from the list.                                    *)
Unmounting(q) ==
    /\ q # <<>>
    /\ \/ Unmounts(q, Drives)
       \/ /\ Head(q).do = "detach" /\ Head(q).d \in Drives /\ Head(q).f = slot[Head(q).d]
          /\ Unmounts(Tail(q), Drives \ {Head(q).d})
       \/ /\ Head(q).do = "unlist" /\ Tail(q) \in Seq(Calm(QuietMay))
          /\ \A d \in Drives : slot[d] \notin FilesOf(Head(q).mp.medium)
       \/ Head(q).do \in {"load", "delete"} /\ Tail(q) \in Seq(Calm(QuietMay))

(* Keyboards and the signal do nothing else.                               *)
UnmountsOK ==
    \A t \in Threads \ {"blockDevices"} : todo[t] \in Seq(Sparing(QuietMay)) \/ Unmounting(todo[t])

LEMMA QuietAllowed ==
  ASSUME LInv
  PROVE  Allowed(QuietMay)
  <1>1. /\ \A d \in Drives : slot[d] \in Slottable
        /\ \A m \in Media : FilesOf(m) \union {None, Missing} \subseteq Slottable
    BY MediaSpare DEF LInv, Types
  <1> QED  BY <1>1 DEF Allowed, QuietMay, Anything, UnmountLoops

(* The first step, and the others.                                         *)
LEMMA UnmountsTail ==
  ASSUME NEW S, NEW q \in Seq(S), q # <<>>, NEW D, NEW i \in 1..Len(q), UnmountsAt(q, i, D), i # 1
  PROVE  /\ i - 1 \in 1..Len(Tail(q)) /\ Tail(q)[i - 1] = q[i] /\ Head(q) \in Emptying(q[i].mp)
         /\ UnmountsAt(Tail(q), i - 1, D \ {Head(q).d})
  <1>1. /\ Len(q) \in Nat /\ Len(q) > 0 /\ Head(q) = q[1] /\ Len(Tail(q)) = Len(q) - 1
        /\ \A j \in 1..Len(q) - 1 : Tail(q)[j] = q[j + 1]
    BY HeadTailProperties, EmptySeq, LenProperties
  <1> DEFINE r == Tail(q)
             n == Len(q)
  <1>2. i \in 2..n /\ n \in Nat
    BY <1>1
  <1>3. r[i - 1] = q[i] /\ i - 1 \in 1..Len(r)
    BY <1>1, <1>2
  <1> HIDE DEF r, n
  <1>4. \A j \in 1..(i - 1) - 1 : r[j] = q[j + 1] /\ j + 1 \in 1..i - 1
    BY <1>1, <1>2 DEF r, n
  <1>5. \A j \in (i - 1) + 1..Len(r) : r[j] = q[j + 1] /\ j + 1 \in i + 1..Len(q)
    BY <1>1, <1>2 DEF r, n
  <1>6. ASSUME NEW d \in D \ {Head(q).d}, slot[d] \in FilesOf(r[i - 1].mp.medium)
        PROVE  \E j \in 1..(i - 1) - 1 : r[j].d = d
    <2>1. PICK j \in 1..i - 1 : q[j].d = d
      BY <1>3, <1>6 DEF UnmountsAt
    <2>2. j # 1
      BY <1>1, <1>6, <2>1
    <2>3. j - 1 \in 1..(i - 1) - 1 /\ (j - 1) + 1 = j
      BY <1>2, <2>2
    <2>4. r[j - 1] = q[j]
      BY <1>4, <2>3
    <2> QED  BY <2>1, <2>3, <2>4
  <1>7. Head(q) \in Emptying(q[i].mp)
    BY <1>1, <1>2 DEF UnmountsAt
  <1>8. UnmountsAt(r, i - 1, D \ {Head(q).d})
    BY <1>3, <1>4, <1>5, <1>6 DEF UnmountsAt
  <1> QED  BY <1>3, <1>7, <1>8 DEF r

(* The loops of ??UnmountFromSourceIndex and unmountAll make such steps.   *)
LEMMA UnmountsMade ==
  ASSUME NEW mp \in MountpointsOf, NEW p \in Seq(Emptying(mp)), NEW r \in Seq(Calm(QuietMay)),
         \A d \in Drives : slot[d] \in FilesOf(mp.medium) => \E j \in 1..Len(p) : p[j].d = d
  PROVE  Unmounts((p \o <<Unmount(mp, TRUE)>>) \o r, Drives)
  <1> DEFINE u == Unmount(mp, TRUE)
             S == Emptying(mp) \union {u} \union Calm(QuietMay)
             a == p \o <<u>>
             q == a \o r
             n == Len(p)
             i == n + 1
  <1>1. p \in Seq(S) /\ <<u>> \in Seq(S) /\ r \in Seq(S) /\ Len(<<u>>) = 1 /\ n \in Nat /\ Len(r) \in Nat
        /\ <<u>>[1] = u
    <2>1. p \in Seq(S) /\ r \in Seq(S)
      <3> HIDE DEF u
      <3> QED  BY SeqMonotonic
    <2>2. u \in S
      OBVIOUS
    <2> HIDE DEF u, S
    <2> QED  BY <2>1, <2>2, LenProperties
  <1>2. u \in [do : {"unmount"}, mp : MountpointsOf, remove : {TRUE}] /\ u.mp = mp
    BY DEF Unmount
  <1> HIDE DEF u, S
  <1>3. /\ a \in Seq(S) /\ Len(a) = n + 1
        /\ \A j \in 1..n + 1 : a[j] = IF j <= n THEN p[j] ELSE u
    <2>1. /\ a \in Seq(S) /\ Len(a) = n + 1
          /\ \A j \in 1..n + 1 : a[j] = IF j <= n THEN p[j] ELSE <<u>>[j - n]
      BY <1>1, ConcatProperties
    <2>2. \A j \in 1..n + 1 : ~(j <= n) => j - n = 1
      BY <1>1
    <2> QED  BY <1>1, <2>1, <2>2
  <1> HIDE DEF a, n
  <1>4. /\ Len(q) = (n + 1) + Len(r)
        /\ \A j \in 1..(n + 1) + Len(r) : q[j] = IF j <= n + 1 THEN a[j] ELSE r[j - (n + 1)]
    <2>1. /\ Len(q) = Len(a) + Len(r)
          /\ \A j \in 1..Len(a) + Len(r) : q[j] = IF j <= Len(a) THEN a[j] ELSE r[j - Len(a)]
      BY <1>1, <1>3, ConcatProperties
    <2> HIDE DEF q
    <2> QED  BY <1>3, <2>1
  <1> HIDE DEF q
  <1>5. i \in 1..Len(q) /\ q[i] = u
    BY <1>1, <1>3, <1>4
  <1>6. \A j \in 1..i - 1 : q[j] = p[j] /\ j \in 1..n
    BY <1>1, <1>3, <1>4
  <1>7. \A j \in i + 1..Len(q) : q[j] \in Calm(QuietMay)
    <2>1. \A j \in i + 1..Len(q) : q[j] = r[j - i] /\ j - i \in 1..Len(r)
      BY <1>1, <1>4
    <2> QED  BY <2>1
  <1>8. \A j \in 1..i - 1 : q[j] \in Emptying(mp)
    BY <1>6 DEF n
  <1>9. \A d \in Drives : slot[d] \in FilesOf(mp.medium) => \E j \in 1..i - 1 : q[j].d = d
    <2>1. 1..n = 1..i - 1
      BY <1>1
    <2> QED  BY <1>6, <2>1 DEF n
  <1> HIDE DEF i
  <1>10. UnmountsAt(q, i, Drives)
    BY <1>2, <1>5, <1>7, <1>8, <1>9 DEF UnmountsAt
  <1> QED  BY <1>5, <1>10 DEF Unmounts, q, a, u

(* Emptying one more drive first.                                          *)
LEMMA UnmountsCons ==
  ASSUME NEW S, NEW q \in Seq(S), NEW d \in Drives, Unmounts(q, Drives \ {d})
  PROVE  Unmounts(<<Clear(d)>> \o q, Drives)
  <1> DEFINE c == Clear(d)
             r == <<c>> \o q
             n == Len(q)
  <1>1. PICK i \in 1..n : UnmountsAt(q, i, Drives \ {d})
    BY DEF Unmounts
  <1>2. c.d = d /\ \A mp : c \in Emptying(mp)
    BY DEF Clear, Emptying
  <1> HIDE DEF c
  <1>3. /\ n \in Nat /\ Len(r) = n + 1 /\ r[1] = c /\ \A j \in 1..n : r[j + 1] = q[j]
    <2>1. <<c>> \in Seq(S \union {c}) /\ q \in Seq(S \union {c}) /\ Len(<<c>>) = 1 /\ <<c>>[1] = c
      BY SeqMonotonic
    <2>2. n \in Nat
      BY LenProperties
    <2>3. Len(r) = 1 + n /\ \A j \in 1..1 + n : r[j] = IF j <= 1 THEN <<c>>[j] ELSE q[j - 1]
      BY <2>1, <2>2, ConcatProperties
    <2>4. \A j \in 1..n : j + 1 \in 1..1 + n /\ ~(j + 1 <= 1) /\ (j + 1) - 1 = j
      BY <2>2
    <2> HIDE DEF r, n
    <2>5. r[1] = c
      BY <2>1, <2>2, <2>3
    <2>6. \A j \in 1..n : r[j + 1] = q[j]
      <3>1. ASSUME NEW j \in 1..n PROVE r[j + 1] = q[j]
        <4>1. j + 1 \in 1..1 + n /\ ~(j + 1 <= 1) /\ (j + 1) - 1 = j
          BY <2>4
        <4>2. r[j + 1] = q[(j + 1) - 1]
          BY <2>3, <4>1
        <4> QED  BY <4>1, <4>2
      <3> QED  BY <3>1
    <2> QED  BY <2>2, <2>3, <2>5, <2>6
  <1> HIDE DEF r, n
  <1>4. i + 1 \in 1..Len(r) /\ r[i + 1] = q[i]
    BY <1>3
  <1>5. \A j \in 1..(i + 1) - 1 : j = 1 \/ (j - 1 \in 1..i - 1 /\ r[j] = q[j - 1])
    <2>1. ASSUME NEW j \in 1..(i + 1) - 1, j # 1 PROVE j - 1 \in 1..i - 1 /\ r[j] = q[j - 1]
      <3>1. j - 1 \in 1..i - 1 /\ j - 1 \in 1..n /\ (j - 1) + 1 = j
        BY <1>3, <2>1
      <3>2. r[(j - 1) + 1] = q[j - 1]
        BY <1>3, <3>1
      <3> QED  BY <3>1, <3>2
    <2> QED  BY <2>1
  <1>6. \A j \in (i + 1) + 1..Len(r) : r[j] \in Calm(QuietMay)
    <2>1. ASSUME NEW j \in (i + 1) + 1..Len(r) PROVE r[j] \in Calm(QuietMay)
      <3>1. j - 1 \in i + 1..n /\ j - 1 \in 1..n /\ (j - 1) + 1 = j
        BY <1>3, <2>1
      <3>2. r[(j - 1) + 1] = q[j - 1]
        BY <1>3, <3>1
      <3>3. q[j - 1] \in Calm(QuietMay)
        BY <1>1, <3>1 DEF UnmountsAt, n
      <3> QED  BY <3>1, <3>2, <3>3
    <2> QED  BY <2>1
  <1>7. \A j \in 1..(i + 1) - 1 : r[j] \in Emptying(q[i].mp)
    BY <1>1, <1>2, <1>3, <1>5 DEF UnmountsAt
  <1>8. ASSUME NEW e \in Drives, slot[e] \in FilesOf(q[i].mp.medium)
        PROVE  \E j \in 1..(i + 1) - 1 : r[j].d = e
    <2>1. CASE e = d
      <3>1. 1 \in 1..(i + 1) - 1
        BY <1>3
      <3> QED  BY <1>2, <1>3, <2>1, <3>1
    <2>2. CASE e # d
      <3>1. PICK j \in 1..i - 1 : q[j].d = e
        BY <1>1, <1>8, <2>2 DEF UnmountsAt
      <3>2. j + 1 \in 1..(i + 1) - 1 /\ j \in 1..n
        BY <1>3, <3>1
      <3>3. r[j + 1] = q[j]
        BY <1>3, <3>2
      <3> QED  BY <3>1, <3>2, <3>3
    <2> QED  BY <2>1, <2>2
  <1>9. UnmountsAt(r, i + 1, Drives)
    BY <1>1, <1>4, <1>6, <1>7, <1>8 DEF UnmountsAt
  <1> QED  BY <1>4, <1>9 DEF Unmounts, r, c

(* There is something left to do.                                          *)
LEMMA UnmountsSome ==
  ASSUME NEW D
  PROVE  ~Unmounts(<<>>, D)
  BY DEF Unmounts

(* The drives that the loops go through.                                   *)
LEMMA AllDrivesOf ==
  ASSUME NEW d \in Drives
  PROVE  /\ \E j \in 1..Len(DrivesOf(Kind[d])) : DrivesOf(Kind[d])[j] = d
         /\ \E j \in 1..Len(DriveSeq) : DriveSeq[j] = d
  <1> DEFINE k == Kind[d]
  <1>1. /\ NumDrives["DF"] \in Nat /\ NumDrives["HD"] \in Nat /\ NumDrives["CD"] \in Nat
        /\ \A c \in Kinds : NumDrives[c] \in Nat
    BY ConstantsAssumption DEF Kinds
  <1>2. /\ First("DF") = 0 /\ First("HD") = NumDrives["DF"]
        /\ First("CD") = NumDrives["DF"] + NumDrives["HD"]
    BY DEF First
  <1>3. AllDrives = NumDrives["DF"] + NumDrives["HD"] + NumDrives["CD"] /\ d \in 0..AllDrives - 1
    BY <1>1, <1>2 DEF AllDrives, Drives
  <1>4. k \in Kinds /\ First(k) \in Nat /\ d - First(k) + 1 \in 1..NumDrives[k]
    <2>1. k = IF d < NumDrives["DF"] THEN "DF"
              ELSE IF d < NumDrives["DF"] + NumDrives["HD"] THEN "HD" ELSE "CD"
      BY <1>2 DEF Kind
    <2> HIDE DEF k
    <2> QED  BY <1>1, <1>2, <1>3, <2>1 DEF Kinds
  <1> HIDE DEF k
  <1>5. Len(DrivesOf(k)) = NumDrives[k] /\ \A j \in 1..NumDrives[k] : DrivesOf(k)[j] = First(k) + j - 1
    BY <1>1, <1>4 DEF DrivesOf
  <1>6. DrivesOf(k)[d - First(k) + 1] = d
    BY <1>3, <1>4, <1>5
  <1>7. d + 1 \in 1..Len(DriveSeq) /\ DriveSeq[d + 1] = d
    BY DrivesFacts DEF Drives
  <1> QED  BY <1>4, <1>5, <1>6, <1>7 DEF k

(* The loops over the drives, which come before the unmounting.            *)
LEMMA RomsUnmount ==
  ASSUME NEW mp \in MountpointsOf, NEW ds \in Seq(Drives), NEW r \in Seq(Calm(QuietMay)),
         \A d \in Drives : slot[d] \in FilesOf(mp.medium) => \E j \in 1..Len(ds) : ds[j] = d
  PROVE  Unmounts(([j \in 1..Len(ds) |-> DetachROM(ds[j], mp)] \o <<Unmount(mp, TRUE)>>) \o r, Drives)
  <1> DEFINE p == [j \in 1..Len(ds) |-> DetachROM(ds[j], mp)]
  <1>1. Len(ds) \in Nat /\ \A j \in 1..Len(ds) : ds[j] \in Drives
    BY LenProperties
  <1>2. p \in Seq(Emptying(mp)) /\ Len(p) = Len(ds)
    <2>1. \A j \in 1..Len(ds) : DetachROM(ds[j], mp) \in Emptying(mp)
      BY <1>1 DEF DetachROM, Emptying
    <2> QED  BY <1>1, <2>1
  <1>3. \A j \in 1..Len(ds) : p[j].d = ds[j]
    BY DEF DetachROM
  <1> HIDE DEF p
  <1>4. \A d \in Drives : slot[d] \in FilesOf(mp.medium) => \E j \in 1..Len(p) : p[j].d = d
    BY <1>2, <1>3
  <1>5. Unmounts((p \o <<Unmount(mp, TRUE)>>) \o r, Drives)
    BY <1>2, <1>4, UnmountsMade
  <1> QED  BY <1>5 DEF p

(* What is done next tells the action.                                     *)
LEMMA UnmountWorkOf ==
  ASSUME NEW t, Work(t)
  PROVE  /\ Now(t).do = "unmount" => UnmountMountpoint(t)
         /\ Now(t).do = "unlist" => FindToRemove(t)
         /\ Now(t).do = "load" => LoadToRemove(t)
         /\ Now(t).do = "delete" => RemoveMountpoint(t)
         /\ Now(t).do = "rom" => DetachMountpointROM(t)
  <1>1. \/ UnmountMountpoint(t) /\ Doing(t, "unmount")
        \/ FindToRemove(t) /\ Doing(t, "unlist")
        \/ LoadToRemove(t) /\ Doing(t, "load")
        \/ RemoveMountpoint(t) /\ Doing(t, "delete")
        \/ DetachMountpointROM(t) /\ Doing(t, "rom")
        \/ \E k \in Steps \ {"unmount", "unlist", "load", "delete", "rom"} : Doing(t, k)
    <2>1. CASE MountMountpoint(t) \/ LoadToAdd(t) \/ AddMountpoint(t)
               \/ UnmountMountpoint(t) \/ FindToRemove(t) \/ LoadToRemove(t) \/ RemoveMountpoint(t)
               \/ DetachMountpointROM(t) \/ FreeFile(t) \/ EjectNext(t) \/ InsertNext(t) \/ UnmountNext(t)
      BY <2>1 DEF MountMountpoint, LoadToAdd, AddMountpoint, Stores, UnmountMountpoint, FindToRemove,
                LoadToRemove, RemoveMountpoint,
                  DetachMountpointROM, FreeFile, EjectNext, InsertNext, UnmountNext, Steps
    <2>2. CASE TakeSource(t) \/ TakeTarget(t) \/ Copy(t) \/ BeginRound(t) \/ UnmountEach(t)
               \/ ReportUnmounted(t) \/ End(t) \/ SetRerunEmulator(t)
      BY <2>2 DEF TakeSource, TakeTarget, Copy, BeginRound, UnmountEach, ReportUnmounted, End,
                  SetRerunEmulator, Steps
    <2>3. CASE LookForDetach(t) \/ DetachSlot(t) \/ LookForAttach(t) \/ AttachSlot(t)
      BY <2>3 DEF LookForDetach, DetachSlot, LookForAttach, AttachSlot, Steps
    <2> QED  BY <2>1, <2>2, <2>3 DEF Work
  <1> QED  BY <1>1 DEF Doing, Now

(* The steps of another goroutine, while no slot changes.                  *)
LEMMA UnmountingStays ==
  ASSUME slot' = slot, NEW q, q \in Seq(Sparing(QuietMay)) \/ Unmounting(q)
  PROVE  q \in Seq(Sparing(QuietMay)) \/ Unmounting(q)'
  BY DEF Unmounting, Unmounts, UnmountsAt

(* A keyboard or the signal comes to a mountpoint.                         *)
LEMMA UnmountingBegins ==
  ASSUME LInv, SlotsFit, NEW t \in Threads, todo[t] \in Seq(Sparing(QuietMay)), Expands(t)
  PROVE  slot' = slot /\ \E q : Then(t, q) /\ Unmounting(q)
  <1>1. Allowed(QuietMay)
    BY QuietAllowed
  <1>2. CASE UnmountNext(t) /\ GetMountpointByIndex(Now(t).d) # 0
    <2> DEFINE mp == array[GetMountpointByIndex(Now(t).d)]
               ds == DrivesOf(Kind[Now(t).d])
               q == ([j \in 1..Len(ds) |-> DetachROM(ds[j], mp)] \o <<Unmount(mp, TRUE)>>) \o Later(t)
    <2>1. Doing(t, "index") /\ Then(t, q) /\ slot' = slot
      BY <1>2 DEF UnmountNext, Goes
    <2>2. Now(t).d \in Drives /\ Later(t) \in Seq(Calm(QuietMay))
      <3>1. Now(t) \in Sparing(QuietMay) /\ Now(t).do = "index" /\ Later(t) \in Seq(Calm(QuietMay))
        BY <1>1, <2>1, SpareOn DEF Loops
      <3> QED  BY <1>1, <3>1, SpareKinds
    <2>3. mp \in MountpointsOf /\ Home[mp.medium] = Now(t).d /\ ds \in Seq(Drives)
      BY <1>2, <2>1, <2>2, ListedMountpoints, DrivesFacts DEF Doing
    <2>4. ASSUME NEW d \in Drives, slot[d] \in FilesOf(mp.medium)
          PROVE  \E j \in 1..Len(ds) : ds[j] = d
      <3>1. mp.medium \in Media
        BY <2>3 DEF MountpointsOf
      <3>2. Kind[d] = Kind[Now(t).d]
        <4> HIDE DEF mp
        <4> QED  BY <2>3, <2>4, <3>1 DEF SlotsFit, Fitting
      <3> QED  BY <3>2, AllDrivesOf
    <2> HIDE DEF mp, ds
    <2>5. Unmounts(q, Drives)
      BY <2>2, <2>3, <2>4, RomsUnmount
    <2>6. q # <<>>
      BY <2>5, UnmountsSome
    <2> HIDE DEF q
    <2> QED  BY <2>1, <2>5, <2>6 DEF Unmounting
  <1>3. CASE UnmountEach(t) /\ Now(t).i <= ranged[t].len /\ heap[ranged[t].at][Now(t).i] # None
    <2> DEFINE mp == heap[ranged[t].at][Now(t).i]
               roms == [j \in 1..AllDrives |-> DetachROM(DriveSeq[j], mp)]
               e == Each(Now(t).i + 1, Now(t).r)
               q == (roms \o <<Unmount(mp, TRUE), e>>) \o Later(t)
    <2>1. Doing(t, "each") /\ Then(t, q) /\ slot' = slot
      BY <1>3 DEF UnmountEach, Goes
    <2>2. Now(t).i \in Nat \ {0} /\ Now(t).r \in Nat /\ Later(t) \in Seq(Calm(QuietMay))
      <3>1. Now(t) \in Sparing(QuietMay) /\ Now(t).do = "each" /\ Later(t) \in Seq(Calm(QuietMay))
        BY <1>1, <2>1, SpareOn DEF Loops
      <3> QED  BY <1>1, <3>1, SpareKinds
    <2>3. mp \in MountpointsOf
      <3>1. ranged[t].len \in Nat
        BY SlotsTyped
      <3>2. Now(t).i \in 1..ranged[t].len
        BY <1>3, <2>2, <3>1
      <3> QED  BY <1>3, <3>2, SlotsTyped
    <2>4. DriveSeq \in Seq(Drives) /\ AllDrives = Len(DriveSeq)
      BY DrivesFacts
    <2>5. <<e>> \o Later(t) \in Seq(Calm(QuietMay))
      <3>1. Now(t).i + 1 \in Nat \ {0}
        BY <2>2
      <3>2. e \in Calm(QuietMay)
        BY <2>2, <3>1, LoopsMade DEF QuietMay, UnmountLoops
      <3> HIDE DEF e
      <3> QED  BY <2>2, <3>2, SpareSeqs
    <2>6. \A d \in Drives : \E j \in 1..Len(DriveSeq) : DriveSeq[j] = d
      BY AllDrivesOf
    <2> HIDE DEF mp, e
    <2>7. Unmounts((roms \o <<Unmount(mp, TRUE)>>) \o (<<e>> \o Later(t)), Drives)
      BY <2>3, <2>4, <2>5, <2>6, RomsUnmount
    <2>8. q = (roms \o <<Unmount(mp, TRUE)>>) \o (<<e>> \o Later(t))
      <3> DEFINE u == Unmount(mp, TRUE)
                 S == {roms[j] : j \in 1..AllDrives} \union {u, e} \union Calm(QuietMay)
      <3>1. roms \in Seq(S)
        <4>1. AllDrives \in Nat
          BY DrivesFacts
        <4>2. \A j \in 1..AllDrives : DetachROM(DriveSeq[j], mp) \in S
          OBVIOUS
        <4> HIDE DEF S
        <4> QED  BY <4>1, <4>2
      <3>2. Later(t) \in Seq(S)
        BY <2>2, SeqMonotonic
      <3> HIDE DEF roms, u
      <3>3. <<u>> \in Seq(S) /\ <<e>> \in Seq(S) /\ <<u, e>> = <<u>> \o <<e>>
        OBVIOUS
      <3> HIDE DEF S
      <3>4. (roms \o (<<u>> \o <<e>>)) \o Later(t) = (roms \o <<u>>) \o (<<e>> \o Later(t))
        <4>1. <<u>> \o <<e>> \in Seq(S) /\ roms \o <<u>> \in Seq(S)
          BY <3>1, <3>3, ConcatProperties
        <4>2. roms \o (<<u>> \o <<e>>) = (roms \o <<u>>) \o <<e>>
          BY <3>1, <3>3, ConcatAssociative
        <4>3. ((roms \o <<u>>) \o <<e>>) \o Later(t) = (roms \o <<u>>) \o (<<e>> \o Later(t))
          BY <3>2, <3>3, <4>1, ConcatAssociative
        <4> QED  BY <4>2, <4>3
      <3> QED  BY <3>3, <3>4 DEF u
    <2> HIDE DEF q
    <2> QED  BY <2>1, <2>7, <2>8, UnmountsSome DEF Unmounting
  <1> QED  BY <1>2, <1>3 DEF Expands

(* A drive that holds no file of the medium need not be emptied.           *)
LEMMA UnmountsMore ==
  ASSUME NEW q, NEW i, NEW d \in Drives, UnmountsAt(q, i, Drives \ {d}), slot[d] \notin FilesOf(q[i].mp.medium)
  PROVE  UnmountsAt(q, i, Drives)
  BY DEF UnmountsAt

(* The first of the steps that unmount.                                    *)
LEMMA UnmountsFirst ==
  ASSUME LInv, TodosFit, NEW t \in Threads, todo[t] # <<>>, Unmounts(todo[t], Drives)
  PROVE  \/ /\ Now(t).do = "unmount" /\ Now(t).remove /\ Later(t) \in Seq(Calm(QuietMay))
            /\ \A d \in Drives : slot[d] \notin FilesOf(Now(t).mp.medium)
         \/ \E i \in 1..Len(Later(t)) :
              /\ UnmountsAt(Later(t), i, Drives \ {Now(t).d})
              /\ Now(t).d \in Drives
              /\ Now(t).do = "clear" \/ (Now(t).do = "rom" /\ Now(t).mp = Later(t)[i].mp)
  <1> DEFINE q == todo[t]
  <1>1. PICK i \in 1..Len(q) : UnmountsAt(q, i, Drives)
    BY DEF Unmounts
  <1>2. /\ q \in Seq(Sparing(AllMay)) /\ Now(t) = Head(q) /\ Later(t) = Tail(q) /\ q # <<>>
    BY DEF TodosFit, Now, Later
  <1> HIDE DEF q
  <1>3. CASE i = 1
    <2>1. Now(t) = q[1]
      BY <1>2
    <2>2. Now(t).do = "unmount" /\ Now(t).remove
      BY <1>1, <1>3, <2>1 DEF UnmountsAt
    <2>3. \A d \in Drives : slot[d] \notin FilesOf(Now(t).mp.medium)
      <3>1. \A d \in Drives : slot[d] \in FilesOf(q[1].mp.medium) => \E j \in 1..1 - 1 : q[j].d = d
        BY <1>1, <1>3 DEF UnmountsAt
      <3>2. 1..1 - 1 = {}
        OBVIOUS
      <3> QED  BY <2>1, <3>1, <3>2
    <2>4. Later(t) \in Seq(Calm(QuietMay))
      <3>1. /\ Len(Later(t)) \in Nat /\ Len(Later(t)) = Len(q) - 1 /\ Len(q) \in Nat
            /\ \A j \in 1..Len(Later(t)) : Later(t)[j] = q[j + 1]
            /\ Later(t) \in [1..Len(Later(t)) -> Sparing(AllMay)]
        BY <1>2, HeadTailProperties, LenProperties
      <3>2. \A j \in 1..Len(Later(t)) : j + 1 \in 1 + 1..Len(q)
        BY <3>1
      <3>3. \A j \in 1 + 1..Len(q) : q[j] \in Calm(QuietMay)
        BY <1>1, <1>3 DEF UnmountsAt
      <3>4. \A j \in 1..Len(Later(t)) : Later(t)[j] \in Calm(QuietMay)
        BY <3>1, <3>2, <3>3
      <3> DEFINE r == Later(t)
      <3>5. r \in [1..Len(r) -> Calm(QuietMay)] /\ Len(r) \in Nat
        <4> HIDE DEF r
        <4> QED  BY <3>1, <3>4 DEF r
      <3> QED  BY <3>5, SeqDef, Zenon
    <2> QED  BY <2>2, <2>3, <2>4
  <1>4. CASE i # 1
    <2>1. /\ i - 1 \in 1..Len(Tail(q)) /\ Tail(q)[i - 1] = q[i] /\ Head(q) \in Emptying(q[i].mp)
          /\ UnmountsAt(Tail(q), i - 1, Drives \ {Head(q).d})
      BY <1>1, <1>2, <1>4, UnmountsTail
    <2>2. /\ Now(t).d \in Drives
          /\ Now(t).do = "clear" \/ (Now(t).do = "rom" /\ Now(t).mp = q[i].mp)
      BY <1>2, <2>1 DEF Emptying
    <2> QED  BY <1>2, <2>1, <2>2
  <1> QED  BY <1>3, <1>4

(* A keyboard or the signal goes on unmounting.                            *)
LEMMA UnmountingGoes ==
  ASSUME LInv, SlotsFit, TodosFit, NEW t \in Threads, Work(t), Unmounting(todo[t])
  PROVE  \E q : Then(t, q) /\ (q \in Seq(Sparing(QuietMay)) \/ Unmounting(q)')
  <1>0. /\ Allowed(AllMay) /\ Allowed(QuietMay) /\ todo[t] \in Seq(Sparing(AllMay)) /\ todo[t] # <<>>
        /\ Now(t) = Head(todo[t]) /\ Later(t) = Tail(todo[t])
    BY FittingAllowed, QuietAllowed DEF TodosFit, Unmounting, Now, Later
  <1>1. Later(t) \in Seq(Sparing(AllMay)) /\ Now(t) \in Sparing(AllMay)
    BY <1>0, SpareNow
  <1>2. Seq(Calm(QuietMay)) \subseteq Seq(Sparing(QuietMay))
    BY SpareSeqs
  <1>3. CASE Now(t).do \in {"unlist", "load", "delete"} /\ Later(t) \in Seq(Calm(QuietMay))
    <2>1. CASE Now(t).do = "unlist"
      <3> DEFINE s == Load(Now(t).mp, FindMountpoint(Now(t).mp))
      <3>1. slot' = slot /\ (Then(t, Later(t)) \/ Then(t, <<s>> \o Later(t)))
        BY <2>1, UnmountWorkOf DEF FindToRemove, Goes
      <3>2. s.do = "load"
        BY DEF Load
      <3> HIDE DEF s
      <3>3. <<s>> \o Later(t) # <<>> /\ Head(<<s>> \o Later(t)) = s /\ Tail(<<s>> \o Later(t)) = Later(t)
        BY <1>3
      <3>4. Unmounting(<<s>> \o Later(t))
        BY <1>3, <3>2, <3>3 DEF Unmounting
      <3> QED  BY <1>2, <1>3, <3>1, <3>4, UnmountingStays
    <2>2. CASE Now(t).do = "load"
      <3> DEFINE s == Delete(Now(t).mp, Now(t).i)
      <3>1. slot' = slot /\ (Then(t, <<Panic>> \o Later(t)) \/ Then(t, <<s>> \o Later(t)))
        BY <2>2, UnmountWorkOf DEF LoadToRemove, Goes
      <3>2. s.do = "delete" /\ Panic \in Calm(QuietMay)
        BY <1>0, SpareMade DEF Delete
      <3> HIDE DEF s, Panic
      <3>3. <<s>> \o Later(t) # <<>> /\ Head(<<s>> \o Later(t)) = s /\ Tail(<<s>> \o Later(t)) = Later(t)
        BY <1>3
      <3>4. Unmounting(<<s>> \o Later(t))
        BY <1>3, <3>2, <3>3 DEF Unmounting
      <3>5. <<Panic>> \o Later(t) \in Seq(Sparing(QuietMay))
        BY <1>2, <1>3, <3>2, SpareSeqs
      <3> QED  BY <3>1, <3>4, <3>5, UnmountingStays
    <2>3. CASE Now(t).do = "delete"
      <3>1. Then(t, Later(t))
        BY <2>3, UnmountWorkOf DEF RemoveMountpoint
      <3> QED  BY <1>2, <1>3, <3>1
    <2> QED  BY <1>3, <2>1, <2>2, <2>3
  <1>4. CASE Now(t).do = "detach" /\ Now(t).d \in Drives /\ Now(t).f = slot[Now(t).d]
             /\ Unmounts(Later(t), Drives \ {Now(t).d})
    <2> DEFINE q == <<Clear(Now(t).d)>> \o Later(t)
    <2>1. Then(t, q) /\ slot' = slot
      BY <1>4, WorkOf DEF LookForDetach, Goes
    <2>2. Unmounts(q, Drives)
      BY <1>1, <1>4, UnmountsCons
    <2> HIDE DEF q
    <2>3. Unmounting(q)
      BY <2>2, UnmountsSome DEF Unmounting
    <2> QED  BY <2>1, <2>3, UnmountingStays
  <1>5. CASE /\ Now(t).do = "unmount" /\ Now(t).remove /\ Later(t) \in Seq(Calm(QuietMay))
             /\ \A d \in Drives : slot[d] \notin FilesOf(Now(t).mp.medium)
    <2> DEFINE u == Unlist(Now(t).mp)
    <2>1. slot' = slot /\ (Then(t, Later(t)) \/ Then(t, <<u>> \o Later(t)))
      BY <1>5, UnmountWorkOf DEF UnmountMountpoint, Goes, listAndPolls
    <2>2. u.do = "unlist" /\ u.mp = Now(t).mp
      BY DEF Unlist
    <2> HIDE DEF u
    <2>3. <<u>> \o Later(t) # <<>> /\ Head(<<u>> \o Later(t)) = u /\ Tail(<<u>> \o Later(t)) = Later(t)
      BY <1>5
    <2>4. Unmounting(<<u>> \o Later(t))
      BY <1>5, <2>2, <2>3 DEF Unmounting
    <2> QED  BY <1>2, <1>5, <2>1, <2>4, UnmountingStays
  <1>6. ASSUME NEW i \in 1..Len(Later(t)), UnmountsAt(Later(t), i, Drives \ {Now(t).d}),
               Now(t).d \in Drives, Now(t).do = "rom", Now(t).mp = Later(t)[i].mp
        PROVE  \E q : Then(t, q) /\ slot' = slot /\ Unmounting(q)
    <2> DEFINE s == Detach(Now(t).d, slot[Now(t).d], Later(t))
    <2>1. /\ slot' = slot
          /\ \/ slot[Now(t).d] \notin FilesOf(Now(t).mp.medium) /\ Then(t, Later(t))
             \/ Then(t, <<s>> \o Later(t))
      BY <1>6, UnmountWorkOf DEF DetachMountpointROM, Goes
    <2>2. CASE slot[Now(t).d] \notin FilesOf(Now(t).mp.medium) /\ Then(t, Later(t))
      <3>1. Unmounts(Later(t), Drives)
        BY <1>6, <2>2, UnmountsMore DEF Unmounts
      <3> QED  BY <2>1, <2>2, <3>1, UnmountsSome DEF Unmounting
    <2>3. CASE Then(t, <<s>> \o Later(t))
      <3>1. s.do = "detach" /\ s.d = Now(t).d /\ s.f = slot[Now(t).d]
        BY DEF Detach
      <3> HIDE DEF s
      <3>2. <<s>> \o Later(t) # <<>> /\ Head(<<s>> \o Later(t)) = s /\ Tail(<<s>> \o Later(t)) = Later(t)
        BY <1>1
      <3>3. Unmounts(Later(t), Drives \ {s.d})
        BY <1>6, <3>1 DEF Unmounts
      <3>4. Unmounting(<<s>> \o Later(t))
        BY <1>6, <3>1, <3>2, <3>3 DEF Unmounting
      <3> QED  BY <2>1, <2>3, <3>4
    <2> QED  BY <2>1, <2>2, <2>3
  <1>7. ASSUME NEW i \in 1..Len(Later(t)), UnmountsAt(Later(t), i, Drives \ {Now(t).d}),
               Now(t).d \in Drives, Now(t).do = "clear"
        PROVE  \E q : Then(t, q) /\ Unmounting(q)'
    <2>1. Then(t, Later(t)) /\ slot' = [slot EXCEPT ![Now(t).d] = None]
      BY <1>7, WorkOf DEF DetachSlot
    <2>2. DOMAIN slot = Drives /\ \A m \in Media : None \notin FilesOf(m)
      <3>1. \A m \in Media : FilesOf(m) \subseteq Images
        BY DEF Images
      <3>2. None \notin Images
        BY ConstantsAssumption
      <3> QED  BY <3>1, <3>2 DEF LInv, Types
    <2>3. PICK d : d = Now(t).d
      OBVIOUS
    <2>4. PICK r : r = Later(t)
      OBVIOUS
    <2>5. UnmountsAt(r, i, Drives \ {d}) /\ r[i].mp.medium \in Media
      <3>1. r[i] \in [do : {"unmount"}, mp : MountpointsOf, remove : {TRUE}]
        BY <1>7, <2>4 DEF UnmountsAt
      <3> QED  BY <1>7, <2>3, <2>4, <3>1 DEF MountpointsOf
    <2>6. UnmountsAt(r, i, Drives)'
      BY <1>7, <2>1, <2>2, <2>3, <2>5 DEF UnmountsAt
    <2>7. Unmounts(r, Drives)'
      BY <1>7, <2>4, <2>6 DEF Unmounts
    <2>8. r # <<>>
      BY <1>7, <2>4
    <2>9. Then(t, r) /\ Unmounting(r)'
      BY <2>1, <2>4, <2>7, <2>8 DEF Unmounting
    <2> QED  BY <2>9
  <1>8. CASE Unmounts(todo[t], Drives)
    <2>1. CASE \E i \in 1..Len(Later(t)) :
                 /\ UnmountsAt(Later(t), i, Drives \ {Now(t).d})
                 /\ Now(t).d \in Drives
                 /\ Now(t).do = "clear" \/ (Now(t).do = "rom" /\ Now(t).mp = Later(t)[i].mp)
      <3>1. (\E q : Then(t, q) /\ slot' = slot /\ Unmounting(q)) \/ (\E q : Then(t, q) /\ Unmounting(q)')
        BY <1>6, <1>7, <2>1
      <3>2. ASSUME NEW q, Then(t, q), slot' = slot, Unmounting(q)
            PROVE  \E p : Then(t, p) /\ (p \in Seq(Sparing(QuietMay)) \/ Unmounting(p)')
        BY <3>2, UnmountingStays
      <3> QED  BY <3>1, <3>2
    <2> QED  BY <1>0, <1>5, <1>8, <2>1, UnmountsFirst
  <1> QED  BY <1>0, <1>3, <1>4, <1>8 DEF Unmounting

(* Every step that overlaps with nothing.                                  *)
LEMMA UnmountsNext ==
  ASSUME LInv, SlotsFit, TodosFit, OneBusy, UnmountsOK, [Next]_vars
  PROVE  UnmountsOK'
  <1> DEFINE Quiet(q) == q \in Seq(Sparing(QuietMay)) \/ Unmounting(q)
  <1>0. DOMAIN todo = Threads /\ Allowed(QuietMay) /\ Fitting \subseteq Anything
    BY QuietAllowed DEF LInv, TodosOK, Fitting
  <1>1. CASE slot' = slot /\ todo' = todo
    <2>1. ASSUME NEW q, Quiet(q) PROVE q \in Seq(Sparing(QuietMay)) \/ Unmounting(q)'
      BY <1>1, <2>1, UnmountingStays
    <2> QED  BY <1>1, <2>1 DEF UnmountsOK
  <1>2. ASSUME NEW t \in Threads, Work(t) PROVE UnmountsOK'
    <2>1. todo[t] # <<>> /\ \E q : todo' = [todo EXCEPT ![t] = q]
      BY <1>2, WorkKeeps, WorkMoves
    <2>2. \A u \in Threads \ {t} : todo'[u] = <<>>
      BY <1>0, <2>1 DEF OneBusy
    <2>3. <<>> \in Seq(Sparing(QuietMay))
      OBVIOUS
    <2>4. t # "blockDevices" => todo'[t] \in Seq(Sparing(QuietMay)) \/ Unmounting(todo[t])'
      <3> SUFFICES ASSUME t # "blockDevices"
                   PROVE  \E q : Then(t, q) /\ (q \in Seq(Sparing(QuietMay)) \/ Unmounting(q)')
        BY <1>0 DEF Then
      <3>1. CASE Unmounting(todo[t])
        BY <1>2, <3>1, UnmountingGoes
      <3>2. CASE todo[t] \in Seq(Sparing(QuietMay)) /\ Expands(t)
        <4>1. PICK q : Then(t, q) /\ Unmounting(q) /\ slot' = slot
          BY <3>2, UnmountingBegins
        <4> QED  BY <4>1, UnmountingStays
      <3>3. CASE todo[t] \in Seq(Sparing(QuietMay)) /\ ~Expands(t)
        BY <1>0, <1>2, <3>3, SpareWork DEF Spares, Then, QuietMay, UnmountLoops
      <3> QED  BY <3>1, <3>2, <3>3 DEF UnmountsOK
    <2> QED  BY <2>2, <2>3, <2>4 DEF UnmountsOK
  <1>3. ASSUME NEW t \in Threads, slot' = slot, NEW p, Begin(t, p), t # "blockDevices" => Spares(t, QuietMay)
        PROVE  UnmountsOK'
    <2>1. \A u \in Threads \ {t} : todo'[u] = todo[u]
      BY <1>3 DEF Begin
    <2>2. t # "blockDevices" => todo'[t] \in Seq(Sparing(QuietMay))
      BY <1>0, <1>3 DEF Spares
    <2>3. ASSUME NEW q, Quiet(q) PROVE q \in Seq(Sparing(QuietMay)) \/ Unmounting(q)'
      BY <1>3, <2>3, UnmountingStays
    <2> QED  BY <2>1, <2>2, <2>3 DEF UnmountsOK
  <1> QED
    <2>1. /\ QuietMay.detach = Anything /\ QuietMay.copy = Drives /\ Fitting \subseteq QuietMay.attach
          /\ QuietMay.media = Media /\ QuietMay.loops = UnmountLoops
      BY <1>0 DEF QuietMay
    <2>2. \/ slot' = slot /\ todo' = todo
          \/ \E t \in Threads : Work(t)
          \/ \E t \in Threads : /\ slot' = slot /\ \E q : Begin(t, q)
                                /\ t # "blockDevices" \/ QuietMay.unmount = MountpointsOf => Spares(t, QuietMay)
      BY <1>0, <2>1, AllBegin
    <2> QED  BY <1>1, <1>2, <1>3, <2>2

(* The invariant.                                                          *)
UInv == SlotsFit /\ TodosFit /\ (overlaps = 0 => OneBusy /\ UnmountsOK)

(* It holds whatever overlaps, but for its last part.                      *)
LEMMA UnmountsHold == Spec => []UInv
  <1>1. Init => UInv
    <2> SUFFICES ASSUME Init PROVE UInv
      OBVIOUS
    <2>1. \A t \in Threads : todo[t] = <<>>
      BY DEF Init
    <2>2. <<>> \in Seq(Sparing(QuietMay)) /\ <<>> \in Seq(Sparing(AllMay))
      OBVIOUS
    <2>3. SlotsFit
      <3>1. \A d \in Drives : slot[d] = None
        BY DEF Init
      <3>2. None \in Slottable
        BY DEF Slottable
      <3>3. \A m \in Media : FilesOf(m) \subseteq Images
        BY DEF Images
      <3>4. None \notin Images
        BY ConstantsAssumption
      <3> QED  BY <3>1, <3>2, <3>3, <3>4 DEF SlotsFit, Fitting, Anything
    <2> QED  BY <2>1, <2>2, <2>3 DEF UInv, OneBusy, UnmountsOK, TodosFit
  <1>2. LInv /\ UInv /\ [Next]_vars => UInv'
    <2> SUFFICES ASSUME LInv, UInv, [Next]_vars
                 PROVE  UInv'
      OBVIOUS
    <2>1. SlotsFit' /\ TodosFit'
      BY FitNext DEF UInv
    <2>2. overlaps' = 0 => overlaps = 0 /\ OneBusy'
      BY TurnsTaken DEF UInv
    <2>3. overlaps' = 0 => UnmountsOK'
      BY <2>2, UnmountsNext DEF UInv
    <2> QED  BY <2>1, <2>2, <2>3 DEF UInv
  <1> QED  BY <1>1, <1>2, InvariantHolds, PTL DEF Spec

(* As long as goroutines do not overlap: when a keyboard or a signal has   *)
(* unmounted a medium, no drive holds a file of it, though the commands    *)
(* for one drive or one kind look only at the drives of that kind: a file  *)
(* of the medium is in no other, whatever the goroutines did before.       *)
THEOREM UnmountsLeaveNothing == Spec => []UnmountLeavesNothing
  <1>1. LInv /\ UInv => UnmountLeavesNothing
    <2> SUFFICES ASSUME LInv, UInv, overlaps = 0, NEW t \in Threads \ {"blockDevices"}, Doing(t, "unlist")
                 PROVE  \A d \in Drives : slot[d] \notin FilesOf(Now(t).mp.medium)
      BY DEF UnmountLeavesNothing
    <2>1. todo[t] # <<>> /\ Now(t) = Head(todo[t]) /\ Now(t).do = "unlist" /\ TodosFit
      BY DEF Doing, Now, UInv
    <2>2. todo[t] \notin Seq(Sparing(QuietMay))
      <3>1. ASSUME Now(t) \in Sparing(QuietMay) PROVE FALSE
        <4>1. Now(t).mp \in QuietMay.unmount
          BY <2>1, <3>1, QuietAllowed, SpareKinds
        <4> QED  BY <4>1 DEF QuietMay
      <3> QED  BY <2>1, <3>1
    <2>3. ~Unmounts(todo[t], Drives)
      <3>1. ASSUME Unmounts(todo[t], Drives) PROVE Now(t).do \in {"unmount", "clear", "rom"}
        BY <2>1, <3>1, UnmountsFirst
      <3> QED  BY <2>1, <3>1
    <2> QED  BY <2>1, <2>2, <2>3 DEF UInv, UnmountsOK, Unmounting
  <1> QED  BY <1>1, UnmountsHold, InvariantHolds, PTL

-----------------------------------------------------------------------------
(* The list, as long as goroutines do not overlap.                         *)

(* Whoever is about to delete an element, or to append, still sees the     *)
(* list that it searched and loaded, and so has everybody before.          *)
Fresh ==
    /\ ~torn
    /\ \A t \in Threads : todo[t] # <<>> =>
          /\ Now(t).do \in {"load", "delete"} => Now(t).i \in 1..size /\ array[Now(t).i] = Now(t).mp
          /\ Now(t).do \in {"grow", "delete"} => loaded[t] = list

(* The steps that rely on what was seen before.                            *)
Relying == {"load", "delete", "grow"}

(* A goroutine goes on with a step that does not.                          *)
LEMMA FreshGoes ==
  ASSUME LInv, NEW t \in Threads, \A u \in Threads \ {t} : todo[u] = <<>>,
         NEW q, Then(t, q), q # <<>> => Head(q).do \notin Relying, ~torn'
  PROVE  Fresh'
  <1>1. todo'[t] = q /\ \A u \in Threads \ {t} : todo'[u] = <<>>
    BY DEF LInv, TodosOK, Then
  <1>2. \A u \in Threads : todo'[u] # <<>> => Head(todo'[u]).do \notin Relying
    BY <1>1
  <1> QED  BY <1>2 DEF Fresh, Now, Relying

(* Another starts on something.                                            *)
LEMMA FreshBegins ==
  ASSUME LInv, Fresh, NEW t \in Threads, NEW q, Begin(t, q), UNCHANGED <<heap, list, loaded, torn>>,
         Starts(q, Known) \/ Mounts(q)
  PROVE  Fresh'
  <1>1. todo'[t] = q /\ \A u \in Threads \ {t} : todo'[u] = todo[u]
    BY DEF LInv, TodosOK, Begin
  <1>2. q # <<>> => Head(q).do \notin Relying
    BY StartsWith, MountsWith DEF Relying
  <1>3. array' = array /\ size' = size
    BY DEF array, size
  <1>4. \A u \in Threads : todo'[u] # <<>> /\ Head(todo'[u]).do \in Relying => todo'[u] = todo[u]
    BY <1>1, <1>2
  <1> QED  BY <1>3, <1>4 DEF Fresh, Now, Relying

(* The steps of a goroutine.                                               *)
LEMMA FreshWorks ==
  ASSUME LInv, OneBusy, Fresh, NEW t \in Threads, Work(t)
  PROVE  Fresh'
  <1>0. /\ Types /\ TodosOK /\ todo[t] # <<>> /\ \A u \in Threads \ {t} : todo[u] = <<>>
    BY WorkKeeps DEF LInv, OneBusy
  <1>1. ASSUME NEW q, Then(t, q), q # <<>> => Head(q).do \notin Relying, ~torn' PROVE Fresh'
    BY <1>0, <1>1, FreshGoes
  <1>2. ASSUME NEW q, Proper(q, Known), q # <<>> PROVE Head(q).do \notin Relying
    BY <1>2, TakeFirst, StepKinds DEF Relying
  <1>3. CASE Plain(t)
    <2>1. Moves(t) /\ torn' = torn
      BY <1>3, PlainFacts
    <2>2. PICK q : todo' = [todo EXCEPT ![t] = q] /\ Proper(q, Known)
      BY <2>1 DEF Moves
    <2>3. Then(t, q) /\ ~torn'
      BY <2>1, <2>2 DEF Then, Fresh
    <2> QED  BY <1>1, <1>2, <2>2, <2>3
  <1>4. CASE MountMountpoint(t)
    <2>1. Now(t).do = "mount" /\ ~torn'
      BY <1>4 DEF MountMountpoint, Doing, Now, Goes, ghosts, Fresh
    <2>2. Later(t) = <<>>
      BY <1>0, <2>1, HandCases
    <2>3. \E s : (Then(t, <<s>>) /\ s.do \notin Relying) \/ Then(t, Later(t))
      <3>1. \A mp : Add(mp).do \notin Relying /\ Unmount(mp, FALSE).do \notin Relying
        BY DEF Add, Unmount, Relying
      <3> QED  BY <1>4, <3>1 DEF MountMountpoint, Goes
    <2>4. ASSUME NEW s, Then(t, <<s>>), s.do \notin Relying PROVE Fresh'
      <3>1. PICK q : q = <<s>>
        OBVIOUS
      <3> QED  BY <1>1, <2>1, <2>4, <3>1
    <2> QED  BY <1>1, <2>1, <2>2, <2>3, <2>4
  <1>5. CASE LoadToAdd(t)
    <2> DEFINE s == Grow(Now(t).mp)
    <2>1. /\ todo' = [todo EXCEPT ![t] = <<s>>] /\ loaded' = [loaded EXCEPT ![t] = list]
          /\ UNCHANGED <<heap, list, torn>>
      BY <1>5 DEF LoadToAdd, Then, ghosts
    <2>2. s.do = "grow"
      BY DEF Grow
    <2> HIDE DEF s
    <2>3. /\ todo'[t] = <<s>> /\ Head(<<s>>) = s /\ loaded'[t] = list'
          /\ \A u \in Threads \ {t} : todo'[u] = <<>>
      BY <1>0, <2>1 DEF Types, TodosOK
    <2> QED  BY <2>1, <2>2, <2>3 DEF Fresh, Now
  <1>6. CASE AddMountpoint(t)
    <2>1. Now(t).do = "grow" /\ ~torn'
      BY <1>0, <1>6 DEF AddMountpoint, Doing, Now, Stores, Fresh
    <2> DEFINE mp == Now(t).mp
               m == mp.medium
               f == IF m \in Dirs THEN m ELSE Default[m]
    <2>2. m \in Media /\ mp \in MountpointsTo(mounts)
      <3>1. mounts \in Nat
        BY <1>0 DEF Types
      <3>2. PICK x \in Media : mp = [medium |-> x, n |-> mounts]
        BY <1>0, <2>1, HandCases
      <3> QED  BY <3>1, <3>2 DEF MountpointsTo
    <2>3. PICK q : q = AttachDefault(mp)
      OBVIOUS
    <2>4. q = <<>> \/ Starts(q, mounts)
      <3>1. f \in FilesOf(m) \union {None, Missing} /\ FilesOf(m) \subseteq Images
        BY <2>2, MediaSpare DEF Images
      <3>2. f \in Slottable
        BY <3>1 DEF Slottable
      <3> QED  BY <2>2, <2>3, <3>2, DefaultStarts DEF AttachDefault
    <2>5. q # <<>> => Head(q).do \notin Relying
      BY <2>4, StartsWith DEF Relying
    <2>6. Then(t, q)
      BY <1>6, <2>3 DEF AddMountpoint
    <2> QED  BY <1>1, <2>1, <2>5, <2>6
  <1>7. CASE UnmountMountpoint(t)
    <2> DEFINE u == Unlist(Now(t).mp)
    <2>1. Now(t).do = "unmount" /\ ~torn'
      BY <1>7 DEF UnmountMountpoint, Doing, Now, Goes, ghosts, Fresh
    <2>2. Proper(Later(t), Known) \/ Mounts(Later(t))
      BY <1>0, <2>1, HandCases
    <2>3. Later(t) # <<>> => Head(Later(t)).do \notin Relying
      BY <1>2, <2>2, MountsWith DEF Relying
    <2>4. \E S : Later(t) \in Seq(S)
      <3>1. CASE Proper(Later(t), Known)
        BY <3>1 DEF Proper
      <3>2. CASE Mounts(Later(t))
        <4>1. PICK m \in Media : \/ Later(t) = <<Mount(m)>>
                                 \/ Later(t) = <<Unmount([medium |-> m, n |-> 0], FALSE), Mount(m)>>
          BY <3>2 DEF Mounts
        <4> DEFINE a == Mount(m)
                   b == Unmount([medium |-> m, n |-> 0], FALSE)
        <4> HIDE DEF a, b
        <4>2. <<a>> \in Seq({a, b}) /\ <<b, a>> \in Seq({a, b})
          OBVIOUS
        <4>3. Later(t) \in Seq({a, b})
          BY <4>1, <4>2 DEF a, b
        <4> QED  BY <4>3
      <3> QED  BY <2>2, <3>1, <3>2
    <2>5. u.do = "unlist"
      BY DEF Unlist
    <2>6. Then(t, <<u>> \o Later(t)) \/ Then(t, <<>> \o Later(t)) \/ Then(t, Later(t))
      BY <1>7 DEF UnmountMountpoint, Goes
    <2> HIDE DEF u
    <2>7. PICK S : Later(t) \in Seq(S)
      BY <2>4
    <2>8. <<>> \o Later(t) = Later(t)
      BY <2>7, ConcatEmptySeq
    <2>9. PICK q : q = <<u>> \o Later(t)
      OBVIOUS
    <2>10. q # <<>> => Head(q).do \notin Relying
      <3>1. Head(<<u>> \o Later(t)) = u
        BY <2>7
      <3> QED  BY <2>5, <2>9, <3>1 DEF Relying
    <2> QED  BY <1>1, <2>1, <2>3, <2>6, <2>8, <2>9, <2>10
  <1>8. CASE FindToRemove(t)
    <2> DEFINE i == FindMountpoint(Now(t).mp)
               s == Load(Now(t).mp, i)
    <2>1. Now(t).do = "unlist" /\ ~torn' /\ UNCHANGED <<heap, list>> /\ ~ended
      BY <1>8 DEF FindToRemove, Doing, Now, Goes, listAndPolls, listVars, ghosts, Fresh
    <2>2. Later(t) \in Seq(Simple(Known) \union Branches(Known)) /\ Proper(Later(t), Known)
      BY <1>0, <2>1, RemovingFacts DEF Proper
    <2>3. CASE i = 0
      <3>1. Then(t, Later(t))
        BY <1>8, <2>3 DEF FindToRemove, Goes
      <3> QED  BY <1>1, <1>2, <2>1, <2>2, <3>1
    <2>4. CASE i # 0
      <3>1. todo' = [todo EXCEPT ![t] = <<s>> \o Later(t)]
        BY <1>8, <2>4 DEF FindToRemove, Goes, Then
      <3>2. i \in 1..size /\ array[i] = Now(t).mp
        <4>1. array \in Seq([medium : Media, n : Nat] \union {None}) /\ size \in 0..Len(array)
          BY <1>0, <2>1, ListFacts
        <4> QED  BY <2>4, <4>1, Found
      <3>3. s.do = "load" /\ s.mp = Now(t).mp /\ s.i = i
        BY DEF Load
      <3> HIDE DEF s, i
      <3>4. Head(<<s>> \o Later(t)) = s
        BY <2>2
      <3>5. todo'[t] = <<s>> \o Later(t) /\ \A u \in Threads \ {t} : todo'[u] = <<>>
        BY <1>0, <3>1 DEF TodosOK
      <3>6. array' = array /\ size' = size
        BY <2>1 DEF array, size
      <3> QED  BY <2>1, <3>2, <3>3, <3>4, <3>5, <3>6 DEF Fresh, Now
    <2> QED  BY <2>3, <2>4
  <1>9. CASE LoadToRemove(t)
    <2> DEFINE s == Delete(Now(t).mp, Now(t).i)
    <2>1. /\ Now(t).do = "load" /\ ~torn' /\ UNCHANGED <<heap, list>>
          /\ Now(t).i \in 1..size /\ array[Now(t).i] = Now(t).mp
      BY <1>0, <1>9 DEF LoadToRemove, Doing, Now, Goes, listAndPolls, listVars, ghosts, Fresh
    <2>2. Later(t) \in Seq(Simple(Known) \union Branches(Known))
      BY <1>0, <2>1, RemovingFacts DEF Proper
    <2>3. ~(Now(t).i > size)
      <3>1. size \in Nat
        BY <1>0 DEF Types, Within, Slices, size
      <3> QED  BY <2>1, <3>1
    <2>4. todo' = [todo EXCEPT ![t] = <<s>> \o Later(t)] /\ loaded' = [loaded EXCEPT ![t] = list]
      BY <1>9, <2>3 DEF LoadToRemove, Then
    <2>5. s.do = "delete" /\ s.mp = Now(t).mp /\ s.i = Now(t).i
      BY DEF Delete
    <2> HIDE DEF s
    <2>6. Head(<<s>> \o Later(t)) = s
      BY <2>2
    <2>7. /\ todo'[t] = <<s>> \o Later(t) /\ loaded'[t] = list'
          /\ \A u \in Threads \ {t} : todo'[u] = <<>>
      BY <1>0, <2>1, <2>4 DEF Types, TodosOK
    <2>8. array' = array /\ size' = size
      BY <2>1 DEF array, size
    <2> QED  BY <2>1, <2>5, <2>6, <2>7, <2>8 DEF Fresh, Now
  <1>10. CASE RemoveMountpoint(t)
    <2>1. Now(t).do = "delete"
      BY <1>10 DEF RemoveMountpoint, Doing, Now
    <2>2. loaded[t] = list /\ heap[loaded[t].at][Now(t).i] = Now(t).mp
      BY <1>0, <2>1 DEF Fresh, array
    <2>3. ~torn' /\ Then(t, Later(t))
      BY <1>10, <2>2 DEF RemoveMountpoint, Stores, Fresh
    <2>4. Proper(Later(t), Known)
      BY <1>0, <2>1, RemovingFacts
    <2> QED  BY <1>1, <1>2, <2>3, <2>4
  <1>11. CASE SetRerunEmulator(t)
    <2>1. Now(t).do \in {"hdStart", "hdDone"} /\ Then(t, Later(t)) /\ ~torn'
      BY <1>11 DEF SetRerunEmulator, Doing, Now, ghosts, Fresh
    <2>2. Proper(Later(t), Known)
      <3>1. Now(t).do = "hdDone" => ~ \E m : Now(t) = Mount(m) \/ Now(t) = Unmount(m, FALSE) \/ Now(t) = Add(m) \/ Now(t) = Grow(m)
        BY DEF Mount, Unmount, Add, Grow
      <3> QED  BY <1>0, <2>1, <3>1, HandCases, NowCases
    <2> QED  BY <1>1, <1>2, <2>1, <2>2
  <1> QED  BY <1>3, <1>4, <1>5, <1>6, <1>7, <1>8, <1>9, <1>10, <1>11 DEF Work, Plain

(* Goroutines that take turns keep it.                                     *)
LEMMA FreshHold == Spec => [](overlaps = 0 => Fresh)
  <1>1. Init => Fresh
    BY DEF Init, Fresh
  <1>2. LInv /\ UInv /\ (overlaps = 0 => Fresh) /\ [Next]_vars => (overlaps = 0 => Fresh)'
    <2> SUFFICES ASSUME LInv, UInv, overlaps = 0 => Fresh, [Next]_vars, overlaps' = 0
                 PROVE  Fresh'
      OBVIOUS
    <2>1. overlaps = 0 /\ OneBusy /\ Fresh
      BY TurnsTaken DEF UInv
    <2>2. CASE Plug \/ UNCHANGED vars
      <3>1. UNCHANGED <<heap, list, loaded, todo, torn>>
        BY <2>2 DEF Plug, vars, listAndPolls, listVars, ghosts
      <3> QED  BY <2>1, <3>1 DEF Fresh, Now, array, size
    <2>3. CASE BlockDevices
      <3>1. UNCHANGED <<heap, list, loaded, torn>> /\ "blockDevices" \in Threads
        BY <2>3 DEF BlockDevices, listVars, ghosts, Threads
      <3>2. PICK q : Begin("blockDevices", q) /\ (Starts(q, Known) \/ Mounts(q))
        BY <2>3, BlockDevicesMoves
      <3> QED  BY <2>1, <3>1, <3>2, FreshBegins
    <2>4. CASE Discovery
      <3>1. UNCHANGED <<heap, list, loaded, torn>> /\ "discovery" \in Threads
        BY <2>4 DEF Discovery, listVars, ghosts, Threads
      <3>2. PICK q : Begin("discovery", q) /\ Starts(q, Known)
        BY <2>4, DiscoveryMoves
      <3> QED  BY <2>1, <3>1, <3>2, FreshBegins
    <2>5. CASE Signal
      <3>1. UNCHANGED <<heap, list, loaded, torn>> /\ "signal" \in Threads
        BY <2>5 DEF Signal, listVars, ghosts, Threads
      <3>2. PICK q : q = <<Round(1), Report, Stop>>
        OBVIOUS
      <3>3. Begin("signal", q) /\ Starts(q, Known)
        BY <2>5, <3>2, UnmountAllStarts DEF Signal, LInv
      <3> QED  BY <2>1, <3>1, <3>3, FreshBegins
    <2>6. ASSUME NEW t \in Keyboards, Keyboard(t) PROVE Fresh'
      <3>1. PICK q : Starts(q, Known) /\ Command(t, q)
        BY <2>6, KeyboardBegins DEF LInv, Begins
      <3>2. Begin(t, q) /\ UNCHANGED <<heap, list, loaded, torn>> /\ t \in Threads
        BY <3>1 DEF Command, listVars, ghosts, Threads
      <3> QED  BY <2>1, <3>1, <3>2, FreshBegins
    <2>7. ASSUME NEW t \in Threads, Work(t) PROVE Fresh'
      BY <2>1, <2>7, FreshWorks
    <2> QED  BY <2>2, <2>3, <2>4, <2>5, <2>6, <2>7 DEF Next
  <1> QED  BY <1>1, <1>2, InvariantHolds, UnmountsHold, PTL DEF Spec

(* As long as goroutines do not overlap, the list is not torn: nobody      *)
(* appends to it or deletes from it inside another's AddMountpoint or      *)
(* RemoveMountpoint, so that what NothingListedTwice and MountedIsKnown    *)
(* say of a list that is not torn holds of it.                             *)
THEOREM TurnsDoNotTear == Spec => [](overlaps = 0 => ~torn)
  <1>1. (overlaps = 0 => Fresh) => (overlaps = 0 => ~torn)
    BY DEF Fresh
  <1> QED  BY <1>1, FreshHold, PTL

-----------------------------------------------------------------------------
(* The mounts, as long as goroutines do not overlap and nothing fails.     *)

ListedMps == {array[i] : i \in 1..size}

(* The mountpoints that are listed if their media are mounted: unmounting  *)
(* one of them is followed by removing it from the list.                   *)
Current == {mp \in MountpointsOf : mp.medium \in mounted => mp \in ListedMps}

(* The files that the drives may hold: a medium's file comes to the drive  *)
(* of the medium only while the medium is mounted.                         *)
Sound == {p \in Anything : \A m \in Media : p[1] = Home[m] /\ p[2] \in FilesOf(m) => m \in mounted}

(* What is done without unmounting, and what is done to unmount.           *)
InsertMay == [empty |-> Drives, detach |-> Anything, attach |-> Sound, copy |-> Drives,
              unmount |-> {}, media |-> mounted, loops |-> {}]
RemoveMay(l) == [empty |-> Drives, detach |-> Anything, attach |-> {}, copy |-> {},
                 unmount |-> Current, media |-> {}, loops |-> l]

(* The slice that unmountAll ranges over.                                  *)
ViewOK(t) == \A i \in 1..ranged[t].len : heap[ranged[t].at][i] \in Current \union {None}

(* What the goroutines but the poll of the block devices may have to do.   *)
OtherOK(t) ==
    \/ todo[t] \in Seq(Sparing(InsertMay))
    \/ todo[t] \in Seq(Sparing(RemoveMay({"index", "round"})))
    \/ todo[t] \in Seq(Sparing(RemoveMay(UnmountLoops))) /\ ViewOK(t)
OthersOK == \A t \in Threads \ {"blockDevices"} : OtherOK(t)

(* The poll attaches the default file to the empty drive of the medium.    *)
Puts(q) ==
    /\ q # <<>> /\ Tail(q) \in {<<>>, <<HDDone>>}
    /\ Head(q).do = "attach" /\ <<Head(q).d, Head(q).f>> \in Sound /\ slot[Head(q).d] = None
Attaching(q) == Puts(q) \/ (q # <<>> /\ Head(q) = HDStart /\ Puts(Tail(q)))

(* It mounts m, or has done so and lists it or unmounts it again.          *)
Mounting(q, m) ==
    /\ slot[Home[m]] = None /\ q # <<>> /\ Tail(q) = <<>>
    /\ \/ Head(q) = Mount(m)
       \/ /\ m \in mounted \ Listed /\ Head(q).mp.medium = m
          /\ Head(q).do \in {"add", "grow"} \/ (Head(q).do = "unmount" /\ ~Head(q).remove)

(* It empties the drive of the medium and then unmounts mp.                *)
Removes(q, mp) == q \in {<<Unmount(mp, TRUE)>>, <<Unmount(mp, TRUE), HDDone>>}
Empties(q, mp) ==
    LET d == Home[mp.medium]
    IN \/ Removes(q, mp) /\ slot[d] = None
       \/ /\ q # <<>> /\ Removes(Tail(q), mp)
          /\ Head(q) = Clear(d) \/ (Head(q).do = "detach" /\ Head(q).d = d /\ Head(q).f = slot[d])
Clearing(q, mp) == Empties(q, mp) \/ (q # <<>> /\ Head(q) = HDStart /\ Empties(Tail(q), mp))

(* It has unmounted it and is about to remove it from the list.            *)
Unlisting(q) == q # <<>> /\ Head(q).do \in {"unlist", "load", "delete"} /\ Tail(q) \in {<<>>, <<HDDone>>}

(* What the poll may have to do; it has told of all media that are mounted *)
(* but for one it is about to unmount.                                     *)
PollMay(q) ==
    \/ /\ mounted \subseteq oldBlocks
       /\ \/ q \in Seq(Sparing(InsertMay)) \/ Attaching(q) \/ Unlisting(q)
          \/ \E m \in oldBlocks : Mounting(q, m)
    \/ \E mp \in ListedMps : Clearing(q, mp) /\ mounted \subseteq oldBlocks \union {mp.medium}
PollOK == PollMay(todo["blockDevices"])

(* A drive with its own medium's file has it mounted.                      *)
FilesMounted == \A m \in Media : slot[Home[m]] \in FilesOf(m) => m \in mounted

(* What is listed is mounted, or somebody has just unmounted it and is     *)
(* about to remove it from the list.                                       *)
ListedMounted ==
    \A m \in Listed \ mounted :
        \E t \in Threads : /\ todo[t] # <<>> /\ Now(t).do \in {"unlist", "load", "delete"}
                           /\ Now(t).mp \in ListedMps /\ Now(t).mp.medium = m

(* The invariant.                                                          *)
MInv == FilesMounted /\ leaked = {} /\ ListedMounted /\ OthersOK /\ PollOK

-----------------------------------------------------------------------------
(* What may be done fits together.                                         *)
LEMMA InsertAllowed ==
  ASSUME LInv, FilesMounted
  PROVE  Allowed(InsertMay)
  <1>1. ASSUME NEW d \in Drives, NEW m \in mounted, NEW f \in FilesOf(m) \union {None, Missing}
        PROVE  <<d, f>> \in Sound
    <2>1. f \in Slottable /\ m \in Media
      BY MediaSpare DEF LInv, Types
    <2>2. ASSUME NEW n \in Media, f \in FilesOf(n) PROVE n = m
      <3>1. f \in Images
        BY <2>2 DEF Images
      <3>2. f \in FilesOf(m)
        BY <3>1, ConstantsAssumption
      <3> QED  BY <2>1, <2>2, <3>2, ConstantsAssumption
    <2> QED  BY <2>1, <2>2 DEF Sound, Anything
  <1>2. \A d \in Drives : /\ <<d, slot[d]>> \in Anything /\ <<d, slot[d]>> \in Sound
                          /\ \A f \in Slottable : <<d, f>> \in Anything
    BY SlotsTyped DEF Anything, Sound, FilesMounted
  <1>3. mounted \subseteq Media
    BY DEF LInv, Types
  <1> QED  BY <1>1, <1>2, <1>3 DEF Allowed, InsertMay

(* So does what is done to unmount.                                        *)
LEMMA RemoveAllowed ==
  ASSUME LInv, NEW l \in {{"index", "round"}, UnmountLoops}
  PROVE  Allowed(RemoveMay(l))
  <1>1. \A d \in Drives : slot[d] \in Slottable /\ \A f \in Slottable : <<d, f>> \in Anything
    BY SlotsTyped DEF Anything
  <1>2. Current \subseteq MountpointsOf
    BY DEF Current
  <1> DEFINE may == RemoveMay(l)
  <1>3. /\ may.empty = Drives /\ may.detach = Anything /\ may.attach = {} /\ may.copy = {}
        /\ may.unmount = Current /\ may.media = {} /\ may.loops = l
    BY DEF RemoveMay
  <1>4. l \subseteq UnmountLoops /\ "round" \in l
    BY DEF UnmountLoops
  <1> HIDE DEF may
  <1>5. may.copy = {} /\ \A d \in may.copy : <<d, slot[d]>> \in may.detach /\ <<d, slot[d]>> \in may.attach
    BY <1>3
  <1>6. \A d \in Drives : /\ slot[d] \notin currentFiles => <<d, slot[d]>> \in may.detach
                          /\ <<d, slot[d]>> \in may.detach => d \in may.empty
                          /\ \A f \in Slottable \ Devices : <<d, f>> \in may.detach
                          /\ \A m \in may.media : Kind[d] = Kind[Home[m]] =>
                               \A f \in FilesOf(m) \union {None, Missing} : <<d, f>> \in may.attach
    <2> TAKE d \in Drives
    <2>1. d \in may.empty /\ slot[d] \in Slottable /\ \A f \in Slottable : <<d, f>> \in may.detach
      BY <1>1, <1>3
    <2>2. \A m \in may.media : FALSE
      BY <1>3
    <2> QED  BY <2>1, <2>2
  <1>7. Allowed(may)
    BY <1>2, <1>3, <1>4, <1>5, <1>6 DEF Allowed
  <1> QED  BY <1>7 DEF may

(* What is listed may be unmounted.                                        *)
LEMMA ListedCurrent ==
  ASSUME LInv, ~ended
  PROVE  /\ ListedMps \subseteq Current /\ ListedMps \subseteq MountpointsOf
         /\ \A i \in 1..size : array[i] \in ListedMps
         /\ Listed = {mp.medium : mp \in ListedMps}
         /\ \A d : GetMountpointByIndex(d) # 0 => array[GetMountpointByIndex(d)] \in ListedMps
  <1>1. \A i \in 1..size : array[i] \in MountpointsOf
    <2>1. Types /\ TodosOK
      BY DEF LInv
    <2>2. MountpointsTo(Known) \subseteq MountpointsOf
      BY <2>1, HandFacts DEF MountpointsTo, MountpointsOf
    <2> QED  BY <2>1, <2>2, ListFacts
  <1>2. Listed = {mp.medium : mp \in ListedMps}
    BY DEF Listed, ListedMps
  <1> QED  BY <1>1, <1>2, ListedMountpoints DEF ListedMps, Current

(* What the steps leave alone.                                             *)
LEMMA WorkLeaves ==
  ASSUME NEW t, Work(t)
  PROVE  /\ oldBlocks' = oldBlocks /\ ~ended
         /\ Now(t).do \notin {"grow", "delete"} => UNCHANGED <<heap, list>>
         /\ Now(t).do \notin {"round", "each"} => ranged' = ranged
         /\ Now(t).do \notin {"mount", "unmount"} => UNCHANGED <<mounted, leaked>>
  <1> USE DEF ghosts, Goes, listAndPolls, listVars, pollVars, Doing, Now
  <1>1. CASE LookForDetach(t) \/ DetachSlot(t) \/ LookForAttach(t) \/ AttachSlot(t)
    BY <1>1 DEF LookForDetach, DetachSlot, LookForAttach, AttachSlot
  <1>2. CASE MountMountpoint(t) \/ LoadToAdd(t) \/ AddMountpoint(t)
    BY <1>2 DEF MountMountpoint, LoadToAdd, AddMountpoint, Stores
  <1>3. CASE UnmountMountpoint(t) \/ FindToRemove(t) \/ LoadToRemove(t) \/ RemoveMountpoint(t)
    BY <1>3 DEF UnmountMountpoint, FindToRemove, LoadToRemove, RemoveMountpoint, Stores
  <1>4. CASE DetachMountpointROM(t) \/ FreeFile(t) \/ EjectNext(t) \/ InsertNext(t) \/ UnmountNext(t)
    BY <1>4 DEF DetachMountpointROM, FreeFile, EjectNext, InsertNext, UnmountNext
  <1>5. CASE TakeSource(t) \/ TakeTarget(t) \/ Copy(t)
    BY <1>5 DEF TakeSource, TakeTarget, Copy
  <1>6. CASE BeginRound(t) \/ UnmountEach(t) \/ ReportUnmounted(t) \/ SetRerunEmulator(t) \/ End(t)
    BY <1>6 DEF BeginRound, UnmountEach, ReportUnmounted, SetRerunEmulator, End
  <1> QED  BY <1>1, <1>2, <1>3, <1>4, <1>5, <1>6 DEF Work

(* No file of a medium is no file at all.                                  *)
LEMMA NoFile ==
  \A m \in Media : None \notin FilesOf(m)
  <1>1. \A m \in Media : FilesOf(m) \subseteq Images
    BY DEF Images
  <1>2. None \notin Images
    BY ConstantsAssumption
  <1> QED  BY <1>1, <1>2

(* The steps of a goroutine that is idle.                                  *)
LEMMA IdleOK ==
  /\ \A may : <<>> \in Seq(Sparing(may)) /\ <<HDDone>> \in Seq(Sparing(may)) /\ HDDone \in Sparing(may)
  /\ \A q, m : Attaching(q) \/ Unlisting(q) \/ Mounting(q, m) => q # <<>>
  /\ \A q, mp : Clearing(q, mp) => q # <<>>
  <1>1. ASSUME NEW may PROVE HDDone \in Sparing(may)
    BY DEF Sparing, Calm, HDDone
  <1>2. ASSUME NEW may PROVE <<HDDone>> \in Seq(Sparing(may))
    BY <1>1
  <1>3. ASSUME NEW q, NEW mp, Removes(q, mp) PROVE q # <<>>
    <2> DEFINE u == Unmount(mp, TRUE)
    <2>1. q \in {<<u>>, <<u, HDDone>>}
      BY <1>3 DEF Removes
    <2> HIDE DEF u, HDDone
    <2> QED  BY <2>1
  <1> QED  BY <1>1, <1>2, <1>3 DEF Attaching, Puts, Unlisting, Mounting, Clearing, Empties

(* While the poll is idle, it has told of all that is mounted.             *)
LEMMA PollIdle ==
  ASSUME PollOK, todo["blockDevices"] = <<>>
  PROVE  mounted \subseteq oldBlocks
  BY IdleOK DEF PollOK, PollMay

(* While nobody is about to remove a mountpoint, what is listed is mounted. *)
LEMMA ListedAreMounted ==
  ASSUME ListedMounted, \A t \in Threads : todo[t] # <<>> => Now(t).do \notin {"unlist", "load", "delete"}
  PROVE  Listed \subseteq mounted
  BY DEF ListedMounted

(* What is done next tells the action.                                     *)
LEMMA LoopWorkOf ==
  ASSUME NEW t, Work(t)
  PROVE  /\ Now(t).do = "round" => BeginRound(t)
         /\ Now(t).do = "each" => UnmountEach(t)
         /\ Now(t).do = "mount" => MountMountpoint(t)
         /\ Now(t).do = "add" => LoadToAdd(t)
         /\ Now(t).do = "grow" => AddMountpoint(t)
  <1>1. \/ BeginRound(t) /\ Doing(t, "round")
        \/ UnmountEach(t) /\ Doing(t, "each")
        \/ MountMountpoint(t) /\ Doing(t, "mount")
        \/ LoadToAdd(t) /\ Doing(t, "add")
        \/ AddMountpoint(t) /\ Doing(t, "grow")
        \/ \E k \in Steps \ {"round", "each", "mount", "add", "grow"} : Doing(t, k)
    <2>1. CASE MountMountpoint(t) \/ LoadToAdd(t) \/ AddMountpoint(t)
               \/ UnmountMountpoint(t) \/ FindToRemove(t) \/ LoadToRemove(t) \/ RemoveMountpoint(t)
               \/ DetachMountpointROM(t) \/ FreeFile(t) \/ EjectNext(t) \/ InsertNext(t) \/ UnmountNext(t)
      BY <2>1 DEF MountMountpoint, LoadToAdd, AddMountpoint, Stores, UnmountMountpoint, FindToRemove,
                LoadToRemove, RemoveMountpoint,
                  DetachMountpointROM, FreeFile, EjectNext, InsertNext, UnmountNext, Steps
    <2>2. CASE TakeSource(t) \/ TakeTarget(t) \/ Copy(t) \/ BeginRound(t) \/ UnmountEach(t)
               \/ ReportUnmounted(t) \/ End(t) \/ SetRerunEmulator(t)
      BY <2>2 DEF TakeSource, TakeTarget, Copy, BeginRound, UnmountEach, ReportUnmounted, End,
                  SetRerunEmulator, Steps
    <2>3. CASE LookForDetach(t) \/ DetachSlot(t) \/ LookForAttach(t) \/ AttachSlot(t)
      BY <2>3 DEF LookForDetach, DetachSlot, LookForAttach, AttachSlot, Steps
    <2> QED  BY <2>1, <2>2, <2>3 DEF Work
  <1> QED  BY <1>1 DEF Doing, Now

(* While a goroutine works, no other has anything to do.                   *)
LEMMA OthersIdle ==
  ASSUME LInv, OneBusy, Fresh, NEW t \in Threads, Work(t)
  PROVE  /\ todo[t] # <<>> /\ DOMAIN todo = Threads
         /\ \A u \in Threads \ {t} : todo[u] = <<>> /\ todo'[u] = <<>>
  <1>1. DOMAIN todo = Threads
    BY DEF LInv, TodosOK
  <1>2. PICK q : todo' = [todo EXCEPT ![t] = q]
    BY WorkMoves
  <1> QED  BY <1>1, <1>2, WorkKeeps DEF OneBusy

(* The lists of mountpoints and media are those of the list.               *)
LEMMA ListStays ==
  ASSUME UNCHANGED <<heap, list>>
  PROVE  ListedMps' = ListedMps /\ Listed' = Listed
  BY DEF ListedMps, Listed, array, size

(* What may be unmounted, and attached, while the mounts do not change.    *)
LEMMA MayStays ==
  ASSUME mounted' = mounted
  PROVE  /\ Sound' = Sound /\ InsertMay' = InsertMay
         /\ UNCHANGED <<heap, list>> => Current' = Current /\ \A l : RemoveMay(l)' = RemoveMay(l)
  <1>1. Sound' = Sound
    BY DEF Sound
  <1>2. InsertMay' = InsertMay
    BY <1>1 DEF InsertMay
  <1>3. ASSUME UNCHANGED <<heap, list>> PROVE Current' = Current
    BY <1>3, ListStays DEF Current
  <1>4. ASSUME UNCHANGED <<heap, list>>, NEW l PROVE RemoveMay(l)' = RemoveMay(l)
    BY <1>3, <1>4 DEF RemoveMay
  <1> QED  BY <1>1, <1>2, <1>3, <1>4

(* A goroutine that unmounts nothing.                                      *)
LEMMA InsertEffect ==
  ASSUME LInv, FilesMounted, ListedMounted, NEW t \in Threads, Work(t), todo[t] \in Seq(Sparing(InsertMay))
  PROVE  /\ UNCHANGED <<heap, list, ranged, mounted, leaked, oldBlocks>>
         /\ FilesMounted' /\ ListedMounted'
         /\ Spares(t, InsertMay) /\ (todo[t] \in Seq(Sparing(InsertMay)))'
  <1>0. Allowed(InsertMay) /\ DOMAIN todo = Threads /\ mounted \subseteq Media
    BY InsertAllowed DEF LInv, TodosOK, Types
  <1>1. todo[t] # <<>> /\ Now(t) \in Sparing(InsertMay)
    BY <1>0, WorkKeeps, SpareNow
  <1>2. Now(t).do \notin {"mount", "unmount", "rom", "add", "grow", "unlist", "load", "delete",
                         "index", "round", "each"}
    <2>1. InsertMay.unmount = {} /\ InsertMay.loops = {} /\ InsertMay.media = mounted
      BY DEF InsertMay
    <2>2. Now(t).do \notin {"unmount", "rom", "add", "grow", "unlist", "load", "delete"}
      BY <1>0, <1>1, <2>1, SpareKinds
    <2>3. Now(t).do \notin UnmountLoops
      BY <1>0, <1>1, <2>1, SpareKinds
    <2>4. Now(t).do # "mount"
      <3>1. ASSUME Now(t).do = "mount" PROVE FALSE
        <4>1. Now(t).m \in Media /\ MountpointsOf = {}
          BY <1>0, <1>1, <2>1, <3>1, SpareKinds
        <4>2. [medium |-> Now(t).m, n |-> 0] \in MountpointsOf
          BY <4>1 DEF MountpointsOf
        <4> QED  BY <4>1, <4>2
      <3> QED  BY <3>1
    <2> QED  BY <2>2, <2>3, <2>4 DEF UnmountLoops
  <1>3. UNCHANGED <<heap, list, ranged, mounted, leaked, oldBlocks>>
    BY <1>2, WorkLeaves
  <1>4. Spares(t, InsertMay)
    <2>1. ~Expands(t) /\ ~BeginRound(t)
      BY <1>2 DEF Expands, UnmountNext, UnmountEach, BeginRound, Doing, Now
    <2> QED  BY <1>0, <2>1, SpareWork
  <1>5. (todo[t] \in Seq(Sparing(InsertMay)))'
    <2>1. todo'[t] \in Seq(Sparing(InsertMay))
      BY <1>0, <1>4 DEF Spares
    <2>2. InsertMay' = InsertMay
      BY <1>3, MayStays
    <2> QED  BY <2>1, <2>2 DEF Sparing, Calm
  <1>6. FilesMounted'
    <2>1. CASE slot' = slot
      BY <1>3, <2>1 DEF FilesMounted
    <2>2. CASE DetachSlot(t)
      <3>1. slot' = [slot EXCEPT ![Now(t).d] = None] /\ DOMAIN slot = Drives
        BY <2>2 DEF DetachSlot, LInv, Types
      <3>2. \A d \in Drives : slot'[d] \in {slot[d], None}
        BY <3>1
      <3>3. \A m \in Media : Home[m] \in Drives
        BY FilesFacts
      <3> QED  BY <1>3, <3>2, <3>3, NoFile DEF FilesMounted
    <2>3. CASE AttachSlot(t)
      <3>1. /\ Doing(t, "fill") /\ DOMAIN slot = Drives
            /\ slot' = slot \/ slot' = [slot EXCEPT ![Now(t).d] = Now(t).f]
        BY <2>3 DEF AttachSlot, LInv, Types
      <3>2. <<Now(t).d, Now(t).f>> \in Sound
        <4>1. Now(t).do = "fill" /\ InsertMay.attach = Sound
          BY <3>1 DEF Doing, Now, InsertMay
        <4> QED  BY <1>0, <1>1, <4>1, SpareKinds
      <3>3. \A d \in Drives : slot'[d] = slot[d] \/ <<d, slot'[d]>> \in Sound
        BY <3>1, <3>2
      <3>4. \A m \in Media : Home[m] \in Drives
        BY FilesFacts
      <3> QED  BY <1>3, <3>3, <3>4 DEF FilesMounted, Sound
    <2> QED  BY <2>1, <2>2, <2>3, WorkSlots
  <1>7. ListedMounted'
    <2>1. ListedMps' = ListedMps /\ Listed' = Listed
      BY <1>3, ListStays
    <2>2. \A u \in Threads \ {t} : todo'[u] = todo[u]
      BY <1>4 DEF Spares
    <2> SUFFICES ASSUME NEW m \in Listed \ mounted
                 PROVE  \E u \in Threads : /\ todo'[u] # <<>> /\ Head(todo'[u]).do \in {"unlist", "load", "delete"}
                                           /\ Head(todo'[u]).mp \in ListedMps
                                           /\ Head(todo'[u]).mp.medium = m
      BY <1>3, <2>1 DEF ListedMounted, Now
    <2>3. PICK u \in Threads : /\ todo[u] # <<>> /\ Now(u).do \in {"unlist", "load", "delete"}
                               /\ Now(u).mp \in ListedMps /\ Now(u).mp.medium = m
      BY DEF ListedMounted
    <2> QED  BY <1>2, <2>2, <2>3 DEF Now
  <1> QED  BY <1>3, <1>4, <1>5, <1>6, <1>7

(* Who unmounts what may be unmounted, when the drive of the medium is     *)
(* empty of its files.                                                     *)
LEMMA UnmountEffect ==
  ASSUME LInv, OneBusy, Fresh, FilesMounted, ListedMounted, leaked = {}, NEW t \in Threads, UnmountMountpoint(t), Work(t),
         failures' = failures, Now(t).remove, Now(t).mp \in Current,
         slot[Home[Now(t).mp.medium]] \notin FilesOf(Now(t).mp.medium)
  PROVE  /\ UNCHANGED <<slot, heap, list, ranged, oldBlocks>>
         /\ FilesMounted' /\ ListedMounted' /\ leaked' = {} /\ Current \subseteq Current'
         /\ mounted' = mounted \ {Now(t).mp.medium}
         /\ \/ mounted' = mounted /\ Then(t, Later(t))
            \/ Now(t).mp \in ListedMps /\ Then(t, <<Unlist(Now(t).mp)>> \o Later(t))
  <1> DEFINE mp == Now(t).mp
             m == mp.medium
             u == Unlist(mp)
  <1>0. /\ todo[t] # <<>> /\ DOMAIN todo = Threads /\ Now(t).do = "unmount" /\ failures \in Nat
        /\ \A x \in Threads \ {t} : todo[x] = <<>> /\ todo'[x] = <<>>
    BY OthersIdle DEF UnmountMountpoint, Doing, Now, LInv, Types
  <1>1. UNCHANGED <<slot, heap, list, ranged, oldBlocks>>
    BY <1>0, WorkLeaves, WorkSlots DEF DetachSlot, AttachSlot, Doing, Now
  <1>2. \/ /\ m \in mounted /\ mounted' = mounted \ {m} /\ leaked' = leaked \ {m}
           /\ Then(t, <<u>> \o Later(t))
        \/ m \notin mounted /\ mounted' = mounted /\ leaked' = leaked /\ Then(t, Later(t))
    BY <1>0 DEF UnmountMountpoint, Goes, listAndPolls, ghosts, Fails
  <1>3. mounted' = mounted \ {m} /\ leaked' = {}
    BY <1>2
  <1>4. ListedMps' = ListedMps /\ Listed' = Listed
    BY <1>1, ListStays
  <1>5. Listed \subseteq mounted
    <2>1. \A x \in Threads : todo[x] # <<>> => Now(x).do \notin {"unlist", "load", "delete"}
      BY <1>0
    <2> QED  BY <2>1, ListedAreMounted
  <1>6. m \in mounted => mp \in ListedMps
    BY DEF Current
  <1>7. FilesMounted'
    BY <1>1, <1>3 DEF FilesMounted
  <1>8. Current \subseteq Current'
    BY <1>3, <1>4 DEF Current
  <1>9. ListedMounted'
    <2>1. CASE m \notin mounted
      BY <1>3, <1>4, <1>5, <2>1 DEF ListedMounted
    <2>2. CASE m \in mounted
      <3>1. u.do = "unlist" /\ u.mp = mp
        BY DEF Unlist
      <3>2. todo'[t] = <<u>> \o Later(t) /\ Later(t) = Tail(todo[t])
        BY <1>0, <1>2, <2>2 DEF Then, Later
      <3>3. Later(t) \in Seq(Simple(Known) \union Branches(Known))
        BY <1>0, HandCases DEF LInv, Proper
      <3> HIDE DEF u
      <3>4. Head(todo'[t]) = u /\ todo'[t] # <<>>
        BY <3>2, <3>3
      <3>5. \A n \in Listed \ mounted' : n = m
        BY <1>3, <1>5
      <3> QED  BY <1>3, <1>4, <1>6, <2>2, <3>1, <3>4, <3>5 DEF ListedMounted, Now
    <2> QED  BY <2>1, <2>2
  <1> QED  BY <1>1, <1>2, <1>3, <1>6, <1>7, <1>8, <1>9

(* Who looks for an unmounted mountpoint in the list, and loads the slice. *)
LEMMA FindEffect ==
  ASSUME LInv, OneBusy, Fresh, FilesMounted, ListedMounted, leaked = {}, NEW t \in Threads,
         FindToRemove(t) \/ LoadToRemove(t), Work(t)
  PROVE  /\ UNCHANGED <<slot, heap, list, ranged, mounted, oldBlocks>>
         /\ FilesMounted' /\ ListedMounted' /\ leaked' = {}
         /\ \/ Then(t, Later(t))
            \/ \E s : s.do \in {"load", "delete"} /\ Then(t, <<s>> \o Later(t))
  <1> DEFINE mp == Now(t).mp
             i == FindMountpoint(mp)
  <1>0. /\ todo[t] # <<>> /\ DOMAIN todo = Threads /\ Now(t).do \in {"unlist", "load"} /\ ~ended
        /\ \A x \in Threads \ {t} : todo[x] = <<>> /\ todo'[x] = <<>>
        /\ Types /\ TodosOK
    BY OthersIdle DEF FindToRemove, LoadToRemove, Doing, Now, LInv
  <1>1. UNCHANGED <<slot, heap, list, ranged, mounted, leaked, oldBlocks>>
    BY DEF FindToRemove, LoadToRemove, Goes, listAndPolls, listVars, pollVars, ghosts
  <1>2. ListedMps' = ListedMps /\ Listed' = Listed
    BY <1>1, ListStays
  <1>3. FilesMounted'
    BY <1>1 DEF FilesMounted
  <1>4. Later(t) \in Seq(Simple(Known) \union Branches(Known))
    BY <1>0, RemovingFacts DEF Proper
  <1>5. ASSUME NEW s, s.do \in {"load", "delete"}, s.mp = mp, Then(t, <<s>> \o Later(t))
        PROVE  ListedMounted'
    <2>1. todo'[t] = <<s>> \o Later(t)
      BY <1>0, <1>5 DEF Then
    <2>2. todo'[t] # <<>> /\ Head(todo'[t]) = s
      BY <1>4, <2>1
    <2> SUFFICES ASSUME NEW m \in Listed \ mounted
                 PROVE  mp \in ListedMps /\ mp.medium = m
      BY <1>1, <1>2, <1>5, <2>2 DEF ListedMounted, Now
    <2>3. PICK u \in Threads : todo[u] # <<>> /\ Now(u).mp \in ListedMps /\ Now(u).mp.medium = m
      BY DEF ListedMounted
    <2>4. u = t
      BY <1>0, <2>3
    <2> QED  BY <2>3, <2>4
  <1>6. CASE FindToRemove(t)
    <2>1. array \in Seq([medium : Media, n : Nat] \union {None}) /\ size \in 0..Len(array)
      BY <1>0, ListFacts
    <2>2. CASE i = 0
      <3>1. Then(t, Later(t))
        BY <1>6, <2>2 DEF FindToRemove, Goes
      <3>2. mp \notin ListedMps
        BY <2>1, <2>2, Found DEF ListedMps
      <3>3. Listed \subseteq mounted
        BY <1>0, <3>2 DEF ListedMounted
      <3>4. ListedMounted'
        BY <1>1, <1>2, <3>3 DEF ListedMounted
      <3> QED  BY <1>1, <1>3, <3>1, <3>4
    <2>3. CASE i # 0
      <3> DEFINE s == Load(mp, i)
      <3>1. Then(t, <<s>> \o Later(t))
        BY <1>6, <2>3 DEF FindToRemove, Goes
      <3>2. s.do = "load" /\ s.mp = mp
        BY DEF Load
      <3> HIDE DEF s
      <3> QED  BY <1>1, <1>3, <1>5, <3>1, <3>2
    <2> QED  BY <2>2, <2>3
  <1>7. CASE LoadToRemove(t)
    <2> DEFINE s == Delete(mp, Now(t).i)
    <2>1. Now(t).do = "load"
      BY <1>7 DEF LoadToRemove, Doing, Now
    <2>2. Now(t).i \in 1..size
      BY <1>0, <2>1 DEF Fresh
    <2>3. ~(Now(t).i > size)
      <3>1. size \in Nat
        BY <1>0 DEF Types, Within, Slices, size
      <3> QED  BY <2>2, <3>1
    <2>4. Then(t, <<s>> \o Later(t))
      BY <1>7, <2>3 DEF LoadToRemove
    <2>5. s.do = "delete" /\ s.mp = mp
      BY DEF Delete
    <2> HIDE DEF s
    <2> QED  BY <1>1, <1>3, <1>5, <2>4, <2>5
  <1> QED  BY <1>6, <1>7

(* Who removes an unmounted mountpoint from the list.                      *)
LEMMA UnlistEffect ==
  ASSUME LInv, OneBusy, Fresh, FilesMounted, ListedMounted, leaked = {}, NEW t \in Threads, RemoveMountpoint(t), Work(t)
  PROVE  /\ UNCHANGED <<slot, mounted, oldBlocks, ranged>>
         /\ FilesMounted' /\ ListedMounted' /\ leaked' = {} /\ Current \subseteq Current'
         /\ ListedMps' \subseteq ListedMps /\ Then(t, Later(t))
         /\ \A k \in 1..Len(heap) :
               heap'[k] = heap[k] \/ \A j \in 1..Len(heap[k]) : heap'[k][j] \in {heap[k][j], None} \union ListedMps
  <1> DEFINE mp == Now(t).mp
             i == Now(t).i
             S == MountpointsOf \union {None}
             D == Deleted(array, size, i)
  <1>0. /\ todo[t] # <<>> /\ DOMAIN todo = Threads /\ Now(t).do = "delete" /\ ~ended
        /\ \A x \in Threads \ {t} : todo[x] = <<>> /\ todo'[x] = <<>>
        /\ Types /\ TodosOK
    BY OthersIdle DEF RemoveMountpoint, Doing, Now, LInv
  <1>1. UNCHANGED <<slot, mounted, leaked, oldBlocks, ranged>> /\ Then(t, Later(t))
    BY DEF RemoveMountpoint, Stores, pollVars
  <1>2. array \in Seq(S) /\ size \in 0..Len(array) /\ None \in S /\ Len(array) \in Nat
    BY <1>0, ListFacts DEF MountpointsOf
  <1>3. i \in 1..size /\ array[i] = mp /\ loaded[t] = list
    BY <1>0 DEF Fresh
  <1>4. /\ list.at \in 1..Len(heap) /\ list.at \in DOMAIN heap /\ list \in Slices
        /\ heap \in Seq(Seq(MountpointsTo(Known) \union {None}))
    <2>1. list.at \in 1..Len(heap) /\ list \in Slices /\ heap \in Seq(Seq(MountpointsTo(Known) \union {None}))
      BY <1>0 DEF Types, Within
    <2> QED  BY <2>1
  <1>5. heap' = [heap EXCEPT ![list.at] = D] /\ list' = [list EXCEPT !.len = @ - 1]
    BY <1>3 DEF RemoveMountpoint, Stores, array, size
  <1> HIDE DEF D
  <1>6. list'.at = list.at /\ list'.len = list.len - 1
    BY <1>4, <1>5 DEF Slices
  <1>7. array' = D /\ size' = size - 1
    BY <1>4, <1>5, <1>6 DEF array, size
  <1>8. /\ D \in Seq(S) /\ Len(D) = Len(array)
        /\ \A j \in 1..size - 1 : D[j] = array[IF j < i THEN j ELSE j + 1]
    <2>1. PICK a : a = array
      OBVIOUS
    <2>2. PICK n : n = size
      OBVIOUS
    <2>3. PICK k : k = i
      OBVIOUS
    <2>4. a \in Seq(S) /\ n \in 0..Len(a) /\ k \in 1..n /\ None \in S
      BY <1>2, <1>3, <2>1, <2>2, <2>3
    <2>5. /\ Deleted(a, n, k) \in Seq(S) /\ Len(Deleted(a, n, k)) = Len(a)
          /\ \A j \in 1..n - 1 : Deleted(a, n, k)[j] = a[IF j < k THEN j ELSE j + 1]
      BY <2>4, ElementsMove
    <2> QED  BY <2>1, <2>2, <2>3, <2>5 DEF D
  <1>9. \A j \in 1..size - 1 : /\ (IF j < i THEN j ELSE j + 1) \in 1..size
                               /\ (IF j < i THEN j ELSE j + 1) # i
    BY <1>2, <1>3
  <1>10. \A j \in 1..size' : \E n \in 1..size : n # i /\ array'[j] = array[n]
    BY <1>7, <1>8, <1>9
  <1>11. \A n \in 1..size : n # i => array[n] # mp /\ array[n].medium # mp.medium
    BY <1>3 DEF LInv, ListedOnce, Fresh
  <1>12. ListedMps' \subseteq ListedMps \ {mp}
    BY <1>10, <1>11 DEF ListedMps
  <1>13. \A x \in ListedMps : x = mp \/ x.medium # mp.medium
    BY <1>3, <1>11 DEF ListedMps
  <1>14. \A x \in ListedMps \ {mp} : x \in ListedMps'
    <2>1. \A n \in 1..size : n # i => \E j \in 1..size - 1 : n = IF j < i THEN j ELSE j + 1
      <3> TAKE n \in 1..size
      <3> DEFINE j == IF n < i THEN n ELSE n - 1
      <3>1. n # i => j \in 1..size - 1 /\ n = IF j < i THEN j ELSE j + 1
        BY <1>2, <1>3
      <3> QED  BY <3>1
    <2>2. \A n \in 1..size : n # i => \E j \in 1..size' : array[n] = array'[j]
      BY <1>7, <1>8, <2>1
    <2> QED  BY <1>3, <2>2 DEF ListedMps
  <1>15. Listed' = {x.medium : x \in ListedMps'}
    BY DEF Listed, ListedMps
  <1>16. \A x \in ListedMps \ {mp} : x.medium \in mounted
    <2> SUFFICES ASSUME NEW x \in ListedMps \ {mp}, x.medium \notin mounted
                 PROVE  FALSE
      OBVIOUS
    <2>1. x.medium \in Listed
      BY DEF Listed, ListedMps
    <2>2. PICK y \in Threads : todo[y] # <<>> /\ Now(y).mp.medium = x.medium
      BY <2>1 DEF ListedMounted
    <2>3. y = t
      BY <1>0, <2>2
    <2> QED  BY <1>13, <2>2, <2>3
  <1>17. Listed' \subseteq mounted
    BY <1>12, <1>15, <1>16
  <1>18. ListedMounted'
    BY <1>1, <1>17 DEF ListedMounted
  <1>19. mp.medium \notin mounted
    BY <1>0, <1>3 DEF LInv, UnlistsOK, Fresh
  <1>20. Current \subseteq Current'
    BY <1>1, <1>14, <1>19 DEF Current
  <1>21. FilesMounted'
    BY <1>1 DEF FilesMounted
  <1>22. \A j \in 1..Len(array) : D[j] \in {array[j], None} \union ListedMps
    <2>1. \A j \in 1..Len(array) : D[j] = IF j \in i..size - 1 THEN array[j + 1]
                                          ELSE IF j = size /\ ClearsTail THEN None ELSE array[j]
      BY DEF D, Deleted
    <2>2. \A j \in i..size - 1 : array[j + 1] \in ListedMps
      BY <1>2, <1>3 DEF ListedMps
    <2> QED  BY <2>1, <2>2
  <1>23. ASSUME NEW k \in 1..Len(heap)
         PROVE  heap'[k] = heap[k] \/ \A j \in 1..Len(heap[k]) : heap'[k][j] \in {heap[k][j], None} \union ListedMps
    <2>1. CASE k = list.at
      BY <1>4, <1>5, <1>22, <2>1 DEF array
    <2>2. CASE k # list.at
      BY <1>4, <1>5, <2>2
    <2> QED  BY <2>1, <2>2
  <1> QED  BY <1>1, <1>12, <1>18, <1>20, <1>21, <1>23

(* What unmountAll ranges over, while elements move in the list's array.   *)
LEMMA ViewStays ==
  ASSUME LInv, ~ended, NEW t \in Threads, ViewOK(t), Current \subseteq Current', ranged' = ranged,
         \A k \in 1..Len(heap) :
            heap'[k] = heap[k] \/ \A j \in 1..Len(heap[k]) : heap'[k][j] \in {heap[k][j], None} \union ListedMps
  PROVE  ViewOK(t)'
  <1>1. ListedMps \subseteq Current
    BY ListedCurrent
  <1>2. Types
    BY DEF LInv
  <1>3. /\ ranged[t].at \in 1..Len(heap) /\ ranged[t].len \in Nat
        /\ ranged[t].len <= Len(heap[ranged[t].at])
    BY <1>2 DEF Types, Within, Slices
  <1>4. Len(heap[ranged[t].at]) \in Nat
    <2>1. heap[ranged[t].at] \in Seq(MountpointsTo(Known) \union {None})
      BY <1>2, <1>3 DEF Types
    <2> QED  BY <2>1, LenProperties
  <1>5. \A j \in 1..ranged[t].len : j \in 1..Len(heap[ranged[t].at])
    BY <1>3, <1>4
  <1> QED  BY <1>1, <1>3, <1>5 DEF ViewOK

(* A new round begins, and ends.                                           *)
LEMMA ViewMade ==
  ASSUME LInv, ~ended, NEW t \in Threads, Current \subseteq Current', UNCHANGED <<heap, list>>,
         ranged' = [ranged EXCEPT ![t] = list] \/ ranged' = [ranged EXCEPT ![t] = NoSlice]
  PROVE  ViewOK(t)'
  <1>1. DOMAIN ranged = Threads
    BY DEF LInv, Types
  <1>2. CASE ranged' = [ranged EXCEPT ![t] = list]
    <2>1. \A i \in 1..size : array[i] \in Current
      BY ListedCurrent
    <2> QED  BY <1>1, <1>2, <2>1 DEF ViewOK, array, size
  <1>3. CASE ranged' = [ranged EXCEPT ![t] = NoSlice]
    BY <1>1, <1>3 DEF ViewOK, NoSlice
  <1> QED  BY <1>2, <1>3

(* Who unmounts goes on with what may be done to unmount.                  *)
LEMMA RemoveSpares ==
  ASSUME LInv, NEW l \in {{"index", "round"}, UnmountLoops}, NEW t \in Threads, Work(t),
         todo[t] \in Seq(Sparing(RemoveMay(l))), l = UnmountLoops => ViewOK(t) \/ Now(t).do = "round",
         l = UnmountLoops \/ ~BeginRound(t)
  PROVE  Spares(t, RemoveMay(l))
  <1>0. ~ended
    BY WorkLeaves
  <1> DEFINE may == RemoveMay(l)
  <1>1. Allowed(may)
    BY RemoveAllowed
  <1>2. may.unmount = Current /\ may.loops = l
    BY DEF RemoveMay
  <1> HIDE DEF may
  <1>3. Expands(t) => Expanded(t) \in may.unmount
    <2>1. CASE UnmountNext(t) /\ GetMountpointByIndex(Now(t).d) # 0
      <3>1. Now(t).do = "index"
        BY <2>1 DEF UnmountNext, Doing, Now
      <3> QED  BY <1>0, <1>2, <2>1, <3>1, ListedCurrent DEF Expanded
    <2>2. CASE UnmountEach(t) /\ Now(t).i <= ranged[t].len /\ heap[ranged[t].at][Now(t).i] # None
      <3>1. Doing(t, "each")
        BY <2>2 DEF UnmountEach
      <3>2. Now(t) \in Sparing(may) /\ Now(t).do = "each"
        BY <1>1, <3>1, SpareOn DEF may
      <3>3. "each" \in l /\ Now(t).i \in Nat \ {0}
        BY <1>1, <1>2, <3>2, SpareKinds DEF UnmountLoops
      <3>4. ViewOK(t)
        BY <3>2, <3>3
      <3>5. heap[ranged[t].at][Now(t).i] \in Current \union {None}
        <4>1. ranged[t].len \in Nat
          BY SlotsTyped
        <4>2. Now(t).i \in 1..ranged[t].len
          BY <2>2, <3>3, <4>1
        <4> QED  BY <3>4, <4>2 DEF ViewOK
      <3> QED  BY <1>2, <2>2, <3>2, <3>5 DEF Expanded
    <2> QED  BY <2>1, <2>2 DEF Expands
  <1>4. "each" \in may.loops \/ ~BeginRound(t)
    BY <1>2 DEF UnmountLoops
  <1> QED  BY <1>1, <1>3, <1>4, SpareWork DEF may

(* A keyboard or the signal unmounts only what may be unmounted, from a    *)
(* drive that holds none of its files any more.                            *)
LEMMA RemoveUnmounts ==
  ASSUME LInv, TodosFit, UnmountsOK, NEW l \in {{"index", "round"}, UnmountLoops},
         NEW t \in Threads \ {"blockDevices"}, todo[t] # <<>>, todo[t] \in Seq(Sparing(RemoveMay(l)))
  PROVE  /\ Now(t) \in Sparing(RemoveMay(l))
         /\ Now(t).do \notin {"fill", "mount", "add", "grow"}
         /\ Now(t).do = "unmount" =>
              /\ Now(t).mp \in Current /\ Now(t).remove
              /\ slot[Home[Now(t).mp.medium]] \notin FilesOf(Now(t).mp.medium)
  <1> DEFINE may == RemoveMay(l)
  <1>1. Allowed(may) /\ Now(t) \in Sparing(may)
    BY RemoveAllowed, SpareNow
  <1>2. may.unmount = Current /\ may.attach = {} /\ may.media = {}
    BY DEF RemoveMay
  <1> HIDE DEF may
  <1>3. Now(t).do \notin {"fill", "mount", "add", "grow"}
    BY <1>1, <1>2, SpareKinds
  <1>4. ASSUME Now(t).do = "unmount"
        PROVE  /\ Now(t).mp \in Current /\ Now(t).remove
               /\ \A d \in Drives : slot[d] \notin FilesOf(Now(t).mp.medium)
    <2>1. Now(t).mp \in Current
      BY <1>1, <1>2, <1>4, SpareKinds
    <2>2. todo[t] \notin Seq(Sparing(QuietMay))
      <3>1. ASSUME Now(t) \in Sparing(QuietMay) PROVE FALSE
        <4>1. Now(t).mp \in QuietMay.unmount
          BY <1>4, <3>1, QuietAllowed, SpareKinds
        <4> QED  BY <4>1 DEF QuietMay
      <3> QED  BY <3>1 DEF Now
    <2>3. Unmounts(todo[t], Drives)
      BY <1>4, <2>2 DEF UnmountsOK, Unmounting, Now
    <2> QED  BY <1>4, <2>1, <2>3, UnmountsFirst
  <1>5. \A mp \in Current : Home[mp.medium] \in Drives
    BY FilesFacts DEF Current, MountpointsOf
  <1> QED  BY <1>1, <1>3, <1>4, <1>5 DEF may

(* A keyboard or the signal unmounts.                                      *)
LEMMA RemoveEffect ==
  ASSUME LInv, TodosFit, OneBusy, Fresh, UnmountsOK, FilesMounted, ListedMounted, leaked = {}, failures' = failures,
         NEW t \in Threads \ {"blockDevices"}, Work(t), NEW l \in {{"index", "round"}, UnmountLoops},
         todo[t] \in Seq(Sparing(RemoveMay(l))), l = UnmountLoops => ViewOK(t)
  PROVE  FilesMounted' /\ ListedMounted' /\ leaked' = {} /\ mounted' \subseteq mounted /\ OtherOK(t)'
  <1>0. todo[t] # <<>> /\ DOMAIN todo = Threads /\ \A u \in Threads \ {t} : todo[u] = <<>> /\ todo'[u] = <<>>
    BY OthersIdle
  <1>1. /\ Now(t).do \notin {"fill", "mount", "add", "grow"}
        /\ Now(t).do = "unmount" =>
             /\ Now(t).mp \in Current /\ Now(t).remove
             /\ slot[Home[Now(t).mp.medium]] \notin FilesOf(Now(t).mp.medium)
    BY <1>0, RemoveUnmounts
  <1>2. /\ Now(t).do = "unmount" <=> UnmountMountpoint(t)
        /\ Now(t).do \in {"unlist", "load"} <=> FindToRemove(t) \/ LoadToRemove(t)
        /\ Now(t).do = "delete" <=> RemoveMountpoint(t)
    BY UnmountWorkOf DEF UnmountMountpoint, FindToRemove, LoadToRemove, RemoveMountpoint, Doing, Now
  <1>3. ASSUME Now(t).do \notin {"unmount", "unlist", "load", "delete"} PROVE FilesMounted' /\ ListedMounted'
    <2>1. UNCHANGED <<heap, list, mounted, leaked>>
      BY <1>1, <1>3, WorkLeaves
    <2>2. ListedMps' = ListedMps /\ Listed' = Listed /\ Current' = Current
      BY <2>1, ListStays, MayStays
    <2>3. Listed \subseteq mounted
      <3>1. \A x \in Threads : todo[x] # <<>> => Now(x).do \notin {"unlist", "load", "delete"}
        BY <1>0, <1>3
      <3> QED  BY <3>1, ListedAreMounted
    <2>4. FilesMounted'
      <3>1. CASE slot' = slot
        BY <2>1, <3>1 DEF FilesMounted
      <3>2. CASE DetachSlot(t)
        <4>1. slot' = [slot EXCEPT ![Now(t).d] = None] /\ DOMAIN slot = Drives
          BY <3>2 DEF DetachSlot, LInv, Types
        <4>2. \A d \in Drives : slot'[d] \in {slot[d], None}
          BY <4>1
        <4>3. \A m \in Media : Home[m] \in Drives
          BY FilesFacts
        <4> QED  BY <2>1, <4>2, <4>3, NoFile DEF FilesMounted
      <3>3. ~AttachSlot(t)
        BY <1>1 DEF AttachSlot, Doing, Now
      <3> QED  BY <3>1, <3>2, <3>3, WorkSlots
    <2> QED  BY <2>1, <2>2, <2>3, <2>4 DEF ListedMounted
  <1>4. FilesMounted' /\ ListedMounted' /\ leaked' = {} /\ mounted' \subseteq mounted /\ Current \subseteq Current'
    <2>1. CASE UnmountMountpoint(t)
      BY <1>1, <1>2, <2>1, UnmountEffect
    <2>2. CASE RemoveMountpoint(t)
      BY <2>2, UnlistEffect
    <2>4. CASE FindToRemove(t) \/ LoadToRemove(t)
      <3>1. FilesMounted' /\ ListedMounted' /\ leaked' = {} /\ UNCHANGED <<heap, list, mounted>>
        BY <2>4, FindEffect
      <3>2. Current' = Current
        BY <3>1, MayStays
      <3> QED  BY <3>1, <3>2
    <2>3. CASE Now(t).do \notin {"unmount", "unlist", "load", "delete"}
      <3>1. UNCHANGED <<heap, list, mounted, leaked>>
        BY <1>1, <2>3, WorkLeaves
      <3>2. Current' = Current
        BY <3>1, MayStays
      <3> QED  BY <1>3, <2>3, <3>1, <3>2
    <2> QED  BY <1>2, <2>1, <2>2, <2>3, <2>4
  <1>5. ASSUME NEW L \in {{"index", "round"}, UnmountLoops}, Spares(t, RemoveMay(L))
        PROVE  (todo[t] \in Seq(Sparing(RemoveMay(L))))'
    <2>1. todo'[t] \in Seq(Sparing(RemoveMay(L)))
      BY <1>0, <1>5 DEF Spares
    <2>2. Seq(Sparing(RemoveMay(L))) \subseteq Seq(Sparing(RemoveMay(L)'))
      <3> DEFINE may == RemoveMay(L)
                 more == RemoveMay(L)'
      <3>1. /\ may.empty = more.empty /\ may.detach = more.detach /\ may.attach = more.attach /\ may.copy = more.copy
            /\ may.unmount \subseteq more.unmount /\ may.media = more.media /\ may.loops = more.loops
        BY <1>4 DEF RemoveMay
      <3> HIDE DEF may, more
      <3>2. Seq(Sparing(may)) \subseteq Seq(Sparing(more))
        BY <3>1, SpareMore
      <3> QED  BY <3>2 DEF may, more
    <2> QED  BY <2>1, <2>2 DEF Sparing, Calm
  <1>8. ~ended
    BY WorkLeaves
  <1>6. CASE BeginRound(t)
    <2>1. Now(t).do = "round"
      BY <1>6 DEF BeginRound, Doing, Now
    <2>2. todo[t] \in Seq(Sparing(RemoveMay(UnmountLoops)))
      <3> DEFINE may == RemoveMay(l)
                 more == RemoveMay(UnmountLoops)
      <3>1. /\ may.empty = more.empty /\ may.detach = more.detach /\ may.attach = more.attach /\ may.copy = more.copy
            /\ may.unmount = more.unmount /\ may.media = more.media /\ may.loops \subseteq more.loops
        BY DEF RemoveMay, UnmountLoops
      <3> HIDE DEF may, more
      <3>2. Seq(Sparing(may)) \subseteq Seq(Sparing(more))
        BY <3>1, SpareMore
      <3> QED  BY <3>2 DEF may, more
    <2>3. Spares(t, RemoveMay(UnmountLoops))
      BY <2>1, <2>2, RemoveSpares
    <2>4. (todo[t] \in Seq(Sparing(RemoveMay(UnmountLoops))))'
      BY <1>5, <2>3
    <2>5. ViewOK(t)'
      <3>1. /\ UNCHANGED <<heap, list>>
            /\ ranged' = [ranged EXCEPT ![t] = list]
        BY <1>6 DEF BeginRound
      <3> QED  BY <1>4, <1>8, <3>1, ViewMade
    <2> QED  BY <1>4, <2>4, <2>5 DEF OtherOK
  <1>7. CASE ~BeginRound(t)
    <2>1. Spares(t, RemoveMay(l))
      BY <1>7, RemoveSpares
    <2>2. (todo[t] \in Seq(Sparing(RemoveMay(l))))'
      BY <1>5, <2>1
    <2>3. ASSUME l = UnmountLoops PROVE ViewOK(t)'
      <3>1. CASE RemoveMountpoint(t)
        <4>1. /\ ranged' = ranged
              /\ \A k \in 1..Len(heap) :
                    \/ heap'[k] = heap[k]
                    \/ \A j \in 1..Len(heap[k]) : heap'[k][j] \in {heap[k][j], None} \union ListedMps
          BY <3>1, UnlistEffect
        <4> QED  BY <1>4, <1>8, <2>3, <4>1, ViewStays
      <3>2. CASE UnmountEach(t)
        <4>1. /\ UNCHANGED <<heap, list>>
              /\ ranged' = ranged \/ ranged' = [ranged EXCEPT ![t] = NoSlice]
          BY <3>2 DEF UnmountEach, Goes, listAndPolls, listVars
        <4> QED  BY <1>4, <1>8, <2>3, <4>1, ViewStays, ViewMade
      <3>3. CASE Now(t).do \notin {"grow", "delete", "round", "each"}
        <4>1. UNCHANGED <<heap, list, ranged>>
          BY <3>3, WorkLeaves
        <4> QED  BY <1>4, <1>8, <2>3, <4>1, ViewStays
      <3>4. /\ Now(t).do = "round" => BeginRound(t)
            /\ Now(t).do = "each" => UnmountEach(t)
        BY LoopWorkOf
      <3> QED  BY <1>1, <1>2, <1>7, <3>1, <3>2, <3>3, <3>4
    <2>4. CASE l = UnmountLoops
      <3>1. (todo[t] \in Seq(Sparing(RemoveMay(UnmountLoops))) /\ ViewOK(t))'
        BY <2>2, <2>3, <2>4
      <3> QED  BY <1>4, <3>1 DEF OtherOK
    <2>5. CASE l = {"index", "round"}
      <3>1. (todo[t] \in Seq(Sparing(RemoveMay({"index", "round"}))))'
        BY <2>2, <2>5
      <3> QED  BY <1>4, <3>1 DEF OtherOK
    <2> QED  BY <2>4, <2>5
  <1> QED  BY <1>4, <1>6, <1>7

(* A keyboard, the discovery or the signal works.                          *)
LEMMA OtherMounts ==
  ASSUME LInv, TodosFit, OneBusy, Fresh, UnmountsOK, MInv, failures' = failures,
         NEW t \in Threads \ {"blockDevices"}, Work(t)
  PROVE  MInv'
  <1> USE DEF MInv
  <1>0. /\ "blockDevices" \in Threads /\ todo["blockDevices"] = <<>> /\ oldBlocks' = oldBlocks
        /\ \A u \in Threads \ {t} : todo'[u] = <<>>
    BY OthersIdle, WorkLeaves DEF Threads
  <1>1. FilesMounted' /\ ListedMounted' /\ leaked' = {} /\ mounted' \subseteq mounted /\ OtherOK(t)'
    <2>1. CASE todo[t] \in Seq(Sparing(InsertMay))
      <3>1. (todo[t] \in Seq(Sparing(InsertMay)))'
        BY <2>1, InsertEffect
      <3> QED  BY <2>1, <3>1, InsertEffect DEF OtherOK
    <2>2. ASSUME NEW l \in {{"index", "round"}, UnmountLoops}, todo[t] \in Seq(Sparing(RemoveMay(l))),
                 l = UnmountLoops => ViewOK(t)
          PROVE  FilesMounted' /\ ListedMounted' /\ leaked' = {} /\ mounted' \subseteq mounted /\ OtherOK(t)'
      BY <2>2, RemoveEffect
    <2>3. {"index", "round"} # UnmountLoops
      BY DEF UnmountLoops
    <2> QED  BY <2>1, <2>2, <2>3 DEF OtherOK, OthersOK
  <1>2. ASSUME NEW u \in Threads \ {t} PROVE OtherOK(u)'
    <2>1. <<>> \in Seq(Sparing(InsertMay'))
      OBVIOUS
    <2>2. (todo[u] \in Seq(Sparing(InsertMay)))'
      BY <1>0, <2>1 DEF Sparing, Calm
    <2> QED  BY <2>2 DEF OtherOK
  <1>3. PollOK'
    <2>1. mounted' \subseteq oldBlocks'
      BY <1>0, <1>1, PollIdle
    <2>2. <<>> \in Seq(Sparing(InsertMay'))
      OBVIOUS
    <2>3. (todo["blockDevices"] \in Seq(Sparing(InsertMay)))'
      BY <1>0, <2>2 DEF Sparing, Calm
    <2> QED  BY <2>1, <2>3 DEF PollOK, PollMay
  <1> QED  BY <1>1, <1>2, <1>3 DEF OthersOK

(* The poll goes on with what it may have to do.                           *)
LEMMA PollSays ==
  ASSUME NEW r, todo'["blockDevices"] = r, PollMay(r)'
  PROVE  PollOK'
  BY DEF PollOK, PollMay, Attaching, Puts, Mounting, Clearing, Empties, Removes, Unlisting, Sparing, Calm

(* The poll works, and goes on with r.                                     *)
LEMMA PollGoes ==
  ASSUME LInv, OneBusy, Fresh, Work("blockDevices"), NEW r, Then("blockDevices", r), PollMay(r)',
         FilesMounted', ListedMounted', leaked' = {}
  PROVE  MInv'
  <1>0. /\ "blockDevices" \in Threads /\ DOMAIN todo = Threads
        /\ \A u \in Threads \ {"blockDevices"} : todo'[u] = <<>>
    BY OthersIdle DEF Threads
  <1>1. ASSUME NEW u \in Threads \ {"blockDevices"} PROVE OtherOK(u)'
    <2>1. <<>> \in Seq(Sparing(InsertMay'))
      OBVIOUS
    <2>2. (todo[u] \in Seq(Sparing(InsertMay)))'
      BY <1>0, <2>1 DEF Sparing, Calm
    <2> QED  BY <2>2 DEF OtherOK
  <1>2. todo'["blockDevices"] = r
    BY <1>0 DEF Then
  <1>3. PollOK'
    BY <1>2, PollSays
  <1> QED  BY <1>1, <1>3 DEF MInv, OthersOK

(* What changes nothing but a flag and what is to do.                      *)
LEMMA NothingMoves ==
  ASSUME LInv, OneBusy, Fresh, FilesMounted, ListedMounted, leaked = {}, Work("blockDevices"),
         Now("blockDevices").do \notin {"unlist", "load", "delete"}, UNCHANGED <<slot, heap, list, mounted, leaked>>
  PROVE  FilesMounted' /\ ListedMounted' /\ leaked' = {} /\ ListedMps' = ListedMps /\ Listed' = Listed
         /\ Listed \subseteq mounted
  <1>1. "blockDevices" \in Threads /\ \A u \in Threads \ {"blockDevices"} : todo[u] = <<>>
    BY OthersIdle DEF Threads
  <1>2. ListedMps' = ListedMps /\ Listed' = Listed
    BY ListStays
  <1>3. Listed \subseteq mounted
    BY <1>1, ListedAreMounted
  <1> QED  BY <1>2, <1>3 DEF FilesMounted, ListedMounted

(* The poll attaches the default file.                                     *)
LEMMA PollAttaches ==
  ASSUME LInv, OneBusy, Fresh, MInv, Work("blockDevices"), mounted \subseteq oldBlocks, Attaching(todo["blockDevices"])
  PROVE  MInv'
  <1> DEFINE p == "blockDevices"
             q == todo[p]
             s == Now(p)
  <1> USE DEF MInv
  <1>0. Now(p) = Head(q) /\ Later(p) = Tail(q) /\ oldBlocks' = oldBlocks
    BY WorkLeaves DEF Now, Later
  <1>1. CASE q # <<>> /\ Head(q) = HDStart /\ Puts(Tail(q))
    <2>1. PICK r : r = Tail(q)
      OBVIOUS
    <2>2. Now(p).do = "hdStart"
      BY <1>0, <1>1 DEF HDStart
    <2>3. Then(p, r) /\ UNCHANGED <<slot, heap, list, mounted, leaked>>
      BY <1>0, <2>1, <2>2, WorkOf DEF SetRerunEmulator, listAndPolls, listVars, ghosts
    <2>4. FilesMounted' /\ ListedMounted' /\ leaked' = {}
      BY <2>2, <2>3, NothingMoves
    <2>5. Puts(r) /\ Sound' = Sound
      BY <1>1, <2>1, <2>3, MayStays
    <2>6. Puts(r)'
      BY <2>3, <2>5 DEF Puts
    <2>7. PollMay(r)'
      BY <1>0, <2>3, <2>6 DEF PollMay, Attaching
    <2> QED  BY <2>3, <2>4, <2>7, PollGoes
  <1>2. CASE Puts(q)
    <2> DEFINE u == Fill(s.d, s.f)
    <2>1. /\ s.do = "attach" /\ <<s.d, s.f>> \in Sound /\ slot[s.d] = None
          /\ Later(p) \in {<<>>, <<HDDone>>}
      BY <1>0, <1>2 DEF Puts
    <2>2. PICK r : r = <<u>> \o Later(p)
      OBVIOUS
    <2>3. Then(p, r) /\ UNCHANGED <<slot, heap, list, mounted, leaked>>
      BY <2>1, <2>2, WorkOf DEF LookForAttach, Goes, listAndPolls, listVars, ghosts
    <2>4. FilesMounted' /\ ListedMounted' /\ leaked' = {}
      BY <2>1, <2>3, NothingMoves
    <2>5. r \in Seq(Sparing(InsertMay))
      <3>1. Allowed(InsertMay) /\ InsertMay.attach = Sound
        BY InsertAllowed DEF InsertMay
      <3>2. s.d \in Drives /\ s.f \in Slottable
        BY <2>1 DEF Sound, Anything
      <3>3. u \in Sparing(InsertMay)
        BY <2>1, <3>1, <3>2, SpareMade, SpareSeqs
      <3> HIDE DEF u
      <3>4. <<u>> \in Seq(Sparing(InsertMay))
        BY <3>3
      <3>5. Later(p) \in Seq(Sparing(InsertMay))
        BY <2>1, IdleOK
      <3> QED  BY <2>2, <3>4, <3>5, SpareSeqs
    <2>6. InsertMay' = InsertMay
      BY <2>3, MayStays
    <2>7. PollMay(r)'
      <3>1. r \in Seq(Sparing(InsertMay'))
        BY <2>5, <2>6
      <3>2. (r \in Seq(Sparing(InsertMay)))'
        BY <3>1 DEF Sparing, Calm
      <3> QED  BY <1>0, <2>3, <3>2 DEF PollMay
    <2> QED  BY <2>3, <2>4, <2>7, PollGoes
  <1> QED  BY <1>1, <1>2 DEF Attaching

(* The poll removes what it has unmounted from the list.                   *)
LEMMA PollUnlists ==
  ASSUME LInv, OneBusy, Fresh, MInv, Work("blockDevices"), mounted \subseteq oldBlocks, Unlisting(todo["blockDevices"])
  PROVE  MInv'
  <1> DEFINE p == "blockDevices"
  <1> USE DEF MInv
  <1>1. p \in Threads /\ Now(p).do \in {"unlist", "load", "delete"} /\ Later(p) \in {<<>>, <<HDDone>>}
    BY DEF Unlisting, Now, Later, Threads
  <1>2. /\ mounted' = mounted /\ oldBlocks' = oldBlocks
        /\ FilesMounted' /\ ListedMounted' /\ leaked' = {}
        /\ \/ Then(p, Later(p))
           \/ \E s : s.do \in {"load", "delete"} /\ Then(p, <<s>> \o Later(p))
    <2>1. CASE Now(p).do = "delete"
      BY <1>1, <2>1, UnmountWorkOf, UnlistEffect
    <2>2. CASE Now(p).do \in {"unlist", "load"}
      BY <1>1, <2>2, UnmountWorkOf, FindEffect
    <2> QED  BY <1>1, <2>1, <2>2
  <1>3. CASE Then(p, Later(p))
    <2>1. PICK r : r = Later(p)
      OBVIOUS
    <2>2. r \in Seq(Sparing(InsertMay'))
      BY <1>1, <2>1, IdleOK
    <2>3. (r \in Seq(Sparing(InsertMay)))'
      BY <2>2 DEF Sparing, Calm
    <2>4. PollMay(r)'
      BY <1>2, <2>3 DEF PollMay
    <2>5. Then(p, r)
      BY <1>3, <2>1
    <2> QED  BY <1>2, <2>4, <2>5, PollGoes
  <1>4. CASE \E s : s.do \in {"load", "delete"} /\ Then(p, <<s>> \o Later(p))
    <2>0. PICK s : s.do \in {"load", "delete"} /\ Then(p, <<s>> \o Later(p))
      BY <1>4
    <2>1. PICK r : r = <<s>> \o Later(p)
      OBVIOUS
    <2>2. r # <<>> /\ Head(r) = s /\ Tail(r) = Later(p)
      <3>1. Later(p) \in Seq(Sparing(InsertMay))
        BY <1>1, IdleOK
      <3> QED  BY <2>1, <3>1
    <2>3. Unlisting(r)'
      BY <1>1, <2>0, <2>2 DEF Unlisting
    <2>4. PollMay(r)'
      BY <1>2, <2>3 DEF PollMay
    <2>5. Then(p, r)
      BY <2>0, <2>1
    <2> QED  BY <1>2, <2>4, <2>5, PollGoes
  <1> QED  BY <1>2, <1>3, <1>4

(* The poll mounts a medium.                                               *)
LEMMA PollMounts ==
  ASSUME LInv, OneBusy, Fresh, MInv, Work("blockDevices"), failures' = failures, mounted \subseteq oldBlocks,
         NEW m \in oldBlocks, Mounting(todo["blockDevices"], m), Now("blockDevices") = Mount(m)
  PROVE  MInv'
  <1> DEFINE p == "blockDevices"
             mp == [medium |-> m, n |-> mounts + 1]
             s == IF Files[m] = <<>> /\ m \notin Dirs /\ Default[m] # None THEN Unmount(mp, FALSE) ELSE Add(mp)
  <1> USE DEF MInv
  <1>0. /\ Now(p).do = "mount" /\ Now(p).m = m /\ Later(p) = <<>> /\ slot[Home[m]] = None
        /\ oldBlocks' = oldBlocks /\ failures \in Nat /\ ~ended
    BY WorkLeaves DEF Mounting, Mount, Now, Later, LInv, Types
  <1>1. MountMountpoint(p)
    BY <1>0, LoopWorkOf
  <1>2. UNCHANGED <<slot, heap, list, leaked>>
    BY <1>1 DEF MountMountpoint, Goes, listAndPolls, listVars, ghosts
  <1>3. \/ mounted' = mounted /\ Then(p, Later(p))
        \/ /\ mounted' = mounted \union {m} /\ Then(p, <<s>>)
           /\ GetMountpointByDevicePathname(m) = 0
    BY <1>0, <1>1 DEF MountMountpoint, Goes, listAndPolls, Fails
  <1>4. CASE mounted' = mounted /\ Then(p, Later(p))
    <2>1. PICK r : r = Later(p)
      OBVIOUS
    <2>2. r \in Seq(Sparing(InsertMay'))
      BY <1>0, <2>1, IdleOK
    <2>3. (r \in Seq(Sparing(InsertMay)))'
      BY <2>2 DEF Sparing, Calm
    <2>4. PollMay(r)'
      BY <1>0, <1>4, <2>3 DEF PollMay
    <2>5. Then(p, r)
      BY <1>4, <2>1
    <2> QED  BY <1>0, <1>2, <1>4, <2>4, <2>5, NothingMoves, PollGoes
  <1>5. CASE mounted' = mounted \union {m} /\ Then(p, <<s>>) /\ GetMountpointByDevicePathname(m) = 0
    <2>1. PICK r : r = <<s>>
      OBVIOUS
    <2>2. s.do \in {"add", "unmount"} /\ (s.do = "unmount" => ~s.remove) /\ s.mp.medium = m
      BY DEF Unmount, Add
    <2> HIDE DEF s
    <2>3. r # <<>> /\ Head(r) = s /\ Tail(r) = <<>>
      BY <2>1
    <2>4. m \notin Listed
      <3>1. array \in Seq([medium : Media, n : Nat] \union {None}) /\ size \in 0..Len(array)
        BY <1>0, ListFacts DEF LInv
      <3> QED  BY <1>5, <3>1, Found DEF Listed
    <2>5. Listed' = Listed
      BY <1>2, ListStays
    <2>6. Mounting(r, m)'
      BY <1>0, <1>2, <1>5, <2>2, <2>3, <2>4, <2>5 DEF Mounting
    <2>7. PollMay(r)'
      BY <1>0, <1>5, <2>6 DEF PollMay
    <2>8. Listed \subseteq mounted
      <3>1. \A u \in Threads \ {p} : todo[u] = <<>>
        BY OthersIdle DEF Threads
      <3> QED  BY <1>0, <3>1, ListedAreMounted
    <2>9. FilesMounted' /\ ListedMounted'
      BY <1>2, <1>5, <2>5, <2>8 DEF FilesMounted, ListedMounted
    <2>10. Then(p, r) /\ leaked' = {}
      BY <1>2, <1>5, <2>1
    <2> QED  BY <2>7, <2>9, <2>10, PollGoes
  <1> QED  BY <1>3, <1>4, <1>5

(* It unmounts a medium without files again.                               *)
LEMMA PollDrops ==
  ASSUME LInv, OneBusy, Fresh, MInv, Work("blockDevices"), failures' = failures, mounted \subseteq oldBlocks,
         NEW m \in oldBlocks, Mounting(todo["blockDevices"], m), Now("blockDevices").do = "unmount"
  PROVE  MInv'
  <1> DEFINE p == "blockDevices"
  <1> USE DEF MInv
  <1>0. /\ Now(p).mp.medium = m /\ ~Now(p).remove /\ Later(p) = <<>> /\ slot[Home[m]] = None
        /\ m \in mounted \ Listed
        /\ oldBlocks' = oldBlocks /\ failures \in Nat
    BY WorkLeaves DEF Mounting, Mount, Now, Later, LInv, Types
  <1>1. UnmountMountpoint(p)
    BY UnmountWorkOf
  <1>2. UNCHANGED <<slot, heap, list>>
    BY <1>1 DEF UnmountMountpoint, Goes, listAndPolls, listVars
  <1>3. mounted' = mounted \ {m} /\ leaked' = leaked \ {m} /\ Then(p, <<>> \o Later(p))
    BY <1>0, <1>1 DEF UnmountMountpoint, Goes, listAndPolls, Fails
  <1>4. PICK r : r = <<>> \o Later(p)
    OBVIOUS
  <1>5. r = <<>>
    BY <1>0, <1>4
  <1>6. r \in Seq(Sparing(InsertMay'))
    BY <1>5
  <1>7. (r \in Seq(Sparing(InsertMay)))'
    BY <1>6 DEF Sparing, Calm
  <1>8. PollMay(r)'
    BY <1>0, <1>3, <1>7 DEF PollMay
  <1>9. Listed \subseteq mounted
    <2>1. \A u \in Threads \ {p} : todo[u] = <<>>
      BY OthersIdle DEF Threads
    <2> QED  BY <2>1, ListedAreMounted
  <1>10. Listed' = Listed
    BY <1>2, ListStays
  <1>11. FilesMounted'
    <2>1. m \in Media
      BY DEF LInv, Types
    <2> QED  BY <1>0, <1>2, <1>3, <2>1, NoFile DEF FilesMounted
  <1>12. ListedMounted' /\ leaked' = {}
    BY <1>0, <1>3, <1>9, <1>10 DEF ListedMounted
  <1>13. Then(p, r)
    BY <1>3, <1>4
  <1> QED  BY <1>8, <1>11, <1>12, <1>13, PollGoes

(* It loads the slice to append to.                                        *)
LEMMA PollLoads ==
  ASSUME LInv, OneBusy, Fresh, MInv, Work("blockDevices"), mounted \subseteq oldBlocks,
         NEW m \in oldBlocks, Mounting(todo["blockDevices"], m), Now("blockDevices").do = "add"
  PROVE  MInv'
  <1> DEFINE p == "blockDevices"
             s == Grow(Now(p).mp)
  <1> USE DEF MInv
  <1>0. /\ Now(p).mp.medium = m /\ slot[Home[m]] = None /\ m \in mounted \ Listed
        /\ oldBlocks' = oldBlocks
    BY WorkLeaves DEF Mounting, Mount, Now
  <1>1. LoadToAdd(p)
    BY LoopWorkOf
  <1>2. Then(p, <<s>>) /\ UNCHANGED <<slot, heap, list, mounted, leaked>>
    BY <1>1 DEF LoadToAdd, ghosts
  <1>3. FilesMounted' /\ ListedMounted' /\ leaked' = {} /\ Listed' = Listed
    BY <1>2, NothingMoves
  <1>4. s.do = "grow" /\ s.mp.medium = m
    BY <1>0 DEF Grow
  <1> HIDE DEF s
  <1>5. PICK r : r = <<s>>
    OBVIOUS
  <1>6. r # <<>> /\ Head(r) = s /\ Tail(r) = <<>>
    BY <1>5
  <1>7. Mounting(r, m)'
    BY <1>0, <1>2, <1>3, <1>4, <1>6 DEF Mounting
  <1>8. PollMay(r)'
    BY <1>0, <1>2, <1>7 DEF PollMay
  <1>9. Then(p, r)
    BY <1>2, <1>5
  <1> QED  BY <1>3, <1>8, <1>9, PollGoes

(* It lists the medium, and goes on to attach the default file.            *)
LEMMA PollLists ==
  ASSUME LInv, OneBusy, Fresh, MInv, Work("blockDevices"), mounted \subseteq oldBlocks,
         NEW m \in oldBlocks, Mounting(todo["blockDevices"], m), Now("blockDevices").do = "grow"
  PROVE  MInv'
  <1> DEFINE p == "blockDevices"
             mp == Now(p).mp
             k == Kind[Home[m]]
             f == IF m \in Dirs THEN m ELSE Default[m]
             s == Attach(Home[m], f, <<Unmount(mp, TRUE)>> \o After(k))
             q == IF f = None THEN <<>> ELSE (Before(k) \o <<s>>) \o After(k)
             S == MountpointsTo(mounts) \union {None}
  <1> USE DEF MInv
  <1>0. /\ mp.medium = m /\ Later(p) = <<>> /\ slot[Home[m]] = None
        /\ m \in mounted \ Listed /\ m \in Media /\ todo[p] # <<>> /\ p \in Threads
        /\ oldBlocks' = oldBlocks /\ Now(p).do = "grow" /\ ~ended /\ Types /\ TodosOK
    BY WorkLeaves DEF Mounting, Mount, Now, Later, LInv, Types, Threads
  <1>1. AddMountpoint(p)
    BY <1>0, LoopWorkOf
  <1>2. UNCHANGED <<slot, mounted, leaked>> /\ Then(p, q)
    BY <1>0, <1>1 DEF AddMountpoint, Stores, AttachDefault
  <1>16. /\ list \in Slices /\ list.at \in 1..Len(heap) /\ list.len <= Len(heap[list.at])
         /\ heap \in Seq(Seq(S)) /\ mp \in S
    <2>1. list \in Slices /\ list.at \in 1..Len(heap) /\ list.len <= Len(heap[list.at])
      BY <1>0 DEF Types, Within
    <2>2. Known \in Nat /\ Known <= mounts /\ mounts \in Nat
      BY <1>0, HandFacts
    <2>3. heap \in Seq(Seq(MountpointsTo(Known) \union {None}))
      BY <1>0 DEF Types
    <2>4. MountpointsTo(Known) \union {None} \subseteq S
      BY <2>2 DEF MountpointsTo
    <2>5. heap \in Seq(Seq(S))
      <3>1. Seq(MountpointsTo(Known) \union {None}) \subseteq Seq(S)
        BY <2>4, SeqMonotonic
      <3> HIDE DEF S
      <3> QED  BY <2>3, <3>1, SeqMonotonic
    <2>6. mp \in S
      <3>1. PICK x \in Media : mp = [medium |-> x, n |-> mounts]
        BY <1>0, HandCases
      <3> QED  BY <2>2, <3>1 DEF MountpointsTo
    <2> QED  BY <2>1, <2>5, <2>6
  <1> HIDE DEF S, mp
  <1>17. Appends(heap, list, mp, heap', list')
    <2>1. loaded[p] = list
      BY <1>0 DEF Fresh
    <2>2. \/ /\ list.len < Len(heap[list.at])
             /\ heap' = [heap EXCEPT ![list.at] = [heap[list.at] EXCEPT ![list.len + 1] = mp]]
             /\ list' = [list EXCEPT !.len = @ + 1]
          \/ /\ list.len = Len(heap[list.at])
             /\ heap' = Append(heap, heap[list.at] \o [i \in 1..(IF list.len = 0 THEN 1 ELSE list.len) |-> mp])
             /\ list' = [at |-> Len(heap) + 1, len |-> list.len + 1]
      BY <1>1, <2>1 DEF AddMountpoint, Stores, mp
    <2>3. Len(heap[list.at]) \in Nat /\ list.len \in Nat
      <3>1. heap[list.at] \in Seq(S)
        BY <1>16
      <3> QED  BY <1>16, <3>1, LenProperties DEF Slices
    <2>4. CASE list.len < Len(heap[list.at])
      BY <2>2, <2>3, <2>4 DEF Appends, Grown
    <2>5. CASE list.len = Len(heap[list.at])
      <3>1. ~(list.len < Len(heap[list.at]))
        BY <2>3, <2>5
      <3> QED  BY <2>2, <2>5, <3>1 DEF Appends, Grown
    <2> QED  BY <1>16, <2>3, <2>4, <2>5
  <1>18. /\ list'.len = list.len + 1
         /\ heap'[list'.at][list.len + 1] = mp
         /\ \A i \in 1..list.len : heap'[list'.at][i] = heap[list.at][i]
    <2>1. PICK hq : hq = heap'
      OBVIOUS
    <2>2. PICK n : n = list'
      OBVIOUS
    <2>3. Appends(heap, list, mp, hq, n)
      BY <1>17, <2>1, <2>2
    <2>4. /\ n.len = list.len + 1 /\ hq[n.at][list.len + 1] = mp
          /\ \A i \in 1..list.len : hq[n.at][i] = heap[list.at][i]
      BY <1>16, <2>3, HeapGrows
    <2> QED  BY <2>1, <2>2, <2>4
  <1>3. Listed' = Listed \union {m}
    <2>1. size \in Nat
      BY <1>16 DEF Slices, size
    <2>3. size' = size + 1 /\ array'[size + 1] = mp /\ \A i \in 1..size : array'[i] = array[i]
      BY <1>18 DEF array, size
    <2>4. \A i : i \in 1..size' <=> i \in 1..size \/ i = size + 1
      BY <2>1, <2>3
    <2>5. mp.medium = m
      BY <1>0
    <2> QED  BY <2>3, <2>4, <2>5 DEF Listed
  <1>4. Listed \subseteq mounted
    <2>1. \A u \in Threads \ {p} : todo[u] = <<>>
      BY OthersIdle DEF Threads
    <2> QED  BY <1>0, <2>1, ListedAreMounted
  <1>5. FilesMounted' /\ ListedMounted' /\ leaked' = {}
    BY <1>0, <1>2, <1>3, <1>4 DEF FilesMounted, ListedMounted
  <1>6. PICK r : r = q
    OBVIOUS
  <1>7. Then(p, r)
    BY <1>2, <1>6
  <1>8. <<Home[m], f>> \in Sound
    <2>1. Allowed(InsertMay) /\ InsertMay.attach = Sound /\ InsertMay.media = mounted
      BY InsertAllowed DEF InsertMay
    <2>2. Home[m] \in Drives /\ f \in FilesOf(m) \union {None, Missing}
      BY <1>0, FilesFacts, MediaSpare
    <2> HIDE DEF f
    <2> QED  BY <1>0, <2>1, <2>2 DEF Allowed
  <1>9. r = <<>> \/ r = <<s>> \/ r = <<HDStart, s, HDDone>>
    <2> HIDE DEF s, k
    <2> QED  BY <1>6, BracketedShape
  <1>10. s.do = "attach" /\ s.d = Home[m] /\ s.f = f
    BY DEF Attach
  <1> HIDE DEF s, f, q
  <1>11. Sound' = Sound
    BY <1>2, MayStays
  <1>12. ASSUME NEW x, x # <<>>, Head(x) = s, Tail(x) \in {<<>>, <<HDDone>>} PROVE Puts(x)'
    BY <1>0, <1>2, <1>8, <1>10, <1>11, <1>12 DEF Puts
  <1>13. CASE r = <<>>
    <2>1. r \in Seq(Sparing(InsertMay'))
      BY <1>13
    <2>2. (r \in Seq(Sparing(InsertMay)))'
      BY <2>1 DEF Sparing, Calm
    <2>3. PollMay(r)'
      BY <1>0, <1>2, <2>2 DEF PollMay
    <2> QED  BY <1>5, <1>7, <2>3, PollGoes
  <1>14. CASE r = <<s>>
    <2>1. Puts(r)'
      BY <1>12, <1>14, Shapes
    <2>2. PollMay(r)'
      BY <1>0, <1>2, <2>1 DEF PollMay, Attaching
    <2> QED  BY <1>5, <1>7, <2>2, PollGoes
  <1>15. CASE r = <<HDStart, s, HDDone>>
    <2>1. PICK x : x = <<s, HDDone>>
      OBVIOUS
    <2>2. x # <<>> /\ Head(x) = s /\ Tail(x) = <<HDDone>>
      <3> HIDE DEF HDDone
      <3> QED  BY <2>1, Shapes
    <2>3. r # <<>> /\ Head(r) = HDStart /\ Tail(r) = x
      <3> HIDE DEF HDDone, HDStart
      <3> QED  BY <1>15, <2>1, Shapes
    <2>4. Puts(x)'
      BY <1>12, <2>2
    <2>5. Puts(Tail(r))'
      BY <2>3, <2>4 DEF Puts
    <2>6. PollMay(r)'
      BY <1>0, <1>2, <2>3, <2>5 DEF PollMay, Attaching
    <2> QED  BY <1>5, <1>7, <2>6, PollGoes
  <1> QED  BY <1>9, <1>13, <1>14, <1>15

(* The two steps that are left, and the first of them.                     *)
LEMMA RemovesShape ==
  ASSUME NEW q, NEW mp, Removes(q, mp)
  PROVE  /\ q # <<>> /\ Tail(q) \in {<<>>, <<HDDone>>}
         /\ Head(q).do = "unmount" /\ Head(q).mp = mp /\ Head(q).remove = TRUE
         /\ \A s : <<s>> \o q # <<>> /\ Head(<<s>> \o q) = s /\ Tail(<<s>> \o q) = q
  <1> DEFINE u == Unmount(mp, TRUE)
  <1>1. u.do = "unmount" /\ u.mp = mp /\ u.remove = TRUE
    BY DEF Unmount
  <1>2. q \in {<<u>>, <<u, HDDone>>}
    BY DEF Removes
  <1> HIDE DEF u, HDDone
  <1>3. q # <<>> /\ Tail(q) \in {<<>>, <<HDDone>>} /\ Head(q) = u
    BY <1>2, Shapes
  <1>4. \A s : <<s>> \o q # <<>> /\ Head(<<s>> \o q) = s /\ Tail(<<s>> \o q) = q
    <2> DEFINE S == {u, HDDone}
    <2>1. u \in S /\ HDDone \in S
      OBVIOUS
    <2> HIDE DEF S
    <2>2. <<u>> \in Seq(S) /\ <<u, HDDone>> \in Seq(S)
      BY <2>1
    <2>3. q \in Seq(S)
      BY <1>2, <2>2
    <2> QED  BY <2>3
  <1> QED  BY <1>1, <1>3, <1>4

(* The poll empties the drive of the medium that is gone and unmounts it.  *)
LEMMA PollEmpties ==
  ASSUME LInv, OneBusy, Fresh, MInv, Work("blockDevices"), failures' = failures, NEW mp \in ListedMps,
         mounted \subseteq oldBlocks \union {mp.medium}, Empties(todo["blockDevices"], mp)
  PROVE  MInv'
  <1> DEFINE p == "blockDevices"
             q == todo[p]
             d == Home[mp.medium]
  <1> USE DEF MInv
  <1>0. /\ Now(p) = Head(q) /\ Later(p) = Tail(q) /\ oldBlocks' = oldBlocks /\ mp \in Current
        /\ d \in Drives /\ DOMAIN slot = Drives /\ p \in Threads /\ ~ended
    BY WorkLeaves, ListedCurrent, FilesFacts DEF Now, Later, LInv, Types, MountpointsOf, Threads
  <1>1. CASE Removes(q, mp) /\ slot[d] = None
    <2>1. /\ Now(p).do = "unmount" /\ Now(p).remove /\ Now(p).mp = mp
          /\ Later(p) \in {<<>>, <<HDDone>>}
      BY <1>0, <1>1, RemovesShape
    <2>2. slot[d] \notin FilesOf(mp.medium)
      <3>1. mp.medium \in Media
        BY <1>0, ListedCurrent DEF MountpointsOf
      <3> QED  BY <1>1, <3>1, NoFile
    <2>3. UnmountMountpoint(p)
      BY <2>1, UnmountWorkOf
    <2>4. /\ FilesMounted' /\ ListedMounted' /\ leaked' = {} /\ mounted' = mounted \ {mp.medium}
          /\ Then(p, Later(p)) \/ Then(p, <<Unlist(mp)>> \o Later(p))
      <3>1. slot[Home[Now(p).mp.medium]] \notin FilesOf(Now(p).mp.medium) /\ Now(p).mp \in Current /\ Now(p).remove
        BY <1>0, <2>1, <2>2
      <3> QED  BY <1>0, <2>1, <2>3, <3>1, UnmountEffect
    <2>5. mounted' \subseteq oldBlocks'
      BY <1>0, <2>4
    <2>6. CASE Then(p, Later(p))
      <3>1. PICK r : r = Later(p)
        OBVIOUS
      <3>2. r \in Seq(Sparing(InsertMay'))
        BY <2>1, <3>1, IdleOK
      <3>3. (r \in Seq(Sparing(InsertMay)))'
        BY <3>2 DEF Sparing, Calm
      <3>4. PollMay(r)'
        BY <2>5, <3>3 DEF PollMay
      <3>5. Then(p, r)
        BY <2>6, <3>1
      <3> QED  BY <2>4, <3>4, <3>5, PollGoes
    <2>7. CASE Then(p, <<Unlist(mp)>> \o Later(p))
      <3> DEFINE u == Unlist(mp)
      <3>1. u.do = "unlist"
        BY DEF Unlist
      <3> HIDE DEF u
      <3>2. PICK r : r = <<u>> \o Later(p)
        OBVIOUS
      <3>3. r # <<>> /\ Head(r) = u /\ Tail(r) = Later(p)
        <4>1. Later(p) \in Seq(Sparing(InsertMay))
          BY <2>1, IdleOK
        <4> QED  BY <3>2, <4>1
      <3>4. Unlisting(r)'
        BY <2>1, <3>1, <3>3 DEF Unlisting
      <3>5. PollMay(r)'
        BY <2>5, <3>4 DEF PollMay
      <3>6. Then(p, r)
        BY <2>7, <3>2 DEF u
      <3> QED  BY <2>4, <3>5, <3>6, PollGoes
    <2> QED  BY <2>4, <2>6, <2>7
  <1>2. CASE q # <<>> /\ Removes(Tail(q), mp) /\ Head(q) = Clear(d)
    <2>1. Now(p).do = "clear" /\ Now(p).d = d
      BY <1>0, <1>2 DEF Clear
    <2>2. PICK r : r = Tail(q)
      OBVIOUS
    <2>3. /\ slot' = [slot EXCEPT ![d] = None] /\ Then(p, r)
          /\ UNCHANGED <<heap, list, mounted, leaked>>
      <3>1. DetachSlot(p)
        BY <2>1, WorkOf
      <3>2. Then(p, Later(p)) /\ slot' = [slot EXCEPT ![Now(p).d] = None] /\ UNCHANGED <<listAndPolls, ghosts>>
        BY <3>1 DEF DetachSlot
      <3> QED  BY <1>0, <2>1, <2>2, <3>2 DEF listAndPolls, listVars, ghosts
    <2>4. ListedMps' = ListedMps /\ Listed' = Listed
      BY <2>3, ListStays
    <2>5. ListedMounted'
      <3>1. \A u \in Threads \ {p} : todo[u] = <<>>
        BY OthersIdle DEF Threads
      <3>2. Listed \subseteq mounted
        BY <2>1, <3>1, ListedAreMounted
      <3> QED  BY <2>3, <2>4, <3>2 DEF ListedMounted
    <2>6. FilesMounted'
      <3>1. \A e \in Drives : slot'[e] \in {slot[e], None}
        BY <1>0, <2>3
      <3>2. \A m \in Media : Home[m] \in Drives
        BY FilesFacts
      <3> QED  BY <2>3, <3>1, <3>2, NoFile DEF FilesMounted
    <2>7. Empties(r, mp)'
      <3>1. slot'[d] = None
        BY <1>0, <2>3
      <3> QED  BY <1>2, <2>2, <3>1 DEF Empties, Removes
    <2>8. PollMay(r)'
      <3>1. Clearing(r, mp)'
        BY <2>7 DEF Clearing
      <3> QED  BY <1>0, <2>3, <2>4, <3>1 DEF PollMay
    <2> QED  BY <2>3, <2>5, <2>6, <2>8, PollGoes
  <1>3. CASE q # <<>> /\ Removes(Tail(q), mp) /\ Head(q).do = "detach" /\ Head(q).d = d /\ Head(q).f = slot[d]
    <2> DEFINE u == Clear(d)
    <2>1. PICK x : x = Tail(q)
      OBVIOUS
    <2>2. PICK r : r = <<u>> \o x
      OBVIOUS
    <2>3. Then(p, r) /\ UNCHANGED <<slot, heap, list, mounted, leaked>>
      BY <1>0, <1>3, <2>1, <2>2, WorkOf DEF LookForDetach, Goes, listAndPolls, listVars, ghosts
    <2>4. FilesMounted' /\ ListedMounted' /\ leaked' = {} /\ ListedMps' = ListedMps
      BY <1>0, <1>3, <2>3, NothingMoves
    <2>5. r # <<>> /\ Head(r) = u /\ Tail(r) = x /\ Removes(x, mp)
      <3> HIDE DEF u
      <3> QED  BY <1>3, <2>1, <2>2, RemovesShape
    <2>6. Empties(r, mp)'
      BY <2>5 DEF Empties, Removes
    <2>7. PollMay(r)'
      <3>1. Clearing(r, mp)'
        BY <2>6 DEF Clearing
      <3> QED  BY <1>0, <2>3, <2>4, <3>1 DEF PollMay
    <2> QED  BY <2>3, <2>4, <2>7, PollGoes
  <1> QED  BY <1>1, <1>2, <1>3 DEF Empties

(* It has stopped the emulator first, or not.                              *)
LEMMA PollClears ==
  ASSUME LInv, OneBusy, Fresh, MInv, Work("blockDevices"), failures' = failures, NEW mp \in ListedMps,
         mounted \subseteq oldBlocks \union {mp.medium}, Clearing(todo["blockDevices"], mp)
  PROVE  MInv'
  <1> DEFINE p == "blockDevices"
             q == todo[p]
  <1> USE DEF MInv
  <1>1. CASE q # <<>> /\ Head(q) = HDStart /\ Empties(Tail(q), mp)
    <2>1. PICK r : r = Tail(q)
      OBVIOUS
    <2>2. Now(p).do = "hdStart"
      BY <1>1 DEF HDStart, Now
    <2>3. Then(p, r) /\ UNCHANGED <<slot, heap, list, mounted, leaked>> /\ oldBlocks' = oldBlocks
      BY <2>1, <2>2, WorkOf, WorkLeaves DEF SetRerunEmulator, listAndPolls, listVars, ghosts, Later
    <2>4. FilesMounted' /\ ListedMounted' /\ leaked' = {} /\ ListedMps' = ListedMps
      BY <2>2, <2>3, NothingMoves
    <2>5. Empties(r, mp)'
      BY <1>1, <2>1, <2>3 DEF Empties, Removes
    <2>6. PollMay(r)'
      <3>1. Clearing(r, mp)'
        BY <2>5 DEF Clearing
      <3> QED  BY <2>3, <2>4, <3>1 DEF PollMay
    <2> QED  BY <2>3, <2>4, <2>6, PollGoes
  <1>2. CASE Empties(q, mp)
    BY <1>2, PollEmpties
  <1> QED  BY <1>1, <1>2 DEF Clearing

(* Whatever the poll does.                                                 *)
LEMMA PollWorks ==
  ASSUME LInv, OneBusy, Fresh, MInv, Work("blockDevices"), failures' = failures
  PROVE  MInv'
  <1> DEFINE p == "blockDevices"
             q == todo[p]
  <1>0. p \in Threads
    BY DEF Threads
  <1>1. CASE mounted \subseteq oldBlocks /\ q \in Seq(Sparing(InsertMay))
    <2>1. /\ UNCHANGED <<mounted, leaked, oldBlocks>> /\ FilesMounted' /\ ListedMounted'
          /\ Spares(p, InsertMay)
      BY <1>0, <1>1, InsertEffect DEF MInv
    <2>2. PICK r \in Seq(Sparing(InsertMay)) : Then(p, r)
      BY <2>1 DEF Spares, Then
    <2>3. r \in Seq(Sparing(InsertMay'))
      BY <2>1, <2>2, MayStays
    <2>4. (r \in Seq(Sparing(InsertMay)))'
      BY <2>3 DEF Sparing, Calm
    <2>5. PollMay(r)'
      BY <1>1, <2>1, <2>4 DEF PollMay
    <2>6. leaked' = {}
      BY <2>1 DEF MInv
    <2> QED  BY <2>1, <2>2, <2>5, <2>6, PollGoes
  <1>2. ASSUME mounted \subseteq oldBlocks, NEW m \in oldBlocks, Mounting(q, m) PROVE MInv'
    <2>1. Now(p) = Mount(m) \/ Now(p).do \in {"add", "grow", "unmount"}
      BY <1>2 DEF Mounting, Now
    <2> QED  BY <1>2, <2>1, PollMounts, PollDrops, PollLoads, PollLists
  <1> QED  BY <1>1, <1>2, PollAttaches, PollUnlists, PollClears DEF MInv, PollOK, PollMay

(* What a goroutine may have to do, while nothing of it changes.           *)
LEMMA OtherStays ==
  ASSUME UNCHANGED <<heap, list, ranged, mounted>>, NEW u \in Threads, todo'[u] = todo[u], OtherOK(u)
  PROVE  OtherOK(u)'
  <1>1. InsertMay' = InsertMay /\ Current' = Current /\ \A l : RemoveMay(l)' = RemoveMay(l)
    BY MayStays
  <1>2. CASE todo[u] \in Seq(Sparing(InsertMay))
    <2>1. todo'[u] \in Seq(Sparing(InsertMay'))
      BY <1>1, <1>2
    <2>2. (todo[u] \in Seq(Sparing(InsertMay)))'
      BY <2>1 DEF Sparing, Calm
    <2> QED  BY <2>2 DEF OtherOK
  <1>3. ASSUME NEW l, todo[u] \in Seq(Sparing(RemoveMay(l)))
        PROVE  (todo[u] \in Seq(Sparing(RemoveMay(l))))'
    <2>1. todo'[u] \in Seq(Sparing(RemoveMay(l)'))
      BY <1>1, <1>3
    <2> QED  BY <2>1 DEF Sparing, Calm
  <1>4. ViewOK(u) => ViewOK(u)'
    BY <1>1 DEF ViewOK
  <1> QED  BY <1>2, <1>3, <1>4 DEF OtherOK

(* What the poll may have to do, likewise.                                 *)
LEMMA PollStays ==
  ASSUME UNCHANGED <<slot, heap, list, mounted, oldBlocks>>, todo'["blockDevices"] = todo["blockDevices"], PollOK
  PROVE  PollOK'
  <1> DEFINE q == todo["blockDevices"]
  <1>1. /\ InsertMay' = InsertMay /\ Sound' = Sound /\ ListedMps' = ListedMps /\ Listed' = Listed
    BY MayStays, ListStays
  <1>2. CASE mounted \subseteq oldBlocks /\ q \in Seq(Sparing(InsertMay))
    <2>1. todo'["blockDevices"] \in Seq(Sparing(InsertMay'))
      BY <1>1, <1>2
    <2>2. (todo["blockDevices"] \in Seq(Sparing(InsertMay)))'
      BY <2>1 DEF Sparing, Calm
    <2> QED  BY <1>2, <2>2 DEF PollOK, PollMay
  <1>3. CASE mounted \subseteq oldBlocks /\ (Attaching(q) \/ Unlisting(q))
    <2>1. (Attaching(todo["blockDevices"]) \/ Unlisting(todo["blockDevices"]))'
      BY <1>1, <1>3 DEF Attaching, Puts, Unlisting
    <2> QED  BY <1>3, <2>1 DEF PollOK, PollMay
  <1>4. ASSUME mounted \subseteq oldBlocks, NEW m \in oldBlocks, Mounting(q, m)
        PROVE  PollOK'
    <2>1. Mounting(todo["blockDevices"], m)'
      BY <1>1, <1>4 DEF Mounting
    <2> QED  BY <1>4, <2>1 DEF PollOK, PollMay
  <1>5. ASSUME NEW mp \in ListedMps, Clearing(q, mp), mounted \subseteq oldBlocks \union {mp.medium}
        PROVE  PollOK'
    <2>1. Clearing(todo["blockDevices"], mp)'
      BY <1>5 DEF Clearing, Empties, Removes
    <2> QED  BY <1>1, <1>5, <2>1 DEF PollOK, PollMay
  <1> QED  BY <1>2, <1>3, <1>4, <1>5 DEF PollOK, PollMay

(* Nothing happens to the mounts.                                          *)
LEMMA MountsStay ==
  ASSUME MInv, UNCHANGED <<slot, heap, list, ranged, mounted, leaked, oldBlocks, todo>>
  PROVE  MInv'
  <1>1. FilesMounted' /\ leaked' = {}
    BY DEF MInv, FilesMounted
  <1>2. ListedMounted'
    BY ListStays DEF MInv, ListedMounted, Now
  <1>3. OthersOK'
    BY OtherStays DEF MInv, OthersOK
  <1>4. PollOK'
    BY PollStays DEF MInv
  <1> QED  BY <1>1, <1>2, <1>3, <1>4 DEF MInv

(* A goroutine starts on r.                                                *)
LEMMA BeginMounts ==
  ASSUME LInv, MInv, NEW t \in Threads, NEW r, Begin(t, r),
         UNCHANGED <<slot, heap, list, ranged, mounted, leaked>>,
         t # "blockDevices" => /\ oldBlocks' = oldBlocks
                               /\ r \in Seq(Sparing(InsertMay)) \/ r \in Seq(Sparing(RemoveMay({"index", "round"}))),
         t = "blockDevices" => PollMay(r)'
  PROVE  MInv'
  <1>1. DOMAIN todo = Threads /\ todo[t] = <<>> /\ todo' = [todo EXCEPT ![t] = r] /\ "blockDevices" \in Threads
    BY DEF Begin, LInv, TodosOK, Threads
  <1>2. todo'[t] = r /\ \A u \in Threads \ {t} : todo'[u] = todo[u]
    BY <1>1
  <1>3. FilesMounted' /\ leaked' = {}
    BY DEF MInv, FilesMounted
  <1>4. ListedMounted'
    <2>1. ListedMps' = ListedMps /\ Listed' = Listed
      BY ListStays
    <2> SUFFICES ASSUME NEW m \in Listed \ mounted
                 PROVE  \E u \in Threads : /\ todo'[u] # <<>> /\ Head(todo'[u]).do \in {"unlist", "load", "delete"}
                                           /\ Head(todo'[u]).mp \in ListedMps
                                           /\ Head(todo'[u]).mp.medium = m
      BY <2>1 DEF ListedMounted, Now
    <2>2. PICK u \in Threads : /\ todo[u] # <<>> /\ Now(u).do \in {"unlist", "load", "delete"}
                               /\ Now(u).mp \in ListedMps /\ Now(u).mp.medium = m
      BY DEF ListedMounted, MInv
    <2> QED  BY <1>1, <1>2, <2>2 DEF Now
  <1>5. ASSUME NEW u \in Threads \ {"blockDevices"} PROVE OtherOK(u)'
    <2>1. CASE u # t
      BY <1>2, <2>1, OtherStays DEF MInv, OthersOK
    <2>2. CASE u = t
      <3>1. InsertMay' = InsertMay /\ \A l : RemoveMay(l)' = RemoveMay(l)
        BY MayStays
      <3>2. \/ todo'[u] \in Seq(Sparing(InsertMay'))
            \/ todo'[u] \in Seq(Sparing(RemoveMay({"index", "round"})'))
        BY <1>2, <2>2, <3>1
      <3>3. \/ (todo[u] \in Seq(Sparing(InsertMay)))'
            \/ (todo[u] \in Seq(Sparing(RemoveMay({"index", "round"}))))'
        BY <3>2 DEF Sparing, Calm
      <3> QED  BY <3>3 DEF OtherOK
    <2> QED  BY <2>1, <2>2
  <1>6. PollOK'
    <2>1. CASE t = "blockDevices"
      <3>1. PollMay(r)' /\ todo'["blockDevices"] = r
        BY <1>2, <2>1
      <3> QED  BY <3>1, PollSays
    <2>2. CASE t # "blockDevices"
      BY <1>1, <1>2, <2>2, PollStays DEF MInv
    <2> QED  BY <2>1, <2>2
  <1> QED  BY <1>3, <1>4, <1>5, <1>6 DEF MInv, OthersOK

(* The poll starts on a medium that is gone: it empties the drive first.   *)
LEMMA DetachClears ==
  ASSUME LInv, ~ended, NEW m \in Media, GetMountpointByDevicePathname(m) # 0
  PROVE  \E mp \in ListedMps : mp.medium = m /\ Clearing(DetachMedium(m), mp)
  <1> DEFINE i == GetMountpointByDevicePathname(m)
             mp == array[i]
             d == Home[m]
             k == Kind[d]
             u == Unmount(mp, TRUE)
             rest == <<u>> \o After(k)
             s == Detach(d, slot[d], rest)
             first == IF slot[d] # None THEN <<s>> ELSE <<>>
  <1>1. mp \in ListedMps /\ mp.medium = m
    <2>1. array \in Seq([medium : Media, n : Nat] \union {None}) /\ size \in 0..Len(array)
      BY ListFacts DEF LInv
    <2>2. i \in 1..size /\ mp.medium = m
      BY <2>1, Found
    <2> QED  BY <2>2, ListedCurrent
  <1>2. DetachMedium(m) = (Before(k) \o first) \o rest
    BY DEF DetachMedium
  <1>3. s.do = "detach" /\ s.d = d /\ s.f = slot[d]
    BY DEF Detach
  <1> DEFINE S == {s, u, HDStart, HDDone}
  <1> HIDE DEF i, mp, s, HDStart, HDDone
  <1>4. rest \in {<<u>>, <<u, HDDone>>}
    <2> HIDE DEF u
    <2>1. <<u>> \o <<>> = <<u>>
      <3>1. <<u>> \in Seq({u})
        OBVIOUS
      <3> QED  BY <3>1, ConcatEmptySeq
    <2>2. <<u>> \o <<HDDone>> = <<u, HDDone>>
      BY Pairs
    <2> QED  BY <2>1, <2>2 DEF After
  <1>5. Removes(rest, mp)
    BY <1>4 DEF Removes
  <1> HIDE DEF u
  <1>6. rest \in Seq(S) /\ first \in Seq(S) /\ HDStart \in S
    <2>1. <<u>> \in Seq(S) /\ <<u, HDDone>> \in Seq(S) /\ <<s>> \in Seq(S) /\ <<>> \in Seq(S)
      OBVIOUS
    <2> HIDE DEF S, rest
    <2> QED  BY <1>4, <2>1 DEF S
  <1> HIDE DEF rest, S
  <1>7. Empties(first \o rest, mp) /\ first \o rest \in Seq(S)
    <2>1. CASE slot[d] = None
      BY <1>1, <1>5, <1>6, <2>1, ConcatEmptySeq DEF Empties
    <2>2. CASE slot[d] # None
      <3>1. first = <<s>>
        BY <2>2
      <3>2. <<s>> \o rest # <<>> /\ Head(<<s>> \o rest) = s /\ Tail(<<s>> \o rest) = rest
        BY <1>5, RemovesShape
      <3> QED  BY <1>1, <1>3, <1>5, <1>6, <3>1, <3>2, ConcatProperties DEF Empties
    <2> QED  BY <2>1, <2>2
  <1> HIDE DEF first
  <1>8. Clearing((Before(k) \o first) \o rest, mp)
    <2>1. CASE k = "HD"
      <3>1. (<<HDStart>> \o first) \o rest = <<HDStart>> \o (first \o rest)
        <4>1. <<HDStart>> \in Seq(S)
          BY <1>6
        <4> QED  BY <1>6, <4>1, ConcatAssociative
      <3> DEFINE r == <<HDStart>> \o (first \o rest)
      <3>2. r # <<>> /\ Head(r) = HDStart /\ Tail(r) = first \o rest
        BY <1>6, <1>7, HeadTailOfConcat
      <3> HIDE DEF r
      <3>3. Clearing(r, mp)
        BY <1>7, <3>2 DEF Clearing
      <3> QED  BY <2>1, <3>1, <3>3 DEF Before, r
    <2>2. CASE k # "HD"
      <3>1. (<<>> \o first) \o rest = first \o rest
        BY <1>6, ConcatEmptySeq
      <3> QED  BY <1>7, <2>2, <3>1 DEF Clearing, Before
    <2> QED  BY <2>1, <2>2
  <1> QED  BY <1>1, <1>2, <1>8

(* The poll starts on a medium that has come, or looks what there is.      *)
LEMMA BlockDevicesMounts ==
  ASSUME LInv, Fresh, MInv, BlockDevices
  PROVE  MInv'
  <1> DEFINE p == "blockDevices"
  <1> USE DEF MInv
  <1>1. /\ p \in Threads /\ todo[p] = <<>> /\ mounted \subseteq oldBlocks
        /\ UNCHANGED <<slot, heap, list, ranged, mounted, leaked>>
        /\ oldBlocks \subseteq Media /\ blocks \subseteq Media /\ ~ended
    BY PollIdle DEF BlockDevices, Begin, Threads, listVars, ghosts, LInv, Types
  <1>2. InsertMay' = InsertMay /\ ListedMps' = ListedMps /\ Listed' = Listed
    BY <1>1, MayStays, ListStays
  <1>3. ASSUME NEW r, r = <<>>, mounted \subseteq oldBlocks' PROVE PollMay(r)'
    <2>1. r \in Seq(Sparing(InsertMay'))
      BY <1>3
    <2>2. (r \in Seq(Sparing(InsertMay)))'
      BY <2>1 DEF Sparing, Calm
    <2> QED  BY <1>1, <1>3, <2>2 DEF PollMay
  <1>4. ASSUME NEW r, Begin(p, r), PollMay(r)' PROVE MInv'
    BY <1>1, <1>4, BeginMounts
  <1>5. ASSUME NEW m \in Media, Begin(p, DetachMedium(m)), oldBlocks' = oldBlocks \ {m}
        PROVE  MInv'
    <2>1. PICK r : r = DetachMedium(m)
      OBVIOUS
    <2>2. CASE GetMountpointByDevicePathname(m) = 0
      <3>1. r = <<>>
        BY <2>1, <2>2 DEF DetachMedium
      <3>2. m \notin mounted
        <4>1. m \notin Listed
          <5>1. array \in Seq([medium : Media, n : Nat] \union {None}) /\ size \in 0..Len(array)
            BY <1>1, ListFacts DEF LInv
          <5>2. \A i \in 1..size : array[i].medium # m
            BY <2>2, <5>1, Found
          <5> QED  BY <5>2 DEF Listed
        <4> QED  BY <1>1, <4>1 DEF LInv, MountsOK, Held, Fresh
      <3> QED  BY <1>1, <1>3, <1>4, <1>5, <2>1, <3>1, <3>2
    <2>3. CASE GetMountpointByDevicePathname(m) # 0
      <3>1. PICK mp \in ListedMps : mp.medium = m /\ Clearing(r, mp)
        BY <1>1, <2>1, <2>3, DetachClears
      <3>2. Clearing(r, mp)'
        BY <1>1, <3>1 DEF Clearing, Empties, Removes
      <3>3. mounted' \subseteq oldBlocks' \union {mp.medium}
        BY <1>1, <1>5, <3>1
      <3>4. PollMay(r)'
        BY <1>2, <3>2, <3>3 DEF PollMay
      <3> QED  BY <1>4, <1>5, <2>1, <3>4
    <2> QED  BY <2>2, <2>3
  <1>6. ASSUME NEW m \in Media \ oldBlocks, Begin(p, AttachMedium(m)), oldBlocks' = oldBlocks \union {m}
        PROVE  MInv'
    <2>1. PICK r : r = AttachMedium(m)
      OBVIOUS
    <2>2. m \notin mounted
      BY <1>1, <1>6
    <2>3. r = <<>> \/ (slot[Home[m]] = None /\ r = <<Mount(m)>>)
      BY <2>1, <2>2, Pairs DEF AttachMedium
    <2>4. CASE r = <<>>
      BY <1>1, <1>3, <1>4, <1>6, <2>1, <2>4
    <2>5. CASE slot[Home[m]] = None /\ r = <<Mount(m)>>
      <3>1. r # <<>> /\ Head(r) = Mount(m) /\ Tail(r) = <<>>
        BY <2>5, Shapes
      <3>2. Mounting(r, m)'
        BY <1>1, <2>5, <3>1 DEF Mounting
      <3>3. PollMay(r)'
        BY <1>1, <1>6, <3>2 DEF PollMay
      <3> QED  BY <1>4, <1>6, <2>1, <3>3
    <2> QED  BY <2>3, <2>4, <2>5
  <1>7. ASSUME Begin(p, <<>>), oldBlocks' = oldBlocks PROVE MInv'
    <2>1. PICK r : r = <<>>
      OBVIOUS
    <2> QED  BY <1>1, <1>3, <1>4, <1>7, <2>1
  <1>8. \/ \E m \in oldBlocks \ blocks : Begin(p, DetachMedium(m)) /\ oldBlocks' = oldBlocks \ {m}
        \/ \E m \in blocks \ oldBlocks : Begin(p, AttachMedium(m)) /\ oldBlocks' = oldBlocks \union {m}
        \/ Begin(p, <<>>) /\ oldBlocks' = oldBlocks
    BY DEF BlockDevices
  <1> QED  BY <1>1, <1>5, <1>6, <1>7, <1>8

(* The discovery starts on what it may do.                                 *)
LEMMA DiscoveryMounts ==
  ASSUME LInv, MInv, Discovery
  PROVE  MInv'
  <1> DEFINE p == "discovery"
  <1>1. /\ p \in Threads /\ p # "blockDevices" /\ oldFiles \subseteq Devices /\ currentFiles \subseteq Devices
        /\ UNCHANGED <<slot, heap, list, ranged, mounted, leaked, oldBlocks>>
    BY DEF Discovery, Threads, listVars, ghosts, LInv, Types
  <1>2. Allowed(InsertMay) /\ InsertMay.detach = Anything /\ InsertMay.attach = Sound
    BY InsertAllowed DEF MInv, InsertMay
  <1>3. \A f \in Devices, d \in Drives : <<d, f>> \in InsertMay.attach
    <2>1. \A m \in Media : FilesOf(m) \subseteq Images
      BY DEF Images
    <2>2. \A f \in Devices : f \in Slottable /\ f \notin Images
      BY ConstantsAssumption DEF Slottable
    <2> QED  BY <1>2, <2>1, <2>2 DEF Sound, Anything
  <1>4. PICK q \in Seq(Sparing(InsertMay)) : Begin(p, q)
    BY <1>1, <1>2, <1>3, DiscoverySpares, SpareSeqs DEF Discovery
  <1> QED  BY <1>1, <1>4, BeginMounts

(* So does the signal.                                                     *)
LEMMA SignalMounts ==
  ASSUME LInv, MInv, Signal
  PROVE  MInv'
  <1> DEFINE p == "signal"
             l == {"index", "round"}
             s == Round(1)
  <1>1. /\ p \in Threads /\ p # "blockDevices" /\ Begin(p, <<s, Report, Stop>>)
        /\ UNCHANGED <<slot, heap, list, ranged, mounted, leaked, oldBlocks>>
    BY DEF Signal, Threads, listVars, pollVars, ghosts
  <1>2. Allowed(RemoveMay(l)) /\ RemoveMay(l).loops = l
    BY RemoveAllowed DEF RemoveMay
  <1>3. s \in Sparing(RemoveMay(l)) /\ Report \in Sparing(RemoveMay(l)) /\ Stop \in Sparing(RemoveMay(l))
    BY <1>2, SpareMade, LoopsMade, SpareSeqs
  <1> HIDE DEF s, Report, Stop
  <1>4. <<s, Report, Stop>> \in Seq(Sparing(RemoveMay(l)))
    BY <1>3
  <1>5. PICK q : q = <<s, Report, Stop>>
    OBVIOUS
  <1> QED  BY <1>1, <1>4, <1>5, BeginMounts

(* And a keyboard; when it does not unmount, what is listed is mounted.    *)
LEMMA KeyboardMounts ==
  ASSUME LInv, MInv, overlaps' = 0, NEW t \in Keyboards, Keyboard(t)
  PROVE  MInv'
  <1> DEFINE l == {"index", "round"}
  <1>1. t \in Threads /\ t # "blockDevices"
    BY ConstantsAssumption DEF Threads
  <1>2. ASSUME NEW q, Command(t, q), q \in Seq(Sparing(InsertMay)) \/ q \in Seq(Sparing(RemoveMay(l)))
        PROVE  MInv'
    <2>1. Begin(t, q) /\ UNCHANGED <<slot, heap, list, ranged, mounted, leaked, oldBlocks>>
      BY <1>2 DEF Command, listVars, pollVars, ghosts
    <2> QED  BY <1>1, <1>2, <2>1, BeginMounts
  <1>3. CASE UnmountCommand(t)
    <2>1. Allowed(RemoveMay(l)) /\ l \subseteq RemoveMay(l).loops
      BY RemoveAllowed DEF RemoveMay
    <2> QED  BY <1>2, <1>3, <2>1, UnmountsSpared
  <1>4. CASE ~UnmountCommand(t)
    <2>1. Busy = {}
      <3>1. PICK q : Command(t, q)
        BY DEF Keyboard, InsertFromSourceIndexToTargetIndex, InsertByDiskNo, InsertToManyIndex,
               EjectFromSourceIndex, EjectFromSourceIndexAll, UnmountFromSourceIndex, UnmountAll, LowLevelCopy
      <3>2. overlaps \in Nat
        BY DEF LInv, Types
      <3> QED  BY <3>1, <3>2 DEF Command, Begin
    <2>2. Listed \subseteq mounted
      BY <2>1, ListedAreMounted DEF Busy, MInv
    <2>3. Allowed(InsertMay) /\ Listed \subseteq InsertMay.media /\ InsertMay.copy = Drives
      BY <2>2, InsertAllowed DEF MInv, InsertMay
    <2> QED  BY <1>2, <1>4, <2>3, OthersSpared
  <1> QED  BY <1>3, <1>4

(* Every step that overlaps with nothing and in which nothing fails.       *)
LEMMA MountsNext ==
  ASSUME LInv, TodosFit, OneBusy, Fresh, UnmountsOK, MInv, [Next]_vars, overlaps' = 0, failures' = failures
  PROVE  MInv'
  <1>1. CASE Plug \/ UNCHANGED vars
    <2>1. UNCHANGED <<slot, heap, list, ranged, mounted, leaked, oldBlocks, todo>>
      BY <1>1 DEF Plug, vars, listAndPolls, listVars, pollVars, ghosts
    <2> QED  BY <2>1, MountsStay
  <1>2. ASSUME NEW t \in Keyboards, Keyboard(t) PROVE MInv'
    BY <1>2, KeyboardMounts
  <1>3. ASSUME NEW t \in Threads, Work(t) PROVE MInv'
    BY <1>3, OtherMounts, PollWorks
  <1> QED  BY <1>1, <1>2, <1>3, BlockDevicesMounts, DiscoveryMounts, SignalMounts DEF Next

(* A failure is not undone.                                                *)
LEMMA FailuresStay ==
  ASSUME LInv, [Next]_vars, failures' = 0
  PROVE  failures = 0
  <1>0. failures \in Nat
    BY DEF LInv, Types
  <1>1. CASE Plug \/ BlockDevices \/ Discovery \/ Signal \/ UNCHANGED vars
    BY <1>1 DEF Plug, BlockDevices, Discovery, Signal, vars, counters
  <1>2. ASSUME NEW t \in Keyboards, Keyboard(t) PROVE failures = 0
    <2>1. \E q : Command(t, q)
      BY <1>2 DEF Keyboard, InsertFromSourceIndexToTargetIndex, InsertByDiskNo, InsertToManyIndex,
                  EjectFromSourceIndex, EjectFromSourceIndexAll, UnmountFromSourceIndex, UnmountAll, LowLevelCopy
    <2> QED  BY <2>1 DEF Command
  <1>3. ASSUME NEW t \in Threads, Work(t) PROVE failures' = failures \/ failures' = failures + 1
    <2> USE DEF counters, Goes, Fails
    <2>1. CASE LookForDetach(t) \/ DetachSlot(t) \/ LookForAttach(t) \/ AttachSlot(t)
      BY <2>1 DEF LookForDetach, DetachSlot, LookForAttach, AttachSlot
    <2>2. CASE MountMountpoint(t) \/ LoadToAdd(t) \/ AddMountpoint(t)
               \/ UnmountMountpoint(t) \/ FindToRemove(t) \/ LoadToRemove(t) \/ RemoveMountpoint(t)
      BY <2>2 DEF MountMountpoint, LoadToAdd, AddMountpoint, Stores, UnmountMountpoint, FindToRemove,
                LoadToRemove, RemoveMountpoint
    <2>3. CASE DetachMountpointROM(t) \/ FreeFile(t) \/ EjectNext(t) \/ InsertNext(t) \/ UnmountNext(t)
      BY <2>3 DEF DetachMountpointROM, FreeFile, EjectNext, InsertNext, UnmountNext
    <2>4. CASE TakeSource(t) \/ TakeTarget(t) \/ Copy(t)
      BY <2>4 DEF TakeSource, TakeTarget, Copy
    <2>5. CASE BeginRound(t) \/ UnmountEach(t) \/ ReportUnmounted(t) \/ SetRerunEmulator(t) \/ End(t)
      BY <2>5 DEF BeginRound, UnmountEach, ReportUnmounted, SetRerunEmulator, End
    <2> QED  BY <1>3, <2>1, <2>2, <2>3, <2>4, <2>5 DEF Work
  <1> QED  BY <1>0, <1>1, <1>2, <1>3 DEF Next

(* The invariant holds as long as nothing overlaps and nothing fails.      *)
LEMMA MountsHold == Spec => [](overlaps = 0 /\ failures = 0 => MInv)
  <1>1. Init => MInv
    <2> SUFFICES ASSUME Init PROVE MInv
      OBVIOUS
    <2>1. \A t \in Threads : todo[t] = <<>>
      BY DEF Init
    <2>2. <<>> \in Seq(Sparing(InsertMay)) /\ "blockDevices" \in Threads
      BY DEF Threads
    <2>3. FilesMounted
      <3>1. \A d \in Drives : slot[d] = None
        BY DEF Init
      <3>2. \A m \in Media : Home[m] \in Drives
        BY ConstantsAssumption
      <3> QED  BY <3>1, <3>2, NoFile DEF FilesMounted
    <2>4. ListedMounted /\ leaked = {} /\ mounted \subseteq oldBlocks
      <3>1. size = 0
        BY DEF Init, size, NoSlice
      <3>2. Listed = {}
        BY <3>1 DEF Listed
      <3> QED  BY <3>2 DEF Init, ListedMounted
    <2>5. PollOK
      BY <2>1, <2>2, <2>4 DEF PollOK, PollMay
    <2> QED  BY <2>1, <2>2, <2>3, <2>4, <2>5 DEF MInv, OthersOK, OtherOK
  <1>2. LInv /\ UInv /\ (overlaps = 0 => Fresh) /\ (overlaps = 0 /\ failures = 0 => MInv) /\ [Next]_vars
          => (overlaps = 0 /\ failures = 0 => MInv)'
    <2> SUFFICES ASSUME LInv, UInv, overlaps = 0 => Fresh, overlaps = 0 /\ failures = 0 => MInv,
                        [Next]_vars, overlaps' = 0, failures' = 0
                 PROVE  MInv'
      OBVIOUS
    <2>1. overlaps = 0 /\ failures = 0
      BY TurnsTaken, FailuresStay DEF UInv
    <2> QED  BY <2>1, MountsNext DEF UInv
  <1> QED  BY <1>1, <1>2, InvariantHolds, UnmountsHold, FreshHold, PTL DEF Spec

(* As long as goroutines do not overlap and nothing fails: when all are    *)
(* done, the list and the file systems agree, as the poll lists what it    *)
(* mounts, or unmounts it again, before it ends, and who unmounts a medium *)
(* takes it out of the list.  And no file of a medium that is gone stays   *)
(* in the drive of the medium: who unmounts it has emptied that drive.     *)
THEOREM MountsAgree == Spec => []MountsMatch
  <1>1. LInv /\ (overlaps = 0 => Fresh) /\ (overlaps = 0 /\ failures = 0 => MInv) => MountsMatch
    <2> SUFFICES ASSUME LInv, Fresh, MInv, AtRest
                 PROVE  Listed = mounted /\ FilesMounted
      BY DEF MountsMatch, FilesMounted
    <2>1. \A t \in Threads : todo[t] = <<>>
      BY DEF AtRest, Busy
    <2>2. Listed \subseteq mounted
      BY <2>1, ListedAreMounted DEF MInv
    <2>3. mounted \subseteq Listed
      <3>1. "blockDevices" \in Threads
        BY DEF Threads
      <3> QED  BY <2>1, <3>1 DEF LInv, MountsOK, Held, MInv, Fresh
    <2> QED  BY <2>2, <2>3 DEF MInv
  <1> QED  BY <1>1, InvariantHolds, FreshHold, MountsHold, PTL

-----------------------------------------------------------------------------
(* unmountAll, whatever the others do.                                     *)

(* What is done outside the rounds of unmountAll.                          *)
RestMay == [empty |-> Drives, detach |-> Anything, attach |-> Fitting, copy |-> Drives,
            unmount |-> MountpointsOf, media |-> Media, loops |-> {"index"}]

(* The end of unmountAll, and each part of a round, i the next element of  *)
(* the slice: at the start, between two elements, and at the mountpoint    *)
(* mp, whose medium is about to be unmounted, or which is about to leave   *)
(* the list.                                                               *)
Reports(q) == /\ q \in Seq(Calm(AllMay)) /\ q # <<>>
              /\ Head(q) = Report /\ Tail(q) \in Seq(Calm(RestMay))
Enters(q, r) == q # <<>> /\ Head(q) = Round(r) /\ Reports(Tail(q))
Trying(q, i, r) == q \in Seq(Calm(AllMay)) /\ q # <<>> /\ Head(q) = Each(i, r) /\ Reports(Tail(q))
Courses(q, mp, i, r) ==
    \E p \in Seq(Emptying(mp)) :
        \E s : q = p \o (<<Unmount(mp, TRUE)>> \o s) /\ Trying(s, i, r)
Taking(q, mp, i, r) ==
    \/ Courses(q, mp, i, r)
    \/ q # <<>> /\ Head(q).do = "detach" /\ Head(q).orelse = Tail(q) /\ Courses(Tail(q), mp, i, r)
Removing(q, i, r) ==
    q # <<>> /\ Head(q).do \in {"unlist", "load", "delete"} /\ Trying(Tail(q), i, r)

(* Nothing failed and nothing was added since unmountAll began, the list   *)
(* was not torn, and it has not done all.                                  *)
Undisturbed(t) == t \notin disturbed /\ ~torn /\ Listed \intersect mounted # {}

(* Each round so far has shortened the list; in this one either it is      *)
(* shorter than the slice, or all mountpoints passed are unmounted, but    *)
(* those of the media X.                                                   *)
Progress(t, i, r, X) ==
    /\ ranged[t].at = list.at /\ size <= ranged[t].len /\ ranged[t].len + r <= Cardinality(Media) + 1
    /\ size = ranged[t].len =>
         \A j \in 1..size : j < i /\ array[j].medium \in mounted => array[j].medium \in X

(* A goroutine that executes unmountAll.                                   *)
InRounds(t, q) ==
    \/ q # <<>> /\ Head(q) = HDStart /\ Enters(Tail(q), 1)
    \/ \E r \in Nat : /\ Enters(q, r)
                      /\ r = 1 \/ (Undisturbed(t) => size + r <= Cardinality(Media) + 1)
    \/ \E i \in Nat \ {0}, r \in Nat : /\ Trying(q, i, r) \/ Removing(q, i, r)
                                       /\ Undisturbed(t) => Progress(t, i, r, {})
    \/ \E mp \in MountpointsOf, i \in Nat \ {0}, r \in Nat :
          /\ Taking(q, mp, i, r)
          /\ Undisturbed(t) => Progress(t, i, r, {mp.medium})
    \/ q # <<>> /\ Head(q) = Panic
    \/ Reports(q) /\ ~Undisturbed(t)

(* The inductive invariant.                                                *)
RInv == ended \/ \A t \in Threads : todo[t] \in Seq(Sparing(RestMay)) \/ InRounds(t, todo[t])

(* What a step that is none of u's rounds does to u's.                     *)
Keeps(u) ==
    \/ u \in disturbed' \/ torn'
    \/ /\ Undisturbed(u)' => Undisturbed(u)
       /\ size' <= size
       /\ \A i \in Nat, r \in Nat : \A X : Progress(u, i, r, X) => Progress(u, i, r, X)'

(* Outside the rounds everything is allowed but to begin a round.          *)
LEMMA RestAllowed ==
  ASSUME LInv, SlotsFit
  PROVE  Allowed(RestMay)
  <1>1. Allowed(AllMay)
    BY FittingAllowed
  <1> QED  BY <1>1 DEF Allowed, AllMay, RestMay, UnmountLoops

(* The steps of unmountAll are among those without an early return.        *)
LEMMA RoundSteps ==
  /\ Calm(RestMay) \subseteq Calm(AllMay)
  /\ Report \in Calm(AllMay) /\ \A i \in Nat \ {0}, r \in Nat : Each(i, r) \in Calm(AllMay)
  /\ \A mp \in MountpointsOf : Emptying(mp) \subseteq Calm(AllMay) /\ Unmount(mp, TRUE) \in Calm(AllMay)
  <1>1. Calm(RestMay) \subseteq Calm(AllMay)
    BY DEF Calm, RestMay, AllMay, UnmountLoops
  <1>2. \A mp \in MountpointsOf : Emptying(mp) \subseteq Calm(AllMay)
    BY DEF Calm, Emptying, AllMay
  <1>3. \A mp \in MountpointsOf : Unmount(mp, TRUE) \in Calm(AllMay)
    BY DEF Calm, Unmount, AllMay
  <1>4. {"round", "each"} \subseteq AllMay.loops
    BY DEF AllMay, UnmountLoops
  <1> QED  BY <1>1, <1>2, <1>3, <1>4, LoopsMade

(* The first step at a mountpoint, and the others.                         *)
LEMMA CoursesFirst ==
  ASSUME NEW mp \in MountpointsOf, NEW i, NEW r, NEW q, Courses(q, mp, i, r)
  PROVE  /\ q \in Seq(Calm(AllMay)) /\ q # <<>>
         /\ \/ Head(q) = Unmount(mp, TRUE) /\ Trying(Tail(q), i, r)
            \/ Head(q) \in Emptying(mp) /\ Courses(Tail(q), mp, i, r)
  <1> DEFINE S == Calm(AllMay)
             u == Unmount(mp, TRUE)
             a == <<u>>
  <1>0. PICK p \in Seq(Emptying(mp)) : \E s : q = p \o (a \o s) /\ Trying(s, i, r)
    BY DEF Courses
  <1>1. PICK s : q = p \o (a \o s) /\ Trying(s, i, r)
    BY <1>0
  <1>2. Emptying(mp) \subseteq S /\ u \in S /\ s \in Seq(S)
    BY <1>1, RoundSteps DEF Trying
  <1>3. p \in Seq(S)
    BY <1>2, SeqMonotonic
  <1> HIDE DEF S, u
  <1>4. a \in Seq(S) /\ a \o s \in Seq(S) /\ a \o s # <<>> /\ Head(a \o s) = u /\ Tail(a \o s) = s
    <2>1. a \in Seq(S)
      BY <1>2
    <2> QED  BY <1>2, <2>1, HeadTailOfConcat
  <1> HIDE DEF a
  <1>5. CASE p = <<>>
    <2>1. q = a \o s
      BY <1>1, <1>4, <1>5, ConcatEmptySeq
    <2> QED  BY <1>1, <1>4, <2>1 DEF u, S
  <1>6. CASE p # <<>>
    <2> DEFINE h == Head(p)
               n == Tail(p)
               b == <<h>>
    <2>1. h \in Emptying(mp) /\ n \in Seq(Emptying(mp))
      BY <1>6
    <2>2. p = b \o n
      BY <1>6
    <2>3. n \in Seq(S) /\ h \in S
      BY <1>2, <2>1, SeqMonotonic
    <2> HIDE DEF h, n
    <2>4. b \in Seq(S)
      BY <2>3
    <2>5. q = b \o (n \o (a \o s))
      BY <1>1, <1>4, <2>2, <2>3, <2>4, ConcatAssociative
    <2>6. n \o (a \o s) \in Seq(S)
      BY <1>4, <2>3, ConcatProperties
    <2>7. q \in Seq(S) /\ q # <<>> /\ Head(q) = h /\ Tail(q) = n \o (a \o s)
      BY <2>3, <2>5, <2>6, HeadTailOfConcat
    <2>8. Courses(Tail(q), mp, i, r)
      BY <1>1, <2>1, <2>7 DEF Courses, a, u
    <2> QED  BY <2>1, <2>7, <2>8 DEF S
  <1> QED  BY <1>5, <1>6

(* One more step at a mountpoint.                                          *)
LEMMA CoursesCons ==
  ASSUME NEW mp \in MountpointsOf, NEW i, NEW r, NEW q, Courses(q, mp, i, r), NEW c \in Emptying(mp)
  PROVE  Courses(<<c>> \o q, mp, i, r)
  <1> DEFINE S == Calm(AllMay)
             u == Unmount(mp, TRUE)
             a == <<u>>
             b == <<c>>
  <1>0. PICK p \in Seq(Emptying(mp)) : \E s : q = p \o (a \o s) /\ Trying(s, i, r)
    BY DEF Courses
  <1>1. PICK s : q = p \o (a \o s) /\ Trying(s, i, r)
    BY <1>0
  <1>2. Emptying(mp) \subseteq S /\ u \in S /\ s \in Seq(S)
    BY <1>1, RoundSteps DEF Trying
  <1>3. p \in Seq(S) /\ c \in S /\ b \in Seq(Emptying(mp))
    BY <1>2, SeqMonotonic
  <1> HIDE DEF S, u
  <1>4. a \in Seq(S) /\ b \in Seq(S)
    BY <1>2, <1>3
  <1> HIDE DEF a, b
  <1>5. a \o s \in Seq(S) /\ b \o p \in Seq(Emptying(mp))
    BY <1>2, <1>3, <1>4, ConcatProperties
  <1>6. b \o q = (b \o p) \o (a \o s)
    <2>1. \A x \in Seq(S) : b \o (p \o x) = (b \o p) \o x
      BY <1>3, <1>4, ConcatAssociative
    <2> QED  BY <1>1, <1>5, <2>1
  <1> QED  BY <1>1, <1>5, <1>6 DEF Courses, a, b, u

(* The loop of unmountAll makes such steps.                                *)
LEMMA CoursesMade ==
  ASSUME NEW mp \in MountpointsOf, NEW i \in Nat \ {0}, NEW r \in Nat, NEW q, Reports(q)
  PROVE  Courses(([j \in 1..AllDrives |-> DetachROM(DriveSeq[j], mp)] \o <<Unmount(mp, TRUE), Each(i, r)>>) \o q,
                 mp, i, r)
  <1> DEFINE S == Calm(AllMay)
             p == [j \in 1..AllDrives |-> DetachROM(DriveSeq[j], mp)]
             u == Unmount(mp, TRUE)
             e == Each(i, r)
             a == <<u>>
             b == <<e>>
  <1>1. p \in Seq(Emptying(mp))
    <2>1. AllDrives \in Nat /\ \A j \in 1..AllDrives : DriveSeq[j] \in Drives
      BY DrivesFacts
    <2>2. \A j \in 1..AllDrives : DetachROM(DriveSeq[j], mp) \in Emptying(mp)
      BY <2>1 DEF DetachROM, Emptying
    <2> QED  BY <2>1, <2>2
  <1>2. Emptying(mp) \subseteq S /\ u \in S /\ e \in S /\ q \in Seq(S)
    BY RoundSteps DEF Reports
  <1>3. p \in Seq(S)
    <2> HIDE DEF p, S
    <2> QED  BY <1>1, <1>2, SeqMonotonic
  <1> HIDE DEF S, u, e, p
  <1>4. a \in Seq(S) /\ b \in Seq(S) /\ <<u, e>> = a \o b
    <2>1. u \in S /\ e \in S
      BY <1>2
    <2>2. a \in Seq(S) /\ b \in Seq(S)
      BY <2>1
    <2>3. <<u, e>> = a \o b
      BY Pairs
    <2> QED  BY <2>2, <2>3
  <1>5. b \o q \in Seq(S) /\ b \o q # <<>> /\ Head(b \o q) = e /\ Tail(b \o q) = q
    BY <1>2, HeadTailOfConcat
  <1> HIDE DEF a, b
  <1>6. (p \o (a \o b)) \o q = p \o (a \o (b \o q))
    <2>1. a \o b \in Seq(S)
      BY <1>4, ConcatProperties
    <2>2. (p \o (a \o b)) \o q = p \o ((a \o b) \o q)
      BY <1>2, <1>3, <2>1, ConcatAssociative
    <2>3. (a \o b) \o q = a \o (b \o q)
      BY <1>2, <1>4, ConcatAssociative
    <2> QED  BY <2>2, <2>3
  <1>7. Trying(b \o q, i, r)
    BY <1>5 DEF Trying, S, e
  <1>8. (p \o <<u, e>>) \o q = p \o (a \o (b \o q))
    BY <1>4, <1>6
  <1> QED  BY <1>1, <1>7, <1>8 DEF Courses, a, u, e, p

(* The list is no longer than there are media.                             *)
LEMMA SizeBound ==
  ASSUME LInv, ~ended, ~torn, IsFiniteSet(Media)
  PROVE  size \in Nat /\ Cardinality(Media) \in Nat /\ size <= Cardinality(Media)
  <1>1. size \in Nat /\ \A i \in 1..size : array[i].medium \in Media
    BY ListFacts DEF LInv
  <1> DEFINE f == [i \in 1..size |-> array[i].medium]
  <1>2. f \in Injection(1..size, Media)
    <2>1. f \in [1..size -> Media]
      BY <1>1
    <2>2. \A i, j \in 1..size : f[i] = f[j] => i = j
      BY DEF LInv, ListedOnce
    <2> HIDE DEF f
    <2> QED  BY <2>1, <2>2 DEF Injection, IsInjective
  <1> HIDE DEF f
  <1>3. Cardinality(1..size) <= Cardinality(Media)
    BY <1>2, FS_Injection
  <1>4. Cardinality(1..size) = size
    BY <1>1, FS_Interval
  <1> QED  BY <1>1, <1>3, <1>4, FS_CardinalityType

(* What is kept is enough for the rounds to go on.                         *)
LEMMA RoundsKept ==
  ASSUME LInv, LInv', IsFiniteSet(Media), NEW u \in Threads, Keeps(u), NEW q, InRounds(u, q)
  PROVE  InRounds(u, q)'
  <1>0. size \in Nat /\ size' \in Nat /\ Cardinality(Media) \in Nat
    <2>1. list \in Slices /\ list' \in Slices
      BY DEF LInv, Types, Within, Slices
    <2> QED  BY <2>1, FS_CardinalityType DEF Slices, size
  <1>1. CASE u \in disturbed' \/ torn'
    <2>1. ~Undisturbed(u)'
      BY <1>1 DEF Undisturbed
    <2> QED  BY <2>1 DEF InRounds
  <1>2. CASE ~(u \in disturbed' \/ torn')
    <2>1. /\ Undisturbed(u)' => Undisturbed(u)
          /\ size' <= size
          /\ \A i \in Nat, r \in Nat : \A X : Progress(u, i, r, X) => Progress(u, i, r, X)'
      BY <1>2 DEF Keeps
    <2>2. \A r \in Nat : size + r <= Cardinality(Media) + 1 => size' + r <= Cardinality(Media) + 1
      BY <1>0, <2>1
    <2>3. CASE \/ q # <<>> /\ Head(q) = HDStart /\ Enters(Tail(q), 1)
               \/ q # <<>> /\ Head(q) = Panic
               \/ Reports(q) /\ ~Undisturbed(u)
      BY <2>1, <2>3 DEF InRounds
    <2>4. ASSUME NEW r \in Nat, Enters(q, r), r = 1 \/ (Undisturbed(u) => size + r <= Cardinality(Media) + 1)
          PROVE  InRounds(u, q)'
      <3>1. r = 1 \/ (Undisturbed(u)' => size' + r <= Cardinality(Media) + 1)
        BY <2>1, <2>2, <2>4
      <3> QED  BY <2>4, <3>1 DEF InRounds
    <2>5. ASSUME NEW i \in Nat \ {0}, NEW r \in Nat, Trying(q, i, r) \/ Removing(q, i, r),
                 Undisturbed(u) => Progress(u, i, r, {})
          PROVE  InRounds(u, q)'
      <3>1. Undisturbed(u)' => Progress(u, i, r, {})'
        BY <2>1, <2>5
      <3> QED  BY <2>5, <3>1 DEF InRounds
    <2>6. ASSUME NEW mp \in MountpointsOf, NEW i \in Nat \ {0}, NEW r \in Nat, Taking(q, mp, i, r),
                 Undisturbed(u) => Progress(u, i, r, {mp.medium})
          PROVE  InRounds(u, q)'
      <3>1. Undisturbed(u)' => Progress(u, i, r, {mp.medium})'
        BY <2>1, <2>6
      <3> QED  BY <2>6, <3>1 DEF InRounds
    <2> QED  BY <2>3, <2>4, <2>5, <2>6 DEF InRounds
  <1> QED  BY <1>1, <1>2

(* The list and the slice stay, and no listed medium is mounted.           *)
LEMMA ListKept ==
  ASSUME NEW u \in Threads, u \in disturbed => u \in disturbed', torn => torn',
         ranged'[u] = ranged[u], UNCHANGED <<heap, list>>, size \in Nat,
         \A j \in 1..size : array[j].medium \in mounted' => array[j].medium \in mounted
  PROVE  Keeps(u)
  <1>0. array' = array /\ size' = size
    BY DEF array, size
  <1>1. Listed' \intersect mounted' \subseteq Listed \intersect mounted
    BY <1>0 DEF Listed
  <1>2. Undisturbed(u)' => Undisturbed(u)
    BY <1>1 DEF Undisturbed
  <1>3. size' <= size
    BY <1>0
  <1>4. ASSUME NEW i \in Nat, NEW r \in Nat, NEW X, Progress(u, i, r, X)
        PROVE  Progress(u, i, r, X)'
    BY <1>0, <1>4 DEF Progress
  <1> QED  BY <1>2, <1>3, <1>4 DEF Keeps

(* An element leaves the list, in the array of the slice; or the list is   *)
(* torn.                                                                   *)
LEMMA ElementLeaves ==
  ASSUME LInv, NEW t \in Threads, RemoveMountpoint(t), NEW u \in Threads
  PROVE  Keeps(u)
  <1> DEFINE mp == Now(t).mp
             i == Now(t).i
             h == loaded[t]
             S == MountpointsOf \union {None}
             D == Deleted(array, size, i)
  <1>0. Types /\ TodosOK /\ LoadsOK /\ ~ended /\ todo[t] # <<>> /\ Now(t).do = "delete"
    BY DEF RemoveMountpoint, Doing, Now, LInv
  <1>1. /\ heap' = [heap EXCEPT ![h.at] = Deleted(@, h.len, i)] /\ list' = [h EXCEPT !.len = @ - 1]
        /\ torn' = (torn \/ h # list \/ heap[h.at][i] # mp)
        /\ UNCHANGED <<mounted, ranged, disturbed>>
    BY DEF RemoveMountpoint, Stores
  <1>2. CASE torn'
    BY <1>2 DEF Keeps
  <1>3. CASE ~torn'
    <2>1. h = list /\ ~torn
      BY <1>1, <1>3
    <2>2. array \in Seq(S) /\ size \in 0..Len(array) /\ None \in S /\ Len(array) \in Nat /\ size \in Nat
      BY <1>0, ListFacts DEF MountpointsOf
    <2>3. i \in 1..size
      <3>1. Now(t) \in Firsts(Known)
        BY <1>0, RemovingFacts
      <3>2. i \in Nat \ {0}
        BY <1>0, <3>1 DEF Firsts
      <3> QED  BY <1>0, <2>1, <2>2, <3>2 DEF LoadsOK, size
    <2>4. list.at \in DOMAIN heap /\ list \in Slices
      BY <1>0 DEF Types, Within
    <2>5. heap' = [heap EXCEPT ![list.at] = D]
      BY <1>1, <2>1, <2>4 DEF array, size
    <2> HIDE DEF D
    <2>6. list'.at = list.at /\ list'.len = list.len - 1
      BY <1>1, <2>1, <2>4 DEF Slices
    <2>7. array' = D /\ size' = size - 1
      BY <2>4, <2>5, <2>6 DEF array, size
    <2>8. \A j \in 1..size - 1 : D[j] = array[IF j < i THEN j ELSE j + 1]
      <3>1. PICK a : a = array
        OBVIOUS
      <3>2. PICK n : n = size
        OBVIOUS
      <3>3. PICK k : k = i
        OBVIOUS
      <3>4. a \in Seq(S) /\ n \in 0..Len(a) /\ k \in 1..n /\ None \in S
        BY <2>2, <2>3, <3>1, <3>2, <3>3
      <3>5. \A j \in 1..n - 1 : Deleted(a, n, k)[j] = a[IF j < k THEN j ELSE j + 1]
        BY <3>4, ElementsMove
      <3> QED  BY <3>1, <3>2, <3>3, <3>5 DEF D
    <2>9. \A j \in 1..size - 1 : (IF j < i THEN j ELSE j + 1) \in 1..size
      BY <2>2, <2>3
    <2>10. Listed' \subseteq Listed
      BY <2>7, <2>8, <2>9 DEF Listed
    <2>11. Undisturbed(u)' => Undisturbed(u)
      BY <1>1, <1>3, <2>1, <2>10 DEF Undisturbed
    <2>12. size' <= size /\ size' < size
      BY <2>2, <2>7
    <2>13. ranged[u].len \in Nat
      BY <1>0 DEF Types, Within, Slices
    <2>14. ASSUME NEW j \in Nat, NEW r \in Nat, NEW X, Progress(u, j, r, X)
           PROVE  Progress(u, j, r, X)'
      <3>1. ranged[u].at = list.at /\ size <= ranged[u].len /\ ranged[u].len + r <= Cardinality(Media) + 1
        BY <2>14 DEF Progress
      <3>2. size' <= ranged[u].len /\ size' # ranged[u].len
        BY <2>2, <2>7, <2>13, <3>1
      <3> QED  BY <1>1, <2>6, <3>1, <3>2 DEF Progress
    <2> QED  BY <2>11, <2>12, <2>14 DEF Keeps
  <1> QED  BY <1>2, <1>3

(* Only these steps tell of a failure, a new mountpoint, a new unmountAll, *)
(* or a list that is torn.                                                 *)
LEMMA WorkDisturbs ==
  ASSUME NEW t, Work(t)
  PROVE  /\ Now(t).do \notin {"grow", "unmount", "round"} => disturbed' = disturbed
         /\ Now(t).do \notin {"grow", "delete"} => torn' = torn
  <1> USE DEF ghosts, Goes, Doing, Now
  <1>1. CASE LookForDetach(t) \/ DetachSlot(t) \/ LookForAttach(t) \/ AttachSlot(t)
    BY <1>1 DEF LookForDetach, DetachSlot, LookForAttach, AttachSlot
  <1>2. CASE MountMountpoint(t) \/ LoadToAdd(t) \/ AddMountpoint(t)
    BY <1>2 DEF MountMountpoint, LoadToAdd, AddMountpoint
  <1>3. CASE UnmountMountpoint(t) \/ FindToRemove(t) \/ LoadToRemove(t) \/ RemoveMountpoint(t)
    BY <1>3 DEF UnmountMountpoint, FindToRemove, LoadToRemove, RemoveMountpoint
  <1>4. CASE DetachMountpointROM(t) \/ FreeFile(t) \/ EjectNext(t) \/ InsertNext(t) \/ UnmountNext(t)
    BY <1>4 DEF DetachMountpointROM, FreeFile, EjectNext, InsertNext, UnmountNext
  <1>5. CASE TakeSource(t) \/ TakeTarget(t) \/ Copy(t)
    BY <1>5 DEF TakeSource, TakeTarget, Copy
  <1>6. CASE BeginRound(t) \/ UnmountEach(t) \/ ReportUnmounted(t) \/ SetRerunEmulator(t) \/ End(t)
    BY <1>6 DEF BeginRound, UnmountEach, ReportUnmounted, SetRerunEmulator, End
  <1> QED  BY <1>1, <1>2, <1>3, <1>4, <1>5, <1>6 DEF Work

(* Whatever another goroutine does, and whatever u does but for beginning  *)
(* a round and going on with it.                                           *)
LEMMA WorkKeepsRounds ==
  ASSUME LInv, NEW t \in Threads, Work(t), NEW u \in Threads, u # t \/ Now(t).do \notin {"round", "each"}
  PROVE  Keeps(u)
  <1>0. size \in Nat /\ DOMAIN ranged = Threads /\ ~ended
    BY WorkLeaves DEF LInv, Types, Within, Slices, size
  <1>1. CASE Now(t).do = "grow"
    BY <1>1, LoopWorkOf DEF AddMountpoint, Keeps
  <1>2. CASE Now(t).do = "unmount"
    <2>1. /\ UNCHANGED <<heap, list, ranged, torn>>
          /\ disturbed' = Threads \/ (disturbed' = disturbed /\ mounted' \subseteq mounted)
      BY <1>2, UnmountWorkOf DEF UnmountMountpoint, Goes, listAndPolls, listVars, ghosts
    <2> QED  BY <1>0, <2>1, ListKept DEF Keeps
  <1>3. CASE Now(t).do = "mount"
    <2> DEFINE m == Now(t).m
    <2>1. /\ UNCHANGED <<heap, list, ranged, torn, disturbed>>
          /\ \/ mounted' = mounted
             \/ mounted' = mounted \union {m} /\ GetMountpointByDevicePathname(m) = 0
      BY <1>3, LoopWorkOf DEF MountMountpoint, Goes, listAndPolls, listVars, ghosts
    <2>2. GetMountpointByDevicePathname(m) = 0 => \A j \in 1..size : array[j].medium # m
      BY <1>0, ListFacts, Found DEF LInv
    <2> HIDE DEF m
    <2>3. \A j \in 1..size : array[j].medium \in mounted' => array[j].medium \in mounted
      BY <2>1, <2>2
    <2> QED  BY <1>0, <2>1, <2>3, ListKept
  <1>4. CASE Now(t).do = "delete"
    BY <1>4, UnmountWorkOf, ElementLeaves
  <1>5. CASE Now(t).do = "round"
    <2>1. /\ UNCHANGED <<heap, list, mounted, torn>> /\ ranged' = [ranged EXCEPT ![t] = list]
          /\ disturbed' \in {disturbed, disturbed \ {t}}
      BY <1>5, LoopWorkOf DEF BeginRound
    <2>2. u # t
      BY <1>5
    <2>3. ranged'[u] = ranged[u] /\ (u \in disturbed => u \in disturbed')
      BY <1>0, <2>1, <2>2
    <2> QED  BY <1>0, <2>1, <2>3, ListKept
  <1>6. CASE Now(t).do = "each"
    <2>1. /\ UNCHANGED <<heap, list, mounted, disturbed, torn>>
          /\ ranged' = ranged \/ ranged' = [ranged EXCEPT ![t] = NoSlice]
      BY <1>6, LoopWorkOf DEF UnmountEach, Goes, listAndPolls, listVars, ghosts
    <2>2. u # t
      BY <1>6
    <2>3. ranged'[u] = ranged[u]
      BY <1>0, <2>1, <2>2
    <2> QED  BY <1>0, <2>1, <2>3, ListKept
  <1>7. CASE Now(t).do \notin {"grow", "unmount", "mount", "delete", "round", "each"}
    <2>1. UNCHANGED <<heap, list, ranged, mounted, disturbed, torn>>
      BY <1>7, WorkLeaves, WorkDisturbs
    <2> QED  BY <1>0, <2>1, ListKept
  <1> QED  BY <1>1, <1>2, <1>3, <1>4, <1>5, <1>6, <1>7

(* A goroutine at a mountpoint: it empties drives, and unmounts.           *)
LEMMA TakingGoes ==
  ASSUME LInv, LInv', SlotsFit, TodosFit, IsFiniteSet(Media), NEW t \in Threads, Work(t), todo[t] # <<>>,
         NEW mp \in MountpointsOf, NEW i \in Nat \ {0}, NEW r \in Nat, Taking(todo[t], mp, i, r),
         Undisturbed(t) => Progress(t, i, r, {mp.medium})
  PROVE  \E q : Then(t, q) /\ InRounds(t, q)'
  <1>0. /\ Allowed(AllMay) /\ todo[t] \in Seq(Sparing(AllMay)) /\ Now(t) = Head(todo[t])
        /\ Later(t) = Tail(todo[t])
    BY FittingAllowed DEF TodosFit, Now, Later
  <1>1. Now(t) \in Sparing(AllMay) /\ Later(t) \in Seq(Sparing(AllMay))
    BY <1>0, SpareNow
  <1>2. ASSUME NEW q, Then(t, q), Taking(q, mp, i, r), Now(t).do \notin {"round", "each"}
        PROVE  \E p : Then(t, p) /\ InRounds(t, p)'
    <2>1. InRounds(t, q)
      BY <1>2 DEF InRounds
    <2>2. Keeps(t)
      BY <1>2, WorkKeepsRounds
    <2>3. InRounds(t, q)'
      BY <2>1, <2>2, RoundsKept
    <2> QED  BY <1>2, <2>3
  <1>3. CASE /\ Now(t).do = "detach" /\ Now(t).orelse = Later(t) /\ Courses(Later(t), mp, i, r)
    <2> DEFINE c == Clear(Now(t).d)
               q == <<c>> \o Later(t)
    <2>1. Then(t, q) \/ Then(t, Later(t))
      BY <1>3, WorkOf DEF LookForDetach, Goes
    <2>2. c \in Emptying(mp)
      <3>1. Now(t).d \in Drives
        BY <1>0, <1>1, <1>3, SpareKinds
      <3> QED  BY <3>1 DEF Clear, Emptying
    <2> HIDE DEF c
    <2>3. Courses(q, mp, i, r)
      BY <1>3, <2>2, CoursesCons
    <2> HIDE DEF q
    <2>4. Taking(q, mp, i, r) /\ Taking(Later(t), mp, i, r)
      BY <1>3, <2>3 DEF Taking
    <2> QED  BY <1>2, <1>3, <2>1, <2>4
  <1>4. CASE Now(t) \in Emptying(mp) /\ Courses(Later(t), mp, i, r)
    <2> DEFINE s == Detach(Now(t).d, slot[Now(t).d], Later(t))
               q == <<s>> \o Later(t)
    <2>0. Now(t).do \in {"rom", "clear"}
      BY <1>4 DEF Emptying
    <2>1. Then(t, q) \/ Then(t, Later(t))
      BY <2>0, WorkOf, UnmountWorkOf DEF DetachMountpointROM, DetachSlot, Goes
    <2>2. s.do = "detach" /\ s.orelse = Later(t)
      BY DEF Detach
    <2> HIDE DEF s
    <2>3. q # <<>> /\ Head(q) = s /\ Tail(q) = Later(t)
      <3>1. s \in {s} \union Sparing(AllMay) /\ Later(t) \in Seq({s} \union Sparing(AllMay))
        BY <1>1, SeqMonotonic
      <3> QED  BY <3>1, HeadTailOfConcat
    <2> HIDE DEF q
    <2>4. Taking(q, mp, i, r) /\ Taking(Later(t), mp, i, r)
      BY <1>4, <2>2, <2>3 DEF Taking
    <2> QED  BY <1>2, <2>0, <2>1, <2>4
  <1>5. CASE Now(t) = Unmount(mp, TRUE) /\ Trying(Later(t), i, r)
    <2> DEFINE m == mp.medium
               u == Unlist(mp)
               q == <<u>> \o Later(t)
    <2>0. Now(t).do = "unmount" /\ Now(t).mp = mp /\ Now(t).remove
      BY <1>5 DEF Unmount
    <2>1. /\ Then(t, q) \/ Then(t, Later(t))
          /\ m \notin mounted' \/ disturbed' = Threads
      BY <2>0, UnmountWorkOf DEF UnmountMountpoint, Goes, listAndPolls
    <2>1a. UNCHANGED <<heap, list, ranged>>
      BY <2>0, WorkLeaves
    <2>2. Removing(q, i, r)
      <3>1. u.do = "unlist"
        BY DEF Unlist
      <3> HIDE DEF u
      <3>2. q # <<>> /\ Head(q) = u /\ Tail(q) = Later(t)
        <4>1. u \in {u} \union Sparing(AllMay) /\ Later(t) \in Seq({u} \union Sparing(AllMay))
          BY <1>1, SeqMonotonic
        <4> QED  BY <4>1, HeadTailOfConcat
      <3> HIDE DEF q
      <3> QED  BY <1>5, <3>1, <3>2 DEF Removing
    <2>3. Keeps(t)
      BY <2>0, WorkKeepsRounds
    <2>4. Undisturbed(t)' => Progress(t, i, r, {})'
      <3>1. CASE disturbed' = Threads
        BY <3>1 DEF Undisturbed
      <3>2. CASE disturbed' # Threads
        <4>1. Undisturbed(t)' => Progress(t, i, r, {m})'
          BY <2>3 DEF Keeps, Undisturbed
        <4>2. Progress(t, i, r, {m})' => Progress(t, i, r, {})'
          BY <2>1, <3>2 DEF Progress
        <4> QED  BY <4>1, <4>2
      <3> QED  BY <3>1, <3>2
    <2> HIDE DEF q
    <2>5. PICK p : p \in {q, Later(t)} /\ Then(t, p)
      BY <2>1
    <2>6. Trying(p, i, r) \/ Removing(p, i, r)
      BY <1>5, <2>2, <2>5
    <2>7. InRounds(t, p)'
      BY <2>4, <2>6 DEF InRounds
    <2> QED  BY <2>5, <2>7
  <1>6. CASE Courses(todo[t], mp, i, r)
    BY <1>0, <1>4, <1>5, <1>6, CoursesFirst
  <1> QED  BY <1>0, <1>3, <1>6 DEF Taking

(* It looks for a mountpoint in the list and removes it.                   *)
LEMMA TryingToRemoveGoes ==
  ASSUME LInv, LInv', IsFiniteSet(Media), NEW t \in Threads, Work(t),
         NEW i \in Nat \ {0}, NEW r \in Nat, Removing(todo[t], i, r), Undisturbed(t) => Progress(t, i, r, {})
  PROVE  \E q : Then(t, q) /\ InRounds(t, q)'
  <1>1. Now(t).do \in {"unlist", "load", "delete"} /\ Trying(Later(t), i, r)
    BY DEF Removing, Now, Later
  <1>2. \/ Then(t, Later(t))
        \/ \E s : s.do \in {"load", "delete"} /\ Then(t, <<s>> \o Later(t))
        \/ Then(t, <<Panic>> \o Later(t))
    <2>1. CASE Now(t).do = "unlist"
      <3>1. \A mp, k : Load(mp, k).do = "load"
        BY DEF Load
      <3> QED  BY <2>1, <3>1, UnmountWorkOf DEF FindToRemove, Goes
    <2>2. CASE Now(t).do = "load"
      <3>1. \A mp, k : Delete(mp, k).do = "delete"
        BY DEF Delete
      <3> QED  BY <2>2, <3>1, UnmountWorkOf DEF LoadToRemove, Goes
    <2>3. CASE Now(t).do = "delete"
      BY <2>3, UnmountWorkOf DEF RemoveMountpoint
    <2> QED  BY <1>1, <2>1, <2>2, <2>3
  <1>3. Keeps(t)
    BY <1>1, WorkKeepsRounds
  <1>4. ASSUME NEW s
        PROVE  <<s>> \o Later(t) # <<>> /\ Head(<<s>> \o Later(t)) = s /\ Tail(<<s>> \o Later(t)) = Later(t)
    <2> DEFINE S == Calm(AllMay)
    <2>1. Later(t) \in Seq(S)
      BY <1>1 DEF Trying
    <2> HIDE DEF S
    <2>2. s \in {s} \union S /\ Later(t) \in Seq({s} \union S)
      BY <2>1, SeqMonotonic
    <2> QED  BY <2>2, HeadTailOfConcat
  <1>5. ASSUME NEW q, Then(t, q), InRounds(t, q)
        PROVE  \E p : Then(t, p) /\ InRounds(t, p)'
    <2>1. InRounds(t, q)'
      BY <1>3, <1>5, RoundsKept
    <2> QED  BY <1>5, <2>1
  <1>6. InRounds(t, Later(t))
    BY <1>1 DEF InRounds
  <1>7. ASSUME NEW s, s.do \in {"load", "delete"}
        PROVE  InRounds(t, <<s>> \o Later(t))
    <2>1. Removing(<<s>> \o Later(t), i, r)
      BY <1>1, <1>4, <1>7 DEF Removing
    <2> QED  BY <2>1 DEF InRounds
  <1>8. InRounds(t, <<Panic>> \o Later(t))
    <2>1. <<Panic>> \o Later(t) # <<>> /\ Head(<<Panic>> \o Later(t)) = Panic
      BY <1>4
    <2> QED  BY <2>1 DEF InRounds
  <1>9. ASSUME NEW s, s.do \in {"load", "delete"}, Then(t, <<s>> \o Later(t))
        PROVE  \E q : Then(t, q) /\ InRounds(t, q)'
    <2>1. PICK q : q = <<s>> \o Later(t)
      OBVIOUS
    <2>2. InRounds(t, q) /\ Then(t, q)
      BY <1>7, <1>9, <2>1
    <2> QED  BY <1>5, <2>2
  <1>10. CASE Then(t, Later(t))
    BY <1>5, <1>6, <1>10
  <1>11. CASE Then(t, <<Panic>> \o Later(t))
    BY <1>5, <1>8, <1>11
  <1>12. CASE \E s : s.do \in {"load", "delete"} /\ Then(t, <<s>> \o Later(t))
    <2>1. PICK s : s.do \in {"load", "delete"} /\ Then(t, <<s>> \o Later(t))
      BY <1>12
    <2> QED  BY <1>9, <2>1
  <1> QED  BY <1>2, <1>10, <1>11, <1>12

(* It goes on with its slice, or ends the round: after a round in which    *)
(* the list has not become shorter, nothing in it is mounted.              *)
LEMMA TryingGoes ==
  ASSUME LInv, IsFiniteSet(Media), Cardinality(Media) <= Rounds, NEW t \in Threads, Work(t),
         NEW i \in Nat \ {0}, NEW r \in Nat, Trying(todo[t], i, r), Undisturbed(t) => Progress(t, i, r, {})
  PROVE  \E q : Then(t, q) /\ InRounds(t, q)'
  <1> DEFINE S == Calm(AllMay)
  <1>1. /\ Now(t) = Each(i, r) /\ Now(t).do = "each" /\ Now(t).i = i /\ Now(t).r = r
        /\ Reports(Later(t)) /\ Later(t) \in Seq(S)
    BY DEF Trying, Reports, Each, Now, Later
  <1>2. UnmountEach(t)
    BY <1>1, LoopWorkOf
  <1>3. size \in Nat /\ Cardinality(Media) \in Nat /\ Rounds \in Nat /\ ranged[t].len \in Nat
    BY FS_CardinalityType, ConstantsAssumption DEF LInv, Types, Within, Slices, size
  <1> HIDE DEF S
  <1>4. ASSUME NEW s
        PROVE  <<s>> \o Later(t) # <<>> /\ Head(<<s>> \o Later(t)) = s /\ Tail(<<s>> \o Later(t)) = Later(t)
    <2>1. s \in {s} \union S /\ Later(t) \in Seq({s} \union S)
      BY <1>1, SeqMonotonic
    <2> QED  BY <2>1, HeadTailOfConcat
  <1>5. CASE i <= ranged[t].len
    <2> DEFINE mp == heap[ranged[t].at][i]
    <2>0. mp \in MountpointsOf \union {None}
      <3>1. Types
        BY DEF LInv
      <3>2. PICK a : a = heap[ranged[t].at]
        OBVIOUS
      <3>3. a \in Seq(MountpointsTo(Known) \union {None}) /\ ranged[t].len <= Len(a)
        BY <3>1, <3>2 DEF Types, Within
      <3>4. i \in 1..Len(a)
        BY <1>3, <1>5, <3>3, LenProperties
      <3>5. a[i] \in MountpointsTo(Known) \union {None}
        BY <3>3, <3>4
      <3>6. MountpointsTo(Known) \subseteq MountpointsOf
        BY <3>1, HandFacts DEF MountpointsTo, MountpointsOf
      <3> QED  BY <3>2, <3>5, <3>6
    <2>1. UNCHANGED <<heap, list, ranged, mounted, disturbed, torn>>
      BY <1>1, <1>2, <1>5 DEF UnmountEach, Goes, listAndPolls, listVars, ghosts
    <2>2. CASE mp = None
      <3> DEFINE q == <<Panic>> \o Later(t)
      <3>1. Then(t, q)
        BY <1>1, <1>2, <1>5, <2>2 DEF UnmountEach, Goes
      <3>2. q # <<>> /\ Head(q) = Panic
        BY <1>4
      <3> HIDE DEF q
      <3>3. PICK p : p = q
        OBVIOUS
      <3>4. p # <<>> /\ Head(p) = Panic
        BY <3>2, <3>3
      <3>5. InRounds(t, p)'
        BY <3>4 DEF InRounds
      <3> QED  BY <3>1, <3>3, <3>5
    <2>3. CASE mp # None
      <3> DEFINE q == ([j \in 1..AllDrives |-> DetachROM(DriveSeq[j], mp)]
                       \o <<Unmount(mp, TRUE), Each(i + 1, r)>>) \o Later(t)
      <3>1. Then(t, q)
        BY <1>1, <1>2, <1>5, <2>3 DEF UnmountEach, Goes
      <3>2. PICK n : n = mp
        OBVIOUS
      <3>3. n \in MountpointsOf /\ i + 1 \in Nat \ {0}
        BY <2>0, <2>3, <3>2
      <3>4. Courses(q, n, i + 1, r)
        BY <1>1, <3>2, <3>3, CoursesMade
      <3> HIDE DEF q
      <3>5. Undisturbed(t)' => Undisturbed(t)
        BY <2>1 DEF Undisturbed, Listed, array, size
      <3>6. Progress(t, i, r, {}) => Progress(t, i + 1, r, {n.medium})'
        <4> SUFFICES ASSUME Progress(t, i, r, {})
                     PROVE  Progress(t, i + 1, r, {n.medium})'
          OBVIOUS
        <4>1. array[i] = n /\ array' = array /\ size' = size
          BY <2>1, <3>2 DEF Progress, array, size
        <4>2. \A j \in 1..size : j < i + 1 => j < i \/ j = i
          BY <1>3
        <4> QED  BY <2>1, <4>1, <4>2 DEF Progress
      <3>7. PICK p : p = q
        OBVIOUS
      <3>8. Taking(p, n, i + 1, r)
        BY <3>4, <3>7 DEF Taking
      <3>9. InRounds(t, p)'
        BY <3>3, <3>5, <3>6, <3>8 DEF InRounds
      <3> QED  BY <3>1, <3>7, <3>9
    <2> QED  BY <2>2, <2>3
  <1>6. CASE ~(i <= ranged[t].len)
    <2> DEFINE s == Round(r + 1)
               q == <<s>> \o Later(t)
    <2>1. /\ UNCHANGED <<heap, list, mounted, disturbed, torn>>
          /\ Then(t, (IF size = 0 \/ r = Rounds THEN <<>> ELSE <<s>>) \o Later(t))
      BY <1>1, <1>2, <1>6 DEF UnmountEach, ghosts
    <2>2. Undisturbed(t)' => Undisturbed(t)
      BY <2>1 DEF Undisturbed, Listed, array, size
    <2>3. Undisturbed(t) => size > 0 /\ size < ranged[t].len
      <3> SUFFICES ASSUME Undisturbed(t)
                   PROVE  size > 0 /\ size < ranged[t].len
        OBVIOUS
      <3>1. PICK j \in 1..size : array[j].medium \in mounted
        BY DEF Undisturbed, Listed
      <3>2. Progress(t, i, r, {})
        OBVIOUS
      <3>3. size # ranged[t].len
        BY <1>3, <1>6, <3>1, <3>2 DEF Progress
      <3>4. size <= ranged[t].len
        BY <3>2 DEF Progress
      <3> QED  BY <1>3, <3>1, <3>3, <3>4
    <2>4. Undisturbed(t) => size + (r + 1) <= Cardinality(Media) + 1
      <3>1. Undisturbed(t) => ranged[t].len + r <= Cardinality(Media) + 1
        BY DEF Progress
      <3> QED  BY <1>3, <2>3, <3>1
    <2>5. CASE size = 0 \/ r = Rounds
      <3>1. Then(t, Later(t))
        <4>1. <<>> \o Later(t) = Later(t)
          BY <1>1, ConcatEmptySeq
        <4> QED  BY <2>1, <2>5, <4>1
      <3>2. ~Undisturbed(t)
        BY <1>3, <2>3, <2>4, <2>5
      <3>3. PICK p : p = Later(t)
        OBVIOUS
      <3>4. InRounds(t, p)'
        BY <1>1, <2>2, <3>2, <3>3 DEF InRounds
      <3> QED  BY <3>1, <3>3, <3>4
    <2>6. CASE ~(size = 0 \/ r = Rounds)
      <3>1. Then(t, q)
        BY <2>1, <2>6
      <3>2. Enters(q, r + 1)
        <4>1. q # <<>> /\ Head(q) = s /\ Tail(q) = Later(t)
          BY <1>4
        <4> HIDE DEF q
        <4> QED  BY <1>1, <4>1 DEF Enters
      <3> HIDE DEF q
      <3>3. PICK p : p = q
        OBVIOUS
      <3>4. r + 1 \in Nat /\ (Undisturbed(t)' => size' + (r + 1) <= Cardinality(Media) + 1)
        <4>1. size' = size
          BY <2>1 DEF size
        <4> QED  BY <2>1, <2>2, <2>4, <4>1
      <3>5. Enters(p, r + 1)
        BY <3>2, <3>3
      <3>6. InRounds(t, p)'
        BY <3>4, <3>5 DEF InRounds
      <3> QED  BY <3>1, <3>3, <3>6
    <2> QED  BY <2>5, <2>6
  <1> QED  BY <1>5, <1>6

(* It begins a round.                                                      *)
LEMMA EntersGoes ==
  ASSUME LInv, IsFiniteSet(Media), NEW t \in Threads, Work(t), NEW r \in Nat, Enters(todo[t], r),
         r = 1 \/ (Undisturbed(t) => size + r <= Cardinality(Media) + 1)
  PROVE  \E q : Then(t, q) /\ InRounds(t, q)'
  <1> DEFINE S == Calm(AllMay)
             s == Each(1, r)
             q == <<s>> \o Later(t)
  <1>1. /\ Now(t).do = "round" /\ Now(t).r = r /\ Reports(Later(t)) /\ Later(t) \in Seq(S)
    BY DEF Enters, Reports, Round, Now, Later
  <1>2. /\ Then(t, q) /\ UNCHANGED <<heap, list, mounted, torn>>
        /\ ranged' = [ranged EXCEPT ![t] = list]
        /\ disturbed' = IF r = 1 THEN disturbed \ {t} ELSE disturbed
    BY <1>1, LoopWorkOf DEF BeginRound
  <1>3. s \in S /\ 1 \in Nat \ {0}
    BY RoundSteps
  <1> HIDE DEF S, s
  <1>4. Trying(q, 1, r)
    <2>1. q \in Seq(S) /\ q # <<>> /\ Head(q) = s /\ Tail(q) = Later(t)
      BY <1>1, <1>3, HeadTailOfConcat
    <2> HIDE DEF q
    <2> QED  BY <1>1, <2>1 DEF Trying, S, s
  <1>5. /\ size \in Nat /\ Cardinality(Media) \in Nat /\ DOMAIN ranged = Threads
        /\ ~torn => size <= Cardinality(Media)
    BY FS_CardinalityType, SizeBound, WorkLeaves DEF LInv, Types, Within, Slices, size
  <1>6. Undisturbed(t)' => size + r <= Cardinality(Media) + 1
    <2>1. CASE r = 1
      <3>1. Undisturbed(t)' => ~torn
        BY <1>2 DEF Undisturbed
      <3> QED  BY <1>5, <2>1, <3>1
    <2>2. CASE r # 1
      <3>1. Undisturbed(t)' => Undisturbed(t)
        BY <1>2, <2>2 DEF Undisturbed, Listed, array, size
      <3> QED  BY <2>2, <3>1
    <2> QED  BY <2>1, <2>2
  <1>7. ranged'[t] = list /\ size' = size /\ list' = list
    BY <1>2, <1>5 DEF size
  <1>9. \A j \in 1..size : ~(j < 1)
    OBVIOUS
  <1>10. Undisturbed(t)' => Progress(t, 1, r, {})'
    BY <1>5, <1>6, <1>7, <1>9 DEF Progress, size
  <1> HIDE DEF q
  <1>11. PICK p : p = q
    OBVIOUS
  <1>12. Trying(p, 1, r)
    BY <1>4, <1>11
  <1>13. InRounds(t, p)'
    BY <1>3, <1>10, <1>12 DEF InRounds
  <1> QED  BY <1>2, <1>11, <1>13

(* What is done next tells the action.                                     *)
LEMMA LastWorkOf ==
  ASSUME NEW t, Work(t)
  PROVE  /\ Now(t).do = "report" => ReportUnmounted(t)
         /\ Now(t).do = "panic" => End(t)
  <1>1. \/ ReportUnmounted(t)
        \/ End(t) /\ (Doing(t, "panic") \/ Doing(t, "stop"))
        \/ \E k \in Steps \ {"report", "panic", "stop"} : Doing(t, k)
    <2>1. CASE MountMountpoint(t) \/ LoadToAdd(t) \/ AddMountpoint(t)
               \/ UnmountMountpoint(t) \/ FindToRemove(t) \/ LoadToRemove(t) \/ RemoveMountpoint(t)
               \/ DetachMountpointROM(t) \/ FreeFile(t) \/ EjectNext(t) \/ InsertNext(t) \/ UnmountNext(t)
      BY <2>1 DEF MountMountpoint, LoadToAdd, AddMountpoint, Stores, UnmountMountpoint, FindToRemove,
                LoadToRemove, RemoveMountpoint,
                  DetachMountpointROM, FreeFile, EjectNext, InsertNext, UnmountNext, Steps
    <2>2. CASE TakeSource(t) \/ TakeTarget(t) \/ Copy(t) \/ BeginRound(t) \/ UnmountEach(t)
               \/ ReportUnmounted(t) \/ End(t) \/ SetRerunEmulator(t)
      BY <2>2 DEF TakeSource, TakeTarget, Copy, BeginRound, UnmountEach, End,
                  SetRerunEmulator, Steps
    <2>3. CASE LookForDetach(t) \/ DetachSlot(t) \/ LookForAttach(t) \/ AttachSlot(t)
      BY <2>3 DEF LookForDetach, DetachSlot, LookForAttach, AttachSlot, Steps
    <2> QED  BY <2>1, <2>2, <2>3 DEF Work
  <1> QED  BY <1>1 DEF Doing, Now, ReportUnmounted

(* A goroutine goes on with unmountAll, or with anything else.             *)
LEMMA RoundsGo ==
  ASSUME LInv, LInv', SlotsFit, TodosFit, IsFiniteSet(Media), Cardinality(Media) <= Rounds,
         NEW t \in Threads, Work(t), todo[t] \in Seq(Sparing(RestMay)) \/ InRounds(t, todo[t])
  PROVE  ended' \/ \E q : Then(t, q) /\ (q \in Seq(Sparing(RestMay)) \/ InRounds(t, q)')
  <1>0. todo[t] # <<>> /\ Now(t) = Head(todo[t]) /\ Later(t) = Tail(todo[t])
    BY WorkKeeps DEF Now, Later
  <1>1. CASE todo[t] \in Seq(Sparing(RestMay))
    <2>1. Allowed(RestMay) /\ RestMay.unmount = MountpointsOf /\ "round" \notin RestMay.loops
      BY RestAllowed DEF RestMay
    <2>2. ~BeginRound(t)
      <3>1. ASSUME BeginRound(t) PROVE FALSE
        <4>1. Now(t) \in Sparing(RestMay) /\ Now(t).do = "round"
          BY <1>0, <1>1, <3>1 DEF BeginRound, Doing
        <4> QED  BY <2>1, <4>1, SpareKinds DEF UnmountLoops
      <3> QED  BY <3>1
    <2>3. Spares(t, RestMay)
      BY <1>1, <2>1, <2>2, SpareWork
    <2> QED  BY <2>3 DEF Spares, Then
  <1>2. CASE Head(todo[t]) = HDStart /\ Enters(Tail(todo[t]), 1)
    <2>0. Now(t).do = "hdStart"
      BY <1>0, <1>2 DEF HDStart
    <2>1. Then(t, Later(t))
      BY <2>0, WorkOf DEF SetRerunEmulator
    <2>2. PICK q : q = Later(t)
      OBVIOUS
    <2>3. Enters(q, 1) /\ 1 \in Nat
      BY <1>0, <1>2, <2>2
    <2>4. InRounds(t, q)'
      BY <2>3 DEF InRounds
    <2> QED  BY <2>1, <2>2, <2>4
  <1>3. CASE Head(todo[t]) = Panic
    <2>1. Now(t).do = "panic"
      BY <1>0, <1>3 DEF Panic
    <2> QED  BY <2>1, LastWorkOf DEF End
  <1>4. CASE Reports(todo[t])
    <2>1. Now(t).do = "report" /\ Later(t) \in Seq(Calm(RestMay))
      BY <1>0, <1>4 DEF Reports, Report
    <2>2. Then(t, Later(t))
      BY <2>1, LastWorkOf DEF ReportUnmounted, Goes
    <2>3. Later(t) \in Seq(Sparing(RestMay))
      BY <2>1, SpareSeqs
    <2> QED  BY <2>2, <2>3
  <1>5. ASSUME \E q : Then(t, q) /\ InRounds(t, q)'
        PROVE  ended' \/ \E q : Then(t, q) /\ (q \in Seq(Sparing(RestMay)) \/ InRounds(t, q)')
    BY <1>5
  <1>6. ASSUME NEW r \in Nat, Enters(todo[t], r), r = 1 \/ (Undisturbed(t) => size + r <= Cardinality(Media) + 1)
        PROVE  \E q : Then(t, q) /\ InRounds(t, q)'
    BY <1>6, EntersGoes
  <1>7. ASSUME NEW i \in Nat \ {0}, NEW r \in Nat, Trying(todo[t], i, r) \/ Removing(todo[t], i, r),
               Undisturbed(t) => Progress(t, i, r, {})
        PROVE  \E q : Then(t, q) /\ InRounds(t, q)'
    BY <1>7, TryingGoes, TryingToRemoveGoes
  <1>8. ASSUME NEW mp \in MountpointsOf, NEW i \in Nat \ {0}, NEW r \in Nat, Taking(todo[t], mp, i, r),
               Undisturbed(t) => Progress(t, i, r, {mp.medium})
        PROVE  \E q : Then(t, q) /\ InRounds(t, q)'
    BY <1>0, <1>8, TakingGoes
  <1> QED  BY <1>1, <1>2, <1>3, <1>4, <1>5, <1>6, <1>7, <1>8 DEF InRounds

(* A step of any goroutine.                                                *)
LEMMA RoundsWork ==
  ASSUME LInv, LInv', SlotsFit, TodosFit, IsFiniteSet(Media), Cardinality(Media) <= Rounds,
         NEW t \in Threads, Work(t), RInv
  PROVE  RInv'
  <1>1. ~ended /\ DOMAIN todo = Threads
    BY WorkLeaves DEF LInv, TodosOK
  <1>2. ended' \/ \E q : Then(t, q) /\ (q \in Seq(Sparing(RestMay)) \/ InRounds(t, q)')
    BY <1>1, RoundsGo DEF RInv
  <1>3. ASSUME NEW q, Then(t, q), q \in Seq(Sparing(RestMay)) \/ InRounds(t, q)'
        PROVE  RInv'
    <2>1. todo'[t] = q /\ \A u \in Threads \ {t} : todo'[u] = todo[u]
      BY <1>1, <1>3 DEF Then
    <2>2. todo'[t] \in Seq(Sparing(RestMay)) \/ InRounds(t, todo[t])'
      <3>1. InRounds(t, q)' => InRounds(t, todo[t])'
        BY <2>1 DEF InRounds
      <3> QED  BY <1>3, <2>1, <3>1
    <2>3. ASSUME NEW u \in Threads \ {t}
          PROVE  todo'[u] \in Seq(Sparing(RestMay)) \/ InRounds(u, todo[u])'
      <3>1. PICK p : p = todo[u]
        OBVIOUS
      <3>2. p \in Seq(Sparing(RestMay)) \/ InRounds(u, p)
        BY <1>1, <3>1 DEF RInv
      <3>3. Keeps(u)
        BY WorkKeepsRounds
      <3>4. InRounds(u, p) => InRounds(u, p)'
        BY <3>3, RoundsKept
      <3>5. p = todo'[u]
        BY <2>1, <3>1
      <3>6. InRounds(u, p)' => InRounds(u, todo[u])'
        BY <3>5 DEF InRounds
      <3> QED  BY <3>2, <3>4, <3>5, <3>6
    <2>4. \A u \in Threads : todo'[u] \in Seq(Sparing(RestMay)) \/ InRounds(u, todo[u])'
      BY <2>2, <2>3
    <2> QED  BY <2>4 DEF RInv
  <1> QED  BY <1>2, <1>3 DEF RInv

(* A step that changes neither the list nor the mounts.                    *)
LEMMA RoundsStay ==
  ASSUME LInv, LInv', IsFiniteSet(Media), UNCHANGED <<heap, list, ranged, torn, mounted, disturbed>>,
         NEW u \in Threads, NEW q, InRounds(u, q)
  PROVE  InRounds(u, q)'
  <1>1. size \in Nat
    BY DEF LInv, Types, Within, Slices, size
  <1>2. Keeps(u)
    BY <1>1, ListKept
  <1> QED  BY <1>2, RoundsKept

(* A goroutine begins something.                                           *)
LEMMA BeginRounds ==
  ASSUME LInv, LInv', IsFiniteSet(Media), RInv,
         UNCHANGED <<heap, list, ranged, torn, mounted, disturbed, ended>>,
         NEW t \in Threads, NEW q, Begin(t, q), q \in Seq(Sparing(RestMay)) \/ InRounds(t, q)'
  PROVE  RInv'
  <1>1. DOMAIN todo = Threads
    BY DEF LInv, TodosOK
  <1>2. todo'[t] = q /\ \A u \in Threads \ {t} : todo'[u] = todo[u]
    BY <1>1 DEF Begin
  <1>3. todo'[t] \in Seq(Sparing(RestMay)) \/ InRounds(t, todo[t])'
    <2>1. InRounds(t, q)' => InRounds(t, todo[t])'
      BY <1>2 DEF InRounds
    <2> QED  BY <1>2, <2>1
  <1>4. ASSUME NEW u \in Threads \ {t}, ~ended
        PROVE  todo'[u] \in Seq(Sparing(RestMay)) \/ InRounds(u, todo[u])'
    <2>1. PICK p : p = todo[u]
      OBVIOUS
    <2>2. p \in Seq(Sparing(RestMay)) \/ InRounds(u, p)
      BY <1>4, <2>1 DEF RInv
    <2>3. InRounds(u, p) => InRounds(u, p)'
      BY RoundsStay
    <2>4. p = todo'[u]
      BY <1>2, <2>1
    <2>5. InRounds(u, p)' => InRounds(u, todo[u])'
      BY <2>4 DEF InRounds
    <2> QED  BY <2>2, <2>3, <2>4, <2>5
  <1>5. ~ended => \A u \in Threads : todo'[u] \in Seq(Sparing(RestMay)) \/ InRounds(u, todo[u])'
    BY <1>3, <1>4
  <1> QED  BY <1>5 DEF RInv

(* The rounds as unmountAll begins them.                                   *)
LEMMA RoundsMade ==
  ASSUME NEW t, NEW x \in Calm(RestMay)
  PROVE  /\ Enters(<<Round(1), Report, x>>, 1)
         /\ Enters(Tail(<<HDStart, Round(1), Report, x>>), 1) /\ Head(<<HDStart, Round(1), Report, x>>) = HDStart
  <1> DEFINE s == Round(1)
             q == <<Report, x>>
             p == <<s, Report, x>>
  <1>1. Report \in Calm(AllMay) /\ x \in Calm(AllMay)
    BY RoundSteps
  <1> HIDE DEF s, Report, HDStart
  <1>2. q \in Seq(Calm(AllMay)) /\ q # <<>> /\ Head(q) = Report /\ Tail(q) = <<x>>
    BY <1>1
  <1>3. <<x>> \in Seq(Calm(RestMay))
    OBVIOUS
  <1>4. p # <<>> /\ Head(p) = s /\ Tail(p) = q
    OBVIOUS
  <1>5. Tail(<<HDStart, s, Report, x>>) = p /\ Head(<<HDStart, s, Report, x>>) = HDStart
    OBVIOUS
  <1>6. Reports(q)
    BY <1>2, <1>3 DEF Reports
  <1> HIDE DEF p, q
  <1>7. Enters(p, 1)
    BY <1>4, <1>6 DEF Enters, s
  <1> QED  BY <1>5, <1>7 DEF p, s

(* The polls begin no round.                                               *)
LEMMA PollRounds ==
  ASSUME LInv, LInv', SlotsFit, IsFiniteSet(Media), RInv, BlockDevices \/ Discovery
  PROVE  RInv'
  <1>1. Allowed(RestMay) /\ RestMay.detach = Anything /\ RestMay.unmount = MountpointsOf
        /\ RestMay.media = Media /\ RestMay.attach = Fitting
    BY RestAllowed DEF RestMay
  <1>2. UNCHANGED <<heap, list, ranged, torn, mounted, disturbed, ended>>
    BY DEF BlockDevices, Discovery, listVars, ghosts
  <1>3. CASE BlockDevices
    <2>1. oldBlocks \subseteq Media /\ blocks \subseteq Media /\ "blockDevices" \in Threads /\ ~ended
      BY <1>3 DEF LInv, Types, Threads, BlockDevices, Begin
    <2>2. PICK q \in Seq(Sparing(RestMay)) : Begin("blockDevices", q)
      BY <1>1, <1>3, <2>1, BlockDevicesSpare, SpareSeqs DEF BlockDevices
    <2> QED  BY <1>2, <2>1, <2>2, BeginRounds
  <1>4. CASE Discovery
    <2>1. oldFiles \subseteq Devices /\ currentFiles \subseteq Devices /\ "discovery" \in Threads
      BY DEF LInv, Types, Threads
    <2>2. \A f \in Devices, d \in Drives : <<d, f>> \in RestMay.attach
      BY <1>1, ConstantsAssumption DEF Fitting, Anything, Slottable, Images
    <2>3. PICK q \in Seq(Sparing(RestMay)) : Begin("discovery", q)
      BY <1>1, <1>4, <2>1, <2>2, DiscoverySpares, SpareSeqs DEF Discovery
    <2> QED  BY <1>2, <2>1, <2>3, BeginRounds
  <1> QED  BY <1>3, <1>4

(* The signal and the keyboards do.                                        *)
LEMMA CommandRounds ==
  ASSUME LInv, LInv', SlotsFit, IsFiniteSet(Media), RInv, Signal \/ \E t \in Keyboards : Keyboard(t)
  PROVE  RInv'
  <1>1. Allowed(RestMay) /\ "index" \in RestMay.loops /\ RestMay.copy = Drives
        /\ (~ended => Listed \subseteq RestMay.media)
    BY RestAllowed, ListedMountpoints DEF RestMay
  <1>2. HDDone \in Calm(RestMay) /\ Stop \in Calm(RestMay)
    BY <1>1, SpareMade
  <1>3. ASSUME Signal PROVE RInv'
    <2>1. /\ Begin("signal", <<Round(1), Report, Stop>>) /\ "signal" \in Threads
          /\ UNCHANGED <<heap, list, ranged, torn, mounted, disturbed, ended>>
      BY <1>3 DEF Signal, Threads, listVars, pollVars, ghosts
    <2>2. Enters(<<Round(1), Report, Stop>>, 1)
      BY <1>2, RoundsMade
    <2>3. PICK q : q = <<Round(1), Report, Stop>>
      OBVIOUS
    <2>4. Enters(q, 1) /\ 1 \in Nat
      BY <2>2, <2>3
    <2>5. InRounds("signal", q)'
      BY <2>4 DEF InRounds
    <2> QED  BY <2>1, <2>3, <2>5, BeginRounds
  <1>4. ASSUME NEW t \in Keyboards, Keyboard(t) PROVE RInv'
    <2>0. t \in Threads
      BY DEF Threads
    <2>1. ASSUME NEW q, Command(t, q), q \in Seq(Sparing(RestMay)) \/ InRounds(t, q)'
          PROVE  RInv'
      <3>1. Begin(t, q) /\ UNCHANGED <<heap, list, ranged, torn, mounted, disturbed, ended>>
        BY <2>1 DEF Command, listVars, pollVars, ghosts
      <3> QED  BY <2>0, <2>1, <3>1, BeginRounds
    <2>2. CASE UnmountAll(t)
      <3>1. Command(t, <<HDStart, Round(1), Report, HDDone>>)
        BY <2>2 DEF UnmountAll
      <3>2. PICK q : q = <<HDStart, Round(1), Report, HDDone>>
        OBVIOUS
      <3>3. Head(q) = HDStart /\ Enters(Tail(q), 1) /\ q # <<>>
        BY <1>2, <3>2, RoundsMade
      <3>4. InRounds(t, q)'
        BY <3>3 DEF InRounds
      <3> QED  BY <2>1, <3>1, <3>2, <3>4
    <2>3. ASSUME NEW k, NEW ds \in Seq(Drives), UnmountFromSourceIndex(t, k, ds)
          PROVE  RInv'
      BY <1>1, <2>1, <2>3, UnmountIndexSpares
    <2>4. CASE UnmountCommand(t)
      <3>1. \A d \in Drives : fillIndexes(d) \in Seq(Drives)
        BY DEF fillIndexes
      <3>2. \A k \in Kinds : DrivesOf(k) \in Seq(Drives)
        BY DrivesFacts
      <3> QED  BY <2>2, <2>3, <2>4, <3>1, <3>2 DEF UnmountCommand
    <2>5. CASE ~UnmountCommand(t)
      <3>1. ~ended
        BY <1>4, KeyboardRuns
      <3> QED  BY <1>1, <1>4, <2>1, <2>5, <3>1, OthersSpared
    <2> QED  BY <2>4, <2>5
  <1> QED  BY <1>3, <1>4

(* Every step.                                                             *)
LEMMA RoundsNext ==
  ASSUME LInv, LInv', SlotsFit, TodosFit, IsFiniteSet(Media), Cardinality(Media) <= Rounds, RInv, [Next]_vars
  PROVE  RInv'
  <1>1. CASE Plug \/ UNCHANGED vars
    <2>1. UNCHANGED <<heap, list, ranged, torn, mounted, disturbed, ended, todo>>
      BY <1>1 DEF Plug, vars, listAndPolls, listVars, ghosts
    <2>2. ASSUME NEW u \in Threads, ~ended
          PROVE  todo'[u] \in Seq(Sparing(RestMay)) \/ InRounds(u, todo[u])'
      <3>1. PICK p : p = todo[u]
        OBVIOUS
      <3>2. p \in Seq(Sparing(RestMay)) \/ InRounds(u, p)
        BY <2>2, <3>1 DEF RInv
      <3>3. InRounds(u, p) => InRounds(u, p)'
        BY <2>1, RoundsStay
      <3>4. p = todo'[u]
        BY <2>1, <3>1
      <3>5. InRounds(u, p)' => InRounds(u, todo[u])'
        BY <3>4 DEF InRounds
      <3> QED  BY <3>2, <3>3, <3>4, <3>5
    <2>3. ~ended => \A u \in Threads : todo'[u] \in Seq(Sparing(RestMay)) \/ InRounds(u, todo[u])'
      BY <2>2
    <2> QED  BY <2>1, <2>3 DEF RInv
  <1>2. ASSUME NEW t \in Threads, Work(t) PROVE RInv'
    BY <1>2, RoundsWork
  <1> QED  BY <1>1, <1>2, PollRounds, CommandRounds DEF Next

(* Until its last step, unmountAll is at something else than its report.   *)
LEMMA ReportLast ==
  ASSUME LInv, SlotsFit, NEW t \in Threads, todo[t] \in Seq(Sparing(RestMay)) \/ InRounds(t, todo[t]),
         Doing(t, "report")
  PROVE  ~Undisturbed(t)
  <1>1. todo[t] # <<>> /\ Head(todo[t]).do = "report"
    BY DEF Doing
  <1>2. todo[t] \notin Seq(Sparing(RestMay))
    <2>1. ASSUME todo[t] \in Seq(Sparing(RestMay)) PROVE FALSE
      <3>1. Head(todo[t]) \in Sparing(RestMay)
        BY <1>1, <2>1
      <3>2. "round" \in RestMay.loops
        BY <1>1, <3>1, RestAllowed, SpareKinds
      <3> QED  BY <3>2 DEF RestMay
    <2> QED  BY <2>1
  <1>3. Head(todo[t]) \notin {HDStart, Panic} /\ \A i, r : Head(todo[t]) \notin {Round(r), Each(i, r)}
    BY <1>1 DEF HDStart, Panic, Round, Each
  <1>4. \A i, r : ~Enters(todo[t], r) /\ ~Trying(todo[t], i, r)
    BY <1>3 DEF Enters, Trying
  <1>5. \A i, r : ~Removing(todo[t], i, r)
    BY <1>1 DEF Removing
  <1>6. ASSUME NEW mp \in MountpointsOf, NEW i, NEW r, Taking(todo[t], mp, i, r)
        PROVE  FALSE
    <2>1. Courses(todo[t], mp, i, r)
      BY <1>1, <1>6 DEF Taking
    <2>2. Head(todo[t]) = Unmount(mp, TRUE) \/ Head(todo[t]) \in Emptying(mp)
      BY <2>1, CoursesFirst
    <2> QED  BY <1>1, <2>2 DEF Unmount, Emptying
  <1> QED  BY <1>2, <1>3, <1>4, <1>5, <1>6 DEF InRounds

(* Whatever overlaps, and whatever fails: with at most as many media as    *)
(* unmountAll has tries, it leaves nothing in the list mounted, but for    *)
(* what failed to be unmounted or was added meanwhile, and as long as the  *)
(* list was not torn.  Its loop skips elements, as RemoveMountpoint moves  *)
(* them under it; but only when one was removed, so every try shortens the *)
(* list until nothing is mounted.                                          *)
THEOREM UnmountsAllMounted ==
  ASSUME IsFiniteSet(Media), Cardinality(Media) <= Rounds
  PROVE  Spec => []UnmountAllUnmounts
  <1>1. Init => RInv
    <2> SUFFICES ASSUME Init PROVE RInv
      OBVIOUS
    <2>1. \A t \in Threads : todo[t] = <<>>
      BY DEF Init
    <2>2. <<>> \in Seq(Sparing(RestMay))
      OBVIOUS
    <2> QED  BY <2>1, <2>2 DEF RInv
  <1>2. LInv /\ LInv' /\ UInv /\ RInv /\ [Next]_vars => RInv'
    BY RoundsNext DEF UInv
  <1>3. LInv /\ UInv /\ RInv => UnmountAllUnmounts
    <2> SUFFICES ASSUME LInv, UInv, RInv, NEW t \in Threads, Doing(t, "report"), t \notin disturbed, ~torn
                 PROVE  Listed \intersect mounted = {}
      BY DEF UnmountAllUnmounts
    <2>1. todo[t] \in Seq(Sparing(RestMay)) \/ InRounds(t, todo[t])
      BY DEF RInv, Doing
    <2>2. ~Undisturbed(t)
      BY <2>1, ReportLast DEF UInv
    <2> QED  BY <2>2 DEF Undisturbed
  <1> QED  BY <1>1, <1>2, <1>3, InvariantHolds, UnmountsHold, PTL DEF Spec
=============================================================================
