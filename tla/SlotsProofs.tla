----------------------------- MODULE SlotsProofs -----------------------------
(***************************************************************************)
(* What the goroutines that share the slots and the mountpoints cannot do  *)
(* to each other, for any drives, media, files, keyboards and bounds.      *)
(*                                                                         *)
(* The argument.  What a goroutine still has to do was put together from   *)
(* what it saw when it began, and everything may have changed since.  So   *)
(* LInv says of these steps only what nobody can take away: they name      *)
(* drives, files and mountpoints that exist (Proper); a mountpoint of      *)
(* number n exists once n mounts have been listed (Known), and only the    *)
(* poll of the block devices has the next one in hand (InHands).  The      *)
(* list is a slice that AddMountpoint and RemoveMountpoint load, change in *)
(* place and store, and they may do so inside one another: the list is     *)
(* then torn, and all that is left is that the slices lie within their     *)
(* arrays (Types, LoadsOK).  Until then, whoever stores has met the list   *)
(* that it loaded.  Two goroutines may hold one mountpoint and both        *)
(* unmount it; that the list keeps what is mounted follows from what was   *)
(* unmounted not being mounted again while it is listed:                   *)
(* setupAddMountpoint looks for the label (UnlistsOK, MountsOK, AddsNew).  *)
(*                                                                         *)
(* The rerun flag: a sequence of steps restores it if it comes to          *)
(* onHDOperationDone whichever of its branches it takes (Restores); while  *)
(* the flag is off somebody has such a sequence, since whoever clears it   *)
(* goes on with one (RestartsOK).                                          *)
(***************************************************************************)
EXTENDS Slots, FiniteSetTheorems, SequenceTheorems, WellFoundedInduction, TLAPS

(* The mountpoints of the first l mounts; number 0 stands for one that was *)
(* made to unmount a medium nobody listed (unmountMountpoint of a mounted  *)
(* device).                                                                *)
MountpointsTo(l) == [medium : Media, n : 0..l]

(* The poll is between the mount and the end of AddMountpoint.             *)
Adding == todo["blockDevices"] # <<>> /\ Now("blockDevices").do \in {"add", "grow"}
(* The mountpoints anybody can know of: all but the one in hand.           *)
Known == IF Adding THEN mounts - 1 ELSE mounts

(* The steps without an early return.                                      *)
Simple(l) ==
    [do : {"clear", "eject", "index"}, d : Drives]
    \union [do : {"fill", "insert"}, d : Drives, f : Slottable]
    \union [do : {"unmount"}, mp : MountpointsTo(l), remove : BOOLEAN]
    \union [do : {"rom"}, d : Drives, mp : MountpointsTo(l)]
    \union [do : {"round"}, r : Nat]
    \union [do : {"each"}, i : Nat \ {0}, r : Nat]
    \union [do : {"report", "hdDone", "panic", "stop"}]

(* The steps that may return early, which is to go on with orelse.         *)
Branches(l) ==
    [do : {"detach", "attach"}, d : Drives, f : Slottable, orelse : Seq(Simple(l))]
    \union [do : {"free"}, f : Slottable, k : {Kind[d] : d \in Drives}, orelse : Seq(Simple(l))]
    \union [do : {"source"}, s : Drives, t : Drives \union {Beyond}, orelse : Seq(Simple(l))]
    \union [do : {"target"}, s : Drives, f : Slottable, t : Drives \union {Beyond},
            orelse : Seq(Simple(l))]
    \union [do : {"copy"}, s : Drives, f : Slottable, t : Drives, g : Slottable, orelse : Seq(Simple(l))]

(* The steps that come first only: removing what was unmounted, and        *)
(* onHDOperationStart.                                                     *)
Firsts(l) ==
    [do : {"unlist"}, mp : MountpointsTo(l)]
    \union [do : {"load", "delete"}, mp : MountpointsTo(l), i : Nat \ {0}]
    \union [do : {"hdStart"}]

(* The steps that put more steps in front of what follows them.            *)
Loops == {"rom", "index", "round", "each"}

(* Steps that name drives, files and mountpoints that exist; behind a loop *)
(* nothing can return early.                                               *)
Proper(q, l) ==
    /\ q \in Seq(Simple(l) \union Branches(l))
    /\ \A i \in 1..Len(q) : q[i].do \in Loops => \A j \in i + 1..Len(q) : q[j] \in Simple(l)

(* What the poll has in hand of a medium: about to mount it, or to list    *)
(* it.                                                                     *)
InHands(q) ==
    \/ \E m \in Media : q = <<Mount(m)>> \/ q = <<Unmount([medium |-> m, n |-> 0], FALSE), Mount(m)>>
    \/ mounts > 0 /\ \E m \in Media : \/ q = <<Add([medium |-> m, n |-> mounts])>>
                                    \/ q = <<Grow([medium |-> m, n |-> mounts])>>

(* What a goroutine may still have to do.                                  *)
TodoOK(t) ==
    \/ Proper(todo[t], Known)
    \/ /\ todo[t] \in Seq(Simple(Known) \union Branches(Known) \union Firsts(Known)) \ {<<>>}
       /\ Now(t) \in Firsts(Known) /\ Proper(Later(t), Known)
    \/ t = "blockDevices" /\ InHands(todo[t])

(* A slice lies within its array.                                          *)
Within(s) == s \in Slices /\ s.at \in 1..Len(heap) /\ s.len <= Len(heap[s.at])

(* The types of the variables: the arrays hold mountpoints that exist; the *)
(* list has no nil as long as the program runs.                            *)
Types ==
    /\ slot \in [Drives -> Slottable]
    /\ mounts \in Nat
    /\ heap \in Seq(Seq(MountpointsTo(Known) \union {None}))
    /\ Within(list)
    /\ DOMAIN ranged = Threads /\ \A t \in Threads : Within(ranged[t])
    /\ DOMAIN loaded = Threads /\ \A t \in Threads : Within(loaded[t])
    /\ ended \/ \A i \in 1..size : array[i] # None
    /\ mounted \subseteq Media /\ leaked \subseteq Media /\ plugged \subseteq Media \union Devices
    /\ blocks \subseteq Media /\ oldBlocks \subseteq Media
    /\ currentFiles \subseteq Devices /\ oldFiles \subseteq Devices
    /\ disturbed \subseteq Threads
    /\ {rerunEmulator, ended, torn} \subseteq BOOLEAN
    /\ {plugs, commands, failures, copies, overlaps} \subseteq Nat
TodosOK == DOMAIN todo = Threads /\ \A t \in Threads : TodoOK(t)

(* Who is about to delete element i has loaded a slice that has it.        *)
LoadsOK == \A t \in Threads : todo[t] # <<>> /\ Now(t).do = "delete" => Now(t).i <= loaded[t].len

(* What the poll is about to list is not listed.                           *)
AddsNew == torn \/ (Adding => Now("blockDevices").mp.medium \notin Listed)

(* The poll is about to list m, or to unmount it because it has no files.  *)
Held(m) ==
    /\ todo["blockDevices"] # <<>>
    /\ LET s == Now("blockDevices")
       IN (s.do \in {"add", "grow"} \/ (s.do = "unmount" /\ ~s.remove)) /\ s.mp.medium = m
(* What is mounted is listed, or is in the hands of the poll, or could not *)
(* be unmounted.                                                           *)
MountsOK == torn \/ \A m \in mounted : m \in Listed \/ m \in leaked \/ Held(m)

(* Who is about to take a mountpoint out of the list has unmounted it, and *)
(* nobody has mounted its medium since.                                    *)
UnlistsOK ==
    torn \/ \A t \in Threads : todo[t] # <<>> /\ Now(t).do \in {"unlist", "load", "delete"} =>
                \A i \in 1..size : array[i] = Now(t).mp => array[i].medium \notin mounted

(* The loops that detach and attach at other drives, with no operation on  *)
(* a hard disk around them.                                                *)
Breaks == {"eject", "insert"}
Branching == {"detach", "attach", "free", "source", "target", "copy"}

(* Steps that come to onHDOperationDone without branches in the way.       *)
RestoresSoon(q) ==
    \E i \in 1..Len(q) : q[i].do = "hdDone" /\ \A j \in 1..i - 1 : q[j].do \notin Breaks
(* Steps that come to onHDOperationDone whichever branch they take.        *)
Restores(q) ==
    \E i \in 1..Len(q) :
        /\ q[i].do = "hdDone"
        /\ \A j \in 1..i - 1 : q[j].do \notin Breaks /\ (q[j].do \in Branching => RestoresSoon(q[j].orelse))
(* The emulator is started again when it ends, or somebody will come to    *)
(* onHDOperationDone.                                                      *)
RestartsOK ==
    /\ \A t \in Threads : todo[t] # <<>> /\ Now(t).do = "hdStart" => Restores(Later(t))
    /\ rerunEmulator \/ ended \/ \E t \in Threads : Restores(todo[t])

(* The inductive invariant.                                                *)
LInv == Types /\ TodosOK /\ LoadsOK /\ ListedOnce /\ UnlistsOK /\ MountsOK /\ AddsNew

-----------------------------------------------------------------------------
(* The drives, and what the searches find.                                 *)
LEMMA LeastNumber ==
  ASSUME NEW S \in SUBSET Nat, S # {}
  PROVE  Min(S) \in S /\ \A x \in S : Min(S) <= x
  <1>1. PICK x \in S : \A y \in S : <<y, x>> \notin OpToRel(<, Nat)
    BY NatLessThanWellFounded, WFMin, Zenon
  <1>2. \A y \in S : ~(y < x)
    BY <1>1, Zenon DEF OpToRel
  <1>3. \A y \in S : x <= y
    BY <1>2
  <1> QED  BY <1>3 DEF Min

(* The drives are numbered kind by kind.                                   *)
LEMMA DrivesFacts ==
  /\ AllDrives \in Nat /\ DriveSeq \in Seq(Drives) /\ Len(DriveSeq) = AllDrives
  /\ \A d \in Drives : Kind[d] \in Kinds
  /\ \A i \in 1..AllDrives : DriveSeq[i] = i - 1
  /\ \A k \in Kinds : /\ DrivesOf(k) \in Seq(Drives)
                      /\ \A i \in 1..Len(DrivesOf(k)) : Kind[DrivesOf(k)[i]] = k
  /\ \A d \in Drives : ToSet(DrivesOf(Kind[d])) \subseteq Drives /\ Len(DrivesOf(Kind[d])) > 0
  <1>1. /\ NumDrives["DF"] \in Nat /\ NumDrives["HD"] \in Nat /\ NumDrives["CD"] \in Nat
    BY ConstantsAssumption DEF Kinds
  <1>2. /\ First("DF") = 0 /\ First("HD") = NumDrives["DF"]
        /\ First("CD") = NumDrives["DF"] + NumDrives["HD"]
    BY DEF First
  <1>3. AllDrives \in Nat /\ AllDrives = NumDrives["DF"] + NumDrives["HD"] + NumDrives["CD"]
    BY <1>1, <1>2 DEF AllDrives
  <1>4. DriveSeq \in Seq(Drives) /\ Len(DriveSeq) = AllDrives /\ \A i \in 1..AllDrives : DriveSeq[i] = i - 1
    BY <1>3 DEF DriveSeq, Drives
  <1>5. ASSUME NEW d \in Drives
        PROVE  /\ Kind[d] = IF d < NumDrives["DF"] THEN "DF"
                            ELSE IF d < NumDrives["DF"] + NumDrives["HD"] THEN "HD" ELSE "CD"
               /\ Kind[d] \in Kinds /\ NumDrives[Kind[d]] > 0
    BY <1>1, <1>2, <1>3 DEF Kind, Kinds, Drives
  <1>6. ASSUME NEW k \in Kinds
        PROVE  /\ DrivesOf(k) \in Seq(Drives) /\ Len(DrivesOf(k)) = NumDrives[k]
               /\ \A i \in 1..Len(DrivesOf(k)) : Kind[DrivesOf(k)[i]] = k
    <2>1. NumDrives[k] \in Nat  BY ConstantsAssumption
    <2>2. ASSUME NEW i \in 1..NumDrives[k]
          PROVE  First(k) + i - 1 \in Drives /\ Kind[First(k) + i - 1] = k
      BY <1>1, <1>2, <1>3, <1>5 DEF Kinds, Drives
    <2> QED  BY <2>1, <2>2 DEF DrivesOf
  <1>7. ASSUME NEW d \in Drives
        PROVE  ToSet(DrivesOf(Kind[d])) \subseteq Drives /\ Len(DrivesOf(Kind[d])) > 0
    BY <1>5, <1>6 DEF ToSet
  <1> QED  BY <1>3, <1>4, <1>5, <1>6, <1>7

(* What SelectInSeq finds is in the sequence.                              *)
LEMMA Found ==
  ASSUME array \in Seq([medium : Media, n : Nat] \union {None}), size \in 0..Len(array)
  PROVE  /\ \A m : /\ GetMountpointByDevicePathname(m) \in 0..size
                   /\ GetMountpointByDevicePathname(m) = 0 => \A i \in 1..size : array[i].medium # m
                   /\ GetMountpointByDevicePathname(m) # 0 => array[GetMountpointByDevicePathname(m)].medium = m
         /\ \A mp : /\ FindMountpoint(mp) \in 0..size
                    /\ FindMountpoint(mp) = 0 => \A i \in 1..size : array[i] # mp
                    /\ FindMountpoint(mp) # 0 => array[FindMountpoint(mp)] = mp
         /\ \A d : /\ GetMountpointByIndex(d) \in 0..size
                   /\ GetMountpointByIndex(d) # 0 => Home[array[GetMountpointByIndex(d)].medium] = d
  <1>1. Len(Mountpoints) = size /\ \A i \in 1..size : Mountpoints[i] = array[i]
    BY SubSeqProperties DEF Mountpoints
  <1>2. ASSUME NEW m
        PROVE  /\ GetMountpointByDevicePathname(m) \in 0..size
               /\ GetMountpointByDevicePathname(m) = 0 => \A i \in 1..size : array[i].medium # m
               /\ GetMountpointByDevicePathname(m) # 0 => array[GetMountpointByDevicePathname(m)].medium = m
    <2> DEFINE I == {i \in 1..Len(Mountpoints) : Mountpoints[i].medium = m}
    <2>1. GetMountpointByDevicePathname(m) = IF I # {} THEN Min(I) ELSE 0
      BY DEF GetMountpointByDevicePathname, SelectInSeq
    <2>2. I # {} => Min(I) \in I
      <3>1. I \in SUBSET Nat
        BY <1>1
      <3> HIDE DEF I
      <3> QED  BY <3>1, LeastNumber
    <2> QED  BY <1>1, <2>1, <2>2
  <1>3. ASSUME NEW mp
        PROVE  /\ FindMountpoint(mp) \in 0..size
               /\ FindMountpoint(mp) = 0 => \A i \in 1..size : array[i] # mp
               /\ FindMountpoint(mp) # 0 => array[FindMountpoint(mp)] = mp
    <2> DEFINE I == {i \in 1..Len(Mountpoints) : Mountpoints[i] = mp}
    <2>1. FindMountpoint(mp) = IF I # {} THEN Min(I) ELSE 0
      BY DEF FindMountpoint, SelectInSeq
    <2>2. I # {} => Min(I) \in I
      <3>1. I \in SUBSET Nat
        BY <1>1
      <3> HIDE DEF I
      <3> QED  BY <3>1, LeastNumber
    <2> QED  BY <1>1, <2>1, <2>2
  <1>4. ASSUME NEW d
        PROVE  /\ GetMountpointByIndex(d) \in 0..size
               /\ GetMountpointByIndex(d) # 0 => Home[array[GetMountpointByIndex(d)].medium] = d
    <2> DEFINE I == {i \in 1..Len(Mountpoints) : Home[Mountpoints[i].medium] = d}
    <2>1. GetMountpointByIndex(d) = IF I # {} THEN Min(I) ELSE 0
      BY DEF GetMountpointByIndex, SelectInSeq
    <2>2. I # {} => Min(I) \in I
      <3>1. I \in SUBSET Nat
        BY <1>1
      <3> HIDE DEF I
      <3> QED  BY <3>1, LeastNumber
    <2> QED  BY <1>1, <2>1, <2>2
  <1> QED  BY <1>2, <1>3, <1>4

(* A drive that holds a file is found.                                     *)
LEMMA FoundDrive ==
  ASSUME NEW k, NEW f, IsHeld(k, f)
  PROVE  FirstDrive(k, f) \in Drives /\ Kind[FirstDrive(k, f)] = k /\ slot[FirstDrive(k, f)] = f
  <1> DEFINE I == {i \in 1..Len(DriveSeq) : Kind[DriveSeq[i]] = k /\ slot[DriveSeq[i]] = f}
  <1>1. FirstDrive(k, f) = (IF I # {} THEN Min(I) ELSE 0) - 1
    BY DEF FirstDrive, SelectInSeq
  <1>2. PICK d \in Drives : Kind[d] = k /\ slot[d] = f
    BY DEF IsHeld
  <1>3. d + 1 \in 1..AllDrives /\ DriveSeq[d + 1] = d
    BY DrivesFacts DEF Drives
  <1>4. Min(I) \in I
    <2>1. AllDrives \in Nat /\ Len(DriveSeq) = AllDrives
      BY DrivesFacts
    <2>2. I \in SUBSET Nat /\ d + 1 \in I
      BY <1>2, <1>3, <2>1
    <2> HIDE DEF I
    <2> QED  BY <2>2, LeastNumber
  <1>5. Min(I) - 1 \in Drives /\ DriveSeq[Min(I)] = Min(I) - 1
    BY <1>4, DrivesFacts DEF Drives
  <1> QED  BY <1>1, <1>4, <1>5

-----------------------------------------------------------------------------
(* Steps and sequences of steps.                                           *)
LEMMA StepKinds ==
  ASSUME NEW l, NEW s \in Simple(l) \union Branches(l)
  PROVE  /\ s.do \in Steps \ {"mount", "add", "grow", "unlist", "load", "delete", "hdStart"}
         /\ s \in Branches(l) <=> s.do \in Branching
         /\ s.do \in {"clear", "eject", "index"} => s.d \in Drives
         /\ s.do \in {"fill", "insert"} => s.d \in Drives /\ s.f \in Slottable
         /\ s.do = "unmount" => s.mp \in MountpointsTo(l) /\ s.remove \in BOOLEAN
         /\ s.do = "rom" => s.d \in Drives /\ s.mp \in MountpointsTo(l)
         /\ s.do = "round" => s.r \in Nat
         /\ s.do = "each" => s.i \in Nat \ {0} /\ s.r \in Nat
         /\ s.do \in {"detach", "attach"} => s.d \in Drives /\ s.f \in Slottable
         /\ s.do = "free" => s.f \in Slottable /\ s.k \in {Kind[d] : d \in Drives}
         /\ s.do = "source" => s.s \in Drives /\ s.t \in Drives \union {Beyond}
         /\ s.do = "target" => s.s \in Drives /\ s.t \in Drives \union {Beyond} /\ s.f \in Slottable
         /\ s.do = "copy" => s.s \in Drives /\ s.t \in Drives /\ s.f \in Slottable /\ s.g \in Slottable
         /\ s.do \in Branching => s.orelse \in Seq(Simple(l))
  <1>1. CASE s \in Simple(l)
    BY <1>1 DEF Simple, Branches, Branching, Steps
  <1>2. CASE s \in Branches(l)
    BY <1>2 DEF Simple, Branches, Branching, Steps
  <1> QED  BY <1>1, <1>2

(* The steps as the operations make them.                                  *)
LEMMA StepsMade ==
  ASSUME NEW l
  PROVE  /\ {Report, HDDone, Panic, Stop} \subseteq Simple(l)
         /\ \A d \in Drives : {Clear(d), EjectIndex(d), UnmountIndex(d)} \subseteq Simple(l)
         /\ \A d \in Drives, f \in Slottable : {Fill(d, f), InsertIndex(d, f)} \subseteq Simple(l)
         /\ \A mp \in MountpointsTo(l) :
              /\ \A b \in BOOLEAN : Unmount(mp, b) \in Simple(l)
              /\ \A d \in Drives : DetachROM(d, mp) \in Simple(l)
              /\ Unlist(mp) \in Firsts(l)
              /\ \A i \in Nat \ {0} : Load(mp, i) \in Firsts(l) /\ Delete(mp, i) \in Firsts(l)
         /\ \A r \in Nat : Round(r) \in Simple(l) /\ \A i \in Nat \ {0} : Each(i, r) \in Simple(l)
         /\ \A q \in Seq(Simple(l)), d \in Drives, f \in Slottable :
              /\ Detach(d, f, q) \in Branches(l) /\ Attach(d, f, q) \in Branches(l)
              /\ \A k \in {Kind[c] : c \in Drives} : Free(f, k, q) \in Branches(l)
              /\ \A e \in Drives \union {Beyond} : /\ CopySource(d, e, q) \in Branches(l)
                                                  /\ CopyTarget(d, f, e, q) \in Branches(l)
              /\ \A e \in Drives, g \in Slottable : CopyFile(d, f, e, g, q) \in Branches(l)
         /\ HDStart \in Firsts(l)
  <1>1. {Report, HDDone, Panic, Stop} \subseteq Simple(l) /\ HDStart \in Firsts(l)
    BY DEF Simple, Firsts, Report, HDDone, Panic, Stop, HDStart
  <1>2. \A d \in Drives : {Clear(d), EjectIndex(d), UnmountIndex(d)} \subseteq Simple(l)
    BY DEF Simple, Clear, EjectIndex, UnmountIndex
  <1>3. \A d \in Drives, f \in Slottable : {Fill(d, f), InsertIndex(d, f)} \subseteq Simple(l)
    BY DEF Simple, Fill, InsertIndex
  <1>4. \A mp \in MountpointsTo(l) :
          /\ \A b \in BOOLEAN : Unmount(mp, b) \in Simple(l)
          /\ \A d \in Drives : DetachROM(d, mp) \in Simple(l)
          /\ Unlist(mp) \in Firsts(l)
          /\ \A i \in Nat \ {0} : Load(mp, i) \in Firsts(l) /\ Delete(mp, i) \in Firsts(l)
    BY DEF Simple, Firsts, Unmount, DetachROM, Unlist, Load, Delete
  <1>5. \A r \in Nat : Round(r) \in Simple(l) /\ \A i \in Nat \ {0} : Each(i, r) \in Simple(l)
    BY DEF Simple, Round, Each
  <1>6. ASSUME NEW q \in Seq(Simple(l)), NEW d \in Drives, NEW f \in Slottable
        PROVE  /\ Detach(d, f, q) \in Branches(l) /\ Attach(d, f, q) \in Branches(l)
               /\ \A k \in {Kind[c] : c \in Drives} : Free(f, k, q) \in Branches(l)
               /\ \A e \in Drives \union {Beyond} : /\ CopySource(d, e, q) \in Branches(l)
                                                   /\ CopyTarget(d, f, e, q) \in Branches(l)
               /\ \A e \in Drives, g \in Slottable : CopyFile(d, f, e, g, q) \in Branches(l)
    BY DEF Branches, Detach, Attach, Free, CopySource, CopyTarget, CopyFile
  <1> QED  BY <1>1, <1>2, <1>3, <1>4, <1>5, <1>6

(* The names of the steps.                                                 *)
LEMMA StepNames ==
  /\ \A d : /\ Clear(d).do = "clear" /\ EjectIndex(d).do = "eject" /\ UnmountIndex(d).do = "index"
            /\ \A f : Fill(d, f).do = "fill" /\ InsertIndex(d, f).do = "insert"
            /\ \A f, q : Detach(d, f, q).do = "detach" /\ Attach(d, f, q).do = "attach"
            /\ \A mp : DetachROM(d, mp).do = "rom"
            /\ \A e, q : CopySource(d, e, q).do = "source"
            /\ \A e, f, q : CopyTarget(d, f, e, q).do = "target"
            /\ \A e, f, g, q : CopyFile(d, f, e, g, q).do = "copy"
  /\ \A mp : /\ \A b : Unmount(mp, b).do = "unmount" /\ Unmount(mp, b).remove = b /\ Unmount(mp, b).mp = mp
             /\ Unlist(mp).do = "unlist" /\ Unlist(mp).mp = mp
             /\ Add(mp).do = "add" /\ Add(mp).mp = mp /\ Grow(mp).do = "grow" /\ Grow(mp).mp = mp
             /\ \A i : /\ Load(mp, i).do = "load" /\ Load(mp, i).mp = mp /\ Load(mp, i).i = i
                      /\ Delete(mp, i).do = "delete" /\ Delete(mp, i).mp = mp /\ Delete(mp, i).i = i
  /\ \A f, k, q : Free(f, k, q).do = "free"
  /\ \A r : Round(r).do = "round" /\ \A i : Each(i, r).do = "each"
  /\ \A m : Mount(m).do = "mount" /\ Mount(m).m = m
  /\ Report.do = "report" /\ HDStart.do = "hdStart" /\ HDDone.do = "hdDone"
  /\ Panic.do = "panic" /\ Stop.do = "stop"
  BY DEF Clear, EjectIndex, UnmountIndex, Fill, InsertIndex, Detach, Attach, DetachROM, CopySource,
         CopyTarget, CopyFile, Unmount, Unlist, Load, Delete, Add, Grow, Free, Round, Each, Mount, Report, HDStart,
         HDDone, Panic, Stop

(* Steps without early returns are proper.                                 *)
LEMMA AllSimple ==
  ASSUME NEW l, NEW q \in Seq(Simple(l))
  PROVE  Proper(q, l)
  <1>1. \A i \in 1..Len(q) : q[i] \in Simple(l)  OBVIOUS
  <1>2. q \in Seq(Simple(l) \union Branches(l))
    BY SeqMonotonic
  <1> QED  BY <1>1, <1>2 DEF Proper

(* A step in front of proper ones.                                         *)
LEMMA Prepend ==
  ASSUME NEW l, NEW p \in Seq(Simple(l) \union Branches(l)), \A i \in 1..Len(p) : p[i].do \notin Loops,
         NEW q, Proper(q, l)
  PROVE  Proper(p \o q, l)
  <1>1. q \in Seq(Simple(l) \union Branches(l))
    BY DEF Proper
  <1>2. /\ p \o q \in Seq(Simple(l) \union Branches(l)) /\ Len(p \o q) = Len(p) + Len(q)
        /\ Len(p) \in Nat /\ Len(q) \in Nat
        /\ \A i \in 1..Len(p) : (p \o q)[i] = p[i]
        /\ \A i \in Len(p) + 1..Len(p) + Len(q) : (p \o q)[i] = q[i - Len(p)]
    BY <1>1, ConcatProperties, LenProperties
  <1>3. ASSUME NEW i \in 1..Len(p \o q), (p \o q)[i].do \in Loops, NEW j \in i + 1..Len(p \o q)
        PROVE  (p \o q)[j] \in Simple(l)
    <2>1. i \in Len(p) + 1..Len(p) + Len(q) /\ j \in Len(p) + 1..Len(p) + Len(q)
      BY <1>2, <1>3
    <2>2. /\ i - Len(p) \in 1..Len(q) /\ j - Len(p) \in i - Len(p) + 1..Len(q)
          /\ q[i - Len(p)].do \in Loops /\ (p \o q)[j] = q[j - Len(p)]
      BY <1>2, <1>3, <2>1
    <2> QED  BY <2>2 DEF Proper
  <1> QED  BY <1>2, <1>3 DEF Proper

(* What is behind the first of proper steps is proper.                     *)
LEMMA TakeFirst ==
  ASSUME NEW l, NEW q, Proper(q, l), q # <<>>
  PROVE  /\ Head(q) \in Simple(l) \union Branches(l) /\ Proper(Tail(q), l)
         /\ Head(q).do \in Loops => Tail(q) \in Seq(Simple(l))
  <1>1. q \in Seq(Simple(l) \union Branches(l))
    BY DEF Proper
  <1>2. /\ Tail(q) \in Seq(Simple(l) \union Branches(l)) /\ Len(Tail(q)) = Len(q) - 1
        /\ Len(q) \in Nat \ {0} /\ Head(q) = q[1]
        /\ \A i \in 1..Len(Tail(q)) : Tail(q)[i] = q[i + 1]
    BY <1>1, HeadTailProperties, LenProperties, EmptySeq
  <1>3. Head(q) \in Simple(l) \union Branches(l)
    BY <1>1, <1>2
  <1>4. Head(q).do \in Loops => Tail(q) \in Seq(Simple(l))
    <2> SUFFICES ASSUME Head(q).do \in Loops PROVE Tail(q) \in Seq(Simple(l))  OBVIOUS
    <2>1. \A j \in 2..Len(q) : q[j] \in Simple(l)
      BY <1>2 DEF Proper
    <2>2. \A i \in 1..Len(Tail(q)) : Tail(q)[i] \in Simple(l)
      BY <1>2, <2>1
    <2>3. Tail(q) \in [1..Len(Tail(q)) -> Simple(l) \union Branches(l)] /\ Len(Tail(q)) \in Nat
      BY <1>2, LenProperties
    <2>4. Tail(q) \in [1..Len(Tail(q)) -> Simple(l)]
      BY <2>2, <2>3, Zenon
    <2> QED  BY <2>3, <2>4, SeqDef, Zenon
  <1>5. ASSUME NEW i \in 1..Len(Tail(q)), Tail(q)[i].do \in Loops, NEW j \in i + 1..Len(Tail(q))
        PROVE  Tail(q)[j] \in Simple(l)
    <2>1. /\ i + 1 \in 1..Len(q) /\ q[i + 1].do \in Loops
          /\ j + 1 \in i + 1 + 1..Len(q) /\ Tail(q)[j] = q[j + 1]
      BY <1>2, <1>5
    <2> QED  BY <2>1 DEF Proper
  <1> QED  BY <1>2, <1>3, <1>4, <1>5 DEF Proper

(* A new mountpoint takes no old one away.                                 *)
LEMMA ProperGrows ==
  ASSUME NEW l \in Nat, NEW h \in Nat, l <= h
  PROVE  /\ MountpointsTo(l) \subseteq MountpointsTo(h)
         /\ Simple(l) \subseteq Simple(h) /\ Branches(l) \subseteq Branches(h)
         /\ Firsts(l) \subseteq Firsts(h)
         /\ \A q : Proper(q, l) => Proper(q, h)
         /\ Seq(Simple(l) \union Branches(l) \union Firsts(l))
              \subseteq Seq(Simple(h) \union Branches(h) \union Firsts(h))
  <1>1. MountpointsTo(l) \subseteq MountpointsTo(h)
    BY DEF MountpointsTo
  <1>2. Simple(l) \subseteq Simple(h)
    BY <1>1 DEF Simple
  <1>3. Seq(Simple(l)) \subseteq Seq(Simple(h))
    BY <1>2, SeqMonotonic
  <1>4. Branches(l) \subseteq Branches(h)
    BY <1>3 DEF Branches
  <1>5. Firsts(l) \subseteq Firsts(h)
    BY <1>1 DEF Firsts
  <1>6. Seq(Simple(l) \union Branches(l)) \subseteq Seq(Simple(h) \union Branches(h))
    BY <1>2, <1>4, SeqMonotonic
  <1>7. Seq(Simple(l) \union Branches(l) \union Firsts(l))
          \subseteq Seq(Simple(h) \union Branches(h) \union Firsts(h))
    BY <1>2, <1>4, <1>5, SeqMonotonic
  <1> QED  BY <1>1, <1>2, <1>4, <1>5, <1>6, <1>7 DEF Proper

(* What will start the emulator again.                                     *)
LEMMA RestoresAfter ==
  ASSUME NEW S, NEW q \in Seq(S), q # <<>>, Restores(q), Head(q).do # "hdDone"
  PROVE  /\ Restores(Tail(q)) /\ Head(q).do \notin Breaks
         /\ Head(q).do \in Branching => RestoresSoon(Head(q).orelse)
  <1>1. /\ Len(Tail(q)) = Len(q) - 1 /\ Len(q) \in Nat \ {0} /\ Head(q) = q[1]
        /\ \A i \in 1..Len(Tail(q)) : Tail(q)[i] = q[i + 1]
    BY HeadTailProperties, LenProperties, EmptySeq
  <1>2. PICK i \in 1..Len(q) :
          /\ q[i].do = "hdDone"
          /\ \A j \in 1..i - 1 : q[j].do \notin Breaks /\ (q[j].do \in Branching => RestoresSoon(q[j].orelse))
    BY DEF Restores
  <1>3. i # 1 /\ i - 1 \in 1..Len(Tail(q)) /\ 1 \in 1..i - 1 /\ Tail(q)[i - 1] = q[i]
    BY <1>1, <1>2
  <1>4. ASSUME NEW j \in 1..i - 1 - 1
        PROVE  j + 1 \in 1..i - 1 /\ Tail(q)[j] = q[j + 1]
    BY <1>1, <1>2, <1>4
  <1>5. Restores(Tail(q))
    BY <1>2, <1>3, <1>4 DEF Restores
  <1> QED  BY <1>1, <1>2, <1>3, <1>5

(* More steps in front, if none of them breaks off.                        *)
LEMMA RestoresBehind ==
  ASSUME NEW S, NEW p \in Seq(S), NEW q \in Seq(S), Restores(q),
         \A i \in 1..Len(p) : p[i].do \notin Breaks /\ (p[i].do \in Branching => RestoresSoon(p[i].orelse))
  PROVE  Restores(p \o q)
  <1>1. /\ Len(p \o q) = Len(p) + Len(q)
        /\ Len(p) \in Nat /\ Len(q) \in Nat
        /\ \A i \in 1..Len(p) : (p \o q)[i] = p[i]
        /\ \A i \in Len(p) + 1..Len(p) + Len(q) : (p \o q)[i] = q[i - Len(p)]
    BY ConcatProperties, LenProperties
  <1>2. PICK i \in 1..Len(q) :
          /\ q[i].do = "hdDone"
          /\ \A j \in 1..i - 1 : q[j].do \notin Breaks /\ (q[j].do \in Branching => RestoresSoon(q[j].orelse))
    BY DEF Restores
  <1>3. /\ i + Len(p) \in 1..Len(p \o q) /\ i + Len(p) \in Len(p) + 1..Len(p) + Len(q)
        /\ (p \o q)[i + Len(p)] = q[i]
    BY <1>1, <1>2
  <1>4. ASSUME NEW j \in 1..i + Len(p) - 1
        PROVE  (p \o q)[j].do \notin Breaks /\ ((p \o q)[j].do \in Branching => RestoresSoon((p \o q)[j].orelse))
    <2>1. CASE j \in 1..Len(p)
      BY <1>1, <2>1
    <2>2. CASE j \notin 1..Len(p)
      <3>1. j - Len(p) \in 1..i - 1 /\ (p \o q)[j] = q[j - Len(p)]
        BY <1>1, <1>2, <2>2
      <3> QED  BY <1>2, <3>1
    <2> QED  BY <2>1, <2>2
  <1> QED  BY <1>2, <1>3, <1>4 DEF Restores

(* Without branches, soon and whichever are the same.                      *)
LEMMA SimpleRestores ==
  ASSUME NEW l, NEW q \in Seq(Simple(l))
  PROVE  RestoresSoon(q) <=> Restores(q)
  <1>1. \A i \in 1..Len(q) : q[i] \in Simple(l) /\ q[i].do \notin Branching
    <2>1. \A s \in Simple(l) : s.do \notin Branching
      BY DEF Simple, Branching
    <2> QED  BY <2>1
  <1>2. ASSUME NEW i \in 1..Len(q), NEW j \in 1..i - 1 PROVE q[j].do \notin Branching
    BY <1>1, LenProperties
  <1> QED  BY <1>2 DEF Restores, RestoresSoon

-----------------------------------------------------------------------------
(* What a goroutine does next.                                             *)
LEMMA HandFacts ==
  ASSUME Types, TodosOK
  PROVE  /\ Known \in Nat /\ Known <= mounts /\ mounts \in Nat
         /\ ~Adding => Known = mounts
         /\ Adding => /\ mounts > 0 /\ Known = mounts - 1
                      /\ \E m \in Media : \/ todo["blockDevices"] = <<Add([medium |-> m, n |-> mounts])>>
                                       \/ todo["blockDevices"] = <<Grow([medium |-> m, n |-> mounts])>>
  <1>1. mounts \in Nat /\ "blockDevices" \in Threads
    BY DEF Types, Threads
  <1>2. ASSUME Adding
        PROVE  InHands(todo["blockDevices"])
    <2>1. TodoOK("blockDevices") /\ todo["blockDevices"] # <<>> /\ Now("blockDevices").do \in {"add", "grow"}
      BY <1>1, <1>2 DEF TodosOK, Adding
    <2>2. ~Proper(todo["blockDevices"], Known)
      BY <2>1, TakeFirst, StepKinds DEF Now
    <2>3. Now("blockDevices") \notin Firsts(Known)
      BY <2>1 DEF Firsts
    <2> QED  BY <2>1, <2>2, <2>3 DEF TodoOK
  <1>3. ASSUME Adding
        PROVE  /\ mounts > 0
               /\ \E m \in Media : \/ todo["blockDevices"] = <<Add([medium |-> m, n |-> mounts])>>
                                \/ todo["blockDevices"] = <<Grow([medium |-> m, n |-> mounts])>>
    <2>1. ASSUME NEW m, todo["blockDevices"] = <<Mount(m)>> PROVE FALSE
      BY <1>3, <2>1, StepNames DEF Adding, Now
    <2>2. ASSUME NEW m, todo["blockDevices"] = <<Unmount([medium |-> m, n |-> 0], FALSE), Mount(m)>> PROVE FALSE
      <3>1. Now("blockDevices").do = "unmount"
        BY <2>2 DEF Now, Unmount
      <3> QED  BY <1>3, <3>1 DEF Adding
    <2> QED  BY <1>2, <1>3, <2>1, <2>2 DEF InHands
  <1>4. CASE Adding
    <2>1. Known = mounts - 1
      BY <1>4 DEF Known
    <2>2. mounts > 0  BY <1>3, <1>4
    <2>3. Known \in Nat /\ Known <= mounts
      BY <1>1, <2>1, <2>2
    <2> QED  BY <1>1, <1>3, <1>4, <2>1, <2>3, Zenon
  <1>5. CASE ~Adding
    BY <1>1, <1>5 DEF Known
  <1> QED  BY <1>4, <1>5

(* The next step of a goroutine, by what it is.                            *)
LEMMA NowCases ==
  ASSUME Types, TodosOK, NEW t \in Threads, todo[t] # <<>>
  PROVE  \/ /\ Now(t) \in Simple(Known) \union Branches(Known) /\ Proper(todo[t], Known) /\ Proper(Later(t), Known)
            /\ Now(t).do \in Loops => Later(t) \in Seq(Simple(Known))
         \/ /\ todo[t] \in Seq(Simple(Known) \union Branches(Known) \union Firsts(Known))
            /\ Now(t) \in Firsts(Known) /\ Proper(Later(t), Known)
         \/ /\ t = "blockDevices"
            /\ \/ \E m \in Media : Now(t) = Mount(m) /\ Later(t) = <<>>
               \/ \E m \in Media : /\ Now(t) = Unmount([medium |-> m, n |-> 0], FALSE)
                                   /\ Later(t) = <<Mount(m)>>
               \/ \E m \in Media : /\ mounts > 0 /\ Later(t) = <<>>
                                   /\ \/ Now(t) = Add([medium |-> m, n |-> mounts])
                                      \/ Now(t) = Grow([medium |-> m, n |-> mounts])
  <1>1. TodoOK(t)
    BY DEF TodosOK
  <1>2. CASE Proper(todo[t], Known)
    BY <1>2, TakeFirst DEF Now, Later
  <1>3. CASE t = "blockDevices" /\ InHands(todo[t])
    <2>1. ASSUME NEW m, todo[t] = <<Mount(m)>> PROVE Now(t) = Mount(m) /\ Later(t) = <<>>
      BY <2>1 DEF Now, Later
    <2>2. ASSUME NEW m, todo[t] = <<Unmount([medium |-> m, n |-> 0], FALSE), Mount(m)>>
          PROVE  Now(t) = Unmount([medium |-> m, n |-> 0], FALSE) /\ Later(t) = <<Mount(m)>>
      BY <2>2 DEF Now, Later
    <2>3. ASSUME NEW s, todo[t] = <<s>>
          PROVE  Now(t) = s /\ Later(t) = <<>>
      BY <2>3 DEF Now, Later
    <2> QED  BY <1>3, <2>1, <2>2, <2>3 DEF InHands
  <1> QED  BY <1>1, <1>2, <1>3 DEF TodoOK

(* The next step, if it is an ordinary one.                                *)
LEMMA NowProper ==
  ASSUME Types, TodosOK, NEW t \in Threads, NEW k \in Steps \ {"mount", "add", "grow", "unlist", "load", "delete", "hdStart", "unmount"},
         Doing(t, k)
  PROVE  /\ Now(t) \in Simple(Known) \union Branches(Known) /\ Now(t).do = k /\ Proper(Later(t), Known)
         /\ k \in Loops => Later(t) \in Seq(Simple(Known))
         /\ Restores(todo[t]) /\ k # "hdDone" =>
              /\ Restores(Later(t)) /\ k \notin Breaks
              /\ k \in Branching => RestoresSoon(Now(t).orelse) /\ Restores(Now(t).orelse)
  <1>1. todo[t] # <<>> /\ Now(t).do = k
    BY DEF Doing, Now
  <1>2. /\ Now(t) \in Simple(Known) \union Branches(Known) /\ Proper(todo[t], Known) /\ Proper(Later(t), Known)
        /\ Now(t).do \in Loops => Later(t) \in Seq(Simple(Known))
    <2>1. Now(t) \notin Firsts(Known)
      BY <1>1 DEF Firsts
    <2>2. \A m : Now(t) # Mount(m) /\ Now(t) # Unmount([medium |-> m, n |-> 0], FALSE)
                /\ Now(t) # Add([medium |-> m, n |-> mounts])
                /\ Now(t) # Grow([medium |-> m, n |-> mounts])
      BY <1>1 DEF Mount, Unmount, Add, Grow
    <2> QED  BY <1>1, <2>1, <2>2, NowCases
  <1>3. ASSUME Restores(todo[t]), k # "hdDone"
        PROVE  /\ Restores(Later(t)) /\ k \notin Breaks
               /\ k \in Branching => RestoresSoon(Now(t).orelse) /\ Restores(Now(t).orelse)
    <2>1. todo[t] \in Seq(Simple(Known) \union Branches(Known))
      BY <1>2 DEF Proper
    <2>2. /\ Restores(Later(t)) /\ k \notin Breaks
          /\ k \in Branching => RestoresSoon(Now(t).orelse)
      BY <1>1, <1>3, <2>1, RestoresAfter DEF Now, Later
    <2>3. k \in Branching => Now(t).orelse \in Seq(Simple(Known))
      BY <1>1, <1>2, StepKinds
    <2> QED  BY <2>2, <2>3, SimpleRestores
  <1> QED  BY <1>1, <1>2, <1>3

(* One step in front of the others.                                        *)
LEMMA OneMore ==
  ASSUME NEW l, NEW q, Proper(q, l), NEW s \in Simple(l) \union Branches(l), s.do \notin Loops
  PROVE  /\ Proper(<<s>> \o q, l)
         /\ Restores(q) /\ s.do \notin Breaks /\ (s.do \in Branching => RestoresSoon(s.orelse))
              => Restores(<<s>> \o q)
  <1>1. <<s>> \in Seq(Simple(l) \union Branches(l)) /\ Len(<<s>>) = 1 /\ \A i \in 1..Len(<<s>>) : <<s>>[i] = s
    OBVIOUS
  <1>2. q \in Seq(Simple(l) \union Branches(l))
    BY DEF Proper
  <1>3. Proper(<<s>> \o q, l)
    BY <1>1, Prepend
  <1> QED  BY <1>1, <1>2, <1>3, RestoresBehind

(* Two steps in front of the others.                                       *)
LEMMA TwoMore ==
  ASSUME NEW l, NEW q, Proper(q, l),
         NEW s \in Simple(l) \union Branches(l), NEW r \in Simple(l) \union Branches(l),
         s.do \notin Loops, r.do \notin Loops
  PROVE  /\ Proper(<<s, r>> \o q, l)
         /\ Restores(q) /\ (\A x \in {s, r} : x.do \notin Breaks /\ (x.do \in Branching => RestoresSoon(x.orelse)))
              => Restores(<<s, r>> \o q)
  <1>1. /\ <<s, r>> \in Seq(Simple(l) \union Branches(l)) /\ Len(<<s, r>>) = 2
        /\ \A i \in 1..Len(<<s, r>>) : <<s, r>>[i] \in {s, r}
    OBVIOUS
  <1>2. q \in Seq(Simple(l) \union Branches(l))
    BY DEF Proper
  <1>3. Proper(<<s, r>> \o q, l)
    <2>1. \A i \in 1..Len(<<s, r>>) : <<s, r>>[i].do \notin Loops
      BY <1>1
    <2> QED  BY <1>1, <2>1, Prepend
  <1> QED  BY <1>1, <1>2, <1>3, RestoresBehind

(* Simple steps in front of the others.                                    *)
LEMMA ManyMore ==
  ASSUME NEW l, NEW p \in Seq(Simple(l)), NEW q \in Seq(Simple(l))
  PROVE  /\ Proper(p \o q, l) /\ p \o q \in Seq(Simple(l))
         /\ Restores(q) /\ (\A i \in 1..Len(p) : p[i].do \notin Breaks) => Restores(p \o q)
  <1>1. p \o q \in Seq(Simple(l))
    BY ConcatProperties
  <1>2. \A i \in 1..Len(p) : p[i] \in Simple(l) /\ p[i].do \notin Branching
    <2>1. \A s \in Simple(l) : s.do \notin Branching
      BY DEF Simple, Branching
    <2> QED  BY <2>1
  <1> QED  BY <1>1, <1>2, AllSimple, RestoresBehind

(* Short sequences joined.                                                 *)
LEMMA Pairs ==
  \A s, r : <<>> \o <<r>> = <<r>> /\ <<s>> \o <<r>> = <<s, r>>
  <1> SUFFICES ASSUME NEW s, NEW r PROVE <<>> \o <<r>> = <<r>> /\ <<s>> \o <<r>> = <<s, r>>
    OBVIOUS
  <1>1. <<r>> \in Seq({s, r}) /\ <<s>> \in Seq({s, r}) /\ <<s, r>> \in Seq({s, r})
    OBVIOUS
  <1>2. <<>> \o <<r>> = <<r>>
    BY <1>1, ConcatEmptySeq
  <1>3. /\ <<s>> \o <<r>> \in Seq({s, r}) /\ Len(<<s>> \o <<r>>) = 2
        /\ (<<s>> \o <<r>>)[1] = s /\ (<<s>> \o <<r>>)[2] = r
    BY <1>1, ConcatProperties
  <1>4. \A i \in 1..2 : (<<s>> \o <<r>>)[i] = <<s, r>>[i]
    BY <1>3
  <1>5. <<s>> \o <<r>> = <<s, r>>
    BY <1>1, <1>3, <1>4, SeqEqual
  <1> QED  BY <1>2, <1>5

(* The first of two sequences joined, and the others.                      *)
LEMMA HeadTailOfConcat ==
  ASSUME NEW S, NEW x \in S, NEW q \in Seq(S)
  PROVE  /\ <<x>> \o q \in Seq(S) /\ <<x>> \o q # <<>>
         /\ Head(<<x>> \o q) = x /\ Tail(<<x>> \o q) = q
  <1>1. <<x>> \in Seq(S) /\ Len(<<x>>) = 1 /\ <<x>>[1] = x /\ Len(q) \in Nat
    BY LenProperties
  <1> DEFINE r == <<x>> \o q
  <1>2. /\ r \in Seq(S) /\ Len(r) = 1 + Len(q)
        /\ \A i \in 1..1 + Len(q) : r[i] = IF i <= 1 THEN <<x>>[i] ELSE q[i - 1]
    BY <1>1, ConcatProperties
  <1> HIDE DEF r
  <1>3. r # <<>>
    BY <1>1, <1>2, EmptySeq
  <1>4. /\ Head(r) = r[1] /\ Tail(r) \in Seq(S) /\ Len(Tail(r)) = Len(r) - 1
        /\ \A i \in 1..Len(Tail(r)) : Tail(r)[i] = r[i + 1]
    BY <1>2, <1>3, HeadTailProperties
  <1>5. \A i \in 1..Len(Tail(r)) : Tail(r)[i] = q[i]
    BY <1>1, <1>2, <1>4
  <1>6. Tail(r) = q
    BY <1>1, <1>2, <1>4, <1>5, SeqEqual
  <1> QED  BY <1>1, <1>2, <1>3, <1>4, <1>6 DEF r

(* The elements of two sequences joined.                                   *)
LEMMA Joined ==
  ASSUME NEW l, NEW p \in Seq(Simple(l)), NEW q \in Seq(Simple(l)),
         \A i \in 1..Len(p) : p[i].do \notin Breaks, \A i \in 1..Len(q) : q[i].do \notin Breaks
  PROVE  p \o q \in Seq(Simple(l)) /\ \A i \in 1..Len(p \o q) : (p \o q)[i].do \notin Breaks
  <1>1. Len(p) \in Nat /\ Len(q) \in Nat
    BY LenProperties
  <1>2. /\ p \o q \in Seq(Simple(l)) /\ Len(p \o q) = Len(p) + Len(q)
        /\ \A i \in 1..Len(p) + Len(q) : (p \o q)[i] = IF i <= Len(p) THEN p[i] ELSE q[i - Len(p)]
    BY <1>1, ConcatProperties
  <1>3. \A i \in 1..Len(p) + Len(q) : i \in 1..Len(p) \/ (~(i <= Len(p)) /\ i - Len(p) \in 1..Len(q))
    BY <1>1
  <1> QED  BY <1>1, <1>2, <1>3

(* The array of the list.                                                  *)
LEMMA ListTypes ==
  ASSUME Types
  PROVE  array \in Seq(MountpointsTo(Known) \union {None}) /\ size \in 0..Len(array)
  <1>1. list.at \in 1..Len(heap) /\ list.len \in Nat /\ list.len <= Len(heap[list.at])
    BY DEF Types, Within, Slices
  <1>2. heap[list.at] \in Seq(MountpointsTo(Known) \union {None})
    BY <1>1 DEF Types
  <1>3. Len(heap[list.at]) \in Nat
    BY <1>2, LenProperties
  <1> QED  BY <1>1, <1>2, <1>3 DEF array, size

(* What is found in the list is a mountpoint.                              *)
LEMMA ListFacts ==
  ASSUME Types, TodosOK, ~ended
  PROVE  /\ array \in Seq([medium : Media, n : Nat] \union {None}) /\ size \in 0..Len(array)
         /\ Len(array) \in Nat
         /\ \A i \in 1..size : array[i] \in MountpointsTo(Known) /\ array[i].medium \in Media
         /\ None \notin MountpointsTo(Known)
         /\ \A m : GetMountpointByDevicePathname(m) # 0 =>
                   array[GetMountpointByDevicePathname(m)] \in MountpointsTo(Known)
         /\ \A d : GetMountpointByIndex(d) # 0 => array[GetMountpointByIndex(d)] \in MountpointsTo(Known)
  <1>1. Known \in Nat
    BY HandFacts
  <1>2. MountpointsTo(Known) \subseteq [medium : Media, n : Nat]
    BY <1>1 DEF MountpointsTo
  <1>3. array \in Seq(MountpointsTo(Known) \union {None}) /\ size \in 0..Len(array)
    BY ListTypes
  <1>4. array \in Seq([medium : Media, n : Nat] \union {None})
    BY <1>2, <1>3, SeqMonotonic
  <1>5. \A i \in 1..size : array[i] \in MountpointsTo(Known)
    BY <1>3, LenProperties DEF Types
  <1>6. \A i \in 1..size : array[i].medium \in Media
    BY <1>2, <1>5
  <1>7. None \notin MountpointsTo(Known) /\ Len(array) \in Nat
    BY <1>2, <1>3, ConstantsAssumption, LenProperties
  <1>8. /\ \A m : GetMountpointByDevicePathname(m) \in 0..size
        /\ \A d : GetMountpointByIndex(d) \in 0..size
    BY <1>3, <1>4, Found
  <1> QED  BY <1>3, <1>4, <1>5, <1>6, <1>7, <1>8

(* A step that leaves a goroutine with proper steps, and with what it owes *)
(* the emulator.                                                           *)
Moves(t) ==
    \E q : /\ todo' = [todo EXCEPT ![t] = q]
           /\ Proper(q, Known) /\ (Restores(todo[t]) => Restores(q))

(* Both ways to go on from a step.                                         *)
LEMMA GoesOn ==
  ASSUME Types, TodosOK, NEW t \in Threads,
         NEW k \in Steps \ {"mount", "add", "grow", "unlist", "load", "delete", "hdStart", "unmount", "hdDone"},
         Doing(t, k)
  PROVE  /\ Then(t, Later(t)) => Moves(t)
         /\ k \in Branching /\ Then(t, Now(t).orelse) => Moves(t)
  <1>1. Proper(Later(t), Known) /\ (Restores(todo[t]) => Restores(Later(t)))
    BY NowProper
  <1>2. k \in Branching => Now(t).orelse \in Seq(Simple(Known))
    BY NowProper, StepKinds
  <1>3. k \in Branching => Proper(Now(t).orelse, Known) /\ (Restores(todo[t]) => Restores(Now(t).orelse))
    BY <1>2, NowProper, AllSimple
  <1> QED  BY <1>1, <1>3 DEF Moves, Then

(* detach, clear, attach and fill.                                         *)
LEMMA SlotSteps ==
  ASSUME Types, TodosOK, NEW t \in Threads
  PROVE  /\ LookForDetach(t) => Moves(t)
         /\ DetachSlot(t) => Moves(t)
         /\ LookForAttach(t) => Moves(t)
         /\ AttachSlot(t) => Moves(t)
  <1>1. ASSUME LookForDetach(t) PROVE Moves(t)
    <2>1. Doing(t, "detach")
      BY <1>1 DEF LookForDetach
    <2>2. /\ Proper(Later(t), Known) /\ (Restores(todo[t]) => Restores(Later(t)))
          /\ Now(t).d \in Drives
      BY <2>1, NowProper, StepKinds DEF Steps
    <2>3. Clear(Now(t).d) \in Simple(Known) /\ Clear(Now(t).d).do = "clear"
      BY <2>2, StepsMade, StepNames
    <2>4. /\ Proper(<<Clear(Now(t).d)>> \o Later(t), Known)
          /\ Restores(todo[t]) => Restores(<<Clear(Now(t).d)>> \o Later(t))
      BY <2>2, <2>3, OneMore DEF Loops, Breaks, Branching
    <2>5. Then(t, <<Clear(Now(t).d)>> \o Later(t)) \/ Then(t, Now(t).orelse)
      BY <1>1 DEF LookForDetach, Goes
    <2> QED  BY <2>1, <2>4, <2>5, GoesOn DEF Then, Moves, Steps, Branching
  <1>2. ASSUME DetachSlot(t) PROVE Moves(t)
    BY <1>2, GoesOn DEF DetachSlot, Steps
  <1>3. ASSUME LookForAttach(t) PROVE Moves(t)
    <2>1. Doing(t, "attach")
      BY <1>3 DEF LookForAttach
    <2>2. /\ Proper(Later(t), Known) /\ (Restores(todo[t]) => Restores(Later(t)))
          /\ Now(t).d \in Drives /\ Now(t).f \in Slottable
      BY <2>1, NowProper, StepKinds DEF Steps
    <2>3. Fill(Now(t).d, Now(t).f) \in Simple(Known) /\ Fill(Now(t).d, Now(t).f).do = "fill"
      BY <2>2, StepsMade, StepNames
    <2>4. /\ Proper(<<Fill(Now(t).d, Now(t).f)>> \o Later(t), Known)
          /\ Restores(todo[t]) => Restores(<<Fill(Now(t).d, Now(t).f)>> \o Later(t))
      BY <2>2, <2>3, OneMore DEF Loops, Breaks, Branching
    <2>5. Then(t, <<Fill(Now(t).d, Now(t).f)>> \o Later(t)) \/ Then(t, Now(t).orelse)
      BY <1>3 DEF LookForAttach, Goes
    <2> QED  BY <2>1, <2>4, <2>5, GoesOn DEF Then, Moves, Steps, Branching
  <1>4. ASSUME AttachSlot(t) PROVE Moves(t)
    BY <1>4, GoesOn DEF AttachSlot, Steps
  <1> QED  BY <1>1, <1>2, <1>3, <1>4

(* One turn of the loops over drives, and the search for a file in other   *)
(* drives.                                                                 *)
LEMMA LoopSteps ==
  ASSUME Types, TodosOK, NEW t \in Threads
  PROVE  /\ DetachMountpointROM(t) => Moves(t)
         /\ FreeFile(t) => Moves(t)
         /\ EjectNext(t) => Moves(t)
         /\ InsertNext(t) => Moves(t)
         /\ UnmountNext(t) => Moves(t)
  <1>0. \A d \in Drives : slot[d] \in Slottable
    BY DEF Types
  <1>1. ASSUME DetachMountpointROM(t) PROVE Moves(t)
    <2>1. Doing(t, "rom")
      BY <1>1 DEF DetachMountpointROM
    <2>2. /\ Proper(Later(t), Known) /\ Later(t) \in Seq(Simple(Known))
          /\ Restores(todo[t]) => Restores(Later(t)) /\ RestoresSoon(Later(t))
          /\ Now(t).d \in Drives
      BY <2>1, NowProper, StepKinds, SimpleRestores DEF Steps, Loops
    <2> DEFINE s == Detach(Now(t).d, slot[Now(t).d], Later(t))
    <2>3. s \in Branches(Known) /\ s.do = "detach" /\ s.orelse = Later(t)
      BY <1>0, <2>2, StepsMade DEF Detach
    <2>4. Proper(<<s>> \o Later(t), Known) /\ (Restores(todo[t]) => Restores(<<s>> \o Later(t)))
      <3> HIDE DEF s
      <3> QED  BY <2>2, <2>3, OneMore DEF Loops, Breaks
    <2>5. Then(t, <<s>> \o Later(t)) \/ Then(t, Later(t))
      BY <1>1 DEF DetachMountpointROM, Goes
    <2> QED  BY <2>1, <2>4, <2>5, GoesOn DEF Then, Moves, Steps
  <1>2. ASSUME FreeFile(t) PROVE Moves(t)
    <2>1. Doing(t, "free")
      BY <1>2 DEF FreeFile
    <2>2. /\ Proper(Later(t), Known) /\ (Restores(todo[t]) => Restores(Later(t)) /\ RestoresSoon(Now(t).orelse))
          /\ Now(t).orelse \in Seq(Simple(Known))
          /\ Now(t).f \in Slottable /\ Now(t).k \in {Kind[d] : d \in Drives}
      BY <2>1, NowProper, StepKinds DEF Steps, Branching
    <2> DEFINE ds == IF Now(t).k = "HD" THEN {DrivesOf("HD")[1]} ELSE ToSet(DrivesOf(Now(t).k))
               holding == {d \in ds : slot[d] = Now(t).f}
               first == CHOOSE d \in holding : \A e \in holding : d <= e
               s == Detach(first, Now(t).f, Now(t).orelse)
    <2>3. ds \subseteq Drives
      <3>1. PICK d \in Drives : Now(t).k = Kind[d]
        BY <2>2
      <3>2. /\ ToSet(DrivesOf(Now(t).k)) \subseteq Drives /\ Len(DrivesOf(Now(t).k)) > 0
            /\ DrivesOf(Now(t).k) \in Seq(Drives)
        BY <3>1, DrivesFacts
      <3>3. DrivesOf(Now(t).k)[1] \in Drives
        BY <3>2
      <3> QED  BY <3>2, <3>3
    <2>4. holding # {} => first \in Drives
      <3>1. holding \in SUBSET Nat
        BY <2>3 DEF Drives
      <3>2. first = Min(holding)
        BY DEF Min
      <3>3. holding # {} => Min(holding) \in holding
        <4> HIDE DEF holding
        <4> QED  BY <3>1, LeastNumber
      <3> QED  BY <2>3, <3>2, <3>3
    <2>5. holding # {} => s \in Branches(Known) /\ s.do = "detach" /\ s.orelse = Now(t).orelse
      <3> HIDE DEF first, holding
      <3> QED  BY <2>2, <2>4, StepsMade DEF Detach
    <2>6. holding # {} => /\ Proper(<<s>> \o Later(t), Known)
                          /\ Restores(todo[t]) => Restores(<<s>> \o Later(t))
      <3> HIDE DEF s, holding
      <3> QED  BY <2>2, <2>5, OneMore DEF Loops, Breaks
    <2>7. \/ Then(t, Later(t))
          \/ holding # {} /\ Then(t, <<s>> \o Later(t))
      BY <1>2 DEF FreeFile, Goes
    <2> HIDE DEF s, holding
    <2> QED  BY <2>1, <2>6, <2>7, GoesOn DEF Then, Moves, Steps
  <1>3. ASSUME EjectNext(t) PROVE Moves(t)
    <2>1. Doing(t, "eject")
      BY <1>3 DEF EjectNext
    <2>2. /\ Proper(Later(t), Known) /\ ~Restores(todo[t]) /\ Now(t).d \in Drives
      BY <2>1, NowProper, StepKinds DEF Steps, Breaks
    <2> DEFINE s == Detach(Now(t).d, slot[Now(t).d], <<>>)
    <2>3. s \in Branches(Known) /\ s.do = "detach"
      BY <1>0, <2>2, StepsMade, EmptySeq DEF Detach
    <2>4. Proper(<<s>> \o Later(t), Known)
      <3> HIDE DEF s
      <3> QED  BY <2>2, <2>3, OneMore DEF Loops
    <2>5. Then(t, <<>> \o Later(t)) \/ Then(t, <<s>> \o Later(t))
      BY <1>3 DEF EjectNext, Goes
    <2>6. <<>> \o Later(t) = Later(t)
      BY <2>2, ConcatEmptySeq DEF Proper
    <2> QED  BY <2>2, <2>4, <2>5, <2>6 DEF Then, Moves
  <1>4. ASSUME InsertNext(t) PROVE Moves(t)
    <2>1. Doing(t, "insert")
      BY <1>4 DEF InsertNext
    <2>2. /\ Proper(Later(t), Known) /\ ~Restores(todo[t]) /\ Now(t).d \in Drives /\ Now(t).f \in Slottable
      BY <2>1, NowProper, StepKinds DEF Steps, Breaks
    <2> DEFINE s == Detach(Now(t).d, slot[Now(t).d], <<>>)
               r == Attach(Now(t).d, Now(t).f, <<>>)
    <2>3. /\ s \in Branches(Known) /\ s.do = "detach"
          /\ r \in Branches(Known) /\ r.do = "attach"
      BY <1>0, <2>2, StepsMade, EmptySeq DEF Detach, Attach
    <2>4. Proper(<<s, r>> \o Later(t), Known) /\ Proper(<<r>> \o Later(t), Known)
      <3> HIDE DEF s, r
      <3> QED  BY <2>2, <2>3, OneMore, TwoMore DEF Loops
    <2>5. \/ Then(t, <<>> \o Later(t))
          \/ Then(t, (<<>> \o <<r>>) \o Later(t))
          \/ Then(t, (<<s>> \o <<r>>) \o Later(t))
      BY <1>4 DEF InsertNext, Goes, MakeRoom
    <2>6. <<>> \o Later(t) = Later(t) /\ <<>> \o <<r>> = <<r>> /\ <<s>> \o <<r>> = <<s, r>>
      <3>1. <<>> \o Later(t) = Later(t)
        BY <2>2, ConcatEmptySeq DEF Proper
      <3> HIDE DEF s, r
      <3> QED  BY <3>1, Pairs
    <2> HIDE DEF s, r
    <2> QED  BY <2>2, <2>4, <2>5, <2>6 DEF Then, Moves
  <1>5. ASSUME UnmountNext(t) PROVE Moves(t)
    <2>1. Doing(t, "index")
      BY <1>5 DEF UnmountNext
    <2>2. /\ Proper(Later(t), Known) /\ Later(t) \in Seq(Simple(Known))
          /\ (Restores(todo[t]) => Restores(Later(t))) /\ Now(t).d \in Drives
      BY <2>1, NowProper, StepKinds DEF Steps, Loops
    <2> DEFINE mp == array[GetMountpointByIndex(Now(t).d)]
               ds == DrivesOf(Kind[Now(t).d])
               roms == [j \in 1..Len(ds) |-> DetachROM(ds[j], mp)]
    <2>3. CASE GetMountpointByIndex(Now(t).d) = 0
      <3>1. Then(t, <<>> \o Later(t))
        BY <1>5, <2>3 DEF UnmountNext, Goes
      <3>2. <<>> \o Later(t) = Later(t)
        BY <2>2, ConcatEmptySeq DEF Proper
      <3> QED  BY <2>1, <3>1, <3>2, GoesOn DEF Steps
    <2>4. CASE GetMountpointByIndex(Now(t).d) # 0
      <3>1. mp \in MountpointsTo(Known)
        BY <2>1, <2>4, ListFacts DEF Doing
      <3>2. ds \in Seq(Drives)
        BY <2>2, DrivesFacts
      <3> HIDE DEF mp, ds
      <3>3. roms \in Seq(Simple(Known)) /\ \A i \in 1..Len(roms) : roms[i].do = "rom"
        <4>1. Len(ds) \in Nat /\ \A j \in 1..Len(ds) : ds[j] \in Drives
          BY <3>2, LenProperties
        <4>2. \A j \in 1..Len(ds) : DetachROM(ds[j], mp) \in Simple(Known) /\ DetachROM(ds[j], mp).do = "rom"
          BY <3>1, <4>1, StepsMade DEF DetachROM
        <4> QED  BY <4>1, <4>2
      <3>4. <<Unmount(mp, TRUE)>> \in Seq(Simple(Known)) /\ Unmount(mp, TRUE).do = "unmount"
        <4>1. Unmount(mp, TRUE) \in Simple(Known)
          BY <3>1, StepsMade
        <4> QED  BY <4>1 DEF Unmount
      <3>5. Then(t, (roms \o <<Unmount(mp, TRUE)>>) \o Later(t))
        BY <1>5, <2>4 DEF UnmountNext, Goes, mp, ds
      <3> DEFINE p == roms \o <<Unmount(mp, TRUE)>>
      <3>6. p \in Seq(Simple(Known)) /\ \A i \in 1..Len(p) : p[i].do \notin Breaks
        <4> HIDE DEF roms
        <4>1. \A i \in 1..Len(roms) : roms[i].do \notin Breaks
          BY <3>3 DEF Breaks
        <4> DEFINE s == Unmount(mp, TRUE)
        <4>2. s \in Simple(Known) /\ s.do \notin Breaks
          BY <3>1, <3>4, StepsMade DEF Breaks
        <4>3. p = roms \o <<s>>
          OBVIOUS
        <4> HIDE DEF s, p
        <4>4. <<s>> \in Seq(Simple(Known)) /\ \A i \in 1..Len(<<s>>) : <<s>>[i].do \notin Breaks
          BY <4>2
        <4> QED  BY <3>3, <4>1, <4>3, <4>4, Joined
      <3> HIDE DEF p
      <3>7. Proper(p \o Later(t), Known) /\ (Restores(todo[t]) => Restores(p \o Later(t)))
        BY <2>2, <3>6, ManyMore
      <3> QED  BY <3>5, <3>7 DEF Then, Moves, p
    <2> QED  BY <2>3, <2>4
  <1> QED  BY <1>1, <1>2, <1>3, <1>4, <1>5

(* The disk copy.                                                          *)
LEMMA CopySteps ==
  ASSUME Types, TodosOK, NEW t \in Threads
  PROVE  /\ TakeSource(t) => Moves(t)
         /\ TakeTarget(t) => Moves(t)
         /\ Copy(t) => Moves(t)
  <1>0. \A d \in Drives : slot[d] \in Slottable
    BY DEF Types
  <1>1. ASSUME TakeSource(t) PROVE Moves(t)
    <2>1. Doing(t, "source")
      BY <1>1 DEF TakeSource
    <2>2. /\ Proper(Later(t), Known) /\ (Restores(todo[t]) => Restores(Later(t)) /\ RestoresSoon(Now(t).orelse))
          /\ Now(t).orelse \in Seq(Simple(Known)) /\ Now(t).s \in Drives /\ Now(t).t \in Drives \union {Beyond}
      BY <2>1, NowProper, StepKinds DEF Steps, Branching
    <2> DEFINE s == Detach(Now(t).s, slot[Now(t).s], Now(t).orelse)
               r == CopyTarget(Now(t).s, slot[Now(t).s], Now(t).t, Now(t).orelse)
    <2>3. /\ s \in Branches(Known) /\ s.do = "detach" /\ s.orelse = Now(t).orelse
          /\ r \in Branches(Known) /\ r.do = "target" /\ r.orelse = Now(t).orelse
      <3>1. s \in Branches(Known) /\ r \in Branches(Known)
        BY <1>0, <2>2, StepsMade
      <3>2. s.do = "detach" /\ s.orelse = Now(t).orelse
        BY DEF Detach
      <3>3. r.do = "target" /\ r.orelse = Now(t).orelse
        BY DEF CopyTarget
      <3> QED  BY <3>1, <3>2, <3>3
    <2>4. /\ Proper(<<s, r>> \o Later(t), Known)
          /\ Restores(todo[t]) => Restores(<<s, r>> \o Later(t))
      <3> HIDE DEF s, r
      <3> QED  BY <2>2, <2>3, TwoMore DEF Loops, Breaks
    <2>5. Then(t, <<s, r>> \o Later(t)) \/ Then(t, Now(t).orelse)
      BY <1>1 DEF TakeSource, Goes
    <2> HIDE DEF s, r
    <2> QED  BY <2>1, <2>4, <2>5, GoesOn DEF Then, Moves, Steps, Branching
  <1>2. ASSUME TakeTarget(t) PROVE Moves(t)
    <2>1. Doing(t, "target")
      BY <1>2 DEF TakeTarget
    <2>2. /\ Proper(Later(t), Known) /\ (Restores(todo[t]) => Restores(Later(t)) /\ RestoresSoon(Now(t).orelse))
          /\ Now(t).orelse \in Seq(Simple(Known)) /\ Now(t).s \in Drives /\ Now(t).t \in Drives \union {Beyond}
          /\ Now(t).f \in Slottable
      BY <2>1, NowProper, StepKinds DEF Steps, Branching
    <2> DEFINE s == Detach(Now(t).t, slot[Now(t).t], Now(t).orelse)
               r == CopyFile(Now(t).s, Now(t).f, Now(t).t, slot[Now(t).t], Now(t).orelse)
    <2>3. /\ Now(t).t # Beyond => s \in Branches(Known) /\ r \in Branches(Known)
          /\ s.do = "detach" /\ s.orelse = Now(t).orelse
          /\ r.do = "copy" /\ r.orelse = Now(t).orelse
      <3>1. Now(t).t # Beyond => s \in Branches(Known) /\ r \in Branches(Known)
        BY <1>0, <2>2, StepsMade
      <3>2. s.do = "detach" /\ s.orelse = Now(t).orelse
        BY DEF Detach
      <3>3. r.do = "copy" /\ r.orelse = Now(t).orelse
        BY DEF CopyFile
      <3> QED  BY <3>1, <3>2, <3>3
    <2>4. Now(t).t # Beyond => /\ Proper(<<s, r>> \o Later(t), Known)
                               /\ Restores(todo[t]) => Restores(<<s, r>> \o Later(t))
      <3> HIDE DEF s, r
      <3> QED  BY <2>2, <2>3, TwoMore DEF Loops, Breaks
    <2>5. /\ Proper(<<Panic>> \o Later(t), Known)
          /\ Restores(todo[t]) => Restores(<<Panic>> \o Later(t))
      <3>1. Panic \in Simple(Known) /\ Panic.do = "panic"
        BY StepsMade DEF Panic
      <3> QED  BY <2>2, <3>1, OneMore DEF Loops, Breaks, Branching
    <2>6. \/ Now(t).t # Beyond /\ Then(t, <<s, r>> \o Later(t))
          \/ Then(t, <<Panic>> \o Later(t))
          \/ Then(t, Now(t).orelse)
      BY <1>2 DEF TakeTarget, Goes
    <2> HIDE DEF s, r
    <2> QED  BY <2>1, <2>4, <2>5, <2>6, GoesOn DEF Then, Moves, Steps, Branching
  <1>3. ASSUME Copy(t) PROVE Moves(t)
    <2>1. Doing(t, "copy")
      BY <1>3 DEF Copy
    <2>2. /\ Proper(Later(t), Known) /\ (Restores(todo[t]) => Restores(Later(t)) /\ RestoresSoon(Now(t).orelse))
          /\ Now(t).orelse \in Seq(Simple(Known)) /\ Now(t).s \in Drives /\ Now(t).t \in Drives
          /\ Now(t).f \in Slottable /\ Now(t).g \in Slottable
      BY <2>1, NowProper, StepKinds DEF Steps, Branching
    <2> DEFINE s == Attach(Now(t).s, Now(t).f, Now(t).orelse)
               r == Attach(Now(t).t, Now(t).g, Now(t).orelse)
    <2>3. /\ s \in Branches(Known) /\ s.do = "attach" /\ s.orelse = Now(t).orelse
          /\ r \in Branches(Known) /\ r.do = "attach" /\ r.orelse = Now(t).orelse
      <3>1. s \in Branches(Known) /\ r \in Branches(Known)
        BY <2>2, StepsMade
      <3>2. s.do = "attach" /\ s.orelse = Now(t).orelse
        BY DEF Attach
      <3>3. r.do = "attach" /\ r.orelse = Now(t).orelse
        BY DEF Attach
      <3> QED  BY <3>1, <3>2, <3>3
    <2>4. /\ Proper(<<s, r>> \o Later(t), Known)
          /\ Restores(todo[t]) => Restores(<<s, r>> \o Later(t))
      <3> HIDE DEF s, r
      <3> QED  BY <2>2, <2>3, TwoMore DEF Loops, Breaks
    <2>5. Then(t, <<s, r>> \o Later(t)) \/ Then(t, Now(t).orelse)
      BY <1>3 DEF Copy, Goes
    <2> HIDE DEF s, r
    <2> QED  BY <2>1, <2>4, <2>5, GoesOn DEF Then, Moves, Steps, Branching
  <1> QED  BY <1>1, <1>2, <1>3

(* unmountAll puts the steps for one element in front of the rest of the   *)
(* loop.                                                                   *)
LEMMA UnmountAllSteps ==
  ASSUME Types, TodosOK, NEW t \in Threads
  PROVE  /\ BeginRound(t) => Moves(t)
         /\ UnmountEach(t) => Moves(t)
         /\ ReportUnmounted(t) => Moves(t)
         /\ End(t) => Moves(t)
  <1>1. ASSUME BeginRound(t) PROVE Moves(t)
    <2>1. Doing(t, "round")
      BY <1>1 DEF BeginRound
    <2>2. /\ Proper(Later(t), Known) /\ Later(t) \in Seq(Simple(Known))
          /\ (Restores(todo[t]) => Restores(Later(t))) /\ Now(t).r \in Nat
      BY <2>1, NowProper, StepKinds DEF Steps, Loops
    <2> DEFINE s == Each(1, Now(t).r)
    <2>3. <<s>> \in Seq(Simple(Known)) /\ \A i \in 1..Len(<<s>>) : <<s>>[i].do \notin Breaks
      <3>1. s \in Simple(Known) /\ s.do \notin Breaks
        BY <2>2, StepsMade DEF Each, Breaks
      <3> HIDE DEF s
      <3> QED  BY <3>1
    <2>4. Then(t, <<s>> \o Later(t))
      BY <1>1 DEF BeginRound
    <2> HIDE DEF s
    <2> QED  BY <2>2, <2>3, <2>4, ManyMore DEF Then, Moves
  <1>2. ASSUME UnmountEach(t) PROVE Moves(t)
    <2>1. Doing(t, "each")
      BY <1>2 DEF UnmountEach
    <2>2. /\ Proper(Later(t), Known) /\ Later(t) \in Seq(Simple(Known))
          /\ (Restores(todo[t]) => Restores(Later(t))) /\ Now(t).i \in Nat \ {0} /\ Now(t).r \in Nat
      BY <2>1, NowProper, StepKinds DEF Steps, Loops
    <2> DEFINE mp == heap[ranged[t].at][Now(t).i]
               roms == [j \in 1..AllDrives |-> DetachROM(DriveSeq[j], mp)]
               two == <<Unmount(mp, TRUE), Each(Now(t).i + 1, Now(t).r)>>
    <2>3. CASE Now(t).i <= ranged[t].len /\ mp = None
      <3>1. Then(t, <<Panic>> \o Later(t))
        BY <1>2, <2>3 DEF UnmountEach, Goes
      <3>2. Panic \in Simple(Known) /\ Panic.do = "panic"
        BY StepsMade DEF Panic
      <3> QED  BY <2>2, <3>1, <3>2, OneMore DEF Then, Moves, Loops, Breaks, Branching
    <2>4. CASE Now(t).i <= ranged[t].len /\ mp # None
      <3>1. mp \in MountpointsTo(Known)
        <4>1. /\ ranged[t].at \in 1..Len(heap)
              /\ ranged[t].len \in Nat /\ ranged[t].len <= Len(heap[ranged[t].at])
          BY DEF Types, Within, Slices
        <4>2. heap[ranged[t].at] \in Seq(MountpointsTo(Known) \union {None})
          BY <4>1 DEF Types
        <4>3. Now(t).i \in 1..Len(heap[ranged[t].at])
          BY <2>2, <2>4, <4>1, <4>2, LenProperties
        <4>4. mp \in MountpointsTo(Known) \union {None}
          BY <4>2, <4>3
        <4> QED  BY <2>4, <4>4
      <3>2. Then(t, (roms \o two) \o Later(t))
        BY <1>2, <2>4 DEF UnmountEach, Goes
      <3> HIDE DEF mp
      <3>3. roms \in Seq(Simple(Known)) /\ \A i \in 1..Len(roms) : roms[i].do \notin Breaks
        <4>1. \A j \in 1..AllDrives : DriveSeq[j] \in Drives
          BY DrivesFacts
        <4>2. \A j \in 1..AllDrives : /\ DetachROM(DriveSeq[j], mp) \in Simple(Known)
                                      /\ DetachROM(DriveSeq[j], mp).do \notin Breaks
          BY <3>1, <4>1, StepsMade DEF DetachROM, Breaks
        <4>3. AllDrives \in Nat
          BY DrivesFacts
        <4> QED  BY <4>2, <4>3
      <3>4. two \in Seq(Simple(Known)) /\ \A i \in 1..Len(two) : two[i].do \notin Breaks
        <4> DEFINE s == Unmount(mp, TRUE)
                   r == Each(Now(t).i + 1, Now(t).r)
        <4>1. s \in Simple(Known) /\ s.do \notin Breaks
          BY <3>1, StepsMade DEF Unmount, Breaks
        <4>2. r \in Simple(Known) /\ r.do \notin Breaks
          <5>1. Now(t).i + 1 \in Nat \ {0}
            BY <2>2
          <5> QED  BY <2>2, <5>1, StepsMade DEF Each, Breaks
        <4>3. two = <<s, r>>
          OBVIOUS
        <4> HIDE DEF s, r, two
        <4> QED  BY <4>1, <4>2, <4>3
      <3> HIDE DEF roms, two
      <3> DEFINE p == roms \o two
      <3>5. p \in Seq(Simple(Known)) /\ \A i \in 1..Len(p) : p[i].do \notin Breaks
        BY <3>3, <3>4, Joined
      <3> HIDE DEF p
      <3>6. Proper(p \o Later(t), Known) /\ (Restores(todo[t]) => Restores(p \o Later(t)))
        BY <2>2, <3>5, ManyMore
      <3> QED  BY <3>2, <3>6 DEF Then, Moves, p
    <2>5. CASE ~(Now(t).i <= ranged[t].len)
      <3> DEFINE s == Round(Now(t).r + 1)
      <3>1. Then(t, <<>> \o Later(t)) \/ Then(t, <<s>> \o Later(t))
        BY <1>2, <2>5 DEF UnmountEach
      <3>2. <<>> \o Later(t) = Later(t)
        BY <2>2, ConcatEmptySeq DEF Proper
      <3>3. <<s>> \in Seq(Simple(Known)) /\ \A i \in 1..Len(<<s>>) : <<s>>[i].do \notin Breaks
        <4>1. Now(t).r + 1 \in Nat
          BY <2>2
        <4>2. s \in Simple(Known) /\ s.do \notin Breaks
          BY <4>1, StepsMade DEF Round, Breaks
        <4> HIDE DEF s
        <4> QED  BY <4>2
      <3> HIDE DEF s
      <3>4. Proper(<<s>> \o Later(t), Known) /\ (Restores(todo[t]) => Restores(<<s>> \o Later(t)))
        BY <2>2, <3>3, ManyMore
      <3> QED  BY <2>2, <3>1, <3>2, <3>4 DEF Then, Moves
    <2> QED  BY <2>3, <2>4, <2>5
  <1>3. ASSUME ReportUnmounted(t) PROVE Moves(t)
    BY <1>3, GoesOn DEF ReportUnmounted, Goes, Steps
  <1>4. ASSUME End(t) PROVE Moves(t)
    BY <1>4, GoesOn DEF End, Steps
  <1> QED  BY <1>1, <1>2, <1>3, <1>4

-----------------------------------------------------------------------------
(* What a step leaves alone.                                               *)

(* The steps somebody starts with, but for what the poll has in hand.      *)
Starts(q, l) ==
    \/ Proper(q, l)
    \/ /\ q \in Seq(Simple(l) \union Branches(l) \union Firsts(l)) \ {<<>>}
       /\ Head(q) = HDStart /\ Proper(Tail(q), l) /\ Restores(Tail(q))
(* What the poll starts with to mount a medium.                            *)
Mounts(q) ==
    \E m \in Media : q = <<Mount(m)>> \/ q = <<Unmount([medium |-> m, n |-> 0], FALSE), Mount(m)>>

(* The first step.                                                         *)
LEMMA StartsWith ==
  ASSUME NEW l, NEW q, Starts(q, l), q # <<>>
  PROVE  /\ Head(q).do \notin {"add", "grow", "unlist", "load", "delete", "mount"}
         /\ (Head(q).do = "hdStart" => Restores(Tail(q)))
  <1>1. CASE Proper(q, l)
    BY <1>1, TakeFirst, StepKinds
  <1>2. CASE ~Proper(q, l)
    BY <1>2 DEF Starts, HDStart
  <1> QED  BY <1>1, <1>2

(* The first step of a mount.                                              *)
LEMMA MountsWith ==
  ASSUME NEW q, Mounts(q)
  PROVE  q # <<>> /\ Head(q).do \in {"mount", "unmount"} /\ ~Restores(q)
  <1>1. PICK m \in Media : q = <<Mount(m)>> \/ q = <<Unmount([medium |-> m, n |-> 0], FALSE), Mount(m)>>
    BY DEF Mounts
  <1>2. CASE q = <<Mount(m)>>
    BY <1>2, StepNames DEF Restores
  <1>3. CASE q = <<Unmount([medium |-> m, n |-> 0], FALSE), Mount(m)>>
    <2> DEFINE s == Unmount([medium |-> m, n |-> 0], FALSE)
    <2>1. s.do = "unmount" /\ Mount(m).do = "mount"
      BY DEF Unmount, Mount
    <2> HIDE DEF s
    <2>2. q = <<s, Mount(m)>>
      BY <1>3 DEF s
    <2> QED  BY <2>1, <2>2 DEF Restores
  <1> QED  BY <1>1, <1>2, <1>3

(* No mountpoint becomes known.                                            *)
LEMMA KnownKept ==
  ASSUME Types, TodosOK, NEW t \in Threads, NEW q, todo' = [todo EXCEPT ![t] = q], mounts' = mounts,
         t = "blockDevices" => ~Adding /\ (q # <<>> => Head(q).do \notin {"add", "grow"})
  PROVE  Known' = Known
  <1>1. Adding' <=> Adding
    BY DEF Adding, Now, TodosOK, Threads
  <1> QED  BY <1>1 DEF Known

(* The other goroutines keep their steps.                                  *)
LEMMA TodosKept ==
  ASSUME Types, TodosOK, NEW t \in Threads, NEW q, todo' = [todo EXCEPT ![t] = q],
         Known' \in Nat, Known <= Known', TodoOK(t)', t # "blockDevices" => mounts' = mounts
  PROVE  TodosOK'
  <1>1. Known \in Nat
    BY HandFacts
  <1>2. ASSUME NEW u \in Threads, u # t PROVE TodoOK(u)'
    <2>1. todo'[u] = todo[u] /\ Now(u)' = Now(u) /\ Later(u)' = Later(u) /\ TodoOK(u)
      BY <1>2 DEF TodosOK, Now, Later
    <2>2. Proper(todo[u], Known) => Proper(todo'[u], Known')
      BY <1>1, <2>1, ProperGrows
    <2>3. /\ todo[u] \in Seq(Simple(Known) \union Branches(Known) \union Firsts(Known))
             => todo'[u] \in Seq(Simple(Known') \union Branches(Known') \union Firsts(Known'))
          /\ Now(u) \in Firsts(Known) => Now(u)' \in Firsts(Known')
          /\ Proper(Later(u), Known) => Proper(Later(u)', Known')
      BY <1>1, <2>1, ProperGrows
    <2>4. u = "blockDevices" /\ InHands(todo[u]) => InHands(todo[u])'
      BY <1>2, <2>1 DEF InHands
    <2> QED  BY <2>1, <2>2, <2>3, <2>4 DEF TodoOK
  <1> QED  BY <1>2 DEF TodosOK

(* A goroutine that starts, or goes on, without touching list and mounts.  *)
LEMMA StartsKeeps ==
  ASSUME LInv, NEW t \in Threads, NEW q, todo' = [todo EXCEPT ![t] = q],
         UNCHANGED <<heap, list, loaded, torn, mounted, mounts, leaked>>,
         Starts(q, Known) \/ (t = "blockDevices" /\ Mounts(q)),
         t = "blockDevices" => todo[t] = <<>> \/ Now(t).do \notin {"add", "grow", "unmount"}
  PROVE  /\ Known' = Known /\ TodosOK' /\ LoadsOK' /\ ListedOnce' /\ UnlistsOK' /\ MountsOK' /\ AddsNew'
  <1>0. array' = array /\ size' = size
    BY DEF array, size
  <1>1. q # <<>> => Head(q).do \notin {"add", "grow", "unlist", "load", "delete"}
    BY StartsWith, MountsWith
  <1>2. Known' = Known
    BY <1>1, KnownKept DEF LInv, Adding
  <1>3. Listed' = Listed
    BY <1>0 DEF Listed
  <1>4. TodoOK(t)'
    <2>1. todo'[t] = q /\ Now(t)' = Head(q) /\ Later(t)' = Tail(q)
      BY DEF LInv, TodosOK, Now, Later
    <2>2. CASE t = "blockDevices" /\ Mounts(q)
      BY <2>1, <2>2 DEF TodoOK, InHands, Mounts
    <2>3. CASE Starts(q, Known)
      <3>1. HDStart \in Firsts(Known)
        BY StepsMade
      <3> QED  BY <1>2, <2>1, <2>3, <3>1 DEF TodoOK, Starts
    <2> QED  BY <2>2, <2>3
  <1>5. TodosOK'
    <2>1. Known \in Nat
      BY HandFacts DEF LInv
    <2>2. Known' \in Nat /\ Known <= Known' /\ mounts' = mounts
      BY <1>2, <2>1
    <2> QED  BY <1>4, <2>2, TodosKept DEF LInv
  <1>6. ListedOnce'
    BY <1>0 DEF LInv, ListedOnce
  <1>7. ASSUME NEW u \in Threads, todo'[u] # <<>>,
               Head(todo'[u]).do \in {"add", "grow", "unlist", "load", "delete"}
        PROVE  todo'[u] = todo[u]
    BY <1>1, <1>7 DEF LInv, TodosOK
  <1>8. UnlistsOK'
    BY <1>0, <1>7 DEF LInv, UnlistsOK, Now
  <1>11. LoadsOK'
    BY <1>7 DEF LInv, LoadsOK, Now
  <1>12. AddsNew'
    <2>1. "blockDevices" \in Threads
      BY DEF Threads
    <2> QED  BY <1>3, <1>7, <2>1 DEF LInv, AddsNew, Adding, Now
  <1>9. ASSUME NEW m, Held(m) PROVE Held(m)'
    BY <1>9 DEF LInv, TodosOK, Held, Now, Threads
  <1>10. MountsOK'
    BY <1>3, <1>9 DEF LInv, MountsOK
  <1> QED  BY <1>2, <1>5, <1>6, <1>8, <1>10, <1>11, <1>12

(* The same for one that goes on.                                          *)
LEMMA MovesKeeps ==
  ASSUME LInv, NEW t \in Threads, Moves(t), todo[t] # <<>>, Now(t).do \notin {"add", "grow", "unmount"},
         UNCHANGED <<heap, list, loaded, torn, mounted, mounts, leaked>>
  PROVE  /\ Known' = Known /\ TodosOK' /\ LoadsOK' /\ ListedOnce' /\ UnlistsOK' /\ MountsOK' /\ AddsNew'
  <1>1. PICK q : todo' = [todo EXCEPT ![t] = q] /\ Proper(q, Known)
    BY DEF Moves
  <1> QED  BY <1>1, StartsKeeps DEF Starts

(* The flag is on, or the goroutine still owes it, or another one does.    *)
LEMMA RestartsKept ==
  ASSUME RestartsOK, TodosOK, NEW t \in Threads, NEW q, todo' = [todo EXCEPT ![t] = q],
         rerunEmulator => rerunEmulator', ended => ended',
         Restores(todo[t]) /\ ~rerunEmulator' /\ ~ended' => Restores(q),
         q # <<>> /\ Head(q).do = "hdStart" => Restores(Tail(q))
  PROVE  RestartsOK'
  <1>1. todo'[t] = q /\ \A u \in Threads : u # t => todo'[u] = todo[u]
    BY DEF TodosOK
  <1>2. ASSUME NEW u \in Threads, todo'[u] # <<>>, Head(todo'[u]).do = "hdStart"
        PROVE  Restores(Tail(todo'[u]))
    BY <1>1, <1>2 DEF RestartsOK, Now, Later
  <1>3. rerunEmulator' \/ ended' \/ \E u \in Threads : Restores(todo'[u])
    BY <1>1 DEF RestartsOK
  <1> QED  BY <1>2, <1>3 DEF RestartsOK, Now, Later

(* The same for one that goes on.                                          *)
LEMMA MovesRestarts ==
  ASSUME RestartsOK, TodosOK, NEW t \in Threads, Moves(t),
         rerunEmulator => rerunEmulator', ended => ended'
  PROVE  RestartsOK'
  <1>1. PICK q : /\ todo' = [todo EXCEPT ![t] = q]
                 /\ Proper(q, Known) /\ (Restores(todo[t]) => Restores(q))
    BY DEF Moves
  <1>2. q # <<>> => Head(q).do # "hdStart"
    BY <1>1, TakeFirst, StepKinds
  <1> QED  BY <1>1, <1>2, RestartsKept

-----------------------------------------------------------------------------
(* The steps that touch neither the list nor a file system.                *)
Plain(t) ==
    \/ LookForDetach(t) \/ DetachSlot(t) \/ LookForAttach(t) \/ AttachSlot(t)
    \/ DetachMountpointROM(t) \/ FreeFile(t) \/ EjectNext(t) \/ InsertNext(t) \/ UnmountNext(t)
    \/ TakeSource(t) \/ TakeTarget(t) \/ Copy(t)
    \/ BeginRound(t) \/ UnmountEach(t) \/ ReportUnmounted(t) \/ End(t)

(* They move their goroutine and nothing else of the invariant.            *)
LEMMA PlainFacts ==
  ASSUME LInv, NEW t \in Threads, Plain(t)
  PROVE  /\ Moves(t) /\ todo[t] # <<>> /\ Now(t).do \notin {"add", "grow", "unmount"}
         /\ UNCHANGED <<heap, list, loaded, torn, mounted, mounts, leaked>>
         /\ rerunEmulator' = rerunEmulator /\ (ended => ended')
  <1>1. Moves(t)
    BY SlotSteps, LoopSteps, CopySteps, UnmountAllSteps DEF Plain, LInv
  <1>2. CASE LookForDetach(t) \/ LookForAttach(t)
    BY <1>1, <1>2 DEF LookForDetach, LookForAttach, Doing, Now, Goes, listAndPolls, listVars, ghosts
  <1>3. CASE DetachSlot(t) \/ AttachSlot(t)
    BY <1>1, <1>3 DEF DetachSlot, AttachSlot, Doing, Now, listAndPolls, listVars, ghosts
  <1>4. CASE DetachMountpointROM(t) \/ FreeFile(t) \/ EjectNext(t) \/ InsertNext(t) \/ UnmountNext(t)
    BY <1>1, <1>4 DEF DetachMountpointROM, FreeFile, EjectNext, InsertNext, UnmountNext, Doing, Now, Goes,
                      listAndPolls, listVars, ghosts
  <1>5. CASE TakeSource(t) \/ TakeTarget(t) \/ Copy(t)
    BY <1>1, <1>5 DEF TakeSource, TakeTarget, Copy, Doing, Now, Goes, listAndPolls, listVars, ghosts
  <1>6. CASE BeginRound(t) \/ UnmountEach(t) \/ ReportUnmounted(t) \/ End(t)
    BY <1>1, <1>6 DEF BeginRound, UnmountEach, ReportUnmounted, End, Doing, Now, Goes, listAndPolls,
                      listVars, ghosts
  <1> QED  BY <1>2, <1>3, <1>4, <1>5, <1>6 DEF Plain

(* A step that changes nothing but what is to do keeps the types.          *)
LEMMA GoesTypes ==
  ASSUME Types, NEW t, NEW q, Goes(t, q), Known' = Known
  PROVE  Types'
  BY DEF Types, Within, array, size, Goes, listAndPolls, listVars, pollVars, counters, ghosts

(* nil lies within any array.                                              *)
LEMMA NilWithin ==
  ASSUME Types
  PROVE  Within(NoSlice)
  <1>1. list.at \in 1..Len(heap) /\ heap \in Seq(Seq(MountpointsTo(Known) \union {None}))
    BY DEF Types, Within
  <1>2. 1 \in 1..Len(heap)
    BY <1>1, LenProperties
  <1>3. Len(heap[1]) \in Nat
    BY <1>1, <1>2, LenProperties
  <1> QED  BY <1>2, <1>3 DEF Within, Slices, NoSlice

(* The steps keep the types.                                               *)
LEMMA PlainTypes ==
  ASSUME LInv, NEW t \in Threads, Plain(t), Known' = Known
  PROVE  Types'
  <1> USE DEF listAndPolls, listVars, pollVars, counters, ghosts, Within, array, size
  <1>0. Types /\ TodosOK
    BY DEF LInv
  <1>1. CASE LookForDetach(t) \/ LookForAttach(t)
    BY <1>0, <1>1, GoesTypes DEF LookForDetach, LookForAttach
  <1>2. CASE DetachSlot(t)
    BY <1>0, <1>2 DEF DetachSlot, Types, Slottable
  <1>3. CASE AttachSlot(t)
    <2>1. Doing(t, "fill")
      BY <1>3 DEF AttachSlot
    <2>2. Now(t).f \in Slottable
      BY <1>0, <2>1, NowProper, StepKinds DEF Steps
    <2>3. /\ slot' = slot \/ slot' = [slot EXCEPT ![Now(t).d] = Now(t).f]
          /\ failures' = failures \/ failures' = failures + 1
          /\ UNCHANGED <<listAndPolls, rerunEmulator, ended, plugged, plugs, commands, copies, overlaps,
                        ghosts>>
      BY <1>3 DEF AttachSlot, Fails
    <2> QED  BY <1>0, <2>2, <2>3 DEF Types
  <1>4. CASE DetachMountpointROM(t) \/ FreeFile(t) \/ EjectNext(t) \/ InsertNext(t) \/ UnmountNext(t)
    BY <1>0, <1>4, GoesTypes DEF DetachMountpointROM, FreeFile, EjectNext, InsertNext, UnmountNext
  <1>5. CASE TakeSource(t) \/ TakeTarget(t)
    BY <1>0, <1>5, GoesTypes DEF TakeSource, TakeTarget
  <1>6. CASE Copy(t)
    <2>1. ASSUME NEW q, Goes(t, q) PROVE Types'
      BY <1>0, <2>1, GoesTypes
    <2>2. \/ \E q : Goes(t, q)
          \/ /\ failures' = failures + 1
             /\ UNCHANGED <<slot, listAndPolls, rerunEmulator, ended, plugged, plugs, commands, copies,
                            overlaps, ghosts>>
      <3>1. GetMountpointByIndex(Now(t).t) = 0 \/ ~(Readable(Now(t).f) /\ Readable(Now(t).g)) =>
              Goes(t, Now(t).orelse)
        BY <1>6 DEF Copy
      <3> HIDE DEF Within, array, size
      <3> QED  BY <1>6, <3>1 DEF Copy, Fails
    <2>3. CASE /\ failures' = failures + 1
               /\ UNCHANGED <<slot, listAndPolls, rerunEmulator, ended, plugged, plugs, commands, copies,
                              overlaps, ghosts>>
      <3>1. failures' \in Nat
        BY <1>0, <2>3 DEF Types
      <3> QED  BY <1>0, <2>3, <3>1 DEF Types
    <2> QED  BY <2>1, <2>2, <2>3
  <1>7. CASE BeginRound(t)
    <2>1. /\ ranged' = [ranged EXCEPT ![t] = list]
          /\ disturbed' \subseteq disturbed
          /\ UNCHANGED <<slot, heap, list, loaded, mounted, mounts, pollVars, rerunEmulator, ended,
                        counters, leaked, torn>>
      BY <1>7 DEF BeginRound
    <2> QED  BY <1>0, <2>1 DEF Types
  <1>8. CASE UnmountEach(t)
    <2>1. ASSUME NEW q, Goes(t, q) PROVE Types'
      BY <1>0, <2>1, GoesTypes
    <2>2. CASE ~(Now(t).i <= ranged[t].len)
      <3>1. /\ ranged' = [ranged EXCEPT ![t] = NoSlice]
            /\ UNCHANGED <<slot, heap, list, loaded, mounted, mounts, pollVars, rerunEmulator, ended,
                          counters, ghosts>>
        BY <1>8, <2>2 DEF UnmountEach
      <3>2. Within(NoSlice)
        BY <1>0, NilWithin
      <3> QED  BY <1>0, <3>1, <3>2 DEF Types
    <2> QED  BY <1>8, <2>1, <2>2 DEF UnmountEach
  <1>9. CASE ReportUnmounted(t)
    BY <1>0, <1>9, GoesTypes DEF ReportUnmounted
  <1>10. CASE End(t)
    BY <1>0, <1>10 DEF End, Types
  <1> QED  BY <1>1, <1>2, <1>3, <1>4, <1>5, <1>6, <1>7, <1>8, <1>9, <1>10 DEF Plain

-----------------------------------------------------------------------------
(* What somebody starts with.                                              *)
LEMMA AfterFacts ==
  ASSUME NEW l, NEW k
  PROVE  /\ After(k) \in Seq(Simple(l)) /\ Proper(After(k), l)
         /\ k = "HD" => RestoresSoon(After(k)) /\ Restores(After(k))
  <1>1. HDDone \in Simple(l) /\ HDDone.do = "hdDone"
    BY StepsMade DEF HDDone
  <1>2. After(k) = <<HDDone>> \/ (k # "HD" /\ After(k) = <<>>)
    BY DEF After
  <1> HIDE DEF HDDone
  <1>3. After(k) \in Seq(Simple(l))
    <2>1. <<HDDone>> \in Seq(Simple(l)) /\ <<>> \in Seq(Simple(l))
      BY <1>1
    <2> QED  BY <1>2, <2>1
  <1>4. k = "HD" => RestoresSoon(After(k))
    <2>1. RestoresSoon(<<HDDone>>)
      BY <1>1 DEF RestoresSoon
    <2> QED  BY <1>2, <2>1
  <1> QED  BY <1>3, <1>4, AllSimple, SimpleRestores

(* Steps between onHDOperationStart and onHDOperationDone.                 *)
LEMMA Bracketed ==
  ASSUME NEW l, NEW k \in Kinds, NEW p \in Seq(Simple(l) \union Branches(l)),
         NEW q \in Seq(Simple(l) \union Branches(l)),
         Proper(p \o q, l), k = "HD" => Restores(p \o q)
  PROVE  Starts((Before(k) \o p) \o q, l)
  <1> DEFINE S == Simple(l) \union Branches(l) \union Firsts(l)
  <1>0. p \in Seq(S) /\ q \in Seq(S) /\ HDStart \in S
    BY SeqMonotonic, StepsMade
  <1> HIDE DEF S
  <1>1. p \o q \in Seq(S)
    BY <1>0, ConcatProperties
  <1>2. CASE k = "HD"
    <2>1. Before(k) = <<HDStart>> /\ <<HDStart>> \in Seq(S)
      BY <1>0, <1>2 DEF Before
    <2>2. (<<HDStart>> \o p) \o q = <<HDStart>> \o (p \o q)
      BY <1>0, <2>1, ConcatAssociative
    <2> DEFINE r == <<HDStart>> \o (p \o q)
    <2>3. r \in Seq(S) /\ r # <<>> /\ Head(r) = HDStart /\ Tail(r) = p \o q
      BY <1>1, <2>1, ConcatProperties, HeadTailOfConcat DEF S
    <2> QED  BY <1>2, <2>1, <2>2, <2>3 DEF Starts, S
  <1>3. CASE k # "HD"
    <2>1. Before(k) = <<>> /\ <<>> \o p = p
      BY <1>0, <1>3, ConcatEmptySeq DEF Before
    <2> QED  BY <2>1 DEF Starts
  <1> QED  BY <1>2, <1>3

(* Steps of an operation on a kind of drive: none is a loop, and each      *)
(* early return of an operation on a hard disk drive restores the flag.    *)
Operates(k, p, l) ==
    /\ p \in Seq(Simple(l) \union Branches(l))
    /\ \A i \in 1..Len(p) :
          /\ p[i].do \notin Loops /\ p[i].do \notin Breaks
          /\ k = "HD" /\ p[i].do \in Branching => RestoresSoon(p[i].orelse)

(* Such steps, one by one and joined.                                      *)
LEMMA OperatesMade ==
  ASSUME NEW l, NEW k
  PROVE  /\ Operates(k, <<>>, l)
         /\ \A p, q : Operates(k, p, l) /\ Operates(k, q, l) => Operates(k, p \o q, l)
         /\ \A s \in Simple(l) : s.do \notin Loops \union Breaks => Operates(k, <<s>>, l)
         /\ \A s \in Branches(l) : s.orelse = After(k) => Operates(k, <<s>>, l)
  <1>1. Operates(k, <<>>, l)
    BY DEF Operates
  <1>2. ASSUME NEW p, NEW q, Operates(k, p, l), Operates(k, q, l)
        PROVE  Operates(k, p \o q, l)
    <2>1. Len(p) \in Nat /\ Len(q) \in Nat
      BY <1>2, LenProperties DEF Operates
    <2>2. /\ p \o q \in Seq(Simple(l) \union Branches(l)) /\ Len(p \o q) = Len(p) + Len(q)
          /\ \A i \in 1..Len(p) + Len(q) : (p \o q)[i] = IF i <= Len(p) THEN p[i] ELSE q[i - Len(p)]
      BY <1>2, <2>1, ConcatProperties DEF Operates
    <2>3. \A i \in 1..Len(p) + Len(q) : i \in 1..Len(p) \/ (~(i <= Len(p)) /\ i - Len(p) \in 1..Len(q))
      BY <2>1
    <2>4. ASSUME NEW i \in 1..Len(p \o q)
          PROVE  (\E j \in 1..Len(p) : (p \o q)[i] = p[j]) \/ \E j \in 1..Len(q) : (p \o q)[i] = q[j]
      BY <2>1, <2>2, <2>3
    <2> QED  BY <1>2, <2>2, <2>4 DEF Operates
  <1>3. ASSUME NEW s \in Simple(l), s.do \notin Loops \union Breaks PROVE Operates(k, <<s>>, l)
    <2>1. s.do \notin Branching
      BY DEF Simple, Branching
    <2> QED  BY <1>3, <2>1 DEF Operates
  <1>4. ASSUME NEW s \in Branches(l), s.orelse = After(k) PROVE Operates(k, <<s>>, l)
    <2>1. s.do \notin Loops /\ s.do \notin Breaks
      BY DEF Branches, Loops, Breaks
    <2>2. k = "HD" => RestoresSoon(s.orelse)
      BY <1>4, AfterFacts
    <2> QED  BY <2>1, <2>2 DEF Operates
  <1> QED  BY <1>1, <1>2, <1>3, <1>4

(* An operation with its start and end.                                    *)
LEMMA OperatesStarts ==
  ASSUME NEW l, NEW k, NEW p, Operates(k, p, l), NEW q \in Seq(Simple(l)), k = "HD" => Restores(q)
  PROVE  /\ Proper(p \o q, l) /\ (k = "HD" => Restores(p \o q))
         /\ Proper(p, l)
         /\ k \in Kinds => Starts((Before(k) \o p) \o q, l)
  <1>1. p \in Seq(Simple(l) \union Branches(l)) /\ q \in Seq(Simple(l) \union Branches(l))
    BY SeqMonotonic DEF Operates
  <1>2. Proper(q, l) /\ \A i \in 1..Len(p) : p[i].do \notin Loops
    BY AllSimple DEF Operates
  <1>3. Proper(p \o q, l)
    BY <1>1, <1>2, Prepend
  <1>4. k = "HD" => Restores(p \o q)
    BY <1>1, RestoresBehind DEF Operates
  <1>5. Proper(p, l)
    BY <1>1, <1>2 DEF Proper
  <1> QED  BY <1>1, <1>3, <1>4, <1>5, Bracketed

(* The files of media and devices can be in a slot.                        *)
LEMMA FilesFacts ==
  /\ None \in Slottable /\ Missing \in Slottable /\ Devices \subseteq Slottable
  /\ \A m \in Media : /\ Home[m] \in Drives /\ Kind[Home[m]] \in Kinds
                      /\ FilesOf(m) \subseteq Slottable /\ ToSet(Files[m]) \subseteq FilesOf(m)
                      /\ Default[m] \in Slottable /\ (m \in Dirs => m \in Slottable)
                      /\ Files[m] \in Seq(Slottable)
  /\ \A f \in Devices : DeviceDrive[f] \in Drives /\ Kind[DeviceDrive[f]] \in Kinds
  <1>1. /\ Home \in [Media -> Drives] /\ DeviceDrive \in [Devices -> Drives]
        /\ \A m \in Media : /\ Files[m] \in Seq(ToSet(Files[m]))
                            /\ Default[m] \in ToSet(Files[m]) \union {None, Missing}
    BY ConstantsAssumption
  <1>2. \A m \in Media : FilesOf(m) \subseteq Slottable /\ ToSet(Files[m]) \subseteq FilesOf(m)
    BY DEF FilesOf, Images, Slottable
  <1>3. \A m \in Media : m \in Dirs => m \in FilesOf(m)
    BY DEF FilesOf
  <1>4. {None, Missing} \subseteq Slottable /\ Devices \subseteq Slottable
    BY DEF Slottable
  <1>5. \A m \in Media : Files[m] \in Seq(Slottable)
    <2>1. ASSUME NEW m \in Media PROVE Files[m] \in Seq(Slottable)
      <3>1. ToSet(Files[m]) \subseteq Slottable
        BY <1>2
      <3> QED  BY <1>1, <3>1, SeqMonotonic
    <2> QED  BY <2>1
  <1>6. \A d \in Drives : Kind[d] \in Kinds
    BY DrivesFacts
  <1> QED  BY <1>1, <1>2, <1>3, <1>4, <1>5, <1>6

(* detach*MediumDiskImage.                                                 *)
LEMMA DetachMediumStarts ==
  ASSUME Types, TodosOK, ~ended, NEW m \in Media
  PROVE  Starts(DetachMedium(m), Known)
  <1> DEFINE i == GetMountpointByDevicePathname(m)
             d == Home[m]
             k == Kind[d]
             u == Unmount(array[i], TRUE)
             rest == <<u>> \o After(k)
             s == Detach(d, slot[d], rest)
  <1>1. CASE i = 0
    <2>1. DetachMedium(m) = <<>>
      BY <1>1 DEF DetachMedium
    <2>2. Proper(<<>>, Known)
      BY EmptySeq, AllSimple
    <2> QED  BY <2>1, <2>2 DEF Starts
  <1>2. CASE i # 0
    <2>1. array[i] \in MountpointsTo(Known)
      BY <1>2, ListFacts
    <2>2. u \in Simple(Known) /\ u.do = "unmount"
      BY <2>1, StepsMade DEF Unmount
    <2>3. d \in Drives /\ k \in Kinds /\ slot[d] \in Slottable
      BY FilesFacts DEF Types
    <2>4. DetachMedium(m) = (Before(k) \o (IF slot[d] # None THEN <<s>> ELSE <<>>)) \o rest
      BY <1>2 DEF DetachMedium
    <2> HIDE DEF u, i, d, k
    <2>5. rest \in Seq(Simple(Known)) /\ (k = "HD" => Restores(rest) /\ RestoresSoon(rest))
      <3>1. After(k) \in Seq(Simple(Known)) /\ (k = "HD" => Restores(After(k)))
        BY AfterFacts
      <3>2. <<u>> \in Seq(Simple(Known)) /\ \A j \in 1..Len(<<u>>) : <<u>>[j].do \notin Breaks
        BY <2>2 DEF Breaks
      <3>3. rest \in Seq(Simple(Known)) /\ (k = "HD" => Restores(rest))
        BY <3>1, <3>2, ManyMore
      <3> QED  BY <3>3, SimpleRestores
    <2> HIDE DEF rest
    <2>6. s \in Branches(Known) /\ s.do = "detach" /\ s.orelse = rest
      BY <2>3, <2>5, StepsMade DEF Detach
    <2> HIDE DEF s
    <2>7. Operates(k, <<s>>, Known)
      BY <2>5, <2>6 DEF Operates, Loops, Breaks
    <2>8. Operates(k, <<>>, Known)
      BY OperatesMade
    <2> QED  BY <2>3, <2>4, <2>5, <2>7, <2>8, OperatesStarts
  <1> QED  BY <1>1, <1>2

(* attach*MediumDiskImage.                                                 *)
LEMMA AttachMediumMounts ==
  ASSUME NEW m \in Media
  PROVE  Starts(AttachMedium(m), Known) \/ Mounts(AttachMedium(m))
  <1>1. Proper(<<>>, Known)
    BY EmptySeq, AllSimple
  <1>2. <<>> \o <<Mount(m)>> = <<Mount(m)>>
    BY Pairs
  <1>3. <<Unmount([medium |-> m, n |-> 0], FALSE)>> \o <<Mount(m)>>
          = <<Unmount([medium |-> m, n |-> 0], FALSE), Mount(m)>>
    BY Pairs
  <1> QED  BY <1>1, <1>2, <1>3 DEF AttachMedium, Mounts, Starts

(* attachAmigaDiskDevice* and detachAmigaDiskDevice*.                      *)
LEMMA DeviceStarts ==
  ASSUME Types, NEW f \in Devices
  PROVE  Starts(AttachDevice(f), Known) /\ Starts(DetachDevice(f), Known)
  <1> DEFINE k == Kind[DeviceDrive[f]]
  <1>1. k \in Kinds /\ DeviceDrive[f] \in Drives /\ f \in Slottable
    BY FilesFacts
  <1>2. Starts(<<>>, Known)
    BY EmptySeq, AllSimple DEF Starts
  <1>3. ASSUME NEW s \in Branches(Known), s.orelse = After(k)
        PROVE  Starts((Before(k) \o <<s>>) \o After(k), Known)
    <2>1. Operates(k, <<s>>, Known) /\ After(k) \in Seq(Simple(Known)) /\ (k = "HD" => Restores(After(k)))
      BY <1>3, OperatesMade, AfterFacts
    <2> QED  BY <1>1, <2>1, OperatesStarts
  <1>4. After(k) \in Seq(Simple(Known))
    BY AfterFacts
  <1>5. Starts(AttachDevice(f), Known)
    <2> DEFINE d == IF k = "HD" THEN FirstDrive(k, None) ELSE DeviceDrive[f]
               s == Attach(d, f, After(k))
    <2>1. CASE k = "HD" /\ ~IsHeld(k, None)
      BY <1>2, <2>1 DEF AttachDevice
    <2>2. CASE ~(k = "HD" /\ ~IsHeld(k, None))
      <3>1. d \in Drives
        BY <1>1, <2>2, FoundDrive
      <3>2. AttachDevice(f) = (Before(k) \o <<s>>) \o After(k)
        BY <2>2 DEF AttachDevice
      <3> HIDE DEF d, k
      <3>3. s \in Branches(Known) /\ s.orelse = After(k)
        BY <1>1, <1>4, <3>1, StepsMade DEF Attach
      <3> QED  BY <1>3, <3>2, <3>3
    <2> QED  BY <2>1, <2>2
  <1>6. Starts(DetachDevice(f), Known)
    <2> DEFINE d == IF k = "HD" THEN FirstDrive(k, f) ELSE DeviceDrive[f]
               s == Detach(d, f, After(k))
    <2>1. CASE k = "HD" /\ ~IsHeld(k, f)
      BY <1>2, <2>1 DEF DetachDevice
    <2>2. CASE ~(k = "HD" /\ ~IsHeld(k, f))
      <3>1. d \in Drives
        BY <1>1, <2>2, FoundDrive
      <3>2. DetachDevice(f) = (Before(k) \o <<s>>) \o After(k)
        BY <2>2 DEF DetachDevice
      <3> HIDE DEF d, k
      <3>3. s \in Branches(Known) /\ s.orelse = After(k)
        BY <1>1, <1>4, <3>1, StepsMade DEF Detach
      <3> QED  BY <1>3, <3>2, <3>3
    <2> QED  BY <2>1, <2>2
  <1> QED  BY <1>5, <1>6

(* A command starts with steps of its own.                                 *)
Begins(t) == \E q : Starts(q, Known) /\ Command(t, q)

(* The file in the target drive goes first.                                *)
LEMMA RoomMade ==
  ASSUME Types, NEW d \in Drives, NEW k, NEW q \in Seq(Simple(Known)), q = After(k) \/ k # "HD"
  PROVE  Operates(k, MakeRoom(d, q), Known)
  <1> DEFINE s == Detach(d, slot[d], q)
  <1>1. s \in Branches(Known) /\ s.do = "detach" /\ s.orelse = q
    <2>1. slot[d] \in Slottable
      BY DEF Types
    <2> QED  BY <2>1, StepsMade DEF Detach
  <1>2. MakeRoom(d, q) = <<>> \/ MakeRoom(d, q) = <<s>>
    BY DEF MakeRoom
  <1> HIDE DEF s
  <1>3. Operates(k, <<s>>, Known)
    <2>1. CASE q = After(k)
      BY <1>1, <2>1, OperatesMade
    <2>2. CASE k # "HD"
      BY <1>1, <2>2 DEF Operates, Loops, Breaks
    <2> QED  BY <2>1, <2>2
  <1> QED  BY <1>2, <1>3, OperatesMade

(* A file leaves the drive it is in and goes to another.                   *)
LEMMA FreeAttach ==
  ASSUME NEW l, NEW d \in Drives, NEW f \in Slottable, NEW k \in {Kind[c] : c \in Drives},
         NEW q \in Seq(Simple(l)), q = After(k) \/ k # "HD"
  PROVE  Operates(k, <<Free(f, k, q), Attach(d, f, q)>>, l)
  <1> DEFINE s == Free(f, k, q)
             r == Attach(d, f, q)
  <1>1. /\ s \in Branches(l) /\ s.do = "free" /\ s.orelse = q
        /\ r \in Branches(l) /\ r.do = "attach" /\ r.orelse = q
    BY StepsMade DEF Free, Attach
  <1>2. k = "HD" => RestoresSoon(q)
    BY AfterFacts
  <1> HIDE DEF s, r
  <1>3. Operates(k, <<s, r>>, l)
    BY <1>1, <1>2 DEF Operates, Loops, Breaks
  <1> QED  BY <1>3 DEF s, r

(* ??InsertFromSourceIndexToTargetIndex.                                   *)
LEMMA InsertStarts ==
  ASSUME Types, TodosOK, NEW t, NEW s \in Drives, NEW d \in Drives,
         InsertFromSourceIndexToTargetIndex(t, s, d)
  PROVE  Begins(t)
  <1> DEFINE i == GetMountpointByIndex(s)
             k == Kind[s]
             m == array[i].medium
             known == i # 0 /\ m \notin Dirs
             insert(f) == IF ~known THEN <<Panic>>
                          ELSE IF f = None THEN <<>>
                          ELSE <<Free(f, k, After(k)), Attach(d, f, After(k))>>
             p(f) == IF HasFile(slot[d]) THEN <<>> ELSE MakeRoom(d, After(k)) \o insert(f)
  <1>1. PICK f \in IF known THEN ToSet(Files[m]) \union {None} ELSE {None} :
          Command(t, (Before(k) \o p(f)) \o After(k))
    BY DEF InsertFromSourceIndexToTargetIndex
  <1>2. f \in Slottable
    <2>1. known => m \in Media
      <3>1. ~ended
        BY DEF InsertFromSourceIndexToTargetIndex, Command, Begin
      <3>2. known => array[i] \in MountpointsTo(Known)
        BY <3>1, ListFacts
      <3> QED  BY <3>2 DEF MountpointsTo
    <2>2. known => ToSet(Files[m]) \subseteq Slottable
      BY <2>1, FilesFacts
    <2> QED  BY <1>1, <2>2, FilesFacts
  <1>3. /\ k \in {Kind[c] : c \in Drives} /\ k \in Kinds
        /\ After(k) \in Seq(Simple(Known)) /\ (k = "HD" => Restores(After(k)))
    BY DrivesFacts, AfterFacts
  <1>4. Operates(k, <<Panic>>, Known)
    <2>1. Panic \in Simple(Known) /\ Panic.do \notin Loops \union Breaks
      BY StepsMade DEF Panic, Loops, Breaks
    <2> QED  BY <2>1, OperatesMade
  <1>5. Operates(k, insert(f), Known)
    <2>1. Operates(k, <<Free(f, k, After(k)), Attach(d, f, After(k))>>, Known)
      BY <1>2, <1>3, FreeAttach
    <2>2. Operates(k, <<>>, Known)
      BY OperatesMade
    <2> QED  BY <1>4, <2>1, <2>2
  <1> HIDE DEF k, insert
  <1>6. Operates(k, p(f), Known)
    <2>1. Operates(k, MakeRoom(d, After(k)), Known)
      BY <1>3, RoomMade
    <2>2. Operates(k, <<>>, Known) /\ Operates(k, MakeRoom(d, After(k)) \o insert(f), Known)
      BY <1>5, <2>1, OperatesMade
    <2> QED  BY <2>2
  <1> HIDE DEF p
  <1> QED  BY <1>1, <1>3, <1>6, OperatesStarts DEF Begins

(* dfInsertFromSourceIndexToTargetIndexByDiskNo.                           *)
LEMMA ByDiskNoStarts ==
  ASSUME Types, TodosOK, NEW t, NEW s \in Drives, NEW d \in Drives, InsertByDiskNo(t, s, d)
  PROVE  Begins(t)
  <1> DEFINE i == GetMountpointByIndex(s)
             insert(f) == IF f = None THEN <<>> ELSE <<Free(f, "DF", <<>>), Attach(d, f, <<>>)>>
             p(f) == MakeRoom(d, <<>>) \o insert(f)
  <1>1. /\ i # 0 /\ Kind[s] = "DF"
        /\ \E f \in IF slot[s] = None THEN {None} ELSE ToSet(Files[array[i].medium]) \union {None} :
             Command(t, p(f))
    BY DEF InsertByDiskNo
  <1>2. PICK f \in IF slot[s] = None THEN {None} ELSE ToSet(Files[array[i].medium]) \union {None} :
          Command(t, p(f))
    BY <1>1
  <1>3. f \in Slottable
    <2>0. ~ended
      BY DEF InsertByDiskNo, Command, Begin
    <2>1. array[i].medium \in Media
      BY <1>1, <2>0, ListFacts DEF MountpointsTo
    <2>2. ToSet(Files[array[i].medium]) \subseteq Slottable /\ None \in Slottable
      BY <2>1, FilesFacts
    <2> QED  BY <1>2, <2>2
  <1>4. <<>> \in Seq(Simple(Known)) /\ "DF" \in {Kind[c] : c \in Drives}
    BY <1>1
  <1>5. Operates("DF", insert(f), Known)
    <2>1. Operates("DF", <<Free(f, "DF", <<>>), Attach(d, f, <<>>)>>, Known)
      BY <1>3, <1>4, FreeAttach
    <2> QED  BY <2>1, OperatesMade
  <1> HIDE DEF insert
  <1>6. Operates("DF", p(f), Known)
    <2>1. Operates("DF", MakeRoom(d, <<>>), Known)
      BY <1>4, RoomMade
    <2> QED  BY <1>5, <2>1, OperatesMade
  <1> HIDE DEF p
  <1>7. Proper(p(f), Known)
    BY <1>4, <1>6, OperatesStarts
  <1> QED  BY <1>2, <1>7 DEF Begins, Starts

(* dfInsertFromSourceIndexToManyIndex.                                     *)
LEMMA ManyStarts ==
  ASSUME Types, TodosOK, NEW t, NEW s \in Drives, InsertToManyIndex(t, s)
  PROVE  Begins(t)
  <1> DEFINE i == GetMountpointByIndex(s)
             fs == Files[array[i].medium]
             n == Len(DrivesOf("DF"))
             l == IF Len(fs) < n THEN Len(fs) ELSE n
             p == [j \in 1..l |-> InsertIndex(DrivesOf("DF")[j], fs[j])]
  <1>1. i # 0 /\ Command(t, p)
    BY DEF InsertToManyIndex
  <1>2. fs \in Seq(Slottable)
    <2>1. ~ended
      BY DEF InsertToManyIndex, Command, Begin
    <2>2. array[i].medium \in Media
      BY <1>1, <2>1, ListFacts DEF MountpointsTo
    <2> QED  BY <2>2, FilesFacts
  <1>3. DrivesOf("DF") \in Seq(Drives)
    BY DrivesFacts DEF Kinds
  <1> HIDE DEF fs
  <1>4. l \in Nat /\ l <= Len(fs) /\ l <= n
    BY <1>2, <1>3, LenProperties
  <1>5. \A j \in 1..l : fs[j] \in Slottable /\ DrivesOf("DF")[j] \in Drives
    BY <1>2, <1>3, <1>4, LenProperties
  <1> HIDE DEF l
  <1>6. \A j \in 1..l : InsertIndex(DrivesOf("DF")[j], fs[j]) \in Simple(Known)
    BY <1>5, StepsMade
  <1>7. p \in Seq(Simple(Known))
    BY <1>4, <1>6
  <1> HIDE DEF p
  <1> QED  BY <1>1, <1>7, AllSimple DEF Begins, Starts

(* ??EjectFromSourceIndex.                                                 *)
LEMMA EjectStarts ==
  ASSUME Types, NEW t, NEW d \in Drives, EjectFromSourceIndex(t, d)
  PROVE  Begins(t)
  <1> DEFINE k == Kind[d]
             s == Detach(d, slot[d], After(k))
  <1>1. Command(t, (Before(k) \o <<s>>) \o After(k))
    BY DEF EjectFromSourceIndex
  <1>2. k \in Kinds /\ After(k) \in Seq(Simple(Known)) /\ (k = "HD" => Restores(After(k)))
    BY DrivesFacts, AfterFacts
  <1>3. s \in Branches(Known) /\ s.orelse = After(k)
    <2>1. slot[d] \in Slottable
      BY DEF Types
    <2> QED  BY <1>2, <2>1, StepsMade DEF Detach
  <1> HIDE DEF s, k
  <1>4. Operates(k, <<s>>, Known)
    BY <1>3, OperatesMade
  <1> QED  BY <1>1, <1>2, <1>4, OperatesStarts DEF Begins

(* dfEjectFromSourceIndexAll.                                              *)
LEMMA EjectAllStarts ==
  ASSUME NEW t, EjectFromSourceIndexAll(t)
  PROVE  Begins(t)
  <1> DEFINE ds == DrivesOf("DF")
             p == [i \in 1..Len(ds) |-> EjectIndex(ds[i])]
  <1>1. Command(t, p)
    BY DEF EjectFromSourceIndexAll
  <1>2. ds \in Seq(Drives)
    BY DrivesFacts DEF Kinds
  <1> HIDE DEF ds
  <1>3. \A i \in 1..Len(ds) : EjectIndex(ds[i]) \in Simple(Known)
    BY <1>2, StepsMade
  <1>4. p \in Seq(Simple(Known))
    BY <1>2, <1>3, LenProperties
  <1> HIDE DEF p
  <1> QED  BY <1>1, <1>4, AllSimple DEF Begins, Starts

(* ??UnmountFromSourceIndex.                                               *)
LEMMA UnmountStarts ==
  ASSUME NEW t, NEW k \in Kinds, NEW ds \in Seq(Drives), UnmountFromSourceIndex(t, k, ds)
  PROVE  Begins(t)
  <1> DEFINE p == [i \in 1..Len(ds) |-> UnmountIndex(ds[i])]
  <1>1. Command(t, (Before(k) \o p) \o After(k))
    BY DEF UnmountFromSourceIndex
  <1>2. \A i \in 1..Len(ds) : UnmountIndex(ds[i]) \in Simple(Known) /\ UnmountIndex(ds[i]).do \notin Breaks
    BY StepsMade DEF UnmountIndex, Breaks
  <1>3. p \in Seq(Simple(Known)) /\ \A i \in 1..Len(p) : p[i].do \notin Breaks
    BY <1>2, LenProperties
  <1>4. After(k) \in Seq(Simple(Known)) /\ (k = "HD" => Restores(After(k)))
    BY AfterFacts
  <1> HIDE DEF p
  <1>5. Proper(p \o After(k), Known) /\ (k = "HD" => Restores(p \o After(k)))
    BY <1>3, <1>4, ManyMore
  <1>6. /\ p \in Seq(Simple(Known) \union Branches(Known))
        /\ After(k) \in Seq(Simple(Known) \union Branches(Known))
    BY <1>3, <1>4, SeqMonotonic
  <1> QED  BY <1>1, <1>5, <1>6, Bracketed DEF Begins

(* unmountAll, by a command and by a signal.                               *)
LEMMA UnmountAllStarts ==
  ASSUME NEW t
  PROVE  /\ UnmountAll(t) => Begins(t)
         /\ Starts(<<Round(1), Report, Stop>>, Known)
  <1>1. /\ {Round(1), Report, HDDone, Stop} \subseteq Simple(Known) /\ HDStart \in Firsts(Known)
        /\ Round(1).do = "round" /\ Report.do = "report" /\ HDDone.do = "hdDone"
    BY StepsMade DEF Round, Report, HDDone
  <1> DEFINE s1 == Round(1)
             p == <<s1, Report, HDDone>>
             q == <<HDStart, s1, Report, HDDone>>
  <1>2. s1 \in Simple(Known) /\ s1.do = "round"
    BY <1>1
  <1> HIDE DEF s1, Report, HDDone, HDStart, Stop
  <1>3. /\ p \in Seq(Simple(Known)) /\ q # <<>> /\ Head(q) = HDStart /\ Tail(q) = p
        /\ q \in Seq(Simple(Known) \union Branches(Known) \union Firsts(Known))
    BY <1>1, <1>2
  <1>4. Restores(p)
    BY <1>1, <1>2 DEF Restores, Breaks, Branching
  <1>5. Starts(q, Known)
    <2> HIDE DEF p, q
    <2> QED  BY <1>3, <1>4, AllSimple DEF Starts
  <1>6. <<s1, Report, Stop>> \in Seq(Simple(Known))
    BY <1>1, <1>2
  <1>7. Starts(<<s1, Report, Stop>>, Known)
    BY <1>6, AllSimple DEF Starts
  <1> QED  BY <1>5, <1>7 DEF UnmountAll, Begins, s1

(* lowLevelCopy.                                                           *)
LEMMA CopyStarts ==
  ASSUME NEW t, NEW s \in Drives, NEW d \in Drives \union {Beyond}, LowLevelCopy(t, s, d)
  PROVE  Begins(t)
  <1> DEFINE kinds == {Kind[s], IF d = Beyond THEN "HD" ELSE Kind[d]}
             k == IF "HD" \in kinds THEN "HD" ELSE "DF"
             r == CopySource(s, d, After(k))
  <1>1. Command(t, (Before(k) \o <<r>>) \o After(k))
    <2> DEFINE after == IF "HD" \in kinds THEN <<HDDone>> ELSE <<>>
    <2>1. Command(t, ((IF after # <<>> THEN <<HDStart>> ELSE <<>>) \o <<CopySource(s, d, after)>>) \o after)
      BY DEF LowLevelCopy
    <2>2. after = After(k) /\ (IF after # <<>> THEN <<HDStart>> ELSE <<>>) = Before(k)
      BY DEF Before, After
    <2> HIDE DEF after
    <2> QED  BY <2>1, <2>2
  <1>2. k \in Kinds /\ After(k) \in Seq(Simple(Known)) /\ (k = "HD" => Restores(After(k)))
    BY AfterFacts DEF Kinds
  <1> HIDE DEF k
  <1>3. r \in Branches(Known) /\ r.orelse = After(k)
    <2>1. None \in Slottable /\ Kind[s] \in {Kind[c] : c \in Drives}
      BY FilesFacts
    <2> QED  BY <1>2, <2>1, StepsMade DEF CopySource
  <1> HIDE DEF r
  <1>4. Operates(k, <<r>>, Known)
    BY <1>3, OperatesMade
  <1> QED  BY <1>1, <1>2, <1>4, OperatesStarts DEF Begins

(* Every command of a keyboard.                                            *)
LEMMA KeyboardBegins ==
  ASSUME Types, TodosOK, NEW t, Keyboard(t)
  PROVE  Begins(t)
  <1>1. ASSUME NEW d \in Drives, UnmountFromSourceIndex(t, Kind[d], fillIndexes(d))
        PROVE  Begins(t)
    <2>1. Kind[d] \in Kinds /\ fillIndexes(d) \in Seq(Drives)
      BY DrivesFacts DEF fillIndexes
    <2> QED  BY <1>1, <2>1, UnmountStarts
  <1>2. ASSUME NEW k \in Kinds, UnmountFromSourceIndex(t, k, DrivesOf(k))
        PROVE  Begins(t)
    <2>1. DrivesOf(k) \in Seq(Drives)
      BY DrivesFacts
    <2> QED  BY <1>2, <2>1, UnmountStarts
  <1> QED  BY <1>1, <1>2, InsertStarts, ByDiskNoStarts, ManyStarts, EjectStarts, EjectAllStarts,
              UnmountAllStarts, CopyStarts DEF Keyboard

-----------------------------------------------------------------------------
(* The steps that touch the list or a file system.                         *)
LEMMA MountSucceeds ==
  ASSUME LInv, NEW t \in Threads, NEW m \in Media, NEW b \in BOOLEAN, t = "blockDevices",
         todo[t] # <<>>, Now(t) = Mount(m), m \notin Listed, m \notin mounted,
         mounted' = mounted \union {m}, mounts' = mounts + 1,
         Then(t, <<IF b THEN Unmount([medium |-> m, n |-> mounts + 1], FALSE)
                   ELSE Add([medium |-> m, n |-> mounts + 1])>>),
         UNCHANGED <<slot, listVars, pollVars, rerunEmulator, ended, counters, ghosts>>
  PROVE  LInv'
  <1> DEFINE mp == [medium |-> m, n |-> mounts + 1]
             s == IF b THEN Unmount(mp, FALSE) ELSE Add(mp)
             q == <<s>>
  <1>1. Types /\ TodosOK /\ LoadsOK /\ ListedOnce /\ UnlistsOK /\ MountsOK
    BY DEF LInv
  <1>2. /\ todo' = [todo EXCEPT ![t] = q] /\ todo'[t] = q /\ q # <<>> /\ Head(q) = s
        /\ \A u \in Threads : u # t => todo'[u] = todo[u]
    <2>1. todo' = [todo EXCEPT ![t] = q]
      BY DEF Then
    <2> HIDE DEF s
    <2> QED  BY <1>1, <2>1 DEF TodosOK
  <1>3. Head(q).do = (IF b THEN "unmount" ELSE "add") /\ Head(q).mp = mp /\ (b => ~Head(q).remove)
    <2>1. s.do = (IF b THEN "unmount" ELSE "add") /\ s.mp = mp /\ (b => ~s.remove)
      BY DEF Unmount, Add
    <2> HIDE DEF s, mp
    <2> QED  BY <1>2, <2>1
  <1>4. mounts \in Nat /\ Known = mounts
    <2>1. Now(t).do = "mount"
      BY DEF Mount
    <2> QED  BY <1>1, <2>1, HandFacts DEF Adding
  <1>5. Known' = IF b THEN mounts + 1 ELSE mounts
    <2>1. Adding' <=> ~b
      BY <1>2, <1>3 DEF Adding, Now
    <2> QED  BY <1>4, <2>1 DEF Known
  <1>6. Known' \in Nat /\ Known <= Known' /\ mounts' \in Nat
    BY <1>4, <1>5
  <1>7. Listed' = Listed /\ UNCHANGED <<heap, list, ranged, loaded, array, size, torn>>
    BY DEF Listed, listVars, array, size, ghosts
  <1>8. TodoOK(t)'
    <2>1. CASE b
      <3>1. mp \in MountpointsTo(Known')
        BY <1>4, <1>5, <2>1 DEF MountpointsTo
      <3>2. s \in Simple(Known')
        BY <2>1, <3>1, StepsMade
      <3> HIDE DEF s
      <3>3. q \in Seq(Simple(Known'))
        BY <3>2
      <3> HIDE DEF q
      <3>4. Proper(todo'[t], Known')
        BY <1>2, <3>3, AllSimple
      <3> QED  BY <3>4 DEF TodoOK
    <2>2. CASE ~b
      <3>1. todo'[t] = <<Add([medium |-> m, n |-> mounts'])>> /\ mounts' > 0
        BY <1>2, <1>4, <2>2
      <3>2. InHands(todo[t])'
        BY <3>1 DEF InHands
      <3> QED  BY <3>2 DEF TodoOK
    <2> QED  BY <2>1, <2>2
  <1> HIDE DEF q
  <1>9. TodosOK'
    BY <1>1, <1>2, <1>6, <1>8, TodosKept
  <1>10. Types'
    <2>1. MountpointsTo(Known) \subseteq MountpointsTo(Known')
      BY <1>4, <1>6, ProperGrows
    <2>2. Seq(MountpointsTo(Known) \union {None}) \subseteq Seq(MountpointsTo(Known') \union {None})
      BY <2>1, SeqMonotonic
    <2>3. Seq(Seq(MountpointsTo(Known) \union {None})) \subseteq Seq(Seq(MountpointsTo(Known') \union {None}))
      BY <2>2, SeqMonotonic
    <2>4. heap' \in Seq(Seq(MountpointsTo(Known') \union {None}))
      BY <1>1, <1>7, <2>3 DEF Types
    <2> QED  BY <1>1, <1>6, <1>7, <2>4 DEF Types, Within, pollVars, counters, ghosts
  <1>11. ListedOnce'
    BY <1>1, <1>7 DEF ListedOnce
  <1>12. ASSUME ~torn, NEW u \in Threads, todo'[u] # <<>>, Head(todo'[u]).do \in {"unlist", "load", "delete"},
                NEW i \in 1..size, array[i] = Head(todo'[u]).mp
         PROVE  array[i].medium \notin mounted'
    <2>1. u # t /\ todo'[u] = todo[u]
      BY <1>2, <1>3, <1>12
    <2>2. array[i].medium \notin mounted
      BY <1>1, <1>12, <2>1 DEF UnlistsOK, Now
    <2>3. array[i].medium # m
      BY DEF Listed
    <2> QED  BY <2>2, <2>3
  <1>13. UnlistsOK'
    BY <1>7, <1>12 DEF UnlistsOK, Now
  <1>14. MountsOK'
    <2>1. Held(m)'
      BY <1>2, <1>3 DEF Held, Now
    <2>2. ASSUME ~torn, NEW x \in mounted PROVE x \in Listed \/ x \in leaked
      BY <1>1, <2>2 DEF MountsOK, Held, Mount
    <2> QED  BY <1>7, <2>1, <2>2 DEF MountsOK, ghosts
  <1>15. AddsNew'
    BY <1>2, <1>3, <1>7 DEF AddsNew, Now
  <1>16. LoadsOK'
    BY <1>1, <1>2, <1>3, <1>7 DEF LoadsOK, Now
  <1> QED  BY <1>9, <1>10, <1>11, <1>13, <1>14, <1>15, <1>16 DEF LInv

(* What a goroutine that mounts or lists does, and where it comes from.    *)
LEMMA HandCases ==
  ASSUME Types, TodosOK, NEW t \in Threads, todo[t] # <<>>
  PROVE  /\ Now(t).do = "mount" => /\ t = "blockDevices" /\ Later(t) = <<>>
                                   /\ \E m \in Media : Now(t) = Mount(m)
                                   /\ ~Restores(todo[t])
         /\ Now(t).do \in {"add", "grow"} => /\ t = "blockDevices" /\ mounts > 0 /\ Adding
                                             /\ \E m \in Media : Now(t).mp = [medium |-> m, n |-> mounts]
                                             /\ ~Restores(todo[t])
         /\ Now(t).do \in {"unlist", "load", "delete"} => Now(t) \in Firsts(Known) /\ Proper(Later(t), Known)
         /\ Now(t).do = "hdStart" => Proper(Later(t), Known)
         /\ Now(t).do = "unmount" => /\ Now(t).mp \in MountpointsTo(Known) /\ Now(t).remove \in BOOLEAN
                                     /\ \/ Proper(Later(t), Known)
                                        \/ t = "blockDevices" /\ ~Now(t).remove /\ Mounts(Later(t))
  <1>1. ASSUME NEW m \in Media, Now(t) = Unmount([medium |-> m, n |-> 0], FALSE), Later(t) = <<Mount(m)>>
        PROVE  Now(t).mp \in MountpointsTo(Known) /\ ~Now(t).remove /\ Mounts(Later(t)) /\ Now(t).do = "unmount"
    <2>1. Known \in Nat
      BY HandFacts
    <2>2. Now(t).mp = [medium |-> m, n |-> 0] /\ Now(t).remove = FALSE /\ Now(t).do = "unmount"
      BY <1>1 DEF Unmount
    <2>3. Now(t).mp \in MountpointsTo(Known)
      BY <2>1, <2>2 DEF MountpointsTo
    <2> QED  BY <1>1, <2>2, <2>3 DEF Mounts
  <1>2. ASSUME Now(t) \in Simple(Known) \union Branches(Known), Proper(Later(t), Known)
        PROVE  /\ Now(t).do \notin {"mount", "add", "grow", "unlist", "load", "delete", "hdStart"}
               /\ Now(t).do = "unmount" => Now(t).mp \in MountpointsTo(Known) /\ Now(t).remove \in BOOLEAN
    BY <1>2, StepKinds
  <1>3. ASSUME Now(t) \in Firsts(Known) PROVE Now(t).do \in {"unlist", "load", "delete", "hdStart"}
    BY <1>3 DEF Firsts
  <1>4. ASSUME NEW s, Later(t) = <<>>, Now(t) = s, s.do # "hdDone" PROVE ~Restores(todo[t])
    <2>1. TodoOK(t)
      BY DEF TodosOK
    <2>2. \E S : todo[t] \in Seq(S)
      <3>1. ASSUME NEW q, InHands(q) PROVE \E S : q \in Seq(S)
        <4>1. ASSUME NEW x, q = <<x>> PROVE \E S : q \in Seq(S)
          <5>1. q \in Seq({x})
            BY <4>1
          <5> QED  BY <5>1
        <4>2. ASSUME NEW x, NEW y, q = <<x, y>> PROVE \E S : q \in Seq(S)
          <5>1. q \in Seq({x, y})
            BY <4>2
          <5> QED  BY <5>1
        <4> QED  BY <3>1, <4>1, <4>2, Zenon DEF InHands
      <3> QED  BY <2>1, <3>1 DEF TodoOK, Proper
    <2>3. ~Restores(<<>>)
      BY DEF Restores
    <2>4. Tail(todo[t]) = <<>>
      BY <1>4 DEF Later
    <2> QED  BY <1>4, <2>2, <2>3, <2>4, RestoresAfter DEF Now
  <1>5. ASSUME NEW m \in Media, Now(t) = Mount(m), Later(t) = <<>>, t = "blockDevices"
        PROVE  Now(t).do = "mount" /\ ~Restores(todo[t])
    BY <1>4, <1>5 DEF Mount
  <1>6. ASSUME NEW m \in Media, Later(t) = <<>>, t = "blockDevices",
               \/ Now(t) = Add([medium |-> m, n |-> mounts])
               \/ Now(t) = Grow([medium |-> m, n |-> mounts])
        PROVE  /\ Now(t).do \in {"add", "grow"} /\ ~Restores(todo[t]) /\ Adding
               /\ Now(t).mp = [medium |-> m, n |-> mounts]
    <2>1. Now(t).do \in {"add", "grow"} /\ Now(t).mp = [medium |-> m, n |-> mounts]
      BY <1>6 DEF Add, Grow
    <2> QED  BY <1>4, <1>6, <2>1 DEF Adding
  <1>7. CASE Now(t) \in Simple(Known) \union Branches(Known) /\ Proper(Later(t), Known)
    BY <1>2, <1>7
  <1>8. CASE Now(t) \in Firsts(Known) /\ Proper(Later(t), Known)
    BY <1>3, <1>8
  <1>9. CASE t = "blockDevices" /\ \E m \in Media : Now(t) = Mount(m) /\ Later(t) = <<>>
    <2>1. PICK m \in Media : Now(t) = Mount(m) /\ Later(t) = <<>>
      BY <1>9
    <2>2. Now(t).do = "mount" /\ ~Restores(todo[t])
      BY <1>5, <1>9, <2>1
    <2> QED  BY <1>9, <2>1, <2>2
  <1>10. CASE t = "blockDevices" /\ \E m \in Media : /\ Now(t) = Unmount([medium |-> m, n |-> 0], FALSE)
                                                     /\ Later(t) = <<Mount(m)>>
    <2>1. PICK m \in Media : /\ Now(t) = Unmount([medium |-> m, n |-> 0], FALSE)
                             /\ Later(t) = <<Mount(m)>>
      BY <1>10
    <2>2. Now(t).mp \in MountpointsTo(Known) /\ ~Now(t).remove /\ Mounts(Later(t)) /\ Now(t).do = "unmount"
      BY <1>1, <2>1
    <2>3. Now(t).remove \in BOOLEAN
      BY <2>1 DEF Unmount
    <2> QED  BY <1>10, <2>2, <2>3
  <1>11. CASE /\ t = "blockDevices"
              /\ \E m \in Media : /\ mounts > 0 /\ Later(t) = <<>>
                                  /\ \/ Now(t) = Add([medium |-> m, n |-> mounts])
                                     \/ Now(t) = Grow([medium |-> m, n |-> mounts])
    <2>1. PICK m \in Media : /\ Later(t) = <<>> /\ mounts > 0
                             /\ \/ Now(t) = Add([medium |-> m, n |-> mounts])
                                \/ Now(t) = Grow([medium |-> m, n |-> mounts])
      BY <1>11
    <2>2. /\ Now(t).do \in {"add", "grow"} /\ ~Restores(todo[t]) /\ Adding
          /\ Now(t).mp = [medium |-> m, n |-> mounts]
      BY <1>6, <1>11, <2>1
    <2> QED  BY <1>11, <2>1, <2>2
  <1> QED  BY <1>7, <1>8, <1>9, <1>10, <1>11, NowCases

(* setupAddMountpoint, however it goes.                                    *)
LEMMA MountStep ==
  ASSUME LInv, NEW t \in Threads, MountMountpoint(t)
  PROVE  LInv' /\ (RestartsOK => RestartsOK')
  <1>0. Types /\ TodosOK /\ DOMAIN todo = Threads
    BY DEF LInv, TodosOK
  <1>1. todo[t] # <<>> /\ Now(t).do = "mount"
    BY DEF MountMountpoint, Doing, Now
  <1>2. t = "blockDevices" /\ Later(t) = <<>> /\ ~Restores(todo[t])
    BY <1>0, <1>1, HandCases
  <1>3. PICK m \in Media : Now(t) = Mount(m)
    BY <1>0, <1>1, HandCases
  <1>4. Now(t).m = m
    BY <1>3 DEF Mount
  <1> DEFINE empty == Files[m] = <<>> /\ m \notin Dirs /\ Default[m] # None
             mp == [medium |-> m, n |-> mounts + 1]
             listed == GetMountpointByDevicePathname(m) # 0
  <1>5. \/ Goes(t, Later(t))
        \/ /\ Fails /\ Then(t, Later(t))
           /\ UNCHANGED <<slot, listAndPolls, rerunEmulator, ended, plugged, plugs, commands,
                          copies, overlaps, ghosts>>
        \/ /\ ~listed /\ m \notin mounted
           /\ mounted' = mounted \union {m} /\ mounts' = mounts + 1
           /\ Then(t, <<IF empty THEN Unmount(mp, FALSE) ELSE Add(mp)>>)
           /\ UNCHANGED <<slot, listVars, pollVars, rerunEmulator, ended, counters, ghosts>>
    BY <1>4 DEF MountMountpoint
  <1>6. CASE \/ Goes(t, Later(t))
             \/ /\ Fails /\ Then(t, Later(t))
                /\ UNCHANGED <<slot, listAndPolls, rerunEmulator, ended, plugged, plugs, commands,
                               copies, overlaps, ghosts>>
    <2>1. /\ todo' = [todo EXCEPT ![t] = <<>>]
          /\ UNCHANGED <<heap, list, loaded, torn, mounted, mounts, leaked>>
          /\ rerunEmulator' = rerunEmulator /\ ended' = ended
      BY <1>2, <1>6 DEF Goes, Then, listAndPolls, listVars, ghosts
    <2>2. Starts(<<>>, Known)
      BY EmptySeq, AllSimple DEF Starts
    <2>3. /\ Known' = Known /\ TodosOK' /\ LoadsOK'
          /\ ListedOnce' /\ UnlistsOK' /\ MountsOK' /\ AddsNew'
      BY <1>1, <2>1, <2>2, StartsKeeps
    <2>4. Types'
      <3>1. CASE Goes(t, Later(t))
        BY <1>0, <2>3, <3>1, GoesTypes
      <3>2. CASE /\ Fails
                 /\ UNCHANGED <<slot, listAndPolls, rerunEmulator, ended, plugged, plugs, commands,
                                copies, overlaps, ghosts>>
        BY <1>0, <2>3, <3>2 DEF Types, Within, array, size, Fails, listAndPolls, listVars, pollVars, ghosts
      <3> QED  BY <1>6, <3>1, <3>2
    <2>5. RestartsOK => RestartsOK'
      BY <1>0, <1>2, <2>1, RestartsKept
    <2> QED  BY <2>3, <2>4, <2>5 DEF LInv
  <1>7. CASE /\ ~listed /\ m \notin mounted
             /\ mounted' = mounted \union {m} /\ mounts' = mounts + 1
             /\ Then(t, <<IF empty THEN Unmount(mp, FALSE) ELSE Add(mp)>>)
             /\ UNCHANGED <<slot, listVars, pollVars, rerunEmulator, ended, counters, ghosts>>
    <2>1. m \notin Listed
      <3>1. ~ended
        BY DEF MountMountpoint, Doing
      <3>2. array \in Seq([medium : Media, n : Nat] \union {None}) /\ size \in 0..Len(array)
        BY <1>0, <3>1, ListFacts
      <3> QED  BY <1>7, <3>2, Found DEF Listed
    <2>2. empty \in BOOLEAN
      OBVIOUS
    <2> HIDE DEF empty
    <2>3. LInv'
      BY <1>1, <1>2, <1>3, <1>7, <2>1, <2>2, MountSucceeds
    <2>4. RestartsOK => RestartsOK'
      <3> DEFINE q == <<IF empty THEN Unmount(mp, FALSE) ELSE Add(mp)>>
      <3>1. /\ todo' = [todo EXCEPT ![t] = q] /\ rerunEmulator' = rerunEmulator /\ ended' = ended
            /\ Head(q).do # "hdStart"
        BY <1>7 DEF Then, Unmount, Add
      <3> HIDE DEF q
      <3> QED  BY <1>0, <1>2, <3>1, RestartsKept
    <2> QED  BY <2>3, <2>4
  <1> QED  BY <1>5, <1>6, <1>7

(* The array after AddMountpoint, of which n elements were used.           *)
Grown(a, n, mp) ==
    IF n < Len(a) THEN [a EXCEPT ![n + 1] = mp]
    ELSE a \o [i \in 1..(IF n = 0 THEN 1 ELSE n) |-> mp]

(* The grown array holds what it held, and the new mountpoint.             *)
LEMMA ListGrows ==
  ASSUME NEW T, NEW a \in Seq(T), NEW n \in 0..Len(a), NEW mp \in T
  PROVE  /\ Grown(a, n, mp) \in Seq(T) /\ n + 1 \in 0..Len(Grown(a, n, mp))
         /\ Len(a) <= Len(Grown(a, n, mp))
         /\ Grown(a, n, mp)[n + 1] = mp /\ \A i \in 1..n : Grown(a, n, mp)[i] = a[i]
  <1>1. Len(a) \in Nat /\ n \in Nat /\ n <= Len(a)
    BY LenProperties
  <1>2. CASE n < Len(a)
    BY <1>1, <1>2 DEF Grown
  <1>3. CASE ~(n < Len(a))
    <2> DEFINE c == IF n = 0 THEN 1 ELSE n
               more == [i \in 1..c |-> mp]
               g == Grown(a, n, mp)
    <2>1. c \in Nat /\ c >= 1 /\ n = Len(a)
      BY <1>1, <1>3
    <2> HIDE DEF c
    <2>2. more \in Seq(T) /\ Len(more) = c /\ \A i \in 1..c : more[i] = mp
      BY <2>1
    <2> HIDE DEF more
    <2>3. g = a \o more
      BY <1>3 DEF more, c, Grown
    <2> HIDE DEF g
    <2>4. /\ g \in Seq(T) /\ Len(g) = Len(a) + c
          /\ \A i \in 1..Len(a) + c : g[i] = IF i <= Len(a) THEN a[i] ELSE more[i - Len(a)]
      <3>1. /\ a \o more \in Seq(T) /\ Len(a \o more) = Len(a) + c
            /\ \A i \in 1..Len(a) + c :
                  (a \o more)[i] = IF i <= Len(a) THEN a[i] ELSE more[i - Len(a)]
        BY <2>2, ConcatProperties
      <3> QED  BY <2>3, <3>1
    <2>5. g[n + 1] = mp
      <3>1. n + 1 \in 1..Len(a) + c /\ ~(n + 1 <= Len(a)) /\ n + 1 - Len(a) = 1
        BY <1>1, <2>1
      <3>2. 1 \in 1..c
        BY <2>1
      <3> QED  BY <2>2, <2>4, <3>1, <3>2
    <2>6. \A i \in 1..n : g[i] = a[i]
      BY <1>1, <2>1, <2>4
    <2> QED  BY <1>1, <2>1, <2>4, <2>5, <2>6 DEF g
  <1> QED  BY <1>2, <1>3

(* What AddMountpoint makes of the arrays hp, and the slice s it stores.   *)
Appends(hp, h, mp, hq, s) ==
    \/ /\ h.len < Len(hp[h.at]) /\ s = [h EXCEPT !.len = @ + 1]
       /\ hq = [hp EXCEPT ![h.at] = Grown(hp[h.at], h.len, mp)]
    \/ /\ h.len = Len(hp[h.at]) /\ s = [at |-> Len(hp) + 1, len |-> h.len + 1]
       /\ hq = Append(hp, Grown(hp[h.at], h.len, mp))

(* No array shrinks, and s has what h had and the new mountpoint.          *)
LEMMA HeapGrows ==
  ASSUME NEW T, NEW hp \in Seq(Seq(T)), NEW h \in Slices, h.at \in 1..Len(hp),
         h.len <= Len(hp[h.at]), NEW mp \in T, NEW hq, NEW s, Appends(hp, h, mp, hq, s)
  PROVE  /\ hq \in Seq(Seq(T)) /\ Len(hp) <= Len(hq)
         /\ \A k \in 1..Len(hp) : Len(hp[k]) <= Len(hq[k])
         /\ s \in Slices /\ s.at \in 1..Len(hq) /\ s.len = h.len + 1 /\ s.len <= Len(hq[s.at])
         /\ hq[s.at][h.len + 1] = mp /\ \A i \in 1..h.len : hq[s.at][i] = hp[h.at][i]
  <1> DEFINE a == hp[h.at]
             g == Grown(a, h.len, mp)
  <1>1. a \in Seq(T) /\ Len(a) \in Nat /\ Len(hp) \in Nat
    BY LenProperties
  <1>2. h.at \in Nat /\ h.len \in Nat /\ h.len \in 0..Len(a)
    BY <1>1 DEF Slices
  <1> HIDE DEF a
  <1>3. /\ g \in Seq(T) /\ h.len + 1 \in 0..Len(g) /\ Len(a) <= Len(g)
        /\ g[h.len + 1] = mp /\ \A i \in 1..h.len : g[i] = a[i]
    <2>1. PICK n : n = h.len
      OBVIOUS
    <2>2. n \in 0..Len(a) /\ a \in Seq(T) /\ mp \in T
      BY <1>1, <1>2, <2>1
    <2>3. /\ Grown(a, n, mp) \in Seq(T) /\ n + 1 \in 0..Len(Grown(a, n, mp))
          /\ Len(a) <= Len(Grown(a, n, mp))
          /\ Grown(a, n, mp)[n + 1] = mp /\ \A i \in 1..n : Grown(a, n, mp)[i] = a[i]
      BY <2>2, ListGrows
    <2> QED  BY <2>1, <2>3
  <1> HIDE DEF g
  <1>4. Len(g) \in Nat
    BY <1>3, LenProperties
  <1>5. \A k \in 1..Len(hp) : Len(hp[k]) \in Nat
    BY LenProperties
  <1>6. CASE hq = [hp EXCEPT ![h.at] = g] /\ s = [h EXCEPT !.len = @ + 1]
    <2>1. /\ hq \in Seq(Seq(T)) /\ Len(hq) = Len(hp) /\ hq[h.at] = g
          /\ \A k \in 1..Len(hp) : k # h.at => hq[k] = hp[k]
      <3>1. PICK k : k = h.at
        OBVIOUS
      <3>2. PICK S : S = Seq(T)
        OBVIOUS
      <3>3. k \in 1..Len(hp) /\ g \in S /\ hp \in Seq(S) /\ hq = [hp EXCEPT ![k] = g]
        BY <1>3, <1>6, <3>1, <3>2
      <3>4. /\ hq \in Seq(S) /\ Len(hq) = Len(hp) /\ hq[k] = g
            /\ \A j \in 1..Len(hp) : j # k => hq[j] = hp[j]
        BY <3>3, ExceptSeq
      <3> QED  BY <3>1, <3>2, <3>4
    <2>2. s \in Slices /\ s.at = h.at /\ s.len = h.len + 1
      <3>1. h = [at |-> h.at, len |-> h.len]
        BY DEF Slices
      <3>2. s = [at |-> h.at, len |-> h.len + 1]
        BY <1>6, <3>1
      <3> QED  BY <1>2, <3>2 DEF Slices
    <2>3. \A k \in 1..Len(hp) : Len(hp[k]) <= Len(hq[k])
      <3>1. ASSUME NEW k \in 1..Len(hp), k = h.at PROVE Len(hp[k]) <= Len(hq[k])
        BY <1>3, <2>1, <3>1 DEF a
      <3>2. ASSUME NEW k \in 1..Len(hp), k # h.at PROVE Len(hp[k]) <= Len(hq[k])
        BY <1>5, <2>1, <3>2
      <3> QED  BY <3>1, <3>2
    <2> QED  BY <1>1, <1>2, <1>3, <2>1, <2>2, <2>3 DEF a
  <1>7. CASE hq = Append(hp, g) /\ s = [at |-> Len(hp) + 1, len |-> h.len + 1]
    <2>1. /\ hq \in Seq(Seq(T)) /\ Len(hq) = Len(hp) + 1 /\ hq[Len(hp) + 1] = g
          /\ \A k \in 1..Len(hp) : hq[k] = hp[k]
      BY <1>1, <1>3, <1>7, AppendProperties
    <2>2. s \in Slices /\ s.at = Len(hp) + 1 /\ s.len = h.len + 1
      BY <1>1, <1>2, <1>7 DEF Slices
    <2>3. \A k \in 1..Len(hp) : Len(hp[k]) <= Len(hq[k])
      BY <1>5, <2>1
    <2>4. hq[s.at] = g /\ s.at \in 1..Len(hq) /\ Len(hp) <= Len(hq)
      BY <1>1, <2>1, <2>2
    <2> QED  BY <1>2, <1>3, <2>1, <2>2, <2>3, <2>4 DEF a
  <1> QED  BY <1>6, <1>7 DEF a, g, Appends

(* A list that is stored over arrays that have not shrunk has its types.   *)
LEMMA StoresTypes ==
  ASSUME Types, NEW t \in Threads, NEW s \in Slices, NEW tears \in BOOLEAN, Stores(t, s, tears),
         heap' \in Seq(Seq(MountpointsTo(Known') \union {None})), Len(heap) <= Len(heap'),
         \A k \in 1..Len(heap) : Len(heap[k]) <= Len(heap'[k]),
         s.at \in 1..Len(heap'), s.len <= Len(heap'[s.at]), disturbed' \subseteq Threads
  PROVE  Types'
  <1>1. /\ list' = s /\ loaded' = [loaded EXCEPT ![t] = NoSlice] /\ torn' = (torn \/ tears)
        /\ ended' = \E i \in 1..s.len : heap'[s.at][i] = None
        /\ UNCHANGED <<slot, ranged, mounted, mounts, pollVars, rerunEmulator, counters, leaked>>
    BY DEF Stores
  <1>2. Len(heap) \in Nat /\ Len(heap') \in Nat
    BY LenProperties DEF Types
  <1>3. \A k \in 1..Len(heap) : Len(heap[k]) \in Nat
    BY LenProperties DEF Types
  <1>4. \A k \in 1..Len(heap') : Len(heap'[k]) \in Nat
    BY LenProperties
  <1>5. ASSUME NEW r, Within(r)
        PROVE  r \in Slices /\ r.at \in 1..Len(heap') /\ r.len <= Len(heap'[r.at])
    <2>1. r \in Slices /\ r.at \in 1..Len(heap) /\ r.len <= Len(heap[r.at]) /\ r.len \in Nat
      BY <1>5 DEF Within, Slices
    <2>2. r.at \in 1..Len(heap')
      BY <1>2, <2>1
    <2> QED  BY <1>3, <1>4, <2>1, <2>2
  <1>6. NoSlice \in Slices /\ NoSlice.at \in 1..Len(heap') /\ NoSlice.len <= Len(heap'[NoSlice.at])
    BY <1>5, NilWithin
  <1>7. \A u \in Threads : /\ ranged'[u] = ranged[u]
                           /\ loaded'[u] = NoSlice \/ loaded'[u] = loaded[u]
    BY <1>1 DEF Types
  <1>8. \A u \in Threads : Within(ranged[u])' /\ Within(loaded[u])'
    BY <1>5, <1>6, <1>7 DEF Types, Within
  <1>9. Within(list)'
    BY <1>1 DEF Within
  <1>10. (ended \/ \A i \in 1..size : array[i] # None)'
    BY <1>1 DEF array, size
  <1>11. ended' \in BOOLEAN /\ torn' \in BOOLEAN
    BY <1>1
  <1>12. DOMAIN ranged' = Threads /\ DOMAIN loaded' = Threads
    BY <1>1 DEF Types
  <1>13. /\ slot' \in [Drives -> Slottable] /\ mounts' \in Nat
         /\ mounted' \subseteq Media /\ leaked' \subseteq Media /\ plugged' \subseteq Media \union Devices
         /\ blocks' \subseteq Media /\ oldBlocks' \subseteq Media
         /\ currentFiles' \subseteq Devices /\ oldFiles' \subseteq Devices
         /\ rerunEmulator' \in BOOLEAN
         /\ {plugs, commands, failures, copies, overlaps}' \subseteq Nat
    BY <1>1 DEF Types, pollVars, counters
  <1> QED  BY <1>8, <1>9, <1>10, <1>11, <1>12, <1>13 DEF Types

(* After AddMountpoint, the default file; if the drive is taken, the       *)
(* mountpoint goes again.                                                  *)
LEMMA DefaultStarts ==
  ASSUME NEW l, NEW m \in Media, NEW mp \in MountpointsTo(l), NEW f \in Slottable
  PROVE  LET k == Kind[Home[m]]
         IN Starts(Before(k) \o <<Attach(Home[m], f, <<Unmount(mp, TRUE)>> \o After(k))>> \o After(k), l)
  <1> DEFINE k == Kind[Home[m]]
             u == Unmount(mp, TRUE)
             back == <<u>> \o After(k)
             s == Attach(Home[m], f, back)
  <1>1. k \in Kinds /\ Home[m] \in Drives
    BY FilesFacts
  <1>2. u \in Simple(l) /\ u.do = "unmount"
    BY StepsMade DEF Unmount
  <1>3. After(k) \in Seq(Simple(l)) /\ (k = "HD" => Restores(After(k)))
    BY AfterFacts
  <1> HIDE DEF u, k
  <1>4. back \in Seq(Simple(l)) /\ (k = "HD" => RestoresSoon(back))
    <2>1. <<u>> \in Seq(Simple(l)) /\ \A i \in 1..Len(<<u>>) : <<u>>[i].do \notin Breaks
      BY <1>2 DEF Breaks
    <2>2. back \in Seq(Simple(l)) /\ (k = "HD" => Restores(back))
      BY <1>3, <2>1, ManyMore
    <2> QED  BY <2>2, SimpleRestores
  <1> HIDE DEF back
  <1>5. s \in Branches(l) /\ s.do = "attach" /\ s.orelse = back
    <2>1. k \in {Kind[c] : c \in Drives}
      BY <1>1 DEF k
    <2> QED  BY <1>1, <1>4, <2>1, StepsMade DEF Attach
  <1> HIDE DEF s
  <1>6. Operates(k, <<s>>, l)
    BY <1>4, <1>5 DEF Operates, Loops, Breaks
  <1>7. Starts((Before(k) \o <<s>>) \o After(k), l)
    BY <1>1, <1>3, <1>6, OperatesStarts
  <1> QED  BY <1>7 DEF s, back, u, k

(* AddMountpoint loads the slice: the mountpoint stays in hand.            *)
LEMMA LoadToAddStep ==
  ASSUME LInv, NEW t \in Threads, LoadToAdd(t)
  PROVE  LInv' /\ (RestartsOK => RestartsOK')
  <1>1. /\ Types /\ TodosOK /\ LoadsOK /\ ListedOnce /\ UnlistsOK /\ MountsOK /\ AddsNew
        /\ DOMAIN todo = Threads
    BY DEF LInv, TodosOK
  <1>2. todo[t] # <<>> /\ Now(t).do = "add"
    BY DEF LoadToAdd, Doing, Now
  <1>3. t = "blockDevices" /\ mounts > 0 /\ Adding /\ ~Restores(todo[t])
    BY <1>1, <1>2, HandCases
  <1>4. PICK m \in Media : Now(t).mp = [medium |-> m, n |-> mounts]
    BY <1>1, <1>2, HandCases
  <1> DEFINE mp == [medium |-> m, n |-> mounts]
             q  == <<Grow(mp)>>
  <1>5. /\ loaded' = [loaded EXCEPT ![t] = list] /\ todo' = [todo EXCEPT ![t] = q]
        /\ UNCHANGED <<slot, heap, list, ranged, mounted, mounts, pollVars, rerunEmulator, ended,
                      counters, ghosts>>
    BY <1>4 DEF LoadToAdd, Then
  <1>6. q # <<>> /\ Head(q) = Grow(mp) /\ Grow(mp).do = "grow" /\ Grow(mp).mp = mp /\ mp.medium = m
    BY DEF Grow
  <1>7. InHands(todo[t])'
    BY <1>1, <1>3, <1>5 DEF InHands
  <1> HIDE DEF q, mp
  <1>8. /\ todo'[t] = q /\ Now(t)' = Grow(mp) /\ \A u \in Threads : u # t => todo'[u] = todo[u]
        /\ "blockDevices" \in Threads
    BY <1>1, <1>5, <1>6 DEF Now, Threads
  <1>9. Adding' /\ Known' = Known /\ Known \in Nat
    <2>1. Adding'
      BY <1>3, <1>6, <1>8 DEF Adding
    <2> QED  BY <1>1, <1>3, <1>5, <2>1, HandFacts DEF Known
  <1>10. array' = array /\ size' = size /\ Listed' = Listed
    BY <1>5 DEF array, size, Listed
  <1>11. Types'
    BY <1>1, <1>5, <1>9, <1>10 DEF Types, Within, pollVars, counters, ghosts
  <1>12. TodosOK'
    <2>1. TodoOK(t)'
      BY <1>3, <1>7, <1>8 DEF TodoOK
    <2>2. Known' \in Nat /\ Known <= Known'
      BY <1>9
    <2> QED  BY <1>1, <1>3, <1>5, <2>1, <2>2, TodosKept
  <1>13. ListedOnce' /\ LoadsOK'
    BY <1>1, <1>5, <1>6, <1>8, <1>10 DEF ListedOnce, LoadsOK, ghosts, Now
  <1>14. UnlistsOK'
    BY <1>1, <1>5, <1>6, <1>8, <1>10 DEF UnlistsOK, ghosts, Now
  <1>15. AddsNew'
    <2>1. Now("blockDevices")'.mp.medium = Now("blockDevices").mp.medium
      BY <1>3, <1>4, <1>6, <1>8 DEF mp
    <2> QED  BY <1>1, <1>3, <1>5, <1>10, <2>1 DEF AddsNew, ghosts
  <1>16. MountsOK'
    <2>1. ASSUME NEW x, Held(x) PROVE Held(x)'
      <3>1. x = m
        BY <1>2, <1>3, <1>4, <2>1 DEF Held
      <3> QED  BY <1>3, <1>6, <1>8, <3>1 DEF Held
    <2> QED  BY <1>1, <1>5, <1>10, <2>1 DEF MountsOK, ghosts
  <1>17. RestartsOK => RestartsOK'
    BY <1>1, <1>3, <1>5, <1>6, RestartsKept
  <1> QED  BY <1>11, <1>12, <1>13, <1>14, <1>15, <1>16, <1>17 DEF LInv

(* AddMountpoint stores what it appended to.                               *)
LEMMA GrowStep ==
  ASSUME LInv, NEW t \in Threads, AddMountpoint(t)
  PROVE  LInv' /\ (RestartsOK => RestartsOK')
  <1>1. /\ Types /\ TodosOK /\ LoadsOK /\ ListedOnce /\ UnlistsOK /\ MountsOK /\ AddsNew
        /\ DOMAIN todo = Threads
    BY DEF LInv, TodosOK
  <1>2. todo[t] # <<>> /\ Now(t).do = "grow" /\ ~ended
    BY DEF AddMountpoint, Doing, Now
  <1>3. t = "blockDevices" /\ mounts > 0 /\ Adding /\ ~Restores(todo[t])
    BY <1>1, <1>2, HandCases
  <1>4. PICK m \in Media : Now(t).mp = [medium |-> m, n |-> mounts]
    BY <1>1, <1>2, HandCases
  <1> DEFINE mp == [medium |-> m, n |-> mounts]
             h == loaded[t]
             tears == h # list
             q == AttachDefault(mp)
             T == MountpointsTo(mounts) \union {None}
  <1>5. mp.medium = m /\ mp.n = mounts
    OBVIOUS
  <1>6. mounts \in Nat /\ Known = mounts - 1 /\ Known \in Nat
    BY <1>1, <1>3, HandFacts
  <1>7. mp \in MountpointsTo(mounts)
    BY <1>6 DEF MountpointsTo
  <1>8. Starts(q, mounts)
    <2> DEFINE f == IF m \in Dirs THEN m ELSE Default[m]
               default == Before(Kind[Home[m]])
                          \o <<Attach(Home[m], f, <<Unmount(mp, TRUE)>> \o After(Kind[Home[m]]))>>
                          \o After(Kind[Home[m]])
    <2>1. f \in Slottable
      BY FilesFacts
    <2>2. Starts(<<>>, mounts)
      BY EmptySeq, AllSimple DEF Starts
    <2>3. q = IF f = None THEN <<>> ELSE default
      BY <1>5 DEF AttachDefault
    <2> HIDE DEF mp, f, q
    <2>4. Starts(default, mounts)
      BY <1>7, <2>1, DefaultStarts
    <2> HIDE DEF default
    <2> QED  BY <2>2, <2>3, <2>4
  <1>9. PICK s : /\ Appends(heap, h, mp, heap', s) /\ Stores(t, s, tears)
                 /\ disturbed' = Threads /\ todo' = [todo EXCEPT ![t] = q]
    <2>1. /\ disturbed' = Threads /\ todo' = [todo EXCEPT ![t] = q]
          /\ \/ /\ h.len < Len(heap[h.at])
                /\ heap' = [heap EXCEPT ![h.at] = [heap[h.at] EXCEPT ![h.len + 1] = mp]]
                /\ Stores(t, [h EXCEPT !.len = @ + 1], tears)
             \/ /\ h.len = Len(heap[h.at])
                /\ heap' = Append(heap, heap[h.at] \o [i \in 1..(IF h.len = 0 THEN 1 ELSE h.len) |-> mp])
                /\ Stores(t, [at |-> Len(heap) + 1, len |-> h.len + 1], tears)
      BY <1>4 DEF AddMountpoint, Then
    <2>2. h.len \in Nat /\ Len(heap[h.at]) \in Nat
      BY <1>1, LenProperties DEF Types, Within, Slices
    <2>3. CASE /\ h.len < Len(heap[h.at])
               /\ heap' = [heap EXCEPT ![h.at] = [heap[h.at] EXCEPT ![h.len + 1] = mp]]
               /\ Stores(t, [h EXCEPT !.len = @ + 1], tears)
      <3> HIDE DEF h, mp, q, tears
      <3>1. Appends(heap, h, mp, heap', [h EXCEPT !.len = @ + 1])
        BY <2>3 DEF Appends, Grown
      <3> QED  BY <2>1, <2>3, <3>1
    <2>4. CASE /\ h.len = Len(heap[h.at])
               /\ heap' = Append(heap, heap[h.at] \o [i \in 1..(IF h.len = 0 THEN 1 ELSE h.len) |-> mp])
               /\ Stores(t, [at |-> Len(heap) + 1, len |-> h.len + 1], tears)
      <3> HIDE DEF h, mp, q, tears
      <3>1. ~(h.len < Len(heap[h.at]))
        BY <2>2, <2>4
      <3>2. Appends(heap, h, mp, heap', [at |-> Len(heap) + 1, len |-> h.len + 1])
        BY <2>4, <3>1 DEF Appends, Grown
      <3> QED  BY <2>1, <2>4, <3>2
    <2> QED  BY <2>1, <2>3, <2>4
  <1> HIDE DEF q, mp
  <1>10. /\ todo'[t] = q /\ \A u \in Threads : u # t => todo'[u] = todo[u]
         /\ q # <<>> => /\ Head(q).do \notin {"add", "grow", "unlist", "load", "delete", "mount"}
                        /\ (Head(q).do = "hdStart" => Restores(Tail(q)))
    BY <1>1, <1>8, <1>9, StartsWith
  <1>11. /\ list' = s /\ loaded' = [loaded EXCEPT ![t] = NoSlice] /\ torn' = (torn \/ tears)
         /\ UNCHANGED <<slot, ranged, mounted, mounts, pollVars, rerunEmulator, counters, leaked>>
    BY <1>9 DEF Stores
  <1>12. Known' = mounts /\ ~Adding'
    <2>1. ~Adding'
      BY <1>3, <1>10 DEF Adding, Now
    <2> QED  BY <1>11, <2>1 DEF Known
  <1>13. heap \in Seq(Seq(T)) /\ mp \in T
    <2>1. MountpointsTo(Known) \subseteq MountpointsTo(mounts)
      <3>1. Known <= mounts
        BY <1>6
      <3> QED  BY <1>6, <3>1, ProperGrows
    <2>2. Seq(MountpointsTo(Known) \union {None}) \subseteq Seq(T)
      BY <2>1, SeqMonotonic
    <2>3. Seq(Seq(MountpointsTo(Known) \union {None})) \subseteq Seq(Seq(T))
      <3> HIDE DEF T
      <3> QED  BY <2>2, SeqMonotonic
    <2> QED  BY <1>1, <1>7, <2>3 DEF Types
  <1>14. h \in Slices /\ h.at \in 1..Len(heap) /\ h.len <= Len(heap[h.at])
    BY <1>1 DEF Types, Within
  <1>15. /\ heap' \in Seq(Seq(T)) /\ Len(heap) <= Len(heap')
         /\ \A k \in 1..Len(heap) : Len(heap[k]) <= Len(heap'[k])
         /\ s \in Slices /\ s.at \in 1..Len(heap') /\ s.len = h.len + 1 /\ s.len <= Len(heap'[s.at])
         /\ heap'[s.at][h.len + 1] = mp /\ \A i \in 1..h.len : heap'[s.at][i] = heap[h.at][i]
    <2> HIDE DEF T, h
    <2> QED  BY <1>9, <1>13, <1>14, HeapGrows
  <1>16. Types'
    <2>1. tears \in BOOLEAN
      OBVIOUS
    <2> HIDE DEF tears, h
    <2>2. heap' \in Seq(Seq(MountpointsTo(Known') \union {None}))
      BY <1>12, <1>15
    <2> QED  BY <1>1, <1>9, <1>15, <2>1, <2>2, StoresTypes
  <1>17. TodosOK'
    <2>1. TodoOK(t)'
      <3>1. HDStart \in Firsts(mounts)
        BY StepsMade
      <3> QED  BY <1>8, <1>10, <1>12, <3>1 DEF TodoOK, Starts, Now, Later
    <2>2. Known' \in Nat /\ Known <= Known'
      BY <1>6, <1>12
    <2> QED  BY <1>1, <1>3, <1>9, <2>1, <2>2, TodosKept
  <1>18. LoadsOK'
    <2>1. \A u \in Threads : u # t => loaded'[u] = loaded[u]
      BY <1>1, <1>11 DEF Types
    <2> QED  BY <1>1, <1>10, <2>1 DEF LoadsOK, Now
  <1>19. AddsNew'
    BY <1>12 DEF AddsNew
  <1>20. RestartsOK => RestartsOK'
    <2>1. rerunEmulator' = rerunEmulator /\ (ended => ended')
      BY <1>2, <1>11
    <2> QED  BY <1>1, <1>3, <1>9, <1>10, <2>1, RestartsKept
  <1>21. ASSUME ~torn' PROVE ListedOnce' /\ UnlistsOK' /\ MountsOK'
    <2>1. ~torn /\ h = list
      BY <1>11, <1>21
    <2>2. /\ size \in Nat /\ size' = size + 1
          /\ array'[size + 1] = mp /\ \A i \in 1..size : array'[i] = array[i]
      <3>1. size = h.len /\ array = heap[h.at] /\ size' = s.len /\ array' = heap'[s.at] /\ h.len \in Nat
        BY <1>11, <1>14, <2>1 DEF size, array, Slices
      <3> HIDE DEF h
      <3> QED  BY <1>15, <3>1
    <2>3. m \notin Listed
      BY <1>1, <1>3, <1>4, <2>1 DEF AddsNew
    <2>4. mp.medium = m /\ mp.n = mounts
      BY DEF mp
    <2>5. \A i \in 1..size + 1 : i \in 1..size \/ i = size + 1
      BY <2>2
    <2>6. Listed' = Listed \union {m}
      <3>1. 1..size' = 1..size \union {size + 1}
        BY <2>2
      <3>2. array'[size + 1].medium = m
        BY <2>2, <2>4
      <3>3. Listed' \subseteq Listed \union {m}
        BY <2>2, <3>1, <3>2 DEF Listed
      <3>4. ASSUME NEW x \in Listed PROVE x \in Listed'
        <4>1. PICK i \in 1..size : x = array[i].medium
          BY <3>4 DEF Listed
        <4>2. i \in 1..size' /\ x = array'[i].medium
          BY <2>2, <3>1, <4>1
        <4> QED  BY <4>2 DEF Listed
      <3>5. m \in Listed'
        BY <3>1, <3>2 DEF Listed
      <3> QED  BY <3>3, <3>4, <3>5
    <2>7. ListedOnce'
      <3>1. ASSUME NEW i \in 1..size PROVE array'[i].medium # m /\ array'[i] = array[i]
        BY <2>2, <2>3 DEF Listed
      <3>2. array'[size + 1].medium = m
        BY <2>2, <2>4
      <3>3. ASSUME NEW i \in 1..size + 1, NEW j \in 1..size + 1, array'[i].medium = array'[j].medium
            PROVE  i = j
        BY <1>1, <2>1, <2>5, <3>1, <3>2, <3>3 DEF ListedOnce
      <3> QED  BY <2>2, <3>3 DEF ListedOnce
    <2>8. UnlistsOK'
      <3>1. ASSUME NEW u \in Threads, todo'[u] # <<>>, Head(todo'[u]).do \in {"unlist", "load", "delete"},
                   NEW i \in 1..size + 1, array'[i] = Head(todo'[u]).mp
            PROVE  array'[i].medium \notin mounted
        <4>1. u # t /\ todo'[u] = todo[u]
          BY <1>10, <3>1
        <4>2. Head(todo[u]).mp \in MountpointsTo(Known)
          BY <1>1, <3>1, <4>1, HandCases DEF Now, Firsts
        <4>3. i # size + 1
          BY <1>6, <2>2, <2>4, <3>1, <4>1, <4>2 DEF MountpointsTo
        <4> QED  BY <1>1, <2>1, <2>2, <2>5, <3>1, <4>1, <4>3 DEF UnlistsOK, Now
      <3> QED  BY <1>11, <2>2, <3>1 DEF UnlistsOK, Now
    <2>9. MountsOK'
      <3>1. ASSUME NEW x, Held(x) PROVE x = m
        BY <1>2, <1>3, <1>4, <3>1 DEF Held
      <3> QED  BY <1>1, <1>11, <2>1, <2>6, <3>1 DEF MountsOK
    <2> QED  BY <2>7, <2>8, <2>9
  <1>22. ListedOnce' /\ UnlistsOK' /\ MountsOK'
    BY <1>21 DEF ListedOnce, UnlistsOK, MountsOK
  <1> QED  BY <1>16, <1>17, <1>18, <1>19, <1>20, <1>22 DEF LInv

(* unmountMountpoint: what is unmounted may go from the list.              *)
LEMMA UnmountStep ==
  ASSUME LInv, NEW t \in Threads, UnmountMountpoint(t)
  PROVE  LInv' /\ (RestartsOK => RestartsOK')
  <1>1. /\ Types /\ TodosOK /\ LoadsOK /\ ListedOnce /\ UnlistsOK /\ MountsOK /\ AddsNew
        /\ DOMAIN todo = Threads
    BY DEF LInv, TodosOK
  <1>2. todo[t] # <<>> /\ Now(t).do = "unmount"
    BY DEF UnmountMountpoint, Doing, Now
  <1> DEFINE mp == Now(t).mp
             remove == Now(t).remove
             q == (IF remove THEN <<Unlist(mp)>> ELSE <<>>) \o Later(t)
  <1>0. PICK m : m = mp.medium
    OBVIOUS
  <1>3. /\ mp \in MountpointsTo(Known) /\ m \in Media /\ remove \in BOOLEAN
        /\ Proper(Later(t), Known) \/ (t = "blockDevices" /\ ~remove /\ Mounts(Later(t)))
    BY <1>0, <1>1, <1>2, HandCases DEF MountpointsTo
  <1>4. Later(t) # <<>> => Head(Later(t)).do \notin {"add", "grow", "unlist", "load", "delete", "hdStart"}
    BY <1>3, MountsWith, TakeFirst, StepKinds
  <1>5. Restores(todo[t]) => Restores(Later(t))
    <2>1. CASE Proper(todo[t], Known)
      <3>1. todo[t] \in Seq(Simple(Known) \union Branches(Known))
        BY <2>1 DEF Proper
      <3> QED  BY <1>2, <3>1, RestoresAfter DEF Now, Later
    <2>2. CASE ~Proper(todo[t], Known)
      <3>1. Now(t) \notin Firsts(Known)
        BY <1>2 DEF Firsts
      <3>2. t = "blockDevices" /\ InHands(todo[t])
        BY <1>1, <2>2, <3>1 DEF TodosOK, TodoOK
      <3>3. ASSUME NEW x, todo[t] = <<Add(x)>> \/ todo[t] = <<Grow(x)>> PROVE FALSE
        BY <1>2, <3>3 DEF Now, Add, Grow
      <3>4. Mounts(todo[t])
        BY <3>2, <3>3 DEF InHands, Mounts
      <3> QED  BY <3>4, MountsWith
    <2> QED  BY <2>1, <2>2
  <1>6. /\ Then(t, q) \/ Then(t, Later(t))
        /\ UNCHANGED <<slot, listVars, mounts, pollVars, rerunEmulator, ended, plugged, plugs, commands,
                        copies, overlaps>>
        /\ failures' \in {failures, failures + 1} /\ disturbed' \in {disturbed, Threads} /\ torn' = torn
        /\ \/ mounted' = mounted \ {m} /\ leaked' = leaked \ {m} /\ Then(t, q)
           \/ m \notin mounted /\ mounted' = mounted /\ leaked' = leaked /\ Then(t, Later(t))
           \/ mounted' = mounted /\ leaked' = (IF remove THEN leaked ELSE leaked \union {m}) /\ Then(t, Later(t))
    BY <1>0 DEF UnmountMountpoint, Goes, Fails, listAndPolls, counters, ghosts
  <1>7. PICK r \in {q, Later(t)} : todo' = [todo EXCEPT ![t] = r] /\ (r = Later(t) \/ m \notin mounted')
    BY <1>6 DEF Then
  <1>8. \/ r = Later(t)
        \/ /\ remove /\ r = <<Unlist(mp)>> \o Later(t) /\ Proper(Later(t), Known)
           /\ r # <<>> /\ Head(r) = Unlist(mp) /\ Tail(r) = Later(t)
           /\ Unlist(mp) \in Firsts(Known) /\ Unlist(mp).do = "unlist" /\ Unlist(mp).mp = mp
           /\ r \in Seq(Simple(Known) \union Branches(Known) \union Firsts(Known))
           /\ Restores(Later(t)) => Restores(r)
    <2>1. CASE ~remove
      <3>1. \E S : Later(t) \in Seq(S)
        <4>1. Mounts(Later(t)) => \E S : Later(t) \in Seq(S)
          <5>1. ASSUME NEW x, Later(t) = <<x>> PROVE Later(t) \in Seq({x})
            BY <5>1
          <5>2. ASSUME NEW x, NEW y, Later(t) = <<x, y>> PROVE Later(t) \in Seq({x, y})
            BY <5>2
          <5> QED  BY <5>1, <5>2, Zenon DEF Mounts
        <4> QED  BY <1>3, <4>1 DEF Proper
      <3>2. <<>> \o Later(t) = Later(t)
        BY <3>1, ConcatEmptySeq
      <3> QED  BY <2>1, <3>2
    <2>2. CASE remove
      <3> DEFINE S == Simple(Known) \union Branches(Known) \union Firsts(Known)
                 u == Unlist(mp)
      <3>1. u \in Firsts(Known) /\ u.do = "unlist" /\ u.mp = mp
        BY <1>3, StepsMade DEF Unlist
      <3>2. Proper(Later(t), Known) /\ q = <<u>> \o Later(t)
        BY <1>3, <2>2
      <3>3. Later(t) \in Seq(S) /\ u \in S
        BY <3>1, <3>2, SeqMonotonic DEF Proper
      <3> HIDE DEF S, u, q
      <3>4. q \in Seq(S) /\ q # <<>> /\ Head(q) = u /\ Tail(q) = Later(t)
        BY <3>2, <3>3, HeadTailOfConcat
      <3>5. Restores(Later(t)) => Restores(q)
        <4>1. /\ <<u>> \in Seq(S) /\ Len(<<u>>) = 1
              /\ \A i \in 1..Len(<<u>>) : <<u>>[i].do \notin Breaks /\ <<u>>[i].do \notin Branching
          BY <3>1, <3>3 DEF Breaks, Branching
        <4> QED  BY <3>2, <3>3, <4>1, RestoresBehind
      <3> QED  BY <2>2, <3>1, <3>2, <3>4, <3>5 DEF S, u
    <2> QED  BY <1>3, <2>1, <2>2
  <1> HIDE DEF q
  <1>9. /\ todo'[t] = r /\ \A u \in Threads : u # t => todo'[u] = todo[u]
        /\ r # <<>> => Head(r).do \notin {"add", "grow", "load", "delete", "hdStart"}
    BY <1>1, <1>4, <1>7, <1>8
  <1>10. Known' = Known /\ Known \in Nat
    BY <1>1, <1>2, <1>6, <1>7, <1>9, KnownKept, HandFacts DEF Adding
  <1>11. Listed' = Listed /\ UNCHANGED <<array, size, heap, list, ranged, loaded>>
    BY <1>6 DEF Listed, listVars, array, size
  <1>12. Types'
    <2>1. /\ mounted' \subseteq Media /\ leaked' \subseteq Media /\ disturbed' \subseteq Threads
          /\ failures' \in Nat
      BY <1>1, <1>3, <1>6 DEF Types
    <2> QED  BY <1>1, <1>6, <1>10, <1>11, <2>1 DEF Types, Within, pollVars
  <1>13. TodosOK'
    <2>1. TodoOK(t)'
      <3>1. CASE r = Later(t) /\ Proper(Later(t), Known)
        BY <1>9, <1>10, <3>1 DEF TodoOK
      <3>2. CASE r = Later(t) /\ t = "blockDevices" /\ Mounts(Later(t))
        BY <1>9, <3>2 DEF TodoOK, InHands, Mounts
      <3>3. CASE r # Later(t)
        BY <1>8, <1>9, <1>10, <3>3 DEF TodoOK, Now, Later
      <3> QED  BY <1>3, <3>1, <3>2, <3>3
    <2>2. /\ todo' = [todo EXCEPT ![t] = r] /\ Known' \in Nat /\ Known <= Known'
          /\ mounts' = mounts
      BY <1>6, <1>7, <1>10
    <2> QED  BY <1>1, <2>1, <2>2, TodosKept
  <1>14. ListedOnce'
    BY <1>1, <1>6, <1>11 DEF ListedOnce
  <1>15. UnlistsOK'
    <2>1. ASSUME ~torn, NEW u \in Threads, todo'[u] # <<>>,
                 Head(todo'[u]).do \in {"unlist", "load", "delete"},
                 NEW i \in 1..size, array[i] = Head(todo'[u]).mp
          PROVE  array[i].medium \notin mounted'
      <3>1. CASE u = t
        BY <1>0, <1>4, <1>7, <1>8, <1>9, <2>1, <3>1
      <3>2. CASE u # t
        BY <1>1, <1>6, <1>9, <2>1, <3>2 DEF UnlistsOK, Now
      <3> QED  BY <3>1, <3>2
    <2> QED  BY <1>6, <1>11, <2>1 DEF UnlistsOK, Now
  <1>18. LoadsOK'
    BY <1>1, <1>9, <1>11 DEF LoadsOK, Now
  <1>19. AddsNew'
    BY <1>1, <1>6, <1>9, <1>11 DEF AddsNew, Adding, Now, Threads
  <1> HIDE DEF remove
  <1>16. MountsOK'
    <2>1. ASSUME ~torn, NEW x \in mounted', x # m PROVE x \in Listed \/ x \in leaked' \/ Held(x)'
      <3>1. x \in mounted /\ (x \in leaked => x \in leaked')
        BY <1>6, <2>1
      <3>2. ASSUME Held(x) PROVE Held(x)'
        <4>1. t # "blockDevices"
          BY <1>0, <2>1, <3>2 DEF Held
        <4> QED  BY <1>9, <3>2, <4>1 DEF Held, Now, Threads
      <3> QED  BY <1>1, <2>1, <3>1, <3>2 DEF MountsOK
    <2>2. ASSUME ~torn, m \in mounted' PROVE m \in Listed \/ m \in leaked' \/ Held(m)'
      <3>1. m \in mounted /\ leaked' = (IF remove THEN leaked ELSE leaked \union {m})
        BY <1>6, <2>2
      <3>2. CASE ~remove
        BY <3>1, <3>2
      <3>3. CASE remove
        <4>1. ASSUME Held(m) PROVE Held(m)'
          <5>1. t # "blockDevices"
            BY <1>2, <3>3, <4>1 DEF Held, remove
          <5> QED  BY <1>9, <4>1, <5>1 DEF Held, Now, Threads
        <4> QED  BY <1>1, <2>2, <3>1, <3>3, <4>1 DEF MountsOK
      <3> QED  BY <3>2, <3>3
    <2> QED  BY <1>6, <1>11, <2>1, <2>2 DEF MountsOK
  <1>17. RestartsOK => RestartsOK'
    BY <1>1, <1>5, <1>6, <1>7, <1>8, <1>9, RestartsKept
  <1> QED  BY <1>12, <1>13, <1>14, <1>15, <1>16, <1>17, <1>18, <1>19 DEF LInv

(* What follows the steps of RemoveMountpoint.                             *)
LEMMA RemovingFacts ==
  ASSUME Types, TodosOK, NEW t \in Threads, todo[t] # <<>>, Now(t).do \in {"unlist", "load", "delete"}
  PROVE  /\ Now(t) \in Firsts(Known) /\ Proper(Later(t), Known)
         /\ Restores(todo[t]) => Restores(Later(t))
         /\ Later(t) # <<>> => Head(Later(t)).do \notin {"add", "grow", "unlist", "load", "delete", "hdStart"}
  <1>1. Now(t) \in Firsts(Known) /\ Proper(Later(t), Known)
    BY HandCases
  <1>2. Later(t) # <<>> => Head(Later(t)).do \notin {"add", "grow", "unlist", "load", "delete", "hdStart"}
    BY <1>1, TakeFirst, StepKinds
  <1>3. Restores(todo[t]) => Restores(Later(t))
    <2>1. \E S : todo[t] \in Seq(S)
      <3>1. ~InHands(todo[t])
        <4>1. ASSUME NEW m, todo[t] = <<Add(m)>> \/ todo[t] = <<Grow(m)>> PROVE FALSE
          BY <4>1 DEF Now, Add, Grow
        <4>2. ~Mounts(todo[t])
          BY MountsWith DEF Now
        <4> QED  BY <4>1, <4>2 DEF InHands, Mounts
      <3> QED  BY <3>1 DEF TodosOK, TodoOK, Proper
    <2> QED  BY <2>1, RestoresAfter DEF Now, Later
  <1> QED  BY <1>1, <1>2, <1>3

(* RemoveMountpoint goes on with step s.                                   *)
LEMMA RemovingGoes ==
  ASSUME LInv, NEW t \in Threads, todo[t] # <<>>, Now(t).do \in {"unlist", "load"}, ~ended,
         NEW s \in Firsts(Known), s.do \in {"load", "delete"}, s.mp = Now(t).mp,
         Then(t, <<s>> \o Later(t)), loaded' = loaded \/ loaded' = [loaded EXCEPT ![t] = list],
         s.do = "delete" => s.i <= loaded'[t].len,
         UNCHANGED <<slot, heap, list, ranged, mounted, mounts, pollVars, rerunEmulator, ended,
                     counters, ghosts>>
  PROVE  LInv' /\ (RestartsOK => RestartsOK')
  <1>1. /\ Types /\ TodosOK /\ LoadsOK /\ ListedOnce /\ UnlistsOK /\ MountsOK /\ AddsNew
        /\ DOMAIN todo = Threads
    BY DEF LInv, TodosOK
  <1>2. Proper(Later(t), Known) /\ (Restores(todo[t]) => Restores(Later(t)))
    BY <1>1, RemovingFacts
  <1> DEFINE S == Simple(Known) \union Branches(Known) \union Firsts(Known)
             q == <<s>> \o Later(t)
  <1>3. Later(t) \in Seq(S) /\ s \in S
    BY <1>2, SeqMonotonic DEF Proper
  <1> HIDE DEF S
  <1>4. q \in Seq(S) /\ q # <<>> /\ Head(q) = s /\ Tail(q) = Later(t)
    BY <1>3, HeadTailOfConcat
  <1>5. Restores(Later(t)) => Restores(q)
    <2>1. /\ <<s>> \in Seq(S) /\ Len(<<s>>) = 1
          /\ \A i \in 1..Len(<<s>>) : <<s>>[i].do \notin Breaks /\ <<s>>[i].do \notin Branching
      BY <1>3 DEF Breaks, Branching
    <2> QED  BY <1>3, <2>1, RestoresBehind
  <1>6. todo' = [todo EXCEPT ![t] = q]
    BY DEF Then
  <1> HIDE DEF q
  <1>7. /\ todo'[t] = q /\ \A u \in Threads : u # t => todo'[u] = todo[u]
        /\ "blockDevices" \in Threads
    BY <1>1, <1>6 DEF Threads
  <1>8. array' = array /\ size' = size /\ Listed' = Listed
    BY DEF array, size, Listed
  <1>9. Known' = Known /\ Known \in Nat
    BY <1>1, <1>4, <1>6, KnownKept, HandFacts DEF Adding
  <1>10. \A u \in Threads : loaded'[u] = loaded[u] \/ (u = t /\ loaded'[u] = list)
    BY <1>1 DEF Types
  <1>11. Types'
    <2>1. \A u \in Threads : Within(loaded[u])'
      BY <1>1, <1>10 DEF Types, Within
    <2>2. DOMAIN loaded' = Threads
      BY <1>1 DEF Types
    <2> QED  BY <1>1, <1>8, <1>9, <2>1, <2>2 DEF Types, Within, pollVars, counters, ghosts
  <1>12. TodosOK'
    <2>1. TodoOK(t)'
      BY <1>2, <1>4, <1>7, <1>9 DEF TodoOK, Now, Later, S
    <2>2. Known' \in Nat /\ Known <= Known' /\ mounts' = mounts
      BY <1>9
    <2> QED  BY <1>1, <1>6, <2>1, <2>2, TodosKept
  <1>13. LoadsOK'
    BY <1>1, <1>4, <1>7, <1>10 DEF LoadsOK, Now
  <1>14. ListedOnce'
    BY <1>1, <1>8 DEF ListedOnce, ghosts
  <1>15. UnlistsOK'
    BY <1>1, <1>4, <1>7, <1>8 DEF UnlistsOK, ghosts, Now
  <1>16. ASSUME NEW x, Held(x) PROVE Held(x)'
    <2>1. t # "blockDevices"
      BY <1>16 DEF Held
    <2> QED  BY <1>7, <1>16, <2>1 DEF Held, Now
  <1>17. MountsOK'
    BY <1>1, <1>8, <1>16 DEF MountsOK, ghosts
  <1>18. AddsNew'
    BY <1>1, <1>4, <1>7, <1>8 DEF AddsNew, Adding, Now, ghosts
  <1>19. RestartsOK => RestartsOK'
    BY <1>1, <1>2, <1>4, <1>5, <1>6, RestartsKept
  <1> QED  BY <1>11, <1>12, <1>13, <1>14, <1>15, <1>17, <1>18, <1>19 DEF LInv

(* RemoveMountpoint gives up: it did not find the mountpoint, or its index *)
(* is beyond a list that has become shorter, which ends the program.       *)
LEMMA RemovingEnds ==
  ASSUME LInv, NEW t \in Threads, todo[t] # <<>>, Now(t).do \in {"unlist", "load"}, ~ended,
         Goes(t, Later(t)) \/ Goes(t, <<Panic>> \o Later(t))
  PROVE  LInv' /\ (RestartsOK => RestartsOK')
  <1>1. Types /\ TodosOK
    BY DEF LInv
  <1>2. Proper(Later(t), Known) /\ (Restores(todo[t]) => Restores(Later(t)))
    BY <1>1, RemovingFacts
  <1>3. /\ Proper(<<Panic>> \o Later(t), Known)
        /\ Restores(Later(t)) => Restores(<<Panic>> \o Later(t))
    <2>1. Panic \in Simple(Known) /\ Panic.do = "panic"
      BY StepsMade DEF Panic
    <2> QED  BY <1>2, <2>1, OneMore DEF Loops, Breaks, Branching
  <1>4. PICK q : Goes(t, q) /\ Proper(q, Known) /\ (Restores(todo[t]) => Restores(q))
    BY <1>2, <1>3
  <1>5. /\ todo' = [todo EXCEPT ![t] = q]
        /\ UNCHANGED <<heap, list, loaded, torn, mounted, mounts, leaked>>
        /\ rerunEmulator' = rerunEmulator /\ ended' = ended
    BY <1>4 DEF Goes, Then, listAndPolls, listVars, ghosts
  <1>6. Moves(t)
    BY <1>4, <1>5 DEF Moves
  <1>7. /\ Known' = Known /\ TodosOK' /\ LoadsOK' /\ ListedOnce' /\ UnlistsOK' /\ MountsOK' /\ AddsNew'
    BY <1>5, <1>6, MovesKeeps
  <1>8. Types'
    BY <1>1, <1>4, <1>7, GoesTypes
  <1>9. RestartsOK => RestartsOK'
    BY <1>1, <1>5, <1>6, MovesRestarts
  <1> QED  BY <1>7, <1>8, <1>9 DEF LInv

(* RemoveMountpoint looks for the mountpoint, and loads the slice.         *)
LEMMA FindStep ==
  ASSUME LInv, NEW t \in Threads, FindToRemove(t) \/ LoadToRemove(t)
  PROVE  LInv' /\ (RestartsOK => RestartsOK')
  <1>1. Types /\ TodosOK
    BY DEF LInv
  <1>2. CASE FindToRemove(t)
    <2>1. todo[t] # <<>> /\ Now(t).do = "unlist" /\ ~ended
      BY <1>2 DEF FindToRemove, Doing, Now
    <2>2. PICK i : i = FindMountpoint(Now(t).mp)
      OBVIOUS
    <2>3. i \in Nat
      <3>1. array \in Seq([medium : Media, n : Nat] \union {None}) /\ size \in 0..Len(array)
        BY <1>1, <2>1, ListFacts
      <3>2. i \in 0..size
        BY <2>2, <3>1, Found
      <3> QED  BY <3>2
    <2>4. CASE i = 0
      <3>1. Goes(t, Later(t))
        BY <1>2, <2>2, <2>4 DEF FindToRemove
      <3> QED  BY <2>1, <3>1, RemovingEnds
    <2>5. CASE i # 0
      <3> DEFINE s == Load(Now(t).mp, i)
      <3>1. Goes(t, <<s>> \o Later(t))
        BY <1>2, <2>2, <2>5 DEF FindToRemove
      <3>2. Now(t).mp \in MountpointsTo(Known)
        <4>1. Now(t) \in Firsts(Known)
          BY <1>1, <2>1, RemovingFacts
        <4> QED  BY <2>1, <4>1 DEF Firsts
      <3>3. s \in Firsts(Known) /\ s.do = "load" /\ s.mp = Now(t).mp
        <4>1. i \in Nat \ {0}
          BY <2>3, <2>5
        <4> QED  BY <3>2, <4>1, StepsMade DEF Load
      <3> HIDE DEF s
      <3>4. /\ Then(t, <<s>> \o Later(t))
            /\ UNCHANGED <<slot, heap, list, ranged, loaded, mounted, mounts, pollVars, rerunEmulator,
                           ended, counters, ghosts>>
        BY <3>1 DEF Goes, listAndPolls, listVars
      <3> QED  BY <2>1, <3>3, <3>4, RemovingGoes
    <2> QED  BY <2>4, <2>5
  <1>3. CASE LoadToRemove(t)
    <2>1. todo[t] # <<>> /\ Now(t).do = "load" /\ ~ended
      BY <1>3 DEF LoadToRemove, Doing, Now
    <2>2. Now(t).mp \in MountpointsTo(Known) /\ Now(t).i \in Nat \ {0}
      <3>1. Now(t) \in Firsts(Known)
        BY <1>1, <2>1, RemovingFacts
      <3> QED  BY <2>1, <3>1 DEF Firsts
    <2>3. CASE Goes(t, <<Panic>> \o Later(t))
      BY <2>1, <2>3, RemovingEnds
    <2>4. CASE ~Goes(t, <<Panic>> \o Later(t))
      <3> DEFINE s == Delete(Now(t).mp, Now(t).i)
      <3>1. /\ Now(t).i <= size /\ loaded' = [loaded EXCEPT ![t] = list]
            /\ Then(t, <<s>> \o Later(t))
            /\ UNCHANGED <<slot, heap, list, ranged, mounted, mounts, pollVars, rerunEmulator,
                           ended, counters, ghosts>>
        BY <1>3, <2>4 DEF LoadToRemove
      <3>2. s \in Firsts(Known) /\ s.do = "delete" /\ s.mp = Now(t).mp /\ s.i = Now(t).i
        BY <2>2, StepsMade DEF Delete
      <3> HIDE DEF s
      <3>3. s.i <= loaded'[t].len
        BY <1>1, <3>1, <3>2 DEF Types, size
      <3> QED  BY <2>1, <3>1, <3>2, <3>3, RemovingGoes
    <2> QED  BY <2>3, <2>4
  <1> QED  BY <1>2, <1>3

(* slices.Delete leaves mountpoints in the used part.                      *)
LEMMA ElementsMove ==
  ASSUME NEW S, None \in S, NEW a \in Seq(S), NEW n \in 0..Len(a), NEW i \in 1..n
  PROVE  /\ Deleted(a, n, i) \in Seq(S) /\ Len(Deleted(a, n, i)) = Len(a)
         /\ \A j \in 1..n - 1 : Deleted(a, n, i)[j] = a[IF j < i THEN j ELSE j + 1]
  <1> DEFINE e(j) == IF j \in i..n - 1 THEN a[j + 1]
                     ELSE IF j = n /\ ClearsTail THEN None ELSE a[j]
  <1>1. Len(a) \in Nat /\ n \in Nat /\ n <= Len(a) /\ i \in Nat /\ i <= n
    BY LenProperties
  <1>2. \A j \in 1..Len(a) : a[j] \in S
    OBVIOUS
  <1>3. \A j \in 1..Len(a) : e(j) \in S
    <2>1. \A j \in i..n - 1 : j + 1 \in 1..Len(a)
      BY <1>1
    <2> QED  BY <1>2, <2>1
  <1>4. \A j \in 1..n - 1 : /\ j \in 1..Len(a) /\ j # n /\ (j < i <=> j \notin i..n - 1)
    BY <1>1
  <1>5. \A j \in 1..n - 1 : e(j) = a[IF j < i THEN j ELSE j + 1]
    BY <1>4
  <1>6. Deleted(a, n, i) = [j \in 1..Len(a) |-> e(j)]
    BY DEF Deleted
  <1> HIDE DEF e
  <1> QED  BY <1>1, <1>3, <1>4, <1>5, <1>6

(* RemoveMountpoint: unless the list is torn, what was unmounted goes and  *)
(* everything else stays.                                                  *)
LEMMA DeleteStep ==
  ASSUME LInv, NEW t \in Threads, RemoveMountpoint(t)
  PROVE  LInv' /\ (RestartsOK => RestartsOK')
  <1>1. /\ Types /\ TodosOK /\ LoadsOK /\ ListedOnce /\ UnlistsOK /\ MountsOK /\ AddsNew
        /\ DOMAIN todo = Threads
    BY DEF LInv, TodosOK
  <1>2. todo[t] # <<>> /\ Now(t).do = "delete" /\ ~ended
    BY DEF RemoveMountpoint, Doing, Now
  <1>3. /\ Now(t) \in Firsts(Known) /\ Proper(Later(t), Known)
        /\ Restores(todo[t]) => Restores(Later(t))
        /\ Later(t) # <<>> => Head(Later(t)).do \notin {"add", "grow", "unlist", "load", "delete", "hdStart"}
    BY <1>1, <1>2, RemovingFacts
  <1> DEFINE mp == Now(t).mp
             i == Now(t).i
             h == loaded[t]
             s == [h EXCEPT !.len = @ - 1]
             tears == h # list \/ heap[h.at][i] # mp
             S == MountpointsTo(Known) \union {None}
  <1>4. /\ heap' = [heap EXCEPT ![h.at] = Deleted(heap[h.at], h.len, i)]
        /\ Stores(t, s, tears) /\ disturbed' = disturbed /\ todo' = [todo EXCEPT ![t] = Later(t)]
    BY DEF RemoveMountpoint, Then
  <1>5. i \in Nat \ {0}
    BY <1>2, <1>3 DEF Firsts
  <1>6. PICK q : q = Later(t)
    OBVIOUS
  <1>7. /\ todo' = [todo EXCEPT ![t] = q] /\ Proper(q, Known) /\ todo'[t] = q
        /\ \A u \in Threads : u # t => todo'[u] = todo[u]
        /\ q # <<>> => Head(q).do \notin {"add", "grow", "unlist", "load", "delete", "hdStart"}
    BY <1>1, <1>3, <1>4, <1>6
  <1>8. /\ list' = s /\ loaded' = [loaded EXCEPT ![t] = NoSlice] /\ torn' = (torn \/ tears)
        /\ UNCHANGED <<slot, ranged, mounted, mounts, pollVars, rerunEmulator, counters, leaked>>
    BY <1>4 DEF Stores
  <1>9. Known' = Known /\ Known \in Nat
    BY <1>1, <1>2, <1>7, <1>8, KnownKept, HandFacts DEF Adding
  <1>10. /\ h \in Slices /\ h.at \in 1..Len(heap) /\ h.len \in Nat /\ h.len <= Len(heap[h.at])
         /\ i \in 1..h.len /\ heap[h.at] \in Seq(S) /\ h.len \in 0..Len(heap[h.at])
         /\ None \in S /\ Len(heap[h.at]) \in Nat
    <2>1. h \in Slices /\ h.at \in 1..Len(heap) /\ h.len \in Nat /\ h.len <= Len(heap[h.at])
      BY <1>1 DEF Types, Within, Slices
    <2>2. heap[h.at] \in Seq(S) /\ None \in S
      BY <1>1, <2>1 DEF Types
    <2>3. Len(heap[h.at]) \in Nat
      <3> HIDE DEF S
      <3> QED  BY <2>2, LenProperties
    <2>4. i <= h.len
      BY <1>1, <1>2 DEF LoadsOK
    <2> QED  BY <1>5, <2>1, <2>2, <2>3, <2>4
  <1>11. s \in Slices /\ s.at = h.at /\ s.len = h.len - 1
    <2>1. h = [at |-> h.at, len |-> h.len]
      BY <1>10 DEF Slices
    <2>2. s = [at |-> h.at, len |-> h.len - 1]
      BY <2>1
    <2> HIDE DEF s, h
    <2> QED  BY <1>10, <2>2 DEF Slices
  <1> DEFINE a == heap[h.at]
             n == h.len
             d == Deleted(a, n, i)
  <1>12. /\ d \in Seq(S) /\ Len(d) = Len(a)
         /\ \A j \in 1..n - 1 : d[j] = a[IF j < i THEN j ELSE j + 1]
    <2> HIDE DEF S, a, n, i
    <2> QED  BY <1>10, ElementsMove DEF a, n
  <1> HIDE DEF S, d, s, h, i, mp, tears
  <1>13. /\ heap' \in Seq(Seq(S)) /\ Len(heap') = Len(heap) /\ heap'[h.at] = d
         /\ \A k \in 1..Len(heap) : Len(heap'[k]) = Len(heap[k])
    <2>1. PICK k : k = h.at
      OBVIOUS
    <2>2. PICK T : T = Seq(S)
      OBVIOUS
    <2>3. k \in 1..Len(heap) /\ d \in T /\ heap \in Seq(T) /\ heap' = [heap EXCEPT ![k] = d]
      BY <1>1, <1>4, <1>10, <1>12, <2>1, <2>2 DEF Types, S, d
    <2>4. /\ heap' \in Seq(T) /\ Len(heap') = Len(heap)
          /\ \A j \in 1..Len(heap) : heap'[j] = IF j = k THEN d ELSE heap[j]
      BY <2>3, ExceptSeq
    <2> QED  BY <1>12, <2>1, <2>2, <2>3, <2>4
  <1>14. Types'
    <2>1. tears \in BOOLEAN
      BY DEF tears
    <2>2. heap' \in Seq(Seq(MountpointsTo(Known') \union {None}))
      BY <1>9, <1>13 DEF S
    <2>3. s.at \in 1..Len(heap') /\ s.len <= Len(heap'[s.at])
      BY <1>10, <1>11, <1>12, <1>13
    <2>4. \A k \in 1..Len(heap) : Len(heap[k]) \in Nat
      BY <1>1, LenProperties DEF Types
    <2>5. Len(heap) <= Len(heap') /\ \A k \in 1..Len(heap) : Len(heap[k]) <= Len(heap'[k])
      BY <1>1, <1>13, <2>4, LenProperties DEF Types
    <2>6. disturbed' \subseteq Threads
      BY <1>1, <1>4 DEF Types
    <2> QED  BY <1>1, <1>4, <1>11, <2>1, <2>2, <2>3, <2>5, <2>6, StoresTypes
  <1>15. TodosOK'
    <2>1. TodoOK(t)'
      BY <1>7, <1>9 DEF TodoOK
    <2>2. Known' \in Nat /\ Known <= Known' /\ mounts' = mounts
      BY <1>8, <1>9
    <2> QED  BY <1>1, <1>7, <2>1, <2>2, TodosKept
  <1>16. LoadsOK'
    <2>1. \A u \in Threads : u # t => loaded'[u] = loaded[u]
      BY <1>1, <1>8 DEF Types
    <2> QED  BY <1>1, <1>7, <2>1 DEF LoadsOK, Now
  <1>17. RestartsOK => RestartsOK'
    BY <1>1, <1>2, <1>3, <1>6, <1>7, <1>8, RestartsKept
  <1>18. ASSUME ~torn' PROVE ListedOnce' /\ UnlistsOK' /\ MountsOK' /\ AddsNew'
    <2>1. ~torn /\ h = list /\ a[i] = mp
      BY <1>8, <1>18 DEF tears
    <2>2. size = n /\ array = a /\ size' = n - 1 /\ array' = d
      BY <1>8, <1>11, <1>13, <2>1 DEF size, array
    <2> DEFINE g(j) == IF j < i THEN j ELSE j + 1
    <2>3. \A j \in 1..size - 1 : array'[j] = array[g(j)]
      BY <1>12, <2>2
    <2>4. /\ \A j \in 1..size - 1 : g(j) \in 1..size /\ g(j) # i
          /\ \A x \in 1..size : x # i => \E j \in 1..size - 1 : g(j) = x
          /\ \A j, x \in 1..size - 1 : g(j) = g(x) => j = x
      <3>0. size \in Nat /\ i \in 1..size
        BY <1>10, <2>2
      <3>1. \A j \in 1..size - 1 : g(j) \in 1..size /\ g(j) # i
        BY <3>0
      <3>2. ASSUME NEW x \in 1..size, x # i PROVE \E j \in 1..size - 1 : g(j) = x
        <4>1. CASE x < i
          <5>1. x \in 1..size - 1 /\ g(x) = x
            BY <3>0, <4>1
          <5> QED  BY <5>1
        <4>2. CASE ~(x < i)
          <5>1. x - 1 \in 1..size - 1 /\ g(x - 1) = x
            BY <3>0, <3>2, <4>2
          <5> HIDE DEF g
          <5> QED  BY <5>1
        <4> QED  BY <4>1, <4>2
      <3>3. \A j, x \in 1..size - 1 : g(j) = g(x) => j = x
        BY <3>0
      <3> QED  BY <3>1, <3>2, <3>3
    <2> HIDE DEF g
    <2>5. i \in 1..size /\ array[i].medium \notin mounted
      <3>1. i \in 1..size /\ array[i] = Now(t).mp
        BY <1>10, <2>1, <2>2 DEF mp
      <3> QED  BY <1>1, <1>2, <2>1, <3>1 DEF UnlistsOK
    <2>6. Listed' \subseteq Listed /\ \A x \in Listed : x = array[i].medium \/ x \in Listed'
      <3>1. Listed' \subseteq Listed
        BY <2>2, <2>3, <2>4 DEF Listed
      <3>2. ASSUME NEW x \in Listed, x # array[i].medium PROVE x \in Listed'
        <4>1. PICK k \in 1..size : x = array[k].medium
          BY DEF Listed
        <4>2. PICK j \in 1..size - 1 : g(j) = k
          BY <2>4, <3>2, <4>1
        <4>3. x = array'[j].medium /\ j \in 1..size'
          BY <2>2, <2>3, <4>1, <4>2
        <4> QED  BY <4>3 DEF Listed
      <3> QED  BY <3>1, <3>2
    <2>7. ListedOnce'
      <3>1. ASSUME NEW j \in 1..size - 1, NEW x \in 1..size - 1, array'[j].medium = array'[x].medium
            PROVE  j = x
        <4>1. g(j) = g(x)
          BY <1>1, <2>1, <2>3, <2>4, <3>1 DEF ListedOnce
        <4> QED  BY <2>4, <4>1
      <3> QED  BY <2>2, <3>1 DEF ListedOnce
    <2>8. UnlistsOK'
      <3>1. ASSUME NEW u \in Threads, todo'[u] # <<>>,
                   Head(todo'[u]).do \in {"unlist", "load", "delete"},
                   NEW j \in 1..size - 1, array'[j] = Head(todo'[u]).mp
            PROVE  array'[j].medium \notin mounted
        <4>1. todo'[u] = todo[u]
          BY <1>7, <3>1
        <4> QED  BY <1>1, <2>1, <2>3, <2>4, <3>1, <4>1 DEF UnlistsOK, Now
      <3> QED  BY <1>8, <2>2, <3>1 DEF UnlistsOK, Now
    <2>9. MountsOK'
      <3>1. ASSUME NEW x, Held(x) PROVE Held(x)'
        <4>1. t # "blockDevices"
          BY <1>2, <3>1 DEF Held
        <4> QED  BY <1>7, <3>1, <4>1 DEF Held, Now, Threads
      <3> QED  BY <1>1, <1>8, <2>1, <2>5, <2>6, <3>1 DEF MountsOK
    <2>10. AddsNew'
      <3>1. "blockDevices" \in Threads
        BY DEF Threads
      <3> QED  BY <1>1, <1>7, <2>1, <2>6, <3>1 DEF AddsNew, Adding, Now
    <2> QED  BY <2>7, <2>8, <2>9, <2>10
  <1>19. ListedOnce' /\ UnlistsOK' /\ MountsOK' /\ AddsNew'
    BY <1>18 DEF ListedOnce, UnlistsOK, MountsOK, AddsNew
  <1> QED  BY <1>14, <1>15, <1>16, <1>17, <1>19 DEF LInv

(* onHDOperationStart and onHDOperationDone.                               *)
LEMMA RerunStep ==
  ASSUME LInv, NEW t \in Threads, SetRerunEmulator(t)
  PROVE  LInv' /\ (RestartsOK => RestartsOK')
  <1>1. Types /\ TodosOK /\ DOMAIN todo = Threads
    BY DEF LInv, TodosOK
  <1>2. /\ todo[t] # <<>> /\ Now(t).do \in {"hdStart", "hdDone"} /\ todo' = [todo EXCEPT ![t] = Later(t)]
        /\ rerunEmulator' = (Now(t).do = "hdDone")
        /\ UNCHANGED <<slot, listVars, mounted, mounts, pollVars, ended, counters, ghosts>>
    BY DEF SetRerunEmulator, Doing, Now, Then, listAndPolls
  <1>3. Proper(Later(t), Known)
    <2>1. Now(t).do = "hdDone" => Doing(t, "hdDone")
      BY DEF SetRerunEmulator, Doing, Now
    <2> QED  BY <1>1, <1>2, <2>1, HandCases, NowProper DEF Steps
  <1>4. PICK q : q = Later(t)
    OBVIOUS
  <1>5. Known' = Known /\ TodosOK' /\ LoadsOK' /\ ListedOnce' /\ UnlistsOK' /\ MountsOK' /\ AddsNew'
    <2>1. /\ todo' = [todo EXCEPT ![t] = q] /\ Starts(q, Known)
          /\ UNCHANGED <<heap, list, loaded, torn, mounted, mounts, leaked>>
      BY <1>2, <1>3, <1>4 DEF Starts, listVars, ghosts
    <2> QED  BY <1>2, <2>1, StartsKeeps
  <1>6. Types'
    BY <1>1, <1>2, <1>5 DEF Types, Within, array, size, listVars, pollVars, counters, ghosts
  <1>7. RestartsOK => RestartsOK'
    <2>1. SUFFICES ASSUME RestartsOK PROVE RestartsOK'
      OBVIOUS
    <2>2. /\ todo'[t] = q /\ \A u \in Threads : u # t => todo'[u] = todo[u]
          /\ q # <<>> => Head(q).do # "hdStart"
      BY <1>1, <1>2, <1>3, <1>4, TakeFirst, StepKinds
    <2>3. ASSUME NEW u \in Threads, todo'[u] # <<>>, Head(todo'[u]).do = "hdStart"
          PROVE  Restores(Tail(todo'[u]))
      BY <2>1, <2>2, <2>3 DEF RestartsOK, Now, Later
    <2>4. rerunEmulator' \/ ended' \/ \E u \in Threads : Restores(todo'[u])
      BY <1>2, <1>4, <2>1, <2>2 DEF RestartsOK
    <2> QED  BY <2>3, <2>4 DEF RestartsOK, Now, Later
  <1> QED  BY <1>5, <1>6, <1>7 DEF LInv

-----------------------------------------------------------------------------
(* Every step of a goroutine, and every start.                             *)
LEMMA PlainStep ==
  ASSUME LInv, NEW t \in Threads, Plain(t)
  PROVE  LInv' /\ (RestartsOK => RestartsOK')
  <1>1. /\ Moves(t) /\ todo[t] # <<>> /\ Now(t).do \notin {"add", "grow", "unmount"}
        /\ UNCHANGED <<heap, list, loaded, torn, mounted, mounts, leaked>>
        /\ rerunEmulator' = rerunEmulator /\ (ended => ended')
    BY PlainFacts
  <1>2. Known' = Known /\ TodosOK' /\ LoadsOK' /\ ListedOnce' /\ UnlistsOK' /\ MountsOK' /\ AddsNew'
    BY <1>1, MovesKeeps
  <1>3. Types'
    BY <1>2, PlainTypes
  <1>4. RestartsOK => RestartsOK'
    BY <1>1, MovesRestarts DEF LInv
  <1> QED  BY <1>2, <1>3, <1>4 DEF LInv

(* A step of a goroutine.                                                  *)
LEMMA WorkStep ==
  ASSUME LInv, NEW t \in Threads, Work(t)
  PROVE  LInv' /\ (RestartsOK => RestartsOK')
  <1>1. CASE Plain(t)
    BY <1>1, PlainStep
  <1>2. CASE MountMountpoint(t) \/ LoadToAdd(t) \/ AddMountpoint(t) \/ UnmountMountpoint(t)
    BY <1>2, MountStep, LoadToAddStep, GrowStep, UnmountStep
  <1>4. CASE FindToRemove(t) \/ LoadToRemove(t) \/ RemoveMountpoint(t)
    BY <1>4, FindStep, DeleteStep
  <1>3. CASE SetRerunEmulator(t)
    BY <1>3, RerunStep
  <1> QED  BY <1>1, <1>2, <1>3, <1>4 DEF Work, Plain

(* A goroutine that has nothing to do starts on something.                 *)
LEMMA BeginKeeps ==
  ASSUME LInv, NEW t \in Threads, NEW q, Begin(t, q),
         Starts(q, Known) \/ (t = "blockDevices" /\ Mounts(q)),
         UNCHANGED <<heap, list, loaded, torn, mounted, mounts, leaked, rerunEmulator, ended>>
  PROVE  /\ Known' = Known /\ TodosOK' /\ LoadsOK' /\ ListedOnce' /\ UnlistsOK' /\ MountsOK' /\ AddsNew'
         /\ overlaps' \in Nat
         /\ RestartsOK => RestartsOK'
  <1>1. todo[t] = <<>> /\ todo' = [todo EXCEPT ![t] = q]
    BY DEF Begin
  <1>2. Known' = Known /\ TodosOK' /\ LoadsOK' /\ ListedOnce' /\ UnlistsOK' /\ MountsOK' /\ AddsNew'
    BY <1>1, StartsKeeps
  <1>3. overlaps' \in Nat
    <2>1. overlaps' = overlaps + 1 \/ overlaps' = overlaps
      BY DEF Begin
    <2> QED  BY <2>1 DEF LInv, Types
  <1>4. RestartsOK => RestartsOK'
    <2>1. ~Restores(todo[t])
      BY <1>1 DEF Restores
    <2>2. q # <<>> /\ Head(q).do = "hdStart" => Restores(Tail(q))
      BY StartsWith, MountsWith
    <2> QED  BY <1>1, <2>1, <2>2, RestartsKept DEF LInv
  <1> QED  BY <1>2, <1>3, <1>4

(* What the poll of the block devices starts with.                         *)
LEMMA BlockDevicesMoves ==
  ASSUME LInv, BlockDevices
  PROVE  /\ blocks' \subseteq Media /\ oldBlocks' \subseteq Media
         /\ \E q : Begin("blockDevices", q) /\ (Starts(q, Known) \/ Mounts(q))
  <1>1. Types /\ TodosOK /\ "blockDevices" \in Threads
    BY DEF LInv, Threads
  <1>3. /\ blocks' \subseteq Media /\ oldBlocks' \subseteq Media
        /\ \E q : Begin("blockDevices", q) /\ (Starts(q, Known) \/ Mounts(q))
    <2>1. blocks \subseteq Media /\ oldBlocks \subseteq Media
      BY <1>1 DEF Types
    <2>2. CASE \E m \in oldBlocks \ blocks :
                  /\ Begin("blockDevices", DetachMedium(m))
                  /\ oldBlocks' = oldBlocks \ {m} /\ UNCHANGED blocks
      <3>1. ~ended
        BY <2>2 DEF Begin
      <3> QED  BY <1>1, <2>1, <2>2, <3>1, DetachMediumStarts
    <2>3. CASE \E m \in blocks \ oldBlocks :
                  /\ Begin("blockDevices", AttachMedium(m))
                  /\ oldBlocks' = oldBlocks \union {m} /\ UNCHANGED blocks
      BY <2>1, <2>3, AttachMediumMounts
    <2>4. CASE /\ Begin("blockDevices", <<>>)
               /\ blocks' = plugged \intersect Media /\ UNCHANGED oldBlocks
      <3>1. Starts(<<>>, Known)
        BY EmptySeq, AllSimple DEF Starts
      <3> QED  BY <2>1, <2>4, <3>1
    <2> QED  BY <2>2, <2>3, <2>4 DEF BlockDevices
  <1> QED  BY <1>3

(* The poll of the block devices.                                          *)
LEMMA BlockDevicesStep ==
  ASSUME LInv, BlockDevices
  PROVE  LInv' /\ (RestartsOK => RestartsOK')
  <1>1. Types /\ TodosOK /\ "blockDevices" \in Threads
    BY DEF LInv, Threads
  <1>2. UNCHANGED <<slot, listVars, mounted, mounts, currentFiles, oldFiles, rerunEmulator,
                    ended, plugged, plugs, commands, failures, copies, ghosts>>
    BY DEF BlockDevices
  <1>3. blocks' \subseteq Media /\ oldBlocks' \subseteq Media
    BY BlockDevicesMoves
  <1>4. PICK q : Begin("blockDevices", q) /\ (Starts(q, Known) \/ Mounts(q))
    BY BlockDevicesMoves
  <1>5. UNCHANGED <<heap, list, loaded, torn, mounted, mounts, leaked, rerunEmulator, ended>>
    BY <1>2 DEF listVars, ghosts
  <1>6. /\ Known' = Known /\ TodosOK' /\ LoadsOK' /\ ListedOnce' /\ UnlistsOK' /\ MountsOK' /\ AddsNew'
        /\ overlaps' \in Nat
        /\ RestartsOK => RestartsOK'
    BY <1>1, <1>4, <1>5, BeginKeeps
  <1>7. Types'
    BY <1>1, <1>2, <1>3, <1>6 DEF Types, Within, array, size, listVars, ghosts
  <1> QED  BY <1>6, <1>7 DEF LInv

(* What the poll of the device files starts with.                          *)
LEMMA DiscoveryMoves ==
  ASSUME LInv, Discovery
  PROVE  /\ currentFiles' \subseteq Devices /\ oldFiles' \subseteq Devices
         /\ \E q : Begin("discovery", q) /\ Starts(q, Known)
  <1>1. Types /\ TodosOK /\ "discovery" \in Threads
    BY DEF LInv, Threads
  <1>3. /\ currentFiles' \subseteq Devices /\ oldFiles' \subseteq Devices
        /\ \E q : Begin("discovery", q) /\ Starts(q, Known)
    <2>1. currentFiles \subseteq Devices /\ oldFiles \subseteq Devices
      BY <1>1 DEF Types
    <2>2. CASE \E f \in oldFiles \ currentFiles :
                  /\ Begin("discovery", DetachDevice(f))
                  /\ oldFiles' = oldFiles \ {f} /\ UNCHANGED currentFiles
      BY <1>1, <2>1, <2>2, DeviceStarts
    <2>3. CASE \E f \in currentFiles \ oldFiles :
                  /\ Begin("discovery", AttachDevice(f))
                  /\ oldFiles' = oldFiles \union {f} /\ UNCHANGED currentFiles
      BY <1>1, <2>1, <2>3, DeviceStarts
    <2>4. CASE /\ Begin("discovery", <<>>)
               /\ currentFiles' = plugged \intersect Devices /\ UNCHANGED oldFiles
      <3>1. Starts(<<>>, Known)
        BY EmptySeq, AllSimple DEF Starts
      <3> QED  BY <2>1, <2>4, <3>1
    <2> QED  BY <2>2, <2>3, <2>4 DEF Discovery
  <1> QED  BY <1>3

(* The poll of the device files.                                           *)
LEMMA DiscoveryStep ==
  ASSUME LInv, Discovery
  PROVE  LInv' /\ (RestartsOK => RestartsOK')
  <1>1. Types /\ TodosOK /\ "discovery" \in Threads
    BY DEF LInv, Threads
  <1>2. UNCHANGED <<slot, listVars, mounted, mounts, blocks, oldBlocks, rerunEmulator,
                    ended, plugged, plugs, commands, failures, copies, ghosts>>
    BY DEF Discovery
  <1>3. currentFiles' \subseteq Devices /\ oldFiles' \subseteq Devices
    BY DiscoveryMoves
  <1>4. PICK q : Begin("discovery", q) /\ Starts(q, Known)
    BY DiscoveryMoves
  <1>5. UNCHANGED <<heap, list, loaded, torn, mounted, mounts, leaked, rerunEmulator, ended>>
    BY <1>2 DEF listVars, ghosts
  <1>6. /\ Known' = Known /\ TodosOK' /\ LoadsOK' /\ ListedOnce' /\ UnlistsOK' /\ MountsOK' /\ AddsNew'
        /\ overlaps' \in Nat
        /\ RestartsOK => RestartsOK'
    BY <1>1, <1>4, <1>5, BeginKeeps
  <1>7. Types'
    BY <1>1, <1>2, <1>3, <1>6 DEF Types, Within, array, size, listVars, ghosts
  <1> QED  BY <1>6, <1>7 DEF LInv

(* A command or a signal.                                                  *)
LEMMA CommandStep ==
  ASSUME LInv, NEW t \in Threads, NEW q, Starts(q, Known), Begin(t, q), commands' = commands + 1,
         copies' = copies \/ copies' = copies + 1,
         UNCHANGED <<slot, listVars, mounted, mounts, pollVars, rerunEmulator, ended, plugged,
                     plugs, failures, ghosts>>
  PROVE  LInv' /\ (RestartsOK => RestartsOK')
  <1>1. UNCHANGED <<heap, list, loaded, torn, mounted, mounts, leaked, rerunEmulator, ended>>
    BY DEF listVars, ghosts
  <1>2. /\ Known' = Known /\ TodosOK' /\ LoadsOK' /\ ListedOnce' /\ UnlistsOK' /\ MountsOK' /\ AddsNew'
        /\ overlaps' \in Nat
        /\ RestartsOK => RestartsOK'
    BY <1>1, BeginKeeps
  <1>3. Types'
    <2>1. commands' \in Nat /\ copies' \in Nat
      BY DEF LInv, Types
    <2>2. Types
      BY DEF LInv
    <2> QED  BY <1>2, <2>1, <2>2 DEF Types, Within, array, size, listVars, pollVars, ghosts
  <1> QED  BY <1>2, <1>3 DEF LInv

(* A command of a keyboard.                                                *)
LEMMA KeyboardStep ==
  ASSUME LInv, NEW t \in Keyboards, Keyboard(t)
  PROVE  LInv' /\ (RestartsOK => RestartsOK')
  <1>1. PICK q : Starts(q, Known) /\ Command(t, q)
    BY KeyboardBegins DEF LInv, Begins
  <1>2. copies' = copies \/ copies' = copies + 1
    BY DEF Keyboard, InsertFromSourceIndexToTargetIndex, InsertByDiskNo, InsertToManyIndex,
           EjectFromSourceIndex, EjectFromSourceIndexAll, UnmountFromSourceIndex, UnmountAll, LowLevelCopy
  <1>3. /\ t \in Threads /\ Begin(t, q) /\ commands' = commands + 1
        /\ UNCHANGED <<slot, listVars, mounted, mounts, pollVars, rerunEmulator, ended, plugged,
                       plugs, failures, ghosts>>
    BY <1>1 DEF Command, Threads
  <1> QED  BY <1>1, <1>2, <1>3, CommandStep

(* A signal.                                                               *)
LEMMA SignalStep ==
  ASSUME LInv, Signal
  PROVE  LInv' /\ (RestartsOK => RestartsOK')
  <1>1. PICK q : q = <<Round(1), Report, Stop>>
    OBVIOUS
  <1>2. Starts(q, Known)
    BY <1>1, UnmountAllStarts DEF LInv
  <1>3. /\ "signal" \in Threads /\ Begin("signal", q) /\ commands' = commands + 1 /\ copies' = copies
        /\ UNCHANGED <<slot, listVars, mounted, mounts, pollVars, rerunEmulator, ended, plugged,
                       plugs, failures, ghosts>>
    BY <1>1 DEF Signal, Threads
  <1> QED  BY <1>2, <1>3, CommandStep

(* Only what the users plug, or nothing, changes.                          *)
LEMMA IdleStep ==
  ASSUME LInv, plugged' \subseteq Media \union Devices, plugs' \in Nat,
         UNCHANGED <<slot, listAndPolls, rerunEmulator, todo, ended, commands, failures, copies,
                     overlaps, ghosts>>
  PROVE  LInv' /\ (RestartsOK => RestartsOK')
  <1> USE DEF listAndPolls, listVars, pollVars, ghosts, Now, Later
  <1>1. Known' = Known /\ Listed' = Listed /\ array' = array /\ size' = size
    BY DEF Known, Adding, Listed, array, size
  <1>2. Types'
    BY <1>1 DEF LInv, Types, Within
  <1>3. TodosOK'
    BY <1>1 DEF LInv, TodosOK, TodoOK, InHands
  <1>4. ListedOnce' /\ UnlistsOK' /\ LoadsOK' /\ AddsNew'
    BY <1>1 DEF LInv, ListedOnce, UnlistsOK, LoadsOK, AddsNew, Adding
  <1>5. MountsOK'
    BY <1>1 DEF LInv, MountsOK, Held
  <1>6. RestartsOK => RestartsOK'
    BY DEF RestartsOK
  <1> QED  BY <1>2, <1>3, <1>4, <1>5, <1>6 DEF LInv

(* The start.                                                              *)
LEMMA InitHolds ==
  ASSUME Init
  PROVE  LInv /\ RestartsOK
  <1>1. ~Adding /\ Known = 0
    BY DEF Init, Adding, Known, Threads
  <1>2. Types
    <2>1. slot \in [Drives -> Slottable]
      BY DEF Init, Slottable
    <2>2. heap \in Seq(Seq(MountpointsTo(Known) \union {None})) /\ Within(NoSlice)
      <3> DEFINE T == MountpointsTo(Known) \union {None}
      <3>1. <<>> \in Seq(T)
        OBVIOUS
      <3>2. heap = <<<<>>>> /\ Len(<<>>) = 0
        BY DEF Init
      <3> HIDE DEF T
      <3>3. heap \in Seq(Seq(T)) /\ Len(heap) = 1 /\ heap[1] = <<>>
        BY <3>1, <3>2
      <3> QED  BY <3>2, <3>3 DEF T, Within, Slices, NoSlice
    <2>3. /\ list = NoSlice /\ DOMAIN ranged = Threads /\ DOMAIN loaded = Threads
          /\ \A t \in Threads : ranged[t] = NoSlice /\ loaded[t] = NoSlice
      BY DEF Init
    <2>4. /\ mounts \in Nat /\ 1..size = {}
          /\ {plugs, commands, failures, copies, overlaps} \subseteq Nat
      BY DEF Init, size, NoSlice
    <2>5. /\ torn = FALSE /\ mounted = {} /\ leaked = {} /\ plugged = {} /\ blocks = {} /\ oldBlocks = {}
          /\ currentFiles = {} /\ oldFiles = {} /\ disturbed = {}
          /\ rerunEmulator = TRUE /\ ended = FALSE
      BY DEF Init
    <2> QED  BY <2>1, <2>2, <2>3, <2>4, <2>5 DEF Types
  <1>3. TodosOK
    <2>1. \A t \in Threads : Proper(todo[t], Known)
      BY EmptySeq, AllSimple DEF Init
    <2> QED  BY <2>1 DEF Init, TodosOK, TodoOK
  <1>4. ListedOnce /\ UnlistsOK /\ MountsOK /\ RestartsOK /\ LoadsOK /\ AddsNew
    BY <1>1 DEF Init, ListedOnce, UnlistsOK, MountsOK, RestartsOK, LoadsOK, AddsNew, size, NoSlice
  <1> QED  BY <1>2, <1>3, <1>4 DEF LInv

(* Every step.                                                             *)
LEMMA NextKeeps ==
  ASSUME LInv, [Next]_vars
  PROVE  LInv' /\ (RestartsOK => RestartsOK')
  <1>1. CASE Plug
    <2>1. /\ plugged' \subseteq Media \union Devices /\ plugs' \in Nat
          /\ UNCHANGED <<slot, listAndPolls, rerunEmulator, todo, ended, commands, failures, copies,
                         overlaps, ghosts>>
      BY <1>1 DEF Plug, LInv, Types
    <2> QED  BY <2>1, IdleStep
  <1>2. CASE UNCHANGED vars
    <2>1. /\ plugged' \subseteq Media \union Devices /\ plugs' \in Nat
          /\ UNCHANGED <<slot, listAndPolls, rerunEmulator, todo, ended, commands, failures, copies,
                         overlaps, ghosts>>
      BY <1>2 DEF vars, counters, listAndPolls, LInv, Types
    <2> QED  BY <2>1, IdleStep
  <1>3. CASE \E t \in Keyboards : Keyboard(t)
    BY <1>3, KeyboardStep
  <1>4. CASE \E t \in Threads : Work(t)
    BY <1>4, WorkStep
  <1> QED  BY <1>1, <1>2, <1>3, <1>4, BlockDevicesStep, DiscoveryStep, SignalStep DEF Next

(* The invariant holds, and with it that somebody owes the flag.           *)
LEMMA InvariantHolds == Spec => [](LInv /\ RestartsOK)
  <1>1. Init => LInv /\ RestartsOK
    BY InitHolds
  <1>2. (LInv /\ RestartsOK) /\ [Next]_vars => (LInv /\ RestartsOK)'
    BY NextKeeps
  <1> QED  BY <1>1, <1>2, PTL DEF Spec

-----------------------------------------------------------------------------
(* What a goroutine still has to do is one of the steps.                   *)
LEMMA TodoTypes ==
  ASSUME LInv, NEW t \in Threads, NEW i \in DOMAIN todo[t]
  PROVE  todo[t][i].do \in Steps
  <1> DEFINE S == Simple(Known) \union Branches(Known)
  <1>1. TodoOK(t)
    BY DEF LInv, TodosOK
  <1>2. \A s \in S : s.do \in Steps
    BY StepKinds
  <1>3. CASE todo[t] \in Seq(S \union Firsts(Known))
    <2>1. \A s \in Firsts(Known) : s.do \in Steps
      BY DEF Firsts, Steps
    <2> HIDE DEF S
    <2>2. todo[t][i] \in S \union Firsts(Known)
      BY <1>3
    <2> QED  BY <1>2, <2>1, <2>2
  <1>4. CASE Proper(todo[t], Known)
    <2>1. todo[t] \in Seq(S)
      BY <1>4 DEF Proper
    <2> HIDE DEF S
    <2> QED  BY <1>2, <2>1
  <1>5. CASE InHands(todo[t])
    <2>1. ASSUME NEW x, todo[t] = <<x>> PROVE todo[t][i] = x
      BY <2>1
    <2>2. ASSUME NEW x, NEW y, todo[t] = <<x, y>> PROVE todo[t][i] \in {x, y}
      BY <2>2
    <2>3. /\ \A m : Mount(m).do \in Steps
          /\ \A m : Unmount([medium |-> m, n |-> 0], FALSE).do \in Steps
          /\ \A m : Add([medium |-> m, n |-> mounts]).do \in Steps
          /\ \A m : Grow([medium |-> m, n |-> mounts]).do \in Steps
      BY DEF Mount, Unmount, Add, Grow, Steps
    <2>4. \/ \E m : todo[t][i] = Mount(m) \/ todo[t][i] = Unmount([medium |-> m, n |-> 0], FALSE)
          \/ \E m : \/ todo[t][i] = Add([medium |-> m, n |-> mounts])
                    \/ todo[t][i] = Grow([medium |-> m, n |-> mounts])
      BY <1>5, <2>1, <2>2 DEF InHands
    <2> QED  BY <2>3, <2>4
  <1> QED  BY <1>1, <1>3, <1>4, <1>5 DEF TodoOK

(* The invariant gives the types.                                          *)
LEMMA TypesSuffice ==
  ASSUME LInv
  PROVE  TypeOK
  <1>1. Types /\ TodosOK
    BY DEF LInv
  <1>2. MountpointsTo(Known) \subseteq MountpointsOf /\ mounts \in Nat
    BY <1>1, HandFacts DEF MountpointsTo, MountpointsOf
  <1>3. Seq(MountpointsTo(Known) \union {None}) \subseteq Seq(MountpointsOf \union {None})
    BY <1>2, SeqMonotonic
  <1>4. heap \in Seq(Seq(MountpointsOf \union {None}))
    <2> DEFINE S == Seq(MountpointsTo(Known) \union {None})
               T == Seq(MountpointsOf \union {None})
    <2>1. S \subseteq T /\ heap \in Seq(S)
      BY <1>1, <1>3 DEF Types
    <2> HIDE DEF S, T
    <2>2. heap \in Seq(T)
      BY <2>1, SeqMonotonic
    <2> QED  BY <2>2 DEF T
  <1>5. \A s \in {list} \union {ranged[t] : t \in Threads} \union {loaded[t] : t \in Threads} :
          s.at \in 1..Len(heap) /\ s.len \in 0..Len(heap[s.at])
    <2>1. ASSUME NEW s, Within(s) PROVE s.at \in 1..Len(heap) /\ s.len \in 0..Len(heap[s.at])
      <3>1. s.at \in 1..Len(heap) /\ s.len \in Nat /\ s.len <= Len(heap[s.at])
        BY <2>1 DEF Within, Slices
      <3>2. Len(heap[s.at]) \in Nat
        BY <1>4, <3>1, LenProperties
      <3> QED  BY <3>1, <3>2
    <2> QED  BY <1>1, <2>1 DEF Types
  <1>6. \A t \in Threads : \A i \in DOMAIN todo[t] : todo[t][i].do \in Steps
    BY TodoTypes
  <1> QED  BY <1>1, <1>2, <1>4, <1>5, <1>6 DEF Types, TypeOK

(* The goroutines may do to each other what they like: a slot holds a file *)
(* that exists, nobody works on a mountpoint that was never made, and the  *)
(* used part of the list stays within its array, in which RemoveMountpoint *)
(* moves and AddMountpoint overwrites what unmountAll still ranges over.   *)
THEOREM TypesCorrect == Spec => []TypeOK
  <1>1. LInv => TypeOK
    BY TypesSuffice
  <1> QED  BY <1>1, InvariantHolds, PTL

(* AddMountpoint lists no medium and no mountpoint twice, though it does   *)
(* not look: setupAddMountpoint looks for the label before the mount, and  *)
(* only the poll of the block devices ever adds.  This ends when an append *)
(* or a slices.Delete stores over what another has stored since it loaded  *)
(* the list (torn), which nothing in the code prevents.                    *)
THEOREM NothingListedTwice == Spec => []ListedOnce
  <1>1. LInv => ListedOnce
    BY DEF LInv
  <1> QED  BY <1>1, InvariantHolds, PTL

(* A file system mounted by setupAddMountpoint is listed, or the poll is   *)
(* about to list or to unmount it: unmountMountpoint takes a mountpoint    *)
(* out of the list only when it is unmounted, whoever else unmounts it.    *)
(* This too ends with a list that was torn: a slices.Delete that stores    *)
(* over an append hides what was appended.                                 *)
THEOREM MountedIsKnown == Spec => []MountedKnown
  <1>1. LInv => MountedKnown
    <2>1. \A m : Held(m) => InHand(m)
      BY DEF Held, InHand
    <2> QED  BY <2>1 DEF LInv, MountsOK, MountedKnown
  <1> QED  BY <1>1, InvariantHolds, PTL

(* onHDOperationStart keeps the emulator from being started again, and     *)
(* whichever of its early returns an operation takes, however many of them *)
(* overlap, the last to end has run onHDOperationDone.                     *)
THEOREM EmulatorReruns == Spec => []RerunRestored
  <1>1. LInv /\ RestartsOK => RerunRestored
    <2>1. ASSUME RestartsOK, AtRest PROVE rerunEmulator
      <3>1. \A t \in Threads : todo[t] = <<>>
        BY <2>1 DEF AtRest, Busy
      <3>2. ~Restores(<<>>)
        BY DEF Restores
      <3> QED  BY <2>1, <3>1, <3>2 DEF AtRest, RestartsOK
    <2> QED  BY <2>1 DEF RerunRestored
  <1> QED  BY <1>1, InvariantHolds, PTL
=============================================================================
