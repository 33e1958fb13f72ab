-------------------------- MODULE AddFileSystemProofs --------------------------
(***************************************************************************)
(* For all devices, threads and bounds: no search meets a place of the     *)
(* list without a medium, though the poll changes the list under it, and   *)
(* no medium has a second handle open, though two threads find it at once. *)
(*                                                                         *)
(* The search is safe because slices.Delete moves media down and leaves    *)
(* what was behind them: every place that ever held a medium holds one.    *)
(* The handle is safe because whoever has opened it and not stored it owns *)
(* the mutex of the medium.                                                *)
(*                                                                         *)
(* And that a call for a disk that stays in its drive is served by it.  At *)
(* most one medium per device is listed (PollOK), so that the medium a     *)
(* search finds is the one whose disk stays: until it is found, all places *)
(* of the search with that device hold it, in the list's array or in one   *)
(* left behind (CallOK).  A handle of it was opened on a disk no older     *)
(* than the one Probe met and no newer than the one in the drive, so on    *)
(* that one (MediaOK): a disk put in again counts as new.                  *)
(***************************************************************************)
EXTENDS AddFileSystem, FiniteSetTheorems, SequenceTheorems, WellFoundedInduction, TLAPS

Medium == [device : Devices, disk : Nat \union {None}, look : Looks \union {None},
           handle : Nat \union {None}, owner : Threads \union {None}]
Places == {"idle", "search", "lock", "opened", "use", "return"}
Thread == [pc : Places, want : Devices \union {None}, own : Seq(Nat), len : Nat, i : Nat,
           medium : Nat, handle : Nat \union {None},
           answer : SUBSET (Devices \union Nat \union {ENOENT, EIO}),
           steady : SUBSET Devices, crossed : BOOLEAN]

Types ==
    /\ look \in Seq(Looks)
    /\ inDrive \in [Devices -> 1..Len(look) \union {None}]
    /\ old \in [Devices -> Looks \union {None}]
    /\ media \in Seq(Medium) /\ array \in Seq(Nat) /\ size \in Nat
    /\ closing \in 1..Len(media) \union {None}
    /\ thread \in [Threads -> Thread]

(* The list is a part of its array, and has media.                         *)
ListOK ==
    /\ size <= Len(array)
    /\ \A k \in 1..size : array[k] \in 1..Len(media)

(* A search stays within its array and meets media, also at the places it  *)
(* has behind it: a later removal may move them, never empty them.         *)
SearchOK ==
    \A t \in Threads : Searching(t) =>
        /\ thread[t].i # 0
        /\ \A k \in 1..thread[t].len :
             /\ thread[t].own = <<>> => k <= Len(array)
             /\ At(t, k) \in 1..Len(media)

(* Whoever works on a medium owns its mutex; a handle opened and not       *)
(* stored is the only one.                                                 *)
MutexOK ==
    \A t \in Threads : LET r == thread[t] IN
        /\ r.pc \in {"lock", "opened", "use"} => r.medium \in 1..Len(media)
        /\ r.pc \in {"opened", "use"} => media[r.medium].owner = t
        /\ r.pc = "opened" => media[r.medium].handle = None

AInv == Types /\ ListOK /\ SearchOK /\ MutexOK

-----------------------------------------------------------------------------
LEMMA IdleThread == Idle \in Thread
  <1>1. <<>> \in Seq(Nat)  OBVIOUS
  <1> QED  BY <1>1 DEF Idle, Thread, Places

(* The least of a set of positions is one of them.                         *)
LEMMA PlaceListed ==
  ASSUME size \in Nat, NEW d
  PROVE  /\ Place(d) \in 0..size
         /\ Place(d) # 0 => media[array[Place(d)]].device = d
         /\ Place(d) = 0 => \A k \in 1..size : media[array[k]].device # d
  <1> DEFINE places == {k \in 1..size : media[array[k]].device = d}
  <1>1. CASE places = {}
    BY <1>1 DEF Place
  <1>2. CASE places # {}
    <2>1. places \subseteq Nat  OBVIOUS
    <2>2. PICK k \in places : \A j \in places : <<j, k>> \notin OpToRel(<, Nat)
      BY <1>2, <2>1, NatLessThanWellFounded, WFMin, Zenon
    <2>3. \A j \in places : ~ (j < k)
      <3> HIDE DEF places
      <3> QED  BY <2>1, <2>2, Zenon DEF OpToRel
    <2>4. Place(d) = CHOOSE n \in places : \A j \in places : n <= j
      BY <1>2 DEF Place
    <2> HIDE DEF places
    <2>5. Place(d) \in places
      <3>1. \A j \in places : k <= j
        BY <2>1, <2>3
      <3> QED  BY <2>4, <3>1
    <2> QED  BY <2>5 DEF places
  <1> QED  BY <1>1, <1>2

LEMMA InitAInv == Init => AInv
  <1> SUFFICES ASSUME Init PROVE AInv  OBVIOUS
  <1>1. Types
    <2>1. look \in Seq(Looks) /\ media \in Seq(Medium) /\ array \in Seq(Nat)
      BY DEF Init
    <2>2. thread \in [Threads -> Thread]
      BY IdleThread DEF Init
    <2> QED  BY <2>1, <2>2 DEF Init, Types
  <1>2. ListOK  BY DEF Init, ListOK
  <1>3. \A t \in Threads : thread[t].pc = "idle"
    BY DEF Init, Idle
  <1>4. SearchOK  BY <1>3 DEF SearchOK, Searching
  <1>5. MutexOK  BY <1>3 DEF MutexOK
  <1> QED  BY <1>1, <1>2, <1>4, <1>5 DEF AInv

(* What leaves the list and what threads do alone keeps the three parts.   *)
LEMMA ThreadsAlone ==
  ASSUME AInv, UNCHANGED <<media, array, size>>, thread' \in [Threads -> Thread],
         \A t \in Threads : /\ thread'[t].pc = thread[t].pc
                            /\ thread'[t].own = thread[t].own
                            /\ thread'[t].len = thread[t].len
                            /\ thread'[t].i = thread[t].i
                            /\ thread'[t].medium = thread[t].medium
  PROVE  ListOK' /\ SearchOK' /\ MutexOK'
  <1>1. ListOK'  BY DEF AInv, ListOK
  <1>2. SearchOK'  BY DEF AInv, SearchOK, Searching, At
  <1>3. MutexOK'  BY DEF AInv, MutexOK
  <1> QED  BY <1>1, <1>2, <1>3

LEMMA InsertKeeps == ASSUME AInv, NEW d \in Devices, Insert(d) PROVE AInv'
  <1>1. /\ UNCHANGED <<old, media, array, size, closing, thread>>
        /\ inDrive' = [inDrive EXCEPT ![d] = Len(look) + 1]
    BY DEF Insert, pollVars, listVars
  <1>2. PICK l \in Looks : look' = Append(look, l)
    BY DEF Insert
  <1>3. look' \in Seq(Looks) /\ Len(look') = Len(look) + 1 /\ Len(look) \in Nat
    BY <1>2, LenProperties DEF AInv, Types
  <1>4. Types'  BY <1>1, <1>3 DEF AInv, Types
  <1>5. ListOK' /\ SearchOK' /\ MutexOK'
    BY <1>1, ThreadsAlone DEF AInv, Types
  <1> QED  BY <1>4, <1>5 DEF AInv

LEMMA EjectKeeps == ASSUME AInv, NEW d \in Devices, Eject(d) PROVE AInv'
  <1>1. /\ UNCHANGED <<look, old, media, array, size, closing>>
        /\ inDrive' = [inDrive EXCEPT ![d] = None]
        /\ thread' = [t \in Threads |-> [thread[t] EXCEPT !.steady = @ \ {d}]]
    BY DEF Eject, Unsteady, pollVars, listVars
  <1>2. thread' \in [Threads -> Thread]
    BY <1>1 DEF AInv, Types, Thread
  <1>3. Types'  BY <1>1, <1>2 DEF AInv, Types
  <1>4. ListOK' /\ SearchOK' /\ MutexOK'
    BY <1>1, <1>2, ThreadsAlone DEF AInv, Types, Thread
  <1> QED  BY <1>3, <1>4 DEF AInv

(* The steps of the world and the poll that touch no list and no thread.   *)
LEMMA LookKeeps == AInv /\ (PressFormatKeys \/ loop \/ UNCHANGED vars) => AInv'
  <1> SUFFICES ASSUME AInv, PressFormatKeys \/ loop \/ UNCHANGED vars PROVE AInv'  OBVIOUS
  <1>1. UNCHANGED <<inDrive, look, media, array, size, closing, thread>>
    BY DEF PressFormatKeys, loop, vars, world, pollVars, listVars
  <1>2. old' \in [Devices -> Looks \union {None}]
    <2>1. \A d \in Devices : Shown(d) \in Looks \union {None}
      BY ElementOfSeq DEF Shown, AInv, Types
    <2> QED  BY <2>1 DEF PressFormatKeys, loop, vars, pollVars, AInv, Types
  <1>3. Types'  BY <1>1, <1>2 DEF AInv, Types
  <1>4. ListOK' /\ SearchOK' /\ MutexOK'
    BY <1>1, ThreadsAlone DEF AInv, Types
  <1> QED  BY <1>3, <1>4 DEF AInv

-----------------------------------------------------------------------------
(* The poll.  A removal changes the list in place; a search that has its   *)
(* array meets other media, but media.                                     *)
LEMMA DownProperties ==
  ASSUME Types, ListOK, NEW k \in 1..size
  PROVE  /\ Down(k) \in Seq(Nat) /\ Len(Down(k)) = Len(array)
         /\ \A j \in 1..Len(array) :
              \/ Down(k)[j] = array[j]
              \/ Down(k)[j] \in 1..Len(media)
  <1>1. array \in [1..Len(array) -> Nat] /\ Len(array) \in Nat /\ DOMAIN array = 1..Len(array)
    BY LenProperties DEF Types
  <1>2. \A j \in 1..Len(array) :
          Down(k)[j] = IF j >= k /\ j < size THEN array[j + 1] ELSE array[j]
    BY <1>1 DEF Down
  <1>3. \A j \in 1..Len(array) : j < size => array[j + 1] \in 1..Len(media)
    BY DEF Types, ListOK
  <1>4. Down(k) \in [1..Len(array) -> Nat]
    BY <1>1, <1>3 DEF Down, ListOK, Types
  <1>5. Down(k) \in Seq(Nat) /\ Len(Down(k)) = Len(array)
    BY <1>1, <1>4
  <1> QED  BY <1>2, <1>3, <1>5

LEMMA RemoveKeeps ==
  ASSUME AInv, NEW d \in Devices, RemoveMediumByDevicePathname(d)
  PROVE  AInv'
  <1> USE DEF AInv
  <1>1. UNCHANGED <<inDrive, look, old, media>>
    BY DEF RemoveMediumByDevicePathname, world
  <1>2. CASE Place(d) = 0
    <2>1. UNCHANGED <<array, size, closing, thread>>
      BY <1>2 DEF RemoveMediumByDevicePathname
    <2>2. Types'  BY <1>1, <2>1 DEF Types
    <2>3. ListOK' /\ SearchOK' /\ MutexOK'
      BY <1>1, <2>1, ThreadsAlone DEF Types
    <2> QED  BY <2>2, <2>3
  <1>3. CASE Place(d) # 0
    <2>1. size \in Nat /\ Len(array) \in Nat /\ size <= Len(array)
      BY LenProperties DEF Types, ListOK
    <2>2. PICK k \in 1..size : k = Place(d)
      BY <1>3, <2>1, PlaceListed
    <2>3. size' = size - 1 /\ array' = Down(k) /\ closing' = array[k]
      BY <1>3, <2>2 DEF RemoveMediumByDevicePathname
    <2>4. thread' = [t \in Threads |-> [thread[t] EXCEPT !.crossed = @ \/ Searching(t),
                                                        !.steady = @ \ {d}]]
      BY <1>3 DEF RemoveMediumByDevicePathname
    <2>5. /\ array' \in Seq(Nat) /\ Len(array') = Len(array)
          /\ \A j \in 1..Len(array) : array'[j] = array[j] \/ array'[j] \in 1..Len(media)
      BY <2>3, DownProperties
    <2>6. size' \in Nat /\ size' <= size /\ closing' \in 1..Len(media)
      BY <2>1, <2>3 DEF ListOK
    <2>7. thread' \in [Threads -> Thread]
      BY <2>4 DEF Types, Thread, Searching
    <2>8. \A t \in Threads : /\ thread'[t].pc = thread[t].pc /\ thread'[t].own = thread[t].own
                             /\ thread'[t].len = thread[t].len /\ thread'[t].i = thread[t].i
                             /\ thread'[t].medium = thread[t].medium
      BY <2>4 DEF Types, Thread
    <2>9. Types'  BY <1>1, <2>5, <2>6, <2>7 DEF Types
    <2>10. ListOK'
      <3>1. size' <= Len(array')
        BY <2>1, <2>5, <2>6
      <3>2. ASSUME NEW j \in 1..size'  PROVE array'[j] \in 1..Len(media)
        <4>1. j \in 1..size /\ j \in 1..Len(array)
          BY <2>1, <2>6
        <4> QED  BY <2>5, <4>1 DEF ListOK
      <3> QED  BY <1>1, <3>1, <3>2 DEF ListOK
    <2>11. SearchOK'
      <3> SUFFICES ASSUME NEW t \in Threads, Searching(t), NEW j \in 1..thread[t].len
                   PROVE  /\ thread[t].i # 0
                          /\ thread[t].own = <<>> => j <= Len(array)
                          /\ At(t, j)' \in 1..Len(media)
        BY <1>1, <2>5, <2>8 DEF SearchOK, Searching
      <3>1. /\ thread[t].i # 0 /\ (thread[t].own = <<>> => j <= Len(array))
            /\ At(t, j) \in 1..Len(media)
        BY DEF SearchOK
      <3>2. CASE thread[t].own = <<>>
        <4>1. j \in 1..Len(array)
          BY <2>1, <3>1, <3>2 DEF Types, Thread
        <4> QED  BY <2>5, <2>8, <3>1, <3>2, <4>1 DEF At
      <3>3. CASE thread[t].own # <<>>
        BY <2>8, <3>1, <3>3 DEF At
      <3> QED  BY <3>1, <3>2, <3>3
    <2>12. MutexOK'
      BY <1>1, <2>8 DEF MutexOK
    <2> QED  BY <2>9, <2>10, <2>11, <2>12
  <1> QED  BY <1>2, <1>3

(* One field of a medium changes.                                          *)
LEMMA NewHandle ==
  ASSUME Types, NEW m \in 1..Len(media), NEW h \in Nat \union {None},
         media' = [media EXCEPT ![m].handle = h]
  PROVE  /\ media' \in Seq(Medium) /\ Len(media') = Len(media)
         /\ \A n \in 1..Len(media) : /\ media'[n].handle = IF n = m THEN h ELSE media[n].handle
                                     /\ media'[n].owner = media[n].owner
                                     /\ media'[n].device = media[n].device
                                     /\ media'[n].disk = media[n].disk
  <1>1. media \in Seq(Medium) /\ media \in [1..Len(media) -> Medium]
    BY LenProperties DEF Types
  <1>2. [media[m] EXCEPT !.handle = h] \in Medium
    BY <1>1 DEF Medium
  <1>3. media' = [media EXCEPT ![m] = [media[m] EXCEPT !.handle = h]]
    OBVIOUS
  <1> DEFINE e == [media[m] EXCEPT !.handle = h]
  <1>4. /\ e \in Medium /\ e.handle = h /\ e.owner = media[m].owner
        /\ e.device = media[m].device /\ e.disk = media[m].disk
    BY <1>1, <1>2 DEF Medium
  <1> HIDE DEF e
  <1>5. media' \in Seq(Medium) /\ Len(media') = Len(media)
    BY <1>1, <1>3, <1>4, ExceptSeq DEF e
  <1>6. \A n \in 1..Len(media) : media'[n] = IF n = m THEN e ELSE media[n]
    BY <1>1, <1>3 DEF e
  <1> QED  BY <1>4, <1>5, <1>6

LEMMA NewOwner ==
  ASSUME Types, NEW m \in 1..Len(media), NEW o \in Threads \union {None},
         media' = [media EXCEPT ![m].owner = o]
  PROVE  /\ media' \in Seq(Medium) /\ Len(media') = Len(media)
         /\ \A n \in 1..Len(media) : /\ media'[n].owner = IF n = m THEN o ELSE media[n].owner
                                     /\ media'[n].handle = media[n].handle
                                     /\ media'[n].device = media[n].device
                                     /\ media'[n].disk = media[n].disk
  <1>1. media \in Seq(Medium) /\ media \in [1..Len(media) -> Medium]
    BY LenProperties DEF Types
  <1>2. [media[m] EXCEPT !.owner = o] \in Medium
    BY <1>1 DEF Medium
  <1>3. media' = [media EXCEPT ![m] = [media[m] EXCEPT !.owner = o]]
    OBVIOUS
  <1> DEFINE e == [media[m] EXCEPT !.owner = o]
  <1>4. /\ e \in Medium /\ e.owner = o /\ e.handle = media[m].handle
        /\ e.device = media[m].device /\ e.disk = media[m].disk
    BY <1>1, <1>2 DEF Medium
  <1> HIDE DEF e
  <1>5. media' \in Seq(Medium) /\ Len(media') = Len(media)
    BY <1>1, <1>3, <1>4, ExceptSeq DEF e
  <1>6. \A n \in 1..Len(media) : media'[n] = IF n = m THEN e ELSE media[n]
    BY <1>1, <1>3 DEF e
  <1> QED  BY <1>4, <1>5, <1>6

LEMMA CloseKeeps == ASSUME AInv, CloseMedium \/ CloseHandle PROVE AInv'
  <1> USE DEF AInv
  <1>1. /\ UNCHANGED <<inDrive, look, old, array, size>>
        /\ closing \in 1..Len(media) /\ closing' \in {closing, None}
        /\ media' \in {media, [media EXCEPT ![closing].handle = None]}
        /\ \E failed \in SUBSET Using : Fail(failed)
    BY DEF CloseMedium, CloseHandle, world, pollVars, Types
  <1>3. PICK failed \in SUBSET Using :
          thread' = [t \in Threads |-> IF t \in failed THEN [thread[t] EXCEPT !.handle = None]
                                                      ELSE thread[t]]
    BY <1>1 DEF Fail
  <1>2. /\ media' \in Seq(Medium) /\ Len(media') = Len(media)
        /\ \A m \in 1..Len(media) : /\ media'[m].owner = media[m].owner
                                    /\ media'[m].handle \in {media[m].handle, None}
    <2>1. CASE media' = [media EXCEPT ![closing].handle = None]
      <3>1. /\ media' \in Seq(Medium) /\ Len(media') = Len(media)
            /\ \A m \in 1..Len(media) :
                 /\ media'[m].handle = IF m = closing THEN None ELSE media[m].handle
                 /\ media'[m].owner = media[m].owner
        <4>1. PICK m \in 1..Len(media) : media' = [media EXCEPT ![m].handle = None] /\ m = closing
          BY <1>1, <2>1
        <4>2. PICK h \in Nat \union {None} : h = None
          OBVIOUS
        <4>3. Types /\ media' = [media EXCEPT ![m].handle = h]
          BY <4>1, <4>2
        <4>4. /\ media' \in Seq(Medium) /\ Len(media') = Len(media)
              /\ \A n \in 1..Len(media) :
                   /\ media'[n].handle = IF n = m THEN h ELSE media[n].handle
                   /\ media'[n].owner = media[n].owner
          <5> HIDE DEF AInv
          <5> QED  BY <4>3, NewHandle
        <4> QED  BY <4>1, <4>2, <4>4
      <3> QED  BY <3>1
    <2>2. CASE media' = media
      <3>1. media \in Seq(Medium)  BY DEF Types
      <3> QED  BY <2>2, <3>1
    <2> QED  BY <1>1, <2>1, <2>2
  <1>4. thread' \in [Threads -> Thread]
    BY <1>3 DEF Types, Thread
  <1>5. \A t \in Threads : /\ thread'[t].pc = thread[t].pc /\ thread'[t].own = thread[t].own
                           /\ thread'[t].len = thread[t].len /\ thread'[t].i = thread[t].i
                           /\ thread'[t].medium = thread[t].medium
    BY <1>3 DEF Types, Thread
  <1>6. Types'  BY <1>1, <1>2, <1>4 DEF Types
  <1>7. ListOK'  BY <1>1, <1>2 DEF ListOK
  <1>8. SearchOK'  BY <1>1, <1>2, <1>5 DEF SearchOK, Searching, At
  <1>9. MutexOK'  BY <1>2, <1>5 DEF MutexOK
  <1> QED  BY <1>6, <1>7, <1>8, <1>9

-----------------------------------------------------------------------------
(* A new medium is behind all others; where it is put no search has come.  *)
LEMMA AttachKeeps == ASSUME AInv, NEW d \in Devices, Attach(d) PROVE AInv'
  <1> USE DEF AInv
  <1>1. UNCHANGED <<inDrive, old, closing>>
    BY DEF Attach
  <1>2. look' \in Seq(Looks) /\ Len(look') = Len(look)
    <2>1. formatDeviceIfNeeded(d)  BY DEF Attach
    <2>2. CASE look' = look  BY <2>2 DEF Types
    <2>3. CASE Format(d)
      <3>1. inDrive[d] \in 1..Len(look)  BY <2>3 DEF Format, Types
      <3> QED  BY <2>3, <3>1, ExceptSeq, ConstantsAssumption DEF Format, Types
    <2> QED  BY <2>1, <2>2, <2>3 DEF formatDeviceIfNeeded, FormatFails
  <1>3. size \in Nat /\ Len(array) \in Nat /\ size <= Len(array) /\ Len(media) \in Nat
    BY LenProperties DEF Types, ListOK
  <1>4. CASE UNCHANGED <<media, array, size, thread>>
    <2>1. Types'  BY <1>1, <1>2, <1>4 DEF Types
    <2>2. ListOK' /\ SearchOK' /\ MutexOK'
      BY <1>4, ThreadsAlone DEF Types
    <2> QED  BY <2>1, <2>2
  <1>5. CASE ~ UNCHANGED <<media, array, size, thread>>
    <2> DEFINE m == Len(media) + 1
    <2>1. PICK e : /\ media' = Append(media, e) /\ e \in Medium
      <3>1. PICK l : media' = Append(media, [device |-> d, disk |-> inDrive[d], look |-> l,
                                             handle |-> None, owner |-> None])
                     /\ l \in {Blank, old[d]}
        BY <1>5 DEF Attach
      <3>2. inDrive[d] \in Nat \union {None} /\ l \in Looks \union {None}
        BY <3>1, ConstantsAssumption DEF Types
      <3> QED  BY <3>1, <3>2 DEF Medium
    <2>2. AddMedium(m)  BY <1>5 DEF Attach
    <2>3. /\ media' \in Seq(Medium) /\ Len(media') = m
          /\ \A n \in 1..Len(media) : media'[n] = media[n]
      BY <2>1 DEF Types
    <2>4. size' = size + 1  BY <2>2 DEF AddMedium
    <2> HIDE DEF m
    <2>5. m \in Nat /\ m \in 1..Len(media') /\ Len(media) <= Len(media')
      BY <1>3, <2>3 DEF m
    <2>6. CASE size < Len(array)
      <3>1. array' = [array EXCEPT ![size + 1] = m] /\ thread' = thread
        BY <2>2, <2>6 DEF AddMedium
      <3>2. size + 1 \in 1..Len(array)  BY <1>3, <2>6
      <3>3. /\ array' \in Seq(Nat) /\ Len(array') = Len(array)
            /\ \A k \in 1..Len(array) : array'[k] = IF k = size + 1 THEN m ELSE array[k]
        BY <2>5, <3>1, <3>2, ExceptSeq DEF Types
      <3>4. Types'
        BY <1>1, <1>2, <1>3, <2>3, <2>4, <2>5, <3>1, <3>3 DEF Types
      <3>5. ListOK'
        <4>1. ASSUME NEW k \in 1..size'  PROVE array'[k] \in 1..Len(media')
          <5>1. k \in 1..Len(array) /\ (k # size + 1 => k \in 1..size)
            BY <1>3, <2>4, <2>6
          <5> QED  BY <1>3, <2>5, <3>3, <5>1 DEF ListOK
        <4> QED  BY <1>3, <2>4, <2>6, <3>3, <4>1 DEF ListOK
      <3>6. SearchOK'
        <4> SUFFICES ASSUME NEW t \in Threads, Searching(t), NEW k \in 1..thread[t].len
                     PROVE  At(t, k)' \in 1..Len(media')
          BY <3>1, <3>3 DEF SearchOK, Searching
        <4>1. At(t, k) \in 1..Len(media') /\ (thread[t].own = <<>> => k <= Len(array))
          BY <1>3, <2>5 DEF SearchOK
        <4>2. CASE thread[t].own = <<>>
          <5>1. k \in 1..Len(array)  BY <1>3, <4>1, <4>2 DEF Types, Thread
          <5> QED  BY <2>5, <3>1, <3>3, <4>1, <4>2, <5>1 DEF At
        <4> QED  BY <3>1, <4>1, <4>2 DEF At
      <3>7. MutexOK'
        BY <1>3, <2>3, <2>5, <3>1 DEF MutexOK
      <3> QED  BY <3>4, <3>5, <3>6, <3>7
    <2>7. CASE ~ (size < Len(array))
      <3> DEFINE n == IF size = 0 THEN 1 ELSE 2 * size
      <3>1. /\ array' = [k \in 1..n |-> IF k <= size THEN array[k]
                                        ELSE IF k = size + 1 THEN m ELSE 0]
            /\ thread' = [t \in Threads |-> IF thread[t].own = <<>> /\ Searching(t)
                            THEN [thread[t] EXCEPT !.own = array] ELSE thread[t]]
        BY <2>2, <2>7 DEF AddMedium
      <3>2. n \in Nat /\ size + 1 <= n /\ size = Len(array)  BY <1>3, <2>7
      <3> HIDE DEF n
      <3>3. \A k \in 1..size : array[k] \in Nat
        BY <3>2, ElementOfSeq DEF Types
      <3>4. array' \in [1..n -> Nat]
        BY <1>3, <2>5, <3>1, <3>2, <3>3
      <3>5. array' \in Seq(Nat) /\ Len(array') = n
        BY <3>2, <3>4
      <3>6. \A k \in 1..size + 1 : array'[k] = IF k <= size THEN array[k] ELSE m
        BY <1>3, <3>1, <3>2
      <3>7. /\ thread' \in [Threads -> Thread]
            /\ \A t \in Threads :
                 /\ thread'[t].pc = thread[t].pc /\ thread'[t].len = thread[t].len
                 /\ thread'[t].i = thread[t].i /\ thread'[t].medium = thread[t].medium
                 /\ thread'[t].own = IF thread[t].own = <<>> /\ Searching(t) THEN array
                                     ELSE thread[t].own
        BY <3>1 DEF Types, Thread
      <3>8. Types'
        BY <1>1, <1>2, <1>3, <2>3, <2>4, <2>5, <3>5, <3>7 DEF Types
      <3>9. ListOK'
        <4>1. ASSUME NEW k \in 1..size'  PROVE array'[k] \in 1..Len(media')
          <5>1. k \in 1..size + 1 /\ (k <= size => k \in 1..size)
            BY <1>3, <2>4
          <5> QED  BY <1>3, <2>5, <3>6, <5>1 DEF ListOK
        <4> QED  BY <1>3, <2>4, <3>2, <3>5, <4>1 DEF ListOK
      <3>10. SearchOK'
        <4> SUFFICES ASSUME NEW t \in Threads, Searching(t), NEW k \in 1..thread[t].len
                     PROVE  /\ thread'[t].own # <<>>
                            /\ At(t, k)' \in 1..Len(media')
          BY <3>7 DEF SearchOK, Searching
        <4>1. /\ At(t, k) \in 1..Len(media') /\ (thread[t].own = <<>> => k <= Len(array))
              /\ k \in Nat /\ k >= 1
          BY <1>3, <2>5 DEF SearchOK, Types, Thread
        <4>2. CASE thread[t].own = <<>>
          <5>1. array # <<>>
            BY <1>3, <4>1, <4>2, EmptySeq DEF Types
          <5> QED  BY <3>7, <4>1, <4>2, <5>1 DEF At
        <4>3. CASE thread[t].own # <<>>
          BY <3>7, <4>1, <4>3 DEF At
        <4> QED  BY <4>2, <4>3
      <3>11. MutexOK'
        BY <1>3, <2>3, <2>5, <3>7 DEF MutexOK
      <3> QED  BY <3>8, <3>9, <3>10, <3>11
    <2> QED  BY <2>6, <2>7
  <1> QED  BY <1>4, <1>5

-----------------------------------------------------------------------------
(* A step of one thread: what has to be shown of its new state r, and that *)
(* the others still own what they work on.                                 *)
LEMMA OneThread ==
  ASSUME AInv, NEW t \in Threads, NEW r \in Thread, thread' = [thread EXCEPT ![t] = r],
         UNCHANGED <<inDrive, look, old, array, size, closing>>,
         media' \in Seq(Medium), Len(media') = Len(media),
         r.pc = "search" =>
            /\ r.i # 0
            /\ \A k \in 1..r.len :
                 /\ r.own = <<>> => k <= Len(array) /\ array[k] \in 1..Len(media)
                 /\ r.own # <<>> => r.own[k] \in 1..Len(media),
         r.pc \in {"lock", "opened", "use"} => r.medium \in 1..Len(media),
         r.pc \in {"opened", "use"} => media'[r.medium].owner = t,
         r.pc = "opened" => media'[r.medium].handle = None,
         \A u \in Threads \ {t} :
            /\ thread[u].pc \in {"opened", "use"} => media'[thread[u].medium].owner = u
            /\ thread[u].pc = "opened" => media'[thread[u].medium].handle = None
  PROVE  AInv'
  <1>1. thread' \in [Threads -> Thread]
        /\ \A u \in Threads : thread'[u] = IF u = t THEN r ELSE thread[u]
    BY DEF AInv, Types
  <1>2. Types'  BY <1>1 DEF AInv, Types
  <1>3. ListOK'  BY DEF AInv, ListOK
  <1>4. SearchOK'
    <2> SUFFICES ASSUME NEW u \in Threads, thread'[u].pc = "search"
                 PROVE  /\ thread'[u].i # 0
                        /\ \A k \in 1..thread'[u].len :
                             /\ thread'[u].own = <<>> => k <= Len(array)
                             /\ (IF thread'[u].own = <<>> THEN array[k] ELSE thread'[u].own[k])
                                  \in 1..Len(media)
      BY DEF SearchOK, Searching, At
    <2>1. CASE u = t
      BY <1>1, <2>1
    <2>2. CASE u # t
      BY <1>1, <2>2 DEF AInv, SearchOK, Searching, At
    <2> QED  BY <2>1, <2>2
  <1>5. MutexOK'
    <2> SUFFICES ASSUME NEW u \in Threads
                 PROVE  /\ thread'[u].pc \in {"lock", "opened", "use"}
                              => thread'[u].medium \in 1..Len(media)
                        /\ thread'[u].pc \in {"opened", "use"}
                              => media'[thread'[u].medium].owner = u
                        /\ thread'[u].pc = "opened" => media'[thread'[u].medium].handle = None
      BY DEF MutexOK
    <2>1. CASE u = t
      BY <1>1, <2>1
    <2>2. CASE u # t
      BY <1>1, <2>2 DEF AInv, MutexOK
    <2> QED  BY <2>1, <2>2
  <1> QED  BY <1>2, <1>3, <1>4, <1>5 DEF AInv

(* The same for the steps of a search and of a return: no medium changes.  *)
LEMMA SearchStep ==
  ASSUME AInv, NEW t \in Threads, NEW r \in Thread, thread' = [thread EXCEPT ![t] = r],
         UNCHANGED <<inDrive, look, old, media, array, size, closing>>,
         r.pc \notin {"opened", "use"},
         r.pc = "lock" => r.medium \in 1..Len(media),
         r.pc = "search" =>
            /\ r.i # 0
            /\ \/ r.own = <<>> /\ r.len = size
               \/ thread[t].pc = "search" /\ r.len = thread[t].len /\ r.own = thread[t].own
  PROVE  AInv'
  <1> USE DEF AInv
  <1>1. r.pc = "search" =>
          /\ r.i # 0
          /\ \A k \in 1..r.len :
               /\ r.own = <<>> => k <= Len(array) /\ array[k] \in 1..Len(media)
               /\ r.own # <<>> => r.own[k] \in 1..Len(media)
    <2>1. ASSUME r.own = <<>>, r.len = size, NEW k \in 1..r.len
          PROVE  k <= Len(array) /\ array[k] \in 1..Len(media)
      BY <2>1, LenProperties DEF ListOK, Types
    <2>2. ASSUME thread[t].pc = "search", r.len = thread[t].len, r.own = thread[t].own,
                 NEW k \in 1..r.len
          PROVE  /\ r.own = <<>> => k <= Len(array) /\ array[k] \in 1..Len(media)
                 /\ r.own # <<>> => r.own[k] \in 1..Len(media)
      BY <2>2 DEF SearchOK, Searching, At
    <2> QED  BY <2>1, <2>2
  <1>2. \A u \in Threads \ {t} :
          /\ thread[u].pc \in {"opened", "use"} => media[thread[u].medium].owner = u
          /\ thread[u].pc = "opened" => media[thread[u].medium].handle = None
    BY DEF MutexOK
  <1>3. media \in Seq(Medium)  BY DEF Types
  <1>4. r.pc \in {"lock", "opened", "use"} => r.medium \in 1..Len(media)
    OBVIOUS
  <1> HIDE DEF AInv
  <1> QED  BY <1>1, <1>2, <1>3, <1>4, OneThread

LEMMA CallKeeps ==
  ASSUME AInv, NEW t \in Threads, NEW want \in Wants[t], Call(t, want)
  PROVE  AInv'
  <1> DEFINE r == [Idle EXCEPT !.pc = "search", !.want = want, !.len = size, !.i = 1,
                               !.steady = {d \in Devices : Settled(d)}]
  <1>1. thread' = [thread EXCEPT ![t] = r]
        /\ UNCHANGED <<inDrive, look, old, media, array, size, closing>>
    BY DEF Call, Set, world, pollVars, listVars
  <1>2. r \in Thread /\ r.pc = "search" /\ r.own = <<>> /\ r.len = size /\ r.i = 1
    <2>1. want \in Devices \union {None}
      BY ConstantsAssumption
    <2> QED  BY <2>1, IdleThread DEF Thread, Places, Idle, AInv, Types
  <1> HIDE DEF r
  <1>3. /\ r.pc \notin {"opened", "use"} /\ r.pc # "lock"
        /\ r.i # 0 /\ r.own = <<>> /\ r.len = size
    BY <1>2
  <1> QED  BY <1>1, <1>2, <1>3, SearchStep

LEMMA RangeElementKeeps ==
  ASSUME AInv, NEW t \in Threads, RangeElement(t)
  PROVE  AInv'
  <1>1. /\ UNCHANGED <<inDrive, look, old, media, array, size, closing>>
        /\ thread[t].pc = "search" /\ thread[t].i <= thread[t].len
    BY DEF RangeElement, Step, world, pollVars
  <1>2. thread[t] \in Thread  BY DEF AInv, Types
  <1>3. thread[t].i # 0 /\ Element(t) \in 1..Len(media)
    <2>1. thread[t].i # 0
      BY <1>1 DEF AInv, SearchOK, Searching
    <2>2. thread[t].i \in 1..thread[t].len
      BY <1>1, <1>2, <2>1 DEF Thread
    <2> QED  BY <1>1, <2>1, <2>2 DEF AInv, SearchOK, Searching, Element
  <1>4. PICK d \in Devices : d = media[Element(t)].device
    <2>1. media[Element(t)] \in Medium
      BY <1>3, ElementOfSeq DEF AInv, Types
    <2> QED  BY <2>1 DEF Medium
  <1> DEFINE listed == [thread[t] EXCEPT !.i = @ + 1, !.answer = @ \union {d}]
             found  == [thread[t] EXCEPT !.pc = "lock", !.medium = Element(t)]
             next   == [thread[t] EXCEPT !.i = @ + 1]
  <1>5. \/ thread' = [thread EXCEPT ![t] = listed]
        \/ thread' = [thread EXCEPT ![t] = found]
        \/ thread' = [thread EXCEPT ![t] = next]
    <2>1. thread' = [thread EXCEPT ![t] =
                      CASE thread[t].want = None -> listed
                        [] thread[t].want = d    -> found
                        [] OTHER                 -> next]
      BY <1>4, Zenon DEF RangeElement, Set
    <2> HIDE DEF listed, found, next
    <2>2. thread[t].want = None => thread[t].want # d
      BY <1>4, ConstantsAssumption
    <2> QED  BY <2>1, <2>2
  <1>6. /\ listed \in Thread /\ listed.pc = "search" /\ listed.i # 0
        /\ listed.len = thread[t].len /\ listed.own = thread[t].own
    <2>1. thread[t].answer \union {d} \in SUBSET (Devices \union Nat \union {ENOENT, EIO})
      BY <1>2 DEF Thread
    <2>2. thread[t].i + 1 \in Nat /\ thread[t].i + 1 # 0
      BY <1>2 DEF Thread
    <2> QED  BY <1>1, <1>2, <2>1, <2>2 DEF Thread
  <1>7. found \in Thread /\ found.pc = "lock" /\ found.medium \in 1..Len(media)
    <2>1. Element(t) \in Nat  BY <1>3
    <2> QED  BY <1>2, <1>3, <2>1 DEF Thread, Places
  <1>8. /\ next \in Thread /\ next.pc = "search" /\ next.i # 0
        /\ next.len = thread[t].len /\ next.own = thread[t].own
    BY <1>1, <1>2 DEF Thread
  <1> HIDE DEF listed, found, next
  <1> QED  BY <1>1, <1>5, <1>6, <1>7, <1>8, SearchStep

LEMMA CallEndsKeeps ==
  ASSUME AInv, NEW t \in Threads, RangeEnd(t) \/ Return(t)
  PROVE  AInv'
  <1>1. UNCHANGED <<inDrive, look, old, media, array, size, closing>>
    BY DEF RangeEnd, Return, Step, world, pollVars
  <1>2. PICK r \in Thread : thread' = [thread EXCEPT ![t] = r] /\ r.pc \in {"return", "idle"}
    <2>1. CASE RangeEnd(t)
      <3> DEFINE r == [thread[t] EXCEPT !.pc = "return",
                          !.answer = IF thread[t].want = None THEN @ ELSE {ENOENT}]
      <3>1. thread' = [thread EXCEPT ![t] = r]
        BY <2>1 DEF RangeEnd, Set
      <3>2. r \in Thread /\ r.pc = "return"
        BY DEF AInv, Types, Thread, Places
      <3> QED  BY <3>1, <3>2
    <2>2. CASE Return(t)
      <3>1. Idle.pc = "idle" /\ thread' = [thread EXCEPT ![t] = Idle]
        BY <2>2 DEF Return, Set, Idle
      <3> QED  BY <3>1, IdleThread
    <2> QED  BY <2>1, <2>2
  <1> QED  BY <1>1, <1>2, SearchStep

-----------------------------------------------------------------------------
(* The steps under the mutex: no other thread is at a medium that t takes, *)
(* opens or leaves.                                                        *)
LEMMA OpenKeeps ==
  ASSUME AInv, NEW t \in Threads, OpenMediumHandle(t)
  PROVE  AInv'
  <1>1. /\ UNCHANGED <<inDrive, look, old, array, size, closing>>
        /\ thread[t].pc = "lock"
    BY DEF OpenMediumHandle, Step, world, pollVars
  <1>2. thread[t] \in Thread /\ media \in Seq(Medium)
    BY DEF AInv, Types
  <1>3. PICK m \in 1..Len(media) : m = thread[t].medium
    BY <1>1 DEF AInv, MutexOK
  <1>4. media[m].device \in Devices /\ media[m].handle \in Nat \union {None}
    <2>1. media[m] \in Medium
      BY <1>2, <1>3, ElementOfSeq
    <2> QED  BY <2>1 DEF Medium
  <1>5. PICK disk \in Nat \union {None} : disk = inDrive[media[m].device]
    <2>1. inDrive[media[m].device] \in Nat \union {None}
      BY <1>4 DEF AInv, Types
    <2> QED  BY <2>1
  <1>6. media[m].owner = None =>
          \A u \in Threads : thread[u].medium = m => thread[u].pc \notin {"opened", "use"}
    BY ConstantsAssumption DEF AInv, MutexOK
  <1>7. ASSUME NEW h \in Nat \union {None}, NEW where \in {"use", "opened"},
               where = "opened" => media[m].handle = None,
               Lock(m, t), thread' = [thread EXCEPT ![t] = [thread[t] EXCEPT !.pc = where, !.handle = h]]
        PROVE  AInv'
    <2> DEFINE r == [thread[t] EXCEPT !.pc = where, !.handle = h]
    <2>1. r \in Thread /\ r.pc = where /\ r.medium = m
      BY <1>2, <1>3 DEF Thread, Places
    <2>2. media[m].owner = None /\ media' = [media EXCEPT ![m].owner = t]
      BY <1>7 DEF Lock
    <2>3. /\ media' \in Seq(Medium) /\ Len(media') = Len(media)
          /\ \A n \in 1..Len(media) : /\ media'[n].owner = IF n = m THEN t ELSE media[n].owner
                                      /\ media'[n].handle = media[n].handle
      <3>1. PICK o \in Threads \union {None} : o = t
        OBVIOUS
      <3>2. Types /\ media' = [media EXCEPT ![m].owner = o]
        BY <2>2, <3>1 DEF AInv
      <3>3. /\ media' \in Seq(Medium) /\ Len(media') = Len(media)
            /\ \A n \in 1..Len(media) : /\ media'[n].owner = IF n = m THEN o ELSE media[n].owner
                                        /\ media'[n].handle = media[n].handle
        BY <3>2, NewOwner
      <3> QED  BY <3>1, <3>3
    <2>4. \A u \in Threads \ {t} :
            /\ thread[u].pc \in {"opened", "use"} => media'[thread[u].medium].owner = u
            /\ thread[u].pc = "opened" => media'[thread[u].medium].handle = None
      BY <1>6, <2>2, <2>3 DEF AInv, MutexOK
    <2>5. thread' = [thread EXCEPT ![t] = r]
      BY <1>7
    <2>6. /\ r.pc # "search" /\ r.medium \in 1..Len(media) /\ media'[r.medium].owner = t
          /\ r.pc = "opened" => media'[r.medium].handle = None
      BY <1>7, <2>1, <2>3
    <2> HIDE DEF r
    <2> QED  BY <1>1, <2>1, <2>3, <2>4, <2>5, <2>6, OneThread
  <1>8. CASE media[m].handle # None /\ Lock(m, t)
             /\ Set(t, [thread[t] EXCEPT !.pc = "use", !.handle = StoredHandle(m)])
    BY <1>4, <1>7, <1>8 DEF Set, StoredHandle
  <1>9. CASE media[m].handle = None /\ Lock(m, t)
             /\ Set(t, [thread[t] EXCEPT !.pc = "opened", !.handle = disk])
    BY <1>5, <1>7, <1>9 DEF Set
  <1>10. CASE UNCHANGED media /\ Set(t, [thread[t] EXCEPT !.pc = "return", !.answer = {EIO}])
    <2> DEFINE r == [thread[t] EXCEPT !.pc = "return", !.answer = {EIO}]
    <2>1. r \in Thread /\ r.pc = "return"
      BY <1>2 DEF Thread, Places
    <2>2. thread' = [thread EXCEPT ![t] = r]
      BY <1>10 DEF Set
    <2> HIDE DEF r
    <2> QED  BY <1>1, <1>10, <2>1, <2>2, SearchStep
  <1> QED  BY <1>3, <1>5, <1>8, <1>9, <1>10 DEF OpenMediumHandle

LEMMA StoreKeeps ==
  ASSUME AInv, NEW t \in Threads, SetHandle(t)
  PROVE  AInv'
  <1> DEFINE r == [thread[t] EXCEPT !.pc = "use"]
  <1>1. /\ UNCHANGED <<inDrive, look, old, array, size, closing>>
        /\ thread[t].pc = "opened" /\ thread' = [thread EXCEPT ![t] = r]
    BY DEF SetHandle, Set, Step, world, pollVars
  <1>2. thread[t] \in Thread
    BY DEF AInv, Types
  <1>3. PICK m \in 1..Len(media) : m = thread[t].medium /\ media[m].owner = t
    BY <1>1 DEF AInv, MutexOK
  <1>4. PICK h \in Nat \union {None} : h = thread[t].handle
    BY <1>2 DEF Thread
  <1>5. r \in Thread /\ r.pc = "use" /\ r.medium = m
    BY <1>2, <1>3 DEF Thread, Places
  <1>6. media' = [media EXCEPT ![m].handle = h]
    BY <1>3, <1>4 DEF SetHandle
  <1>7. /\ media' \in Seq(Medium) /\ Len(media') = Len(media)
        /\ \A n \in 1..Len(media) : /\ media'[n].handle = IF n = m THEN h ELSE media[n].handle
                                    /\ media'[n].owner = media[n].owner
    BY <1>6, NewHandle DEF AInv
  <1>8. \A u \in Threads \ {t} :
          /\ thread[u].pc \in {"opened", "use"} => media'[thread[u].medium].owner = u
          /\ thread[u].pc = "opened" => media'[thread[u].medium].handle = None
    BY <1>3, <1>7 DEF AInv, MutexOK
  <1> HIDE DEF r
  <1>9. r.pc \notin {"search", "opened"} /\ r.medium \in 1..Len(media) /\ media'[r.medium].owner = t
    BY <1>3, <1>5, <1>7
  <1> QED  BY <1>1, <1>5, <1>7, <1>8, <1>9, OneThread

LEMMA AccessKeeps ==
  ASSUME AInv, NEW t \in Threads, Access(t)
  PROVE  AInv'
  <1>1. /\ UNCHANGED <<inDrive, look, old, array, size, closing>>
        /\ thread[t].pc = "use"
    BY DEF Access, Step, world, pollVars
  <1>2. thread[t] \in Thread
    BY DEF AInv, Types
  <1>3. PICK m \in 1..Len(media) : m = thread[t].medium /\ media[m].owner = t
    BY <1>1 DEF AInv, MutexOK
  <1>4. PICK a \in SUBSET (Nat \union {EIO}) :
          thread' = [thread EXCEPT ![t] = [thread[t] EXCEPT !.pc = "return", !.answer = a]]
    <2> DEFINE a == IF thread[t].handle # None
                       /\ thread[t].handle = inDrive[media[thread[t].medium].device]
                    THEN {thread[t].handle} ELSE {EIO}
    <2>1. a \in SUBSET (Nat \union {EIO})
      BY <1>2 DEF Thread
    <2>2. thread' = [thread EXCEPT ![t] = [thread[t] EXCEPT !.pc = "return", !.answer = a]]
      BY DEF Access, Set
    <2> QED  BY <2>1, <2>2
  <1> DEFINE r == [thread[t] EXCEPT !.pc = "return", !.answer = a]
  <1>5. r \in Thread /\ r.pc = "return"
    <2>1. a \in SUBSET (Devices \union Nat \union {ENOENT, EIO})
      OBVIOUS
    <2> QED  BY <1>2, <2>1 DEF Thread, Places
  <1>6. media' = [media EXCEPT ![m].owner = None]
    BY <1>3 DEF Access, Unlock
  <1>7. /\ media' \in Seq(Medium) /\ Len(media') = Len(media)
        /\ \A n \in 1..Len(media) : /\ media'[n].owner = IF n = m THEN None ELSE media[n].owner
                                    /\ media'[n].handle = media[n].handle
    BY <1>6, NewOwner DEF AInv
  <1>8. \A u \in Threads \ {t} :
          /\ thread[u].pc \in {"opened", "use"} => media'[thread[u].medium].owner = u
          /\ thread[u].pc = "opened" => media'[thread[u].medium].handle = None
    BY <1>3, <1>7 DEF AInv, MutexOK
  <1> HIDE DEF r
  <1> QED  BY <1>1, <1>4, <1>5, <1>7, <1>8, OneThread DEF r

-----------------------------------------------------------------------------
LEMMA NextAInv == AInv /\ [Next]_vars => AInv'
  <1> SUFFICES ASSUME AInv, [Next]_vars PROVE AInv'  OBVIOUS
  <1>1. CASE User
    BY <1>1, InsertKeeps, EjectKeeps, LookKeeps, CallKeeps DEF User
  <1>2. CASE Poll
    BY <1>2, LookKeeps, CloseKeeps, RemoveKeeps, AttachKeeps
       DEF Poll, attachedBlockDeviceCallback
  <1>3. ASSUME NEW t \in Threads, Fuse(t)  PROVE AInv'
    BY <1>3, RangeElementKeeps, CallEndsKeeps, OpenKeeps, StoreKeeps, AccessKeeps DEF Fuse
  <1> QED  BY <1>1, <1>2, <1>3, LookKeeps DEF Next

(* The parts of AInv hold in every state of every behaviour.               *)
THEOREM AInvHolds == Spec => []AInv
  BY InitAInv, NextAInv, PTL DEF Spec

(* No search of FindMediumByPublicFSPathname or Readdir meets a place of   *)
(* the list that holds no medium, whatever the poll removes and appends    *)
(* without a lock meanwhile.                                               *)
THEOREM SearchMeetsMedia == Spec => []NoNilMedium
  <1>1. AInv => NoNilMedium
    <2> SUFFICES ASSUME AInv, NEW t \in Threads, Searching(t),
                        NEW k \in thread[t].i..thread[t].len
                 PROVE  At(t, k) \in 1..Len(media)
      BY DEF NoNilMedium
    <2>1. k \in 1..thread[t].len
      BY DEF AInv, Types, Thread, SearchOK
    <2> QED  BY <2>1 DEF AInv, SearchOK
  <1> QED  BY <1>1, AInvHolds, PTL

(* OpenMediumHandle never leaves a medium with two open handles, with any  *)
(* number of threads and a poll that closes the handle without the mutex.  *)
THEOREM OneHandleOpen == Spec => []OneHandle
  <1>1. AInv => OneHandle
    <2> SUFFICES ASSUME AInv, NEW m \in 1..Len(media)
                 PROVE  Cardinality({t \in Threads : thread[t].medium = m /\ thread[t].pc = "opened"})
                        + (IF media[m].handle = None THEN 0 ELSE 1) <= 1
      BY DEF OneHandle
    <2> DEFINE opened == {t \in Threads : thread[t].medium = m /\ thread[t].pc = "opened"}
    <2>1. CASE opened = {}
      BY <2>1, FS_EmptySet
    <2>2. CASE opened # {}
      <3>1. PICK t \in opened : TRUE
        BY <2>2
      <3>2. media[m].handle = None
        BY <3>1 DEF AInv, MutexOK
      <3>3. opened = {t}
        BY <3>1 DEF AInv, MutexOK
      <3>4. Cardinality(opened) = 1
        BY <3>3, FS_Singleton
      <3> QED  BY <3>2, <3>4
    <2> QED  BY <2>1, <2>2
  <1> QED  BY <1>1, AInvHolds, PTL
-----------------------------------------------------------------------------
(* A handle on disk h is not older than the disk that Probe met, nor newer *)
(* than the one in the drive: disks are numbered as they are put in.       *)
HandleGood(m, h) ==
    /\ h <= Len(look)
    /\ media[m].disk # None => media[m].disk <= h
    /\ inDrive[media[m].device] # None => h <= inDrive[media[m].device]

MediaOK == \A m \in 1..Len(media) :
    /\ media[m].disk # None => HandleGood(m, media[m].disk)
    /\ media[m].handle # None => HandleGood(m, media[m].handle)
    /\ \A t \in Threads :
         media[m].owner = t => thread[t].medium = m /\ thread[t].pc \in {"opened", "use"}

(* One medium per device is listed, and the poll knows of it: a device is  *)
(* attached only when its medium is gone.                                  *)
PollOK ==
    /\ \A j, k \in 1..size : media[array[j]].device = media[array[k]].device => j = k
    /\ \A m \in Listed : \/ media[m].device \in leaving
                         \/ old[media[m].device] # None /\ media[m].device \notin coming
    /\ \A d \in coming : old[d] # None
    /\ closing \notin Listed

(* What a call for a disk that stays has in hand: the places before it     *)
(* hold the listed medium, then it has that one, then a handle on the disk *)
(* in the drive.                                                           *)
CallOK(t) ==
    LET r == thread[t]
    IN  /\ \A d \in r.steady : Settled(d)
        /\ r.pc = "search" =>
             /\ \A k \in 1..r.len : media[At(t, k)].device \in r.steady => At(t, k) \in Listed
             /\ ~r.crossed =>
                  /\ r.len <= size
                  /\ \A d \in r.steady : r.want \in {d, None} =>
                       \/ \E k \in r.i..r.len : media[At(t, k)].device = d
                       \/ r.want = None /\ d \in r.answer
        /\ r.pc \in {"lock", "opened", "use"} =>
             /\ r.want # None /\ media[r.medium].device = r.want
             /\ r.want \in r.steady => r.medium \in Listed /\ (r.pc = "use" => r.handle # None)
        /\ r.pc \in {"opened", "use"} /\ r.handle # None => HandleGood(r.medium, r.handle)
        /\ r.pc = "opened" => r.handle # None
        /\ r.pc = "return" =>
             /\ r.want \in r.steady /\ (r.crossed => r.answer # {ENOENT})
                  => r.answer = {inDrive[r.want]}
             /\ r.want = None /\ ~r.crossed => r.steady \subseteq r.answer

SInv == AInv /\ MediaOK /\ PollOK /\ \A t \in Threads : CallOK(t)

(* What AInv says of the values.                                           *)
LEMMA Facts ==
  ASSUME AInv
  PROVE  /\ inDrive \in [Devices -> Nat \union {None}]
         /\ \A d \in Devices : inDrive[d] # None => inDrive[d] \in 1..Len(look)
         /\ old \in [Devices -> Looks \union {None}]
         /\ Len(look) \in Nat /\ Len(media) \in Nat
         /\ size \in Nat /\ Len(array) \in Nat /\ size <= Len(array)
         /\ \A m \in 1..Len(media) :
              /\ media[m].device \in Devices /\ media[m].disk \in Nat \union {None}
              /\ media[m].handle \in Nat \union {None}
         /\ \A k \in 1..size : array[k] \in 1..Len(media)
         /\ Listed \subseteq 1..Len(media)
         /\ thread \in [Threads -> Thread]
         /\ \A t \in Threads : thread[t] \in Thread /\ thread[t].steady \subseteq Devices
  <1>1. \A m \in 1..Len(media) : media[m] \in Medium
    BY ElementOfSeq DEF AInv, Types
  <1>2. \A m \in 1..Len(media) :
          /\ media[m].device \in Devices /\ media[m].disk \in Nat \union {None}
          /\ media[m].handle \in Nat \union {None}
    BY <1>1 DEF Medium
  <1>3. Len(look) \in Nat /\ Len(media) \in Nat /\ Len(array) \in Nat
    BY LenProperties DEF AInv, Types
  <1>4. \A t \in Threads : thread[t] \in Thread /\ thread[t].steady \subseteq Devices
    BY DEF AInv, Types, Thread
  <1>5. Listed \subseteq 1..Len(media)
    BY DEF AInv, ListOK, Listed
  <1>6. /\ inDrive \in [Devices -> Nat \union {None}]
        /\ \A d \in Devices : inDrive[d] # None => inDrive[d] \in 1..Len(look)
    BY DEF AInv, Types
  <1> QED  BY <1>2, <1>3, <1>4, <1>5, <1>6 DEF AInv, Types, ListOK

(* The media that there are keep their device and disk.                    *)
SameDisks == \A m \in 1..Len(media) :
    media'[m].device = media[m].device /\ media'[m].disk = media[m].disk

(* A call goes on as before when what it has seen stays where it was, but  *)
(* for devices that are not steady any more.                               *)
LEMMA CallKept ==
  ASSUME SInv, NEW t \in Threads, SameDisks, thread'[t] \in Thread,
         \A m \in 1..Len(media), h \in Nat : HandleGood(m, h) => HandleGood(m, h)',
         /\ thread'[t].pc = thread[t].pc /\ thread'[t].want = thread[t].want
         /\ thread'[t].len = thread[t].len /\ thread'[t].i = thread[t].i
         /\ thread'[t].medium = thread[t].medium /\ thread'[t].answer = thread[t].answer,
         thread'[t].steady \subseteq thread[t].steady, thread[t].crossed => thread'[t].crossed,
         \/ thread'[t].handle = thread[t].handle
         \/ thread[t].pc = "use" /\ thread'[t].handle = None /\ thread[t].want \notin thread'[t].steady,
         \A d \in thread'[t].steady : inDrive'[d] = inDrive[d],
         \A m \in Listed : media[m].device \in thread'[t].steady => m \in Listed',
         thread[t].pc = "search" =>
            /\ \A k \in 1..thread[t].len :
                 media'[At(t, k)'].device \in thread'[t].steady => At(t, k)' \in Listed'
            /\ ~thread'[t].crossed =>
                 thread[t].len <= size' /\ \A k \in 1..thread[t].len : At(t, k)' = At(t, k)
  PROVE  CallOK(t)'
  <1>0. CallOK(t) /\ AInv
    BY DEF SInv
  <1>1. \A d \in thread'[t].steady : Settled(d)'
    <2> SUFFICES ASSUME NEW d \in thread'[t].steady PROVE Settled(d)'  OBVIOUS
    <2>1. PICK m \in Listed : media[m].device = d /\ media[m].disk = inDrive[d]
      BY <1>0 DEF CallOK, Settled
    <2>2. m \in 1..Len(media)  BY <1>0, Facts
    <2>3. m \in Listed' /\ media'[m].device = d /\ media'[m].disk = inDrive'[d]
      BY <2>1, <2>2 DEF SameDisks
    <2>4. inDrive'[d] # None
      BY <1>0 DEF CallOK, Settled
    <2> QED  BY <2>3, <2>4 DEF Settled
  <1>2. ASSUME thread[t].pc = "search", ~thread'[t].crossed
        PROVE  /\ thread[t].len <= size'
               /\ \A d \in thread'[t].steady : thread[t].want \in {d, None} =>
                    \/ \E k \in thread[t].i..thread[t].len : media'[At(t, k)'].device = d
                    \/ thread[t].want = None /\ d \in thread[t].answer
    <2> SUFFICES ASSUME NEW d \in thread'[t].steady, thread[t].want \in {d, None},
                        ~ (thread[t].want = None /\ d \in thread[t].answer)
                 PROVE  \E k \in thread[t].i..thread[t].len : media'[At(t, k)'].device = d
      BY <1>2
    <2>1. PICK k \in thread[t].i..thread[t].len : media[At(t, k)].device = d
      BY <1>0, <1>2 DEF CallOK
    <2>2. k \in 1..thread[t].len
      <3>1. thread[t].i \in Nat /\ thread[t].len \in Nat /\ thread[t].i # 0
        BY <1>0, <1>2 DEF AInv, SearchOK, Searching, Types, Thread
      <3> QED  BY <3>1
    <2>3. At(t, k)' = At(t, k) /\ At(t, k) \in 1..Len(media)
      BY <1>0, <1>2, <2>2 DEF AInv, SearchOK, Searching
    <2> QED  BY <2>1, <2>3 DEF SameDisks
  <1>3. ASSUME thread[t].pc \in {"lock", "opened", "use"}
        PROVE  /\ thread[t].want # None /\ media'[thread[t].medium].device = thread[t].want
               /\ thread[t].want \in thread'[t].steady =>
                    /\ thread[t].medium \in Listed'
                    /\ thread[t].pc = "use" => thread'[t].handle # None
    <2>1. thread[t].medium \in 1..Len(media)
      BY <1>0, <1>3 DEF AInv, MutexOK
    <2> QED  BY <1>0, <1>3, <2>1 DEF CallOK, SameDisks
  <1>4. ASSUME thread[t].pc \in {"opened", "use"}, thread'[t].handle # None,
               NEW m, NEW h, m = thread[t].medium, h = thread'[t].handle
        PROVE  HandleGood(m, h)'
    <2>1. m \in 1..Len(media)
      BY <1>0, <1>4 DEF AInv, MutexOK
    <2>2. h = thread[t].handle /\ h \in Nat
      BY <1>4 DEF Thread
    <2>3. HandleGood(m, h)
      BY <1>0, <1>4, <2>2 DEF CallOK
    <2> QED  BY <2>1, <2>2, <2>3
  <1>5. thread[t].pc = "opened" => thread'[t].handle # None
    BY <1>0 DEF CallOK
  <1>6. ASSUME thread[t].pc = "return"
        PROVE  /\ thread[t].want \in thread'[t].steady
                    /\ (thread'[t].crossed => thread[t].answer # {ENOENT})
                    => thread[t].answer = {inDrive'[thread[t].want]}
               /\ thread[t].want = None /\ ~thread'[t].crossed
                    => thread'[t].steady \subseteq thread[t].answer
    BY <1>0, <1>6 DEF CallOK
  <1>7. thread'[t].pc \in {"opened", "use"} /\ thread'[t].handle # None =>
          HandleGood(thread[t].medium, thread[t].handle)'
    <2> SUFFICES ASSUME thread[t].pc \in {"opened", "use"}, thread'[t].handle # None,
                        NEW m, NEW h, m = thread'[t].medium, h = thread'[t].handle
                 PROVE  HandleGood(m, h)'
      BY DEF HandleGood
    <2> QED  BY <1>4
  <1> QED  BY <1>1, <1>2, <1>3, <1>5, <1>6, <1>7 DEF CallOK

(* No handle becomes newer than the disk in the drive.                     *)
Older == \A m \in 1..Len(media), h \in Nat : HandleGood(m, h) => HandleGood(m, h)'

LEMMA PollSame ==
  ASSUME AInv, PollOK, SameDisks, UNCHANGED <<array, size, old, leaving, coming, closing>>
  PROVE  PollOK'
  <1>1. Listed' = Listed
    BY DEF Listed
  <1> QED  BY <1>1, Facts DEF PollOK, SameDisks

(* Steps that leave the media and the list alone.                          *)
LEMMA MediaSame ==
  ASSUME SInv, UNCHANGED media, Older,
         \A t \in Threads : thread'[t].medium = thread[t].medium /\ thread'[t].pc = thread[t].pc
  PROVE  MediaOK'
  <1>1. AInv /\ MediaOK
    BY DEF SInv
  <1> SUFFICES ASSUME NEW m \in 1..Len(media)
               PROVE  /\ media[m].disk # None => HandleGood(m, media[m].disk)'
                      /\ media[m].handle # None => HandleGood(m, media[m].handle)'
                      /\ \A t \in Threads : media[m].owner = t =>
                           thread'[t].medium = m /\ thread'[t].pc \in {"opened", "use"}
    BY DEF MediaOK
  <1>2. ASSUME NEW h, h = media[m].disk, h # None PROVE HandleGood(m, h)'
    BY <1>1, <1>2, Facts DEF MediaOK, Older
  <1>3. ASSUME NEW h, h = media[m].handle, h # None PROVE HandleGood(m, h)'
    BY <1>1, <1>3, Facts DEF MediaOK, Older
  <1> QED  BY <1>1, <1>2, <1>3 DEF MediaOK, HandleGood

LEMMA CallsSame ==
  ASSUME SInv, UNCHANGED <<media, array, size>>, Older, thread' \in [Threads -> Thread],
         \A t \in Threads :
           /\ thread'[t].pc = thread[t].pc /\ thread'[t].want = thread[t].want
           /\ thread'[t].own = thread[t].own /\ thread'[t].len = thread[t].len
           /\ thread'[t].i = thread[t].i /\ thread'[t].medium = thread[t].medium
           /\ thread'[t].answer = thread[t].answer /\ thread'[t].handle = thread[t].handle
           /\ thread'[t].crossed = thread[t].crossed
           /\ thread'[t].steady \subseteq thread[t].steady
           /\ \A d \in thread'[t].steady : inDrive'[d] = inDrive[d]
  PROVE  \A t \in Threads : CallOK(t)'
  <1> SUFFICES ASSUME NEW t \in Threads PROVE CallOK(t)'  OBVIOUS
  <1>1. CallOK(t) /\ Listed' = Listed /\ SameDisks
    BY DEF SInv, Listed, SameDisks
  <1>2. \A k : At(t, k)' = At(t, k)
    BY DEF At
  <1>3. thread[t].pc = "search" =>
          /\ \A k \in 1..thread[t].len :
               media'[At(t, k)'].device \in thread'[t].steady => At(t, k)' \in Listed'
          /\ ~thread'[t].crossed => thread[t].len <= size'
    BY <1>1, <1>2 DEF CallOK
  <1>4. thread'[t] \in Thread  OBVIOUS
  <1> QED  BY <1>1, <1>2, <1>3, <1>4, CallKept DEF Older

LEMMA InsertServes == ASSUME SInv, AInv', NEW d \in Devices, Insert(d) PROVE SInv'
  <1>1. /\ UNCHANGED <<old, leaving, coming, media, array, size, closing, thread>>
        /\ inDrive[d] = None /\ inDrive' = [inDrive EXCEPT ![d] = Len(look) + 1]
        /\ \E l : look' = Append(look, l)
    BY DEF Insert, pollVars, listVars
  <1>2. AInv /\ MediaOK /\ PollOK /\ \A t \in Threads : CallOK(t)
    BY DEF SInv
  <1>3. Len(look') = Len(look) + 1 /\ Len(look) \in Nat
    BY <1>1, <1>2 DEF AInv, Types
  <1>4. Older
    <2> SUFFICES ASSUME NEW m \in 1..Len(media), NEW h \in Nat, HandleGood(m, h)
                 PROVE  HandleGood(m, h)'
      BY DEF Older
    <2>1. media[m].device \in Devices
      BY <1>2, Facts
    <2>2. inDrive'[media[m].device] \in {inDrive[media[m].device], Len(look) + 1}
      BY <1>1, <1>2, <2>1, Facts
    <2> QED  BY <1>1, <1>3, <2>2 DEF HandleGood
  <1>5. \A t \in Threads : \A e \in thread[t].steady : inDrive'[e] = inDrive[e]
    BY <1>1, <1>2, Facts DEF CallOK, Settled
  <1>6. thread' \in [Threads -> Thread]
    BY DEF AInv, Types
  <1>7. MediaOK' /\ PollOK' /\ \A t \in Threads : CallOK(t)'
    BY <1>1, <1>2, <1>4, <1>5, <1>6, MediaSame, PollSame, CallsSame DEF SameDisks
  <1> QED  BY <1>7 DEF SInv

LEMMA EjectServes == ASSUME SInv, AInv', NEW d \in Devices, Eject(d) PROVE SInv'
  <1>1. /\ UNCHANGED <<look, old, leaving, coming, media, array, size, closing>>
        /\ inDrive' = [inDrive EXCEPT ![d] = None]
        /\ thread' = [t \in Threads |-> [thread[t] EXCEPT !.steady = @ \ {d}]]
    BY DEF Eject, Unsteady, pollVars, listVars
  <1>2. AInv /\ MediaOK /\ PollOK /\ \A t \in Threads : CallOK(t)
    BY DEF SInv
  <1>3. \A e \in Devices : inDrive'[e] = IF e = d THEN None ELSE inDrive[e]
    BY <1>1, <1>2, Facts
  <1>4. Older
    BY <1>1, <1>2, <1>3, Facts DEF Older, HandleGood
  <1>5. \A t \in Threads : thread'[t] = [thread[t] EXCEPT !.steady = @ \ {d}] /\ thread[t] \in Thread
    BY <1>1, <1>2, Facts
  <1>6. \A t \in Threads :
          /\ thread'[t].pc = thread[t].pc /\ thread'[t].want = thread[t].want
          /\ thread'[t].own = thread[t].own /\ thread'[t].len = thread[t].len
          /\ thread'[t].i = thread[t].i /\ thread'[t].medium = thread[t].medium
          /\ thread'[t].answer = thread[t].answer /\ thread'[t].handle = thread[t].handle
          /\ thread'[t].crossed = thread[t].crossed
          /\ thread'[t].steady = thread[t].steady \ {d}
    BY <1>5 DEF Thread
  <1>7. thread' \in [Threads -> Thread]
    BY DEF AInv, Types
  <1>8. \A t \in Threads : \A e \in thread'[t].steady : inDrive'[e] = inDrive[e]
    BY <1>2, <1>3, <1>6, Facts
  <1>9. MediaOK'
    BY <1>1, <1>4, <1>6, MediaSame
  <1>10. PollOK'
    BY <1>1, <1>2, PollSame DEF SameDisks
  <1>11. \A t \in Threads : CallOK(t)'
    BY <1>1, <1>4, <1>6, <1>7, <1>8, CallsSame
  <1> QED  BY <1>9, <1>10, <1>11 DEF SInv

(* The poll takes a look: what has changed and is listed will be removed   *)
(* before it comes again.                                                  *)
LEMMA LookServes == ASSUME SInv, AInv', PressFormatKeys \/ loop \/ UNCHANGED vars PROVE SInv'
  <1>1. UNCHANGED <<inDrive, look, media, array, size, closing, thread>>
    BY DEF PressFormatKeys, loop, vars, world, pollVars, listVars
  <1>2. AInv /\ MediaOK /\ PollOK /\ SameDisks /\ Older
    BY <1>1 DEF SInv, SameDisks, Older, HandleGood
  <1>3. PollOK'
    <2>1. CASE loop
      <3>1. Listed' = Listed /\ None \notin Looks
        BY <1>1, ConstantsAssumption DEF Listed
      <3>2. /\ leaving = {} /\ coming = {} /\ old' = [d \in Devices |-> Shown(d)]
            /\ leaving' = {d \in Devices : Changed(d) /\ old[d] # None}
            /\ coming' = {d \in Devices : Changed(d) /\ Shown(d) # None}
        BY <2>1 DEF loop
      <3>3. \A m \in Listed : media[m].device \in Devices /\ old[media[m].device] # None
        BY <1>2, <3>2, Facts DEF PollOK
      <3> QED  BY <1>1, <1>2, <3>1, <3>2, <3>3 DEF PollOK, Changed
    <2>2. CASE UNCHANGED <<old, leaving, coming>>
      BY <1>1, <1>2, <2>2, PollSame
    <2> QED  BY <2>1, <2>2 DEF PressFormatKeys, vars, pollVars
  <1>4. MediaOK' /\ \A t \in Threads : CallOK(t)'
    <2>1. thread' \in [Threads -> Thread]
      BY DEF AInv, Types
    <2> QED  BY <1>1, <1>2, <2>1, MediaSame, CallsSame
  <1> QED  BY <1>3, <1>4 DEF SInv

-----------------------------------------------------------------------------
(* A medium is removed: the others stay listed, one per device, and a      *)
(* search that has the array meets only them or what it had met.           *)
LEMMA DownListed ==
  ASSUME AInv, PollOK, NEW k \in 1..size, array' = Down(k), size' = size - 1
  PROVE  /\ Listed' = Listed \ {array[k]}
         /\ \A m \in Listed' : media[m].device # media[array[k]].device
         /\ \A i, j \in 1..size' : media[array'[i]].device = media[array'[j]].device => i = j
         /\ \A j \in 1..Len(array) : array'[j] = array[j] \/ array'[j] \in Listed
  <1>1. /\ size \in Nat /\ Len(array) \in Nat /\ size <= Len(array) /\ DOMAIN array = 1..Len(array)
        /\ \A j \in 1..size : array[j] \in 1..Len(media)
    BY Facts, LenProperties DEF AInv, Types
  <1>2. \A j \in 1..Len(array) :
          array'[j] = IF j >= k /\ j < size THEN array[j + 1] ELSE array[j]
    BY <1>1 DEF Down
  <1>3. \A i, j \in 1..size : media[array[i]].device = media[array[j]].device => i = j
    BY DEF PollOK
  <1> DEFINE From(j) == IF j >= k THEN j + 1 ELSE j
  <1>4. \A j \in 1..size' : From(j) \in 1..size /\ From(j) # k /\ array'[j] = array[From(j)]
    BY <1>1, <1>2
  <1>5. \A i, j \in 1..size' : From(i) = From(j) => i = j
    BY <1>1
  <1>6. \A i \in 1..size : i # k => \E j \in 1..size' : From(j) = i
    <2> SUFFICES ASSUME NEW i \in 1..size, i # k PROVE \E j \in 1..size' : From(j) = i  OBVIOUS
    <2>1. CASE i < k
      <3>1. i \in 1..size' /\ From(i) = i
        BY <1>1, <2>1
      <3> QED  BY <3>1
    <2>2. CASE i > k
      <3>1. i - 1 \in 1..size' /\ From(i - 1) = i
        BY <1>1, <2>2
      <3> QED  BY <3>1
    <2> QED  BY <2>1, <2>2
  <1> HIDE DEF From
  <1>7. Listed' = Listed \ {array[k]}
    <2>1. ASSUME NEW j \in 1..size' PROVE array'[j] \in Listed \ {array[k]}
      BY <1>3, <1>4 DEF Listed
    <2>2. ASSUME NEW i \in 1..size, i # k PROVE \E j \in 1..size' : array'[j] = array[i]
      BY <1>4, <1>6, <2>2
    <2> QED  BY <2>1, <2>2 DEF Listed
  <1>8. \A m \in Listed' : media[m].device # media[array[k]].device
    BY <1>3, <1>4 DEF Listed
  <1>9. \A i, j \in 1..size' : media[array'[i]].device = media[array'[j]].device => i = j
    BY <1>3, <1>4, <1>5
  <1>10. \A j \in 1..Len(array) : array'[j] = array[j] \/ array'[j] \in Listed
    <2> SUFFICES ASSUME NEW j \in 1..Len(array), j >= k, j < size PROVE array[j + 1] \in Listed
      BY <1>2
    <2>1. j + 1 \in 1..size  BY <1>1
    <2> QED  BY <2>1 DEF Listed
  <1> QED  BY <1>7, <1>8, <1>9, <1>10

LEMMA RemoveServes ==
  ASSUME SInv, AInv', NEW d \in Devices, RemoveMediumByDevicePathname(d)
  PROVE  SInv'
  <1>1. /\ UNCHANGED <<inDrive, look, old, coming, media>>
        /\ leaving' = leaving \ {d}
    BY DEF RemoveMediumByDevicePathname, world
  <1>2. AInv /\ MediaOK /\ PollOK /\ SameDisks /\ Older
    BY <1>1 DEF SInv, SameDisks, Older, HandleGood
  <1>3. thread' \in [Threads -> Thread] /\ size \in Nat
    BY <1>2, Facts DEF AInv, Types
  <1>4. CASE Place(d) = 0
    <2>1. UNCHANGED <<array, size, closing, thread>>
      BY <1>4 DEF RemoveMediumByDevicePathname
    <2>2. Listed' = Listed /\ \A m \in Listed : media[m].device # d
      BY <1>3, <1>4, <2>1, PlaceListed DEF Listed
    <2>3. PollOK'
      BY <1>1, <1>2, <2>1, <2>2 DEF PollOK
    <2>4. MediaOK' /\ \A t \in Threads : CallOK(t)'
      BY <1>1, <1>2, <1>3, <2>1, MediaSame, CallsSame
    <2> QED  BY <2>3, <2>4 DEF SInv
  <1>5. CASE Place(d) # 0
    <2>1. PICK k \in 1..size : k = Place(d) /\ media[array[k]].device = d
      BY <1>3, <1>5, PlaceListed
    <2>2. /\ size' = size - 1 /\ array' = Down(k) /\ closing' = array[k]
          /\ thread' = [t \in Threads |-> [thread[t] EXCEPT !.crossed = @ \/ Searching(t),
                                                          !.steady = @ \ {d}]]
      BY <1>5, <2>1 DEF RemoveMediumByDevicePathname
    <2>3. /\ Listed' = Listed \ {array[k]}
          /\ \A m \in Listed' : media[m].device # d
          /\ \A i, j \in 1..size' : media[array'[i]].device = media[array'[j]].device => i = j
          /\ \A j \in 1..Len(array) : array'[j] = array[j] \/ array'[j] \in Listed
      BY <1>2, <2>1, <2>2, DownListed
    <2>4. PollOK'
      BY <1>1, <1>2, <2>2, <2>3 DEF PollOK
    <2>5. \A t \in Threads :
            /\ thread'[t].pc = thread[t].pc /\ thread'[t].want = thread[t].want
            /\ thread'[t].own = thread[t].own /\ thread'[t].len = thread[t].len
            /\ thread'[t].i = thread[t].i /\ thread'[t].medium = thread[t].medium
            /\ thread'[t].answer = thread[t].answer /\ thread'[t].handle = thread[t].handle
            /\ thread[t].crossed => thread'[t].crossed
            /\ thread[t].pc = "search" => thread'[t].crossed
            /\ thread'[t].steady = thread[t].steady \ {d}
      BY <1>2, <2>2, Facts DEF Thread, Searching
    <2>6. MediaOK'
      BY <1>1, <1>2, <2>5, MediaSame
    <2>7. ASSUME NEW t \in Threads PROVE CallOK(t)'
      <3>1. ASSUME thread[t].pc = "search", NEW j \in 1..thread[t].len,
                   media[At(t, j)'].device \in thread'[t].steady
            PROVE  At(t, j)' \in Listed'
        <4>1. At(t, j)' = At(t, j) \/ At(t, j)' \in Listed
          <5>1. thread[t].own = <<>> => j \in 1..Len(array)
            BY <1>2, <3>1, Facts DEF AInv, SearchOK, Searching, Thread
          <5> QED  BY <2>3, <2>5, <5>1 DEF At
        <4>2. At(t, j)' \in Listed
          BY <2>5, <3>1, <4>1 DEF SInv, CallOK
        <4> QED  BY <2>1, <2>3, <2>5, <3>1, <4>2
      <3>2. \A m \in Listed : media[m].device \in thread'[t].steady => m \in Listed'
        BY <2>1, <2>3, <2>5
      <3>3. thread'[t] \in Thread
        BY <1>3
      <3> QED  BY <1>1, <1>2, <2>5, <3>1, <3>2, <3>3, CallKept DEF Older
    <2> QED  BY <2>4, <2>6, <2>7 DEF SInv
  <1> QED  BY <1>4, <1>5

(* It is closed after that: nobody with a disk that stays has it.          *)
LEMMA CloseServes == ASSUME SInv, AInv', CloseMedium \/ CloseHandle PROVE SInv'
  <1>1. /\ UNCHANGED <<inDrive, look, old, leaving, coming, array, size>>
        /\ closing # None /\ closing' \in {closing, None}
        /\ media' \in {media, [media EXCEPT ![closing].handle = None]}
        /\ \E failed \in SUBSET Using : Fail(failed)
    BY DEF CloseMedium, CloseHandle, world, pollVars
  <1>10. PICK failed \in SUBSET Using :
          thread' = [t \in Threads |-> IF t \in failed THEN [thread[t] EXCEPT !.handle = None]
                                                      ELSE thread[t]]
    BY <1>1 DEF Fail
  <1>2. AInv /\ MediaOK /\ PollOK /\ Types /\ closing \in 1..Len(media)
    BY <1>1 DEF SInv, AInv, Types
  <1>3. /\ Len(media') = Len(media) /\ SameDisks
        /\ \A m \in 1..Len(media) : media'[m].handle \in {media[m].handle, None}
                                    /\ media'[m].owner = media[m].owner
    <2>1. CASE media' = [media EXCEPT ![closing].handle = None]
      <3>1. /\ Len(media') = Len(media)
            /\ \A m \in 1..Len(media) :
                 /\ media'[m].handle = IF m = closing THEN None ELSE media[m].handle
                 /\ media'[m].owner = media[m].owner
                 /\ media'[m].device = media[m].device /\ media'[m].disk = media[m].disk
        BY <1>2, <2>1, NewHandle
      <3> QED  BY <3>1 DEF SameDisks
    <2> QED  BY <1>1, <2>1 DEF SameDisks
  <1>4. \A t \in Threads :
          /\ thread'[t].pc = thread[t].pc /\ thread'[t].want = thread[t].want
          /\ thread'[t].own = thread[t].own /\ thread'[t].len = thread[t].len
          /\ thread'[t].i = thread[t].i /\ thread'[t].medium = thread[t].medium
          /\ thread'[t].answer = thread[t].answer /\ thread'[t].steady = thread[t].steady
          /\ thread'[t].crossed = thread[t].crossed
          /\ \/ thread'[t].handle = thread[t].handle
             \/ thread[t].pc = "use" /\ thread[t].medium = closing /\ thread'[t].handle = None
    BY <1>2, <1>10, Facts DEF Thread, Using
  <1>5. Older
    BY <1>1, <1>3 DEF Older, HandleGood, SameDisks
  <1>6. MediaOK'
    <2> SUFFICES ASSUME NEW m \in 1..Len(media)
                 PROVE  /\ media'[m].disk # None => HandleGood(m, media[m].disk)'
                        /\ media'[m].handle # None => HandleGood(m, media[m].handle)'
                        /\ \A t \in Threads : media'[m].owner = t =>
                             thread'[t].medium = m /\ thread'[t].pc \in {"opened", "use"}
      BY <1>3 DEF MediaOK, HandleGood
    <2> QED  BY <1>1, <1>2, <1>3, <1>4, <1>5 DEF MediaOK, HandleGood, SameDisks
  <1>7. Listed' = Listed /\ None \notin Listed
    BY <1>1, <1>2, Facts, ConstantsAssumption DEF Listed
  <1>8. PollOK'
    BY <1>1, <1>2, <1>3, <1>7, Facts DEF PollOK, SameDisks
  <1>9. ASSUME NEW t \in Threads PROVE CallOK(t)'
    <2>1. CallOK(t) /\ closing \notin Listed
      BY <1>2 DEF SInv, PollOK
    <2>2. \/ thread'[t].handle = thread[t].handle
          \/ thread[t].pc = "use" /\ thread'[t].handle = None
               /\ thread[t].want \notin thread'[t].steady
      BY <1>4, <2>1 DEF CallOK
    <2>3. \A k : At(t, k)' = At(t, k)
      BY <1>1, <1>4 DEF At
    <2>4. ASSUME thread[t].pc = "search", NEW k \in 1..thread[t].len,
                 media'[At(t, k)'].device \in thread'[t].steady
          PROVE  At(t, k)' \in Listed'
      <3>1. At(t, k) \in 1..Len(media)
        BY <1>2, <2>4 DEF AInv, SearchOK, Searching
      <3> QED  BY <1>3, <1>4, <1>7, <2>1, <2>3, <2>4, <3>1 DEF CallOK, SameDisks
    <2>5. thread[t].pc = "search" /\ ~thread'[t].crossed => thread[t].len <= size'
      BY <1>1, <1>4, <2>1 DEF CallOK
    <2>6. thread'[t] \in Thread
      BY DEF AInv, Types
    <2> QED  BY <1>1, <1>3, <1>4, <1>5, <1>7, <2>2, <2>3, <2>4, <2>5, <2>6, CallKept DEF Older
  <1> QED  BY <1>6, <1>8, <1>9 DEF SInv

-----------------------------------------------------------------------------
(* append: the list grows by m, and a search sees what it saw, or m at the *)
(* place where the list has grown into its array.                          *)
LEMMA AddMediumListed ==
  ASSUME AInv, NEW m \in Nat, AddMedium(m)
  PROVE  /\ size' = size + 1 /\ array'[size + 1] = m
         /\ \A k \in 1..size : array'[k] = array[k]
         /\ \A t \in Threads :
              /\ thread'[t].pc = thread[t].pc /\ thread'[t].want = thread[t].want
              /\ thread'[t].len = thread[t].len /\ thread'[t].i = thread[t].i
              /\ thread'[t].medium = thread[t].medium /\ thread'[t].answer = thread[t].answer
              /\ thread'[t].handle = thread[t].handle /\ thread'[t].crossed = thread[t].crossed
              /\ thread'[t].steady = thread[t].steady
              /\ thread[t].pc = "search" => \A k \in 1..thread[t].len :
                   \/ At(t, k)' = At(t, k)
                   \/ At(t, k)' = m /\ size < thread[t].len
  <1>1. /\ array \in Seq(Nat) /\ size \in Nat /\ Len(array) \in Nat /\ size <= Len(array)
        /\ \A t \in Threads : thread[t] \in Thread
    BY Facts DEF AInv, Types
  <1>2. size' = size + 1  BY DEF AddMedium
  <1>3. ASSUME NEW t \in Threads, thread[t].pc = "search", thread[t].own = <<>>,
               NEW k \in 1..thread[t].len
        PROVE  k \in 1..Len(array) /\ array # <<>>
    BY <1>1, <1>3 DEF AInv, SearchOK, Searching, Thread
  <1>4. CASE size < Len(array)
    <2>1. array' = [array EXCEPT ![size + 1] = m] /\ thread' = thread
      BY <1>4 DEF AddMedium
    <2>2. \A k \in 1..Len(array) : array'[k] = IF k = size + 1 THEN m ELSE array[k]
      BY <1>1, <2>1
    <2>3. size + 1 \in 1..Len(array) /\ \A k \in 1..size : k \in 1..Len(array) /\ k # size + 1
      BY <1>1, <1>4
    <2>4. ASSUME NEW t \in Threads, thread[t].pc = "search", NEW k \in 1..thread[t].len
          PROVE  At(t, k)' = At(t, k) \/ (At(t, k)' = m /\ size < thread[t].len)
      <3>1. CASE thread[t].own = <<>>
        <4>1. k = size + 1 => size < thread[t].len
          BY <1>1 DEF Thread
        <4> QED  BY <1>3, <2>1, <2>2, <2>4, <3>1, <4>1 DEF At
      <3>2. CASE thread[t].own # <<>>
        BY <2>1, <3>2 DEF At
      <3> QED  BY <3>1, <3>2
    <2> QED  BY <1>2, <2>1, <2>2, <2>3, <2>4
  <1>5. CASE ~ (size < Len(array))
    <2>1. /\ array' = [k \in 1..(IF size = 0 THEN 1 ELSE 2 * size) |->
                         IF k <= size THEN array[k] ELSE IF k = size + 1 THEN m ELSE 0]
          /\ thread' = [t \in Threads |-> IF thread[t].own = <<>> /\ Searching(t)
                          THEN [thread[t] EXCEPT !.own = array] ELSE thread[t]]
      BY <1>5 DEF AddMedium
    <2>2. array'[size + 1] = m /\ \A k \in 1..size : array'[k] = array[k]
      BY <1>1, <2>1
    <2>3. \A t \in Threads :
            /\ thread'[t].pc = thread[t].pc /\ thread'[t].want = thread[t].want
            /\ thread'[t].len = thread[t].len /\ thread'[t].i = thread[t].i
            /\ thread'[t].medium = thread[t].medium /\ thread'[t].answer = thread[t].answer
            /\ thread'[t].handle = thread[t].handle /\ thread'[t].crossed = thread[t].crossed
            /\ thread'[t].steady = thread[t].steady
            /\ thread[t].pc = "search" => thread'[t].own =
                 IF thread[t].own = <<>> THEN array ELSE thread[t].own
      BY <1>1, <2>1 DEF Thread, Searching
    <2>4. ASSUME NEW t \in Threads, thread[t].pc = "search", NEW k \in 1..thread[t].len
          PROVE  At(t, k)' = At(t, k)
      BY <1>3, <2>3, <2>4 DEF At
    <2> QED  BY <1>2, <2>2, <2>3, <2>4
  <1> QED  BY <1>4, <1>5

(* A device is attached only when none of its media is listed.             *)
LEMMA AttachServes ==
  ASSUME SInv, AInv', NEW d \in Devices, attachedBlockDeviceCallback(d)
  PROVE  SInv'
  <1>1. /\ UNCHANGED <<inDrive, old, leaving, closing>>
        /\ d \in coming /\ coming' = coming \ {d} /\ leaving = {} /\ closing = None
    BY DEF attachedBlockDeviceCallback, Attach
  <1>2. AInv /\ MediaOK /\ PollOK /\ Types
    BY DEF SInv, AInv
  <1>3. Len(look') = Len(look)
    <2>1. look' = look \/ look' = [look EXCEPT ![inDrive[d]] = Blank]
      BY DEF attachedBlockDeviceCallback, Attach, formatDeviceIfNeeded, Format, FormatFails
    <2> QED  BY <1>2, <2>1 DEF Types
  <1>4. \A m \in Listed : media[m].device # d
    BY <1>1, <1>2 DEF PollOK
  <1>5. Attach(d)
    BY DEF attachedBlockDeviceCallback
  <1>6. CASE UNCHANGED <<media, array, size, thread>>
    <2>1. SameDisks /\ Older /\ Listed' = Listed /\ thread' \in [Threads -> Thread]
      BY <1>1, <1>2, <1>3, <1>6, Facts DEF SameDisks, Older, HandleGood, Listed
    <2>2. PollOK'
      BY <1>1, <1>2, <1>6, <2>1 DEF PollOK
    <2>3. MediaOK' /\ \A t \in Threads : CallOK(t)'
      BY <1>1, <1>6, <2>1, MediaSame, CallsSame
    <2> QED  BY <2>2, <2>3 DEF SInv
  <1>7. CASE ~ UNCHANGED <<media, array, size, thread>>
    <2>1. PICK l : media' = Append(media, [device |-> d, disk |-> inDrive[d], look |-> l,
                                           handle |-> None, owner |-> None])
      BY <1>5, <1>7 DEF Attach
    <2>2. PICK m \in Nat : m = Len(media) + 1
      BY <1>2, Facts
    <2>3. /\ Len(media') = m /\ media'[m].device = d /\ media'[m].disk = inDrive[d]
          /\ media'[m].handle = None /\ media'[m].owner = None
          /\ \A n \in 1..Len(media) : media'[n] = media[n]
          /\ \A n \in 1..Len(media') : n # m => n \in 1..Len(media)
          /\ m \notin 1..Len(media)
      BY <1>2, <2>1, <2>2, Facts DEF Types
    <2>4. AddMedium(m)
      BY <1>5, <1>7, <2>2 DEF Attach
    <2>5. /\ size' = size + 1 /\ array'[size + 1] = m
          /\ \A k \in 1..size : array'[k] = array[k]
      BY <1>2, <2>4, AddMediumListed
    <2>6. \A t \in Threads :
              /\ thread'[t].pc = thread[t].pc /\ thread'[t].want = thread[t].want
              /\ thread'[t].len = thread[t].len /\ thread'[t].i = thread[t].i
              /\ thread'[t].medium = thread[t].medium /\ thread'[t].answer = thread[t].answer
              /\ thread'[t].handle = thread[t].handle /\ thread'[t].crossed = thread[t].crossed
              /\ thread'[t].steady = thread[t].steady
              /\ thread[t].pc = "search" => \A k \in 1..thread[t].len :
                   \/ At(t, k)' = At(t, k)
                   \/ At(t, k)' = m /\ size < thread[t].len
      BY <1>2, <2>4, AddMediumListed
    <2>7. SameDisks /\ Older
      BY <1>1, <1>3, <2>3 DEF SameDisks, Older, HandleGood
    <2>8. size \in Nat /\ Listed' = Listed \union {m}
      <3>1. size \in Nat /\ \A k \in 1..size' : k \in 1..size \/ k = size + 1
        BY <1>2, <2>5, Facts
      <3>2. size + 1 \in 1..size' /\ 1..size \subseteq 1..size'
        BY <2>5, <3>1
      <3> QED  BY <2>5, <3>1, <3>2 DEF Listed
    <2>9. PollOK'
      <3>1. \A k \in 1..size : array[k] \in 1..Len(media) /\ media[array[k]].device # d
        BY <1>2, <1>4, Facts DEF Listed
      <3>2. \A j, k \in 1..size' : media'[array'[j]].device = media'[array'[k]].device => j = k
        <4>1. \A k \in 1..size' : k \in 1..size \/ k = size + 1
          BY <2>5, <2>8
        <4>2. media'[array'[size + 1]].device = d
          BY <2>3, <2>5
        <4>3. \A k \in 1..size : media'[array'[k]].device = media[array[k]].device
          BY <2>3, <2>5, <3>1
        <4> QED  BY <1>2, <3>1, <4>1, <4>2, <4>3 DEF PollOK
      <3>3. closing' \notin Listed' /\ \A e \in coming' : old'[e] # None
        BY <1>1, <1>2, <2>2, <2>8, Facts, ConstantsAssumption DEF PollOK
      <3>4. \A n \in Listed' : old'[media'[n].device] # None /\ media'[n].device \notin coming'
        BY <1>1, <1>2, <2>3, <2>8, Facts DEF PollOK
      <3> QED  BY <3>2, <3>3, <3>4 DEF PollOK
    <2>10. MediaOK'
      <3> SUFFICES ASSUME NEW n \in 1..Len(media')
                   PROVE  /\ media'[n].disk # None => HandleGood(n, media[n].disk)'
                          /\ media'[n].handle # None => HandleGood(n, media[n].handle)'
                          /\ \A t \in Threads : media'[n].owner = t =>
                               thread'[t].medium = n /\ thread'[t].pc \in {"opened", "use"}
        BY DEF MediaOK
      <3>1. CASE n = m
        BY <1>1, <1>2, <1>3, <2>3, <3>1, Facts, ConstantsAssumption DEF HandleGood
      <3>2. CASE n # m
        BY <1>1, <1>2, <1>3, <2>3, <2>6, <3>2 DEF MediaOK, HandleGood
      <3> QED  BY <3>1, <3>2
    <2>11. ASSUME NEW t \in Threads PROVE CallOK(t)'
      <3>1. CallOK(t)
        BY DEF SInv
      <3>2. ASSUME thread[t].pc = "search", NEW k \in 1..thread[t].len,
                   media'[At(t, k)'].device \in thread'[t].steady
            PROVE  At(t, k)' \in Listed'
        <4>1. At(t, k) \in 1..Len(media)
          BY <1>2, <3>2 DEF AInv, SearchOK, Searching
        <4> QED  BY <2>3, <2>6, <2>8, <3>1, <3>2, <4>1 DEF CallOK
      <3>3. thread[t].pc = "search" /\ ~thread'[t].crossed =>
              thread[t].len <= size' /\ \A k \in 1..thread[t].len : At(t, k)' = At(t, k)
        <4>1. thread[t].len \in Nat
          BY <1>2, Facts DEF Thread
        <4> QED  BY <2>5, <2>6, <2>8, <3>1, <4>1 DEF CallOK
      <3>4. thread'[t] \in Thread
        BY DEF AInv, Types
      <3> QED  BY <1>1, <2>6, <2>7, <2>8, <3>2, <3>3, <3>4, CallKept DEF Older
    <2> QED  BY <2>9, <2>10, <2>11 DEF SInv
  <1> QED  BY <1>6, <1>7

-----------------------------------------------------------------------------
(* A step of one thread: the others and the poll see no difference.        *)
LEMMA OneThreadServes ==
  ASSUME SInv, AInv', NEW t \in Threads, NEW r \in Thread, thread' = [thread EXCEPT ![t] = r],
         UNCHANGED <<inDrive, look, old, leaving, coming, array, size, closing>>,
         Len(media') = Len(media), SameDisks,
         \A m \in 1..Len(media) :
           /\ \/ media'[m].handle \in {media[m].handle, None}
              \/ HandleGood(m, media'[m].handle)
           /\ media'[m].owner = t => r.medium = m /\ r.pc \in {"opened", "use"}
           /\ \A u \in Threads \ {t} : media'[m].owner = u => media[m].owner = u,
         CallOK(t)'
  PROVE  SInv'
  <1>1. AInv /\ MediaOK /\ PollOK
    BY DEF SInv
  <1>2. \A u \in Threads : thread'[u] = IF u = t THEN r ELSE thread[u]
    BY <1>1, Facts
  <1>3. Older
    BY DEF Older, HandleGood, SameDisks
  <1>4. PollOK'
    BY <1>1, PollSame
  <1>5. MediaOK'
    <2> SUFFICES ASSUME NEW m \in 1..Len(media)
                 PROVE  /\ media'[m].disk # None => HandleGood(m, media[m].disk)'
                        /\ media'[m].handle # None => HandleGood(m, media[m].handle)'
                        /\ \A u \in Threads : media'[m].owner = u =>
                             thread'[u].medium = m /\ thread'[u].pc \in {"opened", "use"}
      BY DEF MediaOK
    <2>1. media'[m].disk # None => HandleGood(m, media[m].disk)'
      BY <1>1 DEF MediaOK, HandleGood, SameDisks
    <2>2. media'[m].handle # None => HandleGood(m, media[m].handle)'
      BY <1>1 DEF MediaOK, HandleGood, SameDisks
    <2>3. \A u \in Threads : media'[m].owner = u =>
             thread'[u].medium = m /\ thread'[u].pc \in {"opened", "use"}
      BY <1>1, <1>2 DEF MediaOK
    <2> QED  BY <2>1, <2>2, <2>3
  <1>6. ASSUME NEW u \in Threads \ {t} PROVE CallOK(u)'
    <2>1. CallOK(u) /\ thread'[u] = thread[u] /\ Listed' = Listed
      BY <1>2 DEF SInv, Listed
    <2>2. \A k : At(u, k)' = At(u, k)
      BY <2>1 DEF At
    <2>3. ASSUME thread[u].pc = "search", NEW k \in 1..thread[u].len,
                 media'[At(u, k)'].device \in thread'[u].steady
          PROVE  At(u, k)' \in Listed'
      <3>1. At(u, k) \in 1..Len(media)
        BY <1>1, <2>3 DEF AInv, SearchOK, Searching
      <3> QED  BY <2>1, <2>2, <2>3, <3>1 DEF CallOK, SameDisks
    <2>4. thread[u].pc = "search" /\ ~thread'[u].crossed => thread[u].len <= size'
      BY <2>1 DEF CallOK
    <2>5. thread'[u] \in Thread
      BY DEF AInv, Types
    <2> QED  BY <1>3, <2>1, <2>2, <2>3, <2>4, <2>5, CallKept DEF Older
  <1> QED  BY <1>4, <1>5, <1>6 DEF SInv

LEMMA CallServes ==
  ASSUME SInv, AInv', NEW t \in Threads, NEW want \in Wants[t], Call(t, want)
  PROVE  SInv'
  <1> DEFINE r == [Idle EXCEPT !.pc = "search", !.want = want, !.len = size, !.i = 1,
                               !.steady = {d \in Devices : Settled(d)}]
  <1>1. /\ thread' = [thread EXCEPT ![t] = r] /\ thread[t].pc = "idle"
        /\ UNCHANGED <<inDrive, look, old, leaving, coming, media, array, size, closing>>
    BY DEF Call, Set, world, pollVars, listVars
  <1>2. AInv /\ MediaOK /\ SameDisks
    BY <1>1 DEF SInv, SameDisks
  <1>3. /\ r.pc = "search" /\ r.own = <<>> /\ r.len = size /\ r.i = 1
        /\ r.steady = {d \in Devices : Settled(d)}
    BY DEF Idle
  <1> HIDE DEF r
  <1>4. thread'[t] = r /\ r \in Thread /\ Listed' = Listed
    <2>1. thread'[t] = r /\ thread'[t] \in Thread
      BY <1>1, <1>2, Facts DEF AInv, Types
    <2> QED  BY <1>1, <2>1 DEF Listed
  <1>5. CallOK(t)'
    <2>1. \A d \in r.steady : Settled(d)'
      BY <1>1, <1>3, <1>4 DEF Settled
    <2>2. \A k : At(t, k)' = array[k]
      BY <1>1, <1>3, <1>4 DEF At
    <2>3. \A d \in r.steady : \E k \in 1..size : media[array[k]].device = d
      BY <1>3 DEF Settled, Listed
    <2>4. size <= size /\ \A k \in 1..size : array[k] \in Listed
      BY <1>2, Facts DEF Listed
    <2> QED  BY <1>1, <1>3, <1>4, <2>1, <2>2, <2>3, <2>4 DEF CallOK
  <1>6. \A m \in 1..Len(media) :
          /\ media[m].owner # t
          /\ \A u \in Threads \ {t} : media'[m].owner = u => media[m].owner = u
    BY <1>1, <1>2 DEF MediaOK
  <1> QED  BY <1>1, <1>2, <1>4, <1>5, <1>6, OneThreadServes

LEMMA RangeElementServes ==
  ASSUME SInv, AInv', NEW t \in Threads, RangeElement(t)
  PROVE  SInv'
  <1>1. /\ UNCHANGED <<inDrive, look, old, leaving, coming, media, array, size, closing>>
        /\ thread[t].pc = "search" /\ thread[t].i <= thread[t].len
    BY DEF RangeElement, Step, world, pollVars
  <1>2. AInv /\ MediaOK /\ SameDisks /\ CallOK(t) /\ thread[t] \in Thread /\ Listed' = Listed
    BY <1>1, Facts DEF SInv, SameDisks, Listed
  <1>3. /\ thread[t].i \in 1..thread[t].len /\ Element(t) \in 1..Len(media)
    <2>1. thread[t].i \in 1..thread[t].len
      BY <1>1, <1>2 DEF AInv, SearchOK, Searching, Thread
    <2> QED  BY <1>1, <1>2, <2>1 DEF AInv, SearchOK, Searching, Element
  <1>4. PICK d \in Devices : d = media[Element(t)].device
    BY <1>2, <1>3, Facts
  <1>5. d \in thread[t].steady => Element(t) \in Listed
    BY <1>1, <1>2, <1>3, <1>4 DEF CallOK, Element
  <1>6. ~thread[t].crossed => \A e \in thread[t].steady : thread[t].want \in {e, None} =>
          \/ d = e
          \/ \E k \in (thread[t].i + 1)..thread[t].len : media[At(t, k)].device = e
          \/ thread[t].want = None /\ e \in thread[t].answer
    <2> SUFFICES ASSUME ~thread[t].crossed, NEW e \in thread[t].steady, d # e,
                        thread[t].want \in {e, None},
                        ~ (thread[t].want = None /\ e \in thread[t].answer)
                 PROVE  \E k \in (thread[t].i + 1)..thread[t].len : media[At(t, k)].device = e
      OBVIOUS
    <2>1. PICK k \in thread[t].i..thread[t].len : media[At(t, k)].device = e
      BY <1>1, <1>2 DEF CallOK
    <2>2. k # thread[t].i
      BY <1>4, <2>1 DEF Element
    <2> QED  BY <1>2, <1>3, <2>1, <2>2 DEF Thread
  <1>7. \A m \in 1..Len(media) : media[m].owner # t
    BY <1>1, <1>2 DEF MediaOK
  <1>8. ASSUME NEW r, thread' = [thread EXCEPT ![t] = r], CallOK(t)' PROVE SInv'
    <2>1. r \in Thread
      BY <1>2, <1>8, Facts DEF AInv, Types
    <2> QED  BY <1>1, <1>2, <1>7, <1>8, <2>1, OneThreadServes
  <1> DEFINE listed == [thread[t] EXCEPT !.i = @ + 1, !.answer = @ \union {d}]
             found  == [thread[t] EXCEPT !.pc = "lock", !.medium = Element(t)]
             next   == [thread[t] EXCEPT !.i = @ + 1]
  <1>9. \/ thread[t].want = None /\ thread' = [thread EXCEPT ![t] = listed]
        \/ thread[t].want = d /\ thread' = [thread EXCEPT ![t] = found]
        \/ thread[t].want \notin {None, d} /\ thread' = [thread EXCEPT ![t] = next]
    <2>1. thread' = [thread EXCEPT ![t] =
                      CASE thread[t].want = None -> listed
                        [] thread[t].want = d    -> found
                        [] OTHER                 -> next]
      BY <1>4, Zenon DEF RangeElement, Set
    <2> HIDE DEF listed, found, next
    <2>2. thread[t].want = None => thread[t].want # d
      BY <1>4, ConstantsAssumption
    <2> QED  BY <2>1, <2>2
  <1>10. \A e \in thread[t].steady : Settled(e) /\ Settled(e)'
    BY <1>1, <1>2 DEF CallOK, Settled, Listed
  <1>11. ASSUME NEW r, r.pc = "search", r.own = thread[t].own, r.len = thread[t].len,
                r.steady = thread[t].steady, r.crossed = thread[t].crossed,
                r.want = thread[t].want, r.i = thread[t].i + 1,
                \/ thread[t].want = None /\ r.answer = thread[t].answer \union {d}
                \/ thread[t].want \notin {None, d} /\ r.answer = thread[t].answer,
                thread'[t] = r
         PROVE  CallOK(t)'
    <2>1. \A k : At(t, k)' = At(t, k)
      BY <1>1, <1>11 DEF At
    <2>2. \A k \in 1..r.len : media'[At(t, k)'].device \in r.steady => At(t, k)' \in Listed'
      BY <1>1, <1>2, <1>11, <2>1 DEF CallOK
    <2>3. ~r.crossed =>
            /\ r.len <= size'
            /\ \A e \in r.steady : r.want \in {e, None} =>
                 \/ \E k \in r.i..r.len : media'[At(t, k)'].device = e
                 \/ r.want = None /\ e \in r.answer
      BY <1>1, <1>2, <1>6, <1>11, <2>1 DEF CallOK
    <2> QED  BY <1>10, <1>11, <2>2, <2>3 DEF CallOK
  <1>12. CASE thread[t].want = None /\ thread' = [thread EXCEPT ![t] = listed]
    <2>1. /\ listed.pc = "search" /\ listed.own = thread[t].own /\ listed.len = thread[t].len
          /\ listed.steady = thread[t].steady /\ listed.crossed = thread[t].crossed
          /\ listed.want = thread[t].want /\ listed.i = thread[t].i + 1
          /\ listed.answer = thread[t].answer \union {d} /\ thread'[t] = listed
      BY <1>1, <1>2, <1>12, Facts DEF Thread
    <2> HIDE DEF listed
    <2> QED  BY <1>8, <1>11, <1>12, <2>1
  <1>13. CASE thread[t].want = d /\ thread' = [thread EXCEPT ![t] = found]
    <2>1. /\ found.pc = "lock" /\ found.medium = Element(t) /\ found.want = d
          /\ found.steady = thread[t].steady /\ thread'[t] = found
      BY <1>2, <1>13, Facts DEF Thread
    <2> HIDE DEF found
    <2>2. CallOK(t)'
      BY <1>1, <1>2, <1>4, <1>5, <1>10, <2>1, ConstantsAssumption DEF CallOK
    <2> QED  BY <1>8, <1>13, <2>2
  <1>14. CASE thread[t].want \notin {None, d} /\ thread' = [thread EXCEPT ![t] = next]
    <2>1. /\ next.pc = "search" /\ next.own = thread[t].own /\ next.len = thread[t].len
          /\ next.steady = thread[t].steady /\ next.crossed = thread[t].crossed
          /\ next.want = thread[t].want /\ next.i = thread[t].i + 1
          /\ next.answer = thread[t].answer /\ thread'[t] = next
      BY <1>1, <1>2, <1>14, Facts DEF Thread
    <2> HIDE DEF next
    <2> QED  BY <1>8, <1>11, <1>14, <2>1
  <1> QED  BY <1>9, <1>12, <1>13, <1>14

LEMMA CallEndsServes ==
  ASSUME SInv, AInv', NEW t \in Threads, RangeEnd(t) \/ Return(t)
  PROVE  SInv'
  <1>1. /\ UNCHANGED <<inDrive, look, old, leaving, coming, media, array, size, closing>>
        /\ thread[t].pc \in {"search", "return"}
    BY DEF RangeEnd, Return, Step, world, pollVars
  <1>2. AInv /\ MediaOK /\ SameDisks /\ CallOK(t) /\ thread[t] \in Thread /\ Listed' = Listed
    BY <1>1, Facts DEF SInv, SameDisks, Listed
  <1>3. \A m \in 1..Len(media) : media[m].owner # t
    BY <1>1, <1>2 DEF MediaOK
  <1>4. ASSUME NEW r, thread' = [thread EXCEPT ![t] = r], CallOK(t)' PROVE SInv'
    <2>1. r \in Thread
      BY <1>2, <1>4, Facts DEF AInv, Types
    <2> QED  BY <1>1, <1>2, <1>3, <1>4, <2>1, OneThreadServes
  <1>5. CASE RangeEnd(t)
    <2> DEFINE r == [thread[t] EXCEPT !.pc = "return",
                        !.answer = IF thread[t].want = None THEN @ ELSE {ENOENT}]
    <2>1. /\ thread' = [thread EXCEPT ![t] = r]
          /\ thread[t].pc = "search" /\ thread[t].i > thread[t].len
      BY <1>5 DEF RangeEnd, Set
    <2>2. /\ r.pc = "return" /\ r.want = thread[t].want /\ r.steady = thread[t].steady
          /\ r.crossed = thread[t].crossed /\ thread'[t] = r
          /\ r.answer = IF thread[t].want = None THEN thread[t].answer ELSE {ENOENT}
      BY <1>2, <2>1, Facts DEF Thread
    <2> HIDE DEF r
    <2>3. ~r.crossed => \A d \in r.steady : r.want \in {d, None} =>
            r.want = None /\ d \in r.answer
      <3>1. \A k \in thread[t].i..thread[t].len : FALSE
        BY <1>2, <2>1 DEF Thread
      <3> QED  BY <1>2, <2>1, <2>2, <3>1 DEF CallOK
    <2>4. \A d \in r.steady : Settled(d)' /\ d # None
      BY <1>1, <1>2, <2>2, Facts, ConstantsAssumption DEF CallOK, Settled, Listed
    <2>5. CallOK(t)'
      BY <2>2, <2>3, <2>4 DEF CallOK
    <2> QED  BY <1>4, <2>1, <2>5
  <1>6. CASE Return(t)
    <2>1. thread' = [thread EXCEPT ![t] = Idle] /\ thread'[t] = Idle
      BY <1>2, <1>6, Facts DEF Return, Set
    <2>2. Idle.pc = "idle" /\ Idle.steady = {}
      BY DEF Idle
    <2>3. CallOK(t)'
      BY <2>1, <2>2 DEF CallOK
    <2> QED  BY <1>4, <2>1, <2>3
  <1> QED  BY <1>5, <1>6

(* The disk of a call whose medium is listed: a handle of that medium is   *)
(* on it, being between the disk that Probe met and the one in the drive.  *)
LEMMA OnItsDisk ==
  ASSUME AInv, MediaOK, PollOK, NEW d, Settled(d), NEW m \in Listed, media[m].device = d,
         NEW h \in Nat, HandleGood(m, h)
  PROVE  h = inDrive[d]
  <1>1. PICK n \in Listed : media[n].device = d /\ media[n].disk = inDrive[d]
    BY DEF Settled
  <1>2. n = m
    BY <1>1 DEF PollOK, Listed
  <1>3. d \in Devices /\ inDrive[d] # None /\ inDrive[d] \in Nat
    BY Facts DEF Settled
  <1> QED  BY <1>1, <1>2, <1>3 DEF HandleGood

LEMMA OpenServes ==
  ASSUME SInv, AInv', NEW t \in Threads, OpenMediumHandle(t)
  PROVE  SInv'
  <1>1. /\ UNCHANGED <<inDrive, look, old, leaving, coming, array, size, closing>>
        /\ thread[t].pc = "lock"
    BY DEF OpenMediumHandle, Step, world, pollVars
  <1>2. AInv /\ MediaOK /\ CallOK(t) /\ thread[t] \in Thread /\ Listed' = Listed
    BY <1>1, Facts DEF SInv, Listed
  <1>3. PICK m \in 1..Len(media) : m = thread[t].medium
    BY <1>1, <1>2 DEF AInv, MutexOK
  <1>4. PICK disk \in Nat \union {None} : disk = inDrive[media[m].device]
    BY <1>2, Facts
  <1>5. /\ media[m].device = thread[t].want /\ thread[t].want # None
        /\ thread[t].want \in thread[t].steady => m \in Listed /\ disk # None
    BY <1>1, <1>2, <1>3, <1>4 DEF CallOK, Settled
  <1>6. disk # None => HandleGood(m, disk)
    <2>1. disk # None => disk \in 1..Len(look)
      BY <1>2, <1>3, <1>4, Facts
    <2> QED  BY <1>2, <1>4, <2>1, Facts DEF MediaOK, HandleGood
  <1>7. media[m].handle # None => HandleGood(m, media[m].handle)
    BY <1>2 DEF MediaOK
  <1>8. \A n \in 1..Len(media) : media[n].owner # t
    BY <1>1, <1>2 DEF MediaOK
  <1>9. ASSUME NEW h, h # None => HandleGood(m, h), NEW where \in {"use", "opened"},
               h = None => where = "use" /\ m \notin Listed, Lock(m, t),
               thread' = [thread EXCEPT ![t] = [thread[t] EXCEPT !.pc = where, !.handle = h]]
        PROVE  SInv'
    <2> DEFINE r == [thread[t] EXCEPT !.pc = where, !.handle = h]
    <2>1. /\ r.pc = where /\ r.handle = h /\ r.medium = m /\ r.want = thread[t].want
          /\ r.steady = thread[t].steady /\ thread'[t] = r
      BY <1>2, <1>3, <1>9, Facts DEF Thread
    <2>2. thread' = [thread EXCEPT ![t] = r]
      BY <1>9
    <2> HIDE DEF r
    <2>3. r \in Thread
      BY <2>1 DEF AInv, Types
    <2>4. /\ Len(media') = Len(media) /\ SameDisks
          /\ \A n \in 1..Len(media) : /\ media'[n].owner = IF n = m THEN t ELSE media[n].owner
                                      /\ media'[n].handle = media[n].handle
      BY <1>2, <1>9, NewOwner DEF Lock, AInv, SameDisks
    <2>5. \A d \in r.steady : Settled(d)'
      <3> SUFFICES ASSUME NEW d \in r.steady PROVE Settled(d)'  OBVIOUS
      <3>1. Settled(d)
        BY <1>2, <2>1 DEF CallOK
      <3> QED  BY <1>1, <1>2, <2>4, <3>1, Facts DEF Settled, SameDisks
    <2>6. (h # None => HandleGood(m, h)') /\ media'[m].device = r.want
      BY <1>1, <1>5, <1>9, <2>1, <2>4 DEF HandleGood, SameDisks
    <2>7. CallOK(t)'
      <3>1. /\ r.want # None /\ r.pc \in {"opened", "use"}
            /\ r.pc = "opened" => r.handle # None
            /\ r.want \in r.steady => r.medium \in Listed' /\ r.handle # None
        BY <1>2, <1>5, <1>9, <2>1
      <3>2. /\ thread'[t].pc \in {"opened", "use"} /\ thread'[t].want = r.want
            /\ thread'[t].medium = m /\ thread'[t].handle = h /\ thread'[t].steady = r.steady
        BY <2>1, <3>1
      <3> QED  BY <2>1, <2>5, <2>6, <3>1, <3>2 DEF CallOK, HandleGood
    <2>8. \A n \in 1..Len(media) :
            /\ media'[n].handle \in {media[n].handle, None}
            /\ media'[n].owner = t => r.medium = n /\ r.pc \in {"opened", "use"}
            /\ \A u \in Threads \ {t} : media'[n].owner = u => media[n].owner = u
      BY <1>8, <2>1, <2>4
    <2> QED  BY <1>1, <2>2, <2>3, <2>4, <2>7, <2>8, OneThreadServes
  <1>10. CASE media[m].handle # None /\ Lock(m, t)
              /\ Set(t, [thread[t] EXCEPT !.pc = "use", !.handle = StoredHandle(m)])
    <2>1. closing \notin Listed
      BY DEF SInv, PollOK
    <2>2. /\ StoredHandle(m) # None => HandleGood(m, StoredHandle(m))
          /\ StoredHandle(m) = None => m \notin Listed
      BY <1>7, <1>10, <2>1 DEF StoredHandle
    <2> QED  BY <1>9, <1>10, <2>2 DEF Set
  <1>11. CASE media[m].handle = None /\ disk # None /\ Lock(m, t)
              /\ Set(t, [thread[t] EXCEPT !.pc = "opened", !.handle = disk])
    BY <1>6, <1>9, <1>11 DEF Set
  <1>12. CASE disk = None /\ UNCHANGED media
              /\ Set(t, [thread[t] EXCEPT !.pc = "return", !.answer = {EIO}])
    <2> DEFINE r == [thread[t] EXCEPT !.pc = "return", !.answer = {EIO}]
    <2>1. /\ r.pc = "return" /\ r.want = thread[t].want /\ r.steady = thread[t].steady
          /\ thread'[t] = r /\ thread' = [thread EXCEPT ![t] = r]
      BY <1>2, <1>12, Facts DEF Set, Thread
    <2> HIDE DEF r
    <2>2. r \in Thread /\ SameDisks
      BY <1>12, <2>1 DEF AInv, Types, SameDisks
    <2>3. \A d \in r.steady : Settled(d)'
      BY <1>1, <1>2, <1>12, <2>1 DEF CallOK, Settled
    <2>4. CallOK(t)'
      BY <1>5, <1>12, <2>1, <2>3 DEF CallOK
    <2> QED  BY <1>1, <1>8, <1>12, <2>1, <2>2, <2>4, OneThreadServes
  <1> QED  BY <1>3, <1>4, <1>10, <1>11, <1>12 DEF OpenMediumHandle

LEMMA StoreServes ==
  ASSUME SInv, AInv', NEW t \in Threads, SetHandle(t)
  PROVE  SInv'
  <1> DEFINE r == [thread[t] EXCEPT !.pc = "use"]
  <1>1. /\ UNCHANGED <<inDrive, look, old, leaving, coming, array, size, closing>>
        /\ thread[t].pc = "opened" /\ thread' = [thread EXCEPT ![t] = r]
    BY DEF SetHandle, Set, Step, world, pollVars
  <1>2. AInv /\ MediaOK /\ CallOK(t) /\ thread[t] \in Thread /\ Listed' = Listed
    BY <1>1, Facts DEF SInv, Listed
  <1>3. PICK m \in 1..Len(media) : m = thread[t].medium
    BY <1>1, <1>2 DEF AInv, MutexOK
  <1>4. PICK h \in Nat : h = thread[t].handle /\ HandleGood(m, h) /\ h # None
    BY <1>1, <1>2, <1>3 DEF CallOK, Thread
  <1>5. /\ r.pc = "use" /\ r.handle = h /\ r.medium = m /\ r.want = thread[t].want
        /\ r.steady = thread[t].steady /\ thread'[t] = r
    BY <1>1, <1>2, <1>3, <1>4, Facts DEF Thread
  <1> HIDE DEF r
  <1>6. r \in Thread
    BY <1>5 DEF AInv, Types
  <1>7. media' = [media EXCEPT ![m].handle = h]
    BY <1>3, <1>4 DEF SetHandle
  <1>8. /\ Len(media') = Len(media) /\ SameDisks
        /\ \A n \in 1..Len(media) : /\ media'[n].handle = IF n = m THEN h ELSE media[n].handle
                                    /\ media'[n].owner = media[n].owner
    BY <1>2, <1>7, NewHandle DEF AInv, SameDisks
  <1>9. \A d \in r.steady : Settled(d)'
    <2> SUFFICES ASSUME NEW d \in r.steady PROVE Settled(d)'  OBVIOUS
    <2>1. Settled(d)
      BY <1>2, <1>5 DEF CallOK
    <2> QED  BY <1>1, <1>2, <1>8, <2>1, Facts DEF Settled, SameDisks
  <1>10. HandleGood(m, h)'
    BY <1>1, <1>4, <1>8 DEF HandleGood, SameDisks
  <1>11. CallOK(t)'
    BY <1>1, <1>2, <1>3, <1>4, <1>5, <1>8, <1>9, <1>10 DEF CallOK, SameDisks
  <1>12. \A n \in 1..Len(media) : media[n].owner = t => n = m
    BY <1>2, <1>3 DEF MediaOK
  <1>13. \A n \in 1..Len(media) : \/ media'[n].handle \in {media[n].handle, None}
                                  \/ HandleGood(n, media'[n].handle)
    BY <1>4, <1>8 DEF HandleGood
  <1>14. \A n \in 1..Len(media) :
           /\ media'[n].owner = t => r.medium = n /\ r.pc \in {"opened", "use"}
           /\ \A u \in Threads \ {t} : media'[n].owner = u => media[n].owner = u
    BY <1>5, <1>8, <1>12
  <1> QED  BY <1>1, <1>6, <1>8, <1>11, <1>13, <1>14, OneThreadServes

LEMMA AccessServes ==
  ASSUME SInv, AInv', NEW t \in Threads, Access(t)
  PROVE  SInv'
  <1> DEFINE a == IF thread[t].handle # None
                     /\ thread[t].handle = inDrive[media[thread[t].medium].device]
                  THEN {thread[t].handle} ELSE {EIO}
             r == [thread[t] EXCEPT !.pc = "return", !.answer = a]
  <1>1. /\ UNCHANGED <<inDrive, look, old, leaving, coming, array, size, closing>>
        /\ thread[t].pc = "use" /\ thread' = [thread EXCEPT ![t] = r]
    BY DEF Access, Set, Step, world, pollVars
  <1>2. AInv /\ MediaOK /\ PollOK /\ CallOK(t) /\ thread[t] \in Thread /\ Listed' = Listed
    BY <1>1, Facts DEF SInv, Listed
  <1>3. PICK m \in 1..Len(media) : m = thread[t].medium
    BY <1>1, <1>2 DEF AInv, MutexOK
  <1>4. thread[t].want # None /\ (thread[t].want \in thread[t].steady => a = {inDrive[thread[t].want]})
    <2> SUFFICES ASSUME thread[t].want \in thread[t].steady PROVE a = {inDrive[thread[t].want]}
      BY <1>1, <1>2 DEF CallOK
    <2>1. /\ Settled(thread[t].want) /\ m \in Listed /\ media[m].device = thread[t].want
          /\ thread[t].handle # None /\ HandleGood(m, thread[t].handle)
      BY <1>1, <1>2, <1>3 DEF CallOK
    <2>2. thread[t].handle \in Nat
      BY <1>2, <2>1 DEF Thread
    <2>3. thread[t].handle = inDrive[thread[t].want]
      BY <1>2, <2>1, <2>2, OnItsDisk
    <2> QED  BY <1>3, <2>1, <2>3
  <1>5. /\ r.pc = "return" /\ r.answer = a /\ r.want = thread[t].want
        /\ r.steady = thread[t].steady /\ thread'[t] = r
    BY <1>1, <1>2, Facts DEF Thread
  <1> HIDE DEF r, a
  <1>6. r \in Thread
    BY <1>5 DEF AInv, Types
  <1>7. media' = [media EXCEPT ![m].owner = None]
    BY <1>3 DEF Access, Unlock
  <1>8. /\ Len(media') = Len(media) /\ SameDisks
        /\ \A n \in 1..Len(media) : /\ media'[n].owner = IF n = m THEN None ELSE media[n].owner
                                    /\ media'[n].handle = media[n].handle
    BY <1>2, <1>7, NewOwner DEF AInv, SameDisks
  <1>9. \A d \in r.steady : Settled(d)'
    <2> SUFFICES ASSUME NEW d \in r.steady PROVE Settled(d)'  OBVIOUS
    <2>1. Settled(d)
      BY <1>2, <1>5 DEF CallOK
    <2> QED  BY <1>1, <1>2, <1>8, <2>1, Facts DEF Settled, SameDisks
  <1>10. CallOK(t)'
    BY <1>1, <1>4, <1>5, <1>9 DEF CallOK
  <1>11. \A n \in 1..Len(media) : media'[n].owner # t
    BY <1>2, <1>3, <1>8, ConstantsAssumption DEF MediaOK
  <1>12. \A n \in 1..Len(media), u \in Threads : media'[n].owner = u => media[n].owner = u
    BY <1>8, ConstantsAssumption
  <1> QED  BY <1>1, <1>6, <1>8, <1>10, <1>11, <1>12, OneThreadServes

-----------------------------------------------------------------------------
LEMMA NextSInv == SInv /\ [Next]_vars => SInv'
  <1> SUFFICES ASSUME SInv, [Next]_vars PROVE SInv'  OBVIOUS
  <1>0. AInv'
    BY NextAInv DEF SInv
  <1>1. CASE User
    BY <1>0, <1>1, InsertServes, EjectServes, LookServes, CallServes DEF User
  <1>2. CASE Poll
    BY <1>0, <1>2, LookServes, CloseServes, RemoveServes, AttachServes DEF Poll
  <1>3. ASSUME NEW t \in Threads, Fuse(t)  PROVE SInv'
    BY <1>0, <1>3, RangeElementServes, CallEndsServes, OpenServes, StoreServes, AccessServes
       DEF Fuse
  <1> QED  BY <1>0, <1>1, <1>2, <1>3, LookServes DEF Next

LEMMA InitSInv == Init => SInv
  <1> SUFFICES ASSUME Init PROVE SInv  OBVIOUS
  <1>1. AInv
    BY InitAInv
  <1>2. Len(media) = 0 /\ Listed = {} /\ coming = {} /\ size = 0
    BY DEF Init, Listed
  <1>3. \A t \in Threads : thread[t].pc = "idle" /\ thread[t].steady = {}
    BY DEF Init, Idle
  <1>4. MediaOK /\ PollOK
    BY <1>2 DEF MediaOK, PollOK
  <1>5. \A t \in Threads : CallOK(t)
    BY <1>3 DEF CallOK
  <1> QED  BY <1>1, <1>4, <1>5 DEF SInv

(* Open, Getattr, Read and Write for a disk that is listed and stays in    *)
(* its drive reach that disk, and Readdir lists its medium, whatever the   *)
(* poll attaches and removes meanwhile and whoever opens the handle;       *)
(* FindMediumByPublicFSPathname may miss it when another medium leaves.    *)
THEOREM ServedWhatStays == Spec => []ServedByOwnDisk
  <1>1. SInv => ServedByOwnDisk
    BY DEF SInv, CallOK, ServedByOwnDisk
  <1> QED  BY <1>1, InitSInv, NextSInv, PTL DEF Spec

(* One medium per device is listed, as attachedBlockDeviceCallback finds   *)
(* it, and the mutex of a medium is held by the call that works on it.     *)
THEOREM TypesCorrect == Spec => []TypeOK
  <1>1. SInv => TypeOK
    <2> SUFFICES ASSUME SInv PROVE TypeOK  OBVIOUS
    <2>1. AInv /\ MediaOK /\ PollOK
      BY DEF SInv
    <2>2. /\ inDrive \in [Devices -> 1..Len(look) \union {None}]
          /\ old \in [Devices -> Looks \union {None}]
          /\ size <= Len(array) /\ Listed \subseteq 1..Len(media)
          /\ closing \in 1..Len(media) \union {None}
      BY <2>1, Facts DEF AInv, Types
    <2>3. ASSUME NEW k \in 1..size PROVE Place(media[array[k]].device) = k
      <3> DEFINE d == media[array[k]].device
      <3>1. Place(d) \in 1..size /\ media[array[Place(d)]].device = d
        <4>1. size \in Nat
          BY <2>1, Facts
        <4> HIDE DEF d
        <4>2. /\ Place(d) \in 0..size
              /\ Place(d) # 0 => media[array[Place(d)]].device = d
              /\ Place(d) = 0 => \A j \in 1..size : media[array[j]].device # d
          BY <4>1, PlaceListed
        <4>3. Place(d) # 0
          BY <4>2 DEF d
        <4> QED  BY <4>1, <4>2, <4>3
      <3> HIDE DEF d
      <3> QED  BY <2>1, <3>1 DEF PollOK, d
    <2>4. ASSUME NEW m \in 1..Len(media), NEW t \in Threads
          PROVE  media[m].owner = t <=> thread[t].medium = m /\ thread[t].pc \in {"opened", "use"}
      BY <2>1 DEF MediaOK, AInv, MutexOK
    <2> QED  BY <2>2, <2>3, <2>4 DEF TypeOK
  <1> QED  BY <1>1, InitSInv, NextSInv, PTL DEF Spec
=============================================================================
