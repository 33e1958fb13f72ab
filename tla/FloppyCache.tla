---------------------------- MODULE FloppyCache ----------------------------
(***************************************************************************)
(* The cached copies of floppies (FloppyMediumDriver): the first complete  *)
(* read of a floppy copies it to a file named by a UUID; the UUID and the  *)
(* time of the file go to a header in the last sector of the floppy; from  *)
(* then on reads and writes use the file, and writes reach the floppy      *)
(* later, through the queue of the drive.  When a floppy is put in, Probe  *)
(* decides from the header whether the file may be used.                   *)
(*                                                                         *)
(* The queue is the one DelayedWrites promises: one due write per sector,  *)
(* done in any order.  Each drive is served by one FUSE thread at a time,  *)
(* under the mutex of its medium; drives share the directory of files.     *)
(* A floppy is taken out when its drive is quiet: no call in flight and    *)
(* nothing due.  A write is known by its number.                           *)
(***************************************************************************)
EXTENDS Naturals, FiniteSets

CONSTANTS
    Drives, Floppies, Blocks,
    NoFloppy,
    BootBlock,    (* the block that formatting overwrites                    *)
    Quota,        (* CACHED_ADFS_QUOTA, in files                             *)
    OtherHost,    (* what other computers do to a floppy: "cached", "real"   *)
    MaxWrites, MaxUuids, MaxTime, MaxCrashes, MaxFailures   (* bounds        *)

ASSUME ConstantsAssumption ==
    /\ NoFloppy \notin Floppies
    /\ BootBlock \in Blocks
    /\ Quota \in Nat \ {0}
    /\ OtherHost \subseteq {"cached", "real"}
    /\ IsFiniteSet(Drives)
    /\ {MaxWrites, MaxUuids, MaxTime, MaxCrashes, MaxFailures} \subseteq Nat /\ MaxTime # 0

Uuids == 1..MaxUuids
Contents == [Blocks -> 0..MaxWrites]
Blank == [b \in Blocks |-> 0]

NoFile == [full |-> FALSE, mtime |-> 0, data |-> Blank]
NoHeader == [uuid |-> 0, mtime |-> 0]
NoMedium == [present |-> FALSE, uuid |-> 0, cached |-> FALSE, disabled |-> FALSE,
             handle |-> "none"]

VARIABLES
    disk, header,   (* data and last sector of each floppy                   *)
    inDrive,        (* the floppy in each drive                              *)
    files,          (* cachedAdfsDir: the file of each UUID, NoFile if none  *)
    medium,         (* the FloppyMedium of each drive                        *)
    orphan,         (* data of a removed file that a drive still has open    *)
    due, dueHeader, (* the queue of each drive; 0 and NoHeader: nothing due  *)
    pc, snap,       (* floppyCacheAdf: where it is, the data it has read     *)
    victim,         (* the oldest file preCacheADFCallback has chosen        *)
    clock,          (* seconds, as in ModTime().Unix()                       *)
    writes, uuids, crashes, failures    (* counters                          *)

(* Observation only: the newest write of each block of each floppy that    *)
(* the emulator was told has succeeded and that is not lost (Forget), and  *)
(* the blocks whose newest write only the cached file has: it is still     *)
(* due, or was dropped, or the floppy got one that the emulator was told   *)
(* has failed.                                                             *)
VARIABLES newest, unstored

floppyVars  == <<disk, header>>
cacheVars   == <<pc, snap, victim>>
queueVars   == <<due, dueHeader>>
counterVars == <<writes, uuids, crashes, failures>>
vars == <<floppyVars, inDrive, files, medium, orphan, queueVars, cacheVars, clock,
          counterVars, newest, unstored>>

Init ==
    /\ disk = [f \in Floppies |-> Blank]
    /\ header = [f \in Floppies |-> NoHeader]
    /\ inDrive = [d \in Drives |-> NoFloppy]
    /\ files = [u \in Uuids |-> NoFile]
    /\ medium = [d \in Drives |-> NoMedium]
    /\ orphan = [d \in Drives |-> Blank]
    /\ due = [d \in Drives |-> Blank]
    /\ dueHeader = [d \in Drives |-> NoHeader]
    /\ pc = [d \in Drives |-> "idle"]
    /\ snap = [d \in Drives |-> Blank]
    /\ victim = [d \in Drives |-> 0]
    /\ clock = 1
    /\ writes = 0 /\ uuids = 0 /\ crashes = 0 /\ failures = 0
    /\ newest = [f \in Floppies |-> Blank]
    /\ unstored = [f \in Floppies |-> {}]

Exists(u) == files[u].mtime # 0

(* Mutants: the time, or the size, of the file is not looked at.           *)
decodeCachedADFHeaderAnyTime(h) == h.uuid # 0 /\ files[h.uuid].full
decodeCachedADFHeaderAnySize(h) ==
    h.uuid # 0 /\ Exists(h.uuid) /\ files[h.uuid].mtime >= h.mtime

(* decodeCachedADFHeader: whether it takes the file for properly cached.   *)
decodeCachedADFHeader(h) ==
    /\ h.uuid # 0
    /\ files[h.uuid].full
    /\ files[h.uuid].mtime >= h.mtime

(* The floppies whose header leads to their file.                          *)
Led == {f \in Floppies : decodeCachedADFHeader(header[f])}

Quiet(d) == pc[d] = "idle" /\ due[d] = Blank /\ dueHeader[d] = NoHeader

(* What reading the file of the medium in d shows.                         *)
CachedData(d) == IF Exists(medium[d].uuid) THEN files[medium[d].uuid].data ELSE orphan[d]

(* The driver knows floppy f.                                              *)
Served(f) == \E d \in Drives : inDrive[d] = f /\ medium[d].present

(* A new write, and one of block b of floppy f that succeeds.              *)
NextWrite == writes < MaxWrites /\ writes' = writes + 1
NewWrite(f, b) == NextWrite /\ newest' = [newest EXCEPT ![f][b] = writes']

(* Observation only: floppies S lose the writes that only their files had. *)
Remains(f) == [b \in Blocks |-> IF b \in unstored[f] THEN disk[f][b] ELSE newest[f][b]]
Forget(S) ==
    /\ newest' = [f \in Floppies |-> IF f \in S THEN Remains(f) ELSE newest[f]]
    /\ unstored' = [f \in Floppies |-> IF f \in S THEN {} ELSE unstored[f]]

-----------------------------------------------------------------------------
(* Floppies and time.                                                      *)

Eject(d) ==
    /\ inDrive[d] # NoFloppy
    /\ Quiet(d)
    /\ inDrive' = [inDrive EXCEPT ![d] = NoFloppy]
    /\ Forget({inDrive[d]} \ Led)
    /\ UNCHANGED <<floppyVars, files, medium, orphan, queueVars, cacheVars, clock,
                   counterVars>>

(* Swapping floppies takes longer than the 10 ms poll of BlockDevices.     *)
Insert(d, f) ==
    /\ inDrive[d] = NoFloppy
    /\ ~medium[d].present
    /\ \A e \in Drives : inDrive[e] # f
    /\ inDrive' = [inDrive EXCEPT ![d] = f]
    /\ UNCHANGED <<floppyVars, files, medium, orphan, queueVars, cacheVars, clock,
                   counterVars, newest, unstored>>

(* Another computer that runs the same driver writes to the floppy, and    *)
(* brings it back at a later second: through its own cached file, which    *)
(* updates the header, or straight to the floppy, which does not.          *)
OtherHostWrites(f, b, how) ==
    /\ \A d \in Drives : inDrive[d] # f
    /\ how \in OtherHost
    /\ how = "cached" => header[f].uuid # 0
    /\ clock < MaxTime
    /\ clock' = clock + 1
    /\ NewWrite(f, b)
    /\ disk' = [disk EXCEPT ![f][b] = writes']
    /\ header' = IF how = "cached" THEN [header EXCEPT ![f].mtime = clock'] ELSE header
    /\ UNCHANGED <<inDrive, files, medium, orphan, queueVars, cacheVars, uuids, crashes,
                   failures, unstored>>

Tick ==
    /\ clock < MaxTime
    /\ clock' = clock + 1
    /\ UNCHANGED <<floppyVars, inDrive, files, medium, orphan, queueVars, cacheVars,
                   counterVars, newest, unstored>>

-----------------------------------------------------------------------------
(* The poll of the block devices finds a floppy or finds the drive empty.  *)

(* attachedBlockDeviceCallback: formatting writes the first sectors; Probe *)
(* then reads the header, and removes a file it accepts if the floppy was  *)
(* formatted or the user forced the insertion.                             *)
Probe(d, formatted, force) ==
    /\ ~medium[d].present
    /\ inDrive[d] # NoFloppy
    /\ LET f == inDrive[d]
           u == header[f].uuid
           accepted == decodeCachedADFHeader(header[f])
           removed == accepted /\ (formatted \/ force)
           kept == IF removed THEN Remains(f) ELSE newest[f]
       IN /\ IF formatted THEN /\ NextWrite
                               /\ disk' = [disk EXCEPT ![f][BootBlock] = writes']
                               /\ newest' = [newest EXCEPT ![f] =
                                                [kept EXCEPT ![BootBlock] = writes']]
                          ELSE /\ newest' = [newest EXCEPT ![f] = kept]
                               /\ UNCHANGED <<disk, writes>>
          /\ IF removed THEN /\ files' = [files EXCEPT ![u] = NoFile]
                             /\ unstored' = [unstored EXCEPT ![f] = {}]
                        ELSE UNCHANGED <<files, unstored>>
          /\ medium' = [medium EXCEPT ![d] = [NoMedium EXCEPT
                            !.present = TRUE, !.uuid = u, !.cached = accepted /\ ~removed]]
    /\ UNCHANGED <<header, inDrive, orphan, queueVars, cacheVars, clock, uuids, crashes,
                   failures>>

(* Mutant: the medium is taken off the list with its fields as they are.   *)
CloseMediumKeepsFields(d) ==
    /\ medium[d].present
    /\ inDrive[d] = NoFloppy
    /\ medium' = [medium EXCEPT ![d].present = FALSE]
    /\ UNCHANGED <<floppyVars, inDrive, files, orphan, queueVars, cacheVars, clock,
                   counterVars, newest, unstored>>

(* detachedBlockDeviceCallback, CloseMedium.                               *)
CloseMedium(d) ==
    /\ medium[d].present
    /\ inDrive[d] = NoFloppy
    /\ medium' = [medium EXCEPT ![d] = NoMedium]
    /\ orphan' = [orphan EXCEPT ![d] = Blank]
    /\ UNCHANGED <<floppyVars, inDrive, files, queueVars, cacheVars, clock, counterVars, newest, unstored>>

-----------------------------------------------------------------------------
(* The driver.                                                             *)

Idle(d) == medium[d].present /\ inDrive[d] # NoFloppy /\ pc[d] = "idle"

Goto(d, to) == pc' = [pc EXCEPT ![d] = to]

(* realWrite: nothing tells the header.                                    *)
realWrite(d, b) ==
    /\ Idle(d)
    /\ ~medium[d].cached
    /\ NewWrite(inDrive[d], b)
    /\ disk' = [disk EXCEPT ![inDrive[d]][b] = writes']
    /\ medium' = [medium EXCEPT ![d].handle = "device"]
    /\ UNCHANGED <<header, inDrive, files, orphan, queueVars, cacheVars, clock, uuids,
                   crashes, failures, unstored>>

(* OpenMediumHandle for a cached medium: the file must still be there.     *)
CanOpenCached(d) ==
    /\ Idle(d)
    /\ medium[d].cached
    /\ medium[d].handle = "adf" \/ Exists(medium[d].uuid)

cachedRead(d) ==
    /\ CanOpenCached(d)
    /\ medium[d].handle # "adf"
    /\ medium' = [medium EXCEPT ![d].handle = "adf"]
    /\ UNCHANGED <<floppyVars, inDrive, files, orphan, queueVars, cacheVars, clock,
                   counterVars, newest, unstored>>

(* cachedWrite: the file, the queue, the time of the file, the header.  If *)
(* the file has been removed meanwhile, Stat gives nil, the call panics    *)
(* before the header and cgofuse answers EIO, though the write is due.     *)
cachedWrite(d, b) ==
    /\ CanOpenCached(d)
    /\ NewWrite(inDrive[d], b)
    /\ medium' = [medium EXCEPT ![d].handle = "adf"]
    /\ due' = [due EXCEPT ![d][b] = writes']
    /\ unstored' = [unstored EXCEPT ![inDrive[d]] = @ \union {b}]
    /\ LET u == medium[d].uuid
       IN IF Exists(u)
          THEN /\ files' = [files EXCEPT ![u].data[b] = writes', ![u].mtime = clock]
               /\ dueHeader' = [dueHeader EXCEPT ![d] = [uuid |-> u, mtime |-> clock]]
               /\ UNCHANGED orphan
          ELSE /\ orphan' = [orphan EXCEPT ![d][b] = writes']
               /\ UNCHANGED <<files, dueHeader>>
    /\ UNCHANGED <<floppyVars, inDrive, cacheVars, clock, uuids, crashes, failures>>

(* The error of the write to the file is returned only after the queue and *)
(* the header: the floppy gets a write that the emulator was told has      *)
(* failed, and that reading the file does not show.                        *)
cachedWriteFails(d, b) ==
    /\ CanOpenCached(d)
    /\ failures < MaxFailures
    /\ failures' = failures + 1
    /\ NextWrite
    /\ medium' = [medium EXCEPT ![d].handle = "adf"]
    /\ due' = [due EXCEPT ![d][b] = writes']
    /\ unstored' = [unstored EXCEPT ![inDrive[d]] = @ \union {b}]
    /\ LET u == medium[d].uuid
       IN dueHeader' = IF Exists(u)
                       THEN [dueHeader EXCEPT ![d] = [uuid |-> u, mtime |-> files[u].mtime]]
                       ELSE dueHeader
    /\ UNCHANGED <<floppyVars, inDrive, files, orphan, cacheVars, clock, uuids, crashes,
                   newest>>

(* The queue of the drive writes a sector (AsyncFileOps).                  *)
StoreDue(d, b) ==
    /\ due[d][b] # 0
    /\ inDrive[d] # NoFloppy
    /\ due' = [due EXCEPT ![d][b] = 0]
    /\ disk' = [disk EXCEPT ![inDrive[d]][b] = due[d][b]]
    /\ unstored' = IF due[d][b] = newest[inDrive[d]][b]
                   THEN [unstored EXCEPT ![inDrive[d]] = @ \ {b}]
                   ELSE unstored
    /\ UNCHANGED <<header, inDrive, files, medium, orphan, dueHeader, cacheVars, clock,
                   counterVars, newest>>

StoreDueHeader(d) ==
    /\ dueHeader[d] # NoHeader
    /\ inDrive[d] # NoFloppy
    /\ dueHeader' = [dueHeader EXCEPT ![d] = NoHeader]
    /\ header' = [header EXCEPT ![inDrive[d]] = dueHeader[d]]
    /\ UNCHANGED <<disk, inDrive, files, medium, orphan, due, cacheVars, clock,
                   counterVars, newest, unstored>>

(* The drive refuses a sector, or the queue loses it (AsyncFileOps): it is *)
(* not tried again.                                                        *)
DropDue(d, b) ==
    /\ due[d][b] # 0
    /\ failures < MaxFailures
    /\ failures' = failures + 1
    /\ due' = [due EXCEPT ![d][b] = 0]
    /\ UNCHANGED <<floppyVars, inDrive, files, medium, orphan, dueHeader, cacheVars, clock,
                   writes, uuids, crashes, newest, unstored>>

DropDueHeader(d) ==
    /\ dueHeader[d] # NoHeader
    /\ failures < MaxFailures
    /\ failures' = failures + 1
    /\ dueHeader' = [dueHeader EXCEPT ![d] = NoHeader]
    /\ UNCHANGED <<floppyVars, inDrive, files, medium, orphan, due, cacheVars, clock,
                   writes, uuids, crashes, newest, unstored>>

-----------------------------------------------------------------------------
(* floppyCacheAdf, called by realRead2 under the mutex of the medium once  *)
(* the whole floppy reads quickly.                                         *)

(* It reads the floppy and settles the UUID ...                            *)
CacheBegin(d) ==
    /\ Idle(d)
    /\ ~medium[d].cached
    /\ ~medium[d].disabled
    /\ IF medium[d].uuid = 0 THEN uuids < MaxUuids /\ uuids' = uuids + 1 ELSE UNCHANGED uuids
    /\ medium' = [medium EXCEPT
                    ![d].handle = "device",
                    ![d].uuid = IF medium[d].uuid = 0 THEN uuids' ELSE medium[d].uuid]
    /\ snap' = [snap EXCEPT ![d] = disk[inDrive[d]]]
    /\ Goto(d, "check")
    /\ UNCHANGED <<floppyVars, inDrive, files, orphan, queueVars, victim, clock, writes,
                   crashes, failures, newest, unstored>>

FullFiles == {u \in Uuids : files[u].full}

(* Mutant: a full directory takes one more file.                           *)
CheckQuotaOffByOne(d) ==
    /\ pc[d] = "check"
    /\ IF Cardinality(FullFiles) <= Quota
       THEN Goto(d, "write") /\ UNCHANGED victim
       ELSE /\ Goto(d, "evict")
            /\ \E u \in {v \in Uuids : Exists(v)} :
                  /\ \A v \in Uuids : Exists(v) => files[u].mtime <= files[v].mtime
                  /\ victim' = [victim EXCEPT ![d] = u]
    /\ UNCHANGED <<floppyVars, inDrive, files, medium, orphan, queueVars, snap, clock,
                   counterVars, newest, unstored>>

(* ... preCacheADFCallback compares the size of the directory with the     *)
(* quota and, above it, looks for the oldest file (GetDirOldestFile) ...   *)
CheckQuota(d) ==
    /\ pc[d] = "check"
    /\ IF Cardinality(FullFiles) < Quota
       THEN Goto(d, "write") /\ UNCHANGED victim
       ELSE /\ Goto(d, "evict")
            /\ \E u \in {v \in Uuids : Exists(v)} :
                  /\ \A v \in Uuids : Exists(v) => files[u].mtime <= files[v].mtime
                  /\ victim' = [victim EXCEPT ![d] = u]
    /\ UNCHANGED <<floppyVars, inDrive, files, medium, orphan, queueVars, snap, clock,
                   counterVars, newest, unstored>>

(* floppyCacheAdf returns an error: realRead2 disables caching.            *)
CacheFails(d) ==
    /\ Goto(d, "idle")
    /\ medium' = [medium EXCEPT ![d].disabled = TRUE]

(* ... and removes it, be it in use in another drive; a file that another  *)
(* drive has removed already is an error.                                  *)
Evict(d) ==
    /\ pc[d] = "evict"
    /\ LET u == victim[d]
       IN IF Exists(u)
          THEN /\ files' = [files EXCEPT ![u] = NoFile]
               /\ orphan' = [e \in Drives |->
                     IF medium[e].handle = "adf" /\ medium[e].uuid = u
                     THEN files[u].data ELSE orphan[e]]
               /\ Forget({f \in Floppies : header[f].uuid = u /\ ~Served(f)})
               /\ Goto(d, "write")
               /\ UNCHANGED medium
          ELSE CacheFails(d) /\ UNCHANGED <<files, orphan, newest, unstored>>
    /\ victim' = [victim EXCEPT ![d] = 0]
    /\ UNCHANGED <<floppyVars, inDrive, queueVars, snap, clock, counterVars>>

(* FileWriteBytes writes over what is there (no O_TRUNC): until it is done *)
(* some blocks are new and the others are what they were, and a new file   *)
(* is short.                                                               *)
WriteFileBegin(d) ==
    /\ pc[d] = "write"
    /\ \E done \in SUBSET Blocks \ {Blocks} :
          LET u == medium[d].uuid
          IN files' = [files EXCEPT
                ![u].data = [b \in Blocks |-> IF b \in done THEN snap[d][b] ELSE @[b]],
                ![u].mtime = clock]
    /\ Goto(d, "writing")
    /\ UNCHANGED <<floppyVars, inDrive, medium, orphan, queueVars, snap, victim, clock,
                   counterVars, newest, unstored>>

WriteFileEnd(d) ==
    /\ pc[d] = "writing"
    /\ IF Exists(medium[d].uuid)
       THEN files' = [files EXCEPT
                ![medium[d].uuid] = [full |-> TRUE, mtime |-> clock, data |-> snap[d]]]
       ELSE UNCHANGED files
    /\ Goto(d, "stat")
    /\ UNCHANGED <<floppyVars, inDrive, medium, orphan, queueVars, snap, victim, clock,
                   counterVars, newest, unstored>>

(* The write stops short, for example on a full file system.               *)
WriteFileFails(d) ==
    /\ pc[d] = "writing"
    /\ failures < MaxFailures
    /\ failures' = failures + 1
    /\ CacheFails(d)
    /\ UNCHANGED <<floppyVars, inDrive, files, orphan, queueVars, snap, victim, clock,
                   writes, uuids, crashes, newest, unstored>>

(* The rest of floppyCacheAdf: the time of the file goes to the header;    *)
(* without a file (removed by another drive) the call panics.              *)
CacheEnd(d) ==
    /\ pc[d] = "stat"
    /\ LET u == medium[d].uuid
       IN IF Exists(u)
          THEN /\ dueHeader' = [dueHeader EXCEPT
                                  ![d] = [uuid |-> u, mtime |-> files[u].mtime]]
               /\ medium' = [medium EXCEPT ![d].cached = TRUE, ![d].handle = "none"]
          ELSE UNCHANGED <<dueHeader, medium>>
    /\ Goto(d, "idle")
    /\ snap' = [snap EXCEPT ![d] = Blank]
    /\ UNCHANGED <<floppyVars, inDrive, files, orphan, due, victim, clock, counterVars, newest, unstored>>

-----------------------------------------------------------------------------
(* The process dies, or is stopped by gracefulShutdown, and starts again:  *)
(* what is due dies, and so do the media; floppies and files stay.  What   *)
(* only a file has is lost if the header on its floppy does not lead to it *)
(* at that moment.                                                         *)
Crash ==
    /\ crashes < MaxCrashes
    /\ crashes' = crashes + 1
    /\ medium' = [d \in Drives |-> NoMedium]
    /\ orphan' = [d \in Drives |-> Blank]
    /\ due' = [d \in Drives |-> Blank]
    /\ dueHeader' = [d \in Drives |-> NoHeader]
    /\ pc' = [d \in Drives |-> "idle"]
    /\ snap' = [d \in Drives |-> Blank]
    /\ victim' = [d \in Drives |-> 0]
    /\ Forget(Floppies \ Led)
    /\ UNCHANGED <<floppyVars, inDrive, files, clock, writes, uuids, failures>>

User ==
    \/ \E d \in Drives : Eject(d) \/ \E f \in Floppies : Insert(d, f)
    \/ \E f \in Floppies, b \in Blocks, how \in OtherHost : OtherHostWrites(f, b, how)
    \/ Tick

Poll == \E d \in Drives :
    \/ \E formatted, force \in BOOLEAN : Probe(d, formatted, force)
    \/ CloseMedium(d)

Driver == \E d \in Drives :
    \/ cachedRead(d)
    \/ \E b \in Blocks : realWrite(d, b) \/ cachedWrite(d, b) \/ cachedWriteFails(d, b)
    \/ CacheBegin(d) \/ CheckQuota(d) \/ Evict(d)
    \/ WriteFileBegin(d) \/ WriteFileEnd(d) \/ WriteFileFails(d) \/ CacheEnd(d)

Queue == \E d \in Drives :
    \/ \E b \in Blocks : StoreDue(d, b) \/ DropDue(d, b)
    \/ StoreDueHeader(d) \/ DropDueHeader(d)

Next == User \/ Poll \/ Driver \/ Queue \/ Crash

Spec == Init /\ [][Next]_vars

-----------------------------------------------------------------------------
Header == [uuid : 0..MaxUuids, mtime : 0..MaxTime]
File == [full : BOOLEAN, mtime : 0..MaxTime, data : Contents]
Medium == [present : BOOLEAN, uuid : 0..MaxUuids, cached : BOOLEAN, disabled : BOOLEAN,
           handle : {"none", "device", "adf"}]

(* Types; a medium is known only for a floppy the drive holds or held, and *)
(* only a medium that knows the UUID of its floppy is served from a file.  *)
TypeOK ==
    /\ disk \in [Floppies -> Contents]
    /\ header \in [Floppies -> Header]
    /\ inDrive \in [Drives -> Floppies \union {NoFloppy}]
    /\ files \in [Uuids -> File]
    /\ medium \in [Drives -> Medium]
    /\ orphan \in [Drives -> Contents]
    /\ due \in [Drives -> Contents]
    /\ dueHeader \in [Drives -> Header]
    /\ pc \in [Drives -> {"idle", "check", "evict", "write", "writing", "stat"}]
    /\ snap \in [Drives -> Contents]
    /\ victim \in [Drives -> 0..MaxUuids]
    /\ clock \in 1..MaxTime
    /\ newest \in [Floppies -> Contents]
    /\ unstored \in [Floppies -> SUBSET Blocks]
    /\ \A d \in Drives :
          /\ medium[d].cached => medium[d].present /\ medium[d].uuid # 0
          /\ medium[d].handle = "adf" => medium[d].cached

Caching(f) == \E d \in Drives : inDrive[d] = f /\ pc[d] # "idle"

(* Whatever was cached, evicted, written late or swapped before, the       *)
(* emulator reads from a floppy in a drive what was last written to it and *)
(* was not lost (CrashLosesOnlyUnstored): from the file, also through the  *)
(* handle of a removed one, or from the floppy.                            *)
ReadsNewest ==
    \A d \in Drives :
        LET f == inDrive[d]
        IN medium[d].present /\ f # NoFloppy =>
              IF medium[d].cached
              THEN medium[d].handle = "adf" \/ Exists(medium[d].uuid)
                      => CachedData(d) = newest[f]
              ELSE disk[f] = newest[f]

(* What the next Probe would make of floppy f.                             *)
Seen(f) == IF decodeCachedADFHeader(header[f]) THEN files[header[f].uuid].data ELSE disk[f]

(* What a crash costs, at every moment, also between the steps of          *)
(* floppyCacheAdf.  Put in again, a floppy whose header leads to the file  *)
(* shows its newest contents, with writes due or not.  Another one, as     *)
(* every floppy until its first header is written, once the drive is left  *)
(* alone, has lost the blocks whose newest write had not reached it, which *)
(* the emulator was told are written, but no other block: Crash lets       *)
(* newest forget those.  So they are lost too if the floppy is taken out   *)
(* with no such header, as the drive refused it, or if the file that was   *)
(* to stand in for them after a crash or a refused write is removed.       *)
CrashLosesOnlyUnstored ==
    \A f \in Floppies, b \in Blocks :
        decodeCachedADFHeader(header[f]) \/ b \notin unstored[f] => Seen(f)[b] = newest[f][b]

(* The check of the quota and the new file are separate steps, but caching *)
(* in all drives at once exceeds the quota by one file per other drive, as *)
(* long as no write of a file stops short: checkQuota may then remove the  *)
(* short file, which is the oldest, and free nothing.                      *)
QuotaKept == Cardinality(FullFiles) <= Quota + Cardinality(Drives) - 1

(* "cached ADF is older than physical medium / we will re-cache it later"  *)
(* (decodeCachedADFHeader): a file that Probe takes for properly cached    *)
(* has no block older than the floppy.                                     *)
AcceptedNotOlder ==
    \A f \in Floppies :
        decodeCachedADFHeader(header[f]) /\ ~Caching(f) =>
            \A b \in Blocks : files[header[f].uuid].data[b] >= disk[f][b]
=============================================================================
