-------------------------- MODULE FloppyCacheProofs --------------------------
(***************************************************************************)
(* That what the emulator reads from a floppy is what was last written to  *)
(* it, that a crash at any step loses only what had not reached a floppy   *)
(* without a header, and that the quota holds, for any drives, floppies,   *)
(* blocks and bounds.                                                      *)
(*                                                                         *)
(* The argument.  A drive, its floppy and its file belong together: a      *)
(* UUID is given to one floppy and a floppy is in one drive, so that a     *)
(* step of one drive leaves the newest contents of the others where they   *)
(* are (SInv, OthersKept).  Where they are depends on the drive: in the    *)
(* file of a cached medium, or in the removed file it has open, with every *)
(* block that the floppy lacks due or dropped (CachedAt); on the floppy otherwise,    *)
(* with no acceptable file beside it but the one just written              *)
(* (UncachedAt); and with a floppy outside, where the next Probe will look *)
(* (LooseAt).  That Probe looks at times only is enough because a header   *)
(* is never later than the file, and another host's header is later than   *)
(* every file here (TimesOK).                                              *)
(*                                                                         *)
(* The quota: full files and drives that are about to complete one,        *)
(* counted together, exceed the quota by at most the other drives, since   *)
(* a drive goes on to write only below the quota or after it has removed   *)
(* the oldest file, which is full or else being written by a drive that    *)
(* is counted (QInv).                                                      *)
(***************************************************************************)
EXTENDS FloppyCache, FiniteSetTheorems, TLAPS

(* TypeOK and the types of the counters.                                   *)
Types ==
    /\ TypeOK
    /\ writes \in 0..MaxWrites /\ uuids \in 0..MaxUuids
    /\ crashes \in Nat /\ failures \in Nat
(* The driver knows the floppy in d.                                       *)
Serves(d) == medium[d].present /\ inDrive[d] # NoFloppy
(* Only a drive that serves a floppy has something under way; a cache is   *)
(* begun with a UUID, and evicts a file that was found.                    *)
BusyOK ==
    \A d \in Drives :
         /\ ~Serves(d) => Quiet(d)
         /\ pc[d] # "idle" => medium[d].uuid # 0
         /\ pc[d] = "evict" => victim[d] # 0
TInv == Types /\ BusyOK

LEMMA Values ==
  /\ Blank \in Contents /\ NoFile \in File /\ NoHeader \in Header /\ NoMedium \in Medium
  <1>1. Blank \in Contents
    BY ConstantsAssumption DEF Blank, Contents
  <1> QED  BY <1>1, ConstantsAssumption DEF NoFile, File, NoHeader, Header, NoMedium, Medium

LEMMA Bounds ==
  /\ MaxWrites \in Nat /\ MaxUuids \in Nat /\ MaxTime \in Nat /\ MaxTime # 0
  /\ 0 \in 0..MaxWrites /\ 1..MaxWrites \subseteq 0..MaxWrites
  /\ Uuids = 0..MaxUuids \ {0} /\ 1..MaxTime \subseteq 0..MaxTime
  /\ BootBlock \in Blocks /\ NoFloppy \notin Floppies
  BY ConstantsAssumption DEF Uuids

LEMMA EditContents ==
  ASSUME NEW S, NEW g \in [S -> Contents], NEW s \in S, NEW b \in Blocks, NEW w \in 0..MaxWrites
  PROVE  [g EXCEPT ![s][b] = w] \in [S -> Contents]
  BY DEF Contents

(* The number of a new write is one.                                       *)
LEMMA NextWriteTypes ==
  ASSUME Types, NextWrite
  PROVE  writes' \in 1..MaxWrites /\ writes' \in 0..MaxWrites
  BY ConstantsAssumption DEF NextWrite, Types

LEMMA NewWriteTypes ==
  ASSUME Types, NEW f \in Floppies, NEW b \in Blocks, NewWrite(f, b)
  PROVE  /\ writes' \in 1..MaxWrites /\ writes' \in 0..MaxWrites
         /\ newest' \in [Floppies -> Contents]
  <1>1. writes' \in 1..MaxWrites
    BY NextWriteTypes DEF NewWrite
  <1>2. newest' = [newest EXCEPT ![f][b] = writes']
    BY DEF NewWrite
  <1>3. newest \in [Floppies -> Contents] /\ writes' \in 0..MaxWrites
    BY <1>1, ConstantsAssumption DEF Types, TypeOK
  <1> QED  BY <1>1, <1>2, <1>3, EditContents

(* What remains of a floppy whose file is lost is contents.                *)
LEMMA RemainsTypes ==
  ASSUME Types, NEW f \in Floppies
  PROVE  Remains(f) \in Contents
  BY DEF Remains, Types, TypeOK, Contents

(* Forgetting writes keeps the types of what remains.                      *)
LEMMA ForgetTypes ==
  ASSUME Types, NEW S, Forget(S)
  PROVE  newest' \in [Floppies -> Contents] /\ unstored' \in [Floppies -> SUBSET Blocks]
  <1>1. newest' \in [Floppies -> Contents]
    BY RemainsTypes DEF Forget, Types, TypeOK
  <1>2. unstored' \in [Floppies -> SUBSET Blocks]
    BY DEF Forget, Types, TypeOK
  <1> QED BY <1>1, <1>2

LEMMA TypeFacts ==
  ASSUME Types, NEW d \in Drives
  PROVE  /\ inDrive[d] # NoFloppy => inDrive[d] \in Floppies
         /\ \A f \in Floppies : disk[f] \in Contents /\ header[f] \in Header
         /\ \A u \in Uuids : files[u] \in File /\ files[u].data \in Contents
         /\ medium[d] \in Medium /\ snap[d] \in Contents /\ orphan[d] \in Contents
         /\ due[d] \in Contents /\ dueHeader[d] \in Header
  BY DEF Types, TypeOK, File

(* Every step keeps the types.                                             *)
LEMMA TypesStep == TInv /\ [Next]_vars => TInv'
  <1> SUFFICES ASSUME TInv, [Next]_vars PROVE TInv'  OBVIOUS
  <1> USE DEF TInv, floppyVars, cacheVars, queueVars, counterVars
  <1>1. ASSUME NEW d \in Drives, Eject(d) PROVE TInv'
    <2>1. BusyOK'
      BY <1>1 DEF Eject, BusyOK, Serves, Quiet, Types, TypeOK
    <2> QED BY <1>1, <2>1, ForgetTypes DEF Eject, Types, TypeOK
  <1>2. ASSUME NEW d \in Drives, NEW f \in Floppies, Insert(d, f) PROVE TInv'
    <2>1. BusyOK'
      BY <1>2, ConstantsAssumption DEF Insert, BusyOK, Serves, Quiet, Types, TypeOK
    <2> QED BY <1>2, <2>1 DEF Insert, Types, TypeOK
  <1>3. ASSUME NEW f \in Floppies, NEW b \in Blocks, NEW how \in OtherHost, OtherHostWrites(f, b, how)
        PROVE  TInv'
    <2>1. writes' \in 0..MaxWrites /\ newest' \in [Floppies -> Contents]
      BY <1>3, NewWriteTypes, ConstantsAssumption DEF OtherHostWrites
    <2>2. disk' \in [Floppies -> Contents]
      BY <1>3, <2>1, EditContents DEF OtherHostWrites, Types, TypeOK
    <2>3. clock' \in 1..MaxTime
      BY <1>3, ConstantsAssumption DEF OtherHostWrites, Types, TypeOK
    <2>4. header' \in [Floppies -> Header]
      BY <1>3, <2>3, ConstantsAssumption DEF OtherHostWrites, Types, TypeOK, Header
    <2>5. BusyOK'
      BY <1>3 DEF OtherHostWrites, BusyOK, Serves, Quiet
    <2> QED BY <1>3, <2>1, <2>2, <2>3, <2>4, <2>5 DEF OtherHostWrites, NewWrite, Types, TypeOK
  <1>4. ASSUME Tick PROVE TInv'
    <2>1. clock' \in 1..MaxTime
      BY <1>4, ConstantsAssumption DEF Tick, Types, TypeOK
    <2>2. BusyOK'
      BY <1>4 DEF Tick, BusyOK, Serves, Quiet
    <2> QED BY <1>4, <2>1, <2>2 DEF Tick, Types, TypeOK
  <1>5. ASSUME NEW d \in Drives, NEW formatted \in BOOLEAN, NEW force \in BOOLEAN,
               Probe(d, formatted, force)
        PROVE  TInv'
    <2> DEFINE f == inDrive[d]
               u == header[f].uuid
               accepted == decodeCachedADFHeader(header[f])
               removed == accepted /\ (formatted \/ force)
               m == [NoMedium EXCEPT !.present = TRUE, !.uuid = u, !.cached = accepted /\ ~removed]
    <2>1. f \in Floppies /\ header[f] \in Header /\ u \in 0..MaxUuids
      BY <1>5, TypeFacts DEF Probe, Header
    <2>2. writes' \in 0..MaxWrites /\ newest' \in [Floppies -> Contents] /\ disk' \in [Floppies -> Contents]
      <3> DEFINE kept == IF removed THEN Remains(f) ELSE newest[f]
      <3>0. kept \in Contents /\ disk \in [Floppies -> Contents] /\ newest \in [Floppies -> Contents]
        BY <2>1, RemainsTypes DEF Types, TypeOK
      <3>1. formatted => /\ NextWrite /\ disk' = [disk EXCEPT ![f][BootBlock] = writes']
                         /\ newest' = [newest EXCEPT ![f] = [kept EXCEPT ![BootBlock] = writes']]
        BY <1>5 DEF Probe
      <3>2. ~formatted => UNCHANGED <<disk, writes>> /\ newest' = [newest EXCEPT ![f] = kept]
        BY <1>5 DEF Probe
      <3> HIDE DEF kept
      <3>3. CASE formatted
        <4>1. writes' \in 0..MaxWrites
          BY <3>1, <3>3, NextWriteTypes
        <4>2. [kept EXCEPT ![BootBlock] = writes'] \in Contents
          BY <3>0, <4>1, Bounds DEF Contents
        <4>3. disk' \in [Floppies -> Contents]
          BY <2>1, <3>0, <3>1, <3>3, <4>1, EditContents, Bounds
        <4> QED BY <2>1, <3>0, <3>1, <3>3, <4>1, <4>2, <4>3
      <3>4. CASE ~formatted
        BY <3>0, <3>2, <3>4 DEF Types, TypeOK
      <3> QED BY <3>3, <3>4
    <2>3. files' \in [Uuids -> File]
      BY <1>5, Values DEF Probe, Types, TypeOK
    <2>4. unstored' \in [Floppies -> SUBSET Blocks]
      BY <1>5 DEF Probe, Types, TypeOK
    <2>5. accepted => u # 0
      BY DEF decodeCachedADFHeader
    <2>6. medium' = [medium EXCEPT ![d] = m]
      BY <1>5 DEF Probe
    <2>7. /\ m \in Medium /\ m.present /\ (m.cached => m.uuid # 0) /\ m.handle # "adf"
      BY <2>1, <2>5, ConstantsAssumption DEF Medium, NoMedium
    <2> HIDE DEF m
    <2>8. medium' \in [Drives -> Medium]
      BY <2>6, <2>7 DEF Types, TypeOK
    <2>9. \A e \in Drives : /\ medium'[e].cached => medium'[e].present /\ medium'[e].uuid # 0
                            /\ medium'[e].handle = "adf" => medium'[e].cached
      BY <2>6, <2>7 DEF Types, TypeOK
    <2>10. ~medium[d].present /\ UNCHANGED <<inDrive, due, dueHeader, pc, victim>>
      BY <1>5 DEF Probe
    <2>11. BusyOK'
      BY <2>6, <2>10 DEF BusyOK, Serves, Quiet, Types, TypeOK
    <2>12. UNCHANGED <<header, inDrive, orphan, due, dueHeader, pc, snap, victim, clock, uuids, crashes, failures>>
      BY <1>5 DEF Probe
    <2> QED BY <2>2, <2>3, <2>4, <2>8, <2>9, <2>11, <2>12 DEF Types, TypeOK
  <1>6. ASSUME NEW d \in Drives, CloseMedium(d) PROVE TInv'
    <2>1. medium' \in [Drives -> Medium] /\ orphan' \in [Drives -> Contents]
      BY <1>6, Values DEF CloseMedium, Types, TypeOK
    <2>2. medium' = [medium EXCEPT ![d] = NoMedium] /\ UNCHANGED <<inDrive, due, dueHeader, pc, victim>>
      BY <1>6 DEF CloseMedium
    <2>3. BusyOK'
      BY <1>6, <2>2 DEF CloseMedium, BusyOK, Serves, Quiet, Types, TypeOK
    <2>4. \A e \in Drives : /\ medium'[e].cached => medium'[e].present /\ medium'[e].uuid # 0
                            /\ medium'[e].handle = "adf" => medium'[e].cached
      BY <2>2 DEF NoMedium, Types, TypeOK
    <2> QED BY <1>6, <2>1, <2>3, <2>4 DEF CloseMedium, Types, TypeOK
  <1>7. ASSUME NEW d \in Drives, cachedRead(d) PROVE TInv'
    <2>1. medium[d].cached /\ medium' = [medium EXCEPT ![d].handle = "adf"]
      BY <1>7 DEF cachedRead, CanOpenCached
    <2>2. medium' \in [Drives -> Medium] /\ medium \in [Drives -> Medium]
      BY <2>1 DEF Types, TypeOK, Medium
    <2>3. \A e \in Drives : /\ \A x \in {"present", "uuid", "cached"} : medium'[e][x] = medium[e][x]
                            /\ medium'[e].handle = "adf" => e = d \/ medium[e].handle = "adf"
      BY <2>1, <2>2 DEF Medium
    <2> QED BY <1>7, <2>1, <2>2, <2>3 DEF cachedRead, BusyOK, Serves, Quiet, Types, TypeOK
  <1>8. ASSUME NEW d \in Drives, NEW b \in Blocks, realWrite(d, b) PROVE TInv'
    <2>1. inDrive[d] \in Floppies
      BY <1>8, TypeFacts DEF realWrite, Idle
    <2>2. writes' \in 0..MaxWrites /\ newest' \in [Floppies -> Contents]
      BY <1>8, <2>1, NewWriteTypes DEF realWrite
    <2>3. disk' \in [Floppies -> Contents]
      BY <1>8, <2>1, <2>2, EditContents DEF realWrite, Types, TypeOK
    <2>4. medium' = [medium EXCEPT ![d].handle = "device"] /\ medium \in [Drives -> Medium]
      BY <1>8 DEF realWrite, Types, TypeOK
    <2>5. /\ medium' \in [Drives -> Medium]
          /\ \A e \in Drives : /\ medium'[e].present = medium[e].present
                               /\ medium'[e].uuid = medium[e].uuid
                               /\ medium'[e].cached = medium[e].cached
                               /\ medium'[e].handle \in {medium[e].handle, "device"}
      BY <2>4 DEF Medium
    <2> QED BY <1>8, <2>2, <2>3, <2>5 DEF realWrite, BusyOK, Serves, Quiet, Types, TypeOK
  <1>9. ASSUME NEW d \in Drives, NEW b \in Blocks, cachedWrite(d, b) PROVE TInv'
    <2> DEFINE u == medium[d].uuid
    <2>1. inDrive[d] \in Floppies /\ medium[d].cached
      BY <1>9, TypeFacts DEF cachedWrite, CanOpenCached, Idle
    <2>2. u \in Uuids
      BY <2>1, TypeFacts DEF Types, TypeOK, Medium, Uuids
    <2>3. writes' \in 0..MaxWrites /\ newest' \in [Floppies -> Contents]
      BY <1>9, <2>1, NewWriteTypes DEF cachedWrite
    <2>4. due' \in [Drives -> Contents]
      BY <1>9, <2>3, EditContents DEF cachedWrite, Types, TypeOK
    <2>5. files' \in [Uuids -> File]
      <3>1. CASE Exists(u)
        <4>1. files' = [files EXCEPT ![u].data[b] = writes', ![u].mtime = clock]
          BY <1>9, <3>1 DEF cachedWrite
        <4>2. files \in [Uuids -> File] /\ clock \in 0..MaxTime
          BY Bounds DEF Types, TypeOK
        <4> DEFINE g == [files[u] EXCEPT !.data[b] = writes', !.mtime = clock]
        <4>3. g \in File
          BY <2>2, <2>3, <4>2 DEF File, Contents
        <4>4. files' = [files EXCEPT ![u] = g]
          BY <2>2, <4>1, <4>2
        <4> HIDE DEF g
        <4> QED BY <4>2, <4>3, <4>4
      <3>2. CASE ~Exists(u)
        BY <1>9, <3>2 DEF cachedWrite, Types, TypeOK
      <3> QED BY <3>1, <3>2
    <2>6. dueHeader' \in [Drives -> Header]
      <3>1. [uuid |-> u, mtime |-> clock] \in Header
        BY <2>2, Bounds DEF Header, Types, TypeOK
      <3> QED BY <1>9, <3>1 DEF cachedWrite, Types, TypeOK
    <2>7. orphan' \in [Drives -> Contents]
      <3>1. orphan' = orphan \/ orphan' = [orphan EXCEPT ![d][b] = writes']
        BY <1>9 DEF cachedWrite
      <3>2. orphan \in [Drives -> Contents]
        BY DEF Types, TypeOK
      <3> QED BY <2>3, <3>1, <3>2, EditContents
    <2>8. medium' = [medium EXCEPT ![d].handle = "adf"] /\ medium \in [Drives -> Medium]
      BY <1>9 DEF cachedWrite, Types, TypeOK
    <2>9. /\ medium' \in [Drives -> Medium]
          /\ \A e \in Drives : /\ medium'[e].present = medium[e].present
                               /\ medium'[e].uuid = medium[e].uuid
                               /\ medium'[e].cached = medium[e].cached
                               /\ medium'[e].handle = "adf" => e = d \/ medium[e].handle = "adf"
      BY <2>8 DEF Medium
    <2>10. /\ UNCHANGED <<inDrive, pc, victim>> /\ Serves(d)
           /\ \A e \in Drives \ {d} : due'[e] = due[e] /\ dueHeader'[e] = dueHeader[e]
      BY <1>9 DEF cachedWrite, CanOpenCached, Idle, Serves, Types, TypeOK
    <2>11. BusyOK'
      BY <2>9, <2>10 DEF BusyOK, Serves, Quiet
    <2>12. \A e \in Drives : /\ medium'[e].cached => medium'[e].present /\ medium'[e].uuid # 0
                             /\ medium'[e].handle = "adf" => medium'[e].cached
      BY <2>1, <2>9 DEF Types, TypeOK
    <2>13. unstored' \in [Floppies -> SUBSET Blocks]
      BY <1>9, <2>1 DEF cachedWrite, Types, TypeOK
    <2> QED BY <1>9, <2>3, <2>4, <2>5, <2>6, <2>7, <2>9, <2>11, <2>12, <2>13 DEF cachedWrite, Types, TypeOK
  <1>9a. ASSUME NEW d \in Drives, NEW b \in Blocks, cachedWriteFails(d, b) PROVE TInv'
    <2> DEFINE u == medium[d].uuid
    <2>1. inDrive[d] \in Floppies /\ medium[d].cached
      BY <1>9a, TypeFacts DEF cachedWriteFails, CanOpenCached, Idle
    <2>2. u \in Uuids
      BY <2>1, TypeFacts DEF Types, TypeOK, Medium, Uuids
    <2>3. writes' \in 0..MaxWrites /\ failures' \in Nat
      BY <1>9a, NextWriteTypes DEF cachedWriteFails, Types
    <2>4. due' \in [Drives -> Contents]
      BY <1>9a, <2>3, EditContents DEF cachedWriteFails, Types, TypeOK
    <2>5. dueHeader' \in [Drives -> Header]
      <3>1. [uuid |-> u, mtime |-> files[u].mtime] \in Header
        BY <2>2, TypeFacts, Bounds DEF Header, File
      <3> QED BY <1>9a, <3>1 DEF cachedWriteFails, Types, TypeOK
    <2>6. medium' = [medium EXCEPT ![d].handle = "adf"] /\ medium \in [Drives -> Medium]
      BY <1>9a DEF cachedWriteFails, Types, TypeOK
    <2>7. /\ medium' \in [Drives -> Medium]
          /\ \A e \in Drives : /\ medium'[e].present = medium[e].present
                               /\ medium'[e].uuid = medium[e].uuid
                               /\ medium'[e].cached = medium[e].cached
                               /\ medium'[e].handle = "adf" => e = d \/ medium[e].handle = "adf"
      BY <2>6 DEF Medium
    <2>8. /\ UNCHANGED <<inDrive, pc, victim>> /\ Serves(d)
          /\ \A e \in Drives \ {d} : due'[e] = due[e] /\ dueHeader'[e] = dueHeader[e]
      BY <1>9a DEF cachedWriteFails, CanOpenCached, Idle, Serves, Types, TypeOK
    <2>9. BusyOK'
      BY <2>7, <2>8 DEF BusyOK, Serves, Quiet
    <2>10. \A e \in Drives : /\ medium'[e].cached => medium'[e].present /\ medium'[e].uuid # 0
                             /\ medium'[e].handle = "adf" => medium'[e].cached
      BY <2>1, <2>7 DEF Types, TypeOK
    <2>11. unstored' \in [Floppies -> SUBSET Blocks]
      BY <1>9a, <2>1 DEF cachedWriteFails, Types, TypeOK
    <2> QED BY <1>9a, <2>3, <2>4, <2>5, <2>7, <2>9, <2>10, <2>11 DEF cachedWriteFails, Types, TypeOK
  <1>10. ASSUME NEW d \in Drives, CacheBegin(d) PROVE TInv'
    <2>1. uuids' \in 0..MaxUuids /\ (medium[d].uuid = 0 => uuids' # 0)
      BY <1>10, ConstantsAssumption DEF CacheBegin, Types
    <2>2. /\ medium' = [medium EXCEPT ![d].handle = "device",
                         ![d].uuid = IF medium[d].uuid = 0 THEN uuids' ELSE medium[d].uuid]
          /\ medium \in [Drives -> Medium]
      BY <1>10 DEF CacheBegin, Types, TypeOK
    <2>3. medium' \in [Drives -> Medium]
      BY <2>1, <2>2 DEF Medium
    <2>4. \A e \in Drives : /\ medium'[e].present = medium[e].present
                            /\ medium'[e].cached = medium[e].cached
                            /\ medium[e].uuid # 0 \/ e = d => medium'[e].uuid # 0
                            /\ medium'[e].handle \in {medium[e].handle, "device"}
      BY <2>1, <2>2 DEF Medium
    <2>5. inDrive[d] \in Floppies /\ Serves(d)
      BY <1>10, TypeFacts DEF CacheBegin, Idle, Serves
    <2>6. snap' \in [Drives -> Contents]
      BY <1>10, <2>5, TypeFacts DEF CacheBegin, Types, TypeOK
    <2>7. pc' = [pc EXCEPT ![d] = "check"]
      BY <1>10 DEF CacheBegin, Goto
    <2>8. BusyOK'
      BY <1>10, <2>4, <2>5, <2>7 DEF CacheBegin, BusyOK, Serves, Quiet, Types, TypeOK
    <2> QED BY <1>10, <2>1, <2>3, <2>4, <2>6, <2>7, <2>8 DEF CacheBegin, Types, TypeOK
  <1>11. ASSUME NEW d \in Drives, CheckQuota(d) PROVE TInv'
    <2>1. \/ Goto(d, "write") /\ UNCHANGED victim
          \/ Goto(d, "evict") /\ \E u \in Uuids : victim' = [victim EXCEPT ![d] = u]
      BY <1>11 DEF CheckQuota
    <2>2. CASE Goto(d, "write") /\ UNCHANGED victim
      BY <1>11, <2>2 DEF CheckQuota, Goto, BusyOK, Serves, Quiet, Types, TypeOK
    <2>3. ASSUME Goto(d, "evict"), NEW u \in Uuids, victim' = [victim EXCEPT ![d] = u] PROVE TInv'
      <3>1. u \in 0..MaxUuids /\ u # 0
        BY DEF Uuids
      <3>2. BusyOK'
        BY <1>11, <2>3, <3>1 DEF CheckQuota, Goto, BusyOK, Serves, Quiet, Types, TypeOK
      <3> QED BY <1>11, <2>3, <3>1, <3>2 DEF CheckQuota, Goto, Types, TypeOK
    <2> QED BY <2>1, <2>2, <2>3
  <1>12. ASSUME NEW d \in Drives, Evict(d) PROVE TInv'
    <2>1. victim' = [victim EXCEPT ![d] = 0] /\ victim' \in [Drives -> 0..MaxUuids]
      BY <1>12, ConstantsAssumption DEF Evict, Types, TypeOK
    <2>2. CASE Exists(victim[d])
      <3>1. victim[d] \in Uuids /\ files[victim[d]].data \in Contents
        BY <1>12, TypeFacts, ConstantsAssumption DEF Evict, BusyOK, Types, TypeOK, Uuids
      <3>2. files' \in [Uuids -> File]
        BY <1>12, <2>2, Values DEF Evict, Types, TypeOK
      <3>3. orphan' \in [Drives -> Contents]
        BY <1>12, <2>2, <3>1 DEF Evict, Types, TypeOK
      <3>4. newest' \in [Floppies -> Contents] /\ unstored' \in [Floppies -> SUBSET Blocks]
        BY <1>12, <2>2, ForgetTypes DEF Evict
      <3>5. pc' = [pc EXCEPT ![d] = "write"] /\ UNCHANGED <<medium, inDrive>>
        BY <1>12, <2>2 DEF Evict, Goto
      <3>6. BusyOK'
        BY <1>12, <2>1, <3>5 DEF Evict, BusyOK, Serves, Quiet, Types, TypeOK
      <3> QED BY <1>12, <2>1, <3>2, <3>3, <3>4, <3>5, <3>6 DEF Evict, Types, TypeOK
    <2>3. CASE ~Exists(victim[d])
      <3>1. pc' = [pc EXCEPT ![d] = "idle"] /\ medium' = [medium EXCEPT ![d].disabled = TRUE]
        BY <1>12, <2>3 DEF Evict, CacheFails, Goto
      <3>2. /\ medium' \in [Drives -> Medium]
            /\ \A e \in Drives : /\ medium'[e].present = medium[e].present
                                 /\ medium'[e].cached = medium[e].cached
                                 /\ medium'[e].uuid = medium[e].uuid
                                 /\ medium'[e].handle = medium[e].handle
        BY <3>1 DEF Medium, Types, TypeOK
      <3>3. BusyOK'
        BY <1>12, <2>1, <3>1, <3>2 DEF Evict, BusyOK, Serves, Quiet, Types, TypeOK
      <3> QED BY <1>12, <2>1, <2>3, <3>1, <3>2, <3>3 DEF Evict, Types, TypeOK
    <2> QED BY <2>2, <2>3
  <1>13. ASSUME NEW d \in Drives, WriteFileBegin(d) PROVE TInv'
    <2>1. PICK done \in SUBSET Blocks \ {Blocks} :
             LET u == medium[d].uuid
             IN files' = [files EXCEPT
                   ![u].data = [b \in Blocks |-> IF b \in done THEN snap[d][b] ELSE @[b]],
                   ![u].mtime = clock]
      BY <1>13 DEF WriteFileBegin
    <2>2. snap[d] \in Contents /\ clock \in 0..MaxTime
      BY TypeFacts, Bounds DEF Types, TypeOK
    <2>3. files' \in [Uuids -> File]
      <3> DEFINE u == medium[d].uuid
                 g == [files[u] EXCEPT
                        !.data = [b \in Blocks |-> IF b \in done THEN snap[d][b] ELSE @[b]],
                        !.mtime = clock]
      <3>1. files \in [Uuids -> File]
        BY DEF Types, TypeOK
      <3>2. files' = [files EXCEPT ![u] = g]
        BY <2>1, <3>1
      <3>3. ASSUME u \in Uuids PROVE g \in File
        <4>1. [b \in Blocks |-> IF b \in done THEN snap[d][b] ELSE files[u].data[b]] \in Contents
          BY <2>2, <3>1, <3>3 DEF File, Contents
        <4> HIDE DEF u
        <4> QED BY <2>2, <3>1, <3>3, <4>1 DEF File
      <3> HIDE DEF u, g
      <3> QED BY <3>1, <3>2, <3>3
    <2>4. BusyOK'
      BY <1>13 DEF WriteFileBegin, Goto, BusyOK, Serves, Quiet, Types, TypeOK
    <2> QED BY <1>13, <2>3, <2>4 DEF WriteFileBegin, Goto, Types, TypeOK
  <1>14. ASSUME NEW d \in Drives, WriteFileEnd(d) PROVE TInv'
    <2>1. [full |-> TRUE, mtime |-> clock, data |-> snap[d]] \in File
      BY TypeFacts, ConstantsAssumption DEF Types, TypeOK, File
    <2>2. files' \in [Uuids -> File]
      BY <1>14, <2>1 DEF WriteFileEnd, Types, TypeOK
    <2>3. BusyOK'
      BY <1>14 DEF WriteFileEnd, Goto, BusyOK, Serves, Quiet, Types, TypeOK
    <2> QED BY <1>14, <2>2, <2>3 DEF WriteFileEnd, Goto, Types, TypeOK
  <1>15. ASSUME NEW d \in Drives, WriteFileFails(d) PROVE TInv'
    <2>1. pc' = [pc EXCEPT ![d] = "idle"] /\ medium' = [medium EXCEPT ![d].disabled = TRUE]
      BY <1>15 DEF WriteFileFails, CacheFails, Goto
    <2>2. /\ medium' \in [Drives -> Medium]
          /\ \A e \in Drives : /\ medium'[e].present = medium[e].present
                               /\ medium'[e].cached = medium[e].cached
                               /\ medium'[e].uuid = medium[e].uuid
                               /\ medium'[e].handle = medium[e].handle
      BY <2>1 DEF Medium, Types, TypeOK
    <2>3. BusyOK'
      BY <1>15, <2>1, <2>2 DEF WriteFileFails, BusyOK, Serves, Quiet, Types, TypeOK
    <2> QED BY <1>15, <2>1, <2>2, <2>3 DEF WriteFileFails, Types, TypeOK
  <1>16. ASSUME NEW d \in Drives, CacheEnd(d) PROVE TInv'
    <2>1. Serves(d) /\ medium[d].uuid \in Uuids /\ medium[d].uuid # 0
      BY <1>16, TypeFacts, Bounds DEF CacheEnd, BusyOK, Quiet, Medium
    <2>2. dueHeader' \in [Drives -> Header]
      <3>1. [uuid |-> medium[d].uuid, mtime |-> files[medium[d].uuid].mtime] \in Header
        BY <2>1, TypeFacts, Bounds DEF Header, File
      <3> QED BY <1>16, <3>1 DEF CacheEnd, Types, TypeOK
    <2>3. /\ medium \in [Drives -> Medium]
          /\ \/ medium' = [medium EXCEPT ![d].cached = TRUE, ![d].handle = "none"]
             \/ medium' = medium
      BY <1>16 DEF CacheEnd, Types, TypeOK
    <2>4. /\ medium' \in [Drives -> Medium]
          /\ \A e \in Drives : /\ medium'[e].present = medium[e].present
                               /\ medium'[e].uuid = medium[e].uuid
                               /\ medium'[e].cached /\ ~medium[e].cached => e = d
                               /\ medium[e].cached => medium'[e].cached
                               /\ medium'[e].handle \in {medium[e].handle, "none"}
      <3>1. CASE medium' = medium
        BY <2>3, <3>1
      <3>2. CASE medium' = [medium EXCEPT ![d].cached = TRUE, ![d].handle = "none"]
        BY <2>3, <3>2 DEF Medium
      <3> QED BY <2>3, <3>1, <3>2
    <2>5. snap' \in [Drives -> Contents]
      BY <1>16, Values DEF CacheEnd, Types, TypeOK
    <2>6. pc' = [pc EXCEPT ![d] = "idle"]
      BY <1>16 DEF CacheEnd, Goto
    <2>7. \A e \in Drives : /\ medium'[e].cached => medium'[e].present /\ medium'[e].uuid # 0
                            /\ medium'[e].handle = "adf" => medium'[e].cached
      BY <2>1, <2>4 DEF Serves, Types, TypeOK
    <2>8. BusyOK'
      BY <1>16, <2>4, <2>6 DEF CacheEnd, BusyOK, Serves, Quiet, Types, TypeOK
    <2> QED BY <1>16, <2>2, <2>4, <2>5, <2>6, <2>7, <2>8 DEF CacheEnd, Types, TypeOK
  <1>17. ASSUME NEW d \in Drives, NEW b \in Blocks, StoreDue(d, b) PROVE TInv'
    <2>1. inDrive[d] \in Floppies /\ due[d][b] \in 0..MaxWrites
      BY <1>17, TypeFacts DEF StoreDue, Contents
    <2>2. disk' \in [Floppies -> Contents] /\ due' \in [Drives -> Contents]
      BY <1>17, <2>1, EditContents, Bounds DEF StoreDue, Types, TypeOK
    <2>3. Serves(d)
      BY <1>17 DEF StoreDue, BusyOK, Quiet, Blank
    <2>4. BusyOK'
      BY <1>17, <2>3 DEF StoreDue, BusyOK, Serves, Quiet, Types, TypeOK
    <2>5. unstored' \in [Floppies -> SUBSET Blocks]
      BY <1>17, <2>1 DEF StoreDue, Types, TypeOK
    <2> QED BY <1>17, <2>2, <2>4, <2>5 DEF StoreDue, Types, TypeOK
  <1>17a. ASSUME NEW d \in Drives, NEW b \in Blocks, DropDue(d, b) PROVE TInv'
    <2>1. due' \in [Drives -> Contents] /\ failures' \in Nat
      <3>1. due' = [due EXCEPT ![d][b] = 0] /\ failures' = failures + 1
        BY <1>17a DEF DropDue
      <3>2. due \in [Drives -> Contents] /\ failures \in Nat
        BY DEF Types, TypeOK
      <3>3. due' \in [Drives -> Contents]
        BY <3>1, <3>2, EditContents, Bounds
      <3>4. failures' \in Nat
        BY <3>1, <3>2
      <3> QED BY <3>3, <3>4
    <2>2. Serves(d)
      BY <1>17a DEF DropDue, BusyOK, Quiet, Blank
    <2>3. BusyOK'
      BY <1>17a, <2>2 DEF DropDue, BusyOK, Serves, Quiet, Types, TypeOK
    <2> QED BY <1>17a, <2>1, <2>3 DEF DropDue, Types, TypeOK
  <1>18. ASSUME NEW d \in Drives, StoreDueHeader(d) PROVE TInv'
    <2>1. header' \in [Floppies -> Header] /\ dueHeader' \in [Drives -> Header]
      BY <1>18, TypeFacts, Values DEF StoreDueHeader, Types, TypeOK
    <2>2. BusyOK'
      BY <1>18 DEF StoreDueHeader, BusyOK, Serves, Quiet
    <2> QED BY <1>18, <2>1, <2>2 DEF StoreDueHeader, Types, TypeOK
  <1>18a. ASSUME NEW d \in Drives, DropDueHeader(d) PROVE TInv'
    <2>1. dueHeader' \in [Drives -> Header] /\ failures' \in Nat
      BY <1>18a, Values DEF DropDueHeader, Types, TypeOK
    <2>2. BusyOK'
      BY <1>18a DEF DropDueHeader, BusyOK, Serves, Quiet
    <2> QED BY <1>18a, <2>1, <2>2 DEF DropDueHeader, Types, TypeOK
  <1>19. ASSUME Crash PROVE TInv'
    <2>1. /\ medium' \in [Drives -> Medium]
          /\ orphan' \in [Drives -> Contents] /\ due' \in [Drives -> Contents]
          /\ dueHeader' \in [Drives -> Header] /\ snap' \in [Drives -> Contents]
      BY <1>19, Values DEF Crash
    <2>2. newest' \in [Floppies -> Contents] /\ unstored' \in [Floppies -> SUBSET Blocks]
      BY <1>19, ForgetTypes DEF Crash
    <2>3. \A e \in Drives : ~medium'[e].cached /\ medium'[e].handle = "none" /\ pc'[e] = "idle"
      BY <1>19 DEF Crash, NoMedium
    <2>4. BusyOK'
      BY <1>19, <2>3 DEF Crash, BusyOK, Quiet
    <2> QED BY <1>19, <2>1, <2>2, <2>3, <2>4, Bounds DEF Crash, Types, TypeOK
  <1>20. ASSUME UNCHANGED vars PROVE TInv'
    <2>1. UNCHANGED <<disk, header, inDrive, files, medium, orphan, due, dueHeader, pc, snap,
                      victim, clock, writes, uuids, crashes, failures, newest, unstored>>
      BY <1>20 DEF vars
    <2>2. BusyOK'
      BY <2>1 DEF BusyOK, Serves, Quiet
    <2>3. TypeOK'
      BY <2>1 DEF Types, TypeOK
    <2> QED BY <2>1, <2>2, <2>3 DEF Types
  <1>21. CASE User  BY <1>1, <1>2, <1>3, <1>4, <1>21 DEF User
  <1>22. CASE Poll  BY <1>5, <1>6, <1>22 DEF Poll
  <1>23. CASE Driver
    BY <1>7, <1>8, <1>9, <1>9a, <1>10, <1>11, <1>12, <1>13, <1>14, <1>15, <1>16, <1>23 DEF Driver
  <1>24. CASE Queue  BY <1>17, <1>17a, <1>18, <1>18a, <1>24 DEF Queue
  <1> QED BY <1>19, <1>20, <1>21, <1>22, <1>23, <1>24 DEF Next

LEMMA InitTInv == Init => TInv
  <1> SUFFICES ASSUME Init PROVE TInv  OBVIOUS
  <1>1. Types
    BY Values, Bounds DEF Init, Types, TypeOK, Uuids, NoMedium
  <1>2. BusyOK
    BY DEF Init, BusyOK, Serves, Quiet
  <1> QED BY <1>1, <1>2 DEF TInv

(* Every reachable state is well-typed: a medium is served from a file     *)
(* only with a UUID, and its handle is to a file only when it is cached    *)
(* (Probe, OpenMediumHandle, floppyCacheAdf), for any constants.           *)
THEOREM TypesCorrect == Spec => []TypeOK
  <1>1. TInv => TypeOK
    BY DEF TInv, Types
  <1> QED BY <1>1, InitTInv, TypesStep, PTL DEF Spec

(* A floppy is in one drive; what a drive is still to do, it does for the  *)
(* floppy it serves.                                                       *)
DrivesOK ==
    /\ \A d, e \in Drives : inDrive[d] = inDrive[e] /\ inDrive[d] # NoFloppy => d = e
    /\ \A d \in Drives :
         /\ ~medium[d].cached => due[d] = Blank /\ dueHeader[d] = NoHeader
         /\ pc[d] # "idle" => ~medium[d].cached /\ snap[d] = disk[inDrive[d]]

(* A UUID belongs to one floppy.                                           *)
UuidsOK ==
    /\ \A u \in Uuids : u > uuids => files[u] = NoFile
    /\ \A f \in Floppies :
         /\ header[f].uuid <= uuids
         /\ header[f].uuid = 0 => header[f] = NoHeader
    /\ \A f, g \in Floppies : header[f].uuid = header[g].uuid /\ header[f].uuid # 0 => f = g
    /\ \A d \in Drives : medium[d].uuid <= uuids
    /\ \A d \in Drives : Serves(d) =>
         /\ header[inDrive[d]].uuid \in {0, medium[d].uuid}
         /\ medium[d].uuid # 0 =>
              /\ \A f \in Floppies : header[f].uuid = medium[d].uuid => f = inDrive[d]
              /\ \A e \in Drives : Serves(e) /\ medium[e].uuid = medium[d].uuid => e = d

(* Nothing is from the future, and a header, due or on the floppy, is not  *)
(* later than its file: updateCachedADFHeader takes the time of the file   *)
(* after writing it.  With another host the header on the floppy may be.   *)
TimesOK ==
    /\ \A f \in Floppies : header[f].mtime <= clock
    /\ \A u \in Uuids : files[u].mtime <= clock /\ (files[u].full => Exists(u))
    /\ \A d \in Drives : dueHeader[d] # NoHeader =>
         /\ dueHeader[d].uuid = medium[d].uuid
         /\ dueHeader[d].mtime <= clock
         /\ Exists(medium[d].uuid) => dueHeader[d].mtime <= files[medium[d].uuid].mtime
    /\ OtherHost = {} =>
         \A f \in Floppies : header[f].uuid # 0 /\ files[header[f].uuid].full =>
             header[f].mtime <= files[header[f].uuid].mtime

(* How drives, floppies, UUIDs and times belong together.                  *)
SInv == TInv /\ DrivesOK /\ UuidsOK /\ TimesOK

(* The times stay as they should when a file is written at the present.    *)
LEMMA FileTouched ==
  ASSUME Types, Types', TimesOK, NEW u \in Uuids,
         UNCHANGED <<header, medium, dueHeader, clock>>,
         \A v \in Uuids \ {u} : files'[v] = files[v],
         files'[u] = files[u] \/ files'[u].mtime = clock,
         \A e \in Drives : dueHeader[e] # NoHeader => medium[e].uuid \in Uuids,
         \A f \in Floppies : header[f].uuid # 0 => header[f].uuid \in Uuids
  PROVE  TimesOK'
  <1>1. /\ clock \in Nat /\ clock # 0 /\ files \in [Uuids -> File] /\ files' \in [Uuids -> File]
        /\ \A f \in Floppies : header[f].mtime \in Nat
    BY Bounds DEF Types, TypeOK, Header
  <1>2. \A v \in Uuids : files'[v].mtime <= clock' /\ (files'[v].full => files'[v].mtime # 0)
    BY <1>1 DEF TimesOK, Exists
  <1>3. ASSUME NEW e \in Drives, dueHeader'[e] # NoHeader
        PROVE  /\ dueHeader'[e].uuid = medium'[e].uuid
               /\ dueHeader'[e].mtime <= clock'
               /\ files'[medium'[e].uuid].mtime # 0 => dueHeader'[e].mtime <= files'[medium'[e].uuid].mtime
    BY <1>1, <1>3 DEF TimesOK, Exists
  <1>4. ASSUME OtherHost = {}, NEW g \in Floppies, header'[g].uuid # 0, files'[header'[g].uuid].full
        PROVE  header'[g].mtime <= files'[header'[g].uuid].mtime
    BY <1>1, <1>4 DEF TimesOK
  <1>5. \A g \in Floppies : header'[g].mtime <= clock'
    BY DEF TimesOK
  <1> QED BY <1>2, <1>3, <1>4, <1>5 DEF TimesOK, Exists

(* Every step keeps SInv.                                                  *)
LEMMA StructureStep == SInv /\ [Next]_vars => SInv'
  <1> SUFFICES ASSUME SInv, [Next]_vars PROVE DrivesOK' /\ UuidsOK' /\ TimesOK'
    BY TypesStep DEF SInv
  <1> DEFINE Goal == DrivesOK' /\ UuidsOK' /\ TimesOK'
  <1> USE DEF floppyVars, cacheVars, queueVars, counterVars
  <1>0. /\ TInv /\ TInv' /\ Types /\ DrivesOK /\ UuidsOK /\ TimesOK
        /\ clock \in Nat /\ uuids \in Nat
        /\ inDrive \in [Drives -> Floppies \union {NoFloppy}] /\ medium \in [Drives -> Medium]
        /\ files \in [Uuids -> File] /\ header \in [Floppies -> Header]
        /\ dueHeader \in [Drives -> Header]
        /\ pc \in [Drives -> {"idle", "check", "evict", "write", "writing", "stat"}]
        /\ \A e \in Drives : ~Serves(e) => pc[e] = "idle" /\ due[e] = Blank /\ dueHeader[e] = NoHeader
        /\ \A e \in Drives : Serves(e) => inDrive[e] \in Floppies
        /\ \A f \in Floppies : header[f].uuid # 0 => header[f].uuid \in Uuids
        /\ \A e \in Drives : medium[e].uuid # 0 => medium[e].uuid \in Uuids
        /\ \A e \in Drives : dueHeader[e] # NoHeader => medium[e].cached /\ medium[e].uuid \in Uuids
    <2>1. TInv /\ TInv' /\ Types /\ DrivesOK /\ UuidsOK /\ TimesOK /\ BusyOK
      BY TypesStep DEF SInv, TInv
    <2>2. clock \in Nat /\ uuids \in Nat
      BY <2>1, Bounds DEF Types, TypeOK
    <2>3. /\ \A f \in Floppies : header[f].uuid # 0 => header[f].uuid \in Uuids
          /\ \A e \in Drives : medium[e].uuid # 0 => medium[e].uuid \in Uuids
      BY <2>1, Bounds DEF Types, TypeOK, Header, Medium
    <2>4. \A e \in Drives : dueHeader[e] # NoHeader => medium[e].cached /\ medium[e].uuid # 0
      BY <2>1 DEF Types, TypeOK, DrivesOK
    <2> QED BY <2>1, <2>2, <2>3, <2>4 DEF Types, TypeOK, BusyOK, Quiet, Serves
  <1>1. ASSUME NEW d \in Drives, Eject(d) PROVE Goal
    <2>1. /\ UNCHANGED <<disk, header, files, medium, due, dueHeader, pc, snap, clock, uuids>>
          /\ inDrive' = [inDrive EXCEPT ![d] = NoFloppy] /\ pc[d] = "idle"
      BY <1>1 DEF Eject, Quiet
    <2>2. DrivesOK'
      BY <1>0, <2>1 DEF DrivesOK
    <2>3. UuidsOK'
      BY <1>0, <2>1 DEF UuidsOK, Serves
    <2>4. TimesOK'
      BY <1>0, <2>1 DEF TimesOK, Exists
    <2> QED BY <2>2, <2>3, <2>4
  <1>2. ASSUME NEW d \in Drives, NEW f \in Floppies, Insert(d, f) PROVE Goal
    <2>1. /\ UNCHANGED <<disk, header, files, medium, due, dueHeader, pc, snap, clock, uuids>>
          /\ inDrive' = [inDrive EXCEPT ![d] = f] /\ pc[d] = "idle" /\ ~medium[d].present
          /\ \A e \in Drives : inDrive[e] # f
      BY <1>0, <1>2 DEF Insert, TInv, BusyOK, Serves, Quiet
    <2>2. DrivesOK'
      BY <1>0, <2>1 DEF DrivesOK
    <2>3. UuidsOK'
      BY <1>0, <2>1 DEF UuidsOK, Serves
    <2>4. TimesOK'
      BY <1>0, <2>1 DEF TimesOK, Exists
    <2> QED BY <2>2, <2>3, <2>4
  <1>3. ASSUME NEW f \in Floppies, NEW b \in Blocks, NEW how \in OtherHost, OtherHostWrites(f, b, how)
        PROVE  Goal
    <2>1. /\ UNCHANGED <<inDrive, files, medium, due, dueHeader, pc, snap, uuids>>
          /\ \A g \in Floppies \ {f} : disk'[g] = disk[g]
          /\ \A e \in Drives : inDrive[e] # f
          /\ clock' = clock + 1 /\ OtherHost # {}
          /\ \A g \in Floppies : header'[g].uuid = header[g].uuid
          /\ \A g \in Floppies : header[g].uuid = 0 => header'[g] = header[g]
          /\ \A g \in Floppies : header'[g].mtime \in {header[g].mtime, clock'}
      BY <1>0, <1>3, TypeFacts DEF OtherHostWrites, Header, Types, TypeOK
    <2>2. DrivesOK'
      BY <1>0, <2>1 DEF DrivesOK, BusyOK, Serves, Quiet, TInv
    <2>3. UuidsOK'
      BY <1>0, <2>1 DEF UuidsOK, Serves
    <2>4. TimesOK'
      BY <1>0, <2>1 DEF TimesOK, Exists, Header, File
    <2> QED BY <2>2, <2>3, <2>4
  <1>4. ASSUME Tick PROVE Goal
    <2>1. /\ UNCHANGED <<disk, header, inDrive, files, medium, due, dueHeader, pc, snap, uuids>>
          /\ clock' = clock + 1
      BY <1>4 DEF Tick
    <2>2. DrivesOK' /\ UuidsOK'
      BY <1>0, <2>1 DEF DrivesOK, UuidsOK, Serves
    <2>3. TimesOK'
      BY <1>0, <2>1 DEF TimesOK, Exists, Header, File
    <2> QED BY <2>2, <2>3
  <1>5. ASSUME NEW d \in Drives, NEW formatted \in BOOLEAN, NEW force \in BOOLEAN,
               Probe(d, formatted, force)
        PROVE  Goal
    <2> DEFINE u == header[inDrive[d]].uuid
    <2>1. /\ UNCHANGED <<header, inDrive, due, dueHeader, pc, snap, clock, uuids>>
          /\ inDrive[d] \in Floppies /\ ~medium[d].present /\ pc[d] = "idle"
          /\ due[d] = Blank /\ dueHeader[d] = NoHeader
          /\ \A g \in Floppies \ {inDrive[d]} : disk'[g] = disk[g]
          /\ \A v \in Uuids : files'[v] \in {files[v], NoFile}
      BY <1>0, <1>5 DEF Probe, Serves, Types, TypeOK
    <2>2. /\ \A e \in Drives \ {d} : medium'[e] = medium[e]
          /\ medium'[d].uuid = u
      BY <1>0, <1>5 DEF Probe, NoMedium
    <2>3. DrivesOK'
      <3>1. \A e \in Drives \ {d} : pc[e] # "idle" => disk'[inDrive[e]] = disk[inDrive[e]]
        BY <1>0, <2>1 DEF DrivesOK, Serves
      <3> QED BY <1>0, <2>1, <2>2, <3>1 DEF DrivesOK
    <2>4. UuidsOK'
      <3>1. \A v \in Uuids : v > uuids => files'[v] = NoFile
        BY <1>0, <2>1 DEF UuidsOK
      <3>2. ASSUME NEW e \in Drives \ {d}, Serves(e), u # 0 PROVE medium[e].uuid # u
        BY <1>0, <2>1, <3>2 DEF UuidsOK, DrivesOK, Serves
      <3> QED BY <1>0, <2>1, <2>2, <3>1, <3>2 DEF UuidsOK, Serves
    <2>5. TimesOK'
      <3>1. \A v \in Uuids : files'[v].mtime \in {files[v].mtime, 0} /\ (files'[v].full => files'[v] = files[v])
        BY <2>1 DEF NoFile
      <3>2. \A v \in Uuids : files'[v].mtime <= clock' /\ (files'[v].full => files'[v].mtime # 0)
        BY <1>0, <2>1, <3>1 DEF TimesOK, Exists
      <3>3. ASSUME NEW e \in Drives, dueHeader'[e] # NoHeader
            PROVE  /\ dueHeader'[e].uuid = medium'[e].uuid
                   /\ dueHeader'[e].mtime <= clock'
                   /\ files'[medium'[e].uuid].mtime # 0 => dueHeader'[e].mtime <= files'[medium'[e].uuid].mtime
        BY <1>0, <2>1, <2>2, <3>1, <3>3 DEF TimesOK, Exists
      <3>4. ASSUME OtherHost = {}, NEW g \in Floppies, header'[g].uuid # 0, files'[header'[g].uuid].full
            PROVE  header'[g].mtime <= files'[header'[g].uuid].mtime
        BY <1>0, <2>1, <3>1, <3>4 DEF TimesOK
      <3> QED BY <1>0, <2>1, <3>2, <3>3, <3>4 DEF TimesOK, Exists
    <2> QED BY <2>3, <2>4, <2>5
  <1>6. ASSUME NEW d \in Drives, CloseMedium(d) PROVE Goal
    <2>1. /\ UNCHANGED <<disk, header, inDrive, files, due, dueHeader, pc, snap, clock, uuids>>
          /\ inDrive[d] = NoFloppy /\ pc[d] = "idle" /\ due[d] = Blank /\ dueHeader[d] = NoHeader
          /\ \A e \in Drives \ {d} : medium'[e] = medium[e]
          /\ medium'[d].uuid = 0
      BY <1>0, <1>6 DEF CloseMedium, NoMedium, TInv, BusyOK, Serves, Quiet
    <2>2. DrivesOK'
      BY <1>0, <2>1 DEF DrivesOK
    <2>3. UuidsOK'
      BY <1>0, <2>1 DEF UuidsOK, Serves
    <2>4. TimesOK'
      BY <1>0, <2>1 DEF TimesOK, Exists
    <2> QED BY <2>2, <2>3, <2>4
  <1>7. ASSUME NEW d \in Drives, cachedRead(d) PROVE Goal
    <2>1. /\ UNCHANGED <<disk, header, inDrive, files, due, dueHeader, pc, snap, clock, uuids>>
          /\ \A e \in Drives : \A x \in {"present", "uuid", "cached"} : medium'[e][x] = medium[e][x]
      BY <1>0, <1>7 DEF cachedRead, Medium
    <2>2. DrivesOK'
      BY <1>0, <2>1 DEF DrivesOK
    <2>3. UuidsOK'
      BY <1>0, <2>1 DEF UuidsOK, Serves
    <2>4. TimesOK'
      BY <1>0, <2>1 DEF TimesOK, Exists
    <2> QED BY <2>2, <2>3, <2>4
  <1>8. ASSUME NEW d \in Drives, NEW b \in Blocks, realWrite(d, b) PROVE Goal
    <2>1. /\ UNCHANGED <<header, inDrive, files, due, dueHeader, pc, snap, clock, uuids>>
          /\ inDrive[d] \in Floppies /\ pc[d] = "idle"
          /\ \A g \in Floppies \ {inDrive[d]} : disk'[g] = disk[g]
          /\ \A e \in Drives : \A x \in {"present", "uuid", "cached"} : medium'[e][x] = medium[e][x]
      BY <1>0, <1>8 DEF realWrite, Idle, Medium, Types, TypeOK
    <2>2. DrivesOK'
      <3>1. \A e \in Drives : pc[e] # "idle" => disk'[inDrive[e]] = disk[inDrive[e]]
        BY <1>0, <2>1 DEF DrivesOK, Serves
      <3> QED BY <1>0, <2>1, <3>1 DEF DrivesOK
    <2>3. UuidsOK'
      BY <1>0, <2>1 DEF UuidsOK, Serves
    <2>4. TimesOK'
      BY <1>0, <2>1 DEF TimesOK, Exists
    <2> QED BY <2>2, <2>3, <2>4
  <1>9. ASSUME NEW d \in Drives, NEW b \in Blocks, cachedWrite(d, b) PROVE Goal
    <2> DEFINE u == medium[d].uuid
    <2>1. /\ UNCHANGED <<disk, header, inDrive, pc, snap, clock, uuids>>
          /\ medium[d].cached /\ Serves(d) /\ pc[d] = "idle"
          /\ \A e \in Drives : \A x \in {"present", "uuid", "cached"} : medium'[e][x] = medium[e][x]
          /\ \A e \in Drives \ {d} : due'[e] = due[e] /\ dueHeader'[e] = dueHeader[e]
          /\ dueHeader' = dueHeader \/ (Exists(u) /\ dueHeader'[d] = [uuid |-> u, mtime |-> clock])
      BY <1>0, <1>9 DEF cachedWrite, CanOpenCached, Idle, Medium, Serves, Types, TypeOK
    <2>2. u \in Uuids /\ u <= uuids
      BY <1>0, <2>1 DEF Types, TypeOK, UuidsOK
    <2>3. /\ \A v \in Uuids \ {u} : files'[v] = files[v]
          /\ ~Exists(u) => files' = files
          /\ Exists(u) => files'[u].full = files[u].full /\ files'[u].mtime = clock
      BY <1>0, <1>9, <2>2 DEF cachedWrite, File
    <2>4. DrivesOK'
      BY <1>0, <2>1 DEF DrivesOK
    <2>5. UuidsOK'
      <3>1. \A v \in Uuids : v > uuids => files'[v] = NoFile
        BY <1>0, <2>2, <2>3 DEF UuidsOK, Uuids
      <3> QED BY <1>0, <2>1, <3>1 DEF UuidsOK, Serves
    <2>6. TimesOK'
      <3>1. \A v \in Uuids : files'[v].mtime <= clock' /\ (files'[v].full => files'[v].mtime # 0)
        BY <1>0, <2>1, <2>2, <2>3, Bounds DEF TimesOK, Exists, Types, TypeOK
      <3>2. \A v \in Uuids : files[v].mtime # 0 => files[v].mtime <= files'[v].mtime
        BY <1>0, <2>1, <2>2, <2>3 DEF TimesOK, Exists, File
      <3>3. ASSUME NEW e \in Drives, dueHeader'[e] # NoHeader
            PROVE  /\ dueHeader'[e].uuid = medium'[e].uuid
                   /\ dueHeader'[e].mtime <= clock'
                   /\ files'[medium'[e].uuid].mtime # 0 => dueHeader'[e].mtime <= files'[medium'[e].uuid].mtime
        <4>1. CASE dueHeader'[e] = dueHeader[e]
          <5>1. medium[e].uuid \in Uuids /\ medium'[e].uuid = medium[e].uuid
            BY <1>0, <2>1, <3>3, <4>1
          <5>2. files'[medium[e].uuid].mtime # 0 =>
                  files[medium[e].uuid].mtime # 0 /\ files[medium[e].uuid].mtime <= files'[medium[e].uuid].mtime
            BY <2>3, <3>2, <5>1 DEF Exists
          <5>3. files[medium[e].uuid] \in File /\ files'[medium[e].uuid] \in File /\ dueHeader[e] \in Header
            BY <1>0, <5>1 DEF TInv, Types, TypeOK
          <5> QED BY <1>0, <2>1, <3>3, <4>1, <5>1, <5>2, <5>3 DEF TimesOK, Exists, File, Header
        <4>2. CASE dueHeader'[e] # dueHeader[e]
          BY <1>0, <2>1, <2>3, <4>2
        <4> QED BY <4>1, <4>2
      <3>4. ASSUME OtherHost = {}, NEW g \in Floppies, header'[g].uuid # 0, files'[header'[g].uuid].full
            PROVE  header'[g].mtime <= files'[header'[g].uuid].mtime
        BY <1>0, <2>1, <2>3, <3>4 DEF TimesOK
      <3> QED BY <1>0, <2>1, <3>1, <3>3, <3>4 DEF TimesOK, Exists
    <2> QED BY <2>4, <2>5, <2>6
  <1>9a. ASSUME NEW d \in Drives, NEW b \in Blocks, cachedWriteFails(d, b) PROVE Goal
    <2> DEFINE u == medium[d].uuid
    <2>1. /\ UNCHANGED <<disk, header, inDrive, files, pc, snap, clock, uuids>>
          /\ medium[d].cached /\ Serves(d) /\ pc[d] = "idle"
          /\ \A e \in Drives : \A x \in {"present", "uuid", "cached"} : medium'[e][x] = medium[e][x]
          /\ \A e \in Drives \ {d} : due'[e] = due[e] /\ dueHeader'[e] = dueHeader[e]
          /\ dueHeader' = dueHeader \/ dueHeader'[d] = [uuid |-> u, mtime |-> files[u].mtime]
      BY <1>0, <1>9a DEF cachedWriteFails, CanOpenCached, Idle, Medium, Serves, Types, TypeOK
    <2>2. u \in Uuids /\ u <= uuids
      BY <1>0, <2>1 DEF Types, TypeOK, UuidsOK
    <2>3. DrivesOK'
      BY <1>0, <2>1 DEF DrivesOK
    <2>4. UuidsOK'
      BY <1>0, <2>1 DEF UuidsOK, Serves
    <2>5. TimesOK'
      BY <1>0, <2>1, <2>2 DEF TimesOK, Exists, File
    <2> QED BY <2>3, <2>4, <2>5
  <1>10. ASSUME NEW d \in Drives, CacheBegin(d) PROVE Goal
    <2>1. /\ UNCHANGED <<disk, header, inDrive, files, due, dueHeader, clock>>
          /\ Serves(d) /\ ~medium[d].cached
          /\ pc' = [pc EXCEPT ![d] = "check"] /\ snap' = [snap EXCEPT ![d] = disk[inDrive[d]]]
          /\ medium[d].uuid # 0 => uuids' = uuids
          /\ medium[d].uuid = 0 => uuids' = uuids + 1
      BY <1>0, <1>10 DEF CacheBegin, Idle, Goto, Serves
    <2>2. /\ \A e \in Drives : /\ medium'[e].present = medium[e].present
                               /\ medium'[e].cached = medium[e].cached
                               /\ medium[e].uuid # 0 \/ e # d => medium'[e].uuid = medium[e].uuid
          /\ medium[d].uuid = 0 => medium'[d].uuid = uuids'
      BY <1>0, <1>10 DEF CacheBegin, Medium
    <2>3. DrivesOK'
      BY <1>0, <2>1, <2>2 DEF DrivesOK, Types, TypeOK
    <2>4. UuidsOK'
      <3>1. CASE medium[d].uuid # 0
        BY <1>0, <2>1, <2>2, <3>1 DEF UuidsOK, Serves
      <3>2. CASE medium[d].uuid = 0
        <4>1. /\ \A v \in Uuids : v > uuids' => files'[v] = NoFile
              /\ \A f \in Floppies : header'[f].uuid <= uuids /\ header'[f].uuid \in Nat
              /\ \A e \in Drives \ {d} : medium'[e].uuid <= uuids /\ medium'[e].uuid \in Nat
          BY <1>0, <2>1, <2>2, <3>2, Bounds DEF UuidsOK, Uuids, Header, Medium
        <4>2. medium'[d].uuid = uuids + 1 /\ uuids' = uuids + 1 /\ header[inDrive[d]].uuid = 0
          BY <1>0, <2>1, <2>2, <3>2 DEF UuidsOK
        <4> QED BY <1>0, <2>1, <2>2, <4>1, <4>2 DEF UuidsOK, Serves
      <3> QED BY <3>1, <3>2
    <2>5. TimesOK'
      <3>1. \A e \in Drives : dueHeader[e] # NoHeader => medium'[e].uuid = medium[e].uuid
        BY <1>0, <2>1, <2>2
      <3> QED BY <1>0, <2>1, <3>1 DEF TimesOK, Exists
    <2> QED BY <2>3, <2>4, <2>5
  <1>11. ASSUME NEW d \in Drives, CheckQuota(d) PROVE Goal
    <2>1. /\ UNCHANGED <<disk, header, inDrive, files, medium, due, dueHeader, snap, clock, uuids>>
          /\ pc[d] # "idle" /\ \A e \in Drives \ {d} : pc'[e] = pc[e]
      BY <1>0, <1>11 DEF CheckQuota, Goto
    <2>2. DrivesOK'
      BY <1>0, <2>1 DEF DrivesOK
    <2> QED BY <1>0, <2>1, <2>2 DEF UuidsOK, TimesOK, Serves, Exists
  <1>12. ASSUME NEW d \in Drives, Evict(d) PROVE Goal
    <2>1. /\ UNCHANGED <<disk, header, inDrive, due, dueHeader, snap, clock, uuids>>
          /\ pc[d] # "idle" /\ \A e \in Drives \ {d} : pc'[e] = pc[e]
          /\ \A e \in Drives : \A x \in {"present", "uuid", "cached"} : medium'[e][x] = medium[e][x]
          /\ \A v \in Uuids : files'[v] \in {files[v], NoFile}
      BY <1>0, <1>12 DEF Evict, Goto, CacheFails, Medium
    <2>2. DrivesOK'
      BY <1>0, <2>1 DEF DrivesOK
    <2>3. UuidsOK'
      BY <1>0, <2>1 DEF UuidsOK, Serves
    <2>4. TimesOK'
      <3>1. \A v \in Uuids : files'[v].mtime \in {files[v].mtime, 0} /\ (files'[v].full => files'[v] = files[v])
        BY <2>1 DEF NoFile
      <3>2. \A v \in Uuids : files'[v].mtime <= clock' /\ (files'[v].full => files'[v].mtime # 0)
        BY <1>0, <2>1, <3>1 DEF TimesOK, Exists
      <3>3. ASSUME NEW e \in Drives, dueHeader'[e] # NoHeader
            PROVE  /\ dueHeader'[e].uuid = medium'[e].uuid
                   /\ dueHeader'[e].mtime <= clock'
                   /\ files'[medium'[e].uuid].mtime # 0 => dueHeader'[e].mtime <= files'[medium'[e].uuid].mtime
        BY <1>0, <2>1, <3>1, <3>3 DEF TimesOK, Exists
      <3>4. ASSUME OtherHost = {}, NEW g \in Floppies, header'[g].uuid # 0, files'[header'[g].uuid].full
            PROVE  header'[g].mtime <= files'[header'[g].uuid].mtime
        BY <1>0, <2>1, <3>1, <3>4 DEF TimesOK
      <3> QED BY <1>0, <2>1, <3>2, <3>3, <3>4 DEF TimesOK, Exists
    <2> QED BY <2>2, <2>3, <2>4
  <1>13. ASSUME NEW d \in Drives, WriteFileBegin(d) PROVE Goal
    <2> DEFINE u == medium[d].uuid
    <2>1. /\ UNCHANGED <<disk, header, inDrive, medium, due, dueHeader, snap, clock, uuids>>
          /\ pc[d] # "idle" /\ \A e \in Drives \ {d} : pc'[e] = pc[e]
      BY <1>0, <1>13 DEF WriteFileBegin, Goto
    <2>2. u \in Uuids /\ u <= uuids
      BY <1>0, <2>1 DEF TInv, BusyOK, UuidsOK
    <2>3. /\ \A v \in Uuids \ {u} : files'[v] = files[v]
          /\ files'[u].full = files[u].full /\ files'[u].mtime = clock
      BY <1>0, <1>13, <2>2 DEF WriteFileBegin, File
    <2>4. DrivesOK'
      BY <1>0, <2>1 DEF DrivesOK
    <2>5. UuidsOK'
      <3>1. \A v \in Uuids : v > uuids => files'[v] = NoFile
        BY <1>0, <2>1, <2>2, <2>3 DEF UuidsOK, Uuids
      <3> QED BY <1>0, <2>1, <3>1 DEF UuidsOK, Serves
    <2>6. TimesOK'
      <3>1. Types' /\ Types /\ TimesOK
        BY <1>0 DEF TInv
      <3> QED BY <1>0, <2>1, <2>2, <2>3, <3>1, FileTouched
    <2> QED BY <2>4, <2>5, <2>6
  <1>14. ASSUME NEW d \in Drives, WriteFileEnd(d) PROVE Goal
    <2> DEFINE u == medium[d].uuid
    <2>1. /\ UNCHANGED <<disk, header, inDrive, medium, due, dueHeader, snap, clock, uuids>>
          /\ pc[d] # "idle" /\ \A e \in Drives \ {d} : pc'[e] = pc[e]
      BY <1>0, <1>14 DEF WriteFileEnd, Goto
    <2>2. u \in Uuids /\ u <= uuids
      BY <1>0, <2>1 DEF TInv, BusyOK, UuidsOK
    <2>3. /\ \A v \in Uuids \ {u} : files'[v] = files[v]
          /\ files'[u] = files[u] \/ files'[u].mtime = clock
      BY <1>0, <1>14, <2>2 DEF WriteFileEnd
    <2>4. DrivesOK'
      BY <1>0, <2>1 DEF DrivesOK
    <2>5. UuidsOK'
      <3>1. \A v \in Uuids : v > uuids => files'[v] = NoFile
        BY <1>0, <2>1, <2>2, <2>3 DEF UuidsOK, Uuids
      <3> QED BY <1>0, <2>1, <3>1 DEF UuidsOK, Serves
    <2>6. TimesOK'
      <3>1. Types' /\ Types /\ TimesOK
        BY <1>0 DEF TInv
      <3> QED BY <1>0, <2>1, <2>2, <2>3, <3>1, FileTouched
    <2> QED BY <2>4, <2>5, <2>6
  <1>15. ASSUME NEW d \in Drives, WriteFileFails(d) PROVE Goal
    <2>1. /\ UNCHANGED <<disk, header, inDrive, files, due, dueHeader, snap, clock, uuids>>
          /\ pc[d] # "idle" /\ \A e \in Drives \ {d} : pc'[e] = pc[e]
          /\ \A e \in Drives : \A x \in {"present", "uuid", "cached"} : medium'[e][x] = medium[e][x]
      BY <1>0, <1>15 DEF WriteFileFails, Goto, CacheFails, Medium
    <2>2. DrivesOK'
      BY <1>0, <2>1 DEF DrivesOK
    <2>3. UuidsOK'
      BY <1>0, <2>1 DEF UuidsOK, Serves
    <2>4. TimesOK'
      BY <1>0, <2>1 DEF TimesOK, Exists
    <2> QED BY <2>2, <2>3, <2>4
  <1>16. ASSUME NEW d \in Drives, CacheEnd(d) PROVE Goal
    <2> DEFINE u == medium[d].uuid
    <2>1. /\ UNCHANGED <<disk, header, inDrive, files, due, clock, uuids>>
          /\ pc[d] # "idle" /\ pc'[d] = "idle"
          /\ \A e \in Drives \ {d} : pc'[e] = pc[e] /\ snap'[e] = snap[e]
                                     /\ medium'[e] = medium[e] /\ dueHeader'[e] = dueHeader[e]
          /\ \A x \in {"present", "uuid"} : medium'[d][x] = medium[d][x]
          /\ \/ medium'[d].cached /\ Exists(u) /\ dueHeader'[d] = [uuid |-> u, mtime |-> files[u].mtime]
             \/ medium' = medium /\ dueHeader' = dueHeader
      BY <1>0, <1>16 DEF CacheEnd, Goto, Medium
    <2>2. u \in Uuids /\ Serves(d)
      BY <1>0, <2>1 DEF TInv, BusyOK
    <2>3. DrivesOK'
      BY <1>0, <2>1 DEF DrivesOK
    <2>4. UuidsOK'
      BY <1>0, <2>1 DEF UuidsOK, Serves
    <2>5. TimesOK'
      BY <1>0, <2>1, <2>2 DEF TimesOK, Exists, File
    <2> QED BY <2>3, <2>4, <2>5
  <1>17. ASSUME NEW d \in Drives, NEW b \in Blocks, StoreDue(d, b) PROVE Goal
    <2>1. /\ UNCHANGED <<header, inDrive, files, medium, dueHeader, pc, snap, clock, uuids>>
          /\ inDrive[d] \in Floppies /\ due[d] # Blank
          /\ \A g \in Floppies \ {inDrive[d]} : disk'[g] = disk[g]
          /\ \A e \in Drives \ {d} : due'[e] = due[e]
      BY <1>0, <1>17 DEF StoreDue, Blank, Types, TypeOK
    <2>2. DrivesOK'
      <3>1. \A e \in Drives : pc[e] # "idle" => e # d /\ disk'[inDrive[e]] = disk[inDrive[e]]
        BY <1>0, <2>1 DEF DrivesOK, Serves
      <3> QED BY <1>0, <2>1, <3>1 DEF DrivesOK
    <2> QED BY <1>0, <2>1, <2>2 DEF UuidsOK, TimesOK, Serves, Exists
  <1>17a. ASSUME NEW d \in Drives, NEW b \in Blocks, DropDue(d, b) PROVE Goal
    <2>1. /\ UNCHANGED <<disk, header, inDrive, files, medium, dueHeader, pc, snap, clock, uuids>>
          /\ due[d] # Blank
          /\ \A e \in Drives \ {d} : due'[e] = due[e]
      BY <1>0, <1>17a DEF DropDue, Blank
    <2>2. DrivesOK'
      BY <1>0, <2>1 DEF DrivesOK
    <2> QED BY <1>0, <2>1, <2>2 DEF UuidsOK, TimesOK, Serves, Exists
  <1>18. ASSUME NEW d \in Drives, StoreDueHeader(d) PROVE Goal
    <2> DEFINE u == medium[d].uuid
    <2>1. /\ UNCHANGED <<disk, inDrive, files, medium, due, pc, snap, clock, uuids>>
          /\ inDrive[d] \in Floppies /\ dueHeader[d] # NoHeader /\ Serves(d)
          /\ header' = [header EXCEPT ![inDrive[d]] = dueHeader[d]]
          /\ dueHeader' = [dueHeader EXCEPT ![d] = NoHeader]
      BY <1>0, <1>18 DEF StoreDueHeader
    <2>2. /\ u \in Uuids /\ u # 0 /\ dueHeader[d].uuid = u /\ dueHeader[d].mtime <= clock
          /\ files[u].full => dueHeader[d].mtime <= files[u].mtime
      BY <1>0, <2>1, Bounds DEF TimesOK
    <2>3. DrivesOK'
      BY <1>0, <2>1 DEF DrivesOK
    <2>4. UuidsOK'
      <3>1. \A f \in Floppies : header'[f].uuid = IF f = inDrive[d] THEN u ELSE header[f].uuid
        BY <1>0, <2>1, <2>2
      <3>2. \A f \in Floppies : header[f].uuid = u => f = inDrive[d]
        BY <1>0, <2>1, <2>2 DEF UuidsOK
      <3>3. \A e \in Drives \ {d} : Serves(e) => inDrive[e] # inDrive[d] /\ medium[e].uuid # u
        BY <1>0, <2>1, <2>2 DEF UuidsOK, DrivesOK, Serves
      <3>4. \A f \in Floppies : header'[f].uuid = 0 => header'[f] = NoHeader
        BY <1>0, <2>1, <2>2 DEF UuidsOK
      <3>5. u <= uuids
        BY <1>0 DEF UuidsOK
      <3> QED BY <1>0, <2>1, <2>2, <3>1, <3>2, <3>3, <3>4, <3>5 DEF UuidsOK, Serves
    <2>5. TimesOK'
      BY <1>0, <2>1, <2>2 DEF TimesOK, Exists
    <2> QED BY <2>3, <2>4, <2>5
  <1>18a. ASSUME NEW d \in Drives, DropDueHeader(d) PROVE Goal
    <2>1. /\ UNCHANGED <<disk, header, inDrive, files, medium, due, pc, snap, clock, uuids>>
          /\ \A e \in Drives : dueHeader'[e] \in {dueHeader[e], NoHeader}
      BY <1>0, <1>18a DEF DropDueHeader
    <2>2. DrivesOK'
      BY <1>0, <2>1 DEF DrivesOK
    <2>3. TimesOK'
      BY <1>0, <2>1 DEF TimesOK, Exists
    <2> QED BY <1>0, <2>1, <2>2, <2>3 DEF UuidsOK, Serves
  <1>19. ASSUME Crash PROVE Goal
    <2>1. /\ UNCHANGED <<disk, header, inDrive, files, clock, uuids>>
          /\ \A e \in Drives : /\ ~medium'[e].present /\ ~medium'[e].cached /\ medium'[e].uuid = 0
                               /\ due'[e] = Blank /\ dueHeader'[e] = NoHeader /\ pc'[e] = "idle"
      BY <1>19 DEF Crash, NoMedium
    <2>2. DrivesOK'
      BY <1>0, <2>1 DEF DrivesOK
    <2>3. UuidsOK'
      BY <1>0, <2>1 DEF UuidsOK, Serves
    <2>4. TimesOK'
      BY <1>0, <2>1 DEF TimesOK, Exists
    <2> QED BY <2>2, <2>3, <2>4
  <1>20. ASSUME UNCHANGED vars PROVE Goal
    <2>1. UNCHANGED <<disk, header, inDrive, files, medium, due, dueHeader, pc, snap, clock, uuids>>
      BY <1>20 DEF vars
    <2>2. DrivesOK'
      BY <1>0, <2>1 DEF DrivesOK
    <2> QED BY <1>0, <2>1, <2>2 DEF UuidsOK, TimesOK, Serves, Exists
  <1>21. CASE User  BY <1>1, <1>2, <1>3, <1>4, <1>21 DEF User
  <1>22. CASE Poll  BY <1>5, <1>6, <1>22 DEF Poll
  <1>23. CASE Driver
    BY <1>7, <1>8, <1>9, <1>9a, <1>10, <1>11, <1>12, <1>13, <1>14, <1>15, <1>16, <1>23 DEF Driver
  <1>24. CASE Queue  BY <1>17, <1>17a, <1>18, <1>18a, <1>24 DEF Queue
  <1> QED BY <1>19, <1>20, <1>21, <1>22, <1>23, <1>24 DEF Next

-----------------------------------------------------------------------------
(* No call of the driver or of the queue fails, and the process stays up.  *)
NoFaults == MaxCrashes = 0 /\ MaxFailures = 0

(* A cached medium: the newest contents are in its file, or in the removed *)
(* file it has open, and what the floppy lacks is due, or was dropped.     *)
CachedAt(d) ==
    LET f == inDrive[d]
        u == medium[d].uuid
    IN  Serves(d) /\ medium[d].cached =>
            /\ Exists(u) => files[u].full /\ files[u].data = newest[f]
            /\ ~Exists(u) /\ medium[d].handle = "adf" => orphan[d] = newest[f]
            /\ \A b \in Blocks : due[d][b] # 0 => b \in unstored[f]
            /\ \A b \in Blocks : b \notin unstored[f] => disk[f][b] = newest[f][b]
            /\ NoFaults => \A b \in Blocks : b \in unstored[f] => /\ due[d][b] # 0
                                                               /\ due[d][b] = newest[f][b]

(* A medium without a file: the floppy has the newest contents, a file     *)
(* that has been written for it too, and no other file looks good; with    *)
(* crashes alone, not even the one being written over.                     *)
UncachedAt(d) ==
    LET f == inDrive[d]
        u == medium[d].uuid
    IN  Serves(d) /\ ~medium[d].cached =>
            /\ disk[f] = newest[f] /\ unstored[f] = {}
            /\ pc[d] = "stat" /\ Exists(u) => files[u].full /\ files[u].data = snap[d]
            /\ u # 0 /\ files[u].full /\ files[u].mtime >= header[f].mtime =>
                 pc[d] = "stat" \/ (pc[d] = "writing" /\ OtherHost # {})

(* A floppy that no driver knows shows its newest contents to the next     *)
(* Probe, by itself unless its header leads to a file; without faults it   *)
(* has them itself.                                                        *)
Loose(f) == \A d \in Drives : inDrive[d] = f => ~medium[d].present

LooseAt(f) ==
    Loose(f) =>
        /\ Seen(f) = newest[f]
        /\ \A b \in Blocks : b \notin unstored[f] => disk[f][b] = newest[f][b]
        /\ NoFaults \/ ~decodeCachedADFHeader(header[f]) => unstored[f] = {}

ContentsOK ==
    /\ \A d \in Drives : CachedAt(d) /\ UncachedAt(d)
    /\ \A f \in Floppies : LooseAt(f)

(* What the theorems about contents suppose.  Another computer that writes *)
(* to the floppy alone ("real") makes an older file here acceptable; and   *)
(* with one that writes through its own cache, a crash or failure while a  *)
(* file is written over leaves a torn file that looks good: the run        *)
(* cache_torn shows it.  Either is possible here without the other.        *)
HostsOrFaults ==
    \/ OtherHost = {}
    \/ OtherHost = {"cached"} /\ MaxCrashes = 0 /\ MaxFailures = 0

(* The inductive invariant about contents.                                 *)
CInv == SInv /\ ContentsOK

(* A step concerns drive d, floppy f and file u only.                      *)
Only(d, f, u) ==
    /\ \A e \in Drives \ {d} : /\ inDrive'[e] = inDrive[e] /\ medium'[e] = medium[e]
                               /\ due'[e] = due[e] /\ orphan'[e] = orphan[e]
                               /\ pc'[e] = pc[e] /\ snap'[e] = snap[e]
    /\ \A g \in Floppies \ {f} :
          /\ disk'[g] = disk[g] /\ header'[g] = header[g]
          /\ newest'[g] = newest[g] /\ unstored'[g] = unstored[g]
    /\ \A v \in Uuids \ {u} : files'[v] = files[v]

LEMMA StructureFacts ==
  ASSUME SInv
  PROVE  /\ TInv /\ Types /\ TypeOK /\ DrivesOK /\ UuidsOK /\ TimesOK
         /\ \A f \in Floppies : header[f].uuid # 0 => header[f].uuid \in Uuids
         /\ \A d \in Drives :
              /\ medium[d].uuid # 0 => medium[d].uuid \in Uuids
              /\ ~Serves(d) => pc[d] = "idle" /\ due[d] = Blank /\ dueHeader[d] = NoHeader
              /\ Serves(d) => inDrive[d] \in Floppies
              /\ medium[d].cached => medium[d].uuid \in Uuids
              /\ pc[d] # "idle" => medium[d].uuid \in Uuids
  <1>1. TInv /\ Types /\ TypeOK /\ DrivesOK /\ UuidsOK /\ TimesOK /\ BusyOK
    BY DEF SInv, TInv, Types
  <1>2. /\ \A f \in Floppies : header[f].uuid # 0 => header[f].uuid \in Uuids
        /\ \A d \in Drives : medium[d].uuid # 0 => medium[d].uuid \in Uuids
    BY <1>1, Bounds DEF TypeOK, Header, Medium
  <1> QED BY <1>1, <1>2 DEF BusyOK, Quiet, Serves, TypeOK

(* What a step does to one drive, its floppy and its file is no concern of *)
(* the other drives and floppies, because a UUID belongs to one floppy and *)
(* a floppy is in one drive.                                               *)
LEMMA OthersKept ==
  ASSUME SInv, SInv', ContentsOK, NEW d \in Drives, NEW u, Only(d, inDrive[d], u),
         u = 0 \/ u = header[inDrive[d]].uuid \/ (Serves(d) /\ u = medium[d].uuid),
         inDrive[d] \in Floppies
  PROVE  /\ \A e \in Drives \ {d} : CachedAt(e)' /\ UncachedAt(e)'
         /\ \A f \in Floppies \ {inDrive[d]} :
              inDrive'[d] \in {inDrive[d], NoFloppy} => LooseAt(f)'
  <1> DEFINE p == inDrive[d]
  <1>0. DrivesOK /\ UuidsOK
    BY StructureFacts
  <1>1. ASSUME NEW e \in Drives \ {d}, Serves(e)'
        PROVE  /\ Serves(e) /\ inDrive[e] \in Floppies \ {p} /\ inDrive'[e] = inDrive[e]
               /\ medium'[e] = medium[e]
    BY <1>0, <1>1, StructureFacts DEF Only, Serves, DrivesOK
  <1>2. ASSUME NEW e \in Drives \ {d}, Serves(e)
        PROVE  /\ medium[e].uuid # 0 => medium[e].uuid \in Uuids \ {u}
               /\ header[inDrive[e]].uuid \in {0, medium[e].uuid}
    BY <1>0, <1>2, StructureFacts DEF UuidsOK, DrivesOK, Serves
  <1>3. ASSUME NEW e \in Drives \ {d} PROVE CachedAt(e)'
    <2> SUFFICES ASSUME Serves(e)', medium'[e].cached PROVE CachedAt(e)'
      BY DEF CachedAt
    <2> DEFINE f == inDrive[e]
               v == medium[e].uuid
    <2>0. Serves(e) /\ medium[e].cached /\ f \in Floppies \ {p} /\ v \in Uuids /\ v # 0
      BY <1>1, StructureFacts, Bounds
    <2>1. /\ Serves(e) /\ medium[e].cached /\ f \in Floppies \ {p} /\ v \in Uuids \ {u}
          /\ header[f].uuid \in {0, v}
      BY <1>2, <2>0 DEF Only
    <2>2. /\ inDrive'[e] = f /\ medium'[e] = medium[e] /\ due'[e] = due[e] /\ orphan'[e] = orphan[e]
          /\ disk'[f] = disk[f] /\ header'[f] = header[f]
          /\ newest'[f] = newest[f] /\ unstored'[f] = unstored[f]
          /\ files'[v] = files[v]
      BY <2>1 DEF Only
    <2>3. CachedAt(e)
      BY DEF ContentsOK
    <2> QED BY <2>1, <2>2, <2>3 DEF CachedAt, Exists, NoFaults
  <1>4. ASSUME NEW e \in Drives \ {d} PROVE UncachedAt(e)'
    <2> SUFFICES ASSUME Serves(e)', ~medium'[e].cached PROVE UncachedAt(e)'
      BY DEF UncachedAt
    <2> DEFINE f == inDrive[e]
               v == medium[e].uuid
    <2>1. /\ Serves(e) /\ ~medium[e].cached /\ f \in Floppies \ {p}
          /\ v # 0 => v \in Uuids \ {u}
          /\ pc[e] # "idle" => v \in Uuids \ {u}
      BY <1>1, <1>2, StructureFacts, Bounds DEF Only
    <2>2. /\ inDrive'[e] = f /\ medium'[e] = medium[e] /\ pc'[e] = pc[e] /\ snap'[e] = snap[e]
          /\ disk'[f] = disk[f] /\ header'[f] = header[f]
          /\ newest'[f] = newest[f] /\ unstored'[f] = unstored[f]
          /\ v \in Uuids \ {u} => files'[v] = files[v]
      BY <2>1 DEF Only
    <2>3. UncachedAt(e)
      BY DEF ContentsOK
    <2> QED BY <2>1, <2>2, <2>3 DEF UncachedAt, Exists
  <1>5. ASSUME NEW f \in Floppies \ {p}, inDrive'[d] \in {p, NoFloppy} PROVE LooseAt(f)'
    <2> SUFFICES ASSUME Loose(f)' PROVE LooseAt(f)'
      BY DEF LooseAt
    <2>1. Loose(f)
      <3> SUFFICES ASSUME NEW e \in Drives, inDrive[e] = f PROVE ~medium[e].present
        BY DEF Loose
      <3> QED BY DEF Loose, Only
    <2>3. header[f].uuid # 0 => header[f].uuid \in Uuids \ {u}
      BY <1>0, StructureFacts DEF UuidsOK
    <2>4. /\ disk'[f] = disk[f] /\ header'[f] = header[f]
          /\ newest'[f] = newest[f] /\ unstored'[f] = unstored[f]
          /\ header[f].uuid # 0 => files'[header[f].uuid] = files[header[f].uuid]
      BY <2>3 DEF Only
    <2>5. LooseAt(f)
      BY DEF ContentsOK
    <2> QED BY <2>1, <2>4, <2>5 DEF LooseAt, Seen, decodeCachedADFHeader, NoFaults
  <1> QED BY <1>3, <1>4, <1>5

(* What is left to show for a step of a drive that has a floppy.           *)
LEMMA OneDriveStep ==
  ASSUME SInv, SInv', ContentsOK, NEW d \in Drives, NEW u, Only(d, inDrive[d], u),
         u = 0 \/ u = header[inDrive[d]].uuid \/ (Serves(d) /\ u = medium[d].uuid),
         inDrive[d] \in Floppies, inDrive'[d] = inDrive[d], medium'[d].present,
         CachedAt(d)', UncachedAt(d)'
  PROVE  ContentsOK'
  <1>1. \A e \in Drives : CachedAt(e)' /\ UncachedAt(e)'
    BY OthersKept
  <1>2. \A f \in Floppies \ {inDrive[d]} : LooseAt(f)'
    BY OthersKept
  <1>3. LooseAt(inDrive[d])'
    BY DEF LooseAt, Loose
  <1> QED BY <1>1, <1>2, <1>3 DEF ContentsOK

LEMMA SameContents ==
  ASSUME NEW c \in Contents, NEW e \in Contents, \A b \in Blocks : c[b] = e[b]
  PROVE  c = e
  BY DEF Contents

(* What the next Probe would make of a floppy, unless its file is being    *)
(* written; and what the floppy itself has.                                *)
LEMMA SeenIsNewest ==
  ASSUME CInv, NEW f \in Floppies,
         OtherHost = {} \/ \A d \in Drives : inDrive[d] = f => pc[d] # "writing"
  PROVE  /\ decodeCachedADFHeader(header[f]) => files[header[f].uuid].data = newest[f]
         /\ \A b \in Blocks : b \notin unstored[f] => disk[f][b] = newest[f][b]
  <1>0. /\ SInv /\ ContentsOK /\ DrivesOK /\ UuidsOK /\ TimesOK
        /\ disk \in [Floppies -> Contents] /\ newest \in [Floppies -> Contents]
    BY StructureFacts DEF CInv, TypeOK
  <1>1. CASE Loose(f)
    BY <1>0, <1>1 DEF ContentsOK, LooseAt, Seen
  <1>2. CASE ~Loose(f)
    <2>1. PICK d \in Drives : inDrive[d] = f /\ Serves(d)
      BY <1>2, Bounds DEF Loose, Serves
    <2>2. PICK u : u = medium[d].uuid
      OBVIOUS
    <2>3. header[f].uuid \in {0, u} /\ CachedAt(d) /\ UncachedAt(d)
      BY <1>0, <2>1, <2>2 DEF UuidsOK, ContentsOK
    <2>4. decodeCachedADFHeader(header[f]) =>
             header[f].uuid = u /\ u \in Uuids /\ u # 0 /\ Exists(u)
      BY <1>0, <2>3, StructureFacts DEF decodeCachedADFHeader, TimesOK
    <2>5. CASE medium[d].cached
      BY <2>1, <2>2, <2>3, <2>4, <2>5 DEF CachedAt
    <2>6. CASE ~medium[d].cached
      <3>1. disk[f] = newest[f]
        BY <2>1, <2>3, <2>6 DEF UncachedAt
      <3>2. decodeCachedADFHeader(header[f]) => files[u].data = disk[f]
        BY <1>0, <2>1, <2>2, <2>3, <2>4, <2>6 DEF UncachedAt, decodeCachedADFHeader, DrivesOK
      <3> QED BY <2>4, <3>1, <3>2
    <2> QED BY <2>5, <2>6
  <1> QED BY <1>1, <1>2

(* What a floppy has is all that remains of it when it forgets.            *)
LEMMA Remainder ==
  ASSUME Types, NEW f \in Floppies,
         \A b \in Blocks : b \notin unstored[f] => disk[f][b] = newest[f][b]
  PROVE  Remains(f) = disk[f]
  <1>1. Remains(f) \in Contents /\ disk[f] \in Contents
    BY RemainsTypes DEF Types, TypeOK
  <1>2. \A b \in Blocks : Remains(f)[b] = disk[f][b]
    BY DEF Remains
  <1> QED BY <1>1, <1>2, SameContents

LEMMA EjectContents ==
  ASSUME CInv, SInv', NEW d \in Drives, Eject(d)
  PROVE  ContentsOK'
  <1> SUFFICES ASSUME NEW f \in Floppies, f = inDrive[d] PROVE ContentsOK'
    BY StructureFacts DEF CInv, Eject, TypeOK
  <1>0. /\ SInv /\ ContentsOK /\ f # NoFloppy /\ DrivesOK /\ Types
        /\ disk \in [Floppies -> Contents] /\ newest \in [Floppies -> Contents]
        /\ unstored \in [Floppies -> SUBSET Blocks]
    BY Bounds, StructureFacts DEF CInv, TypeOK
  <1>1. /\ UNCHANGED <<disk, header, files, medium, orphan, due, dueHeader, pc, snap>>
        /\ inDrive' = [inDrive EXCEPT ![d] = NoFloppy]
        /\ pc[d] = "idle" /\ due[d] = Blank
    BY DEF Eject, Quiet, floppyVars, queueVars, cacheVars
  <1>2. inDrive' \in [Drives -> Floppies \union {NoFloppy}] /\ inDrive \in [Drives -> Floppies \union {NoFloppy}]
    BY <1>0, StructureFacts DEF SInv, TInv, Types, TypeOK
  <1>3. /\ \A g \in Floppies \ {f} : newest'[g] = newest[g] /\ unstored'[g] = unstored[g]
        /\ decodeCachedADFHeader(header[f]) => newest'[f] = newest[f] /\ unstored'[f] = unstored[f]
        /\ ~decodeCachedADFHeader(header[f]) => newest'[f] = Remains(f) /\ unstored'[f] = {}
    BY DEF Eject, Forget, Led
  <1>4. Only(d, f, 0) /\ inDrive'[d] = NoFloppy
    BY <1>1, <1>2, <1>3 DEF Only
  <1>5. CachedAt(d)' /\ UncachedAt(d)'
    BY <1>4 DEF CachedAt, UncachedAt, Serves
  <1>6. /\ decodeCachedADFHeader(header[f]) => files[header[f].uuid].data = newest[f]
        /\ \A b \in Blocks : b \notin unstored[f] => disk[f][b] = newest[f][b]
    <2>1. \A e \in Drives : inDrive[e] = f => pc[e] # "writing"
      BY <1>0, <1>1 DEF DrivesOK
    <2> QED BY <2>1, SeenIsNewest
  <1>7. NoFaults => unstored[f] = {}
    <2>1. CASE Serves(d) /\ medium[d].cached
      <3>1. NoFaults => \A b \in Blocks : b \notin unstored[f]
        BY <1>0, <1>1, <2>1 DEF ContentsOK, CachedAt, Blank
      <3> QED BY <1>0, <3>1
    <2>2. CASE Serves(d) /\ ~medium[d].cached
      BY <1>0, <2>2 DEF ContentsOK, UncachedAt
    <2>3. CASE ~Serves(d)
      <3>1. Loose(f)
        BY <1>0, <2>3 DEF Loose, DrivesOK, Serves
      <3> QED BY <1>0, <3>1 DEF ContentsOK, LooseAt
    <2> QED BY <2>1, <2>2, <2>3
  <1>8. LooseAt(f)'
    <2>1. decodeCachedADFHeader(header[f])' <=> decodeCachedADFHeader(header[f])
      BY <1>1 DEF decodeCachedADFHeader
    <2>2. CASE decodeCachedADFHeader(header[f])
      BY <1>1, <1>3, <1>6, <1>7, <2>1, <2>2 DEF LooseAt, Seen, NoFaults
    <2>3. CASE ~decodeCachedADFHeader(header[f])
      <3>1. newest'[f] = disk[f]
        BY <1>0, <1>3, <1>6, <2>3, Remainder
      <3> QED BY <1>1, <1>3, <2>1, <2>3, <3>1 DEF LooseAt, Seen
    <2> QED BY <2>2, <2>3
  <1>9. \A g \in Floppies \ {f} : LooseAt(g)'
    BY <1>0, <1>4, OthersKept
  <1>10. \A e \in Drives \ {d} : CachedAt(e)' /\ UncachedAt(e)'
    BY <1>0, <1>4, OthersKept
  <1> QED BY <1>5, <1>8, <1>9, <1>10 DEF ContentsOK

LEMMA InsertContents ==
  ASSUME CInv, SInv', NEW d \in Drives, NEW f \in Floppies, Insert(d, f)
  PROVE  ContentsOK'
  <1>0. SInv /\ ContentsOK
    BY DEF CInv
  <1>1. /\ UNCHANGED <<disk, header, files, medium, orphan, due, dueHeader, pc, snap, newest, unstored>>
        /\ inDrive' = [inDrive EXCEPT ![d] = f]
        /\ ~medium[d].present /\ inDrive[d] = NoFloppy
    BY DEF Insert, floppyVars, queueVars, cacheVars
  <1>2. \A e \in Drives \ {d} : inDrive'[e] = inDrive[e]
    BY <1>1
  <1>3. \A e \in Drives : CachedAt(e)' /\ UncachedAt(e)'
    <2>1. CachedAt(d)' /\ UncachedAt(d)'
      BY <1>1 DEF CachedAt, UncachedAt, Serves
    <2>2. ASSUME NEW e \in Drives \ {d} PROVE CachedAt(e)' /\ UncachedAt(e)'
      <3>1. CachedAt(e) /\ UncachedAt(e)
        BY <1>0 DEF ContentsOK
      <3> QED BY <1>1, <1>2, <3>1 DEF CachedAt, UncachedAt, Serves, Exists, decodeCachedADFHeader
    <2> QED BY <2>1, <2>2
  <1>4. ASSUME NEW g \in Floppies PROVE LooseAt(g)'
    <2>1. Loose(g)' => Loose(g)
      <3> SUFFICES ASSUME Loose(g)', NEW e \in Drives, inDrive[e] = g PROVE ~medium[e].present
        BY DEF Loose
      <3>1. e # d
        BY <1>1, Bounds
      <3> QED BY <1>1, <1>2, <3>1 DEF Loose
    <2>2. LooseAt(g)
      BY <1>0 DEF ContentsOK
    <2> QED BY <1>1, <2>1, <2>2 DEF LooseAt, Seen, decodeCachedADFHeader
  <1> QED BY <1>3, <1>4 DEF ContentsOK

LEMMA OtherHostContents ==
  ASSUME CInv, SInv', HostsOrFaults, NEW f \in Floppies, NEW b \in Blocks, NEW how \in OtherHost,
         OtherHostWrites(f, b, how)
  PROVE  ContentsOK'
  <1>0. /\ SInv /\ ContentsOK /\ OtherHost = {"cached"} /\ how = "cached" /\ NoFaults
        /\ disk \in [Floppies -> Contents] /\ newest \in [Floppies -> Contents]
        /\ header \in [Floppies -> Header] /\ clock \in Nat
    BY StructureFacts, Bounds DEF CInv, HostsOrFaults, NoFaults, TypeOK
  <1>1. /\ UNCHANGED <<inDrive, files, medium, orphan, due, dueHeader, pc, snap, unstored>>
        /\ disk' = [disk EXCEPT ![f][b] = writes'] /\ newest' = [newest EXCEPT ![f][b] = writes']
        /\ header' = [header EXCEPT ![f].mtime = clock'] /\ clock' = clock + 1
        /\ \A e \in Drives : inDrive[e] # f
    BY <1>0 DEF OtherHostWrites, NewWrite, queueVars, cacheVars
  <1>2. \A g \in Floppies \ {f} : disk'[g] = disk[g] /\ newest'[g] = newest[g] /\ header'[g] = header[g]
    BY <1>1
  <1>3. ASSUME NEW e \in Drives PROVE CachedAt(e)' /\ UncachedAt(e)'
    <2>1. Serves(e) => inDrive[e] \in Floppies \ {f}
      BY <1>0, <1>1, StructureFacts
    <2>2. CachedAt(e) /\ UncachedAt(e)
      BY <1>0 DEF ContentsOK
    <2> QED BY <1>1, <1>2, <2>1, <2>2 DEF CachedAt, UncachedAt, Serves, Exists, decodeCachedADFHeader
  <1>4. ASSUME NEW g \in Floppies PROVE LooseAt(g)'
    <2>1. LooseAt(g)
      BY <1>0 DEF ContentsOK
    <2>2. CASE g # f
      BY <1>1, <1>2, <2>1, <2>2 DEF LooseAt, Seen, decodeCachedADFHeader, Loose
    <2>3. CASE g = f
      <3>1. disk[f] = newest[f] /\ unstored[f] = {}
        <4>1. unstored[f] = {} /\ \A c \in Blocks : disk[f][c] = newest[f][c]
          BY <1>0, <1>1, <2>1, <2>3 DEF LooseAt, Loose
        <4> QED BY <1>0, <4>1, SameContents
      <3>2. disk'[f] = [disk[f] EXCEPT ![b] = writes'] /\ newest'[f] = [newest[f] EXCEPT ![b] = writes']
        BY <1>0, <1>1
      <3>3. header'[f].uuid = header[f].uuid /\ header'[f].mtime = clock + 1
        BY <1>0, <1>1 DEF Header
      <3>4. ~decodeCachedADFHeader(header[f])'
        <4>1. header[f].uuid # 0 => header[f].uuid \in Uuids /\ files[header[f].uuid] \in File
                                    /\ files[header[f].uuid].mtime <= clock
          BY <1>0, StructureFacts DEF TypeOK, TimesOK
        <4> QED BY <1>0, <1>1, <3>3, <4>1 DEF decodeCachedADFHeader, File
      <3> QED BY <1>1, <2>3, <3>1, <3>2, <3>4 DEF LooseAt, Seen
    <2> QED BY <2>2, <2>3
  <1> QED BY <1>3, <1>4 DEF ContentsOK

LEMMA ProbeContents ==
  ASSUME CInv, SInv', NEW d \in Drives, NEW formatted \in BOOLEAN, NEW force \in BOOLEAN,
         Probe(d, formatted, force)
  PROVE  ContentsOK'
  <1> SUFFICES ASSUME NEW f \in Floppies, f = inDrive[d], NEW u, u = header[f].uuid,
                      NEW accepted \in BOOLEAN, accepted <=> decodeCachedADFHeader(header[f]),
                      NEW removed \in BOOLEAN, removed <=> accepted /\ (formatted \/ force)
               PROVE  ContentsOK'
    BY StructureFacts DEF CInv, Probe, TypeOK
  <1>0. /\ SInv /\ ContentsOK /\ f # NoFloppy /\ Types
        /\ disk \in [Floppies -> Contents] /\ newest \in [Floppies -> Contents]
        /\ unstored \in [Floppies -> SUBSET Blocks]
        /\ medium \in [Drives -> Medium] /\ files \in [Uuids -> File]
    BY StructureFacts, Bounds DEF CInv, TypeOK
  <1>1. /\ UNCHANGED <<header, inDrive, orphan, due, dueHeader, pc, snap>>
        /\ ~medium[d].present /\ pc[d] = "idle" /\ due[d] = Blank
    BY <1>0, StructureFacts DEF Probe, Serves, queueVars, cacheVars
  <1>2. /\ removed => files' = [files EXCEPT ![u] = NoFile] /\ unstored' = [unstored EXCEPT ![f] = {}]
        /\ ~removed => files' = files /\ unstored' = unstored
    BY DEF Probe
  <1>3. PICK kept : kept = IF removed THEN Remains(f) ELSE newest[f]
    OBVIOUS
  <1>4. /\ formatted => /\ disk' = [disk EXCEPT ![f][BootBlock] = writes']
                        /\ newest' = [newest EXCEPT ![f] = [kept EXCEPT ![BootBlock] = writes']]
        /\ ~formatted => disk' = disk /\ newest' = [newest EXCEPT ![f] = kept]
    BY <1>3 DEF Probe
  <1>5. /\ \A e \in Drives \ {d} : medium'[e] = medium[e]
        /\ medium'[d].present /\ medium'[d].uuid = u /\ medium'[d].handle = "none"
        /\ medium'[d].cached <=> accepted /\ ~removed
    BY <1>0 DEF Probe, NoMedium
  <1>6. accepted => u \in Uuids /\ Exists(u) /\ files[u].full
    BY <1>0, StructureFacts DEF decodeCachedADFHeader, TimesOK
  <1>7. Only(d, f, u)
    BY <1>0, <1>1, <1>2, <1>4, <1>5 DEF Only
  <1>8. Loose(f)
    BY <1>0, <1>1, StructureFacts DEF Loose, DrivesOK
  <1>9. /\ Seen(f) = newest[f]
        /\ \A b \in Blocks : b \notin unstored[f] => disk[f][b] = newest[f][b]
        /\ NoFaults \/ ~accepted => unstored[f] = {}
    BY <1>0, <1>8 DEF ContentsOK, LooseAt
  <1>10. CachedAt(d)'
    <2> SUFFICES ASSUME accepted, ~removed PROVE CachedAt(d)'
      BY <1>5 DEF CachedAt
    <2>1. /\ files' = files /\ UNCHANGED <<unstored, disk>> /\ Exists(u) /\ files[u].full
          /\ newest'[f] = newest[f]
      BY <1>0, <1>2, <1>3, <1>4, <1>6
    <2>2. files[u].data = newest[f]
      BY <1>9 DEF Seen
    <2> QED BY <1>1, <1>5, <1>9, <2>1, <2>2 DEF CachedAt, Exists, Blank, NoFaults
  <1>11. UncachedAt(d)'
    <2> SUFFICES ASSUME ~accepted \/ removed PROVE UncachedAt(d)'
      BY <1>5 DEF UncachedAt
    <2>1. kept = disk[f] /\ unstored'[f] = {}
      <3>1. CASE ~accepted
        BY <1>2, <1>3, <1>9, <3>1 DEF Seen
      <3>2. CASE removed
        BY <1>0, <1>2, <1>3, <1>9, <3>2, Remainder
      <3> QED BY <3>1, <3>2
    <2>2. disk'[f] = newest'[f]
      BY <1>0, <1>4, <2>1
    <2>3. u # 0 => ~(files'[u].full /\ files'[u].mtime >= header[f].mtime)
      <3>1. CASE removed
        BY <1>0, <1>2, <1>6, <3>1 DEF NoFile
      <3>2. CASE ~removed
        BY <1>2, <3>2 DEF decodeCachedADFHeader
      <3> QED BY <3>1, <3>2
    <2> QED BY <1>1, <1>5, <2>1, <2>2, <2>3 DEF UncachedAt
  <1> QED BY <1>0, <1>1, <1>5, <1>7, <1>10, <1>11, OneDriveStep

LEMMA CloseMediumContents ==
  ASSUME CInv, NEW d \in Drives, CloseMedium(d)
  PROVE  ContentsOK'
  <1>0. ContentsOK
    BY DEF CInv
  <1>1. /\ UNCHANGED <<disk, header, inDrive, files, due, pc, snap, newest, unstored>>
        /\ inDrive[d] = NoFloppy
        /\ \A e \in Drives \ {d} : medium'[e] = medium[e] /\ orphan'[e] = orphan[e]
    BY DEF CloseMedium, floppyVars, queueVars, cacheVars
  <1>2. ASSUME NEW e \in Drives PROVE CachedAt(e)' /\ UncachedAt(e)'
    <2>1. CachedAt(e) /\ UncachedAt(e)
      BY <1>0 DEF ContentsOK
    <2>2. CASE e = d
      BY <1>1, <2>2 DEF CachedAt, UncachedAt, Serves
    <2>3. CASE e # d
      BY <1>1, <2>1, <2>3 DEF CachedAt, UncachedAt, Serves, Exists, decodeCachedADFHeader
    <2> QED BY <2>2, <2>3
  <1>3. ASSUME NEW g \in Floppies PROVE LooseAt(g)'
    <2>1. LooseAt(g)
      BY <1>0 DEF ContentsOK
    <2>2. Loose(g)' => Loose(g)
      BY <1>1, Bounds DEF Loose
    <2> QED BY <1>1, <2>1, <2>2 DEF LooseAt, Seen, decodeCachedADFHeader
  <1> QED BY <1>2, <1>3 DEF ContentsOK

LEMMA cachedReadContents ==
  ASSUME CInv, SInv', NEW d \in Drives, cachedRead(d)
  PROVE  ContentsOK'
  <1>0. SInv /\ ContentsOK /\ medium \in [Drives -> Medium]
    BY StructureFacts DEF CInv, TypeOK
  <1>1. /\ UNCHANGED <<disk, header, inDrive, files, orphan, due, pc, snap, newest, unstored>>
        /\ medium' = [medium EXCEPT ![d].handle = "adf"] /\ medium[d].cached
        /\ medium[d].handle = "adf" \/ Exists(medium[d].uuid)
        /\ medium[d].present /\ Serves(d)
    BY DEF cachedRead, CanOpenCached, Idle, Serves, floppyVars, queueVars, cacheVars
  <1>2. /\ \A e \in Drives \ {d} : medium'[e] = medium[e]
        /\ medium'[d].present /\ medium'[d].cached /\ medium'[d].uuid = medium[d].uuid
    BY <1>0, <1>1 DEF Medium
  <1>3. CachedAt(d)
    BY <1>0 DEF ContentsOK
  <1>4. CachedAt(d)' /\ UncachedAt(d)'
    BY <1>1, <1>2, <1>3 DEF CachedAt, UncachedAt, Serves, Exists, decodeCachedADFHeader
  <1>5. Only(d, inDrive[d], 0) /\ inDrive[d] \in Floppies
    BY <1>0, <1>1, <1>2, StructureFacts DEF Only
  <1> QED BY <1>0, <1>1, <1>2, <1>4, <1>5, OneDriveStep

LEMMA realWriteContents ==
  ASSUME CInv, SInv', NEW d \in Drives, NEW b \in Blocks, realWrite(d, b)
  PROVE  ContentsOK'
  <1> SUFFICES ASSUME NEW f \in Floppies, f = inDrive[d] PROVE ContentsOK'
    BY StructureFacts DEF CInv, realWrite, Idle, TypeOK
  <1>0. /\ SInv /\ ContentsOK /\ medium \in [Drives -> Medium]
        /\ disk \in [Floppies -> Contents] /\ newest \in [Floppies -> Contents]
    BY StructureFacts DEF CInv, TypeOK
  <1>1. /\ UNCHANGED <<header, inDrive, files, orphan, due, pc, snap, unstored>>
        /\ medium' = [medium EXCEPT ![d].handle = "device"] /\ ~medium[d].cached
        /\ disk' = [disk EXCEPT ![f][b] = writes'] /\ newest' = [newest EXCEPT ![f][b] = writes']
        /\ medium[d].present /\ Serves(d) /\ pc[d] = "idle"
    BY DEF realWrite, Idle, NewWrite, Serves, queueVars, cacheVars
  <1>2. /\ \A e \in Drives \ {d} : medium'[e] = medium[e]
        /\ medium'[d].present /\ ~medium'[d].cached /\ medium'[d].uuid = medium[d].uuid
    BY <1>0, <1>1 DEF Medium
  <1>3. UncachedAt(d)
    BY <1>0 DEF ContentsOK
  <1>4. disk'[f] = newest'[f] /\ unstored[f] = {}
    BY <1>0, <1>1, <1>3 DEF UncachedAt
  <1>5. CachedAt(d)' /\ UncachedAt(d)'
    BY <1>1, <1>2, <1>3, <1>4 DEF CachedAt, UncachedAt, Serves, Exists
  <1>6. Only(d, f, 0)
    BY <1>0, <1>1, <1>2 DEF Only
  <1> QED BY <1>0, <1>1, <1>2, <1>5, <1>6, OneDriveStep

LEMMA cachedWriteContents ==
  ASSUME CInv, SInv', NEW d \in Drives, NEW b \in Blocks, cachedWrite(d, b)
  PROVE  ContentsOK'
  <1>0. /\ SInv /\ ContentsOK /\ medium \in [Drives -> Medium] /\ files \in [Uuids -> File]
        /\ disk \in [Floppies -> Contents] /\ newest \in [Floppies -> Contents]
        /\ unstored \in [Floppies -> SUBSET Blocks]
        /\ due \in [Drives -> Contents] /\ orphan \in [Drives -> Contents]
        /\ clock \in Nat /\ clock # 0 /\ writes' \in Nat /\ writes' # 0
    BY StructureFacts, Bounds DEF CInv, TypeOK, Types, cachedWrite, NewWrite, NextWrite
  <1> SUFFICES ASSUME NEW f \in Floppies, f = inDrive[d],
                      NEW u \in Uuids, u = medium[d].uuid
               PROVE  ContentsOK'
    BY <1>0, StructureFacts DEF cachedWrite, CanOpenCached, Idle, Serves
  <1>1. /\ UNCHANGED <<disk, header, inDrive, pc, snap>>
        /\ unstored' = [unstored EXCEPT ![f] = @ \union {b}]
        /\ medium' = [medium EXCEPT ![d].handle = "adf"] /\ medium[d].cached
        /\ medium[d].handle = "adf" \/ Exists(u)
        /\ due' = [due EXCEPT ![d][b] = writes'] /\ newest' = [newest EXCEPT ![f][b] = writes']
        /\ Serves(d) /\ medium[d].present
        /\ Exists(u) => /\ files' = [files EXCEPT ![u].data[b] = writes', ![u].mtime = clock]
                        /\ orphan' = orphan
        /\ ~Exists(u) => orphan' = [orphan EXCEPT ![d][b] = writes'] /\ files' = files
    BY DEF cachedWrite, CanOpenCached, Idle, NewWrite, Serves, floppyVars, cacheVars
  <1>2. /\ \A e \in Drives \ {d} : medium'[e] = medium[e]
        /\ medium'[d].present /\ medium'[d].cached /\ medium'[d].uuid = u
        /\ medium'[d].handle = "adf"
    BY <1>0, <1>1 DEF Medium
  <1>3. /\ \A c \in Blocks : due'[d][c] = IF c = b THEN writes' ELSE due[d][c]
        /\ \A c \in Blocks : newest'[f][c] = IF c = b THEN writes' ELSE newest[f][c]
        /\ newest'[f] = [newest[f] EXCEPT ![b] = writes']
    BY <1>0, <1>1 DEF Contents
  <1>4. /\ Exists(u) => /\ files'[u].full = files[u].full
                        /\ files'[u].data = [files[u].data EXCEPT ![b] = writes']
                        /\ files'[u].mtime = clock
        /\ ~Exists(u) => orphan'[d] = [orphan[d] EXCEPT ![b] = writes']
        /\ Exists(u)' <=> Exists(u)
    BY <1>0, <1>1, <1>2 DEF File, Exists
  <1>5. CachedAt(d)
    BY <1>0 DEF ContentsOK
  <1>6. \A c \in Blocks : c \in unstored'[f] <=> c = b \/ c \in unstored[f]
    BY <1>0, <1>1
  <1>7. CachedAt(d)'
    <2>1. /\ Exists(u) => files'[u].full /\ files'[u].data = newest'[f]
          /\ ~Exists(u) => orphan'[d] = newest'[f]
      BY <1>1, <1>3, <1>4, <1>5 DEF CachedAt
    <2>2. ASSUME NEW c \in Blocks
          PROVE  /\ due'[d][c] # 0 => c \in unstored'[f]
                 /\ c \notin unstored'[f] => disk[f][c] = newest'[f][c]
                 /\ NoFaults /\ c \in unstored'[f] => due'[d][c] # 0 /\ due'[d][c] = newest'[f][c]
      BY <1>0, <1>1, <1>3, <1>5, <1>6 DEF CachedAt
    <2> QED BY <1>1, <1>2, <1>4, <2>1, <2>2 DEF CachedAt, NoFaults
  <1>8. UncachedAt(d)'
    BY <1>2 DEF UncachedAt
  <1>9. Only(d, f, u)
    BY <1>0, <1>1, <1>2 DEF Only
  <1> QED BY <1>0, <1>1, <1>2, <1>7, <1>8, <1>9, OneDriveStep

(* cachedWriteFails leaves files and floppies alone.                       *)
LEMMA cachedWriteFailsContents ==
  ASSUME CInv, SInv', NEW d \in Drives, NEW b \in Blocks, cachedWriteFails(d, b)
  PROVE  ContentsOK'
  <1>0. /\ SInv /\ ContentsOK /\ medium \in [Drives -> Medium]
        /\ unstored \in [Floppies -> SUBSET Blocks] /\ due \in [Drives -> Contents]
        /\ ~NoFaults
    BY StructureFacts, Bounds DEF CInv, TypeOK, Types, cachedWriteFails, NoFaults
  <1> SUFFICES ASSUME NEW f \in Floppies, f = inDrive[d] PROVE ContentsOK'
    BY <1>0, StructureFacts DEF cachedWriteFails, CanOpenCached, Idle, Serves
  <1>1. /\ UNCHANGED <<disk, header, inDrive, files, orphan, pc, snap, newest>>
        /\ medium' = [medium EXCEPT ![d].handle = "adf"] /\ medium[d].cached
        /\ medium[d].handle = "adf" \/ Exists(medium[d].uuid)
        /\ due' = [due EXCEPT ![d][b] = writes']
        /\ unstored' = [unstored EXCEPT ![f] = @ \union {b}]
        /\ Serves(d) /\ medium[d].present
    BY DEF cachedWriteFails, CanOpenCached, Idle, Serves, floppyVars, cacheVars
  <1>2. /\ \A e \in Drives \ {d} : medium'[e] = medium[e]
        /\ medium'[d].present /\ medium'[d].cached /\ medium'[d].uuid = medium[d].uuid
    BY <1>0, <1>1 DEF Medium
  <1>3. \A c \in Blocks : /\ due'[d][c] = IF c = b THEN writes' ELSE due[d][c]
                          /\ c \in unstored'[f] <=> c = b \/ c \in unstored[f]
    BY <1>0, <1>1 DEF Contents
  <1>4. CachedAt(d)
    BY <1>0 DEF ContentsOK
  <1>5. CachedAt(d)' /\ UncachedAt(d)'
    BY <1>0, <1>1, <1>2, <1>3, <1>4 DEF CachedAt, UncachedAt, Serves, Exists, NoFaults
  <1>6. Only(d, f, 0)
    BY <1>0, <1>1, <1>2 DEF Only
  <1> QED BY <1>0, <1>1, <1>2, <1>5, <1>6, OneDriveStep

LEMMA CacheBeginContents ==
  ASSUME CInv, SInv', NEW d \in Drives, CacheBegin(d)
  PROVE  ContentsOK'
  <1>0. SInv /\ ContentsOK /\ medium \in [Drives -> Medium] /\ uuids' \in Nat
    BY StructureFacts, Bounds DEF CInv, TypeOK, SInv, TInv, Types
  <1>1. /\ UNCHANGED <<disk, header, inDrive, files, orphan, due, newest, unstored>>
        /\ ~medium[d].cached /\ medium[d].present /\ Serves(d) /\ pc[d] = "idle"
        /\ pc' = [pc EXCEPT ![d] = "check"]
        /\ \A e \in Drives \ {d} : medium'[e] = medium[e] /\ snap'[e] = snap[e]
        /\ medium[d].uuid = 0 => uuids' = uuids + 1
    BY <1>0, StructureFacts DEF CacheBegin, Idle, Goto, Serves, TypeOK, floppyVars, queueVars
  <1>2. /\ medium'[d].present /\ ~medium'[d].cached
        /\ medium'[d].uuid = IF medium[d].uuid = 0 THEN uuids' ELSE medium[d].uuid
    <2>1. medium' = [medium EXCEPT ![d].handle = "device",
                       ![d].uuid = IF medium[d].uuid = 0 THEN uuids' ELSE medium[d].uuid]
      BY DEF CacheBegin
    <2> QED BY <1>0, <1>1, <2>1 DEF Medium
  <1>3. UncachedAt(d) /\ inDrive[d] \in Floppies /\ pc'[d] = "check"
    BY <1>0, <1>1, StructureFacts DEF ContentsOK, SInv, TInv, Types, TypeOK
  <1>4. medium'[d].uuid # 0 => ~(files[medium'[d].uuid].full
                                 /\ files[medium'[d].uuid].mtime >= header[inDrive[d]].mtime)
    <2>1. CASE medium[d].uuid = 0
      <3>1. uuids \in Nat /\ uuids' \in Uuids
        BY <1>0, <1>1, <2>1, Bounds DEF SInv, TInv, Types
      <3>2. files[uuids'] = NoFile
        BY <1>0, <1>1, <2>1, <3>1, StructureFacts DEF UuidsOK
      <3> QED BY <1>2, <2>1, <3>2 DEF NoFile
    <2>2. CASE medium[d].uuid # 0
      BY <1>1, <1>2, <1>3, <2>2 DEF UncachedAt
    <2> QED BY <2>1, <2>2
  <1>5. CachedAt(d)' /\ UncachedAt(d)'
    BY <1>1, <1>2, <1>3, <1>4 DEF CachedAt, UncachedAt
  <1>6. Only(d, inDrive[d], 0)
    BY <1>1 DEF Only
  <1> QED BY <1>0, <1>1, <1>2, <1>3, <1>5, <1>6, OneDriveStep

LEMMA CheckQuotaContents ==
  ASSUME CInv, SInv', NEW d \in Drives, CheckQuota(d)
  PROVE  ContentsOK'
  <1>0. SInv /\ ContentsOK
    BY DEF CInv
  <1>1. /\ UNCHANGED <<disk, header, inDrive, files, medium, orphan, due, snap, newest, unstored>>
        /\ pc[d] = "check" /\ \A e \in Drives \ {d} : pc'[e] = pc[e]
        /\ pc'[d] # "stat" /\ Serves(d) /\ medium[d].present
    BY <1>0, StructureFacts DEF CheckQuota, Goto, Serves, TypeOK, floppyVars, queueVars
  <1>2. CachedAt(d) /\ UncachedAt(d)
    BY <1>0 DEF ContentsOK
  <1>3. CachedAt(d)' /\ UncachedAt(d)'
    BY <1>1, <1>2 DEF CachedAt, UncachedAt, Serves, Exists, decodeCachedADFHeader
  <1>4. Only(d, inDrive[d], 0) /\ inDrive[d] \in Floppies
    BY <1>0, <1>1, StructureFacts DEF Only
  <1> QED BY <1>0, <1>1, <1>3, <1>4, OneDriveStep

LEMMA EvictContents ==
  ASSUME CInv, SInv', NEW d \in Drives, Evict(d)
  PROVE  ContentsOK'
  <1>0. /\ SInv /\ ContentsOK /\ medium \in [Drives -> Medium] /\ files \in [Uuids -> File]
        /\ disk \in [Floppies -> Contents] /\ newest \in [Floppies -> Contents]
        /\ Types /\ DrivesOK /\ UuidsOK /\ TimesOK /\ pc \in [Drives -> {"idle", "check", "evict", "write", "writing", "stat"}]
    BY StructureFacts DEF CInv, TypeOK
  <1> SUFFICES ASSUME NEW v \in Uuids, v = victim[d] PROVE ContentsOK'
    <2>1. victim[d] # 0 /\ victim[d] \in 0..MaxUuids
      BY <1>0, StructureFacts DEF Evict, TInv, BusyOK, TypeOK
    <2> QED BY <2>1, Bounds
  <1>1. /\ UNCHANGED <<disk, header, inDrive, due, snap>>
        /\ pc[d] = "evict" /\ pc'[d] \in {"write", "idle"}
        /\ \A e \in Drives \ {d} : pc'[e] = pc[e]
        /\ \A e \in Drives : \A x \in {"present", "uuid", "cached", "handle"} :
              medium'[e][x] = medium[e][x]
        /\ Serves(d)
    BY <1>0, StructureFacts DEF Evict, CacheFails, Goto, Medium, floppyVars, queueVars
  <1>2. CASE ~Exists(v)
    <2>1. UNCHANGED <<files, orphan, newest, unstored>>
      BY <1>2 DEF Evict
    <2>2. ASSUME NEW e \in Drives PROVE CachedAt(e)' /\ UncachedAt(e)'
      <3>1. CachedAt(e) /\ UncachedAt(e)
        BY <1>0 DEF ContentsOK
      <3>2. CachedAt(e)'
        BY <1>1, <2>1, <3>1 DEF CachedAt, Serves, Exists, NoFaults
      <3>3. UncachedAt(e)'
        <4>1. pc'[e] = "stat" => pc[e] = "stat"
          BY <1>1
        <4>2. pc[e] \in {"stat", "writing"} => pc'[e] = pc[e]
          BY <1>1
        <4> QED BY <1>1, <2>1, <3>1, <4>1, <4>2 DEF UncachedAt, Serves, Exists
      <3> QED BY <3>2, <3>3
    <2>3. ASSUME NEW g \in Floppies PROVE LooseAt(g)'
      BY <1>0, <1>1, <2>1 DEF ContentsOK, LooseAt, Loose, Seen, decodeCachedADFHeader, NoFaults
    <2> QED BY <2>2, <2>3 DEF ContentsOK
  <1>3. CASE Exists(v)
    <2>1. /\ files' = [files EXCEPT ![v] = NoFile]
          /\ orphan' = [e \in Drives |->
                IF medium[e].handle = "adf" /\ medium[e].uuid = v THEN files[v].data ELSE orphan[e]]
          /\ Forget({g \in Floppies : header[g].uuid = v /\ ~Served(g)})
      BY <1>3 DEF Evict
    <2>2. /\ ~files'[v].full /\ files'[v].mtime = 0 /\ ~Exists(v)'
          /\ \A w \in Uuids \ {v} : files'[w] = files[w]
      BY <1>0, <2>1 DEF NoFile, Exists
    <2>3. ASSUME NEW g \in Floppies, header[g].uuid # v \/ Served(g)
          PROVE  newest'[g] = newest[g] /\ unstored'[g] = unstored[g]
      BY <2>1, <2>3 DEF Forget
    <2>4. ASSUME NEW e \in Drives PROVE CachedAt(e)'
      <3> SUFFICES ASSUME Serves(e), medium[e].cached,
                          NEW f \in Floppies, f = inDrive[e],
                          NEW u \in Uuids, u = medium[e].uuid
                   PROVE  CachedAt(e)'
        BY <1>0, <1>1, StructureFacts DEF CachedAt, Serves
      <3>1. CachedAt(e) /\ newest'[f] = newest[f] /\ unstored'[f] = unstored[f]
        BY <1>0, <2>3 DEF ContentsOK, Served, Serves
      <3>2. inDrive'[e] = f /\ medium'[e].uuid = u /\ medium'[e].handle = medium[e].handle
        BY <1>1
      <3>3. CASE u # v
        <4>1. orphan'[e] = orphan[e] /\ files'[u] = files[u]
          BY <2>1, <2>2, <3>3
        <4> QED BY <1>1, <3>1, <3>2, <4>1 DEF CachedAt, Exists, NoFaults
      <3>4. CASE u = v
        <4>1. medium[e].handle = "adf" => orphan'[e] = files[v].data
          BY <2>1, <3>4
        <4>2. files[v].data = newest[f]
          BY <1>3, <3>1, <3>4 DEF CachedAt
        <4> QED BY <1>1, <2>2, <3>1, <3>2, <3>4, <4>1, <4>2 DEF CachedAt, NoFaults
      <3> QED BY <3>3, <3>4
    <2>5. ASSUME NEW e \in Drives PROVE UncachedAt(e)'
      <3> SUFFICES ASSUME Serves(e), ~medium[e].cached,
                          NEW f \in Floppies, f = inDrive[e], NEW u, u = medium[e].uuid
                   PROVE  UncachedAt(e)'
        BY <1>0, <1>1, StructureFacts DEF UncachedAt, Serves
      <3>1. /\ UncachedAt(e) /\ inDrive'[e] = f /\ medium'[e].uuid = u
            /\ u # 0 => u \in Uuids
            /\ pc[e] # "idle" => u \in Uuids
            /\ newest'[f] = newest[f] /\ unstored'[f] = unstored[f]
            /\ pc'[e] = "stat" => pc[e] = "stat"
            /\ pc[e] \in {"stat", "writing"} => pc'[e] = pc[e]
        BY <1>0, <1>1, <2>1, <2>3, StructureFacts DEF ContentsOK, Served, Serves
      <3>2. u # v /\ u \in Uuids => files'[u] = files[u]
        BY <2>2
      <3>3. CASE u = v
        BY <1>1, <2>2, <3>1, <3>3 DEF UncachedAt
      <3>4. CASE u # v
        BY <1>1, <3>1, <3>2, <3>4 DEF UncachedAt, Exists
      <3> QED BY <3>3, <3>4
    <2>6. ASSUME NEW g \in Floppies PROVE LooseAt(g)'
      <3> SUFFICES ASSUME Loose(g)' PROVE LooseAt(g)'
        BY DEF LooseAt
      <3>1. Loose(g) /\ ~Served(g)
        BY <1>1 DEF Loose, Served
      <3>2. LooseAt(g)
        BY <1>0 DEF ContentsOK
      <3>3. CASE header[g].uuid # v
        <4>1. /\ header'[g] = header[g] /\ disk'[g] = disk[g]
              /\ newest'[g] = newest[g] /\ unstored'[g] = unstored[g]
              /\ header[g].uuid # 0 => files'[header[g].uuid] = files[header[g].uuid]
          BY <1>0, <1>1, <2>2, <2>3, <3>3, StructureFacts
        <4> QED BY <3>1, <3>2, <4>1 DEF LooseAt, Seen, decodeCachedADFHeader, NoFaults
      <3>4. CASE header[g].uuid = v
        <4>1. newest'[g] = Remains(g) /\ unstored'[g] = {}
          BY <2>1, <3>1, <3>4 DEF Forget
        <4>2. newest'[g] = disk[g]
          BY <1>0, <3>1, <3>2, <4>1, Remainder DEF LooseAt
        <4>3. ~decodeCachedADFHeader(header[g])'
          BY <1>1, <2>2, <3>4 DEF decodeCachedADFHeader
        <4> QED BY <1>1, <4>1, <4>2, <4>3 DEF LooseAt, Seen
      <3> QED BY <3>3, <3>4
    <2> QED BY <2>4, <2>5, <2>6 DEF ContentsOK
  <1> QED BY <1>2, <1>3

(* What the steps of floppyCacheAdf after the check have in common.        *)
LEMMA BusyDrive ==
  ASSUME CInv, NEW d \in Drives, pc[d] # "idle"
  PROVE  /\ SInv /\ ContentsOK /\ medium \in [Drives -> Medium] /\ files \in [Uuids -> File]
         /\ pc \in [Drives -> {"idle", "check", "evict", "write", "writing", "stat"}]
         /\ Serves(d) /\ medium[d].present /\ ~medium[d].cached
         /\ inDrive[d] \in Floppies /\ medium[d].uuid \in Uuids /\ medium[d].uuid # 0
         /\ snap[d] = disk[inDrive[d]]
         /\ header[inDrive[d]].uuid \in {0, medium[d].uuid}
         /\ header[inDrive[d]].uuid = 0 => header[inDrive[d]].mtime = 0
         /\ UncachedAt(d)
  <1>1. SInv /\ ContentsOK
    BY DEF CInv
  <1>2. /\ Serves(d) /\ inDrive[d] \in Floppies /\ medium[d].uuid \in Uuids
    BY <1>1, StructureFacts
  <1>3. DrivesOK /\ UuidsOK /\ TypeOK
    BY <1>1, StructureFacts
  <1>4. header[inDrive[d]].uuid = 0 => header[inDrive[d]].mtime = 0
    BY <1>2, <1>3 DEF UuidsOK, NoHeader
  <1> QED BY <1>1, <1>2, <1>3, <1>4, Bounds DEF DrivesOK, UuidsOK, TypeOK, ContentsOK, Serves

LEMMA WriteFileBeginContents ==
  ASSUME CInv, SInv', HostsOrFaults, NEW d \in Drives, WriteFileBegin(d)
  PROVE  ContentsOK'
  <1> SUFFICES ASSUME NEW f \in Floppies, f = inDrive[d], NEW u \in Uuids, u = medium[d].uuid
               PROVE  ContentsOK'
    BY BusyDrive DEF WriteFileBegin
  <1>0. pc[d] = "write" /\ SInv /\ ContentsOK
    BY BusyDrive DEF WriteFileBegin
  <1>1. /\ UNCHANGED <<disk, header, inDrive, medium, orphan, due, snap, newest, unstored>>
        /\ pc'[d] = "writing" /\ \A e \in Drives \ {d} : pc'[e] = pc[e]
    BY <1>0, BusyDrive DEF WriteFileBegin, Goto, floppyVars, queueVars
  <1>2. /\ \A v \in Uuids \ {u} : files'[v] = files[v]
        /\ files'[u].full = files[u].full
    BY <1>0, BusyDrive DEF WriteFileBegin, File
  <1>3. OtherHost = {} => ~files[u].full
    <2> SUFFICES ASSUME OtherHost = {}, files[u].full PROVE FALSE
      OBVIOUS
    <2>1. header[f].mtime <= files[u].mtime
      <3>1. TimesOK /\ files[u].mtime \in Nat
        BY <1>0, StructureFacts DEF TypeOK, File
      <3> QED BY <1>0, <3>1, BusyDrive DEF TimesOK
    <2>2. files[u].mtime \in Nat /\ header[f].mtime \in Nat
      BY <1>0, StructureFacts DEF TypeOK, File, Header
    <2> QED BY <1>0, <2>1, <2>2, BusyDrive DEF UncachedAt
  <1>4. CachedAt(d)' /\ UncachedAt(d)'
    <2>1. CachedAt(d)'
      BY <1>0, <1>1, BusyDrive DEF CachedAt
    <2>2. UncachedAt(d)'
      BY <1>0, <1>1, <1>2, <1>3, BusyDrive DEF UncachedAt, Serves
    <2> QED BY <2>1, <2>2
  <1>5. Only(d, f, u)
    BY <1>1, <1>2 DEF Only
  <1> QED BY <1>0, <1>1, <1>4, <1>5, BusyDrive, OneDriveStep

LEMMA WriteFileEndContents ==
  ASSUME CInv, SInv', NEW d \in Drives, WriteFileEnd(d)
  PROVE  ContentsOK'
  <1> SUFFICES ASSUME NEW f \in Floppies, f = inDrive[d], NEW u \in Uuids, u = medium[d].uuid
               PROVE  ContentsOK'
    BY BusyDrive DEF WriteFileEnd
  <1>0. pc[d] = "writing" /\ SInv /\ ContentsOK
    BY BusyDrive DEF WriteFileEnd
  <1>1. /\ UNCHANGED <<disk, header, inDrive, medium, orphan, due, snap, newest, unstored>>
        /\ pc'[d] = "stat" /\ \A e \in Drives \ {d} : pc'[e] = pc[e]
    BY <1>0, BusyDrive DEF WriteFileEnd, Goto, floppyVars, queueVars
  <1>2. /\ \A v \in Uuids \ {u} : files'[v] = files[v]
        /\ \/ files'[u].full /\ files'[u].data = snap[d]
           \/ files' = files /\ ~Exists(u)
    BY <1>0, BusyDrive DEF WriteFileEnd
  <1>3. CachedAt(d)' /\ UncachedAt(d)'
    BY <1>0, <1>1, <1>2, BusyDrive DEF CachedAt, UncachedAt, Serves, Exists
  <1>4. Only(d, f, u)
    BY <1>1, <1>2 DEF Only
  <1> QED BY <1>0, <1>1, <1>3, <1>4, BusyDrive, OneDriveStep

LEMMA WriteFileFailsContents ==
  ASSUME CInv, SInv', HostsOrFaults, NEW d \in Drives, WriteFileFails(d)
  PROVE  ContentsOK'
  <1>0. /\ pc[d] = "writing" /\ SInv /\ ContentsOK /\ Types
        /\ OtherHost = {}
    <2>1. pc[d] = "writing" /\ SInv /\ ContentsOK /\ Types
      BY BusyDrive, StructureFacts DEF WriteFileFails
    <2>2. MaxFailures # 0
      BY <2>1 DEF WriteFileFails, Types
    <2> QED BY <2>1, <2>2 DEF HostsOrFaults
  <1>1. /\ UNCHANGED <<disk, header, inDrive, files, orphan, due, snap, newest, unstored>>
        /\ pc'[d] = "idle" /\ \A e \in Drives \ {d} : pc'[e] = pc[e] /\ medium'[e] = medium[e]
        /\ \A x \in {"present", "uuid", "cached"} : medium'[d][x] = medium[d][x]
    BY <1>0, BusyDrive DEF WriteFileFails, CacheFails, Goto, Medium, floppyVars, queueVars
  <1>2. CachedAt(d)' /\ UncachedAt(d)'
    BY <1>0, <1>1, BusyDrive DEF CachedAt, UncachedAt, Serves
  <1>3. Only(d, inDrive[d], 0)
    BY <1>1 DEF Only
  <1> QED BY <1>0, <1>1, <1>2, <1>3, BusyDrive, OneDriveStep

LEMMA CacheEndContents ==
  ASSUME CInv, SInv', NEW d \in Drives, CacheEnd(d)
  PROVE  ContentsOK'
  <1> SUFFICES ASSUME NEW f \in Floppies, f = inDrive[d], NEW u \in Uuids, u = medium[d].uuid
               PROVE  ContentsOK'
    BY BusyDrive DEF CacheEnd
  <1>0. pc[d] = "stat" /\ SInv /\ ContentsOK /\ DrivesOK /\ TimesOK
    BY BusyDrive, StructureFacts DEF CacheEnd
  <1>1. /\ UNCHANGED <<disk, header, inDrive, files, orphan, due, newest, unstored>>
        /\ pc'[d] = "idle"
        /\ \A e \in Drives \ {d} : pc'[e] = pc[e] /\ medium'[e] = medium[e] /\ snap'[e] = snap[e]
        /\ \A x \in {"present", "uuid"} : medium'[d][x] = medium[d][x]
        /\ IF Exists(u) THEN medium'[d].cached ELSE ~medium'[d].cached
    BY <1>0, BusyDrive, StructureFacts DEF CacheEnd, Goto, Medium, TypeOK, floppyVars
  <1>2. due[d] = Blank
    BY <1>0, BusyDrive DEF DrivesOK
  <1>3. CachedAt(d)'
    <2> SUFFICES ASSUME Exists(u) PROVE CachedAt(d)'
      BY <1>1 DEF CachedAt
    <2>1. files[u].full /\ files[u].data = disk[f] /\ disk[f] = newest[f] /\ unstored[f] = {}
      BY <1>0, BusyDrive DEF UncachedAt
    <2> QED BY <1>1, <1>2, <2>1 DEF CachedAt, Exists, Blank
  <1>4. UncachedAt(d)'
    <2> SUFFICES ASSUME ~Exists(u) PROVE UncachedAt(d)'
      BY <1>1 DEF UncachedAt
    <2>1. ~files[u].full /\ disk[f] = newest[f] /\ unstored[f] = {}
      BY <1>0, BusyDrive DEF UncachedAt, TimesOK
    <2> QED BY <1>1, <2>1 DEF UncachedAt
  <1>5. Only(d, f, 0)
    BY <1>1 DEF Only
  <1> QED BY <1>0, <1>1, <1>3, <1>4, <1>5, BusyDrive, OneDriveStep

LEMMA StoreDueContents ==
  ASSUME CInv, SInv', NEW d \in Drives, NEW b \in Blocks, StoreDue(d, b)
  PROVE  ContentsOK'
  <1>0. /\ SInv /\ ContentsOK /\ DrivesOK /\ unstored \in [Floppies -> SUBSET Blocks]
        /\ disk \in [Floppies -> Contents] /\ due \in [Drives -> Contents]
        /\ due[d][b] # 0 /\ due[d] # Blank
    BY StructureFacts DEF CInv, TypeOK, StoreDue, Blank
  <1> SUFFICES ASSUME NEW f \in Floppies, f = inDrive[d] PROVE ContentsOK'
    BY <1>0, StructureFacts
  <1>1. Serves(d) /\ medium[d].cached /\ medium[d].present /\ CachedAt(d)
    BY <1>0, StructureFacts DEF DrivesOK, ContentsOK, Serves
  <1>2. /\ UNCHANGED <<header, inDrive, files, medium, orphan, pc, snap, newest>>
        /\ due' = [due EXCEPT ![d][b] = 0] /\ disk' = [disk EXCEPT ![f][b] = due[d][b]]
        /\ unstored' = IF due[d][b] = newest[f][b]
                       THEN [unstored EXCEPT ![f] = @ \ {b}] ELSE unstored
    BY DEF StoreDue, cacheVars
  <1>3. b \in unstored[f] /\ (NoFaults => due[d][b] = newest[f][b])
    BY <1>0, <1>1 DEF CachedAt
  <1>4. \A c \in Blocks : /\ due'[d][c] = IF c = b THEN 0 ELSE due[d][c]
                          /\ disk'[f][c] = IF c = b THEN due[d][b] ELSE disk[f][c]
                          /\ c \in unstored'[f] <=> /\ c \in unstored[f]
                                                    /\ c # b \/ due[d][b] # newest[f][b]
    BY <1>0, <1>2 DEF Contents
  <1>5. CachedAt(d)' /\ UncachedAt(d)'
    <2>1. CachedAt(d)'
      <3>1. ASSUME NEW c \in Blocks
            PROVE  /\ due'[d][c] # 0 => c \in unstored'[f]
                   /\ c \notin unstored'[f] => disk'[f][c] = newest[f][c]
                   /\ NoFaults /\ c \in unstored'[f] => due'[d][c] # 0 /\ due'[d][c] = newest[f][c]
        BY <1>1, <1>3, <1>4 DEF CachedAt
      <3> QED BY <1>1, <1>2, <3>1 DEF CachedAt, Serves, Exists, NoFaults
    <2>2. UncachedAt(d)'
      BY <1>1, <1>2 DEF UncachedAt
    <2> QED BY <2>1, <2>2
  <1>6. Only(d, f, 0)
    BY <1>0, <1>2 DEF Only
  <1> QED BY <1>0, <1>1, <1>2, <1>5, <1>6, OneDriveStep

LEMMA StoreDueHeaderContents ==
  ASSUME CInv, SInv', NEW d \in Drives, StoreDueHeader(d)
  PROVE  ContentsOK'
  <1>0. /\ SInv /\ ContentsOK /\ DrivesOK /\ header \in [Floppies -> Header]
        /\ dueHeader[d] # NoHeader
    BY StructureFacts DEF CInv, TypeOK, StoreDueHeader
  <1> SUFFICES ASSUME NEW f \in Floppies, f = inDrive[d] PROVE ContentsOK'
    BY <1>0, StructureFacts DEF DrivesOK
  <1>1. Serves(d) /\ medium[d].cached /\ medium[d].present /\ CachedAt(d)
    BY <1>0, StructureFacts DEF DrivesOK, ContentsOK, Serves
  <1>2. /\ UNCHANGED <<disk, inDrive, files, medium, orphan, due, pc, snap, newest, unstored>>
        /\ \A g \in Floppies \ {f} : header'[g] = header[g]
    BY <1>0 DEF StoreDueHeader, cacheVars
  <1>3. CachedAt(d)' /\ UncachedAt(d)'
    BY <1>1, <1>2 DEF CachedAt, UncachedAt, Serves, Exists, NoFaults
  <1>4. Only(d, f, 0)
    BY <1>2 DEF Only
  <1> QED BY <1>0, <1>1, <1>2, <1>3, <1>4, OneDriveStep

(* A refused write is still in the file, or in the removed one.            *)
LEMMA DropDueContents ==
  ASSUME CInv, SInv', NEW d \in Drives, NEW b \in Blocks, DropDue(d, b)
  PROVE  ContentsOK'
  <1>0. /\ SInv /\ ContentsOK /\ DrivesOK /\ due \in [Drives -> Contents] /\ ~NoFaults
        /\ due[d] # Blank
    BY StructureFacts, Bounds DEF CInv, TypeOK, Types, DropDue, NoFaults, Blank
  <1>1. Serves(d) /\ medium[d].cached /\ medium[d].present /\ CachedAt(d)
    BY <1>0, StructureFacts DEF DrivesOK, ContentsOK, Serves
  <1>2. /\ UNCHANGED <<disk, header, inDrive, files, medium, orphan, pc, snap, newest, unstored>>
        /\ due' = [due EXCEPT ![d][b] = 0]
    BY DEF DropDue, floppyVars, cacheVars
  <1>3. \A c \in Blocks : due'[d][c] # 0 => due[d][c] # 0
    BY <1>0, <1>2 DEF Contents
  <1>4. CachedAt(d)' /\ UncachedAt(d)'
    BY <1>0, <1>1, <1>2, <1>3 DEF CachedAt, UncachedAt, Serves, Exists, NoFaults
  <1>5. Only(d, inDrive[d], 0) /\ inDrive[d] \in Floppies
    BY <1>0, <1>1, <1>2, StructureFacts DEF Only
  <1> QED BY <1>0, <1>1, <1>2, <1>4, <1>5, OneDriveStep

LEMMA CrashContents ==
  ASSUME CInv, HostsOrFaults, Crash
  PROVE  ContentsOK'
  <1>0. SInv /\ ContentsOK /\ Types /\ OtherHost = {} /\ MaxCrashes # 0
    <2>1. SInv /\ ContentsOK /\ Types /\ crashes \in Nat
      BY StructureFacts DEF CInv, Types
    <2>2. MaxCrashes # 0
      BY <2>1 DEF Crash
    <2> QED BY <2>1, <2>2 DEF HostsOrFaults
  <1>1. /\ UNCHANGED <<disk, header, inDrive, files>>
        /\ \A e \in Drives : ~medium'[e].present
        /\ Forget(Floppies \ Led)
    BY DEF Crash, NoMedium, floppyVars
  <1>2. \A e \in Drives : CachedAt(e)' /\ UncachedAt(e)'
    BY <1>1 DEF CachedAt, UncachedAt, Serves
  <1>3. ASSUME NEW f \in Floppies PROVE LooseAt(f)'
    <2>1. /\ decodeCachedADFHeader(header[f]) => files[header[f].uuid].data = newest[f]
          /\ \A b \in Blocks : b \notin unstored[f] => disk[f][b] = newest[f][b]
      BY <1>0, SeenIsNewest
    <2>2. decodeCachedADFHeader(header[f])' <=> decodeCachedADFHeader(header[f])
      BY <1>1 DEF decodeCachedADFHeader
    <2>3. CASE decodeCachedADFHeader(header[f])
      <3>1. newest'[f] = newest[f] /\ unstored'[f] = unstored[f]
        BY <1>1, <2>3 DEF Forget, Led
      <3> QED BY <1>0, <1>1, <2>1, <2>2, <2>3, <3>1 DEF LooseAt, Seen, NoFaults
    <2>4. CASE ~decodeCachedADFHeader(header[f])
      <3>1. newest'[f] = Remains(f) /\ unstored'[f] = {}
        BY <1>1, <2>4 DEF Forget, Led
      <3>2. newest'[f] = disk[f]
        BY <1>0, <2>1, <3>1, Remainder
      <3> QED BY <1>1, <2>2, <2>4, <3>1, <3>2 DEF LooseAt, Seen
    <2> QED BY <2>3, <2>4
  <1> QED BY <1>2, <1>3 DEF ContentsOK

LEMMA UnchangedContents ==
  ASSUME CInv, UNCHANGED <<disk, header, inDrive, files, medium, orphan, due, pc, snap, newest, unstored>>
  PROVE  ContentsOK'
  BY DEF CInv, ContentsOK, CachedAt, UncachedAt, LooseAt, Loose, Seen, Serves, Exists,
         decodeCachedADFHeader, NoFaults

(* Every step keeps CInv.                                                  *)
LEMMA CInvStep ==
  ASSUME HostsOrFaults, CInv, [Next]_vars
  PROVE  CInv'
  <1>1. SInv'
    BY StructureStep DEF CInv
  <1> SUFFICES ContentsOK'
    BY <1>1 DEF CInv
  <1>2. CASE User
    <2>1. CASE Tick
      BY <2>1, UnchangedContents DEF Tick, floppyVars, queueVars, cacheVars
    <2> QED BY <1>1, <1>2, <2>1, EjectContents, InsertContents, OtherHostContents DEF User
  <1>3. CASE Poll
    BY <1>1, <1>3, ProbeContents, CloseMediumContents DEF Poll
  <1>4. CASE Driver
    BY <1>1, <1>4, cachedReadContents, realWriteContents, cachedWriteContents,
       cachedWriteFailsContents, CacheBeginContents,
       CheckQuotaContents, EvictContents, WriteFileBeginContents, WriteFileEndContents,
       WriteFileFailsContents, CacheEndContents
       DEF Driver
  <1>5. CASE Queue
    <2>1. ASSUME NEW d \in Drives, DropDueHeader(d) PROVE ContentsOK'
      BY <2>1, UnchangedContents DEF DropDueHeader, floppyVars, cacheVars
    <2> QED BY <1>1, <1>5, <2>1, StoreDueContents, StoreDueHeaderContents, DropDueContents DEF Queue
  <1>6. CASE Crash
    BY <1>6, CrashContents
  <1>7. CASE UNCHANGED vars
    BY <1>7, UnchangedContents DEF vars, floppyVars, queueVars, cacheVars
  <1> QED BY <1>2, <1>3, <1>4, <1>5, <1>6, <1>7 DEF Next

LEMMA InitCInv == Init => CInv
  <1> SUFFICES ASSUME Init PROVE CInv  OBVIOUS
  <1>1. TInv
    BY InitTInv
  <1>2. DrivesOK
    BY DEF Init, DrivesOK
  <1>3. UuidsOK
    BY Bounds DEF Init, UuidsOK, Serves, NoHeader, NoMedium
  <1>4. TimesOK
    BY DEF Init, TimesOK, NoHeader, NoFile, Exists
  <1>5. ContentsOK
    BY DEF Init, ContentsOK, CachedAt, UncachedAt, LooseAt, Seen, Serves, NoMedium, NoHeader,
           decodeCachedADFHeader
  <1> QED BY <1>1, <1>2, <1>3, <1>4, <1>5 DEF CInv, SInv

(* The emulator reads from a floppy in a drive what was last written to    *)
(* it, whether realRead2 takes it from the file, from a file that          *)
(* preCacheADFCallback has removed for another drive, or from the floppy.  *)
(* Either with any crashes, failing writes and refused sectors on one      *)
(* computer, where what those lose is no longer the newest (Forget); or    *)
(* with none of these and floppies carried to other computers and back     *)
(* which all update the header; a computer that writes to a floppy without *)
(* updating it, as realWrite does, is not covered.                         *)
THEOREM NewestRead == HostsOrFaults => (Spec => []ReadsNewest)
  <1> SUFFICES ASSUME HostsOrFaults PROVE Spec => []ReadsNewest  OBVIOUS
  <1>1. CInv /\ [Next]_vars => CInv'
    BY CInvStep
  <1>2. CInv => ReadsNewest
    <2> SUFFICES ASSUME CInv, NEW d \in Drives, medium[d].present, inDrive[d] # NoFloppy
                 PROVE  IF medium[d].cached
                        THEN medium[d].handle = "adf" \/ Exists(medium[d].uuid)
                                => CachedData(d) = newest[inDrive[d]]
                        ELSE disk[inDrive[d]] = newest[inDrive[d]]
      BY DEF ReadsNewest
    <2>1. CachedAt(d) /\ UncachedAt(d) /\ Serves(d)
      BY DEF CInv, ContentsOK, Serves
    <2> QED BY <2>1 DEF CachedAt, UncachedAt, CachedData
  <1> QED BY <1>1, <1>2, InitCInv, PTL DEF Spec

(* At every step of floppyCacheAdf and of the queue, a crash loses no more *)
(* than the blocks whose newest write had not reached the floppy, and none *)
(* if the header on the floppy leads to its file: for any number of        *)
(* crashes, of failing writes and of sectors the drive refuses, and any    *)
(* drives; a floppy that another computer writes to is not one of these.   *)
THEOREM CrashesLoseOnlyUnstored == OtherHost = {} => (Spec => []CrashLosesOnlyUnstored)
  <1> SUFFICES ASSUME OtherHost = {} PROVE Spec => []CrashLosesOnlyUnstored  OBVIOUS
  <1>1. CInv /\ [Next]_vars => CInv'
    BY CInvStep DEF HostsOrFaults
  <1>2. CInv => CrashLosesOnlyUnstored
    BY SeenIsNewest DEF CrashLosesOnlyUnstored, Seen
  <1> QED BY <1>1, <1>2, InitCInv, PTL DEF Spec

-----------------------------------------------------------------------------
(* The quota.  A drive is writing when it is about to begin a file, or is  *)
(* writing one that is not full yet.                                       *)
Writing ==
    {d \in Drives :
        \/ pc[d] = "write"
        \/ pc[d] = "writing" /\ Exists(medium[d].uuid) /\ ~files[medium[d].uuid].full}

(* The inductive invariant of the quota.  A file that is not full is being *)
(* written by a drive, so removing it makes room for that drive's file.    *)
QInv ==
    /\ SInv
    /\ \A u \in Uuids : Exists(u) /\ ~files[u].full =>
          \E d \in Drives : pc[d] = "writing" /\ medium[d].uuid = u
    /\ Cardinality(FullFiles) + Cardinality(Writing) <= Quota + Cardinality(Drives) - 1

LEMMA FiniteQuota ==
  /\ IsFiniteSet(FullFiles) /\ IsFiniteSet(Writing)
  /\ Cardinality(FullFiles) \in Nat /\ Cardinality(Writing) \in Nat
  /\ Cardinality(Drives) \in Nat /\ Cardinality(Writing) <= Cardinality(Drives)
  <1>1. IsFiniteSet(Uuids)
    BY FS_Interval, Bounds DEF Uuids
  <1>2. FullFiles \subseteq Uuids /\ Writing \subseteq Drives
    BY DEF FullFiles, Writing
  <1> QED BY <1>1, <1>2, FS_Subset, FS_CardinalityType, ConstantsAssumption

LEMMA QuotaShrinks ==
  ASSUME QInv, FullFiles' \subseteq FullFiles, Writing' \subseteq Writing
  PROVE  Cardinality(FullFiles)' + Cardinality(Writing)' <= Quota + Cardinality(Drives) - 1
  <1>1. /\ Cardinality(FullFiles') \in Nat /\ Cardinality(Writing') \in Nat
        /\ Cardinality(FullFiles') <= Cardinality(FullFiles)
        /\ Cardinality(Writing') <= Cardinality(Writing)
    BY FiniteQuota, FS_Subset, FS_CardinalityType
  <1> QED BY <1>1, FiniteQuota, ConstantsAssumption DEF QInv

(* Steps that create no file and begin none.                               *)
LEMMA QuotaUntouched ==
  ASSUME QInv, SInv',
         \A e \in Drives : /\ pc'[e] = "write" => pc[e] = "write"
                           /\ pc'[e] = "writing" <=> pc[e] = "writing"
                           /\ pc[e] = "writing" => medium'[e].uuid = medium[e].uuid,
         \A u \in Uuids : /\ files'[u].full => files[u].full
                          /\ Exists(u)' /\ ~files'[u].full => Exists(u) /\ ~files[u].full
  PROVE  QInv'
  <1>1. FullFiles' \subseteq FullFiles
    BY DEF FullFiles
  <1>2. \A e \in Drives : pc[e] = "writing" => medium[e].uuid \in Uuids
    BY StructureFacts DEF QInv
  <1>3. Writing' \subseteq Writing
    BY <1>2 DEF Writing
  <1>4. \A u \in Uuids : Exists(u)' /\ ~files'[u].full =>
          \E d \in Drives : pc'[d] = "writing" /\ medium'[d].uuid = u
    BY DEF QInv
  <1> QED BY <1>1, <1>3, <1>4, QuotaShrinks DEF QInv

LEMMA SamePcAndFiles ==
  ASSUME QInv, SInv', UNCHANGED <<pc, files>>,
         \A e \in Drives : pc[e] = "writing" => medium'[e].uuid = medium[e].uuid
  PROVE  QInv'
  BY QuotaUntouched DEF Exists

LEMMA CheckQuotaQuota ==
  ASSUME QInv, SInv', NEW d \in Drives, CheckQuota(d)
  PROVE  QInv'
  <1>1. UNCHANGED <<files, medium>> /\ pc[d] = "check"
    BY DEF CheckQuota
  <1>2. CASE Goto(d, "evict")
    <2>1. \A e \in Drives : pc'[e] = IF e = d THEN "evict" ELSE pc[e]
      BY <1>2, StructureFacts DEF QInv, Goto, TypeOK
    <2> QED BY <1>1, <2>1, QuotaUntouched DEF Exists
  <1>3. CASE Goto(d, "write") /\ Cardinality(FullFiles) < Quota
    <2>1. \A e \in Drives : pc'[e] = IF e = d THEN "write" ELSE pc[e]
      BY <1>3, StructureFacts DEF QInv, Goto, TypeOK
    <2>2. FullFiles' = FullFiles
      BY <1>1 DEF FullFiles
    <2>3. Cardinality(Writing)' \in Nat /\ Cardinality(Writing)' <= Cardinality(Drives)
      <3>1. Writing' \subseteq Drives
        BY DEF Writing
      <3> QED BY <3>1, FS_Subset, FS_CardinalityType, ConstantsAssumption
    <2>4. \A u \in Uuids : Exists(u)' /\ ~files'[u].full =>
            \E e \in Drives : pc'[e] = "writing" /\ medium'[e].uuid = u
      BY <1>1, <2>1 DEF QInv, Exists
    <2> QED BY <1>3, <2>2, <2>3, <2>4, FiniteQuota, ConstantsAssumption DEF QInv
  <1> QED BY <1>2, <1>3 DEF CheckQuota

LEMMA EvictQuota ==
  ASSUME QInv, SInv', NEW d \in Drives, Evict(d)
  PROVE  QInv'
  <1>0. /\ SInv /\ medium \in [Drives -> Medium] /\ files \in [Uuids -> File]
        /\ pc \in [Drives -> {"idle", "check", "evict", "write", "writing", "stat"}]
        /\ victim[d] \in Uuids /\ pc[d] = "evict"
    <2>1. victim[d] # 0 /\ victim[d] \in 0..MaxUuids
      BY StructureFacts DEF QInv, Evict, TInv, BusyOK, TypeOK
    <2> QED BY <2>1, Bounds, StructureFacts DEF QInv, TypeOK, Evict
  <1> SUFFICES ASSUME NEW v \in Uuids, v = victim[d] PROVE QInv'
    BY <1>0
  <1>1. \A e \in Drives : medium'[e].uuid = medium[e].uuid
    BY <1>0 DEF Evict, CacheFails, Medium
  <1>2. CASE ~Exists(v)
    <2>1. files' = files /\ pc' = [pc EXCEPT ![d] = "idle"]
      BY <1>2 DEF Evict, CacheFails, Goto
    <2> QED BY <1>0, <1>1, <2>1, QuotaUntouched DEF Exists
  <1>3. CASE Exists(v)
    <2>1. files' = [files EXCEPT ![v] = NoFile] /\ pc' = [pc EXCEPT ![d] = "write"]
      BY <1>3 DEF Evict, Goto
    <2>2. /\ \A u \in Uuids \ {v} : files'[u] = files[u]
          /\ ~files'[v].full /\ ~Exists(v)'
          /\ \A e \in Drives : pc'[e] = IF e = d THEN "write" ELSE pc[e]
      BY <1>0, <2>1 DEF NoFile, Exists
    <2>3. \A u \in Uuids : Exists(u)' /\ ~files'[u].full =>
            \E e \in Drives : pc'[e] = "writing" /\ medium'[e].uuid = u
      <3> SUFFICES ASSUME NEW u \in Uuids, Exists(u)', ~files'[u].full
                   PROVE  \E e \in Drives : pc'[e] = "writing" /\ medium'[e].uuid = u
        OBVIOUS
      <3>1. u # v /\ Exists(u) /\ ~files[u].full
        BY <2>2 DEF Exists
      <3>2. PICK e \in Drives : pc[e] = "writing" /\ medium[e].uuid = u
        BY <3>1 DEF QInv
      <3> QED BY <1>0, <1>1, <2>2, <3>2
    <2>4. FullFiles' = FullFiles \ {v}
      BY <2>2 DEF FullFiles
    <2>5. ASSUME NEW e \in Writing', e # d
          PROVE  e \in Writing /\ (pc[e] = "writing" => medium[e].uuid # v)
      <3>1. pc[e] = "writing" => medium[e].uuid \in Uuids
        BY <1>0, <2>5, StructureFacts DEF Writing
      <3> QED BY <1>1, <2>2, <2>5, <3>1 DEF Writing, Exists
    <2>6. d \notin Writing
      BY <1>0 DEF Writing
    <2>7. CASE files[v].full
      <3>1. Writing' \subseteq Writing \union {d}
        BY <2>5
      <3>2. /\ Cardinality(FullFiles') = Cardinality(FullFiles) - 1
            /\ Cardinality(Writing \union {d}) = Cardinality(Writing) + 1
            /\ IsFiniteSet(Writing \union {d})
        <4>1. v \in FullFiles
          BY <2>7 DEF FullFiles
        <4>2. Cardinality(FullFiles \ {v}) = Cardinality(FullFiles) - 1
          BY <4>1, FiniteQuota, FS_RemoveElement
        <4>3. /\ Cardinality(Writing \union {d}) = Cardinality(Writing) + 1
              /\ IsFiniteSet(Writing \union {d})
          BY <2>6, FiniteQuota, FS_AddElement
        <4> QED BY <2>4, <4>2, <4>3
      <3>3. Cardinality(Writing') \in Nat /\ Cardinality(Writing') <= Cardinality(Writing) + 1
        BY <3>1, <3>2, FS_Subset, FS_CardinalityType
      <3> QED BY <1>0, <2>3, <3>2, <3>3, FiniteQuota, ConstantsAssumption DEF QInv
    <2>8. CASE ~files[v].full
      <3>1. PICK e \in Drives : pc[e] = "writing" /\ medium[e].uuid = v
        BY <1>3, <2>8 DEF QInv
      <3>2. e \in Writing /\ e # d
        BY <1>0, <1>3, <2>8, <3>1 DEF Writing
      <3>3. Writing' \subseteq (Writing \ {e}) \union {d}
        BY <2>5, <3>1
      <3>4. FullFiles' = FullFiles
        BY <2>4, <2>8 DEF FullFiles
      <3>5. /\ IsFiniteSet(Writing \ {e}) /\ Cardinality(Writing \ {e}) = Cardinality(Writing) - 1
        BY <3>2, FiniteQuota, FS_RemoveElement
      <3>6. /\ IsFiniteSet((Writing \ {e}) \union {d})
            /\ Cardinality((Writing \ {e}) \union {d}) = Cardinality(Writing)
        <4>1. d \notin Writing \ {e}
          BY <2>6
        <4>2. /\ IsFiniteSet((Writing \ {e}) \union {d})
              /\ Cardinality((Writing \ {e}) \union {d}) = Cardinality(Writing \ {e}) + 1
          BY <3>5, <4>1, FS_AddElement
        <4> QED BY <3>5, <4>2, FiniteQuota
      <3>7. Cardinality(Writing') \in Nat /\ Cardinality(Writing') <= Cardinality(Writing)
        BY <3>3, <3>6, FS_Subset, FS_CardinalityType
      <3> QED BY <1>0, <2>3, <3>4, <3>7, FiniteQuota, ConstantsAssumption DEF QInv
    <2> QED BY <2>7, <2>8
  <1> QED BY <1>2, <1>3

LEMMA WriteFileBeginQuota ==
  ASSUME QInv, SInv', NEW d \in Drives, WriteFileBegin(d)
  PROVE  QInv'
  <1>0. /\ SInv /\ files \in [Uuids -> File] /\ pc[d] = "write" /\ clock # 0
        /\ pc \in [Drives -> {"idle", "check", "evict", "write", "writing", "stat"}]
        /\ \A e \in Drives : pc[e] = "writing" => medium[e].uuid \in Uuids
    BY StructureFacts, Bounds DEF QInv, TypeOK, WriteFileBegin
  <1> SUFFICES ASSUME NEW u \in Uuids, u = medium[d].uuid PROVE QInv'
    BY <1>0, StructureFacts
  <1>1. /\ medium' = medium
        /\ \A e \in Drives : pc'[e] = IF e = d THEN "writing" ELSE pc[e]
        /\ \A v \in Uuids \ {u} : files'[v] = files[v]
        /\ files'[u].full = files[u].full /\ files'[u].mtime = clock
    BY <1>0 DEF WriteFileBegin, Goto, File
  <1>2. FullFiles' \subseteq FullFiles
    BY <1>1 DEF FullFiles
  <1>3. Writing' \subseteq Writing
    <2>1. \A e \in Drives \ {d} : pc[e] = "writing" => medium[e].uuid # u
      BY <1>0, StructureFacts, Bounds DEF UuidsOK
    <2> QED BY <1>0, <1>1, <2>1 DEF Writing, Exists
  <1>4. \A v \in Uuids : Exists(v)' /\ ~files'[v].full =>
          \E e \in Drives : pc'[e] = "writing" /\ medium'[e].uuid = v
    <2> SUFFICES ASSUME NEW v \in Uuids, Exists(v)', ~files'[v].full
                 PROVE  \E e \in Drives : pc'[e] = "writing" /\ medium'[e].uuid = v
      OBVIOUS
    <2>1. CASE v = u
      BY <1>1, <2>1
    <2>2. CASE v # u
      <3>1. PICK e \in Drives : pc[e] = "writing" /\ medium[e].uuid = v
        BY <1>1, <2>2 DEF QInv, Exists
      <3> QED BY <1>1, <3>1
    <2> QED BY <2>1, <2>2
  <1> QED BY <1>2, <1>3, <1>4, QuotaShrinks DEF QInv

LEMMA WriteFileEndQuota ==
  ASSUME QInv, SInv', NEW d \in Drives, WriteFileEnd(d)
  PROVE  QInv'
  <1>0. /\ SInv /\ files \in [Uuids -> File] /\ pc[d] = "writing" /\ clock # 0
        /\ pc \in [Drives -> {"idle", "check", "evict", "write", "writing", "stat"}]
        /\ \A e \in Drives : pc[e] = "writing" => medium[e].uuid \in Uuids
    BY StructureFacts, Bounds DEF QInv, TypeOK, WriteFileEnd
  <1> SUFFICES ASSUME NEW u \in Uuids, u = medium[d].uuid PROVE QInv'
    BY <1>0
  <1>1. /\ medium' = medium
        /\ \A e \in Drives : pc'[e] = IF e = d THEN "stat" ELSE pc[e]
        /\ \A v \in Uuids \ {u} : files'[v] = files[v]
        /\ ~Exists(u) => files' = files
        /\ Exists(u) => files'[u].full
    BY <1>0 DEF WriteFileEnd, Goto
  <1>2. Writing' \subseteq Writing \ {d}
    BY <1>0, <1>1 DEF Writing, Exists
  <1>3. \A v \in Uuids : Exists(v)' /\ ~files'[v].full =>
          \E e \in Drives : pc'[e] = "writing" /\ medium'[e].uuid = v
    <2> SUFFICES ASSUME NEW v \in Uuids, Exists(v)', ~files'[v].full
                 PROVE  \E e \in Drives : pc'[e] = "writing" /\ medium'[e].uuid = v
      OBVIOUS
    <2>1. v # u /\ Exists(v) /\ ~files[v].full
      BY <1>1 DEF Exists
    <2>2. PICK e \in Drives : pc[e] = "writing" /\ medium[e].uuid = v
      BY <2>1 DEF QInv
    <2> QED BY <1>1, <2>1, <2>2
  <1>4. CASE Exists(u) /\ ~files[u].full
    <2>1. d \in Writing /\ FullFiles' = FullFiles \union {u} /\ u \notin FullFiles
      BY <1>0, <1>1, <1>4 DEF Writing, FullFiles
    <2>2. /\ Cardinality(FullFiles') = Cardinality(FullFiles) + 1
          /\ IsFiniteSet(Writing \ {d}) /\ Cardinality(Writing \ {d}) = Cardinality(Writing) - 1
      BY <2>1, FiniteQuota, FS_AddElement, FS_RemoveElement
    <2>3. Cardinality(Writing') \in Nat /\ Cardinality(Writing') <= Cardinality(Writing) - 1
      BY <1>2, <2>2, FS_Subset, FS_CardinalityType
    <2> QED BY <1>3, <2>2, <2>3, FiniteQuota, ConstantsAssumption DEF QInv
  <1>5. CASE ~(Exists(u) /\ ~files[u].full)
    <2>1. FullFiles' \subseteq FullFiles /\ Writing' \subseteq Writing
      BY <1>1, <1>2, <1>5 DEF FullFiles
    <2> QED BY <1>3, <2>1, QuotaShrinks DEF QInv
  <1> QED BY <1>4, <1>5

LEMMA QInvStep ==
  ASSUME MaxCrashes = 0, MaxFailures = 0, QInv, [Next]_vars
  PROVE  QInv'
  <1>1. /\ SInv /\ SInv' /\ BusyOK /\ medium \in [Drives -> Medium] /\ files \in [Uuids -> File]
        /\ pc \in [Drives -> {"idle", "check", "evict", "write", "writing", "stat"}]
        /\ clock # 0 /\ crashes \in Nat /\ failures \in Nat
        /\ \A e \in Drives : pc[e] # "idle" => Serves(e)
    BY StructureStep, StructureFacts, Bounds DEF QInv, TInv, TypeOK, Types
  <1>2. CASE User
    <2>1. UNCHANGED <<pc, files, medium>>
      BY <1>2 DEF User, Eject, Insert, OtherHostWrites, Tick, cacheVars
    <2> QED BY <1>1, <2>1, SamePcAndFiles
  <1>3. ASSUME NEW d \in Drives, NEW formatted \in BOOLEAN, NEW force \in BOOLEAN,
               Probe(d, formatted, force)
        PROVE  QInv'
    <2>1. /\ pc' = pc /\ ~medium[d].present
          /\ \A e \in Drives \ {d} : medium'[e] = medium[e]
          /\ \A v \in Uuids : files'[v] \in {files[v], NoFile}
      BY <1>1, <1>3 DEF Probe, cacheVars
    <2>2. pc[d] = "idle"
      BY <1>1, <2>1 DEF Serves
    <2> QED BY <1>1, <2>1, <2>2, QuotaUntouched DEF NoFile, Exists
  <1>4. ASSUME NEW d \in Drives, CloseMedium(d) PROVE QInv'
    <2>1. /\ UNCHANGED <<pc, files>> /\ inDrive[d] = NoFloppy
          /\ \A e \in Drives \ {d} : medium'[e] = medium[e]
      BY <1>4 DEF CloseMedium, cacheVars
    <2> QED BY <1>1, <2>1, SamePcAndFiles DEF Serves
  <1>5. ASSUME NEW d \in Drives, NEW b \in Blocks, cachedRead(d) \/ realWrite(d, b) PROVE QInv'
    <2>1. UNCHANGED <<pc, files>> /\ \A e \in Drives : medium'[e].uuid = medium[e].uuid
      BY <1>1, <1>5 DEF cachedRead, realWrite, Medium, cacheVars
    <2> QED BY <1>1, <2>1, SamePcAndFiles
  <1>6. ASSUME NEW d \in Drives, NEW b \in Blocks, cachedWrite(d, b) PROVE QInv'
    <2>1. pc' = pc /\ \A e \in Drives : medium'[e].uuid = medium[e].uuid
      BY <1>1, <1>6 DEF cachedWrite, Medium, cacheVars
    <2>2. medium[d].uuid \in Uuids
      BY <1>1, <1>6, StructureFacts DEF cachedWrite, CanOpenCached
    <2>3. \A v \in Uuids : /\ files'[v].full = files[v].full
                           /\ files'[v].mtime # 0 => files[v].mtime # 0
      BY <1>1, <1>6, <2>2 DEF cachedWrite, File, Exists
    <2> QED BY <1>1, <2>1, <2>3, QuotaUntouched DEF Exists
  <1>7. ASSUME NEW d \in Drives, CacheBegin(d) PROVE QInv'
    <2>1. /\ files' = files /\ pc[d] = "idle"
          /\ \A e \in Drives : pc'[e] = IF e = d THEN "check" ELSE pc[e]
          /\ \A e \in Drives \ {d} : medium'[e] = medium[e]
      BY <1>1, <1>7 DEF CacheBegin, Goto, Idle
    <2> QED BY <1>1, <2>1, QuotaUntouched DEF Exists
  <1>8. ASSUME NEW d \in Drives, CacheEnd(d) PROVE QInv'
    <2>1. /\ files' = files /\ pc[d] = "stat"
          /\ \A e \in Drives : pc'[e] = IF e = d THEN "idle" ELSE pc[e]
          /\ \A e \in Drives \ {d} : medium'[e] = medium[e]
      BY <1>1, <1>8 DEF CacheEnd, Goto
    <2> QED BY <1>1, <2>1, QuotaUntouched DEF Exists
  <1>9. \A d \in Drives : ~WriteFileFails(d) /\ \A b \in Blocks : ~cachedWriteFails(d, b)
    BY <1>1 DEF WriteFileFails, cachedWriteFails
  <1>10. ~Crash
    BY <1>1 DEF Crash
  <1>11. CASE Queue
    <2>1. UNCHANGED <<pc, files, medium>>
      BY <1>11 DEF Queue, StoreDue, StoreDueHeader, DropDue, DropDueHeader, cacheVars
    <2> QED BY <1>1, <2>1, SamePcAndFiles
  <1>12. CASE UNCHANGED vars
    <2>1. UNCHANGED <<pc, files, medium>>
      BY <1>12 DEF vars, cacheVars
    <2> QED BY <1>1, <2>1, SamePcAndFiles
  <1>13. CASE Poll
    BY <1>3, <1>4, <1>13 DEF Poll
  <1>14. CASE Driver
    <2>1. PICK d \in Drives :
            \/ cachedRead(d)
            \/ \E b \in Blocks : realWrite(d, b) \/ cachedWrite(d, b) \/ cachedWriteFails(d, b)
            \/ CacheBegin(d) \/ CheckQuota(d) \/ Evict(d)
            \/ WriteFileBegin(d) \/ WriteFileEnd(d) \/ WriteFileFails(d) \/ CacheEnd(d)
      BY <1>14 DEF Driver
    <2>2. CASE cachedRead(d)
      BY <1>5, <2>2, Bounds
    <2>3. CASE \E b \in Blocks : realWrite(d, b) \/ cachedWrite(d, b) \/ cachedWriteFails(d, b)
      BY <1>5, <1>6, <1>9, <2>3
    <2> QED BY <1>1, <1>7, <1>8, <1>9, <2>1, <2>2, <2>3, CheckQuotaQuota, EvictQuota,
               WriteFileBeginQuota, WriteFileEndQuota
  <1> QED BY <1>2, <1>10, <1>11, <1>12, <1>13, <1>14 DEF Next

LEMMA InitQInv == Init => QInv
  <1> SUFFICES ASSUME Init PROVE QInv  OBVIOUS
  <1>1. SInv
    BY InitCInv DEF CInv
  <1>2. FullFiles = {} /\ Writing = {}
    BY DEF Init, FullFiles, Writing, NoFile
  <1>3. Cardinality({}) = 0
    BY FS_EmptySet
  <1>4. Cardinality(Drives) \in Nat
    BY FiniteQuota
  <1>5. \A u \in Uuids : ~Exists(u)
    BY DEF Init, Exists, NoFile
  <1> QED BY <1>1, <1>2, <1>3, <1>4, <1>5, ConstantsAssumption DEF QInv

(* preCacheADFCallback looks at the quota before the file is written and   *)
(* takes no lock, so caching in all drives at once exceeds it, by at most  *)
(* one file per other drive.  A crash or a failing write leaves a short    *)
(* file nobody will complete; removing that one frees nothing, and the     *)
(* bound is lost: hence the two hypotheses.                                *)
THEOREM QuotaIsKept ==
  MaxCrashes = 0 /\ MaxFailures = 0 => (Spec => []QuotaKept)
  <1> SUFFICES ASSUME MaxCrashes = 0, MaxFailures = 0 PROVE Spec => []QuotaKept
    OBVIOUS
  <1>1. QInv /\ [Next]_vars => QInv'
    BY QInvStep
  <1>2. QInv => QuotaKept
    BY FiniteQuota, ConstantsAssumption DEF QInv, QuotaKept
  <1> QED BY <1>1, <1>2, InitQInv, PTL DEF Spec
==============================================================================
