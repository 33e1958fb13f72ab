------------------------- MODULE AsyncFileOpsProofs -------------------------
(***************************************************************************)
(* The inductive invariant of AsyncFileOps and the proofs of its safety    *)
(* properties for any set of sectors and any number of operations.         *)
(***************************************************************************)
EXTENDS AsyncFileOps, SequenceTheorems, TLAPS

(* Every operation for c in s is followed, at or after its place, by write *)
(* number n of c: running s from any point on leaves n.                    *)
EndsWith(s, c, n) ==
    \A i \in 1..Len(s) :
        s[i].blk = c => \E j \in i..Len(s) : s[j].blk = c /\ s[j].id = n

(* Each element of s is also in t, at its place or further back.           *)
KeptIn(s, t) == \A i \in 1..Len(s) : \E j \in i..Len(t) : t[j] = s[i]

(* Only the first element of s may be a direct read.                       *)
ReadInFront(s) == \A i \in 1..Len(s) : s[i].blk = NoBlock => i = 1

(* What the slice will show when the worker has finished its delete.       *)
Rest == CASE wpc = "take"   -> Tail(operations)
          [] wpc = "delete" -> Tail(wview)
          [] OTHER          -> operations

(* The newest write of c is behind the one in the worker's hands, in its   *)
(* hands, or stored with nothing of c in its hands.                        *)
Safe(c) ==
    \/ \E i \in 1..Len(Rest) : Rest[i].blk = c /\ Rest[i].id = newest[c]
    \/ HoldsData /\ head.blk = c /\ head.id = newest[c]
    \/ ~(HoldsData /\ head.blk = c) /\ device[c] = newest[c]

NonEmpty ==
    /\ wpc = "take" => operations # <<>>
    /\ wpc = "delete" => wview # <<>>

(* The three copies of the slice agree on where the newest writes are.     *)
Copies ==
    /\ \A c \in Blocks \ damaged :
          /\ EndsWith(operations, c, newest[c])
          /\ ppc = "append" => EndsWith(pview, c, newest[c])
          /\ wpc = "delete" => EndsWith(wview, c, newest[c])
    /\ ppc = "append" => KeptIn(operations, pview)
    /\ wpc = "delete" => KeptIn(wview, operations)
    /\ ppc = "append" /\ wpc = "delete" => KeptIn(wview, pview)

Reads ==
    /\ ReadInFront(operations)
    /\ ppc = "append" => ReadInFront(pview)
    /\ wpc = "delete" => ReadInFront(wview)
    /\ ppc = "append" /\ pop.blk = NoBlock => pview = <<>>

DataSafe == \A c \in Blocks \ damaged : Safe(c)

(* The entry of the map and the header in the worker's hands.              *)
HeaderSafe ==
    /\ wpc = "finalLookup" => final # 0
    /\ final # 0 => final = newest[Header]
    /\ Header \notin damaged =>
          /\ wpc = "finalDelete" => head.id = newest[Header]
          /\ \/ final # 0
             \/ HoldsHeader /\ head.id = newest[Header]
             \/ ~HoldsHeader /\ device[Header] = newest[Header]

(* Headers are written in the order they were put.                         *)
HeaderOrder ==
    /\ device[Header] <= calls
    /\ final # 0 => device[Header] <= final
    /\ HoldsHeader => device[Header] <= head.id /\ head.id <= calls
    /\ HoldsHeader /\ final # 0 => head.id <= final

(* Numbers grow with the calls, so what is queued for a sector is never    *)
(* newer than its newest accepted write.                                   *)
Known(q) == \A i \in 1..Len(q) : q[i].blk \in Blocks => q[i].id <= newest[q[i].blk]

Numbers ==
    /\ \A s \in Sectors : newest[s] <= calls
    /\ Known(operations)
    /\ ppc = "append" => Known(pview)
    /\ ppc = "append" /\ pop.blk \in Blocks => newest[pop.blk] < pop.id /\ pop.id <= calls
    /\ wpc = "delete" => Known(wview)
    /\ HoldsData /\ head.blk \in Blocks => head.id <= newest[head.blk]
    /\ HoldsHeader => head.id <= newest[Header]

(* The inductive invariant: what relates the slice in the struct, the      *)
(* slices producer and worker have loaded, the map, the operation in hand  *)
(* and the floppy after every load and store of the queue.                 *)
IInv ==
    /\ TypeOK
    /\ NonEmpty
    /\ Copies
    /\ Reads
    /\ DataSafe
    /\ HeaderSafe
    /\ HeaderOrder
    /\ Numbers

-----------------------------------------------------------------------------
(* Sequences: what the steps of the slice keep.                            *)

(* What append() gives.                                                    *)
LEMMA AppendFacts ==
    ASSUME NEW S, NEW s \in Seq(S), NEW e \in S
    PROVE  /\ Append(s, e) \in Seq(S)
           /\ Len(Append(s, e)) = Len(s) + 1
           /\ \A i \in 1..Len(s) : Append(s, e)[i] = s[i]
           /\ Append(s, e)[Len(s) + 1] = e
BY AppendProperties

(* What is left when the first operation is taken off.                     *)
LEMMA TailFacts ==
    ASSUME NEW S, NEW s \in Seq(S), s # <<>>
    PROVE  /\ Head(s) \in S
           /\ Head(s) = s[1]
           /\ Tail(s) \in Seq(S)
           /\ Len(s) \in Nat \ {0}
           /\ Len(Tail(s)) = Len(s) - 1
           /\ \A i \in 1..Len(s) - 1 : Tail(s)[i] = s[i + 1]
BY HeadTailProperties, EmptySeq

(* What slices.Delete leaves in the slots of the array.                    *)
LEMMA MovedFacts ==
    ASSUME NEW S, NEW s \in Seq(S), NEW n \in Nat
    PROVE  /\ Moved(s, n) \in Seq(S)
           /\ Len(Moved(s, n)) = Len(s)
           /\ \A i \in 1..Len(s) :
                 Moved(s, n)[i] = IF i < n /\ i < Len(s) THEN s[i + 1] ELSE s[i]
<1> DEFINE e(i) == IF i < n /\ i < Len(s) THEN s[i + 1] ELSE s[i]
<1>1. Len(s) \in Nat /\ \A i \in 1..Len(s) : e(i) \in S
  BY LenProperties, ElementOfSeq
<1>2. [i \in 1..Len(s) |-> e(i)] \in Seq(S)
  BY <1>1, IsASeq
<1>3. Moved(s, n) = [i \in 1..Len(s) |-> e(i)]
  BY DEF Moved
<1>4. Len(Moved(s, n)) = Len(s)
  BY <1>1, <1>2, <1>3, LenProperties
<1> QED
  BY <1>2, <1>3, <1>4

(* A delete leaves the newest write of a block the last one for it.        *)
LEMMA EndsWithTail ==
    ASSUME NEW S, NEW s \in Seq(S), s # <<>>, NEW c, NEW n, EndsWith(s, c, n)
    PROVE  EndsWith(Tail(s), c, n)
<1> SUFFICES ASSUME NEW i \in 1..Len(Tail(s)), Tail(s)[i].blk = c
             PROVE  \E j \in i..Len(Tail(s)) : Tail(s)[j].blk = c /\ Tail(s)[j].id = n
  BY DEF EndsWith
<1>1. Len(s) \in Nat /\ Len(Tail(s)) = Len(s) - 1 /\ i + 1 \in 1..Len(s)
      /\ Tail(s)[i] = s[i + 1]
  BY TailFacts
<1>2. PICK j \in i + 1..Len(s) : s[j].blk = c /\ s[j].id = n
  BY <1>1 DEF EndsWith
<1>3. j - 1 \in i..Len(Tail(s)) /\ Tail(s)[j - 1] = s[j]
  BY <1>1, <1>2, TailFacts
<1> QED
  BY <1>2, <1>3

(* An append of the newest write makes it the last one for its block.      *)
LEMMA EndsWithAppend ==
    ASSUME NEW S, NEW s \in Seq(S), NEW e \in S, NEW c, NEW n,
           EndsWith(s, c, n) \/ e.blk = c, e.blk = c => e.id = n
    PROVE  EndsWith(Append(s, e), c, n)
BY AppendFacts, LenProperties DEF EndsWith

(* Moving the elements leaves the newest write the last one.               *)
LEMMA EndsWithMoved ==
    ASSUME NEW S, NEW s \in Seq(S), NEW m \in Nat, NEW c, NEW n, EndsWith(s, c, n)
    PROVE  EndsWith(Moved(s, m), c, n)
<1> SUFFICES ASSUME NEW i \in 1..Len(s), Moved(s, m)[i].blk = c
             PROVE  \E j \in i..Len(s) : Moved(s, m)[j].blk = c /\ Moved(s, m)[j].id = n
  BY MovedFacts DEF EndsWith
<1> DEFINE k == IF i < m /\ i < Len(s) THEN i + 1 ELSE i
<1>1. Len(s) \in Nat
  BY LenProperties
<1>2. k \in 1..Len(s) /\ Moved(s, m)[i] = s[k]
  BY <1>1, MovedFacts
<1>3. PICK j \in k..Len(s) : s[j].blk = c /\ s[j].id = n
  BY <1>2 DEF EndsWith
<1> DEFINE l == IF j > i /\ j - 1 < m THEN j - 1 ELSE j
<1>4. l \in i..Len(s) /\ Moved(s, m)[l] = s[j]
  BY <1>1, <1>2, <1>3, MovedFacts
<1> QED
  BY <1>3, <1>4

(* What a slice keeps of another, its tail keeps too.                      *)
LEMMA KeptInTail ==
    ASSUME NEW S, NEW s \in Seq(S), NEW t \in Seq(S), s # <<>>, KeptIn(s, t)
    PROVE  KeptIn(Tail(s), t)
BY TailFacts, LenProperties DEF KeptIn

(* Two slices that lose their first operation keep what they shared.       *)
LEMMA KeptInTails ==
    ASSUME NEW S, NEW s \in Seq(S), NEW t \in Seq(S), s # <<>>, KeptIn(s, t)
    PROVE  t # <<>> /\ KeptIn(Tail(s), Tail(t))
<1>1. Len(s) \in Nat \ {0} /\ Len(t) \in Nat
  BY TailFacts, LenProperties
<1>2. t # <<>>
  <2>1. PICK j \in 1..Len(t) : t[j] = s[1]
    BY <1>1 DEF KeptIn
  <2> QED
    BY <2>1, EmptySeq
<1> SUFFICES ASSUME NEW i \in 1..Len(Tail(s))
             PROVE  \E j \in i..Len(Tail(t)) : Tail(t)[j] = Tail(s)[i]
  BY <1>2 DEF KeptIn
<1>3. i + 1 \in 1..Len(s) /\ Tail(s)[i] = s[i + 1] /\ Len(Tail(t)) = Len(t) - 1
  BY <1>1, <1>2, TailFacts
<1>4. PICK j \in i + 1..Len(t) : t[j] = s[i + 1]
  BY <1>3 DEF KeptIn
<1>5. j - 1 \in i..Len(Tail(t)) /\ Tail(t)[j - 1] = t[j]
  BY <1>1, <1>2, <1>3, <1>4, TailFacts
<1> QED
  BY <1>3, <1>4, <1>5

(* The moved array keeps what the shorter slice has.                       *)
LEMMA KeptInMoved ==
    ASSUME NEW S, NEW s \in Seq(S), NEW t \in Seq(S), s # <<>>, KeptIn(s, t)
    PROVE  KeptIn(Tail(s), Moved(t, Len(s)))
<1> SUFFICES ASSUME NEW i \in 1..Len(Tail(s))
             PROVE  \E j \in i..Len(t) : Moved(t, Len(s))[j] = Tail(s)[i]
  BY MovedFacts, LenProperties DEF KeptIn
<1>1. Len(s) \in Nat /\ Len(t) \in Nat /\ i + 1 \in 1..Len(s) /\ Tail(s)[i] = s[i + 1]
  BY TailFacts, LenProperties
<1>2. PICK j \in i + 1..Len(t) : t[j] = s[i + 1]
  BY <1>1 DEF KeptIn
<1> DEFINE l == IF j <= Len(s) THEN j - 1 ELSE j
<1>3. l \in i..Len(t) /\ Moved(t, Len(s))[l] = t[j]
  BY <1>1, <1>2, MovedFacts
<1> QED
  BY <1>1, <1>2, <1>3

(* A longer slice keeps what a shorter one had.                            *)
LEMMA KeptInAppend ==
    ASSUME NEW S, NEW s \in Seq(S), NEW t \in Seq(S), NEW e \in S, KeptIn(s, t)
    PROVE  KeptIn(s, Append(t, e))
BY AppendFacts, LenProperties DEF KeptIn

(* A motor read in front is gone after a delete.                           *)
LEMMA ReadInFrontTail ==
    ASSUME NEW s \in Seq(DataOp), s # <<>>, ReadInFront(s)
    PROVE  ReadInFront(Tail(s))
BY TailFacts DEF ReadInFront

(* Moving the elements puts no motor read behind another operation.        *)
LEMMA ReadInFrontMoved ==
    ASSUME NEW s \in Seq(DataOp), NEW n \in Nat, ReadInFront(s)
    PROVE  ReadInFront(Moved(s, n))
BY MovedFacts, LenProperties DEF ReadInFront

(* A motor read is appended to an empty slice only.                        *)
LEMMA ReadInFrontAppend ==
    ASSUME NEW s \in Seq(DataOp), NEW e \in DataOp, ReadInFront(s),
           e.blk = NoBlock => s = <<>>
    PROVE  ReadInFront(Append(s, e))
BY AppendFacts, LenProperties, EmptySeq DEF ReadInFront

-----------------------------------------------------------------------------
(* The invariant holds at first and every step keeps it.                   *)

(* The invariant holds when the queue is created.                          *)
LEMMA InitIInv == Init => IInv
<1> SUFFICES ASSUME Init PROVE IInv
  OBVIOUS
<1>1. <<>> \in Seq(DataOp) /\ Len(<<>>) = 0
  BY EmptySeq
<1>2. DirectRead \in DataOp
  BY DEF DirectRead, DataOp
<1>3. TypeOK
  BY <1>1, <1>2, ConstantsAssumption DEF Init, TypeOK, HoldsData, HoldsHeader
<1>4. NonEmpty /\ Copies /\ Reads
  BY <1>1 DEF Init, NonEmpty, Copies, Reads, EndsWith, KeptIn, ReadInFront
<1>5. DataSafe
  BY DEF Init, DataSafe, Safe, HoldsData, Sectors
<1>6. HeaderSafe /\ HeaderOrder
  BY DEF Init, HeaderSafe, HeaderOrder, HoldsHeader, Sectors
<1>7. Numbers
  BY <1>1, <1>2, ConstantsAssumption
     DEF Init, Numbers, Known, HoldsData, HoldsHeader, ConstantsAssumption
<1> QED
  BY <1>3, <1>4, <1>5, <1>6, <1>7 DEF IInv

(* Every step keeps the types.                                             *)
LEMMA TypeStep ==
    ASSUME IInv, [Next]_vars
    PROVE  TypeOK'
<1> USE DEF TypeOK, HoldsData, HoldsHeader
<1>0. TypeOK /\ ConstantsAssumption
  BY ConstantsAssumption DEF IInv
<1>1. CASE UNCHANGED vars
  BY <1>0, <1>1 DEF vars, prodVars, workVars, ghosts
<1>2. ASSUME NEW b \in Blocks, FileWriteBytes(b)
      PROVE  TypeOK'
  BY <1>0, <1>2
     DEF FileWriteBytes, BeginAppend, DataOp, workVars, ghosts, ConstantsAssumption
<1>3. CASE FileReadBytesDirect
  BY <1>0, <1>3 DEF FileReadBytesDirect, BeginAppend, DirectRead, DataOp, workVars, ghosts
<1>4. CASE StoreAppend
  <2>1. Append(pview, pop) \in Seq(DataOp)
    BY <1>0, AppendFacts
  <2> QED
    BY <1>0, <1>4, <2>1 DEF StoreAppend, DataOp, Sectors, workVars, ghosts
<1>5. CASE FileWriteBytesOneTimeFinal
  BY <1>0, <1>5
     DEF FileWriteBytesOneTimeFinal, Sectors, workVars, ConstantsAssumption
<1>6. CASE Stop
  BY <1>0, <1>6 DEF Stop, prodVars, workVars, ghosts
<1>7. CASE Wake
  BY <1>0, <1>7 DEF Wake, WorkerGoto, prodVars, ghosts
<1>8. CASE TakeHead
  BY <1>0, <1>8, TailFacts DEF TakeHead, WorkerGoto, prodVars, ghosts
<1>9. CASE LoadDelete
  BY <1>0, <1>9 DEF LoadDelete, WorkerGoto, prodVars, ghosts
<1>10. CASE StoreDelete
  <2>1. wview # <<>>
    BY <1>10 DEF IInv, NonEmpty, StoreDelete, WorkerGoto
  <2>2. Tail(wview) \in Seq(DataOp) /\ Len(wview) \in Nat /\ <<>> \in Seq(DataOp)
    BY <1>0, <2>1, TailFacts, EmptySeq
  <2>3. pview' \in Seq(DataOp)
    BY <1>0, <1>10, <2>2, MovedFacts DEF StoreDelete
  <2> QED
    BY <1>0, <1>10, <2>2, <2>3 DEF StoreDelete, WorkerGoto, ghosts
<1>11. CASE executeOperation
  <2>1. head \in DataOp /\ head.id \in Nat /\ head.blk \in Blocks \union {NoBlock}
    BY <1>0, <1>11 DEF executeOperation, WorkerGoto, DataOp
  <2>2. device' \in [Sectors -> Nat] /\ faults' \in 0..MaxFaults /\ damaged' \subseteq Sectors
    <3>1. head.blk \in Sectors \/ head.blk = NoBlock
      BY <2>1 DEF Sectors
    <3>2. [device EXCEPT ![head.blk] = head.id] \in [Sectors -> Nat]
      BY <1>0, <2>1
    <3>3. MaxFaults \in Nat
      BY <1>0 DEF ConstantsAssumption
    <3> QED
      BY <1>0, <1>11, <3>1, <3>2, <3>3 DEF executeOperation, Apply
  <2> QED
    BY <1>0, <1>11, <2>1, <2>2 DEF executeOperation, WorkerGoto, prodVars
<1>12. CASE executeReturn
  BY <1>0, <1>12 DEF executeReturn, WorkerGoto, prodVars, ghosts
<1>13. CASE FinalReturn
  BY <1>0, <1>13 DEF FinalReturn, WorkerGoto, prodVars, ghosts
<1>14. CASE FinalPick
  BY <1>0, <1>14 DEF FinalPick, WorkerGoto, prodVars, ghosts
<1>15. CASE FinalLookup
  <2>1. final \in Nat \ {0}
    BY <1>0, <1>15 DEF IInv, HeaderSafe, FinalLookup, WorkerGoto, ConstantsAssumption
  <2> QED
    BY <1>0, <1>15, <2>1 DEF FinalLookup, WorkerGoto, HeaderOp, prodVars, ghosts
<1>16. CASE FinalDelete
  <2>1. 0 \in 0..calls
    BY <1>0 DEF ConstantsAssumption
  <2> QED
    BY <1>0, <1>16, <2>1 DEF FinalDelete, WorkerGoto, prodVars, ghosts
<1>17. CASE executeFinal
  BY <1>0, <1>17
     DEF executeFinal, Apply, WorkerGoto, prodVars, HeaderOp, Sectors, ConstantsAssumption
<1> QED
  BY <1>1, <1>2, <1>3, <1>4, <1>5, <1>6, <1>7, <1>8, <1>9, <1>10, <1>11, <1>12,
     <1>13, <1>14, <1>15, <1>16, <1>17
     DEF Next, Producer, Worker

(* The worker finds what it is about to take still in the slice.           *)
LEMMA NonEmptyStep ==
    ASSUME IInv, [Next]_vars
    PROVE  NonEmpty'
<1>1. CASE StoreAppend
  <2>1. pview \in Seq(DataOp) /\ pop \in DataOp
    BY DEF IInv, TypeOK
  <2>2. Append(pview, pop) # <<>>
    BY <2>1, AppendProperties
  <2> QED
    BY <1>1, <2>2 DEF IInv, NonEmpty, StoreAppend, workVars
<1>2. CASE ~StoreAppend
  BY <1>2 DEF IInv, NonEmpty, Next, Producer, Worker, vars, prodVars, workVars, ghosts,
     FileWriteBytes, FileReadBytesDirect, FileWriteBytesOneTimeFinal, BeginAppend, Stop,
     Wake, TakeHead, LoadDelete, StoreDelete, executeOperation, executeReturn,
     FinalReturn, FinalPick, FinalLookup, FinalDelete, executeFinal, WorkerGoto
<1> QED
  BY <1>1, <1>2

(* Every step keeps the loaded slices related to the one in the struct.    *)
LEMMA CopiesStep ==
    ASSUME IInv, [Next]_vars
    PROVE  Copies'
<1> USE DEF IInv, Copies, TypeOK
<1>1. ASSUME NEW op, BeginAppend(op), UNCHANGED <<operations, workVars, ghosts>>
      PROVE  Copies'
  <2>1. KeptIn(operations, operations)
    BY LenProperties DEF KeptIn
  <2> QED
    BY <1>1, <2>1 DEF BeginAppend, workVars, ghosts
<1>2. CASE StoreAppend
  <2>1. pview \in Seq(DataOp) /\ pop \in DataOp /\ pop.blk \in Blocks \union {NoBlock}
        /\ wview \in Seq(DataOp) /\ newest \in [Sectors -> Nat] /\ Blocks \subseteq Sectors
    BY DEF DataOp, Sectors
  <2>2. ASSUME NEW c \in Blocks \ damaged'
        PROVE  EndsWith(operations', c, newest'[c])
    <3>1. CASE c = pop.blk
      <4>1. newest'[c] = pop.id
        BY <1>2, <2>1, <3>1 DEF StoreAppend
      <4> QED
        BY <1>2, <2>1, <3>1, <4>1, EndsWithAppend DEF StoreAppend
    <3>2. CASE c # pop.blk
      <4>1. c \notin damaged /\ newest'[c] = newest[c]
        BY <1>2, <2>1, <3>2 DEF StoreAppend, ghosts
      <4>2. EndsWith(pview, c, newest[c])
        BY <1>2, <4>1 DEF StoreAppend
      <4> QED
        BY <1>2, <2>1, <3>2, <4>1, <4>2, EndsWithAppend DEF StoreAppend
    <3> QED
      BY <3>1, <3>2
  <2>3. ASSUME NEW c \in Blocks \ damaged', wpc = "delete"
        PROVE  EndsWith(wview, c, newest'[c])
    BY <1>2, <2>1, <2>3, ConstantsAssumption DEF StoreAppend, ghosts, ConstantsAssumption
  <2>4. wpc = "delete" => KeptIn(wview, operations')
    BY <1>2, <2>1, KeptInAppend DEF StoreAppend
  <2> QED
    BY <1>2, <2>2, <2>3, <2>4 DEF StoreAppend, workVars
<1>3. CASE FileWriteBytesOneTimeFinal
  <2>1. \A c \in Blocks \ damaged' : c \notin damaged /\ newest'[c] = newest[c]
    BY <1>3, ConstantsAssumption
       DEF FileWriteBytesOneTimeFinal, Sectors, ConstantsAssumption
  <2> QED
    BY <1>3, <2>1 DEF FileWriteBytesOneTimeFinal, workVars
<1>4. CASE LoadDelete
  <2>1. KeptIn(operations, operations)
    BY LenProperties DEF KeptIn
  <2> QED
    BY <1>4, <2>1 DEF LoadDelete, WorkerGoto, prodVars, ghosts
<1>5. CASE StoreDelete
  <2>1. wpc = "delete" /\ wpc' = "run" /\ operations' = Tail(wview)
        /\ newest' = newest /\ damaged' = damaged /\ ppc' = ppc
    BY <1>5 DEF StoreDelete, WorkerGoto, ghosts
  <2>2. wview \in Seq(DataOp) /\ wview # <<>> /\ pview \in Seq(DataOp) /\ Len(wview) \in Nat
    BY <2>1, LenProperties DEF NonEmpty
  <2>3. ASSUME NEW c \in Blocks \ damaged
        PROVE  EndsWith(operations', c, newest[c])
    BY <2>1, <2>2, EndsWithTail
  <2>4. ASSUME NEW c \in Blocks \ damaged, ppc = "append"
        PROVE  EndsWith(pview', c, newest[c])
    BY <1>5, <2>2, <2>4, EndsWithMoved DEF StoreDelete
  <2>5. ppc = "append" => KeptIn(operations', pview')
    BY <1>5, <2>1, <2>2, KeptInTail, KeptInMoved DEF StoreDelete
  <2> QED
    BY <2>1, <2>3, <2>4, <2>5
<1>6. ASSUME UNCHANGED <<operations, ppc, pview, wview, newest>>, damaged \subseteq damaged',
             wpc' # "delete"
      PROVE  Copies'
  BY <1>6
<1>7. CASE UNCHANGED vars
  BY <1>7 DEF vars, prodVars, workVars, ghosts
<1>8. CASE Stop
  BY <1>8 DEF Stop, prodVars, workVars, ghosts
<1>9. CASE \E b \in Blocks : FileWriteBytes(b)
  BY <1>1, <1>9 DEF FileWriteBytes
<1>10. CASE FileReadBytesDirect
  BY <1>1, <1>10 DEF FileReadBytesDirect
<1>11. CASE Worker /\ ~LoadDelete /\ ~StoreDelete
  BY <1>6, <1>11
     DEF Worker, Wake, TakeHead, executeOperation, executeReturn, FinalReturn, FinalPick,
         FinalLookup, FinalDelete, executeFinal, Apply, WorkerGoto, prodVars, ghosts
<1> QED
  BY <1>2, <1>3, <1>4, <1>5, <1>7, <1>8, <1>9, <1>10, <1>11 DEF Next, Producer

(* Every step keeps motor reads in front.                                  *)
LEMMA ReadsStep ==
    ASSUME IInv, [Next]_vars
    PROVE  Reads'
<1> USE DEF IInv, Reads, TypeOK
<1>1. ASSUME NEW b \in Blocks, FileWriteBytes(b)
      PROVE  Reads'
  BY <1>1, ConstantsAssumption
     DEF FileWriteBytes, BeginAppend, workVars, ConstantsAssumption
<1>2. CASE FileReadBytesDirect
  <2>1. operations = <<>>
    BY <1>2, LenProperties, EmptySeq DEF FileReadBytesDirect, getCountOpsForName
  <2> QED
    BY <1>2, <2>1 DEF FileReadBytesDirect, BeginAppend, workVars
<1>3. CASE StoreAppend
  <2>1. ReadInFront(operations')
    BY <1>3, ReadInFrontAppend DEF StoreAppend
  <2> QED
    BY <1>3, <2>1 DEF StoreAppend, workVars
<1>4. CASE StoreDelete
  <2>1. wview \in Seq(DataOp) /\ wview # <<>> /\ ReadInFront(wview) /\ Len(wview) \in Nat
    BY <1>4, LenProperties DEF StoreDelete, WorkerGoto, NonEmpty
  <2>2. ReadInFront(operations')
    BY <1>4, <2>1, ReadInFrontTail DEF StoreDelete
  <2>3. ppc = "append" => ReadInFront(pview')
    BY <1>4, <2>1, ReadInFrontMoved DEF StoreDelete
  <2>4. pview = <<>> => Moved(pview, Len(wview)) = <<>>
    <3>1. Moved(pview, Len(wview)) \in Seq(DataOp) /\ Len(Moved(pview, Len(wview))) = Len(pview)
      BY <2>1, MovedFacts
    <3> QED
      BY <3>1, EmptySeq
  <2> QED
    BY <1>4, <2>2, <2>3, <2>4 DEF StoreDelete, WorkerGoto
<1>5. CASE ~StoreDelete /\ (Worker \/ Stop \/ FileWriteBytesOneTimeFinal \/ UNCHANGED vars)
  BY <1>5
     DEF Worker, Wake, TakeHead, LoadDelete, executeOperation, executeReturn, FinalReturn,
         FinalPick, FinalLookup, FinalDelete, executeFinal, Stop,
         FileWriteBytesOneTimeFinal, WorkerGoto, vars, prodVars, workVars
<1> QED
  BY <1>1, <1>2, <1>3, <1>4, <1>5 DEF Next, Producer

(* Every step keeps the newest write of an undamaged block stored or due.  *)
LEMMA DataSafeStep ==
    ASSUME IInv, [Next]_vars
    PROVE  DataSafe'
<1> SUFFICES ASSUME NEW c \in Blocks \ damaged'
             PROVE  Safe(c)'
  BY DEF DataSafe
<1> USE DEF IInv, TypeOK
<1>0. c \in Blocks /\ c # NoBlock /\ c # Header /\ c \in Sectors
  BY ConstantsAssumption DEF ConstantsAssumption, Sectors
(* A step that leaves the data queue, the worker's data and c alone.       *)
<1>1. ASSUME UNCHANGED <<Rest, HoldsData>>, newest'[c] = newest[c], device'[c] = device[c],
             c \notin damaged, HoldsData => UNCHANGED head
      PROVE  Safe(c)'
  BY <1>0, <1>1 DEF DataSafe, Safe
<1>2. CASE StoreAppend
  <2>1. pview \in Seq(DataOp) /\ pop \in DataOp /\ operations' = Append(pview, pop)
        /\ UNCHANGED <<wpc, wview, head, device>>
    BY <1>2 DEF StoreAppend, workVars
  <2>2. /\ Append(pview, pop) \in Seq(DataOp)
        /\ Len(Append(pview, pop)) = Len(pview) + 1
        /\ Len(pview) \in Nat
        /\ \A i \in 1..Len(pview) : Append(pview, pop)[i] = pview[i]
        /\ Append(pview, pop)[Len(pview) + 1] = pop
        /\ Append(pview, pop) # <<>>
    BY <2>1, AppendFacts, AppendProperties, LenProperties
  <2>3. wpc = "take" => /\ operations # <<>>
                        /\ pview # <<>>
                        /\ KeptIn(Tail(operations), Tail(pview))
                        /\ Tail(pview) \in Seq(DataOp)
    BY <1>2, <2>1, KeptInTails, TailFacts DEF NonEmpty, Copies, StoreAppend
  (* The queue the worker will go on with: pop at its end, and before it   *)
  (* all that the old one held.                                            *)
  <2>4. CASE wpc = "delete"
    <3>1. c # pop.blk
      BY <1>0, <1>2, <2>4 DEF StoreAppend
    <3>2. newest'[c] = newest[c] /\ c \notin damaged
      BY <1>0, <1>2, <2>4, <3>1 DEF StoreAppend, ghosts
    <3> QED
      BY <1>1, <2>1, <2>4, <3>2 DEF Rest, HoldsData
  <2>5. CASE wpc # "delete" /\ c = pop.blk
    <3>1. newest'[c] = pop.id
      BY <1>0, <1>2, <2>5 DEF StoreAppend
    <3>2. \E i \in 1..Len(Rest') : Rest'[i] = pop
      <4>1. CASE wpc = "take"
        <5>1. Rest' = Tail(Append(pview, pop))
          BY <2>1, <4>1 DEF Rest
        <5>2. Len(pview) \in Nat \ {0} /\ Len(Rest') = Len(pview) /\ Rest'[Len(pview)] = pop
          BY <2>2, <2>3, <4>1, <5>1, TailFacts, <2>1
        <5> QED
          BY <5>2
      <4>2. CASE wpc # "take"
        <5>1. Rest' = Append(pview, pop)
          BY <2>1, <2>5, <4>2 DEF Rest
        <5> QED
          BY <2>2, <5>1
      <4> QED
        BY <4>1, <4>2
    <3> QED
      BY <2>5, <3>1, <3>2 DEF Safe
  <2>6. CASE wpc # "delete" /\ c # pop.blk
    <3>1. newest'[c] = newest[c] /\ c \notin damaged
      BY <1>0, <1>2, <2>6 DEF StoreAppend, ghosts
    <3>2. ASSUME NEW i \in 1..Len(Rest)
          PROVE  \E j \in 1..Len(Rest') : Rest'[j] = Rest[i]
      <4>1. CASE wpc = "take"
        <5>1. Rest = Tail(operations) /\ Rest' = Tail(Append(pview, pop))
          BY <2>1, <4>1 DEF Rest
        <5>2. PICK j \in 1..Len(Tail(pview)) : Tail(pview)[j] = Rest[i]
          <6>1. KeptIn(Rest, Tail(pview)) /\ Len(Tail(pview)) \in Nat /\ i \in Nat \ {0}
            BY <2>3, <4>1, <5>1, LenProperties, TailFacts
          <6>2. PICK j \in i..Len(Tail(pview)) : Tail(pview)[j] = Rest[i]
            BY <6>1 DEF KeptIn
          <6> QED
            BY <6>1, <6>2
        <5>3. Len(Tail(pview)) = Len(pview) - 1 /\ Tail(pview)[j] = pview[j + 1]
          BY <2>1, <2>3, <4>1, <5>2, TailFacts
        <5>4. Len(Rest') = Len(pview) /\ Rest'[j] = pview[j + 1]
          BY <2>2, <5>1, <5>2, <5>3, TailFacts
        <5> QED
          BY <2>2, <5>2, <5>3, <5>4
      <4>2. CASE wpc # "take"
        <5>1. Rest = operations /\ Rest' = Append(pview, pop)
          BY <2>1, <2>6, <4>2 DEF Rest
        <5>2. KeptIn(operations, pview) /\ Len(operations) \in Nat
          BY <1>2, LenProperties DEF Copies, StoreAppend
        <5>3. PICK j \in i..Len(pview) : pview[j] = Rest[i]
          BY <5>1, <5>2, <3>2 DEF KeptIn
        <5> QED
          BY <2>2, <5>1, <5>2, <5>3
      <4> QED
        BY <4>1, <4>2
    <3>3. Safe(c)
      BY <1>0, <3>1 DEF DataSafe
    <3> QED
      BY <2>1, <3>1, <3>2, <3>3 DEF Safe, HoldsData
  <2> QED
    BY <2>4, <2>5, <2>6
<1>3. CASE TakeHead
  <2>1. /\ operations # <<>> /\ operations \in Seq(DataOp)
        /\ Rest = operations /\ Rest' = Tail(operations)
        /\ ~HoldsData /\ HoldsData' /\ head' = operations[1]
        /\ UNCHANGED <<newest, device, damaged>>
    BY <1>3, TailFacts DEF TakeHead, WorkerGoto, Rest, HoldsData, ghosts
  <2>2. Safe(c) /\ EndsWith(operations, c, newest[c])
    BY <1>0, <2>1 DEF DataSafe, Copies
  <2>3. Len(operations) \in Nat \ {0} /\ Len(Rest') = Len(operations) - 1
        /\ \A i \in 1..Len(operations) - 1 : Rest'[i] = operations[i + 1]
    BY <2>1, TailFacts
  <2>4. ASSUME NEW i \in 1..Len(operations),
               operations[i].blk = c, operations[i].id = newest[c]
        PROVE  Safe(c)'
    <3>1. CASE i = 1
      BY <2>1, <2>4, <3>1 DEF Safe
    <3>2. CASE i # 1
      <4>1. i - 1 \in 1..Len(Rest') /\ Rest'[i - 1] = operations[i]
        <5>1. i - 1 \in 1..Len(operations) - 1 /\ (i - 1) + 1 = i
          BY <2>3, <3>2
        <5> QED
          BY <2>3, <5>1
      <4>2. newest'[c] = newest[c]
        BY <2>1
      <4> QED
        BY <2>4, <4>1, <4>2 DEF Safe
    <3> QED
      BY <3>1, <3>2
  <2>5. CASE operations[1].blk = c
    <3>1. 1 \in 1..Len(operations)
      BY <2>3
    <3>2. PICK j \in 1..Len(operations) : operations[j].blk = c /\ operations[j].id = newest[c]
      BY <2>2, <2>5, <3>1 DEF EndsWith
    <3> QED
      BY <2>4, <3>2
  <2>6. CASE operations[1].blk # c
    BY <2>1, <2>2, <2>4, <2>6 DEF Safe
  <2> QED
    BY <2>5, <2>6
<1>4. CASE LoadDelete
  BY <1>0, <1>1, <1>4 DEF LoadDelete, WorkerGoto, Rest, HoldsData, ghosts, prodVars
<1>5. CASE StoreDelete
  BY <1>0, <1>1, <1>5 DEF StoreDelete, WorkerGoto, Rest, HoldsData, ghosts
<1>6. CASE executeOperation
  <2>1. /\ HoldsData /\ ~HoldsData' /\ Rest' = Rest
        /\ newest' = newest /\ damaged \subseteq damaged'
    BY <1>6 DEF executeOperation, WorkerGoto, Apply, Rest, HoldsData, prodVars
  <2>2. Safe(c)
    BY <1>0, <2>1 DEF DataSafe
  <2>3. head.blk = c /\ head.id = newest[c] => device'[c] = newest[c]
    BY <1>0, <1>6 DEF executeOperation, Apply
  <2>4. head.blk # c => device'[c] = device[c]
    BY <1>0, <1>6 DEF executeOperation, Apply
  <2> QED
    <3>1. newest'[c] = newest[c]
      BY <2>1
    <3>2. CASE \E i \in 1..Len(Rest) : Rest[i].blk = c /\ Rest[i].id = newest[c]
      BY <2>1, <3>1, <3>2 DEF Safe
    <3>3. CASE head.blk = c /\ head.id = newest[c]
      BY <2>1, <2>3, <3>1, <3>3 DEF Safe
    <3>4. CASE head.blk # c /\ device[c] = newest[c]
      BY <2>1, <2>4, <3>1, <3>4 DEF Safe
    <3> QED
      BY <2>1, <2>2, <3>2, <3>3, <3>4 DEF Safe
<1>7. CASE executeFinal
  <2>1. head.blk = Header /\ ~HoldsData /\ ~HoldsData' /\ Rest' = Rest
        /\ newest' = newest /\ damaged \subseteq damaged'
    BY <1>7 DEF executeFinal, WorkerGoto, Apply, Rest, HoldsData, HoldsHeader, HeaderOp, prodVars
  <2>2. device'[c] = device[c]
    BY <1>0, <1>7, <2>1 DEF executeFinal, Apply
  <2> QED
    BY <1>0, <2>1, <2>2 DEF DataSafe, Safe
<1>8. CASE FileWriteBytesOneTimeFinal
  <2>1. newest'[c] = newest[c] /\ c \notin damaged
    BY <1>0, <1>8 DEF FileWriteBytesOneTimeFinal
  <2> QED
    BY <1>1, <1>8, <2>1 DEF FileWriteBytesOneTimeFinal, Rest, HoldsData, workVars
<1>9. CASE Wake \/ executeReturn \/ FinalReturn \/ FinalPick \/ FinalLookup \/ FinalDelete
  BY <1>0, <1>1, <1>9
     DEF Wake, executeReturn, FinalReturn, FinalPick, FinalLookup, FinalDelete, WorkerGoto,
         Rest, HoldsData, prodVars, ghosts
<1>10. CASE Stop \/ UNCHANGED vars \/ FileReadBytesDirect \/ \E b \in Blocks : FileWriteBytes(b)
  BY <1>0, <1>1, <1>10
     DEF Stop, FileReadBytesDirect, FileWriteBytes, vars, prodVars, workVars, ghosts,
         Rest, HoldsData
<1> QED
  BY <1>2, <1>3, <1>4, <1>5, <1>6, <1>7, <1>8, <1>9, <1>10 DEF Next, Producer, Worker

(* Every step keeps the newest header stored or due, headers in order.     *)
LEMMA HeaderStep ==
    ASSUME IInv, [Next]_vars
    PROVE  HeaderSafe' /\ HeaderOrder'
<1> USE DEF IInv, TypeOK, HeaderSafe, HeaderOrder, HoldsHeader, HoldsData
<1>0. /\ Header \in Sectors /\ Header \notin Blocks /\ Header # NoBlock
      /\ device[Header] \in Nat /\ newest[Header] \in Nat /\ calls \in Nat /\ final \in Nat
  BY ConstantsAssumption DEF ConstantsAssumption, Sectors
<1>1. CASE FileWriteBytesOneTimeFinal
  BY <1>0, <1>1 DEF FileWriteBytesOneTimeFinal, workVars, HeaderOp
<1>2. CASE StoreAppend
  <2>1. /\ newest'[Header] = newest[Header]
        /\ Header \notin damaged' => Header \notin damaged
    BY <1>0, <1>2 DEF StoreAppend, ghosts
  <2> QED
    BY <1>0, <1>2, <2>1 DEF StoreAppend, workVars
<1>3. CASE executeOperation
  BY <1>0, <1>3 DEF executeOperation, Apply, WorkerGoto, DataOp, prodVars
<1>4. CASE executeFinal
  BY <1>0, <1>4 DEF executeFinal, Apply, WorkerGoto, HeaderOp, prodVars
<1>5. CASE FinalLookup
  BY <1>0, <1>5 DEF FinalLookup, WorkerGoto, ghosts, prodVars
<1>6. CASE FinalDelete
  BY <1>0, <1>6 DEF FinalDelete, WorkerGoto, ghosts, prodVars
<1>7. CASE \E b \in Blocks : FileWriteBytes(b)
  BY <1>0, <1>7 DEF FileWriteBytes, BeginAppend, workVars, ghosts, HeaderOp
<1>8. CASE TakeHead \/ LoadDelete \/ StoreDelete \/ Wake \/ executeReturn
           \/ FinalReturn \/ FinalPick
  BY <1>0, <1>8 DEF TakeHead, LoadDelete, StoreDelete, Wake, executeReturn, FinalReturn,
     FinalPick, WorkerGoto, prodVars, ghosts
<1>9. CASE Stop \/ UNCHANGED vars \/ FileReadBytesDirect
  BY <1>0, <1>9 DEF Stop, FileReadBytesDirect, vars, prodVars, workVars, ghosts
<1> QED
  BY <1>1, <1>2, <1>3, <1>4, <1>5, <1>6, <1>7, <1>8, <1>9 DEF Next, Producer, Worker

(* A delete brings no unknown write.                                       *)
LEMMA KnownTail ==
    ASSUME NEW s \in Seq(DataOp), s # <<>>, Known(s)
    PROVE  Known(Tail(s))
BY TailFacts DEF Known

(* Moving the elements brings no unknown write.                            *)
LEMMA KnownMoved ==
    ASSUME NEW s \in Seq(DataOp), NEW n \in Nat, Known(s)
    PROVE  Known(Moved(s, n))
BY MovedFacts, LenProperties DEF Known

(* Every step keeps the numbers of writes in their order.                  *)
LEMMA NumbersStep ==
    ASSUME IInv, [Next]_vars
    PROVE  Numbers'
<1> USE DEF IInv, TypeOK, Numbers, HoldsData, HoldsHeader
<1>0. /\ Header \in Sectors /\ Header \notin Blocks /\ calls \in Nat
      /\ Blocks \subseteq Sectors /\ NoBlock \notin Blocks
  BY ConstantsAssumption DEF ConstantsAssumption, Sectors
<1>1. ASSUME NEW b \in Blocks, FileWriteBytes(b)
      PROVE  Numbers'
  <2>1. /\ calls' = calls + 1 /\ pop' = [blk |-> b, id |-> calls'] /\ pview' = operations
        /\ ppc' = "append"
        /\ UNCHANGED <<operations, newest, wpc, wview, head>>
    BY <1>1 DEF FileWriteBytes, BeginAppend, workVars, ghosts
  <2>2. newest[b] \in Nat /\ newest[b] <= calls /\ \A s \in Sectors : newest[s] \in Nat
    BY <1>0
  <2>3. newest'[pop'.blk] < pop'.id /\ pop'.id <= calls'
    BY <1>0, <2>1, <2>2
  <2>4. \A s \in Sectors : newest'[s] <= calls'
    BY <1>0, <2>1, <2>2
  <2> QED
    BY <2>1, <2>3, <2>4 DEF Known
<1>2. CASE StoreAppend
  <2>1. /\ operations' = Append(pview, pop) /\ ppc' = "idle"
        /\ UNCHANGED <<calls, wpc, wview, head>>
        /\ pview \in Seq(DataOp) /\ pop \in DataOp /\ Known(pview)
    BY <1>2 DEF StoreAppend, workVars
  <2>2. \A s \in Sectors :
           /\ newest[s] \in Nat /\ newest'[s] \in Nat
           /\ newest[s] <= newest'[s] /\ newest'[s] <= calls
    <3>1. CASE pop.blk \in Blocks
      <4>1. newest' = [newest EXCEPT ![pop.blk] = pop.id] /\ ppc = "append"
        BY <1>2, <3>1 DEF StoreAppend
      <4>2. newest[pop.blk] < pop.id /\ pop.id <= calls /\ pop.id \in Nat
        BY <3>1, <4>1 DEF DataOp
      <4> QED
        BY <1>0, <3>1, <4>1, <4>2
    <3>2. CASE pop.blk \notin Blocks
      BY <1>0, <1>2, <3>2 DEF StoreAppend, ghosts
    <3> QED
      BY <3>1, <3>2
  <2>3. ASSUME NEW q \in Seq(DataOp), Known(q)
        PROVE  Known(q)'
    <3>1. \A i \in 1..Len(q) : q[i] \in DataOp
      BY ElementOfSeq
    <3>2. \A i \in 1..Len(q) : q[i].id \in Nat
      BY <3>1 DEF DataOp
    <3> QED
      BY <1>0, <2>2, <2>3, <3>2 DEF Known
  <2>4. pop.blk \in Blocks => pop.id = newest'[pop.blk]
    BY <1>0, <1>2 DEF StoreAppend
  <2>5. Known(operations)'
    <3>1. \A i \in 1..Len(pview) : pview[i].blk \in Blocks => pview[i].id <= newest'[pview[i].blk]
      BY <2>1, <2>3 DEF Known
    <3>2. pop.blk \in Blocks => pop.id <= newest'[pop.blk]
      BY <2>1, <2>4 DEF DataOp
    <3>3. \A i \in 1..Len(pview) + 1 : i \in 1..Len(pview) \/ i = Len(pview) + 1
      BY <2>1, LenProperties
    <3> QED
      BY <2>1, <3>1, <3>2, <3>3, AppendFacts DEF Known
  <2>6. wpc = "delete" => Known(wview)'
    BY <2>1, <2>3 DEF Known
  <2>7. HoldsData /\ head.blk \in Blocks => head.id <= newest'[head.blk]
    BY <1>0, <2>2 DEF DataOp
  <2>8. HoldsHeader => head.id <= newest'[Header]
    BY <1>0, <2>2 DEF HeaderOp
  <2> QED
    BY <1>0, <2>1, <2>2, <2>5, <2>6, <2>7, <2>8
<1>3. CASE FileWriteBytesOneTimeFinal
  <2>1. \A s \in Sectors : newest[s] \in Nat /\ newest[s] <= newest'[s] /\ newest'[s] <= calls'
    BY <1>0, <1>3 DEF FileWriteBytesOneTimeFinal
  <2>2. \A s \in Blocks : newest'[s] = newest[s]
    BY <1>0, <1>3 DEF FileWriteBytesOneTimeFinal
  <2>3. head.id <= newest'[Header] \/ ~HoldsHeader
    <3>1. newest'[Header] = calls + 1 /\ newest[Header] \in Nat /\ newest[Header] <= calls
      BY <1>0, <1>3 DEF FileWriteBytesOneTimeFinal
    <3>2. HoldsHeader => head.id <= newest[Header] /\ head.id \in Nat
      BY DEF HeaderOp
    <3> QED
      BY <1>0, <3>1, <3>2
  <2> QED
    BY <1>0, <1>3, <2>1, <2>2, <2>3 DEF FileWriteBytesOneTimeFinal, workVars, Known
<1>4. CASE TakeHead
  <2>1. head' = operations[1] /\ 1 \in 1..Len(operations)
    BY <1>4, TailFacts DEF TakeHead
  <2>2. head'.blk \in Blocks => head'.id <= newest[head'.blk]
    BY <2>1 DEF Known
  <2> QED
    BY <1>4, <2>2 DEF TakeHead, WorkerGoto, prodVars, ghosts, Known
<1>5. CASE StoreDelete
  <2>1. wview # <<>> /\ Len(wview) \in Nat
    BY <1>5, LenProperties DEF NonEmpty, StoreDelete, WorkerGoto
  <2>2. Known(operations)'
    BY <1>5, <2>1, KnownTail DEF StoreDelete, WorkerGoto, ghosts, Known
  <2>3. ppc = "append" => Known(pview)'
    BY <1>5, <2>1, KnownMoved DEF StoreDelete, ghosts, Known
  <2> QED
    BY <1>5, <2>2, <2>3 DEF StoreDelete, WorkerGoto, ghosts
<1>6. CASE FinalLookup
  <2>1. final = newest[Header] /\ newest[Header] \in Nat
    BY <1>0, <1>6 DEF FinalLookup, WorkerGoto, HeaderSafe
  <2> QED
    BY <1>6, <2>1 DEF FinalLookup, WorkerGoto, prodVars, ghosts, Known
<1>7. CASE FileReadBytesDirect
  BY <1>0, <1>7 DEF FileReadBytesDirect, BeginAppend, DirectRead, workVars, ghosts, Known
<1>8. CASE LoadDelete \/ Wake \/ executeReturn \/ FinalReturn \/ FinalPick \/ FinalDelete
           \/ Stop \/ UNCHANGED vars
  BY <1>8 DEF LoadDelete, Wake, executeReturn, FinalReturn, FinalPick, FinalDelete, Stop,
     WorkerGoto, vars, prodVars, workVars, ghosts, Known
<1>9. CASE executeOperation \/ executeFinal
  BY <1>9 DEF executeOperation, executeFinal, WorkerGoto, prodVars, Known
<1> QED
  BY <1>1, <1>2, <1>3, <1>4, <1>5, <1>6, <1>7, <1>8, <1>9 DEF Next, Producer, Worker

(* Every step keeps the invariant.                                         *)
LEMMA StepIInv == IInv /\ [Next]_vars => IInv'
BY TypeStep, NonEmptyStep, CopiesStep, ReadsStep, DataSafeStep, HeaderStep, NumbersStep DEF IInv

-----------------------------------------------------------------------------
(* The theorems.                                                           *)

(* Whatever the producer and the worker do to each other, the slice, the   *)
(* map, the operation in hand and the floppy stay in the relations of IInv. *)
THEOREM Invariance == Spec => []IInv
BY InitIInv, StepIInv, PTL DEF Spec

(* Everything in the queue keeps its type; in particular the worker runs   *)
(* from the slice only what was put there (execute) and from the map only  *)
(* an entry that was put there (executeOneTimeFinal).                      *)
THEOREM TypeCorrect == Spec => []TypeOK
<1>1. IInv => TypeOK
  BY DEF IInv
<1> QED
  BY <1>1, Invariance, PTL

(* The invariant says what NewestStoredOrDue asks for.                     *)
LEMMA NewestFromIInv == IInv => NewestStoredOrDue
<1> SUFFICES ASSUME IInv, NEW s \in Sectors \ damaged
             PROVE  device[s] = newest[s] \/ NewestDue(s)
  BY DEF NewestStoredOrDue
<1> USE DEF IInv
<1>1. CASE s = Header
  BY <1>1 DEF HeaderSafe, HoldsHeader, NewestDue, TypeOK, HeaderOp
<1>2. CASE s \in Blocks
  <2>1. Safe(s)
    BY <1>2 DEF DataSafe
  <2>2. CASE \E i \in 1..Len(Rest) : Rest[i].blk = s /\ Rest[i].id = newest[s]
    <3>1. PICK i \in 1..Len(Rest) : Rest[i].blk = s /\ Rest[i].id = newest[s]
      BY <2>2
    <3>2. \E j \in 1..Len(operations) : operations[j] = Rest[i]
      <4>1. operations \in Seq(DataOp) /\ wview \in Seq(DataOp)
            /\ Len(operations) \in Nat /\ Len(wview) \in Nat
        BY LenProperties DEF TypeOK
      <4>2. CASE wpc = "take"
        BY <3>1, <4>1, <4>2, TailFacts DEF Rest, NonEmpty
      <4>3. CASE wpc = "delete"
        <5>1. wview # <<>> /\ Rest = Tail(wview) /\ KeptIn(wview, operations)
          BY <4>3 DEF Rest, NonEmpty, Copies
        <5>2. i + 1 \in 1..Len(wview) /\ Rest[i] = wview[i + 1]
          BY <3>1, <4>1, <5>1, TailFacts
        <5>3. PICK j \in i + 1..Len(operations) : operations[j] = wview[i + 1]
          BY <5>1, <5>2 DEF KeptIn
        <5> QED
          BY <4>1, <5>2, <5>3
      <4>4. CASE wpc # "take" /\ wpc # "delete"
        BY <3>1, <4>4 DEF Rest
      <4> QED
        BY <4>2, <4>3, <4>4
    <3>3. DOMAIN operations = 1..Len(operations)
      BY LenProperties DEF TypeOK
    <3> QED
      BY <3>1, <3>2, <3>3 DEF NewestDue
  <2>3. CASE HoldsData /\ head.blk = s /\ head.id = newest[s]
    BY <2>3 DEF NewestDue
  <2> QED
    BY <2>1, <2>2, <2>3 DEF Safe
<1> QED
  BY <1>1, <1>2 DEF Sectors

(* The unlocked append and slices.Delete never cost the newest write of a  *)
(* sector its place: it is stored, due, or met one of the named events.    *)
THEOREM NewestKept == Spec => []NewestStoredOrDue
BY NewestFromIInv, Invariance, PTL

(* A motor read is only ever the first of the queue (onFloppyRead).        *)
THEOREM ReadsInFront == Spec => []DirectReadOnlyInFront
<1>1. IInv => DirectReadOnlyInFront
  <2> SUFFICES ASSUME IInv PROVE DirectReadOnlyInFront
    OBVIOUS
  <2>1. operations \in Seq(DataOp) /\ ReadInFront(operations)
    BY DEF IInv, TypeOK, Reads
  <2> QED
    BY <2>1, LenProperties DEF DirectReadOnlyInFront, ReadInFront
<1> QED
  BY <1>1, Invariance, PTL

(* The queue writes headers in the order they were put, even though their  *)
(* lookup and their delete are two steps (executeOneTimeFinal).            *)
THEOREM HeaderMonotone == Spec => HeaderNeverGoesBack
<1>1. IInv /\ [Next]_vars => [device'[Header] >= device[Header]]_vars
  <2> SUFFICES ASSUME IInv, [Next]_vars
               PROVE  device'[Header] >= device[Header]
    OBVIOUS
  <2>0. /\ Header \in Sectors /\ Header \notin Blocks /\ Header # NoBlock
        /\ device[Header] \in Nat
    BY ConstantsAssumption DEF ConstantsAssumption, Sectors, IInv, TypeOK
  <2>1. CASE executeFinal
    <3>1. head \in HeaderOp /\ device[Header] <= head.id
      BY <2>1 DEF executeFinal, WorkerGoto, IInv, TypeOK, HeaderOrder, HoldsHeader
    <3>2. head.blk = Header /\ head.id \in Nat /\ device \in [Sectors -> Nat]
      BY <3>1 DEF HeaderOp, IInv, TypeOK
    <3> QED
      BY <2>0, <2>1, <3>1, <3>2 DEF executeFinal, Apply
  <2>2. CASE executeOperation
    <3>1. head.blk # Header
      BY <2>0, <2>2 DEF executeOperation, WorkerGoto, IInv, TypeOK, HoldsData, DataOp
    <3>2. device'[Header] = device[Header]
      BY <2>0, <2>2, <3>1 DEF executeOperation, Apply, IInv, TypeOK
    <3> QED
      BY <2>0, <3>2
  <2>3. CASE ~executeFinal /\ ~executeOperation
    <3>1. device' = device
      BY <2>3 DEF Next, Producer, Worker, FileWriteBytes, FileReadBytesDirect, StoreAppend,
         FileWriteBytesOneTimeFinal, Stop, Wake, TakeHead, LoadDelete, StoreDelete,
         executeReturn, FinalReturn, FinalPick, FinalLookup, FinalDelete, vars
    <3> QED
      BY <2>0, <3>1
  <2> QED
    BY <2>1, <2>2, <2>3
<1> QED
  BY <1>1, Invariance, PTL DEF Spec, HeaderNeverGoesBack

-----------------------------------------------------------------------------
(* The queue implements DelayedWrites.                                     *)

DueSet == {s \in Sectors \ damaged : NewestDue(s)}

(* Where the newest write is not stored, NewestStoredOrDue before and after *)
(* a step already says what is due.                                        *)
LEMMA DueKept ==
    ASSUME NewestStoredOrDue, NewestStoredOrDue', NEW S,
           \A s \in Sectors \ S :
              newest'[s] = newest[s] /\ device'[s] = device[s]
              /\ (s \in damaged' <=> s \in damaged)
    PROVE  /\ (DueSet \ DueSet') \union (DueSet' \ DueSet)
                 \subseteq {s \in Sectors : device[s] = newest[s]} \union S
           /\ DueSet' \intersect damaged' = {}
<1>1. ASSUME NEW s \in Sectors \ S, device[s] # newest[s]
      PROVE  s \in DueSet <=> s \in DueSet'
  BY <1>1 DEF NewestStoredOrDue, DueSet
<1> QED
  BY <1>1 DEF DueSet

(* Every step of the queue is a step of DelayedWrites or leaves its        *)
(* variables alone.                                                        *)
LEMMA StepDelayed ==
    ASSUME IInv, IInv', [Next]_vars
    PROVE  [Delayed!Next]_Delayed!vars
<1> DEFINE Up == {s \in Sectors : device[s] = newest[s]}
           Kept(S) == /\ (DueSet \ DueSet') \union (DueSet' \ DueSet) \subseteq Up \union S
                      /\ DueSet' \intersect damaged' = {}
<1>0. /\ NewestStoredOrDue /\ NewestStoredOrDue' /\ TypeOK
      /\ Blocks \subseteq Sectors /\ Header \in Sectors /\ NoBlock \notin Sectors
  <2>1. (IInv => NewestStoredOrDue)'
    BY NewestFromIInv, PTL
  <2> QED
    BY <2>1, NewestFromIInv, ConstantsAssumption DEF IInv, ConstantsAssumption, Sectors
<1>1. ASSUME UNCHANGED <<device, newest, damaged>>
      PROVE  Delayed!Next
  <2>1. Kept({})
    BY <1>0, <1>1, DueKept
  <2> QED
    BY <1>1, <2>1 DEF Delayed!Next, Delayed!Repeat, Delayed!KeepsDueBut, Delayed!UpToDate, DueSet
<1>2. ASSUME NEW s \in Sectors, newest' = [newest EXCEPT ![s] = newest'[s]],
             newest'[s] > newest[s], damaged' \in {damaged \union {s}, damaged \ {s}},
             device' = device, s \in DueSet' \union damaged'
      PROVE  Delayed!Next
  <2>1. Kept({s})
    BY <1>0, <1>2, DueKept DEF TypeOK
  <2> QED
    BY <1>2, <2>1 DEF Delayed!Next, Delayed!Accept, Delayed!KeepsDueBut, Delayed!UpToDate, DueSet
<1>3. ASSUME NEW s \in Sectors, device' = [device EXCEPT ![s] = device'[s]],
             device'[s] <= newest[s], UNCHANGED <<newest, damaged>>
      PROVE  Delayed!Next
  <2>1. Kept({s})
    BY <1>0, <1>3, DueKept DEF TypeOK
  <2>2. device'[s] = newest[s] \/ s \in DueSet' \union damaged
    BY <1>0, <1>3 DEF NewestStoredOrDue, DueSet
  <2> QED
    BY <1>3, <2>1, <2>2 DEF Delayed!Next, Delayed!Store, Delayed!KeepsDueBut, Delayed!UpToDate, DueSet
<1>4. ASSUME NEW s \in Sectors, damaged' = damaged \union {s}, UNCHANGED <<device, newest>>
      PROVE  Delayed!Next
  <2>1. Kept({s})
    BY <1>0, <1>4, DueKept
  <2> QED
    BY <1>4, <2>1 DEF Delayed!Next, Delayed!Refuse, Delayed!KeepsDueBut, Delayed!UpToDate, DueSet
<1>5. CASE StoreAppend
  <2>1. CASE pop.blk \in Blocks
    <3>1. newest' = [newest EXCEPT ![pop.blk] = pop.id] /\ ppc = "append" /\ device' = device
          /\ damaged' \in {damaged \union {pop.blk}, damaged \ {pop.blk}}
      BY <1>5, <2>1 DEF StoreAppend
    <3>2. newest'[pop.blk] = pop.id /\ newest'[pop.blk] > newest[pop.blk]
      <4>1. newest[pop.blk] < pop.id /\ newest[pop.blk] \in Nat /\ pop.id \in Nat
        BY <1>0, <2>1, <3>1 DEF IInv, Numbers, TypeOK, DataOp
      <4> QED
        BY <1>0, <2>1, <3>1, <4>1 DEF TypeOK
    <3>3. pop.blk \in DueSet' \union damaged'
      <4>1. pop.blk \notin damaged' => pop.blk \in (Sectors \ damaged)'
        BY <1>0, <2>1
      <4>2. operations' = Append(pview, pop) /\ pop' = pop /\ pview \in Seq(DataOp) /\ pop \in DataOp
        BY <1>0, <1>5 DEF StoreAppend, TypeOK
      <4>3. Len(pview) + 1 \in DOMAIN operations' /\ operations'[Len(pview) + 1] = pop
        BY <4>2, AppendFacts, LenProperties
      <4>4. NewestDue(pop.blk)'
        BY <3>2, <4>2, <4>3 DEF NewestDue
      <4> QED
        BY <4>1, <4>2, <4>4 DEF DueSet
    <3> QED
      BY <1>0, <1>2, <2>1, <3>1, <3>2, <3>3
  <2>2. CASE pop.blk \notin Blocks
    BY <1>1, <1>5, <2>2 DEF StoreAppend, ghosts
  <2> QED
    BY <2>1, <2>2
<1>6. CASE FileWriteBytesOneTimeFinal
  <2>1. newest' = [newest EXCEPT ![Header] = calls + 1] /\ device' = device /\ final' = calls + 1
        /\ damaged' \in {damaged \union {Header}, damaged \ {Header}}
    BY <1>6 DEF FileWriteBytesOneTimeFinal
  <2>2. newest'[Header] = calls + 1 /\ calls + 1 > newest[Header] /\ calls + 1 # 0
    <3>1. newest[Header] <= calls /\ newest[Header] \in Nat /\ calls \in Nat
      BY <1>0, ConstantsAssumption DEF IInv, Numbers, TypeOK, ConstantsAssumption
    <3> QED
      BY <1>0, <2>1, <3>1 DEF TypeOK
  <2>3. Header \in DueSet' \union damaged'
    BY <1>0, <2>1, <2>2 DEF DueSet, NewestDue
  <2> QED
    BY <1>0, <1>2, <2>1, <2>2, <2>3
<1>7. CASE executeOperation \/ executeFinal
  <2>1. newest' = newest /\ Apply /\ (HoldsData \/ HoldsHeader)
    BY <1>7 DEF executeOperation, executeFinal, WorkerGoto, HoldsData, HoldsHeader
  <2>2. CASE head.blk = NoBlock
    BY <1>1, <2>1, <2>2 DEF Apply
  <2>3. CASE head.blk # NoBlock
    <3>1. head.blk \in Sectors /\ head.id <= newest[head.blk]
      BY <1>0, <2>1, <2>3 DEF IInv, Numbers, TypeOK, DataOp, HeaderOp
    <3>2. CASE device' = [device EXCEPT ![head.blk] = head.id] /\ damaged' = damaged
      BY <1>0, <1>3, <2>1, <3>1, <3>2 DEF TypeOK
    <3>3. CASE device' = device /\ damaged' \in {damaged, damaged \union {head.blk}}
      BY <1>1, <1>4, <2>1, <3>1, <3>3
    <3> QED
      BY <2>1, <2>3, <3>2, <3>3 DEF Apply
  <2> QED
    BY <2>2, <2>3
<1>8. CASE \/ Wake \/ TakeHead \/ LoadDelete \/ StoreDelete \/ executeReturn \/ FinalReturn
           \/ FinalPick \/ FinalLookup \/ FinalDelete \/ Stop \/ FileReadBytesDirect
           \/ UNCHANGED vars \/ \E b \in Blocks : FileWriteBytes(b)
  BY <1>1, <1>8
     DEF Wake, TakeHead, LoadDelete, StoreDelete, executeReturn, FinalReturn, FinalPick,
         FinalLookup, FinalDelete, Stop, FileReadBytesDirect, FileWriteBytes, vars, ghosts
<1> QED
  BY <1>5, <1>6, <1>7, <1>8 DEF Next, Producer, Worker

(* Every behaviour of the queue is one of DelayedWrites: the device takes  *)
(* only accepted writes, and what is not stored stays due, in spite of the *)
(* races of FileWriteBytes with slices.Delete and of the map's two steps.  *)
THEOREM Refinement == Spec => KeepsPromise
<1>1. Init => Delayed!Init
  BY DEF Init, Delayed!Init, NewestDue, HoldsData, HoldsHeader
<1>2. IInv /\ IInv' /\ [Next]_vars => [Delayed!Next]_Delayed!vars
  BY StepDelayed
<1> QED
  BY <1>1, <1>2, Invariance, PTL DEF Spec, KeepsPromise, Delayed!Spec
=============================================================================
