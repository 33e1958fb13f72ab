---------------------------- MODULE AsyncFileOps ----------------------------
(***************************************************************************)
(* The queue of delayed file operations of one floppy drive                *)
(* (shared/components/async_file_ops.go).  The FUSE thread that serves the *)
(* drive's medium is the only producer: FloppyMediumDriver.Read and Write  *)
(* hold the mutex of the medium while they call it.  The goroutine of the  *)
(* queue is the only worker.  Neither takes a lock on the slice or on the  *)
(* map, so an append and a delete are modelled as the loads and stores of  *)
(* the slice header they are made of.  A header is loaded and stored as    *)
(* one unit; so is an entry of the map.                                    *)
(*                                                                         *)
(* A write is known by the sector it goes to and by its number in the      *)
(* order of the calls, which also stands for its contents.                 *)
(***************************************************************************)
EXTENDS Naturals, Sequences

CONSTANTS
    Blocks,     (* data sectors the emulator writes                          *)
    Header,     (* the last sector, target of the one-time-final writes      *)
    NoBlock,    (* "sector" of a direct read: it moves the motor, no more    *)
    MaxOps,     (* bound on the number of writes the producer asks for       *)
    MaxFaults   (* bound on the number of writes the device refuses          *)

ASSUME ConstantsAssumption ==
    /\ Header \notin Blocks
    /\ NoBlock \notin Blocks
    /\ NoBlock # Header
    /\ MaxOps \in Nat
    /\ MaxFaults \in Nat

Sectors == Blocks \union {Header}
DataOp == [blk : Blocks \union {NoBlock}, id : Nat]
HeaderOp == [blk : {Header}, id : Nat \ {0}]
DirectRead == [blk |-> NoBlock, id |-> 0]

VARIABLES
    operations, (* what the slice header in the struct shows                 *)
    final,      (* number of the one entry of oneTimeFinalOperations, 0: none *)
    running,    (* RunnerBase.running                                        *)
    ppc,        (* producer: "idle", or "append" inside append()             *)
    pop,        (* the operation the producer is appending                   *)
    pview,      (* the slice it loaded, as its backing array shows it now    *)
    wpc,        (* worker: where it is in loop()                             *)
    wview,      (* the slice header slices.Delete loaded                     *)
    head,       (* ioperation: the operation in the worker's hands           *)
    device,     (* number of the write each sector of the floppy holds       *)
    calls,      (* writes asked for so far                                   *)
    faults      (* writes the device has refused so far                      *)

(* Observation only: the newest accepted write of each sector, and the     *)
(* sectors whose newest write met one of the events that can lose it: it   *)
(* was stored while the worker was about to store its own older copy       *)
(* (slice) or to delete the entry it had read (map), or it was refused.    *)
VARIABLES newest, damaged

prodVars == <<ppc, pop, pview, calls>>
workVars == <<wpc, wview, head>>
ghosts   == <<newest, damaged>>
vars == <<operations, final, running, prodVars, workVars, device, faults, ghosts>>

Init ==
    /\ operations = <<>>
    /\ final = 0
    /\ running = TRUE
    /\ ppc = "idle"
    /\ pop = DirectRead
    /\ pview = <<>>
    /\ wpc = "sleep"
    /\ wview = <<>>
    /\ head = DirectRead
    /\ device = [s \in Sectors |-> 0]
    /\ calls = 0
    /\ faults = 0
    /\ newest = [s \in Sectors |-> 0]
    /\ damaged = {}

-----------------------------------------------------------------------------
(* The producer.                                                           *)

(* append() loads the slice header; the caller holds op ready.             *)
BeginAppend(op) ==
    /\ ppc = "idle"
    /\ ppc' = "append"
    /\ pop' = op
    /\ pview' = operations

(* FileWriteBytes, up to the load inside append().                         *)
FileWriteBytes(b) ==
    /\ calls < MaxOps
    /\ calls' = calls + 1
    /\ BeginAppend([blk |-> b, id |-> calls'])
    /\ UNCHANGED <<operations, final, running, workVars, device, faults, ghosts>>

(* getCountOpsForName on a queue that serves a single device.              *)
getCountOpsForName == Len(operations)

(* Mutant: the number of waiting operations is not looked at.              *)
FileReadBytesDirectUnlimited ==
    /\ BeginAppend(DirectRead)
    /\ UNCHANGED <<operations, final, running, calls, workVars, device, faults, ghosts>>

(* FileReadBytesDirect as onFloppyRead calls it, with max = 1.             *)
FileReadBytesDirect ==
    /\ getCountOpsForName < 1
    /\ BeginAppend(DirectRead)
    /\ UNCHANGED <<operations, final, running, calls, workVars, device, faults, ghosts>>

(* append() stores the new header: what it had loaded, with op behind it,  *)
(* whatever the worker did to the slice in between.                        *)
StoreAppend ==
    /\ ppc = "append"
    /\ ppc' = "idle"
    /\ operations' = Append(pview, pop)
    /\ IF pop.blk \in Blocks
       THEN /\ newest' = [newest EXCEPT ![pop.blk] = pop.id]
            /\ damaged' = IF wpc = "delete" THEN damaged \union {pop.blk}
                                            ELSE damaged \ {pop.blk}
       ELSE UNCHANGED ghosts
    /\ UNCHANGED <<final, running, pop, pview, calls, workVars, device, faults>>

(* FileWriteBytesOneTimeFinal: the entry of the device is overwritten.     *)
FileWriteBytesOneTimeFinal ==
    /\ ppc = "idle"
    /\ calls < MaxOps
    /\ calls' = calls + 1
    /\ final' = calls'
    /\ newest' = [newest EXCEPT ![Header] = calls']
    /\ damaged' = IF wpc = "finalDelete" THEN damaged \union {Header}
                                         ELSE damaged \ {Header}
    /\ UNCHANGED <<operations, running, ppc, pop, pview, workVars, device, faults>>

(* RunnerBase.Stop, called by stopServices on SIGINT or SIGTERM.           *)
Stop ==
    /\ running
    /\ running' = FALSE
    /\ UNCHANGED <<operations, final, prodVars, workVars, device, faults, ghosts>>

-----------------------------------------------------------------------------
(* The worker.                                                             *)

WorkerGoto(from, to) ==
    /\ wpc = from
    /\ wpc' = to

(* loop(): the flag is read once per turn, after the turn's work.          *)
Wake ==
    /\ WorkerGoto("sleep", IF running THEN "execute" ELSE "stopped")
    /\ UNCHANGED <<operations, final, running, prodVars, wview, head, device, faults, ghosts>>

(* Mutant: the last operation is left in the slice.                        *)
TakeHeadButLast ==
    /\ Len(operations) > 1
    /\ WorkerGoto("execute", "take")
    /\ head' = Head(operations)
    /\ UNCHANGED <<operations, final, running, prodVars, wview, device, faults, ghosts>>

(* execute(): ioperation := afo.operations[0].                             *)
TakeHead ==
    /\ operations # <<>>
    /\ WorkerGoto("execute", "take")
    /\ head' = Head(operations)
    /\ UNCHANGED <<operations, final, running, prodVars, wview, device, faults, ghosts>>

(* slices.Delete loads the header again ...                                *)
LoadDelete ==
    /\ WorkerGoto("take", "delete")
    /\ wview' = operations
    /\ UNCHANGED <<operations, final, running, prodVars, head, device, faults, ghosts>>

(* What the first Len(s) slots of an array show after slices.Delete moved  *)
(* slots 2..n of it down by one; the slots from n on keep what they held.  *)
Moved(s, n) ==
    [i \in 1..Len(s) |-> IF i < n /\ i < Len(s) THEN s[i + 1] ELSE s[i]]

(* Mutant: the last element is deleted instead of the first.               *)
StoreDeleteLast ==
    /\ WorkerGoto("delete", "run")
    /\ operations' = SubSeq(wview, 1, Len(wview) - 1)
    /\ wview' = <<>>
    /\ UNCHANGED <<final, running, prodVars, head, device, faults, ghosts>>

(* ... moves the elements in place and stores the shorter header.  A       *)
(* producer inside append() sees the move if its slice still has the same  *)
(* backing array, and not if append() has already moved to a larger one.   *)
StoreDelete ==
    /\ WorkerGoto("delete", "run")
    /\ operations' = Tail(wview)
    /\ wview' = <<>>
    /\ IF ppc = "append" THEN pview' \in {pview, Moved(pview, Len(wview))}
                         ELSE UNCHANGED pview
    /\ UNCHANGED <<final, running, ppc, pop, calls, head, device, faults, ghosts>>

(* executeWriteOperation: the device takes the write or refuses it; either *)
(* way the operation is gone.  A direct read leaves the device as it is.   *)
Apply ==
    \/ /\ device' = IF head.blk = NoBlock THEN device
                                          ELSE [device EXCEPT ![head.blk] = head.id]
       /\ UNCHANGED <<faults, damaged>>
    \/ /\ head.blk # NoBlock
       /\ faults < MaxFaults
       /\ faults' = faults + 1
       /\ damaged' = IF head.id = newest[head.blk] THEN damaged \union {head.blk}
                                                   ELSE damaged
       /\ UNCHANGED device

executeOperation ==
    /\ WorkerGoto("run", "execute")
    /\ Apply
    /\ UNCHANGED <<operations, final, running, prodVars, wview, head, newest>>

(* Mutant: loop() goes to sleep without executeOneTimeFinal().             *)
executeReturnNoFinal ==
    /\ operations = <<>>
    /\ WorkerGoto("execute", "sleep")
    /\ UNCHANGED <<operations, final, running, prodVars, wview, head, device, faults, ghosts>>

(* execute() returns: the slice was seen empty.                            *)
executeReturn ==
    /\ operations = <<>>
    /\ WorkerGoto("execute", "final")
    /\ UNCHANGED <<operations, final, running, prodVars, wview, head, device, faults, ghosts>>

(* executeOneTimeFinal(): entries are written only while the slice is seen *)
(* empty; otherwise the turn of the loop ends.                             *)
FinalReturn ==
    /\ operations # <<>> \/ final = 0
    /\ WorkerGoto("final", "sleep")
    /\ UNCHANGED <<operations, final, running, prodVars, wview, head, device, faults, ghosts>>

(* Mutant: the map is read without a look at what is in it.                *)
FinalPickAlways ==
    /\ operations = <<>>
    /\ WorkerGoto("final", "finalLookup")
    /\ UNCHANGED <<operations, final, running, prodVars, wview, head, device, faults, ghosts>>

FinalPick ==
    /\ operations = <<>>
    /\ final # 0
    /\ WorkerGoto("final", "finalLookup")
    /\ UNCHANGED <<operations, final, running, prodVars, wview, head, device, faults, ghosts>>

FinalLookup ==
    /\ WorkerGoto("finalLookup", "finalDelete")
    /\ head' = [blk |-> Header, id |-> final]
    /\ UNCHANGED <<operations, final, running, prodVars, wview, device, faults, ghosts>>

FinalDelete ==
    /\ WorkerGoto("finalDelete", "finalRun")
    /\ final' = 0
    /\ UNCHANGED <<operations, running, prodVars, wview, head, device, faults, ghosts>>

executeFinal ==
    /\ WorkerGoto("finalRun", "final")
    /\ Apply
    /\ UNCHANGED <<operations, final, running, prodVars, wview, head, newest>>

-----------------------------------------------------------------------------
Producer ==
    \/ \E b \in Blocks : FileWriteBytes(b)
    \/ FileReadBytesDirect
    \/ StoreAppend
    \/ FileWriteBytesOneTimeFinal

Worker ==
    \/ Wake \/ TakeHead \/ LoadDelete \/ StoreDelete
    \/ executeOperation \/ executeReturn
    \/ FinalReturn \/ FinalPick \/ FinalLookup \/ FinalDelete \/ executeFinal

Next == Producer \/ Worker \/ Stop

Spec == Init /\ [][Next]_vars

(* Both goroutines are runnable whenever they have a step to take and the  *)
(* Go scheduler is preemptive; nothing obliges the emulator to read, write *)
(* or stop.                                                                *)
FairSpec == Spec /\ WF_vars(Worker) /\ WF_vars(StoreAppend)

-----------------------------------------------------------------------------
(* The worker holds an operation it has not executed yet: one it took from *)
(* the slice, or an entry of the map.                                      *)
HoldsData   == wpc \in {"take", "delete", "run"}
HoldsHeader == wpc \in {"finalDelete", "finalRun"}

(* Types.  execute() runs what was in the slice and executeOneTimeFinal()  *)
(* what was in the map, never an entry that was not put there.             *)
TypeOK ==
    /\ operations \in Seq(DataOp)
    /\ final \in 0..calls
    /\ running \in BOOLEAN
    /\ ppc \in {"idle", "append"}
    /\ pop \in DataOp
    /\ pview \in Seq(DataOp)
    /\ wpc \in {"sleep", "stopped", "execute", "take", "delete", "run",
                "final", "finalLookup", "finalDelete", "finalRun"}
    /\ wview \in Seq(DataOp)
    /\ device \in [Sectors -> Nat]
    /\ calls \in 0..MaxOps
    /\ faults \in 0..MaxFaults
    /\ newest \in [Sectors -> Nat]
    /\ damaged \subseteq Sectors
    /\ head \in DataOp \union HeaderOp
    /\ HoldsData => head \in DataOp
    /\ HoldsHeader => head \in HeaderOp

(* The newest write of sector s is still on its way to the device.         *)
NewestDue(s) ==
    \/ \E i \in DOMAIN operations :
          operations[i].blk = s /\ operations[i].id = newest[s]
    \/ (HoldsData \/ HoldsHeader) /\ head.blk = s /\ head.id = newest[s]
    \/ s = Header /\ final # 0 /\ final = newest[s]

(* The unlocked append and delete may drop an operation, run one twice and *)
(* bring back old ones.  Still, the newest write of a sector is on the     *)
(* floppy or on its way there, and no older write that comes back stays on *)
(* top of it, unless that very write was stored in the worker's window or  *)
(* refused by the device.                                                  *)
NewestStoredOrDue ==
    \A s \in Sectors \ damaged : device[s] = newest[s] \/ NewestDue(s)

(* What the comment on the buffer copies ("to avoid race condition         *)
(* issues") asks for: with a device that refuses nothing, every accepted   *)
(* write is on the floppy or on its way there.                             *)
NoWriteLost ==
    \A s \in Sectors : device[s] = newest[s] \/ NewestDue(s)

(* onFloppyRead asks for max = 1: however fast the emulator reads a cached *)
(* floppy, a motor read never waits behind a write and motor reads never   *)
(* pile up in front of one, also when append() brings old operations back. *)
DirectReadOnlyInFront ==
    \A i \in DOMAIN operations : operations[i].blk = NoBlock => i = 1

(* The header on the floppy carries the time of the cached file; a step of *)
(* the queue never replaces it by an older one, because an entry of the    *)
(* map is overwritten by the next and only one worker writes entries.      *)
HeaderNeverGoesBack == [][device'[Header] >= device[Header]]_vars

(* A data write reaches the floppy, even if the emulator never stops       *)
(* reading, unless the queue is stopped or the write was damaged.          *)
DataReachesDevice ==
    \A b \in Blocks :
        device[b] # newest[b]
            ~> device[b] = newest[b] \/ b \in damaged \/ ~running

(* The header waits for an empty queue: it is written once the emulator    *)
(* leaves the drive alone.                                                 *)
HeaderReachesDevice ==
    <>[](ppc = "idle")
        => <>[](device[Header] = newest[Header] \/ Header \in damaged \/ ~running)

(* The queue keeps the promise of DelayedWrites, where a sector is due     *)
(* while the slice, the map or the worker's hands hold its newest write:   *)
(* the device only ever takes writes that were accepted, and a write that  *)
(* is not stored stays due through every race of append and delete.        *)
Delayed ==
    INSTANCE DelayedWrites WITH
        stored <- device,
        due <- {s \in Sectors \ damaged : NewestDue(s)}

KeepsPromise == Delayed!Spec
=============================================================================
