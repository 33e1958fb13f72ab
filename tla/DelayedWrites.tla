--------------------------- MODULE DelayedWrites ---------------------------
(***************************************************************************)
(* What the queue of a drive promises to the floppy driver, without the    *)
(* slice, the map and the goroutines of async_file_ops.go: a sector is     *)
(* written later, perhaps more than once and perhaps with an older value   *)
(* first, in any order with the other sectors, and it stays due until the  *)
(* newest value is there.  A sector whose newest write was stored in the   *)
(* worker's window or refused by the device is damaged: nothing is         *)
(* promised for it until it is written again.                              *)
(***************************************************************************)
EXTENDS Naturals

CONSTANT Sectors

VARIABLES
    stored,     (* number of the write each sector of the floppy holds       *)
    newest,     (* number of the newest accepted write of each sector        *)
    due,        (* sectors whose newest write is on its way                  *)
    damaged     (* sectors for which the promise does not hold               *)

vars == <<stored, newest, due, damaged>>

Init ==
    /\ stored = [s \in Sectors |-> 0]
    /\ newest = [s \in Sectors |-> 0]
    /\ due = {}
    /\ damaged = {}

(* A write that is done may be repeated, and the repetition forgotten; one *)
(* that is not done stays due, and a damaged sector is not.                *)
UpToDate == {s \in Sectors : stored[s] = newest[s]}

KeepsDueBut(S) ==
    /\ (due \ due') \union (due' \ due) \subseteq UpToDate \union S
    /\ due' \intersect damaged' = {}

(* A new write is accepted; it replaces whatever was due for its sector.   *)
Accept(s) ==
    /\ newest'[s] > newest[s]
    /\ newest' = [newest EXCEPT ![s] = newest'[s]]
    /\ damaged' \in {damaged \union {s}, damaged \ {s}}
    /\ s \in due' \union damaged'
    /\ KeepsDueBut({s})
    /\ UNCHANGED stored

(* The device takes a write of s that was accepted once; if it is not the  *)
(* newest, the newest is still to come.                                    *)
Store(s) ==
    /\ stored'[s] <= newest[s]
    /\ stored' = [stored EXCEPT ![s] = stored'[s]]
    /\ stored'[s] = newest[s] \/ s \in due' \union damaged
    /\ KeepsDueBut({s})
    /\ UNCHANGED <<newest, damaged>>

(* The device refuses the newest write of s.                               *)
Refuse(s) ==
    /\ damaged' = damaged \union {s}
    /\ KeepsDueBut({s})
    /\ UNCHANGED <<stored, newest>>

Repeat ==
    /\ KeepsDueBut({})
    /\ UNCHANGED <<stored, newest, damaged>>

Next ==
    \/ \E s \in Sectors : Accept(s) \/ Store(s) \/ Refuse(s)
    \/ Repeat

Spec == Init /\ [][Next]_vars
=============================================================================
