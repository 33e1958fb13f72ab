---------------------------- MODULE AmiberryProofs ----------------------------
(***************************************************************************)
(* That no wake-up of the commander is lost, and that the variables keep   *)
(* their types, for any number of callers and of calls, although           *)
(* executeLoops and the queue have no lock; and that with one caller the   *)
(* drive follows the slot, through any number of calls and restarts.       *)
(*                                                                         *)
(* Wake-ups: the commander goes to sleep, or to its last sending before,   *)
(* only after it has seen the queue empty, and from then on nobody         *)
(* decrements executeLoops.  Who puts a                                    *)
(* command has Execute still before it, and what Execute stores is at      *)
(* least one, whatever other goroutine it overwrites.                      *)
(***************************************************************************)
EXTENDS Amiberry, SequenceTheorems, TLAPS

Types ==
    /\ todo \in [Callers -> Seq(Steps)]
    /\ cloops \in [Callers -> Nat]
    /\ executeLoops \in Nat /\ wloops \in Nat
    /\ cpc = "loops" => wloops > 0
    /\ last => cpc \in {"write", "signal", "wait"}

(* Every command still to be put is followed by an Execute.                *)
Woken(s) ==
    \A i \in 1..Len(s) : s[i].do = "put" => \E j \in i + 1..Len(s) : s[j].do = "execute"
PutsAreWoken == \A p \in Callers : Woken(todo[p])

WInv == Types /\ PutsAreWoken /\ NoLostWakeUp

-----------------------------------------------------------------------------
LEMMA InitWInv == Init => WInv
  <1> SUFFICES ASSUME Init PROVE WInv  OBVIOUS
  <1>1. Types  BY DEF Init, Types
  <1>2. PutsAreWoken  BY DEF Init, PutsAreWoken, Woken
  <1>3. NoLostWakeUp  BY DEF Init, NoLostWakeUp
  <1> QED  BY <1>1, <1>2, <1>3 DEF WInv

LEMMA StepsOf ==
  /\ Execute \in Steps /\ Execute.do = "execute"
  /\ \A a \in Floppy : /\ SetAdf(a) \in Steps /\ SetAdf(a).do = "set"
                       /\ PutInsert(a) \in Seq(Steps) /\ Len(PutInsert(a)) = 3
  <1>1. Execute \in Steps /\ Execute.do = "execute"
    BY DEF Steps, Execute
  <1>2. ASSUME NEW a \in Floppy  PROVE SetAdf(a) \in Steps /\ SetAdf(a).do = "set"
    BY DEF Steps, SetAdf
  <1>3. ASSUME NEW a \in Floppy  PROVE PutInsert(a) \in Seq(Steps) /\ Len(PutInsert(a)) = 3
    <2>1. {Insert(a), Commit, Sleep} \subseteq Commands
      BY DEF Commands
    <2>2. {Put(Insert(a)), Put(Commit), Put(Sleep)} \subseteq Steps
      BY <2>1 DEF Steps
    <2> QED  BY <2>2 DEF PutInsert
  <1> QED  BY <1>1, <1>2, <1>3

(* A list of steps that ends with Execute, or that has Execute before what *)
(* puts nothing.                                                           *)
LEMMA EndsWithExecute ==
  ASSUME NEW s \in Seq(Steps)
  PROVE  /\ s \o <<Execute>> \in Seq(Steps)
         /\ Woken(s \o <<Execute>>)
  <1>1. <<Execute>> \in Seq(Steps) /\ Len(<<Execute>>) = 1
    BY StepsOf
  <1> DEFINE w == s \o <<Execute>>
  <1>2. /\ w \in Seq(Steps) /\ Len(w) = Len(s) + 1 /\ Len(s) \in Nat
        /\ w[Len(s) + 1] = Execute
    BY <1>1, ConcatProperties, LenProperties
  <1> HIDE DEF w
  <1>3. Woken(w)
    <2> SUFFICES ASSUME NEW i \in 1..Len(w), w[i].do = "put"
                 PROVE  \E j \in i + 1..Len(w) : w[j].do = "execute"
      BY DEF Woken
    <2>1. i # Len(s) + 1
      BY <1>2, StepsOf
    <2> QED  BY <1>2, <2>1, StepsOf
  <1> QED  BY <1>2, <1>3 DEF w

LEMMA EndsWithSet ==
  ASSUME NEW s \in Seq(Steps), NEW a \in Floppy
  PROVE  /\ s \o <<Execute, SetAdf(a)>> \in Seq(Steps)
         /\ Woken(s \o <<Execute, SetAdf(a)>>)
  <1>1. <<Execute, SetAdf(a)>> \in Seq(Steps) /\ Len(<<Execute, SetAdf(a)>>) = 2
    BY StepsOf
  <1> DEFINE w == s \o <<Execute, SetAdf(a)>>
  <1>2. /\ w \in Seq(Steps) /\ Len(w) = Len(s) + 2 /\ Len(s) \in Nat
        /\ w[Len(s) + 1] = Execute /\ w[Len(s) + 2] = SetAdf(a)
    BY <1>1, ConcatProperties, LenProperties
  <1> HIDE DEF w
  <1>3. Woken(w)
    <2> SUFFICES ASSUME NEW i \in 1..Len(w), w[i].do = "put"
                 PROVE  \E j \in i + 1..Len(w) : w[j].do = "execute"
      BY DEF Woken
    <2>1. i # Len(s) + 1 /\ i # Len(s) + 2
      BY <1>2, StepsOf
    <2>2. Len(s) + 1 \in i + 1..Len(w) /\ w[Len(s) + 1].do = "execute"
      BY <1>2, <2>1, StepsOf
    <2> QED  BY <2>2
  <1> QED  BY <1>2, <1>3 DEF w

LEMMA TailWoken ==
  ASSUME NEW s \in Seq(Steps), s # <<>>, Woken(s)
  PROVE  /\ Tail(s) \in Seq(Steps) /\ Woken(Tail(s))
         /\ \A i \in 1..Len(s) : /\ s[i].do = "execute" /\ Head(s).do # "execute"
                                      => \E j \in 1..Len(Tail(s)) : Tail(s)[j].do = "execute"
         /\ Head(s).do = "put" => \E j \in 1..Len(Tail(s)) : Tail(s)[j].do = "execute"
  <1>1. /\ Tail(s) \in Seq(Steps) /\ Len(Tail(s)) = Len(s) - 1 /\ Len(s) \in Nat
        /\ \A i \in 1..Len(Tail(s)) : Tail(s)[i] = s[i + 1]
        /\ Head(s) = s[1] /\ Len(s) > 0
    BY HeadTailProperties, LenProperties, EmptySeq
  <1>2. ASSUME NEW i \in 1..Len(s), i # 1, s[i].do = "execute"
        PROVE  i - 1 \in 1..Len(Tail(s)) /\ Tail(s)[i - 1].do = "execute"
    BY <1>1, <1>2
  <1>3. ASSUME NEW i \in 1..Len(Tail(s)), Tail(s)[i].do = "put"
        PROVE  \E j \in i + 1..Len(Tail(s)) : Tail(s)[j].do = "execute"
    <2>1. i + 1 \in 1..Len(s) /\ s[i + 1].do = "put"
      BY <1>1, <1>3
    <2>2. PICK j \in i + 2..Len(s) : s[j].do = "execute"
      BY <1>1, <2>1 DEF Woken
    <2>3. j \in 1..Len(s) /\ j # 1 /\ j - 1 \in i + 1..Len(Tail(s))
      BY <1>1, <2>2
    <2> QED  BY <1>2, <2>2, <2>3
  <1>4. ASSUME Head(s).do = "put"
        PROVE  \E j \in 1..Len(Tail(s)) : Tail(s)[j].do = "execute"
    <2>1. PICK j \in 2..Len(s) : s[j].do = "execute"
      BY <1>1, <1>4 DEF Woken
    <2>2. j \in 1..Len(s) /\ j # 1
      BY <1>1, <2>1
    <2> QED  BY <1>2, <2>1, <2>2
  <1>5. ASSUME NEW i \in 1..Len(s), s[i].do = "execute", Head(s).do # "execute"
        PROVE  \E j \in 1..Len(Tail(s)) : Tail(s)[j].do = "execute"
    <2>1. i # 1  BY <1>1, <1>5
    <2> QED  BY <1>2, <1>5, <2>1
  <1> QED  BY <1>1, <1>3, <1>4, <1>5 DEF Woken

-----------------------------------------------------------------------------
(* A call: its steps are woken, and nobody else's are changed.             *)
LEMMA CallKeeps ==
  ASSUME WInv, NEW p \in Callers, NEW steps \in Seq(Steps), Woken(steps), Call(p, steps)
  PROVE  WInv'
  <1>1. /\ UNCHANGED <<cloops, commands, executeLoops, wloops, cpc, last>>
        /\ todo[p] = <<>> /\ todo' = [todo EXCEPT ![p] = steps]
    BY DEF Call, workVars
  <1>2. Types'  BY <1>1 DEF WInv, Types
  <1>3. PutsAreWoken'  BY <1>1 DEF WInv, Types, PutsAreWoken
  <1>4. NoLostWakeUp'
    <2> SUFFICES ASSUME commands # <<>>, executeLoops = 0, Sleeps
                 PROVE  \E q \in Callers : \E i \in 1..Len(todo'[q]) : todo'[q][i].do = "execute"
      BY <1>1 DEF NoLostWakeUp, Sleeps
    <2>1. PICK q \in Callers : \E i \in 1..Len(todo[q]) : todo[q][i].do = "execute"
      BY DEF WInv, NoLostWakeUp
    <2>2. q # p
      BY <1>1, <2>1
    <2>3. todo'[q] = todo[q]
      BY <1>1, <2>2 DEF WInv, Types
    <2> QED  BY <2>1, <2>3
  <1> QED  BY <1>2, <1>3, <1>4 DEF WInv

LEMMA AttachKeeps == ASSUME WInv, NEW p \in Callers, NEW a \in Adfs, AttachAdf(p, a) PROVE WInv'
  <1> DEFINE first == (IF adf # NoAdf THEN PutInsert(NoAdf) ELSE <<>>)
             s == first \o <<SetAdf(a)>> \o PutInsert(a)
  <1>1. a \in Floppy /\ NoAdf \in Floppy  BY DEF Floppy
  <1>2. first \in Seq(Steps) /\ <<SetAdf(a)>> \in Seq(Steps) /\ PutInsert(a) \in Seq(Steps)
    BY <1>1, StepsOf
  <1>3. s \in Seq(Steps)
    <2> HIDE DEF first
    <2>1. first \o <<SetAdf(a)>> \in Seq(Steps)  BY <1>2, ConcatProperties
    <2> QED  BY <1>2, <2>1, ConcatProperties
  <1>4. Call(p, s \o <<Execute>>)  BY DEF AttachAdf
  <1> HIDE DEF s
  <1> QED  BY <1>3, <1>4, EndsWithExecute, CallKeeps

LEMMA DetachKeeps == ASSUME WInv, NEW p \in Callers, DetachAdf(p) PROVE WInv'
  <1>1. NoAdf \in Floppy  BY DEF Floppy
  <1>2. PutInsert(NoAdf) \in Seq(Steps)  BY <1>1, StepsOf
  <1>3. Call(p, PutInsert(NoAdf) \o <<Execute, SetAdf(NoAdf)>>)  BY DEF DetachAdf
  <1> QED  BY <1>1, <1>2, <1>3, EndsWithSet, CallKeeps

(* A step of a call is done.  Execute leaves a wake-up in executeLoops,    *)
(* any other step leaves the Execute that is still to come.                *)
LEMMA StepDoneKeeps ==
  ASSUME WInv, NEW p \in Callers, todo[p] # <<>>, StepDone(p),
         cloops' \in [Callers -> Nat], executeLoops' \in Nat,
         UNCHANGED <<wloops, cpc, last>>,
         \/ Head(todo[p]).do = "execute" /\ executeLoops' # 0
         \/ Head(todo[p]).do = "put" /\ UNCHANGED executeLoops
         \/ Head(todo[p]).do = "set" /\ UNCHANGED <<commands, executeLoops>>
  PROVE  WInv'
  <1>1. todo' = [todo EXCEPT ![p] = Tail(todo[p])] /\ todo[p] \in Seq(Steps)
    BY DEF StepDone, WInv, Types
  <1>2. /\ Tail(todo[p]) \in Seq(Steps) /\ Woken(Tail(todo[p]))
        /\ \A i \in 1..Len(todo[p]) : /\ todo[p][i].do = "execute" /\ Head(todo[p]).do # "execute"
              => \E j \in 1..Len(Tail(todo[p])) : Tail(todo[p])[j].do = "execute"
        /\ Head(todo[p]).do = "put"
              => \E j \in 1..Len(Tail(todo[p])) : Tail(todo[p])[j].do = "execute"
    BY <1>1, TailWoken DEF WInv, PutsAreWoken
  <1>3. \A q \in Callers : todo'[q] = IF q = p THEN Tail(todo[p]) ELSE todo[q]
    BY <1>1 DEF WInv, Types
  <1>4. Types'  BY <1>1, <1>2 DEF WInv, Types
  <1>5. PutsAreWoken'  BY <1>2, <1>3 DEF WInv, PutsAreWoken
  <1>6. NoLostWakeUp'
    <2> SUFFICES ASSUME commands' # <<>>, executeLoops' = 0, Sleeps
                 PROVE  \E q \in Callers : \E i \in 1..Len(todo'[q]) : todo'[q][i].do = "execute"
      BY DEF NoLostWakeUp, Sleeps
    <2>1. CASE Head(todo[p]).do = "put"
      BY <1>2, <1>3, <2>1
    <2>2. CASE Head(todo[p]).do = "set" /\ UNCHANGED <<commands, executeLoops>>
      <3>1. PICK q \in Callers : \E i \in 1..Len(todo[q]) : todo[q][i].do = "execute"
        BY <2>2 DEF WInv, NoLostWakeUp
      <3>2. CASE q = p
        BY <1>2, <1>3, <2>2, <3>1, <3>2
      <3>3. CASE q # p
        BY <1>3, <3>1, <3>3
      <3> QED  BY <3>2, <3>3
    <2> QED  BY <2>1, <2>2
  <1> QED  BY <1>4, <1>5, <1>6 DEF WInv

LEMMA CallStepKeeps == ASSUME WInv, NEW p \in Callers, CallStep(p) PROVE WInv'
  <1>1. CASE SetSlot(p)
    <2>1. /\ todo[p] # <<>> /\ Head(todo[p]).do = "set" /\ StepDone(p)
          /\ UNCHANGED <<cloops, commands, executeLoops, wloops, cpc, last>>
      BY <1>1 DEF SetSlot, Doing, workVars
    <2> QED  BY <2>1, StepDoneKeeps DEF WInv, Types
  <1>2. CASE PutCommand(p)
    <2>1. /\ todo[p] # <<>> /\ Head(todo[p]).do = "put" /\ StepDone(p)
          /\ UNCHANGED <<cloops, executeLoops, wloops, cpc, last>>
      BY <1>2 DEF PutCommand, Appending, Doing, workVars
    <2> QED  BY <2>1, StepDoneKeeps DEF WInv, Types
  <1>3. CASE StoreExecute(p)
    <2>1. /\ todo[p] # <<>> /\ Head(todo[p]).do = "execute" /\ StepDone(p)
          /\ executeLoops' = cloops[p] + 1 /\ cloops' = [cloops EXCEPT ![p] = 0]
          /\ UNCHANGED <<wloops, cpc, last>>
      BY <1>3 DEF StoreExecute, Doing, workVars
    <2>2. executeLoops' \in Nat /\ executeLoops' # 0 /\ cloops' \in [Callers -> Nat]
      BY <2>1 DEF WInv, Types
    <2> QED  BY <2>1, <2>2, StepDoneKeeps
  <1>4. CASE LoadAppend(p) \/ LoadExecute(p)
    <2>1. /\ UNCHANGED <<todo, commands, executeLoops, wloops, cpc, last>>
          /\ cloops' \in {cloops, [cloops EXCEPT ![p] = executeLoops]}
      BY <1>4 DEF LoadAppend, LoadExecute, workVars
    <2>2. Types'  BY <2>1 DEF WInv, Types
    <2>3. PutsAreWoken'  BY <2>1 DEF WInv, PutsAreWoken
    <2>4. NoLostWakeUp'  BY <2>1 DEF WInv, NoLostWakeUp, Sleeps
    <2> QED  BY <2>2, <2>3, <2>4 DEF WInv
  <1> QED  BY <1>1, <1>2, <1>3, <1>4 DEF CallStep

(* The commander counts executeLoops down, and later looks at the queue:   *)
(* where it goes to sleep or to its last sending the queue is empty, and   *)
(* from there on it leaves both alone.                                     *)
LEMMA CommanderKeeps == ASSUME WInv, Commander PROVE WInv'
  <1>1. UNCHANGED <<todo, cloops>>
    BY DEF Commander, LoadLoops, StoreLoops, TakeCommand, LoadDelete, StoreDelete, AddCommand,
           executeLocalCommand, CommandsDone, writeTmpIni, sendUSR1Signal, blockTillTmpIniExists,
           callSide, callVars
  <1>2. /\ Sleeps' => commands' = <<>> \/ (Sleeps /\ UNCHANGED <<commands, executeLoops>>)
        /\ executeLoops' \in Nat /\ wloops' \in Nat
        /\ cpc' = "loops" => wloops' > 0
        /\ last' => cpc' \in {"write", "signal", "wait"}
    <2> USE DEF CommanderGoto, callSide, WInv, Types, Sleeps
    <2>1. CASE LoadLoops
      BY <2>1 DEF LoadLoops
    <2>2. CASE StoreLoops
      BY <2>2 DEF StoreLoops
    <2>3. CASE CommandsDone
      BY <2>3 DEF CommandsDone
    <2>4. CASE TakeCommand \/ LoadDelete \/ StoreDelete
      <3>1. /\ cpc \in {"execute", "take", "delete"} /\ cpc' \in {"take", "delete", "command"}
            /\ UNCHANGED <<executeLoops, wloops>> /\ last' = last
        BY <2>4 DEF TakeCommand, LoadDelete, StoreDelete
      <3>2. ~last
        BY <3>1
      <3> QED  BY <3>1, <3>2
    <2>5. CASE AddCommand \/ executeLocalCommand
      BY <2>5 DEF AddCommand, executeLocalCommand
    <2>6. CASE writeTmpIni
      BY <2>6 DEF writeTmpIni, SendReturns
    <2>7. CASE sendUSR1Signal \/ blockTillTmpIniExists
      BY <2>7 DEF sendUSR1Signal, blockTillTmpIniExists, SendReturns
    <2> QED  BY <2>1, <2>2, <2>3, <2>4, <2>5, <2>6, <2>7 DEF Commander
  <1>3. Types'  BY <1>1, <1>2 DEF WInv, Types
  <1>4. PutsAreWoken'  BY <1>1 DEF WInv, PutsAreWoken
  <1>5. NoLostWakeUp'  BY <1>1, <1>2 DEF WInv, NoLostWakeUp
  <1> QED  BY <1>3, <1>4, <1>5 DEF WInv

(* The emulator and who runs or kills it.                                  *)
LEMMA OthersKeep ==
  ASSUME WInv, Runner \/ Emulator \/ HardReset \/ HDOperation \/ UNCHANGED vars
  PROVE  WInv'
  <1>1. UNCHANGED <<todo, cloops, commands, executeLoops, wloops, cpc, last>>
    BY DEF Runner, getEmulatorProcessedConfig, Start, StartFails, SetProcess, Wait, Emulator,
           InstallHandler,
           RemoveTmpIni, SIGUSR1_handler, HardReset, HDOperation, vars, callSide, callVars, workVars
  <1>2. Types'  BY <1>1 DEF WInv, Types
  <1>3. PutsAreWoken'  BY <1>1 DEF WInv, PutsAreWoken
  <1>4. NoLostWakeUp'  BY <1>1 DEF WInv, NoLostWakeUp, Sleeps
  <1> QED  BY <1>2, <1>3, <1>4 DEF WInv

LEMMA NextWInv == WInv /\ [Next]_vars => WInv'
  BY AttachKeeps, DetachKeeps, CallStepKeeps, CommanderKeeps, OthersKeep DEF Next

(* The commander is never asleep with a command in its queue and nobody to *)
(* wake it (AmiberryCommander.loop, PutCommand, Execute).                  *)
THEOREM WakeUpNeverLost == Spec => []NoLostWakeUp
  <1>1. Spec => []WInv
    BY InitWInv, NextWInv, PTL DEF Spec
  <1>2. WInv => NoLostWakeUp
    BY DEF WInv
  <1> QED  BY <1>1, <1>2, PTL
-----------------------------------------------------------------------------
(* Between looking at the first command and taking it off, the queue is    *)
(* not empty: nobody but the commander takes a command.                    *)
QueueOK == (cpc = "take" => commands # <<>>) /\ (cpc = "delete" => wview # <<>>)
TInv == TypeOK /\ QueueOK

LEMMA CommandFacts ==
  /\ Commit \in Commands /\ Sleep \in Commands
  /\ \A a \in Floppy : Insert(a) \in Commands
  /\ \A c \in Commands : c.adf \in Floppy /\ c.cmd \in {"insert", "commit", "sleep"}
  /\ \A s \in Steps : /\ s.do \in {"put", "set", "execute"}
                      /\ s.do = "put" => s.what \in Commands
                      /\ s.do = "set" => s.what.adf \in Floppy
  <1>1. NoAdf \in Floppy
    BY DEF Floppy
  <1>2. /\ Commit \in Commands /\ Sleep \in Commands
        /\ \A a \in Floppy : Insert(a) \in Commands
    BY DEF Commands
  <1>3. \A c \in Commands : c.adf \in Floppy /\ c.cmd \in {"insert", "commit", "sleep"}
    BY <1>1 DEF Commands, Insert, Commit, Sleep
  <1>4. \A s \in Steps : /\ s.do \in {"put", "set", "execute"}
                         /\ s.do = "put" => s.what \in Commands
                         /\ s.do = "set" => s.what.adf \in Floppy
    BY DEF Steps, Put, SetAdf, Execute, Insert
  <1> QED  BY <1>2, <1>3, <1>4

(* The first step of a caller, and the others.                             *)
LEMMA NowFacts ==
  ASSUME TypeOK, NEW p \in Callers, todo[p] # <<>>
  PROVE  Head(todo[p]) \in Steps /\ Tail(todo[p]) \in Seq(Steps)
  BY HeadTailProperties DEF TypeOK

LEMMA InitTypes == Init => TInv
  <1> SUFFICES ASSUME Init PROVE TInv
    OBVIOUS
  <1>1. NoAdf \in Floppy /\ Commit \in Commands
    BY CommandFacts DEF Floppy
  <1>2. /\ todo = [p \in Callers |-> <<>>] /\ loaded = [p \in Callers |-> FALSE]
        /\ cview = [p \in Callers |-> <<>>] /\ cloops = [p \in Callers |-> 0]
        /\ commands = <<>> /\ wview = <<>>
    BY DEF Init
  <1>3. /\ todo \in [Callers -> Seq(Steps)] /\ loaded \in [Callers -> BOOLEAN]
        /\ cview \in [Callers -> Seq(Commands)] /\ cloops \in [Callers -> Nat]
        /\ commands \in Seq(Commands) /\ wview \in Seq(Commands)
        /\ \A p \in Callers : ~loaded[p]
    BY <1>2
  <1>4. TypeOK
    BY <1>1, <1>3 DEF Init, TypeOK
  <1> QED  BY <1>4 DEF Init, TInv, QueueOK

LEMMA CallTypes ==
  ASSUME TInv, NEW p \in Callers, NEW steps, Call(p, steps), todo' \in [Callers -> Seq(Steps)]
  PROVE  TInv'
  <1>1. /\ todo[p] = <<>> /\ todo' = [todo EXCEPT ![p] = steps]
        /\ UNCHANGED <<adf, loaded, cview, cloops, commands, executeLoops, workVars, ini, process,
                       emuVars, rerunEmulator, hdOperations, races, missed>>
    BY DEF Call
  <1>2. \A q \in Callers : loaded'[q] => (Doing(q, "put") \/ Doing(q, "execute"))'
    <2>1. ~loaded[p]
      BY <1>1 DEF TInv, TypeOK, Doing
    <2> QED  BY <1>1, <2>1 DEF TInv, TypeOK, Doing
  <1> QED  BY <1>1, <1>2 DEF TInv, TypeOK, QueueOK, workVars, emuVars

LEMMA CallStepTypes ==
  ASSUME TInv, NEW p \in Callers, CallStep(p), todo' \in [Callers -> Seq(Steps)]
  PROVE  TInv'
  <1> USE DEF workVars, emuVars
  <1>0. TypeOK /\ QueueOK
    BY DEF TInv
  <1>1. ASSUME StepDone(p), loaded' = [loaded EXCEPT ![p] = FALSE]
        PROVE  \A q \in Callers : loaded'[q] => (Doing(q, "put") \/ Doing(q, "execute"))'
    BY <1>0, <1>1 DEF TypeOK, StepDone, Doing
  <1>2. CASE SetSlot(p)
    <2>1. /\ Doing(p, "set") /\ adf' = Head(todo[p]).what.adf /\ StepDone(p)
          /\ UNCHANGED <<loaded, cview, cloops, calls, commands, executeLoops, workVars, ini, process,
                         emuVars, rerunEmulator, hdOperations, races, missed>>
      BY <1>2 DEF SetSlot
    <2>2. adf' \in Floppy
      BY <1>0, <2>1, NowFacts, CommandFacts DEF Doing
    <2>3. ~loaded[p]
      BY <1>0, <2>1 DEF TypeOK, Doing
    <2>4. \A q \in Callers : loaded'[q] => (Doing(q, "put") \/ Doing(q, "execute"))'
      BY <1>0, <1>1, <2>1, <2>3 DEF TypeOK
    <2> QED  BY <1>0, <2>1, <2>2, <2>4 DEF TInv, TypeOK, QueueOK
  <1>3. CASE LoadAppend(p)
    <2>1. /\ Doing(p, "put") /\ todo' = todo /\ races' \in {races, races + 1}
          /\ loaded' = [loaded EXCEPT ![p] = TRUE] /\ cview' = [cview EXCEPT ![p] = commands]
          /\ UNCHANGED <<adf, cloops, calls, commands, executeLoops, workVars, ini, process,
                         emuVars, rerunEmulator, hdOperations, missed>>
      BY <1>3 DEF LoadAppend, Overlap
    <2>2. \A q \in Callers : loaded'[q] => (Doing(q, "put") \/ Doing(q, "execute"))'
      BY <1>0, <2>1 DEF TypeOK, Doing
    <2> QED  BY <1>0, <2>1, <2>2 DEF TInv, TypeOK, QueueOK
  <1>4. CASE PutCommand(p)
    <2>1. /\ Doing(p, "put") /\ StepDone(p) /\ loaded' = [loaded EXCEPT ![p] = FALSE]
          /\ commands' = Append(cview[p], Head(todo[p]).what) /\ cview' = [cview EXCEPT ![p] = <<>>]
          /\ UNCHANGED <<adf, cloops, calls, executeLoops, workVars, ini, process, emuVars,
                         rerunEmulator, hdOperations, races, missed>>
      BY <1>4 DEF PutCommand, Appending
    <2>2. cview[p] \in Seq(Commands) /\ Head(todo[p]).what \in Commands
      BY <1>0, <2>1, NowFacts, CommandFacts DEF Doing, TypeOK
    <2>3. commands' \in Seq(Commands) /\ commands' # <<>>
      BY <2>1, <2>2, AppendProperties
    <2>4. cview' \in [Callers -> Seq(Commands)]
      BY <1>0, <2>1 DEF TypeOK
    <2>5. \A q \in Callers : loaded'[q] => (Doing(q, "put") \/ Doing(q, "execute"))'
      BY <1>1, <2>1
    <2> QED  BY <1>0, <2>1, <2>3, <2>4, <2>5 DEF TInv, TypeOK, QueueOK
  <1>5. CASE LoadExecute(p)
    <2>1. /\ Doing(p, "execute") /\ todo' = todo
          /\ loaded' = [loaded EXCEPT ![p] = TRUE] /\ cloops' = [cloops EXCEPT ![p] = executeLoops]
          /\ UNCHANGED <<adf, cview, calls, commands, executeLoops, workVars, ini, process,
                         emuVars, rerunEmulator, hdOperations, races, missed>>
      BY <1>5 DEF LoadExecute
    <2>2. \A q \in Callers : loaded'[q] => (Doing(q, "put") \/ Doing(q, "execute"))'
      BY <1>0, <2>1 DEF TypeOK, Doing
    <2> QED  BY <1>0, <2>1, <2>2 DEF TInv, TypeOK, QueueOK
  <1>6. CASE StoreExecute(p)
    <2>1. /\ StepDone(p) /\ loaded' = [loaded EXCEPT ![p] = FALSE]
          /\ executeLoops' = cloops[p] + 1 /\ cloops' = [cloops EXCEPT ![p] = 0]
          /\ UNCHANGED <<adf, cview, calls, commands, workVars, ini, process, emuVars,
                         rerunEmulator, hdOperations, races, missed>>
      BY <1>6 DEF StoreExecute
    <2>2. \A q \in Callers : loaded'[q] => (Doing(q, "put") \/ Doing(q, "execute"))'
      BY <1>1, <2>1
    <2>3. executeLoops' \in Nat /\ cloops' \in [Callers -> Nat]
      BY <1>0, <2>1 DEF TypeOK
    <2> QED  BY <1>0, <2>1, <2>2, <2>3 DEF TInv, TypeOK, QueueOK
  <1> QED  BY <1>2, <1>3, <1>4, <1>5, <1>6 DEF CallStep

LEMMA CommanderTypes ==
  ASSUME WInv, TInv, Commander
  PROVE  TInv'
  <1> USE DEF workVars, emuVars, callVars, callSide, CommanderGoto
  <1>0. TypeOK /\ QueueOK /\ (cpc = "loops" => wloops > 0)
    BY DEF TInv, WInv, Types
  <1>1. ASSUME UNCHANGED <<todo, loaded>>
        PROVE  \A q \in Callers : loaded'[q] => (Doing(q, "put") \/ Doing(q, "execute"))'
    BY <1>0, <1>1 DEF TypeOK, Doing
  <1>2. CASE LoadLoops \/ StoreLoops
    <2>1. executeLoops' \in Nat /\ wloops' \in Nat
      BY <1>0, <1>2 DEF LoadLoops, StoreLoops, TypeOK
    <2>2. cpc' \in {"loops", "execute"}
      BY <1>2 DEF LoadLoops, StoreLoops
    <2> QED  BY <1>0, <1>1, <1>2, <2>1, <2>2 DEF LoadLoops, StoreLoops, TInv, TypeOK, QueueOK
  <1>3. CASE TakeCommand
    <2>1. icommand' \in Commands /\ commands' # <<>>
      BY <1>0, <1>3, HeadTailProperties DEF TakeCommand, TypeOK
    <2> QED  BY <1>0, <1>1, <1>3, <2>1 DEF TakeCommand, TInv, TypeOK, QueueOK
  <1>4. CASE LoadDelete
    <2>1. races' \in Nat
      BY <1>0, <1>4 DEF LoadDelete, Overlap, TypeOK
    <2> QED  BY <1>0, <1>1, <1>4, <2>1 DEF LoadDelete, TInv, TypeOK, QueueOK
  <1>5. CASE StoreDelete
    <2>1. /\ cpc = "delete" /\ cpc' = "command" /\ commands' = Tail(wview) /\ wview' = <<>>
          /\ UNCHANGED <<adf, todo, loaded, cloops, calls, executeLoops, wloops, icommand, current,
                         last, ini, process, emuVars, rerunEmulator, hdOperations, races, missed>>
      BY <1>5 DEF StoreDelete
    <2>2. commands' \in Seq(Commands)
      BY <1>0, <2>1, HeadTailProperties DEF QueueOK, TypeOK
    <2>3. cview' \in [Callers -> Seq(Commands)]
      <3>1. ASSUME NEW s \in Seq(Commands), NEW n \in Nat PROVE Moved(s, n) \in Seq(Commands)
        <4>1. Len(s) \in Nat /\ \A i \in 1..Len(s) : s[i] \in Commands
          BY LenProperties
        <4>2. \A i \in 1..Len(s) : (IF i < n /\ i < Len(s) THEN s[i + 1] ELSE s[i]) \in Commands
          BY <4>1
        <4> QED  BY <4>1, <4>2 DEF Moved
      <3>2. Len(wview) \in Nat
        BY <1>0, LenProperties DEF TypeOK
      <3>3. PICK moved : cview' = [q \in Callers |-> IF q \in moved THEN Moved(cview[q], Len(wview))
                                                                    ELSE cview[q]]
        BY <1>5 DEF StoreDelete
      <3> QED  BY <1>0, <3>1, <3>2, <3>3 DEF TypeOK
    <2> QED  BY <1>0, <1>1, <2>1, <2>2, <2>3, EmptySeq DEF TInv, TypeOK, QueueOK
  <1>6. CASE AddCommand \/ executeLocalCommand
    <2>1. icommand.adf \in Floppy /\ Commit \in Commands
      BY <1>0, CommandFacts DEF TypeOK
    <2>2. icommand' = Commit /\ current' \in Floppy \union {Nothing} /\ cpc' \in {"execute", "write"}
      BY <1>0, <1>6, <2>1 DEF AddCommand, executeLocalCommand, TypeOK
    <2> QED  BY <1>0, <1>1, <1>6, <2>1, <2>2 DEF AddCommand, executeLocalCommand, TInv, TypeOK, QueueOK
  <1>7. CASE CommandsDone \/ blockTillTmpIniExists
    <2>1. cpc' \in {"execute", "idle", "write"} /\ last' \in BOOLEAN /\ (last' => cpc' = "write")
      BY <1>7 DEF CommandsDone, blockTillTmpIniExists, SendReturns
    <2> QED  BY <1>0, <1>1, <1>7, <2>1 DEF CommandsDone, blockTillTmpIniExists, TInv, TypeOK, QueueOK
  <1>9. CASE writeTmpIni
    <2>1. /\ cpc' \in {"execute", "idle", "signal"} /\ last' \in BOOLEAN /\ (last' => cpc' = "signal")
          /\ current' = Nothing /\ ini' \in {Nothing, current} /\ missed' \in BOOLEAN
      BY <1>0, <1>9 DEF writeTmpIni, SendReturns, TypeOK
    <2> QED  BY <1>0, <1>1, <1>9, <2>1 DEF writeTmpIni, TInv, TypeOK, QueueOK
  <1>8. CASE sendUSR1Signal
    <2>1. /\ cpc' \in {"execute", "idle", "wait"} /\ missed' \in BOOLEAN /\ signal' \in BOOLEAN
          /\ last' \in BOOLEAN /\ (last' => cpc' = "wait")
          /\ emu' \in {emu, "dead"} /\ (emu' # emu => emu = "boot")
          /\ signal' => emu' \in {"handler", "up"}
      BY <1>0, <1>8 DEF sendUSR1Signal, SendReturns, Reaped, TypeOK
    <2> QED  BY <1>0, <1>1, <1>8, <2>1 DEF sendUSR1Signal, TInv, TypeOK, QueueOK
  <1> QED  BY <1>2, <1>3, <1>4, <1>5, <1>6, <1>7, <1>8, <1>9 DEF Commander

LEMMA OthersTypes ==
  ASSUME TInv, Runner \/ Emulator \/ HardReset \/ HDOperation \/ UNCHANGED vars
  PROVE  TInv'
  <1> USE DEF workVars, emuVars, callVars, callSide, RunnerGoto
  <1>0. TypeOK /\ QueueOK
    BY DEF TInv
  <1>1. /\ UNCHANGED <<adf, todo, loaded, cview, cloops, commands, executeLoops, cpc, wview, wloops, icommand,
                       current, last, races>>
    BY DEF Runner, getEmulatorProcessedConfig, Start, StartFails, SetProcess, Wait, Emulator,
           InstallHandler,
           RemoveTmpIni, SIGUSR1_handler, HardReset, HDOperation, vars
  <1>2. \A q \in Callers : loaded'[q] => (Doing(q, "put") \/ Doing(q, "execute"))'
    BY <1>0, <1>1 DEF TypeOK, Doing
  <1>3. /\ ini' \in Floppy \union {Nothing} /\ config' \in Floppy /\ drive' \in Floppy
        /\ epc' \in {"sleep", "start", "started", "wait"} 
        /\ emu' \in {"none", "boot", "handler", "up", "dead"}
        /\ (emu' = "none") <=> (epc' \in {"sleep", "start"})
        /\ signal' => emu' \in {"handler", "up"}
        /\ {process', rerunEmulator', signal', missed'} \subseteq BOOLEAN
    <2>1. CASE Runner
      <3>1. NoAdf \in Floppy
        BY DEF Floppy
      <3>2. CASE getEmulatorProcessedConfig
        BY <1>0, <3>2 DEF getEmulatorProcessedConfig, TypeOK
      <3>3. CASE Start
        BY <1>0, <3>1, <3>3 DEF Start, TypeOK
      <3>6. CASE StartFails
        BY <1>0, <3>1, <3>6 DEF StartFails, TypeOK
      <3>4. CASE SetProcess
        BY <1>0, <3>4 DEF SetProcess, TypeOK
      <3>5. CASE Wait
        BY <1>0, <3>5 DEF Wait, TypeOK
      <3> QED  BY <2>1, <3>2, <3>3, <3>4, <3>5, <3>6 DEF Runner
    <2>2. CASE Emulator
      BY <1>0, <2>2 DEF Emulator, InstallHandler, RemoveTmpIni, SIGUSR1_handler, TypeOK
    <2>3. CASE HardReset
      BY <1>0, <2>3 DEF HardReset, TypeOK
    <2>4. CASE HDOperation
      BY <1>0, <2>4 DEF HDOperation, TypeOK
    <2>5. CASE UNCHANGED vars
      BY <1>0, <2>5 DEF vars, TypeOK
    <2> QED  BY <2>1, <2>2, <2>3, <2>4, <2>5
  <1> QED  BY <1>0, <1>1, <1>2, <1>3 DEF TInv, TypeOK, QueueOK

LEMMA NextTypes == WInv /\ TInv /\ [Next]_vars => TInv'
  <1> SUFFICES ASSUME WInv, TInv, [Next]_vars PROVE TInv'
    OBVIOUS
  <1>1. todo' \in [Callers -> Seq(Steps)]
    BY NextWInv DEF WInv, Types
  <1>2. ASSUME NEW p \in Callers, NEW a \in Adfs, AttachAdf(p, a) PROVE TInv'
    BY <1>1, <1>2, CallTypes DEF AttachAdf
  <1>3. ASSUME NEW p \in Callers, DetachAdf(p) PROVE TInv'
    BY <1>1, <1>3, CallTypes DEF DetachAdf
  <1> QED  BY <1>1, <1>2, <1>3, CallStepTypes, CommanderTypes, OthersTypes DEF Next

(* The queue of AmiberryCommander holds commands and executeLoops is never *)
(* negative, though nobody locks them; slices.Delete never meets an empty  *)
(* queue; a signal is pending only for a process that has the handler.     *)
THEOREM TypesCorrect == Spec => []TypeOK
  <1>1. Spec => [](WInv /\ TInv)
    BY InitWInv, NextWInv, InitTypes, NextTypes, PTL DEF Spec
  <1>2. TInv => TypeOK
    BY DEF TInv
  <1> QED  BY <1>1, <1>2, PTL
-----------------------------------------------------------------------------
(* That the drive and the slot agree at rest, with one caller: a sleep of  *)
(* one goroutine may forget the insertion of another.  What the slot says, *)
(* or will say when the caller is done, is wanted of the last insertion    *)
(* that is not done: one the caller still puts, or one in the queue, or    *)
(* what the commander holds or wrote, or what the emulator starts with.    *)

(* What is still to be executed of the commands put so far.                *)
Queue == IF cpc = "command" THEN <<icommand>> \o commands ELSE commands

IsInsert(s) == s.do = "put" /\ s.what.cmd = "insert"
NoInsert(q) == \A i \in 1..Len(q) : q[i].cmd # "insert"
NoPut(s)    == \A i \in 1..Len(s) : ~IsInsert(s[i])

(* v is what a slot d says, or will say after the steps s.                 *)
Wants(s, d, v) ==
    \/ \E i \in 1..Len(s) : s[i].do = "set" /\ s[i].what.adf = v
    \/ (\A i \in 1..Len(s) : s[i].do # "set") /\ v = d

(* The slot is set once; if not to NoAdf, the insertion follows at once.   *)
SetsOK(s) ==
    /\ \A i, j \in 1..Len(s) : s[i].do = "set" /\ s[j].do = "set" => i = j
    /\ \A i \in 1..Len(s) : s[i].do = "set" /\ s[i].what.adf # NoAdf =>
           i < Len(s) /\ IsInsert(s[i + 1])

(* A commit follows each insertion, so that a sleep has nothing to forget. *)
PutsOK(s) ==
    \A i \in 1..Len(s) : IsInsert(s[i]) => i < Len(s) /\ s[i + 1] = Put(Commit)
CommitComes(q, s) ==
    IF q # <<>> THEN q[1].cmd = "commit" ELSE s # <<>> /\ s[1] = Put(Commit)
QueuedOK(q, s) ==
    \A i \in 1..Len(q) : q[i].cmd = "insert" =>
        IF i < Len(q) THEN q[i + 1].cmd = "commit" ELSE s # <<>> /\ s[1] = Put(Commit)

(* The last insertion is wanted, be it still to be put, or in the queue,   *)
LastPut(s, d) ==
    \A i \in 1..Len(s) :
        IsInsert(s[i]) /\ (\A j \in i + 1..Len(s) : ~IsInsert(s[j])) => Wants(s, d, s[i].what.adf)
LastQueued(q, s, d) ==
    \A i \in 1..Len(q) :
        q[i].cmd = "insert" /\ (\A j \in i + 1..Len(q) : q[j].cmd # "insert") => Wants(s, d, q[i].adf)

(* or on its way from the commander to the drive.                          *)
OnWay(v) ==
    \/ current = v
    \/ current = Nothing /\ ini = v
    \/ /\ current = Nothing /\ ini = Nothing /\ ~missed
       /\ \/ epc = "start" /\ config = v
          \/ emu \in {"boot", "handler", "up"} /\ drive = v

CallOK(s)       == SetsOK(s) /\ PutsOK(s) /\ LastPut(s, adf)
QueueLast(q, s) == NoPut(s) => LastQueued(q, s, adf)
WayLast(q, s)   == NoPut(s) /\ NoInsert(q) => \A v \in Floppy : OnWay(v) => Wants(s, adf, v)
CurrentOK(q, s) == current # Nothing /\ cpc # "write" => CommitComes(q, s)

(* Unlocked steps have not met: a slice loaded is the queue.               *)
ViewsOK ==
    /\ \A p \in Callers : Appending(p) => cview[p] = commands /\ cpc # "delete"
    /\ cpc = "delete" => wview = commands
    /\ cpc \in {"take", "delete"} => commands # <<>> /\ icommand = Head(commands)

(* A file nobody waits for is missed, or the emulator will remove it.      *)
FileOK ==
    /\ cpc = "write" => current # Nothing
    /\ ini # Nothing /\ ~missed /\ cpc \notin {"signal", "wait"} => emu # "up"

SyncOK(p) ==
    /\ ViewsOK /\ FileOK
    /\ CallOK(todo[p]) /\ QueuedOK(Queue, todo[p]) /\ CurrentOK(Queue, todo[p])
    /\ QueueLast(Queue, todo[p]) /\ WayLast(Queue, todo[p])
SyncInv == \A p \in Callers : races = 0 => SyncOK(p)
-----------------------------------------------------------------------------
(* Lists of steps and of commands.                                         *)
LEMMA StepOf ==
  ASSUME NEW s \in Seq(Steps), NEW i \in 1..Len(s)
  PROVE  /\ s[i] \in Steps
         /\ s[i].do \in {"put", "set", "execute"}
         /\ s[i].do = "put" => s[i].what \in Commands
         /\ s[i].do = "set" => s[i].what.adf \in Floppy
  BY CommandFacts

LEMMA TailOf ==
  ASSUME NEW S, NEW s \in Seq(S), s # <<>>
  PROVE  /\ Len(s) \in Nat /\ Len(s) > 0 /\ Head(s) = s[1]
         /\ Tail(s) \in Seq(S) /\ Len(Tail(s)) = Len(s) - 1
         /\ \A i \in 1..Len(Tail(s)) : i + 1 \in 1..Len(s) /\ Tail(s)[i] = s[i + 1]
         /\ \A i \in 1..Len(s) : i # 1 => i - 1 \in 1..Len(Tail(s)) /\ Tail(s)[i - 1] = s[i]
  BY HeadTailProperties, LenProperties, EmptySeq

LEMMA AppendOf ==
  ASSUME NEW S, NEW s \in Seq(S), NEW e \in S
  PROVE  /\ Append(s, e) \in Seq(S) /\ Append(s, e) # <<>>
         /\ Len(s) \in Nat /\ Len(Append(s, e)) = Len(s) + 1
         /\ Append(s, e)[Len(s) + 1] = e
         /\ \A i \in 1..Len(s) : Append(s, e)[i] = s[i]
  BY AppendProperties, LenProperties

(* What a slot says once the first step of s is done.                      *)
Slot(s, d) == IF Head(s).do = "set" THEN Head(s).what.adf ELSE d

LEMMA WantsTail ==
  ASSUME NEW s \in Seq(Steps), s # <<>>, SetsOK(s), NEW d, NEW v, Wants(s, d, v)
  PROVE  Wants(Tail(s), Slot(s, d), v)
  <1> DEFINE t == Tail(s)
  <1>1. /\ Len(s) \in Nat /\ Len(s) > 0 /\ Head(s) = s[1] /\ Len(t) = Len(s) - 1
        /\ \A i \in 1..Len(t) : i + 1 \in 1..Len(s) /\ t[i] = s[i + 1]
        /\ \A i \in 1..Len(s) : i # 1 => i - 1 \in 1..Len(t) /\ t[i - 1] = s[i]
    BY TailOf
  <1> HIDE DEF t
  <1>2. ASSUME NEW i \in 1..Len(s), i # 1, s[i].do = "set", s[i].what.adf = v
        PROVE  Wants(t, Slot(s, d), v)
    BY <1>1, <1>2 DEF Wants
  <1>3. ASSUME s[1].do = "set", s[1].what.adf = v
        PROVE  Wants(t, Slot(s, d), v)
    <2>1. \A i \in 1..Len(t) : t[i].do # "set"
      <3> SUFFICES ASSUME NEW i \in 1..Len(t), t[i].do = "set" PROVE FALSE
        OBVIOUS
      <3>1. i + 1 \in 1..Len(s) /\ s[i + 1].do = "set" /\ 1 \in 1..Len(s) /\ i + 1 # 1
        BY <1>1
      <3> QED  BY <1>3, <3>1 DEF SetsOK
    <2>2. Slot(s, d) = v
      BY <1>1, <1>3 DEF Slot
    <2> QED  BY <2>1, <2>2 DEF Wants
  <1>4. ASSUME \A i \in 1..Len(s) : s[i].do # "set", v = d
        PROVE  Wants(t, Slot(s, d), v)
    BY <1>1, <1>4 DEF Wants, Slot
  <1>5. Wants(t, Slot(s, d), v)
    BY <1>1, <1>2, <1>3, <1>4 DEF Wants
  <1> QED  BY <1>5 DEF t

LEMMA TailOK ==
  ASSUME NEW s \in Seq(Steps), s # <<>>, SetsOK(s), PutsOK(s), NEW d, LastPut(s, d)
  PROVE  /\ SetsOK(Tail(s)) /\ PutsOK(Tail(s)) /\ LastPut(Tail(s), Slot(s, d))
         /\ IsInsert(Head(s)) => Tail(s) # <<>> /\ Tail(s)[1] = Put(Commit)
         /\ NoPut(Tail(s)) /\ ~IsInsert(Head(s)) => NoPut(s)
         /\ NoPut(Tail(s)) /\ IsInsert(Head(s)) => Wants(s, d, Head(s).what.adf)
  <1> DEFINE t == Tail(s)
  <1>1. /\ Len(s) \in Nat /\ Len(s) > 0 /\ Head(s) = s[1] /\ Len(t) = Len(s) - 1
        /\ t \in Seq(Steps)
        /\ \A i \in 1..Len(t) : i + 1 \in 1..Len(s) /\ t[i] = s[i + 1]
        /\ \A i \in 1..Len(s) : i # 1 => i - 1 \in 1..Len(t) /\ t[i - 1] = s[i]
    BY TailOf
  <1>2. \A v : Wants(s, d, v) => Wants(t, Slot(s, d), v)
    BY WantsTail
  <1> HIDE DEF t
  <1>3. SetsOK(t)
    <2>1. ASSUME NEW i \in 1..Len(t), NEW j \in 1..Len(t), t[i].do = "set", t[j].do = "set"
          PROVE  i = j
      <3>1. i + 1 = j + 1
        BY <1>1, <2>1 DEF SetsOK
      <3> QED  BY <3>1
    <2>2. ASSUME NEW i \in 1..Len(t), t[i].do = "set", t[i].what.adf # NoAdf
          PROVE  i < Len(t) /\ IsInsert(t[i + 1])
      <3>1. i + 1 \in 1..Len(s) /\ i + 1 < Len(s) /\ IsInsert(s[i + 2])
        BY <1>1, <2>2 DEF SetsOK
      <3>2. i + 1 \in 1..Len(t) /\ t[i + 1] = s[i + 2]
        BY <1>1, <3>1
      <3> QED  BY <1>1, <3>1, <3>2
    <2> QED  BY <2>1, <2>2 DEF SetsOK
  <1>4. PutsOK(t)
    <2> SUFFICES ASSUME NEW i \in 1..Len(t), IsInsert(t[i])
                 PROVE  i < Len(t) /\ t[i + 1] = Put(Commit)
      BY DEF PutsOK
    <2>1. i + 1 \in 1..Len(s) /\ i + 1 < Len(s) /\ s[i + 2] = Put(Commit)
      BY <1>1 DEF PutsOK
    <2>2. i + 1 \in 1..Len(t) /\ t[i + 1] = s[i + 2]
      BY <1>1, <2>1
    <2> QED  BY <1>1, <2>1, <2>2
  <1>5. LastPut(t, Slot(s, d))
    <2> SUFFICES ASSUME NEW i \in 1..Len(t), IsInsert(t[i]),
                        \A j \in i + 1..Len(t) : ~IsInsert(t[j])
                 PROVE  Wants(t, Slot(s, d), t[i].what.adf)
      BY DEF LastPut
    <2>1. i + 1 \in 1..Len(s) /\ t[i] = s[i + 1]
      BY <1>1
    <2>2. \A j \in i + 2..Len(s) : ~IsInsert(s[j])
      <3> SUFFICES ASSUME NEW j \in i + 2..Len(s) PROVE ~IsInsert(s[j])
        OBVIOUS
      <3>1. j \in 1..Len(s) /\ j # 1 /\ j - 1 \in i + 1..Len(t)
        BY <1>1
      <3>2. t[j - 1] = s[j]
        BY <1>1, <3>1
      <3> QED  BY <3>1, <3>2
    <2>3. Wants(s, d, s[i + 1].what.adf)
      BY <2>1, <2>2, i + 2 = (i + 1) + 1 DEF LastPut
    <2> QED  BY <1>2, <2>1, <2>3
  <1>6. 1 \in 1..Len(s)
    BY <1>1
  <1>7. ASSUME IsInsert(Head(s)) PROVE t # <<>> /\ t[1] = Put(Commit)
    <2>1. 1 < Len(s) /\ s[2] = Put(Commit)
      BY <1>1, <1>6, <1>7 DEF PutsOK
    <2>2. 1 \in 1..Len(t) /\ t[1] = s[2]
      BY <1>1, <2>1
    <2> QED  BY <1>1, <2>1, <2>2, EmptySeq
  <1>8. ASSUME NoPut(t) PROVE \A i \in 2..Len(s) : ~IsInsert(s[i])
    <2> SUFFICES ASSUME NEW i \in 2..Len(s) PROVE ~IsInsert(s[i])
      OBVIOUS
    <2>1. i \in 1..Len(s) /\ i # 1
      BY <1>1
    <2>2. i - 1 \in 1..Len(t) /\ t[i - 1] = s[i]
      BY <1>1, <2>1
    <2> QED  BY <1>8, <2>2 DEF NoPut
  <1>9. ASSUME NoPut(t), ~IsInsert(Head(s)) PROVE NoPut(s)
    BY <1>1, <1>8, <1>9 DEF NoPut
  <1>10. ASSUME NoPut(t), IsInsert(Head(s)) PROVE Wants(s, d, Head(s).what.adf)
    BY <1>1, <1>6, <1>8, <1>10 DEF LastPut
  <1> QED  BY <1>3, <1>4, <1>5, <1>7, <1>9, <1>10 DEF t

(* The queue after a command is put at its end, and taken from its front.  *)
LEMMA QueuePut ==
  ASSUME NEW q \in Seq(Commands), NEW s \in Seq(Steps), s # <<>>, Head(s).do = "put",
         QueuedOK(q, s), IsInsert(Head(s)) => Tail(s) # <<>> /\ Tail(s)[1] = Put(Commit)
  PROVE  /\ QueuedOK(Append(q, Head(s).what), Tail(s))
         /\ NoInsert(Append(q, Head(s).what)) => NoInsert(q) /\ ~IsInsert(Head(s))
         /\ CommitComes(q, s) => CommitComes(Append(q, Head(s).what), Tail(s))
  <1>1. PICK c : c = Head(s).what
    OBVIOUS
  <1>2. PICK r : r = Append(q, c)
    OBVIOUS
  <1>3. c \in Commands /\ s[1] = Head(s) /\ Len(s) > 0
    <2>1. s[1] = Head(s) /\ Len(s) > 0 /\ Len(s) \in Nat
      BY TailOf
    <2>2. 1 \in 1..Len(s)
      BY <2>1
    <2> QED  BY <1>1, <2>1, <2>2, StepOf
  <1>4. /\ r # <<>> /\ Len(q) \in Nat /\ Len(r) = Len(q) + 1 /\ r[Len(q) + 1] = c
        /\ \A i \in 1..Len(q) : r[i] = q[i]
    BY <1>2, <1>3, AppendOf
  <1>5. IsInsert(Head(s)) <=> c.cmd = "insert"
    BY <1>1 DEF IsInsert
  <1>6. s[1] = Put(Commit) => c = Commit /\ c.cmd = "commit"
    BY <1>1, <1>3 DEF Put, Commit
  <1>7. QueuedOK(r, Tail(s))
    <2> SUFFICES ASSUME NEW i \in 1..Len(r), r[i].cmd = "insert"
                 PROVE  IF i < Len(r) THEN r[i + 1].cmd = "commit"
                                      ELSE Tail(s) # <<>> /\ Tail(s)[1] = Put(Commit)
      BY DEF QueuedOK
    <2>1. CASE i = Len(q) + 1
      BY <1>4, <1>5, <2>1
    <2>2. CASE i = Len(q)
      <3>1. i \in 1..Len(q) /\ q[i].cmd = "insert"
        BY <1>4, <2>2
      <3>2. s[1] = Put(Commit)
        BY <2>2, <3>1 DEF QueuedOK
      <3> QED  BY <1>4, <1>6, <2>2, <3>2
    <2>3. CASE i < Len(q)
      <3>1. i \in 1..Len(q) /\ q[i].cmd = "insert" /\ i + 1 \in 1..Len(q)
        BY <1>4, <2>3
      <3>2. q[i + 1].cmd = "commit"
        BY <2>3, <3>1 DEF QueuedOK
      <3> QED  BY <1>4, <2>3, <3>1, <3>2
    <2> QED  BY <1>4, <2>1, <2>2, <2>3
  <1>8. ASSUME NoInsert(r) PROVE NoInsert(q) /\ ~IsInsert(Head(s))
    <2>1. Len(q) + 1 \in 1..Len(r) /\ \A i \in 1..Len(q) : i \in 1..Len(r)
      BY <1>4
    <2> QED  BY <1>4, <1>5, <1>8, <2>1 DEF NoInsert
  <1>9. ASSUME CommitComes(q, s) PROVE CommitComes(r, Tail(s))
    <2>1. CASE q = <<>>
      <3>1. r[1] = c
        BY <1>4, <2>1
      <3> QED  BY <1>4, <1>6, <1>9, <2>1, <3>1 DEF CommitComes
    <2>2. CASE q # <<>>
      <3>1. 1 \in 1..Len(q)
        BY <1>4, <2>2, EmptySeq
      <3> QED  BY <1>4, <1>9, <2>2, <3>1 DEF CommitComes
    <2> QED  BY <2>1, <2>2
  <1> QED  BY <1>1, <1>2, <1>7, <1>8, <1>9

LEMMA LastQueuedPut ==
  ASSUME NEW q \in Seq(Commands), NEW s \in Seq(Steps), s # <<>>, Head(s).do = "put",
         NEW t, NEW d, NEW e,
         \A v : Wants(s, d, v) => Wants(t, e, v),
         IsInsert(Head(s)) => Wants(s, d, Head(s).what.adf),
         ~IsInsert(Head(s)) => LastQueued(q, s, d)
  PROVE  LastQueued(Append(q, Head(s).what), t, e)
  <1>1. PICK c : c = Head(s).what
    OBVIOUS
  <1>2. PICK r : r = Append(q, c)
    OBVIOUS
  <1>3. c \in Commands
    <2>1. s[1] = Head(s) /\ Len(s) > 0 /\ Len(s) \in Nat
      BY TailOf
    <2>2. 1 \in 1..Len(s)
      BY <2>1
    <2> QED  BY <1>1, <2>1, <2>2, StepOf
  <1>4. /\ r # <<>> /\ Len(q) \in Nat /\ Len(r) = Len(q) + 1 /\ r[Len(q) + 1] = c
        /\ \A i \in 1..Len(q) : r[i] = q[i]
    BY <1>2, <1>3, AppendOf
  <1>5. IsInsert(Head(s)) <=> c.cmd = "insert"
    BY <1>1 DEF IsInsert
  <1>6. LastQueued(r, t, e)
    <2> SUFFICES ASSUME NEW i \in 1..Len(r), r[i].cmd = "insert",
                        \A j \in i + 1..Len(r) : r[j].cmd # "insert"
                 PROVE  Wants(t, e, r[i].adf)
      BY DEF LastQueued
    <2>1. CASE i = Len(q) + 1
      BY <1>1, <1>4, <1>5, <2>1
    <2>2. CASE i # Len(q) + 1
      <3>1. i \in 1..Len(q) /\ Len(q) + 1 \in i + 1..Len(r) /\ r[i] = q[i]
        BY <1>4, <2>2
      <3>2. ~IsInsert(Head(s))
        BY <1>4, <1>5, <3>1
      <3>3. \A j \in i + 1..Len(q) : j \in i + 1..Len(r) /\ r[j] = q[j]
        BY <1>4, <3>1
      <3>4. Wants(s, d, q[i].adf)
        BY <3>1, <3>2, <3>3 DEF LastQueued
      <3> QED  BY <3>1, <3>4
    <2> QED  BY <2>1, <2>2
  <1> QED  BY <1>1, <1>2, <1>6

LEMMA QueueTaken ==
  ASSUME NEW q \in Seq(Commands), q # <<>>, NEW s, NEW d, QueuedOK(q, s)
  PROVE  /\ QueuedOK(Tail(q), s)
         /\ q[1].cmd = "insert" => CommitComes(Tail(q), s)
         /\ NoInsert(Tail(q)) /\ q[1].cmd # "insert" => NoInsert(q)
         /\ LastQueued(q, s, d) => /\ LastQueued(Tail(q), s, d)
                                   /\ NoInsert(Tail(q)) /\ q[1].cmd = "insert"
                                         => Wants(s, d, q[1].adf)
  <1> DEFINE t == Tail(q)
  <1>1. /\ Len(q) \in Nat /\ Len(q) > 0 /\ Len(t) = Len(q) - 1 /\ t \in Seq(Commands)
        /\ \A i \in 1..Len(t) : i + 1 \in 1..Len(q) /\ t[i] = q[i + 1]
        /\ \A i \in 1..Len(q) : i # 1 => i - 1 \in 1..Len(t) /\ t[i - 1] = q[i]
    BY TailOf
  <1>2. t # <<>> <=> Len(t) > 0
    BY <1>1, EmptySeq
  <1> HIDE DEF t
  <1>3. QueuedOK(t, s)
    <2> SUFFICES ASSUME NEW i \in 1..Len(t), t[i].cmd = "insert"
                 PROVE  IF i < Len(t) THEN t[i + 1].cmd = "commit" ELSE s # <<>> /\ s[1] = Put(Commit)
      BY DEF QueuedOK
    <2>1. /\ i + 1 \in 1..Len(q)
          /\ IF i + 1 < Len(q) THEN q[i + 2].cmd = "commit" ELSE s # <<>> /\ s[1] = Put(Commit)
      BY <1>1, (i + 1) + 1 = i + 2 DEF QueuedOK
    <2>2. CASE i < Len(t)
      <3>1. i + 1 \in 1..Len(t) /\ i + 1 < Len(q)
        BY <1>1, <2>2
      <3>2. t[i + 1] = q[i + 2]
        BY <1>1, <3>1
      <3> QED  BY <2>1, <2>2, <3>1, <3>2
    <2>3. CASE ~(i < Len(t))
      <3>1. ~(i + 1 < Len(q))
        BY <1>1, <2>3
      <3> QED  BY <2>1, <2>3, <3>1
    <2> QED  BY <2>2, <2>3
  <1>4. ASSUME q[1].cmd = "insert" PROVE CommitComes(t, s)
    <2>1. IF 1 < Len(q) THEN q[2].cmd = "commit" ELSE s # <<>> /\ s[1] = Put(Commit)
      BY <1>1, <1>4 DEF QueuedOK
    <2>2. CASE 1 < Len(q)
      <3>1. t # <<>> /\ t[1] = q[2]
        BY <1>1, <1>2, <2>2
      <3> QED  BY <2>1, <2>2, <3>1 DEF CommitComes
    <2>3. CASE ~(1 < Len(q))
      BY <1>1, <1>2, <2>1, <2>3 DEF CommitComes
    <2> QED  BY <2>2, <2>3
  <1>5. ASSUME NoInsert(t) PROVE \A i \in 2..Len(q) : q[i].cmd # "insert"
    <2> SUFFICES ASSUME NEW i \in 2..Len(q) PROVE q[i].cmd # "insert"
      OBVIOUS
    <2>1. i \in 1..Len(q) /\ i # 1
      BY <1>1
    <2>2. i - 1 \in 1..Len(t) /\ t[i - 1] = q[i]
      BY <1>1, <2>1
    <2> QED  BY <1>5, <2>2 DEF NoInsert
  <1>6. ASSUME NoInsert(t), q[1].cmd # "insert" PROVE NoInsert(q)
    BY <1>1, <1>5, <1>6 DEF NoInsert
  <1>7. ASSUME LastQueued(q, s, d) PROVE LastQueued(t, s, d)
    <2> SUFFICES ASSUME NEW i \in 1..Len(t), t[i].cmd = "insert",
                        \A j \in i + 1..Len(t) : t[j].cmd # "insert"
                 PROVE  Wants(s, d, t[i].adf)
      BY DEF LastQueued
    <2>1. i + 1 \in 1..Len(q) /\ t[i] = q[i + 1]
      BY <1>1
    <2>2. \A j \in (i + 1) + 1..Len(q) : q[j].cmd # "insert"
      <3> SUFFICES ASSUME NEW j \in (i + 1) + 1..Len(q) PROVE q[j].cmd # "insert"
        OBVIOUS
      <3>1. j \in 1..Len(q) /\ j # 1 /\ j - 1 \in i + 1..Len(t)
        BY <1>1
      <3>2. t[j - 1] = q[j]
        BY <1>1, <3>1
      <3> QED  BY <3>1, <3>2
    <2> QED  BY <1>7, <2>1, <2>2 DEF LastQueued
  <1>8. ASSUME LastQueued(q, s, d), NoInsert(t), q[1].cmd = "insert"
        PROVE  Wants(s, d, q[1].adf)
    BY <1>1, <1>5, <1>8 DEF LastQueued
  <1> QED  BY <1>3, <1>4, <1>6, <1>7, <1>8 DEF t
-----------------------------------------------------------------------------
(* The steps of a call.                                                    *)
LEMMA StepKinds ==
  ASSUME NEW a \in Floppy
  PROVE  /\ Put(Insert(a)).do = "put" /\ IsInsert(Put(Insert(a))) /\ Put(Insert(a)).what.adf = a
         /\ Put(Commit).do = "put" /\ ~IsInsert(Put(Commit))
         /\ Put(Sleep).do = "put" /\ ~IsInsert(Put(Sleep))
         /\ SetAdf(a).do = "set" /\ ~IsInsert(SetAdf(a)) /\ SetAdf(a).what.adf = a
         /\ Execute.do = "execute" /\ ~IsInsert(Execute)
  BY DEF Put, Insert, Commit, Sleep, SetAdf, Execute, IsInsert

LEMMA PutInsertIs ==
  ASSUME NEW a \in Floppy
  PROVE  /\ PutInsert(a) \in Seq(Steps) /\ Len(PutInsert(a)) = 3
         /\ PutInsert(a)[1] = Put(Insert(a)) /\ PutInsert(a)[2] = Put(Commit)
         /\ PutInsert(a)[3] = Put(Sleep)
  <1>1. PutInsert(a) \in Seq(Steps) /\ Len(PutInsert(a)) = 3
    BY StepsOf
  <1> QED  BY <1>1 DEF PutInsert

LEMMA ConcatOf ==
  ASSUME NEW q \in Seq(Steps), NEW s \in Seq(Steps), NEW r, r = q \o s
  PROVE  /\ r \in Seq(Steps) /\ Len(q) \in Nat /\ Len(r) = Len(q) + Len(s)
         /\ \A i \in 1..Len(q) : r[i] = q[i]
         /\ \A i \in 1..Len(s) : r[Len(q) + i] = s[i]
  <1>1. /\ r \in Seq(Steps) /\ Len(r) = Len(q) + Len(s)
        /\ \A i \in 1..Len(q) + Len(s) : r[i] = IF i <= Len(q) THEN q[i] ELSE s[i - Len(q)]
    BY ConcatProperties
  <1>2. Len(q) \in Nat /\ Len(s) \in Nat
    BY LenProperties
  <1>3. \A i \in 1..Len(q) : r[i] = q[i]
    BY <1>1, <1>2
  <1>4. \A i \in 1..Len(s) : r[Len(q) + i] = s[i]
    <2> SUFFICES ASSUME NEW i \in 1..Len(s) PROVE r[Len(q) + i] = s[i]
      OBVIOUS
    <2>1. Len(q) + i \in 1..Len(q) + Len(s) /\ ~(Len(q) + i <= Len(q)) /\ (Len(q) + i) - Len(q) = i
      BY <1>2
    <2> QED  BY <1>1, <2>1
  <1> QED  BY <1>1, <1>2, <1>3, <1>4

LEMMA AttachSteps ==
  ASSUME NEW a \in Floppy, NEW first \in {<<>>, PutInsert(NoAdf)}, NEW s,
         s = first \o <<SetAdf(a)>> \o PutInsert(a) \o <<Execute>>, NEW d
  PROVE  s \in Seq(Steps) /\ SetsOK(s) /\ PutsOK(s) /\ LastPut(s, d) /\ ~NoPut(s)
  <1>0. NoAdf \in Floppy
    BY DEF Floppy
  <1>1. PICK n : n = Len(first)
    OBVIOUS
  <1>2. /\ first \in Seq(Steps) /\ n \in {0, 3}
        /\ n = 3 => first[1] = Put(Insert(NoAdf)) /\ first[2] = Put(Commit) /\ first[3] = Put(Sleep)
    <2>1. CASE first = <<>>
      <3>1. first \in Seq(Steps) /\ n = 0
        BY <1>1, <2>1
      <3> QED  BY <3>1
    <2>2. CASE first = PutInsert(NoAdf)
      <3>1. first \in Seq(Steps) /\ n = 3
        BY <1>0, <1>1, <2>2, PutInsertIs
      <3>2. first[1] = Put(Insert(NoAdf)) /\ first[2] = Put(Commit) /\ first[3] = Put(Sleep)
        BY <1>0, <2>2, PutInsertIs
      <3> QED  BY <3>1, <3>2
    <2> QED  BY <2>1, <2>2
  <1>3. /\ <<SetAdf(a)>> \in Seq(Steps) /\ Len(<<SetAdf(a)>>) = 1
        /\ <<Execute>> \in Seq(Steps) /\ Len(<<Execute>>) = 1
    BY StepsOf
  <1>4. PICK u : u = first \o <<SetAdf(a)>>
    OBVIOUS
  <1>5. /\ u \in Seq(Steps) /\ Len(u) = n + 1
        /\ u[n + 1] = SetAdf(a) /\ \A i \in 1..n : u[i] = first[i]
    <2>1. /\ u \in Seq(Steps) /\ Len(u) = n + 1 /\ \A i \in 1..n : u[i] = first[i]
          /\ \A i \in 1..1 : u[n + i] = <<SetAdf(a)>>[i]
      BY <1>1, <1>2, <1>3, <1>4, ConcatOf
    <2>2. u[n + 1] = SetAdf(a)
      BY <2>1
    <2> QED  BY <2>1, <2>2
  <1>6. PICK w : w = u \o PutInsert(a)
    OBVIOUS
  <1>7. /\ w \in Seq(Steps) /\ Len(w) = n + 4
        /\ \A i \in 1..n : w[i] = first[i]
        /\ w[n + 1] = SetAdf(a) /\ w[n + 2] = Put(Insert(a)) /\ w[n + 3] = Put(Commit)
        /\ w[n + 4] = Put(Sleep)
    <2>1. /\ w \in Seq(Steps) /\ Len(w) = Len(u) + 3
          /\ \A i \in 1..Len(u) : w[i] = u[i]
          /\ \A i \in 1..3 : w[Len(u) + i] = PutInsert(a)[i]
      <3>1. PutInsert(a) \in Seq(Steps) /\ Len(PutInsert(a)) = 3
        BY PutInsertIs
      <3>2. /\ w \in Seq(Steps) /\ Len(w) = Len(u) + Len(PutInsert(a))
            /\ \A i \in 1..Len(u) : w[i] = u[i]
            /\ \A i \in 1..Len(PutInsert(a)) : w[Len(u) + i] = PutInsert(a)[i]
        <4>1. PICK x : x = PutInsert(a)
          OBVIOUS
        <4>2. u \in Seq(Steps) /\ x \in Seq(Steps) /\ w = u \o x
          BY <1>5, <1>6, <3>1, <4>1
        <4>3. /\ w \in Seq(Steps) /\ Len(w) = Len(u) + Len(x)
              /\ \A i \in 1..Len(u) : w[i] = u[i]
              /\ \A i \in 1..Len(x) : w[Len(u) + i] = x[i]
          BY <4>2, ConcatOf
        <4> QED  BY <4>1, <4>3
      <3> QED  BY <3>1, <3>2
    <2>2. \A i \in 1..n : i \in 1..Len(u)
      BY <1>2, <1>5
    <2>3. w[n + 1] = SetAdf(a)
      BY <1>2, <1>5, <2>1
    <2>4. \A i \in 1..3 : w[n + 1 + i] = PutInsert(a)[i]
      BY <1>5, <2>1
    <2>5. w[n + 2] = PutInsert(a)[1] /\ w[n + 3] = PutInsert(a)[2] /\ w[n + 4] = PutInsert(a)[3]
      BY <1>2, <2>4, n + 1 + 1 = n + 2, n + 1 + 2 = n + 3, n + 1 + 3 = n + 4
    <2> QED  BY <1>2, <1>5, <2>1, <2>2, <2>3, <2>5, PutInsertIs
  <1>8. /\ s \in Seq(Steps) /\ Len(s) = n + 5
        /\ \A i \in 1..n : s[i] = first[i]
        /\ s[n + 1] = SetAdf(a) /\ s[n + 2] = Put(Insert(a)) /\ s[n + 3] = Put(Commit)
        /\ s[n + 4] = Put(Sleep) /\ s[n + 5] = Execute
    <2>1. s = w \o <<Execute>>
      BY <1>4, <1>6
    <2>2. /\ s \in Seq(Steps) /\ Len(s) = n + 5
          /\ \A i \in 1..n + 4 : s[i] = w[i]
          /\ \A i \in 1..1 : s[n + 4 + i] = <<Execute>>[i]
      <3>3. /\ s \in Seq(Steps) /\ Len(s) = Len(w) + Len(<<Execute>>)
            /\ \A i \in 1..Len(w) : s[i] = w[i]
            /\ \A i \in 1..Len(<<Execute>>) : s[Len(w) + i] = <<Execute>>[i]
        <4>1. PICK x : x = <<Execute>>
          OBVIOUS
        <4>2. w \in Seq(Steps) /\ x \in Seq(Steps) /\ s = w \o x
          BY <1>3, <1>7, <2>1, <4>1
        <4>3. PICK z : z = w \o x
          OBVIOUS
        <4>4. /\ z \in Seq(Steps) /\ Len(z) = Len(w) + Len(x)
              /\ \A i \in 1..Len(w) : z[i] = w[i]
              /\ \A i \in 1..Len(x) : z[Len(w) + i] = x[i]
          BY <4>2, <4>3, ConcatOf
        <4>5. s = z
          BY <4>2, <4>3
        <4> QED  BY <4>1, <4>4, <4>5
      <3>1. /\ s \in Seq(Steps) /\ Len(s) = Len(w) + 1
            /\ \A i \in 1..Len(w) : s[i] = w[i]
            /\ \A i \in 1..1 : s[Len(w) + i] = <<Execute>>[i]
        BY <1>3, <3>3
      <3>2. (n + 4) + 1 = n + 5
        BY <1>2
      <3> QED  BY <1>7, <3>1, <3>2
    <2>3. s[n + 5] = Execute
      <3>1. s[n + 4 + 1] = Execute
        <4>1. 1 \in 1..1 /\ <<Execute>>[1] = Execute
          OBVIOUS
        <4> QED  BY <2>2, <4>1
      <3>2. n + 4 + 1 = n + 5
        BY <1>2
      <3> QED  BY <3>1, <3>2
    <2>4. \A i \in 1..n : i \in 1..n + 4
      BY <1>2
    <2>5. n + 1 \in 1..n + 4 /\ n + 2 \in 1..n + 4 /\ n + 3 \in 1..n + 4 /\ n + 4 \in 1..n + 4
      BY <1>2
    <2> QED  BY <1>7, <2>2, <2>3, <2>4, <2>5
  <1>9. \A i \in 1..Len(s) :
           \/ i = n + 1 \/ i = n + 2 \/ i = n + 3 \/ i = n + 4 \/ i = n + 5
           \/ n = 3 /\ (i = 1 \/ i = 2 \/ i = 3)
    BY <1>2, <1>8
  <1>10. n = 3 => s[1] = Put(Insert(NoAdf)) /\ s[2] = Put(Commit) /\ s[3] = Put(Sleep)
    BY <1>2, <1>8
  <1>20. /\ s[n + 2].do # "set" /\ s[n + 3].do # "set" /\ s[n + 4].do # "set" /\ s[n + 5].do # "set"
         /\ ~IsInsert(s[n + 1]) /\ ~IsInsert(s[n + 3]) /\ ~IsInsert(s[n + 4]) /\ ~IsInsert(s[n + 5])
    BY <1>8, StepKinds
  <1>21. n = 3 => /\ s[1].do # "set" /\ s[2].do # "set" /\ s[3].do # "set"
                  /\ ~IsInsert(s[2]) /\ ~IsInsert(s[3])
    BY <1>0, <1>10, StepKinds
  <1>11. \A i \in 1..Len(s) : s[i].do = "set" => i = n + 1
    BY <1>9, <1>20, <1>21
  <1>12. \A i \in 1..Len(s) : IsInsert(s[i]) => i = n + 2 \/ (n = 3 /\ i = 1)
    BY <1>9, <1>20, <1>21
  <1>13. SetsOK(s)
    <2>1. IsInsert(s[n + 2]) /\ n + 1 < Len(s) /\ (n + 1) + 1 = n + 2
      BY <1>2, <1>8, StepKinds
    <2> QED  BY <1>11, <2>1 DEF SetsOK
  <1>14. PutsOK(s)
    <2> SUFFICES ASSUME NEW i \in 1..Len(s), IsInsert(s[i])
                 PROVE  i < Len(s) /\ s[i + 1] = Put(Commit)
      BY DEF PutsOK
    <2>1. CASE i = n + 2
      <3>1. i < Len(s) /\ i + 1 = n + 3
        BY <1>2, <1>8, <2>1
      <3> QED  BY <1>8, <3>1
    <2>2. CASE n = 3 /\ i = 1
      BY <1>8, <1>10, <2>2
    <2> QED  BY <1>12, <2>1, <2>2
  <1>15. n + 1 \in 1..Len(s) /\ n + 2 \in 1..Len(s)
    BY <1>2, <1>8
  <1>16. Wants(s, d, a)
    BY <1>8, <1>15, StepKinds DEF Wants
  <1>17. LastPut(s, d)
    <2> SUFFICES ASSUME NEW i \in 1..Len(s), IsInsert(s[i]),
                        \A j \in i + 1..Len(s) : ~IsInsert(s[j])
                 PROVE  Wants(s, d, s[i].what.adf)
      BY DEF LastPut
    <2>1. IsInsert(s[n + 2])
      BY <1>8, StepKinds
    <2>2. i = n + 2
      BY <1>2, <1>8, <1>12, <2>1
    <2>3. s[i].what.adf = a
      BY <1>8, <2>2, StepKinds
    <2> QED  BY <1>16, <2>3
  <1>18. ~NoPut(s)
    BY <1>8, <1>15, StepKinds DEF NoPut
  <1> QED  BY <1>8, <1>13, <1>14, <1>17, <1>18

LEMMA DetachSteps ==
  ASSUME NEW s, s = PutInsert(NoAdf) \o <<Execute, SetAdf(NoAdf)>>, NEW d
  PROVE  s \in Seq(Steps) /\ SetsOK(s) /\ PutsOK(s) /\ LastPut(s, d) /\ ~NoPut(s)
  <1>0. NoAdf \in Floppy
    BY DEF Floppy
  <1>1. <<Execute, SetAdf(NoAdf)>> \in Seq(Steps) /\ Len(<<Execute, SetAdf(NoAdf)>>) = 2
    BY <1>0, StepsOf
  <1>2. /\ s \in Seq(Steps) /\ Len(s) = 5
        /\ s[1] = Put(Insert(NoAdf)) /\ s[2] = Put(Commit) /\ s[3] = Put(Sleep)
        /\ s[4] = Execute /\ s[5] = SetAdf(NoAdf)
    <2>1. /\ s \in Seq(Steps) /\ Len(s) = 3 + 2
          /\ \A i \in 1..3 : s[i] = PutInsert(NoAdf)[i]
          /\ \A i \in 1..2 : s[3 + i] = <<Execute, SetAdf(NoAdf)>>[i]
      BY <1>0, <1>1, PutInsertIs, ConcatOf
    <2>2. s[3 + 1] = Execute /\ s[3 + 2] = SetAdf(NoAdf)
      BY <2>1
    <2>3. s[1] = PutInsert(NoAdf)[1] /\ s[2] = PutInsert(NoAdf)[2] /\ s[3] = PutInsert(NoAdf)[3]
      BY <2>1
    <2> QED  BY <1>0, <2>1, <2>2, <2>3, PutInsertIs
  <1>3. \A i \in 1..Len(s) : i = 1 \/ i = 2 \/ i = 3 \/ i = 4 \/ i = 5
    BY <1>2
  <1>4. \A i \in 1..Len(s) : s[i].do = "set" => i = 5
    BY <1>0, <1>2, <1>3, StepKinds
  <1>5. \A i \in 1..Len(s) : IsInsert(s[i]) => i = 1
    BY <1>0, <1>2, <1>3, StepKinds
  <1>6. SetsOK(s)
    <2>1. s[5].what.adf = NoAdf
      BY <1>0, <1>2, StepKinds
    <2> QED  BY <1>4, <2>1 DEF SetsOK
  <1>7. PutsOK(s)
    BY <1>2, <1>5 DEF PutsOK
  <1>8. Wants(s, d, NoAdf)
    <2>1. 5 \in 1..Len(s)
      BY <1>2
    <2> QED  BY <1>0, <1>2, <2>1, StepKinds DEF Wants
  <1>9. LastPut(s, d)
    BY <1>0, <1>2, <1>5, <1>8, StepKinds DEF LastPut
  <1>10. ~NoPut(s)
    <2>1. 1 \in 1..Len(s)
      BY <1>2
    <2> QED  BY <1>0, <1>2, <2>1, StepKinds DEF NoPut
  <1> QED  BY <1>2, <1>6, <1>7, <1>9, <1>10
-----------------------------------------------------------------------------
(* The parts of SyncOK before a step, and after it.                        *)
LEMMA SyncParts ==
  ASSUME TypeOK, NEW p \in Callers, SyncOK(p), NEW q, NEW s, q = Queue, s = todo[p]
  PROVE  /\ q \in Seq(Commands) /\ s \in Seq(Steps)
         /\ SetsOK(s) /\ PutsOK(s) /\ LastPut(s, adf) /\ QueuedOK(q, s)
         /\ current # Nothing /\ cpc # "write" => CommitComes(q, s)
         /\ NoPut(s) => LastQueued(q, s, adf)
         /\ NoPut(s) /\ NoInsert(q) => \A v \in Floppy : OnWay(v) => Wants(s, adf, v)
  <1>1. s \in Seq(Steps)
    BY DEF TypeOK
  <1>2. q \in Seq(Commands)
    <2>1. commands \in Seq(Commands) /\ <<icommand>> \in Seq(Commands)
      BY DEF TypeOK
    <2>2. <<icommand>> \o commands \in Seq(Commands)
      BY <2>1, ConcatProperties
    <2> QED  BY <2>1, <2>2 DEF Queue
  <1> QED  BY <1>1, <1>2 DEF SyncOK, CallOK, CurrentOK, QueueLast, WayLast

LEMMA SyncAfter ==
  ASSUME NEW p \in Callers, NEW q, NEW s, q = Queue', s = todo'[p], ViewsOK', FileOK',
         SetsOK(s), PutsOK(s), LastPut(s, adf'), QueuedOK(q, s),
         current' # Nothing /\ cpc' # "write" => CommitComes(q, s),
         NoPut(s) => LastQueued(q, s, adf'),
         NoPut(s) /\ NoInsert(q) => \A v \in Floppy : OnWay(v)' => Wants(s, adf', v)
  PROVE  SyncOK(p)'
  <1>1. (SetsOK(todo[p]) /\ PutsOK(todo[p]) /\ LastPut(todo[p], adf) /\ QueuedOK(Queue, todo[p]))'
    OBVIOUS
  <1>2. (current # Nothing /\ cpc # "write" => CommitComes(Queue, todo[p]))'
    OBVIOUS
  <1>3. (NoPut(todo[p]) => LastQueued(Queue, todo[p], adf))'
    OBVIOUS
  <1>4. (NoPut(todo[p]) /\ NoInsert(Queue) => \A v \in Floppy : OnWay(v) => Wants(todo[p], adf, v))'
    OBVIOUS
  <1> QED  BY <1>1, <1>2, <1>3, <1>4 DEF SyncOK, CallOK, CurrentOK, QueueLast, WayLast

(* A step that puts nothing and takes nothing, and after which nothing new *)
(* is on its way to the drive.                                             *)
LEMMA SyncSame ==
  ASSUME TypeOK, NEW p \in Callers, SyncOK(p), UNCHANGED <<Queue, todo, adf>>, ViewsOK', FileOK',
         current' # Nothing /\ cpc' # "write" => current # Nothing /\ cpc # "write",
         \A v \in Floppy : OnWay(v)' => OnWay(v)
  PROVE  SyncOK(p)'
  <1>1. PICK q, s : q = Queue /\ s = todo[p]
    OBVIOUS
  <1>2. /\ SetsOK(s) /\ PutsOK(s) /\ LastPut(s, adf) /\ QueuedOK(q, s)
        /\ current # Nothing /\ cpc # "write" => CommitComes(q, s)
        /\ NoPut(s) => LastQueued(q, s, adf)
        /\ NoPut(s) /\ NoInsert(q) => \A v \in Floppy : OnWay(v) => Wants(s, adf, v)
    BY <1>1, SyncParts
  <1>3. q = Queue' /\ s = todo'[p] /\ adf' = adf
    BY <1>1
  <1>4. PICK d : d = adf
    OBVIOUS
  <1>5. LastPut(s, d) /\ (NoPut(s) => LastQueued(q, s, d))
    BY <1>2, <1>4
  <1>6. NoPut(s) /\ NoInsert(q) => \A v \in Floppy : OnWay(v)' => Wants(s, d, v)
    BY <1>2, <1>4
  <1>7. d = adf'
    BY <1>3, <1>4
  <1> QED  BY <1>2, <1>3, <1>5, <1>6, <1>7, SyncAfter

(* A call begins: its own insertion is the last one.                       *)
LEMMA SyncCall ==
  ASSUME TypeOK, NEW p \in Callers, SyncOK(p), ViewsOK', FileOK', UNCHANGED <<Queue, adf, current, cpc>>,
         todo[p] = <<>>, NEW s \in Seq(Steps), todo'[p] = s, SetsOK(s), PutsOK(s),
         \A d : LastPut(s, d), ~NoPut(s)
  PROVE  SyncOK(p)'
  <1>1. PICK q : q = Queue
    OBVIOUS
  <1>2. /\ QueuedOK(q, <<>>) /\ q \in Seq(Commands)
        /\ current # Nothing /\ cpc # "write" => CommitComes(q, <<>>)
    BY <1>1, SyncParts
  <1>3. QueuedOK(q, s)
    BY <1>2 DEF QueuedOK
  <1>4. current # Nothing /\ cpc # "write" => CommitComes(q, s)
    BY <1>2 DEF CommitComes
  <1>5. q = Queue' /\ current' = current /\ cpc' = cpc
    BY <1>1
  <1> QED  BY <1>3, <1>4, <1>5, SyncAfter

(* A step of a call is done.                                               *)
LEMMA SyncStep ==
  ASSUME TypeOK, NEW p \in Callers, SyncOK(p), ViewsOK', FileOK', todo[p] # <<>>, StepDone(p),
         adf' = Slot(todo[p], adf),
         Queue' = IF Head(todo[p]).do = "put" THEN Append(Queue, Head(todo[p]).what) ELSE Queue,
         UNCHANGED <<current, ini, missed, epc, config, emu, drive, cpc>>
  PROVE  SyncOK(p)'
  <1>1. PICK q, s, d : q = Queue /\ s = todo[p] /\ d = adf
    OBVIOUS
  <1>2. /\ q \in Seq(Commands) /\ s \in Seq(Steps) /\ s # <<>>
        /\ SetsOK(s) /\ PutsOK(s) /\ LastPut(s, d) /\ QueuedOK(q, s)
        /\ current # Nothing /\ cpc # "write" => CommitComes(q, s)
        /\ NoPut(s) => LastQueued(q, s, d)
        /\ NoPut(s) /\ NoInsert(q) => \A v \in Floppy : OnWay(v) => Wants(s, d, v)
    BY <1>1, SyncParts
  <1>3. PICK t, e, h : t = Tail(s) /\ e = Slot(s, d) /\ h = Head(s)
    OBVIOUS
  <1>4. /\ todo'[p] = t /\ adf' = e
        /\ Queue' = IF h.do = "put" THEN Append(q, h.what) ELSE q
        /\ current' = current /\ cpc' = cpc
    BY <1>1, <1>3 DEF StepDone, TypeOK
  <1>5. \A v \in Floppy : OnWay(v)' => OnWay(v)
    BY DEF OnWay
  <1>6. \A v : Wants(s, d, v) => Wants(t, e, v)
    BY <1>2, <1>3, WantsTail
  <1>7. /\ SetsOK(t) /\ PutsOK(t) /\ LastPut(t, e)
        /\ IsInsert(h) => t # <<>> /\ t[1] = Put(Commit)
        /\ NoPut(t) /\ ~IsInsert(h) => NoPut(s)
        /\ NoPut(t) /\ IsInsert(h) => Wants(s, d, h.what.adf)
    BY <1>2, <1>3, TailOK
  <1>8. h = s[1]
    BY <1>2, <1>3, TailOf
  <1>9. CASE h.do = "put"
    <2>1. PICK r : r = Append(q, h.what)
      OBVIOUS
    <2>2. /\ QueuedOK(r, t)
          /\ NoInsert(r) => NoInsert(q) /\ ~IsInsert(h)
          /\ CommitComes(q, s) => CommitComes(r, t)
      BY <1>2, <1>3, <1>7, <1>9, <2>1, QueuePut
    <2>3. NoPut(t) => LastQueued(r, t, e)
      BY <1>2, <1>3, <1>6, <1>7, <1>9, <2>1, LastQueuedPut
    <2>4. NoPut(t) /\ NoInsert(r) => \A v \in Floppy : OnWay(v)' => Wants(t, e, v)
      BY <1>2, <1>5, <1>6, <1>7, <2>2
    <2>5. r = Queue' /\ t = todo'[p] /\ e = adf'
      BY <1>4, <1>9, <2>1
    <2>6. current' # Nothing /\ cpc' # "write" => CommitComes(r, t)
      BY <1>2, <1>4, <2>2
    <2>7. LastPut(t, adf') /\ (NoPut(t) => LastQueued(r, t, adf'))
      BY <1>7, <2>3, <2>5
    <2>8. NoPut(t) /\ NoInsert(r) => \A v \in Floppy : OnWay(v)' => Wants(t, adf', v)
      BY <2>4, <2>5
    <2> QED  BY <1>7, <2>2, <2>5, <2>6, <2>7, <2>8, SyncAfter
  <1>10. CASE h.do # "put"
    <2>1. ~IsInsert(h) /\ s[1] # Put(Commit)
      BY <1>8, <1>10 DEF IsInsert, Put
    <2>2. QueuedOK(q, t)
      BY <1>2, <2>1 DEF QueuedOK
    <2>3. current' # Nothing /\ cpc' # "write" => CommitComes(q, t)
      BY <1>2, <1>4, <2>1 DEF CommitComes
    <2>4. NoPut(t) => LastQueued(q, t, e)
      BY <1>2, <1>6, <1>7, <2>1 DEF LastQueued
    <2>5. NoPut(t) /\ NoInsert(q) => \A v \in Floppy : OnWay(v)' => Wants(t, e, v)
      BY <1>2, <1>5, <1>6, <1>7, <2>1
    <2>6. q = Queue' /\ t = todo'[p] /\ e = adf'
      BY <1>4, <1>10
    <2>7. LastPut(t, adf') /\ (NoPut(t) => LastQueued(q, t, adf'))
      BY <1>7, <2>4, <2>6
    <2>8. NoPut(t) /\ NoInsert(q) => \A v \in Floppy : OnWay(v)' => Wants(t, adf', v)
      BY <2>5, <2>6
    <2> QED  BY <1>7, <2>2, <2>3, <2>6, <2>7, <2>8, SyncAfter
  <1> QED  BY <1>9, <1>10

(* The commander has taken the first command off the queue and done it: an *)
(* insertion is in its hands; a commit or a sleep has changed nothing.     *)
LEMMA SyncTaken ==
  ASSUME TypeOK, NEW p \in Callers, SyncOK(p), ViewsOK', FileOK', UNCHANGED <<todo, adf>>,
         Queue # <<>>, Queue' = Tail(Queue), cpc # "write",
         UNCHANGED <<ini, missed, epc, config, emu, drive>>,
         \/ Queue[1].cmd = "insert" /\ current' = Queue[1].adf /\ current' # Nothing
         \/ Queue[1].cmd # "insert" /\ UNCHANGED current
              /\ (current' # Nothing => cpc' = "write")
  PROVE  SyncOK(p)'
  <1>1. PICK q, s, d : q = Queue /\ s = todo[p] /\ d = adf
    OBVIOUS
  <1>2. /\ q \in Seq(Commands) /\ s \in Seq(Steps)
        /\ SetsOK(s) /\ PutsOK(s) /\ LastPut(s, d) /\ QueuedOK(q, s)
        /\ NoPut(s) => LastQueued(q, s, d)
        /\ NoPut(s) /\ NoInsert(q) => \A v \in Floppy : OnWay(v) => Wants(s, d, v)
    BY <1>1, SyncParts
  <1>3. PICK r, c : r = Tail(q) /\ c = q[1]
    OBVIOUS
  <1>4. /\ r = Queue' /\ q # <<>> /\ s = todo'[p] /\ d = adf'
        /\ \/ c.cmd = "insert" /\ current' = c.adf /\ current' # Nothing
           \/ c.cmd # "insert" /\ UNCHANGED current /\ (current' # Nothing => cpc' = "write")
    BY <1>1, <1>3
  <1>5. /\ QueuedOK(r, s)
        /\ c.cmd = "insert" => CommitComes(r, s)
        /\ NoInsert(r) /\ c.cmd # "insert" => NoInsert(q)
        /\ LastQueued(q, s, d) => /\ LastQueued(r, s, d)
                                  /\ NoInsert(r) /\ c.cmd = "insert" => Wants(s, d, c.adf)
    BY <1>2, <1>3, <1>4, QueueTaken
  <1>6. current' # Nothing /\ cpc' # "write" => CommitComes(r, s)
    BY <1>4, <1>5
  <1>7. ASSUME NoPut(s), NoInsert(r), NEW v \in Floppy, OnWay(v)'  PROVE Wants(s, d, v)
    <2>1. CASE c.cmd = "insert"
      <3>1. v = c.adf
        BY <1>4, <1>7, <2>1 DEF OnWay
      <3> QED  BY <1>2, <1>5, <1>7, <2>1, <3>1
    <2>2. CASE c.cmd # "insert"
      <3>1. OnWay(v)
        BY <1>4, <1>7, <2>2 DEF OnWay
      <3> QED  BY <1>2, <1>5, <1>7, <2>2, <3>1
    <2> QED  BY <2>1, <2>2
  <1>8. LastPut(s, adf') /\ (NoPut(s) => LastQueued(r, s, adf'))
    BY <1>2, <1>4, <1>5
  <1>9. NoPut(s) /\ NoInsert(r) => \A v \in Floppy : OnWay(v)' => Wants(s, adf', v)
    BY <1>4, <1>7
  <1> QED  BY <1>2, <1>4, <1>5, <1>6, <1>8, <1>9, SyncAfter
-----------------------------------------------------------------------------
(* The actions, for p alone.                                               *)
LEMMA RacesGrow == ASSUME TypeOK, [Next]_vars, races' = 0 PROVE races = 0
  <1> USE DEF callVars, workVars, emuVars, callSide
  <1>1. ASSUME NEW o, Overlap(o) PROVE races = 0
    BY <1>1 DEF Overlap, TypeOK
  <1>2. ASSUME NEW p \in Callers, CallStep(p) PROVE races = 0
    <2>1. CASE LoadAppend(p)
      BY <1>1, <2>1 DEF LoadAppend
    <2>2. CASE SetSlot(p) \/ PutCommand(p) \/ LoadExecute(p) \/ StoreExecute(p)
      BY <2>2 DEF SetSlot, PutCommand, LoadExecute, StoreExecute
    <2> QED  BY <1>2, <2>1, <2>2 DEF CallStep
  <1>3. ASSUME NEW p \in Callers, NEW s, Call(p, s) PROVE races = 0
    BY <1>3 DEF Call
  <1>4. CASE Commander
    <2>1. CASE LoadDelete
      BY <1>1, <2>1 DEF LoadDelete
    <2>2. CASE LoadLoops \/ StoreLoops \/ TakeCommand \/ StoreDelete
      BY <2>2 DEF LoadLoops, StoreLoops, TakeCommand, StoreDelete
    <2>3. CASE AddCommand \/ executeLocalCommand \/ CommandsDone
      BY <2>3 DEF AddCommand, executeLocalCommand, CommandsDone
    <2>4. CASE writeTmpIni \/ sendUSR1Signal \/ blockTillTmpIniExists
      BY <2>4 DEF writeTmpIni, sendUSR1Signal, blockTillTmpIniExists
    <2> QED  BY <1>4, <2>1, <2>2, <2>3, <2>4 DEF Commander
  <1>5. CASE Runner \/ Emulator \/ HardReset \/ HDOperation \/ UNCHANGED vars
    BY <1>5 DEF Runner, getEmulatorProcessedConfig, Start, StartFails, SetProcess, Wait, Emulator,
           InstallHandler,
                RemoveTmpIni, SIGUSR1_handler, HardReset, HDOperation, vars
  <1> QED  BY <1>2, <1>3, <1>4, <1>5 DEF Next, AttachAdf, DetachAdf

LEMMA CallKeepsSync ==
  ASSUME TypeOK, NEW p \in Callers, Callers = {p}, SyncOK(p),
         (\E a \in Adfs : AttachAdf(p, a)) \/ DetachAdf(p)
  PROVE  SyncOK(p)'
  <1> USE DEF workVars, emuVars
  <1>1. PICK s : /\ Call(p, s) /\ s \in Seq(Steps) /\ SetsOK(s) /\ PutsOK(s)
                 /\ ~NoPut(s) /\ \A d : LastPut(s, d)
    <2>1. CASE DetachAdf(p)
      <3>1. PICK s : s = PutInsert(NoAdf) \o <<Execute, SetAdf(NoAdf)>>
        OBVIOUS
      <3>2. s \in Seq(Steps) /\ SetsOK(s) /\ PutsOK(s) /\ ~NoPut(s) /\ \A d : LastPut(s, d)
        BY <3>1, DetachSteps
      <3>3. Call(p, s)
        BY <2>1, <3>1 DEF DetachAdf
      <3> QED  BY <3>2, <3>3
    <2>2. ASSUME NEW a \in Adfs, AttachAdf(p, a)
          PROVE  \E s : /\ Call(p, s) /\ s \in Seq(Steps) /\ SetsOK(s) /\ PutsOK(s)
                        /\ ~NoPut(s) /\ \A d : LastPut(s, d)
      <3>1. PICK first : first = IF adf # NoAdf THEN PutInsert(NoAdf) ELSE <<>>
        OBVIOUS
      <3>2. PICK s : s = first \o <<SetAdf(a)>> \o PutInsert(a) \o <<Execute>>
        OBVIOUS
      <3>3. first \in {<<>>, PutInsert(NoAdf)} /\ a \in Floppy
        BY <3>1 DEF Floppy
      <3>4. s \in Seq(Steps) /\ SetsOK(s) /\ PutsOK(s) /\ ~NoPut(s) /\ \A d : LastPut(s, d)
        BY <3>2, <3>3, AttachSteps
      <3>5. Call(p, s)
        BY <2>2, <3>1, <3>2 DEF AttachAdf
      <3> QED  BY <3>4, <3>5
    <2> QED  BY <2>1, <2>2
  <1>2. /\ todo[p] = <<>> /\ todo' = [todo EXCEPT ![p] = s]
        /\ UNCHANGED <<adf, commands, loaded, cview, cpc, wview, icommand, current, ini, missed, emu>>
    BY <1>1 DEF Call
  <1>3. todo'[p] = s /\ ~loaded[p]
    BY <1>2 DEF TypeOK, Doing
  <1>4. ViewsOK'
    BY <1>2, <1>3 DEF SyncOK, ViewsOK, Appending
  <1>5. FileOK'
    BY <1>2 DEF SyncOK, FileOK
  <1>6. Queue' = Queue
    BY <1>2 DEF Queue
  <1> QED  BY <1>1, <1>2, <1>3, <1>4, <1>5, <1>6, SyncCall

LEMMA CallStepKeepsSync ==
  ASSUME TypeOK, NEW p \in Callers, Callers = {p}, SyncOK(p), CallStep(p), races = 0, races' = 0
  PROVE  SyncOK(p)'
  <1> USE DEF workVars, emuVars
  <1>1. CASE LoadAppend(p)
    <2>1. /\ loaded' = [loaded EXCEPT ![p] = TRUE] /\ cview' = [cview EXCEPT ![p] = commands]
          /\ Overlap(cpc = "delete" \/ \E q \in Callers : Appending(q))
          /\ UNCHANGED <<adf, todo, commands, cpc, wview, icommand, current, ini, missed, emu, epc,
                         config, drive>>
      BY <1>1 DEF LoadAppend
    <2>2. cpc # "delete"
      BY <2>1 DEF Overlap
    <2>3. ViewsOK'
      BY <2>1, <2>2 DEF SyncOK, ViewsOK, TypeOK
    <2>4. FileOK'
      BY <2>1 DEF SyncOK, FileOK
    <2>5. Queue' = Queue
      BY <2>1 DEF Queue
    <2>6. \A v \in Floppy : OnWay(v)' => OnWay(v)
      BY <2>1 DEF OnWay
    <2> QED  BY <2>1, <2>3, <2>4, <2>5, <2>6, SyncSame
  <1>2. CASE LoadExecute(p)
    <2>1. /\ Doing(p, "execute")
          /\ UNCHANGED <<adf, todo, commands, cview, cpc, wview, icommand, current, ini, missed, emu, epc,
                         config, drive>>
      BY <1>2 DEF LoadExecute
    <2>2. ~Appending(p) /\ ~Appending(p)'
      BY <2>1 DEF Appending, Doing
    <2>3. ViewsOK'
      BY <2>1, <2>2 DEF SyncOK, ViewsOK
    <2>4. FileOK'
      BY <2>1 DEF SyncOK, FileOK
    <2>5. Queue' = Queue
      BY <2>1 DEF Queue
    <2>6. \A v \in Floppy : OnWay(v)' => OnWay(v)
      BY <2>1 DEF OnWay
    <2> QED  BY <2>1, <2>3, <2>4, <2>5, <2>6, SyncSame
  <1>3. CASE SetSlot(p) \/ StoreExecute(p)
    <2>1. /\ todo[p] # <<>> /\ StepDone(p) /\ Head(todo[p]).do # "put"
          /\ adf' = IF Head(todo[p]).do = "set" THEN Head(todo[p]).what.adf ELSE adf
          /\ UNCHANGED <<commands, cview, cpc, wview, icommand, current, ini, missed, emu, epc,
                         config, drive>>
      BY <1>3 DEF SetSlot, StoreExecute, Doing
    <2>2. ~loaded'[p]
      BY <1>3, <2>1 DEF SetSlot, StoreExecute, TypeOK, Doing
    <2>3. ViewsOK'
      BY <2>1, <2>2 DEF SyncOK, ViewsOK, Appending
    <2>4. FileOK'
      BY <2>1 DEF SyncOK, FileOK
    <2>5. Queue' = Queue
      BY <2>1 DEF Queue
    <2> QED  BY <2>1, <2>3, <2>4, <2>5, SyncStep DEF Slot
  <1>4. CASE PutCommand(p)
    <2>1. /\ Appending(p) /\ todo[p] # <<>> /\ Head(todo[p]).do = "put" /\ StepDone(p)
          /\ commands' = Append(cview[p], Head(todo[p]).what)
          /\ loaded' = [loaded EXCEPT ![p] = FALSE]
          /\ UNCHANGED <<adf, cpc, wview, icommand, current, ini, missed, emu, epc, config, drive>>
      BY <1>4 DEF PutCommand, Appending, Doing
    <2>2. cview[p] = commands /\ cpc # "delete"
      BY <2>1 DEF SyncOK, ViewsOK
    <2>3. PICK c, q : c = Head(todo[p]).what /\ q = commands
      OBVIOUS
    <2>4. c \in Commands /\ q \in Seq(Commands) /\ icommand \in Commands
      BY <2>1, <2>3, NowFacts, CommandFacts DEF TypeOK
    <2>5. commands' = Append(q, c)
      BY <2>1, <2>2, <2>3
    <2>6. /\ Append(q, c) # <<>> /\ (q # <<>> => Head(Append(q, c)) = Head(q))
      BY <2>4, AppendProperties, HeadTailProperties, EmptySeq, LenProperties
    <2>7. ~loaded'[p]
      BY <2>1 DEF TypeOK
    <2>8. ViewsOK'
      BY <2>1, <2>2, <2>3, <2>5, <2>6, <2>7 DEF SyncOK, ViewsOK, Appending
    <2>9. FileOK'
      BY <2>1 DEF SyncOK, FileOK
    <2>10. Queue' = Append(Queue, c)
      <3>1. <<icommand>> \o Append(q, c) = Append(<<icommand>> \o q, c)
        BY <2>4
      <3> QED  BY <2>1, <2>3, <2>5, <3>1 DEF Queue
    <2>11. adf' = Slot(todo[p], adf)
      BY <2>1 DEF Slot
    <2> QED  BY <2>1, <2>3, <2>8, <2>9, <2>10, <2>11, SyncStep
  <1> QED  BY <1>1, <1>2, <1>3, <1>4 DEF CallStep

(* The commander: a command taken off the queue is still to be done.       *)
LEMMA CommanderKeepsSync ==
  ASSUME TInv, NEW p \in Callers, Callers = {p}, SyncOK(p), Commander, races = 0, races' = 0
  PROVE  SyncOK(p)'
  <1> USE DEF workVars, emuVars, callVars, callSide, CommanderGoto
  <1>0. TypeOK /\ QueueOK /\ ViewsOK /\ FileOK
    BY DEF TInv, SyncOK
  <1>1. /\ UNCHANGED <<adf, todo, loaded>>
        /\ Appending(p)' <=> Appending(p)
    BY DEF Commander, LoadLoops, StoreLoops, TakeCommand, LoadDelete, StoreDelete, AddCommand,
           executeLocalCommand, CommandsDone, writeTmpIni, sendUSR1Signal, blockTillTmpIniExists,
           Appending, Doing
  <1>2. CASE LoadLoops \/ StoreLoops \/ CommandsDone \/ blockTillTmpIniExists
    <2>1. /\ UNCHANGED <<commands, cview, wview, icommand, current, ini, missed, emu, epc, config, drive>>
          /\ cpc \in {"idle", "loops", "execute", "wait"} /\ cpc' \in {"loops", "execute", "idle", "write"}
          /\ cpc' = "write" => current # Nothing
          /\ cpc = "wait" => ini = Nothing
      BY <1>2 DEF LoadLoops, StoreLoops, CommandsDone, blockTillTmpIniExists, SendReturns
    <2>2. ViewsOK'
      BY <1>0, <1>1, <2>1 DEF ViewsOK
    <2>3. FileOK'
      BY <1>0, <2>1 DEF FileOK
    <2>4. Queue' = Queue
      BY <2>1 DEF Queue
    <2>5. \A v \in Floppy : OnWay(v)' => OnWay(v)
      BY <2>1 DEF OnWay
    <2> QED  BY <1>0, <1>1, <2>1, <2>2, <2>3, <2>4, <2>5, SyncSame
  <1>3. CASE TakeCommand \/ LoadDelete
    <2>1. /\ UNCHANGED <<commands, cview, current, ini, missed, emu, epc, config, drive>>
          /\ cpc \in {"execute", "take"}
          /\ \/ cpc' = "take" /\ commands # <<>> /\ icommand' = Head(commands)
             \/ cpc = "take" /\ cpc' = "delete" /\ icommand' = icommand /\ wview' = commands /\ ~Appending(p)
      BY <1>3 DEF TakeCommand, LoadDelete, Overlap
    <2>2. ViewsOK'
      BY <1>0, <1>1, <2>1 DEF ViewsOK
    <2>3. FileOK'
      BY <1>0, <2>1 DEF FileOK
    <2>4. Queue' = Queue
      BY <2>1 DEF Queue
    <2>5. \A v \in Floppy : OnWay(v)' => OnWay(v)
      BY <2>1 DEF OnWay
    <2> QED  BY <1>0, <1>1, <2>1, <2>2, <2>3, <2>4, <2>5, SyncSame
  <1>4. CASE StoreDelete
    <2>1. /\ UNCHANGED <<icommand, current, ini, missed, emu, epc, config, drive>>
          /\ cpc = "delete" /\ cpc' = "command" /\ commands' = Tail(wview)
      BY <1>4 DEF StoreDelete
    <2>2. ~Appending(p)
      BY <1>0, <2>1 DEF ViewsOK
    <2>3. ViewsOK'
      BY <1>0, <1>1, <2>1, <2>2 DEF ViewsOK
    <2>4. FileOK'
      BY <1>0, <2>1 DEF FileOK
    <2>5. Queue' = Queue
      <3>1. commands # <<>> /\ icommand = Head(commands) /\ wview = commands /\ commands \in Seq(Commands)
        BY <1>0, <2>1 DEF ViewsOK, TypeOK
      <3>2. <<Head(commands)>> \o Tail(commands) = commands
        BY <3>1, HeadTailProperties, EmptySeq
      <3> QED  BY <2>1, <3>1, <3>2 DEF Queue
    <2>6. \A v \in Floppy : OnWay(v)' => OnWay(v)
      BY <2>1 DEF OnWay
    <2> QED  BY <1>0, <1>1, <2>1, <2>3, <2>4, <2>5, <2>6, SyncSame
  <1>5. ASSUME cpc = "command"
        PROVE  /\ Queue # <<>> /\ Queue[1] = icommand /\ Tail(Queue) = commands
               /\ current # Nothing => icommand.cmd = "commit"
    <2>1. PICK c, q : c = icommand /\ q = commands
      OBVIOUS
    <2>2. c \in Commands /\ q \in Seq(Commands)
      BY <1>0, <2>1 DEF TypeOK
    <2>3. <<c>> \o q # <<>> /\ (<<c>> \o q)[1] = c /\ Tail(<<c>> \o q) = q
      BY <2>2
    <2>4. Queue # <<>> /\ Queue[1] = icommand /\ Tail(Queue) = commands
      BY <1>5, <2>1, <2>3 DEF Queue
    <2> QED  BY <1>5, <2>4 DEF SyncOK, CurrentOK, CommitComes
  <1>6. CASE AddCommand
    <2>1. /\ UNCHANGED <<commands, cview, wview, ini, missed, emu, epc, config, drive>>
          /\ cpc = "command" /\ cpc' = "execute" /\ icommand.cmd = "insert" /\ current' = icommand.adf
      BY <1>6 DEF AddCommand
    <2>2. current' # Nothing
      BY <1>0, <2>1, CommandFacts, ConstantsAssumption DEF TypeOK, Floppy
    <2>3. ViewsOK'
      BY <1>0, <1>1, <2>1 DEF ViewsOK
    <2>4. FileOK'
      BY <1>0, <2>1 DEF FileOK
    <2>5. Queue' = Tail(Queue)
      BY <1>5, <2>1 DEF Queue
    <2> QED  BY <1>0, <1>1, <1>5, <2>1, <2>2, <2>3, <2>4, <2>5, SyncTaken
  <1>7. CASE executeLocalCommand
    <2>1. /\ UNCHANGED <<commands, cview, wview, ini, missed, emu, epc, config, drive>>
          /\ cpc = "command" /\ icommand.cmd # "insert"
          /\ \/ icommand.cmd = "commit" /\ current' = current
                 /\ cpc' = IF current = Nothing THEN "execute" ELSE "write"
             \/ icommand.cmd = "sleep" /\ cpc' = "execute" /\ current' = Nothing
      BY <1>7 DEF executeLocalCommand
    <2>2. current' = current /\ cpc' \in {"execute", "write"} /\ (cpc' = "write" <=> current # Nothing)
      BY <1>5, <2>1
    <2>3. ViewsOK'
      BY <1>0, <1>1, <2>1, <2>2 DEF ViewsOK
    <2>4. FileOK'
      BY <1>0, <2>1, <2>2 DEF FileOK
    <2>5. Queue' = Tail(Queue)
      BY <1>5, <2>1, <2>2 DEF Queue
    <2> QED  BY <1>0, <1>1, <1>5, <2>1, <2>2, <2>3, <2>4, <2>5, SyncTaken
  <1>8. CASE writeTmpIni
    <2>1. /\ UNCHANGED <<commands, cview, wview, icommand, emu, epc, config, drive>>
          /\ cpc = "write" /\ cpc' \in {"execute", "idle", "signal"} /\ current' = Nothing
          /\ \/ cpc' = "signal" /\ ini' = current /\ missed' = missed
             \/ ini' \in {Nothing, current} /\ missed' = TRUE
      BY <1>8 DEF writeTmpIni, SendReturns
    <2>2. current # Nothing
      BY <1>0, <2>1 DEF FileOK
    <2>3. ViewsOK'
      BY <1>0, <1>1, <2>1 DEF ViewsOK
    <2>4. FileOK'
      BY <1>0, <2>1 DEF FileOK
    <2>5. Queue' = Queue
      BY <2>1 DEF Queue
    <2>6. \A v \in Floppy : OnWay(v)' => OnWay(v)
      BY <2>1, <2>2, ConstantsAssumption DEF OnWay, Floppy
    <2> QED  BY <1>0, <1>1, <2>1, <2>3, <2>4, <2>5, <2>6, SyncSame
  <1>9. CASE sendUSR1Signal
    <2>1. /\ UNCHANGED <<commands, cview, wview, icommand, current, ini, epc, config, drive>>
          /\ cpc = "signal" /\ cpc' \in {"execute", "idle", "wait"}
          /\ cpc' # "wait" => missed'
          /\ missed => missed'
          /\ emu' \in {emu, "dead"} /\ missed' \in BOOLEAN
      BY <1>0, <1>9 DEF sendUSR1Signal, SendReturns, TypeOK
    <2>2. ViewsOK'
      BY <1>0, <1>1, <2>1 DEF ViewsOK
    <2>3. FileOK'
      BY <1>0, <2>1 DEF FileOK
    <2>4. Queue' = Queue
      BY <2>1 DEF Queue
    <2>5. \A v \in Floppy : OnWay(v)' => OnWay(v)
      BY <2>1 DEF OnWay
    <2>6. current' # Nothing /\ cpc' # "write" => current # Nothing /\ cpc # "write"
      BY <2>1
    <2> QED  BY <1>0, <1>1, <2>2, <2>3, <2>4, <2>5, <2>6, SyncSame
  <1> QED  BY <1>2, <1>3, <1>4, <1>6, <1>7, <1>8, <1>9 DEF Commander

(* Who runs the emulator reads the slot; the emulator removes the file.    *)
LEMMA OthersKeepSync ==
  ASSUME TypeOK, NEW p \in Callers, Callers = {p}, SyncOK(p),
         Runner \/ Emulator \/ HardReset \/ HDOperation \/ UNCHANGED vars
  PROVE  SyncOK(p)'
  <1> USE DEF workVars, emuVars, callVars, callSide, RunnerGoto
  <1>0. ViewsOK /\ FileOK
    BY DEF SyncOK
  <1>1. UNCHANGED <<adf, todo, loaded, cview, commands, cpc, wview, icommand, current>>
    BY DEF Runner, getEmulatorProcessedConfig, Start, StartFails, SetProcess, Wait, Emulator,
           InstallHandler,
           RemoveTmpIni, SIGUSR1_handler, HardReset, HDOperation, vars
  <1>2. ViewsOK'
    BY <1>0, <1>1 DEF ViewsOK, Appending, Doing
  <1>3. Queue' = Queue
    BY <1>1 DEF Queue
  <1>4. ASSUME FileOK', \A v \in Floppy : OnWay(v)' => OnWay(v)
        PROVE  SyncOK(p)'
    BY <1>1, <1>2, <1>3, <1>4, SyncSame
  <1>5. CASE getEmulatorProcessedConfig
    <2>1. /\ UNCHANGED <<ini, emu, drive>> /\ epc = "sleep" /\ epc' = "start" /\ config' = adf
          /\ missed' = \E i \in 1..Len(todo[p]) : todo[p][i] = SetAdf(NoAdf)
      BY <1>5 DEF getEmulatorProcessedConfig
    <2>2. emu = "none"
      BY <2>1 DEF TypeOK
    <2>3. FileOK'
      BY <1>0, <1>1, <2>1, <2>2 DEF FileOK
    <2>4. PICK q, s, d : q = Queue /\ s = todo[p] /\ d = adf
      OBVIOUS
    <2>5. /\ s \in Seq(Steps)
          /\ SetsOK(s) /\ PutsOK(s) /\ LastPut(s, d) /\ QueuedOK(q, s)
          /\ current # Nothing /\ cpc # "write" => CommitComes(q, s)
          /\ NoPut(s) => LastQueued(q, s, d)
          /\ NoPut(s) /\ NoInsert(q) => \A v \in Floppy : OnWay(v) => Wants(s, d, v)
      BY <2>4, SyncParts
    <2>6. ASSUME NoPut(s), ~missed' PROVE Wants(s, d, d)
      <3>1. ASSUME NEW i \in 1..Len(s), s[i].do = "set" PROVE FALSE
        <4>1. s[i] \in Steps
          BY <2>5, StepOf
        <4>2. s[i] = SetAdf(s[i].what.adf)
          BY <3>1, <4>1 DEF Steps, Put, SetAdf, Execute, Insert
        <4>3. s[i].what.adf # NoAdf
          BY <2>1, <2>4, <2>6, <4>2
        <4>4. i < Len(s) /\ IsInsert(s[i + 1])
          BY <2>5, <3>1, <4>3 DEF SetsOK
        <4>5. i + 1 \in 1..Len(s)
          BY <2>5, <4>4, LenProperties
        <4> QED  BY <2>6, <4>4, <4>5 DEF NoPut
      <3> QED  BY <3>1 DEF Wants
    <2>7. ASSUME NoPut(s), NoInsert(q), NEW v \in Floppy, OnWay(v)' PROVE Wants(s, d, v)
      <3>1. CASE OnWay(v)
        BY <2>5, <2>7, <3>1
      <3>2. CASE ~OnWay(v)
        <4>1. ~missed' /\ v = adf
          BY <1>1, <2>1, <2>2, <2>7, <3>2 DEF OnWay
        <4> QED  BY <2>4, <2>6, <2>7, <4>1
      <3> QED  BY <3>1, <3>2
    <2>8. q = Queue' /\ s = todo'[p] /\ d = adf' /\ current' = current /\ cpc' = cpc
      BY <1>1, <1>3, <2>4
    <2>9. /\ LastPut(s, adf') /\ (NoPut(s) => LastQueued(q, s, adf'))
          /\ NoPut(s) /\ NoInsert(q) => \A v \in Floppy : OnWay(v)' => Wants(s, adf', v)
      BY <2>5, <2>7, <2>8
    <2> QED  BY <1>2, <2>3, <2>5, <2>8, <2>9, SyncAfter
  <1>6. CASE Start
    <2>1. /\ UNCHANGED <<ini, missed>> /\ epc = "start" /\ epc' = "started" /\ emu' = "boot" /\ drive' = config
      BY <1>6 DEF Start
    <2>2. FileOK'
      BY <1>0, <1>1, <2>1 DEF FileOK
    <2>3. \A v \in Floppy : OnWay(v)' => OnWay(v)
      BY <1>1, <2>1 DEF OnWay
    <2> QED  BY <1>4, <2>2, <2>3
  <1>7. CASE StartFails \/ SetProcess \/ Wait \/ InstallHandler \/ HardReset \/ HDOperation
             \/ UNCHANGED vars
    <2>1. /\ UNCHANGED <<ini, missed, drive>>
          /\ epc' = "start" => epc = "start" /\ config' = config
          /\ emu' = "up" => emu = "up"
          /\ emu' \in {"boot", "handler", "up"} => emu \in {"boot", "handler", "up"}
      BY <1>7 DEF StartFails, SetProcess, Wait, InstallHandler, HardReset, HDOperation, vars
    <2>2. FileOK'
      BY <1>0, <1>1, <2>1 DEF FileOK
    <2>3. \A v \in Floppy : OnWay(v)' => OnWay(v)
      BY <1>1, <2>1 DEF OnWay
    <2> QED  BY <1>4, <2>2, <2>3
  <1>8. CASE RemoveTmpIni
    <2>1. /\ UNCHANGED <<epc, config, drive>> /\ emu = "handler" /\ emu' = "up" /\ ini' = Nothing
          /\ missed' = (missed \/ ini # Nothing)
      BY <1>8 DEF RemoveTmpIni
    <2>2. FileOK'
      BY <1>0, <1>1, <2>1 DEF FileOK
    <2>3. \A v \in Floppy : OnWay(v)' => OnWay(v)
      BY <1>1, <2>1, ConstantsAssumption DEF OnWay, Floppy
    <2> QED  BY <1>4, <2>2, <2>3
  <1>9. CASE SIGUSR1_handler
    <2>1. /\ UNCHANGED <<epc, config, emu, missed>> /\ emu \in {"handler", "up"} /\ ini' = Nothing
          /\ drive' = IF ini = Nothing THEN drive ELSE ini
      BY <1>9 DEF SIGUSR1_handler
    <2>2. epc # "start"
      BY <2>1 DEF TypeOK
    <2>3. FileOK'
      BY <1>0, <1>1, <2>1 DEF FileOK
    <2>4. \A v \in Floppy : OnWay(v)' => OnWay(v)
      BY <1>1, <2>1, <2>2, ConstantsAssumption DEF OnWay, Floppy
    <2> QED  BY <1>4, <2>3, <2>4
  <1> QED  BY <1>5, <1>6, <1>7, <1>8, <1>9 DEF Runner, Emulator

-----------------------------------------------------------------------------
LEMMA InitSync == Init => SyncInv
  <1> SUFFICES ASSUME Init, NEW p \in Callers PROVE SyncOK(p)
    BY DEF SyncInv
  <1>1. /\ todo[p] = <<>> /\ \A q \in Callers : todo[q] = <<>>
        /\ commands = <<>> /\ cpc = "idle" /\ current = Nothing /\ ini = Nothing
        /\ epc = "sleep" /\ emu = "none"
    BY DEF Init
  <1>2. Queue = <<>>
    BY <1>1 DEF Queue
  <1>3. ViewsOK /\ FileOK
    BY <1>1 DEF ViewsOK, FileOK, Appending, Doing
  <1>4. CallOK(todo[p]) /\ QueuedOK(Queue, todo[p]) /\ CurrentOK(Queue, todo[p]) /\ QueueLast(Queue, todo[p])
    BY <1>1, <1>2 DEF CallOK, SetsOK, PutsOK, LastPut, QueuedOK, CurrentOK, QueueLast, LastQueued
  <1>5. \A v \in Floppy : ~OnWay(v)
    BY <1>1, ConstantsAssumption DEF OnWay, Floppy
  <1> QED  BY <1>3, <1>4, <1>5 DEF SyncOK, WayLast

LEMMA NextSync == (\E p : Callers = {p}) /\ TInv /\ SyncInv /\ [Next]_vars => SyncInv'
  <1> SUFFICES ASSUME NEW p, Callers = {p}, TInv, SyncInv, [Next]_vars, races' = 0
               PROVE  SyncOK(p)'
    BY DEF SyncInv
  <1>1. TypeOK /\ races = 0 /\ p \in Callers
    BY RacesGrow DEF TInv
  <1>2. SyncOK(p)
    BY <1>1 DEF SyncInv
  <1> QED  BY <1>1, <1>2, CallKeepsSync, CallStepKeepsSync, CommanderKeepsSync, OthersKeepSync DEF Next

(* At rest nothing is on its way: what the emulator has in the drive is    *)
(* what the slot says.                                                     *)
LEMMA SyncAtRest == (\E p : Callers = {p}) /\ TypeOK /\ SyncInv => InSync
  <1> SUFFICES ASSUME NEW p, Callers = {p}, TypeOK, SyncInv, AtRest, races = 0, ~missed
               PROVE  drive = adf
    BY DEF InSync
  <1>1. SyncOK(p) /\ p \in Callers
    BY DEF SyncInv
  <1>2. todo[p] = <<>> /\ Queue = <<>> /\ cpc = "idle" /\ emu = "up"
    BY DEF AtRest, Queue
  <1>3. current = Nothing
    BY <1>1, <1>2 DEF SyncOK, CurrentOK, CommitComes
  <1>4. ini = Nothing
    BY <1>1, <1>2 DEF SyncOK, FileOK
  <1>5. NoPut(todo[p]) /\ NoInsert(Queue)
    BY <1>2 DEF NoPut, NoInsert
  <1>6. drive \in Floppy /\ OnWay(drive)
    BY <1>2, <1>3, <1>4 DEF OnWay, TypeOK
  <1>7. Wants(todo[p], adf, drive)
    BY <1>1, <1>5, <1>6 DEF SyncOK, WayLast
  <1> QED  BY <1>2, <1>7 DEF Wants

(* With one goroutine that attaches and detaches at a time, and where no   *)
(* unlocked accesses met and no command was lost, an emulator at rest has  *)
(* in the drive what AmiberryEmulator.adfs says (AttachAdf, DetachAdf,     *)
(* AmiberryCommander.loop, the emulator's handler and every restart).      *)
THEOREM DriveFollowsSlot == (\E p : Callers = {p}) => (Spec => []InSync)
  <1> SUFFICES ASSUME \E p : Callers = {p} PROVE Spec => []InSync
    OBVIOUS
  <1>1. Spec => [](WInv /\ TInv /\ SyncInv)
    <2>1. Init => WInv /\ TInv /\ SyncInv
      BY InitWInv, InitTypes, InitSync
    <2>2. WInv /\ TInv /\ SyncInv /\ [Next]_vars => (WInv /\ TInv /\ SyncInv)'
      BY NextWInv, NextTypes, NextSync
    <2> QED  BY <2>1, <2>2, PTL DEF Spec
  <1>2. WInv /\ TInv /\ SyncInv => InSync
    BY SyncAtRest DEF TInv
  <1> QED  BY <1>1, <1>2, PTL
=============================================================================
