------------------------------ MODULE Amiberry ------------------------------
(***************************************************************************)
(* How a drive of the emulator is kept as the program wants it: the        *)
(* goroutines that attach and detach (AmiberryEmulator.AttachAdf and       *)
(* DetachAdf), the goroutine that sends their commands to the emulator     *)
(* (AmiberryCommander), the goroutine that runs the emulator, and the      *)
(* emulator itself with the signal handler of amiberry.amipi400.patch.     *)
(*                                                                         *)
(* commands and executeLoops are shared without a lock: an append, a       *)
(* delete, an increment and a decrement are a load and a store each.       *)
(* One drive stands for all: commands for other drives travel with its own.*)
(* The commands that come with the insertion of a floppy are one command.  *)
(***************************************************************************)
EXTENDS Naturals, Sequences

CONSTANTS
    Callers,        (* goroutines that attach and detach                     *)
    Adfs, NoAdf,    (* pathnames; NoAdf: the drive is empty                  *)
    Nothing,        (* currentCommands is "", or there is no tmp ini file    *)
    MaxCalls, MaxKills, MaxHDOperations, MaxRaces   (* bounds                *)

ASSUME ConstantsAssumption ==
    /\ NoAdf \notin Adfs
    /\ Nothing \notin Adfs \union {NoAdf}
    /\ {MaxCalls, MaxKills, MaxHDOperations, MaxRaces} \subseteq Nat

Floppy == Adfs \union {NoAdf}

(* PutFloppyCO with the commands around it, PutLocalCommitCommand and      *)
(* PutLocalSleepCommand.                                                   *)
Insert(a) == [cmd |-> "insert", adf |-> a]
Commit    == [cmd |-> "commit", adf |-> NoAdf]
Sleep     == [cmd |-> "sleep", adf |-> NoAdf]
Commands  == {Insert(a) : a \in Floppy} \union {Commit, Sleep}

(* What a call still has to do.                                            *)
Put(c)    == [do |-> "put", what |-> c]
SetAdf(a) == [do |-> "set", what |-> Insert(a)]
Execute   == [do |-> "execute", what |-> Commit]
PutInsert(a) == <<Put(Insert(a)), Put(Commit), Put(Sleep)>>

VARIABLES
    adf,            (* AmiberryEmulator.adfs[index]                          *)
    commands, executeLoops,
    todo,           (* per caller: the rest of AttachAdf or DetachAdf        *)
    loaded,         (* per caller: in the middle of an append or ++          *)
    cview, cloops,  (* per caller: the slice or the number it loaded         *)
    cpc,            (* commander: where it is in loop()                      *)
    wview, wloops,  (* commander: the slice or the number it loaded          *)
    icommand,       (* the command in its hands; Commit when there is none   *)
    current,        (* what currentCommands does to the drive                *)
    last,           (* it sends what was left when the queue was empty: it   *)
                    (* then returns to loop()                                *)
    ini,            (* what the tmp ini file does to the drive               *)
    process,        (* AmiberryCommander.process is the emulator's last run  *)
    epc,            (* AmiberryEmulator: where it is in loop()               *)
    rerunEmulator,
    config,         (* floppy of the drive in the processed config           *)
    emu,            (* the emulator: "none", "boot", "handler", "up", "dead" *)
    signal,         (* SIGUSR1 is pending                                    *)
    drive,          (* the floppy the emulator has in the drive              *)
    calls, kills, hdOperations      (* counters                              *)

(* Observation only: how often unlocked accesses to the slice overlapped;  *)
(* a command was lost on its way to a starting or ended emulator, or the   *)
(* configuration was read in the middle of a DetachAdf.                    *)
VARIABLES races, missed

callVars == <<adf, todo, loaded, cview, cloops, calls>>
workVars == <<cpc, wview, wloops, icommand, current, last>>
emuVars  == <<epc, config, emu, signal, drive, kills>>
vars == <<callVars, commands, executeLoops, workVars, ini, process, emuVars,
          rerunEmulator, hdOperations, races, missed>>

Init ==
    /\ adf = NoAdf
    /\ commands = <<>>
    /\ executeLoops = 0
    /\ todo = [p \in Callers |-> <<>>]
    /\ loaded = [p \in Callers |-> FALSE]
    /\ cview = [p \in Callers |-> <<>>]
    /\ cloops = [p \in Callers |-> 0]
    /\ cpc = "idle"
    /\ wview = <<>>
    /\ wloops = 0
    /\ icommand = Commit
    /\ current = Nothing
    /\ last = FALSE
    /\ ini = Nothing
    /\ process = FALSE
    /\ epc = "sleep"
    /\ rerunEmulator = TRUE
    /\ config = NoAdf
    /\ emu = "none"
    /\ signal = FALSE
    /\ drive = NoAdf
    /\ calls = 0 /\ kills = 0 /\ hdOperations = 0
    /\ races = 0 /\ missed = FALSE

-----------------------------------------------------------------------------
(* The callers.                                                            *)

Call(p, steps) ==
    /\ todo[p] = <<>>
    /\ calls < MaxCalls
    /\ calls' = calls + 1
    /\ todo' = [todo EXCEPT ![p] = steps]
    /\ UNCHANGED <<adf, loaded, cview, cloops, commands, executeLoops, workVars, ini, process,
                   emuVars, rerunEmulator, hdOperations, races, missed>>

(* Mutants: the slot is set last, as in DetachAdf; Execute comes first.    *)
AttachAdfSetsLast(p, a) ==
    Call(p, (IF adf # NoAdf THEN PutInsert(NoAdf) ELSE <<>>)
            \o PutInsert(a) \o <<Execute, SetAdf(a)>>)

AttachAdfExecutesFirst(p, a) ==
    Call(p, <<Execute>> \o (IF adf # NoAdf THEN PutInsert(NoAdf) ELSE <<>>)
            \o <<SetAdf(a)>> \o PutInsert(a))

AttachAdf(p, a) ==
    Call(p, (IF adf # NoAdf THEN PutInsert(NoAdf) ELSE <<>>)
            \o <<SetAdf(a)>> \o PutInsert(a) \o <<Execute>>)

DetachAdf(p) ==
    /\ adf # NoAdf
    /\ Call(p, PutInsert(NoAdf) \o <<Execute, SetAdf(NoAdf)>>)

Doing(p, what) == todo[p] # <<>> /\ Head(todo[p]).do = what

StepDone(p) == todo' = [todo EXCEPT ![p] = Tail(@)]

(* ae.adfs[index] = ...                                                    *)
SetSlot(p) ==
    /\ Doing(p, "set")
    /\ adf' = Head(todo[p]).what.adf
    /\ StepDone(p)
    /\ UNCHANGED <<loaded, cview, cloops, calls, commands, executeLoops, workVars, ini, process,
                   emuVars, rerunEmulator, hdOperations, races, missed>>

Appending(p) == Doing(p, "put") /\ loaded[p]

Overlap(o) ==
    /\ o => races < MaxRaces
    /\ races' = IF o THEN races + 1 ELSE races

(* PutCommand: append() loads the slice ...                                *)
LoadAppend(p) ==
    /\ Doing(p, "put")
    /\ ~loaded[p]
    /\ loaded' = [loaded EXCEPT ![p] = TRUE]
    /\ cview' = [cview EXCEPT ![p] = commands]
    /\ Overlap(cpc = "delete" \/ \E q \in Callers : Appending(q))
    /\ UNCHANGED <<adf, todo, cloops, calls, commands, executeLoops, workVars, ini, process,
                   emuVars, rerunEmulator, hdOperations, missed>>

(* ... and stores it with the command behind.                              *)
PutCommand(p) ==
    /\ Appending(p)
    /\ commands' = Append(cview[p], Head(todo[p]).what)
    /\ loaded' = [loaded EXCEPT ![p] = FALSE]
    /\ cview' = [cview EXCEPT ![p] = <<>>]
    /\ StepDone(p)
    /\ UNCHANGED <<adf, cloops, calls, executeLoops, workVars, ini, process, emuVars,
                   rerunEmulator, hdOperations, races, missed>>

(* Execute: executeLoops++.                                                *)
LoadExecute(p) ==
    /\ Doing(p, "execute")
    /\ ~loaded[p]
    /\ loaded' = [loaded EXCEPT ![p] = TRUE]
    /\ cloops' = [cloops EXCEPT ![p] = executeLoops]
    /\ UNCHANGED <<adf, todo, cview, calls, commands, executeLoops, workVars, ini, process,
                   emuVars, rerunEmulator, hdOperations, races, missed>>

StoreExecute(p) ==
    /\ Doing(p, "execute")
    /\ loaded[p]
    /\ executeLoops' = cloops[p] + 1
    /\ loaded' = [loaded EXCEPT ![p] = FALSE]
    /\ cloops' = [cloops EXCEPT ![p] = 0]
    /\ StepDone(p)
    /\ UNCHANGED <<adf, cview, calls, commands, workVars, ini, process, emuVars,
                   rerunEmulator, hdOperations, races, missed>>

-----------------------------------------------------------------------------
(* The commander.                                                          *)

CommanderGoto(from, to) == cpc = from /\ cpc' = to

callSide == <<callVars, commands, executeLoops, races>>

(* loop(): executeLoops > 0; executeLoops-- is a load and a store.         *)
LoadLoops ==
    /\ executeLoops > 0
    /\ CommanderGoto("idle", "loops")
    /\ wloops' = executeLoops
    /\ UNCHANGED <<callSide, wview, icommand, current, last, ini, process, emuVars, rerunEmulator,
                   hdOperations, missed>>

StoreLoops ==
    /\ CommanderGoto("loops", "execute")
    /\ executeLoops' = wloops - 1
    /\ wloops' = 0
    /\ UNCHANGED <<callVars, commands, races, wview, icommand, current, last, ini, process, emuVars,
                   rerunEmulator, hdOperations, missed>>

(* executeCommands: the first command; slices.Delete loads the slice again *)
TakeCommand ==
    /\ commands # <<>>
    /\ CommanderGoto("execute", "take")
    /\ icommand' = Head(commands)
    /\ UNCHANGED <<callSide, wview, wloops, current, last, ini, process, emuVars, rerunEmulator,
                   hdOperations, missed>>

LoadDelete ==
    /\ CommanderGoto("take", "delete")
    /\ wview' = commands
    /\ Overlap(\E p \in Callers : Appending(p))
    /\ UNCHANGED <<callVars, commands, executeLoops, wloops, icommand, current, last, ini, process,
                   emuVars, rerunEmulator, hdOperations, missed>>

Moved(s, n) ==
    [i \in 1..Len(s) |-> IF i < n /\ i < Len(s) THEN s[i + 1] ELSE s[i]]

(* moves its elements in place, which a caller inside append() may see, if *)
(* it still has the same array; and stores it without the first.           *)
StoreDelete ==
    /\ CommanderGoto("delete", "command")
    /\ commands' = Tail(wview)
    /\ wview' = <<>>
    /\ \E moved \in SUBSET {p \in Callers : Appending(p)} :
          cview' = [p \in Callers |-> IF p \in moved THEN Moved(cview[p], Len(wview))
                                                     ELSE cview[p]]
    /\ UNCHANGED <<adf, todo, loaded, cloops, calls, executeLoops, wloops, icommand, current,
                   last, ini, process, emuVars, rerunEmulator, hdOperations, races, missed>>

(* A command is added to currentCommands.  A commit sends them, unless     *)
(* there are none; a sleep forgets them.                                   *)
AddCommand ==
    /\ icommand.cmd = "insert"
    /\ CommanderGoto("command", "execute")
    /\ current' = icommand.adf
    /\ icommand' = Commit
    /\ UNCHANGED <<callSide, wview, wloops, last, ini, process, emuVars, rerunEmulator,
                   hdOperations, missed>>

executeLocalCommand ==
    /\ \/ /\ icommand.cmd = "commit"
          /\ CommanderGoto("command", IF current = Nothing THEN "execute" ELSE "write")
          /\ UNCHANGED current
       \/ /\ icommand.cmd = "sleep"
          /\ CommanderGoto("command", "execute")
          /\ current' = Nothing
    /\ icommand' = Commit
    /\ UNCHANGED <<callSide, wview, wloops, last, ini, process, emuVars, rerunEmulator,
                   hdOperations, missed>>

(* No more commands: what is left is sent too, and executeCommands returns.*)
CommandsDone ==
    /\ commands = <<>>
    /\ CommanderGoto("execute", IF current = Nothing THEN "idle" ELSE "write")
    /\ last' = (current # Nothing)
    /\ UNCHANGED <<callSide, wview, wloops, icommand, current, ini, process, emuVars,
                   rerunEmulator, hdOperations, missed>>

(* sendCommands returns to executeCommands, which goes on, or returns to   *)
(* loop().                                                                 *)
SendReturns(from) ==
    /\ CommanderGoto(from, IF last THEN "idle" ELSE "execute")
    /\ last' = FALSE

(* sendCommands.  currentCommands is cleared whatever becomes of it.       *)
(* writeTmpIni removes the file first; if it fails, a short file may hold  *)
(* the command or not, and nothing is signalled.                           *)
writeTmpIni ==
    /\ current' = Nothing
    /\ \/ /\ CommanderGoto("write", "signal")
          /\ ini' = current
          /\ UNCHANGED <<last, missed>>
       \/ /\ SendReturns("write")
          /\ ini' \in {Nothing, current}
          /\ missed' = TRUE
    /\ UNCHANGED <<callSide, wview, wloops, icommand, process, emuVars, rerunEmulator,
                   hdOperations>>

Reaped == ~process \/ emu = "none"

(* Signal returns an error if Wait has returned for this process; a dead   *)
(* process takes the signal, and one without the handler dies of it.       *)
sendUSR1Signal ==
    /\ IF Reaped THEN SendReturns("signal")
                 ELSE CommanderGoto("signal", "wait") /\ UNCHANGED last
    /\ missed' = (missed \/ Reaped)
    /\ signal' = (signal \/ (~Reaped /\ emu \in {"handler", "up"}))
    /\ emu' = IF ~Reaped /\ emu = "boot" THEN "dead" ELSE emu
    /\ UNCHANGED <<callSide, wview, wloops, icommand, current, ini, process, epc, config,
                   drive, kills, rerunEmulator, hdOperations>>

(* There is no timeout.                                                    *)
blockTillTmpIniExists ==
    /\ ini = Nothing
    /\ SendReturns("wait")
    /\ UNCHANGED <<callSide, wview, wloops, icommand, current, ini, process, emuVars,
                   rerunEmulator, hdOperations, missed>>

-----------------------------------------------------------------------------
(* AmiberryEmulator.loop().                                                *)

RunnerGoto(from, to) == epc = from /\ epc' = to

(* getEmulatorProcessedConfig reads the slots; the Cmd is new: its Process *)
(* is nil, so HardReset cannot kill it.                                    *)
getEmulatorProcessedConfig ==
    /\ rerunEmulator
    /\ RunnerGoto("sleep", "start")
    /\ config' = adf
    /\ missed' = \E p \in Callers : \E i \in 1..Len(todo[p]) : todo[p][i] = SetAdf(NoAdf)
    /\ UNCHANGED <<callSide, workVars, ini, process, emu, signal, drive, kills,
                   rerunEmulator, hdOperations>>

Start ==
    /\ RunnerGoto("start", "started")
    /\ process' = FALSE
    /\ emu' = "boot"
    /\ drive' = config
    /\ config' = NoAdf
    /\ UNCHANGED <<callSide, workVars, ini, signal, kills, rerunEmulator,
                   hdOperations, missed>>

(* Start() fails, which is not looked at: the Cmd has no process, and Wait *)
(* returns at once.                                                        *)
StartFails ==
    /\ kills < MaxKills
    /\ kills' = kills + 1
    /\ RunnerGoto("start", "sleep")
    /\ process' = FALSE
    /\ config' = NoAdf
    /\ UNCHANGED <<callSide, workVars, ini, emu, signal, drive, rerunEmulator, hdOperations,
                   missed>>

SetProcess ==
    /\ RunnerGoto("started", "wait")
    /\ process' = TRUE
    /\ UNCHANGED <<callSide, workVars, ini, config, emu, signal, drive, kills,
                   rerunEmulator, hdOperations, missed>>

(* Mutant: loop() does not wait for the emulator to end.                   *)
NoWait ==
    /\ RunnerGoto("wait", "sleep")
    /\ UNCHANGED <<callSide, workVars, ini, process, config, emu, signal, drive, kills,
                   rerunEmulator, hdOperations, missed>>

Wait ==
    /\ emu = "dead"
    /\ RunnerGoto("wait", "sleep")
    /\ emu' = "none"
    /\ UNCHANGED <<callSide, workVars, ini, process, config, signal, drive, kills,
                   rerunEmulator, hdOperations, missed>>

(* amipi400_handler_init: the handler first, then the file is removed.     *)
InstallHandler ==
    /\ emu = "boot"
    /\ emu' = "handler"
    /\ UNCHANGED <<callSide, workVars, ini, process, epc, config, signal, drive, kills,
                   rerunEmulator, hdOperations, missed>>

(* Mutant: the handler leaves the file of an earlier run.                  *)
RemoveTmpIniNot ==
    /\ emu = "handler"
    /\ emu' = "up"
    /\ UNCHANGED <<callSide, workVars, ini, process, epc, config, signal, drive, kills,
                   rerunEmulator, hdOperations, missed>>

RemoveTmpIni ==
    /\ emu = "handler"
    /\ emu' = "up"
    /\ ini' = Nothing
    /\ missed' = (missed \/ ini # Nothing)
    /\ UNCHANGED <<callSide, workVars, process, epc, config, signal, drive, kills,
                   rerunEmulator, hdOperations>>

(* SIGUSR1_handler executes the file, if it is there, and removes it.      *)
SIGUSR1_handler ==
    /\ signal
    /\ emu \in {"handler", "up"}
    /\ signal' = FALSE
    /\ drive' = IF ini = Nothing THEN drive ELSE ini
    /\ ini' = Nothing
    /\ UNCHANGED <<callSide, workVars, process, epc, config, emu, kills, rerunEmulator,
                   hdOperations, missed>>

(* The emulator quits, or HardReset kills it.                              *)
HardReset ==
    /\ emu \in {"boot", "handler", "up"}
    /\ kills < MaxKills
    /\ kills' = kills + 1
    /\ emu' = "dead"
    /\ signal' = FALSE
    /\ UNCHANGED <<callSide, workVars, ini, process, epc, config, drive, rerunEmulator,
                   hdOperations, missed>>

(* onHDOperationStart and onHDOperationDone.                               *)
HDOperation ==
    /\ rerunEmulator => hdOperations < MaxHDOperations
    /\ rerunEmulator' = ~rerunEmulator
    /\ hdOperations' = IF rerunEmulator THEN hdOperations + 1 ELSE hdOperations
    /\ UNCHANGED <<callSide, workVars, ini, process, emuVars, missed>>

-----------------------------------------------------------------------------
CallStep(p) ==
    SetSlot(p) \/ LoadAppend(p) \/ PutCommand(p) \/ LoadExecute(p) \/ StoreExecute(p)

Commander ==
    \/ LoadLoops \/ StoreLoops \/ TakeCommand \/ LoadDelete \/ StoreDelete
    \/ AddCommand \/ executeLocalCommand \/ CommandsDone
    \/ writeTmpIni \/ sendUSR1Signal \/ blockTillTmpIniExists

Runner == getEmulatorProcessedConfig \/ Start \/ StartFails \/ SetProcess \/ Wait

Emulator == InstallHandler \/ RemoveTmpIni \/ SIGUSR1_handler

Next ==
    \/ \E p \in Callers :
          (\E a \in Adfs : AttachAdf(p, a)) \/ DetachAdf(p) \/ CallStep(p)
    \/ Commander \/ Runner \/ Emulator
    \/ HardReset \/ HDOperation

Spec == Init /\ [][Next]_vars

(* The goroutines and the emulator run; an operation on a hard disk ends.  *)
(* Nothing obliges anyone to attach, detach or reset.                      *)
FairSpec ==
    /\ Spec
    /\ \A p \in Callers : WF_vars(CallStep(p))
    /\ WF_vars(Commander) /\ WF_vars(Runner) /\ WF_vars(Emulator)
    /\ WF_vars(HDOperation /\ ~rerunEmulator)

-----------------------------------------------------------------------------
(* Properties.                                                             *)

Steps == {Put(c) : c \in Commands} \union {SetAdf(a) : a \in Floppy} \union {Execute}

(* The values of every variable, and that a caller holds a loaded slice or *)
(* number only in the middle of PutCommand or Execute.                     *)
TypeOK ==
    /\ adf \in Floppy /\ config \in Floppy /\ drive \in Floppy
    /\ commands \in Seq(Commands) /\ wview \in Seq(Commands)
    /\ executeLoops \in Nat /\ wloops \in Nat
    /\ todo \in [Callers -> Seq(Steps)]
    /\ loaded \in [Callers -> BOOLEAN]
    /\ cview \in [Callers -> Seq(Commands)]
    /\ cloops \in [Callers -> Nat]
    /\ races \in Nat
    /\ \A p \in Callers : loaded[p] => Doing(p, "put") \/ Doing(p, "execute")
    /\ cpc \in {"idle", "loops", "execute", "take", "delete", "command",
                "write", "signal", "wait"}
    /\ last => cpc \in {"write", "signal", "wait"}
    /\ icommand \in Commands
    /\ current \in Floppy \union {Nothing} /\ ini \in Floppy \union {Nothing}
    /\ epc \in {"sleep", "start", "started", "wait"}
    /\ emu \in {"none", "boot", "handler", "up", "dead"}
    /\ (emu = "none") <=> (epc \in {"sleep", "start"})
    /\ signal => emu \in {"handler", "up"}
    /\ {last, process, rerunEmulator, signal, missed} \subseteq BOOLEAN

(* No wake-up is lost: although executeLoops is incremented and            *)
(* decremented without a lock, a commander that goes to sleep with         *)
(* commands in the queue, or will do so once its last commands are sent,   *)
(* is woken again, or a caller on its way to Execute() will do so.         *)
Sleeps == cpc = "idle" \/ last

NoLostWakeUp ==
    commands # <<>> /\ executeLoops = 0 /\ Sleeps =>
        \E p \in Callers : \E i \in 1..Len(todo[p]) : todo[p][i].do = "execute"

(* When everything has come to rest, the emulator has in the drive what    *)
(* the slot says: through restarts, commits that wait for a dead emulator, *)
(* commands queued for an earlier run, unless unlocked steps met on the    *)
(* slice or a command was lost on its way to a starting or ended emulator. *)
AtRest ==
    /\ \A p \in Callers : todo[p] = <<>>
    /\ commands = <<>> /\ cpc = "idle" /\ executeLoops = 0
    /\ emu = "up" /\ ~signal /\ process

InSync == AtRest /\ races = 0 /\ ~missed => drive = adf

(* Commands put in the queue are all taken out of it, and the commander    *)
(* never blocks for good on a tmp ini file nobody removes:                 *)
(* blockTillTmpIniExists has no timeout, and an emulator killed before it  *)
(* takes the signal leaves the file to the next run.                       *)
CommandsTaken ==
    /\ commands # <<>> ~> commands = <<>>
    /\ cpc = "wait" ~> cpc # "wait"
=============================================================================
