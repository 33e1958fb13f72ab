------------------------------- MODULE Services -------------------------------
(***************************************************************************)
(* The services of amipi400 from the start to the end of the program: the  *)
(* two polls (block_devices.go, amiga_disk_devices_discovery.go) and the   *)
(* idle handshake that lets the emulator run, runner_base.go and           *)
(* runners_blocker.go, and the shutdown by a signal (amipi400.go).         *)
(*                                                                         *)
(* What a poll finds are things: media with file systems, which are        *)
(* mounted, or files of amiga_disk_devices.  What attaching does to the    *)
(* drives is the subject of Slots; here it takes time, and a hard disk     *)
(* stops the emulator meanwhile.                                           *)
(***************************************************************************)
EXTENDS Naturals, FiniteSets

CONSTANTS
    Media, Files,           (* what blockDevices and the discovery may find  *)
    Hard,                   (* those that are attached as hard disks         *)
    None,
    Rounds,                 (* tries of unmountAll                           *)
    MaxPlugs, MaxFailures   (* bounds: things that come or go; failures      *)

ASSUME ConstantsAssumption ==
    /\ Media \intersect Files = {} /\ None \notin Media \union Files
    /\ Hard \subseteq Media \union Files
    /\ Rounds \in Nat \ {0} /\ MaxPlugs \in Nat /\ MaxFailures \in Nat

Polls   == {"blockDevices", "discovery"}
(* The commander, the keyboards, the LEDs and the WIFI stop only when they *)
(* are told to.                                                            *)
Runners == Polls \union {"emulator", "others"}
Found(p) == IF p = "blockDevices" THEN Media ELSE Files

VARIABLES
    initializing, rerunEmulator,
    process,                (* the emulator runs                             *)
    running,                (* the runners that are running                  *)
    pc,                     (* where each poll is                            *)
    old, new,               (* its last two looks                            *)
    current,                (* the thing its callback is at, or None         *)
    isIdle, affected,
    attached,               (* things that are attached; media are mounted   *)
    shutdown, round, left,  (* gracefulShutdown, unmountAll                  *)
    ended,                  (* main has returned                             *)
    there,                  (* things that are plugged in                    *)
    plugs, failures         (* counters                                      *)

(* Observation only: things that have been there since the start and did   *)
(* not fail to attach; whether the emulator has been started; the signal,  *)
(* and media attached after it or stuck.                                   *)
VARIABLES boot, started, signal, excused

pollVars  == <<pc, old, new, current, isIdle, affected, attached>>
startVars == <<initializing, rerunEmulator, process>>
endVars   == <<running, shutdown, round, left, ended>>
world     == <<there, plugs, failures>>
ghosts    == <<boot, started, signal, excused>>
vars == <<startVars, pollVars, endVars, world, ghosts>>

Init ==
    /\ initializing = TRUE /\ rerunEmulator = FALSE /\ process = FALSE
    /\ running = Runners
    /\ pc = [p \in Polls |-> "look"]
    /\ old = [p \in Polls |-> {}] /\ new = [p \in Polls |-> {}]
    /\ current = [p \in Polls |-> None]
    /\ isIdle = [p \in Polls |-> FALSE]
    /\ affected = [p \in Polls |-> FALSE]
    /\ attached = {}
    /\ shutdown = "no" /\ round = 0 /\ left = {} /\ ended = FALSE
    /\ there \in SUBSET (Media \union Files)
    /\ plugs = 0 /\ failures = 0
    /\ boot = there /\ started = FALSE /\ signal = "none" /\ excused = {}

Goto(p, where) == pc' = [pc EXCEPT ![p] = where]

-----------------------------------------------------------------------------
(* What comes from outside.                                                *)

Plug ==
    /\ ~ended /\ plugs < MaxPlugs
    /\ \E x \in Media \union Files :
         /\ there' = IF x \in there THEN there \ {x} ELSE there \union {x}
         /\ boot' = boot \ {x}
    /\ plugs' = plugs + 1
    /\ UNCHANGED <<startVars, pollVars, endVars, failures, started, signal, excused>>

EmulatorQuits ==
    /\ ~ended /\ process
    /\ process' = FALSE
    /\ UNCHANGED <<initializing, rerunEmulator, pollVars, endVars, world, ghosts>>

(* SIGTERM reaches the program; SIGINT from the terminal also the lsblk it *)
(* may just be running.                                                    *)
Stopped(p) == /\ running' = running \ {p}
              /\ Goto(p, "off")

Signal(s) ==
    /\ ~ended /\ signal = "none"
    /\ signal' = s /\ shutdown' = "reset"
    /\ \/ UNCHANGED <<pc, running>>
       \/ s = "SIGINT" /\ pc["blockDevices"] = "look" /\ Stopped("blockDevices")
    /\ UNCHANGED <<startVars, old, new, current, isIdle, affected, attached,
                   round, left, ended, world, boot, started, excused>>

-----------------------------------------------------------------------------
(* A poll.                                                                 *)

Look(p) ==
    /\ ~ended /\ pc[p] = "look" /\ p \in running
    /\ new' = [new EXCEPT ![p] = there \intersect Found(p)]
    /\ Goto(p, "callbacks")
    /\ UNCHANGED <<startVars, old, current, isIdle, affected, attached, endVars, world, ghosts>>

(* lsblk fails or prints what the pattern does not match; or Stop.         *)
LookFails ==
    /\ ~ended /\ pc["blockDevices"] = "look" /\ failures < MaxFailures
    /\ failures' = failures + 1
    /\ Stopped("blockDevices")
    /\ UNCHANGED <<startVars, old, new, current, isIdle, affected, attached,
                   shutdown, round, left, ended, there, plugs, ghosts>>

LoopEnds(p) ==
    /\ ~ended /\ pc[p] = "look" /\ p \notin running
    /\ Stopped(p)
    /\ UNCHANGED <<startVars, old, new, current, isIdle, affected, attached,
                   shutdown, round, left, ended, world, ghosts>>

Leaving(p) == old[p] \ new[p]
Coming(p)  == new[p] \ old[p]
(* What has left is detached first.                                        *)
Due(p)     == IF Leaving(p) # {} THEN Leaving(p) ELSE Coming(p)
(* A callback has no result, so the poll tries x once.                     *)
Tried(p, x) == old' = [old EXCEPT ![p] = IF x \in new[p] THEN @ \union {x} ELSE @ \ {x}]

onHDOperationStart(x) ==
    rerunEmulator' = IF x \in Hard /\ ~initializing THEN FALSE ELSE rerunEmulator
onHDOperationDone(x) ==
    rerunEmulator' = IF x \in Hard /\ ~initializing THEN TRUE ELSE rerunEmulator

(* Mutant: idle until all callbacks are through.                           *)
CallbackStartIdle(p) ==
    /\ ~ended /\ pc[p] = "callbacks" /\ current[p] = None
    /\ \E x \in Due(p) :
         /\ current' = [current EXCEPT ![p] = x]
         /\ onHDOperationStart(x)
    /\ affected' = [affected EXCEPT ![p] = TRUE]
    /\ UNCHANGED <<initializing, process, pc, old, new, isIdle, attached, endVars, world, ghosts>>

CallbackStart(p) ==
    /\ ~ended /\ pc[p] = "callbacks" /\ current[p] = None
    /\ \E x \in Due(p) :
         /\ current' = [current EXCEPT ![p] = x]
         /\ onHDOperationStart(x)
    /\ affected' = [affected EXCEPT ![p] = TRUE]
    /\ isIdle' = [isIdle EXCEPT ![p] = FALSE]
    /\ UNCHANGED <<initializing, process, pc, old, new, attached, endVars, world, ghosts>>

CallbackDone(p) ==
    LET x == current[p]
    IN /\ ~ended /\ x # None
       /\ attached' = IF x \in new[p] THEN attached \union {x} ELSE attached \ {x}
       /\ Tried(p, x)
       /\ process' = (process /\ x \notin Hard)
       /\ onHDOperationDone(x)
       /\ current' = [current EXCEPT ![p] = None]
       /\ excused' = IF signal # "none" THEN excused \union {x} ELSE excused
       /\ UNCHANGED <<initializing, pc, new, isIdle, affected, endVars, world,
                      boot, started, signal>>

(* A callback that returns at once: no slot is free, the label names none, *)
(* or there is nothing to detach.                                          *)
CallbackRefused(p) ==
    /\ ~ended /\ pc[p] = "callbacks" /\ current[p] = None /\ failures < MaxFailures
    /\ failures' = failures + 1
    /\ \E x \in Due(p) : Tried(p, x) /\ boot' = boot \ {x}
    /\ affected' = [affected EXCEPT ![p] = TRUE]
    /\ isIdle' = [isIdle EXCEPT ![p] = FALSE]
    /\ UNCHANGED <<startVars, pc, new, current, attached, endVars, there, plugs, started,
                   signal, excused>>

(* One that fails on the way, and leaves a medium mounted or not.          *)
CallbackFails(p) ==
    LET x == current[p]
    IN /\ ~ended /\ x # None /\ failures < MaxFailures
       /\ failures' = failures + 1
       /\ attached' \in {attached \union {x}, attached \ {x}}
       /\ Tried(p, x) /\ boot' = boot \ {x}
       /\ process' \in {process, process /\ x \notin Hard}
       /\ onHDOperationDone(x)
       /\ current' = [current EXCEPT ![p] = None]
       /\ excused' = IF signal # "none" THEN excused \union {x} ELSE excused
       /\ UNCHANGED <<initializing, pc, new, isIdle, affected, endVars, there, plugs,
                      started, signal>>

(* Mutant: only a poll that has found something calls back.                *)
CallbacksEndAffected(p) ==
    /\ ~ended /\ pc[p] = "callbacks" /\ current[p] = None /\ old[p] = new[p]
    /\ isIdle' = [isIdle EXCEPT ![p] = ~affected[p]]
    /\ affected' = [affected EXCEPT ![p] = FALSE]
    /\ Goto(p, IF affected[p] THEN "initializing" ELSE "look")
    /\ UNCHANGED <<startVars, old, new, current, attached, endVars, world, ghosts>>

(* The end of callCallbacks: the idle callback at each change to idle      *)
(* (a poll that affects nothing has left isIdle at oldIsIdle).             *)
CallbacksEnd(p) ==
    /\ ~ended /\ pc[p] = "callbacks" /\ current[p] = None /\ old[p] = new[p]
    /\ isIdle' = [isIdle EXCEPT ![p] = ~affected[p]]
    /\ affected' = [affected EXCEPT ![p] = FALSE]
    /\ Goto(p, IF ~affected[p] /\ ~isIdle[p] THEN "initializing" ELSE "look")
    /\ UNCHANGED <<startVars, old, new, current, attached, endVars, world, ghosts>>

-----------------------------------------------------------------------------
(* servicesIdleCallback, test by test: the other poll goes on meanwhile.   *)

Test(p, here, holds, there_) ==
    /\ ~ended /\ pc[p] = here
    /\ Goto(p, IF holds THEN there_ ELSE "look")
    /\ UNCHANGED <<startVars, old, new, current, isIdle, affected, attached,
                   endVars, world, ghosts>>

Initialized(p) ==
    /\ ~ended /\ pc[p] = "clear"
    /\ initializing' = FALSE
    /\ Goto(p, "rerun")
    /\ UNCHANGED <<rerunEmulator, process, old, new, current, isIdle, affected, attached,
                   endVars, world, ghosts>>

SetRerunEmulator(p) ==
    /\ ~ended /\ pc[p] = "rerun"
    /\ rerunEmulator' = TRUE
    /\ Goto(p, "look")
    /\ UNCHANGED <<initializing, process, old, new, current, isIdle, affected, attached,
                   endVars, world, ghosts>>

(* Mutant: a poll trusts that the other one is idle, too.                  *)
servicesIdleCallbackAlone(p) ==
    \/ Test(p, "initializing", initializing, p)
    \/ Test(p, p, isIdle[p], "clear")
    \/ Initialized(p)
    \/ SetRerunEmulator(p)
servicesIdleCallback(p) ==
    \/ Test(p, "initializing", initializing, "discovery")
    \/ Test(p, "discovery", isIdle["discovery"], "blockDevices")
    \/ Test(p, "blockDevices", isIdle["blockDevices"], "clear")
    \/ Initialized(p)
    \/ SetRerunEmulator(p)

-----------------------------------------------------------------------------
(* AmiberryEmulator.loop.                                                  *)
RunEmulator ==
    /\ ~ended /\ "emulator" \in running /\ rerunEmulator /\ ~process
    /\ process' = TRUE /\ started' = TRUE
    /\ UNCHANGED <<initializing, rerunEmulator, pollVars, endVars, world, boot, signal, excused>>

(* getEmulatorProcessedConfig fails.                                       *)
ConfigFails ==
    /\ ~ended /\ "emulator" \in running /\ rerunEmulator /\ ~process /\ failures < MaxFailures
    /\ failures' = failures + 1
    /\ running' = running \ {"emulator"}
    /\ UNCHANGED <<startVars, pollVars, shutdown, round, left, ended, there, plugs, ghosts>>

(* gracefulShutdown: unmountAll, at most Rounds times, then stopServices.  *)
(* Mutant: the services are stopped first.                                 *)
HardResetStop ==
    /\ ~ended /\ shutdown = "reset"
    /\ shutdown' = "unmount" /\ round' = 1 /\ left' = attached \intersect Media
    /\ process' = FALSE /\ running' = {}
    /\ UNCHANGED <<initializing, rerunEmulator, pollVars, ended, world, ghosts>>
HardReset ==
    /\ ~ended /\ shutdown = "reset"
    /\ shutdown' = "unmount" /\ round' = 1 /\ left' = attached \intersect Media
    /\ process' = FALSE
    /\ UNCHANGED <<initializing, rerunEmulator, pollVars, running, ended, world, ghosts>>

Unmount ==
    /\ ~ended /\ shutdown = "unmount"
    /\ \E x \in left :
         /\ left' = left \ {x}
         /\ \/ attached' = attached \ {x} /\ UNCHANGED excused
            \/ attached' = attached /\ excused' = excused \union {x}
    /\ UNCHANGED <<startVars, pc, old, new, current, isIdle, affected, running, shutdown,
                   round, ended, world, boot, started, signal>>

(* Mutant: as long as there is a mountpoint.                               *)
RoundEndForEver ==
    /\ ~ended /\ shutdown = "unmount" /\ left = {}
    /\ shutdown' = IF attached \intersect Media = {} THEN "stop" ELSE "unmount"
    /\ left' = attached \intersect Media
    /\ UNCHANGED <<startVars, pollVars, round, running, ended, world, ghosts>>

RoundEnd ==
    /\ ~ended /\ shutdown = "unmount" /\ left = {}
    /\ shutdown' = IF attached \intersect Media = {} \/ round = Rounds THEN "stop" ELSE "unmount"
    /\ left' = attached \intersect Media
    /\ round' = IF round < Rounds THEN round + 1 ELSE round
    /\ UNCHANGED <<startVars, pollVars, running, ended, world, ghosts>>

stopServices ==
    /\ ~ended /\ shutdown = "stop"
    /\ running' = {} /\ shutdown' = "done"
    /\ UNCHANGED <<startVars, pollVars, round, left, ended, world, ghosts>>

(* RunnersBlocker: the first runner that stops ends the program.           *)
BlockUntilRunning ==
    /\ ~ended /\ running # Runners
    /\ ended' = TRUE
    /\ UNCHANGED <<startVars, pollVars, running, shutdown, round, left, world, ghosts>>

-----------------------------------------------------------------------------
Poll(p) == \/ Look(p) \/ LoopEnds(p)
           \/ CallbackStart(p) \/ CallbackDone(p) \/ CallbacksEnd(p)
           \/ CallbackRefused(p) \/ CallbackFails(p)
           \/ servicesIdleCallback(p)
gracefulShutdown == HardReset \/ Unmount \/ RoundEnd \/ stopServices
Outside == Plug \/ EmulatorQuits \/ LookFails \/ ConfigFails \/ \E s \in {"SIGTERM", "SIGINT"} : Signal(s)

Next == \/ \E p \in Polls : Poll(p)
        \/ RunEmulator \/ gracefulShutdown \/ BlockUntilRunning \/ Outside

Spec == Init /\ [][Next]_vars

(* Goroutines go on; what comes from outside need not come.                *)
FairSpec == Spec /\ \A p \in Polls : WF_vars(Poll(p))
                 /\ WF_vars(RunEmulator) /\ WF_vars(gracefulShutdown) /\ WF_vars(BlockUntilRunning)

-----------------------------------------------------------------------------
(* Properties.                                                             *)

(* Types; a poll that has ended has said so, the one at a callback has     *)
(* counted it and is not idle, and the rounds of unmountAll end.           *)
TypeOK ==
    /\ running \subseteq Runners /\ round \in 0..Rounds
    /\ left \subseteq Media /\ attached \subseteq Media \union Files
    /\ \A p \in Polls :
         /\ pc[p] \in {"look", "callbacks", "off", "initializing", "clear", "rerun"} \union Polls
         /\ pc[p] = "off" => p \notin running
         /\ old[p] \union new[p] \subseteq Found(p)
         /\ current[p] # None => pc[p] = "callbacks" /\ affected[p] /\ ~isIdle[p]

(* The Amiga starts with everything that is there: what has been plugged   *)
(* in all the time and did not fail to attach is attached when the         *)
(* emulator starts, however the two polls and their tests of one another   *)
(* interleave (unmountAll takes it).                                       *)
BootMediaAttached == started /\ shutdown = "no" => boot \subseteq attached

(* After SIGTERM the program ends with all media unmounted but those that  *)
(* could not be unmounted or that a callback has mounted after the signal; *)
(* unless lsblk or the configuration of the emulator fails, whose runner   *)
(* then ends the program before unmountAll, or a callback fails.           *)
EndsUnmounted ==
    ended /\ signal = "SIGTERM" /\ failures = 0 => attached \intersect Media \subseteq excused

(* The emulator starts and, whenever it quits or is stopped for a hard     *)
(* disk, runs again: no change of a poll to idle is missed by both polls,  *)
(* and overlapping operations on hard disks leave rerunEmulator set.       *)
EmulatorRuns == []<>(process \/ ended \/ shutdown # "no")

(* A signal, and a poll that has failed, end the program, although media   *)
(* may never get unmounted.                                                *)
ProgramEnds == (running # Runners \/ signal # "none") ~> ended
=============================================================================
