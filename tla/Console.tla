------------------------------- MODULE Console -------------------------------
(***************************************************************************)
(* The commands typed on the keyboards of amipi400 and what they share:    *)
(* the goroutine of each keyboard, which runs the command it completes     *)
(* (keyboard_control.go, keyEventCallback), the goroutine of the WIFI with *)
(* its unbuffered channel (wifi_control.go), and the goroutines that blink *)
(* the power LED and the num lock LED (power_led_control.go,               *)
(* num_lock_led_controll.go).                                              *)
(*                                                                         *)
(* What the key sequences of all keyboards spell is a command or nothing.  *)
(* The commands that have nothing to do with the WIFI are one command.     *)
(***************************************************************************)
EXTENDS Naturals

CONSTANTS
    Keyboards,
    None,
    Success, Failure,   (* seconds of blinking                               *)
    MaxTyped, MaxKeys, MaxFaults    (* bounds: commands, other keys, failures *)

ASSUME ConstantsAssumption ==
    /\ None \notin {"connect", "disconnect", "other"}
    /\ Success \in Nat \ {0} /\ Failure \in Nat \ {0}
    /\ MaxTyped \in Nat /\ MaxKeys \in Nat /\ MaxFaults \in Nat

Commands == {"connect", "disconnect", "other"}
LEDs == {"power", "numLock"}

(* CMD_PENDING_BLINK_POWER_SECS is MaxInt: nobody sees its end.            *)
Pending == Success + Failure + 1
Less(n) == IF n = Pending \/ n = 0 THEN n ELSE n - 1

VARIABLES
    spelled,        (* what the key sequences spell                          *)
    pc, command,    (* per keyboard: where its callback is, with what        *)
    wpc, operation, (* WIFIControl.loop                                      *)
    lastError,
    net,            (* the first interface is connected: "on", or "off/any"  *)
    supplicant,     (* wpa_supplicant: "none", "good" or "bad" password      *)
    managed, saved, (* WIFIManage in mainConfig, and in its file: what the   *)
                    (* net is to be, "on" for true                           *)
    text,           (* per keyboard: WIFIManage as its Save marshalled it    *)
    seconds,        (* blinkPowerLedSecs, blinkNumLockLedSecs                *)
    lpc, view,      (* per LED: where its loop is; what it loaded            *)
    typed, keys, faults     (* counters                                      *)

(* Observation only: the last number of seconds is written over by a loop  *)
(* that had loaded MaxInt; two commands for the WIFI have been under way   *)
(* at once, or two Saves.                                                  *)
VARIABLES lost, overlapped

keyVars  == <<spelled, typed, keys>>
wifiVars == <<wpc, operation, lastError>>
netVars  == <<net, supplicant>>
confVars == <<managed, saved, text>>
ledVars  == <<seconds, lpc, view, lost>>
vars == <<keyVars, pc, command, wifiVars, netVars, confVars, ledVars, faults, overlapped>>

Init ==
    /\ spelled = None
    /\ pc = [k \in Keyboards |-> "read"] /\ command = [k \in Keyboards |-> None]
    /\ wpc = "receive" /\ operation = None /\ lastError = FALSE
    /\ net \in {"on", "off/any"} /\ supplicant = IF net = "on" THEN "good" ELSE "none"
    /\ managed = net /\ saved = net /\ text = [k \in Keyboards |-> "off/any"]
    /\ seconds = [l \in LEDs |-> 0] /\ lpc = [l \in LEDs |-> "idle"]
    /\ view = [l \in LEDs |-> 0] /\ lost = [l \in LEDs |-> FALSE]
    /\ typed = 0 /\ keys = 0 /\ faults = 0 /\ overlapped = FALSE

Goto(k, from, to) == pc[k] = from /\ pc' = [pc EXCEPT ![k] = to]

(* A fault happens or not.                                                 *)
Fault == faults < MaxFaults /\ faults' = faults + 1
Well  == UNCHANGED faults

-----------------------------------------------------------------------------
(* A keyboard.                                                             *)

(* A key makes a command complete, or stands behind one, or is only        *)
(* pressed yet.                                                            *)
KeyEvent(k) ==
    /\ Goto(k, "read", "look")
    /\ \/ /\ spelled = None /\ typed < MaxTyped
          /\ spelled' \in Commands /\ typed' = typed + 1
          /\ UNCHANGED keys
       \/ /\ keys < MaxKeys /\ keys' = keys + 1
          /\ spelled' \in {spelled, None}
          /\ UNCHANGED typed
    /\ UNCHANGED <<command, wifiVars, netVars, confVars, ledVars, faults, overlapped>>

getKeyboardCommand(k) ==
    /\ Goto(k, "look", IF spelled = None THEN "read" ELSE "clear")
    /\ command' = [command EXCEPT ![k] = spelled]
    /\ UNCHANGED <<keyVars, wifiVars, netVars, confVars, ledVars, faults, overlapped>>

clearAllKeyboardsControl(k) ==
    /\ Goto(k, "clear", "begin")
    /\ spelled' = None
    /\ UNCHANGED <<typed, keys, command, wifiVars, netVars, confVars, ledVars, faults, overlapped>>

(* BlinkPowerLEDSecs and BlinkNumLockLEDSecs store the number whatever the *)
(* loop is doing with it.                                                  *)
Blink(l, n) ==
    /\ seconds' = [seconds EXCEPT ![l] = n]
    /\ lost' = [lost EXCEPT ![l] = lpc[l] = "store" /\ view[l] = Pending]
    /\ UNCHANGED <<lpc, view>>

WithWIFI(k) == command[k] \in {"connect", "disconnect"}

Begin(k) ==
    /\ Goto(k, "begin", IF command[k] = "other" THEN "work" ELSE "send")
    /\ Blink("power", Pending)
    /\ overlapped' = (overlapped \/ (/\ WithWIFI(k)
                                    /\ \E j \in Keyboards \ {k} : WithWIFI(j) /\ pc[j] \notin {"clear", "begin"}))
    /\ UNCHANGED <<keyVars, command, wifiVars, netVars, confVars, faults>>

(* Any other command comes to its end; it blinks, if it fails.             *)
Work(k) ==
    /\ Goto(k, "work", "done")
    /\ \/ Well /\ UNCHANGED ledVars
       \/ Fault /\ Blink("numLock", Failure)
    /\ UNCHANGED <<keyVars, command, wifiVars, netVars, confVars, overlapped>>

(* Connect and Disconnect: the channel has no buffer, so the sender meets  *)
(* the loop there.  Wait finds the channel empty and returns at once.      *)
Send(k) ==
    /\ Goto(k, "send", "wait")
    /\ wpc = "receive" /\ wpc' = "check"
    /\ operation' = command[k] /\ lastError' = FALSE
    /\ UNCHANGED <<keyVars, command, netVars, confVars, ledVars, faults, overlapped>>

Goal(k) == IF command[k] = "connect" THEN "on" ELSE "off/any"

(* WaitUntilConnected and WaitUntilDisconnected, however many seconds they *)
(* are given; iwconfig may fail.                                           *)
WaitUntil(k) ==
    /\ Goto(k, "wait", "save")
    /\ \/ net = Goal(k) /\ Well
       \/ Fault
    /\ UNCHANGED <<keyVars, command, wifiVars, netVars, confVars, ledVars, overlapped>>

(* Save: the configuration is marshalled, with what another keyboard has   *)
(* set in it ...                                                           *)
Marshal(k) ==
    /\ text' = [text EXCEPT ![k] = managed']
    /\ overlapped' = (overlapped \/ \E j \in Keyboards \ {k} : pc[j] = "store")
    /\ UNCHANGED saved

(* Mutant: wifiDisconect keeps WIFIManage.                                  *)
saveWifiSettingKeep(k) ==
    /\ Goto(k, "save", "store")
    /\ managed' = IF command[k] = "connect" THEN "on" ELSE managed
    /\ Marshal(k)
    /\ UNCHANGED <<keyVars, command, wifiVars, netVars, ledVars, faults>>

saveWifiSetting(k) ==
    /\ Goto(k, "save", "store")
    /\ managed' = Goal(k)
    /\ Marshal(k)
    /\ UNCHANGED <<keyVars, command, wifiVars, netVars, ledVars, faults>>

(* The keys of ToggleZoom save the same configuration.                     *)
saveZoomConfigSetting(k) ==
    /\ Goto(k, "read", "store")
    /\ typed < MaxTyped /\ typed' = typed + 1
    /\ spelled' = None
    /\ UNCHANGED managed /\ Marshal(k)
    /\ UNCHANGED <<keys, command, wifiVars, netVars, ledVars, faults>>

(* ... and the file written; an error is only logged.  What fails before   *)
(* it has truncated the file leaves it, and later leaves it without what   *)
(* is for the next start no setting.                                       *)
FileWriteBytes(k) ==
    /\ Goto(k, "store", IF command[k] = None THEN "read" ELSE "report")
    /\ \/ Well /\ saved' = text[k]
       \/ Fault /\ saved' \in {saved, "off/any"}
    /\ text' = [text EXCEPT ![k] = "off/any"]
    /\ UNCHANGED <<keyVars, command, wifiVars, netVars, managed, ledVars, overlapped>>

GetLastError(k) ==
    /\ Goto(k, "report", "done")
    /\ IF lastError THEN Blink("numLock", Failure) ELSE UNCHANGED ledVars
    /\ UNCHANGED <<keyVars, command, wifiVars, netVars, confVars, faults, overlapped>>

(* Mutant: without the defer, a command leaves the LED blinking.           *)
DoneNoDefer(k) ==
    /\ Goto(k, "done", "read")
    /\ command' = [command EXCEPT ![k] = None]
    /\ UNCHANGED <<keyVars, wifiVars, netVars, confVars, ledVars, faults, overlapped>>

Done(k) ==
    /\ Goto(k, "done", "read")
    /\ command' = [command EXCEPT ![k] = None]
    /\ Blink("power", Success)
    /\ UNCHANGED <<keyVars, wifiVars, netVars, confVars, faults, overlapped>>

-----------------------------------------------------------------------------
(* The WIFI.                                                               *)

OperationEnds(error) == wpc' = "receive" /\ operation' = None /\ lastError' = error

(* Mutant: an error ends the loop.                                         *)
CheckEndsLoop ==
    /\ wpc = "check"
    /\ \/ (net = "on") = (operation = "connect") /\ Well
       \/ Fault
    /\ wpc' = "off" /\ operation' = None /\ lastError' = TRUE
    /\ UNCHANGED <<keyVars, pc, command, netVars, confVars, ledVars, overlapped>>

(* connect and disconnect give up when there is nothing to do, and when    *)
(* iwconfig, iw, wpa_passphrase, the file or killall fails.                *)
CheckFails ==
    /\ wpc = "check"
    /\ \/ (net = "on") = (operation = "connect") /\ Well
       \/ Fault
    /\ OperationEnds(TRUE)
    /\ UNCHANGED <<keyVars, pc, command, netVars, confVars, ledVars, overlapped>>

Check ==
    /\ wpc = "check"
    /\ (net = "on") # (operation = "connect")
    /\ wpc' = operation
    /\ UNCHANGED <<keyVars, pc, command, operation, lastError, netVars, confVars, ledVars, faults, overlapped>>

(* rfkill may fail, when wpa_supplicant has been killed; that it fails     *)
(* itself is not an error.                                                 *)
connect ==
    /\ wpc = "connect"
    /\ \/ Fault /\ supplicant' = "none" /\ OperationEnds(TRUE)
       \/ Fault /\ supplicant' = "none" /\ OperationEnds(FALSE)
       \/ Well /\ supplicant' \in {"good", "bad"} /\ OperationEnds(FALSE)
    /\ UNCHANGED <<keyVars, pc, command, net, confVars, ledVars, overlapped>>

(* wpa_supplicant is killed; ifconfig takes the interface down, and up.    *)
disconnect ==
    /\ wpc = "disconnect"
    /\ supplicant' = "none"
    /\ \/ Fault /\ OperationEnds(TRUE) /\ net' \in {net, "off/any"}
       \/ Well /\ OperationEnds(FALSE) /\ net' = "off/any"
    /\ UNCHANGED <<keyVars, pc, command, confVars, ledVars, overlapped>>

(* wpa_supplicant gets into the network with the right password.           *)
Associate ==
    /\ supplicant = "good" /\ net = "off/any"
    /\ net' = "on"
    /\ UNCHANGED <<keyVars, pc, command, wifiVars, supplicant, confVars, ledVars, faults, overlapped>>

-----------------------------------------------------------------------------
(* Mutant: without the test, the seconds run below zero.                   *)
StartsBlinkingAlways(l) ==
    /\ lpc[l] = "idle"
    /\ lpc' = [lpc EXCEPT ![l] = "blink"]
    /\ UNCHANGED <<keyVars, pc, command, wifiVars, netVars, confVars, seconds, view, lost, faults, overlapped>>

(* The loop of an LED; the LED blinks from here ...                        *)
StartsBlinking(l) ==
    /\ lpc[l] = "idle" /\ seconds[l] > 0
    /\ lpc' = [lpc EXCEPT ![l] = "blink"]
    /\ UNCHANGED <<keyVars, pc, command, wifiVars, netVars, confVars, seconds, view, lost, faults, overlapped>>

(* a second later blinkPowerLedSecs--, a load ...                          *)
LoadSeconds(l) ==
    /\ lpc[l] = "blink"
    /\ lpc' = [lpc EXCEPT ![l] = "store"]
    /\ view' = [view EXCEPT ![l] = seconds[l]]
    /\ UNCHANGED <<keyVars, pc, command, wifiVars, netVars, confVars, seconds, lost, faults, overlapped>>

(* and a store;                                                            *)
StoreSeconds(l) ==
    /\ lpc[l] = "store"
    /\ lpc' = [lpc EXCEPT ![l] = "test"]
    /\ seconds' = [seconds EXCEPT ![l] = Less(view[l])]
    /\ view' = [view EXCEPT ![l] = 0]
    /\ UNCHANGED <<keyVars, pc, command, wifiVars, netVars, confVars, lost, faults, overlapped>>

(* ... until no second is left: EnablePowerLed, disableNumLockLed.         *)
StopsBlinking(l) ==
    /\ lpc[l] = "test"
    /\ lpc' = [lpc EXCEPT ![l] = IF seconds[l] > 0 THEN "blink" ELSE "idle"]
    /\ UNCHANGED <<keyVars, pc, command, wifiVars, netVars, confVars, seconds, view, lost, faults, overlapped>>

-----------------------------------------------------------------------------
Callback(k) == \/ getKeyboardCommand(k) \/ clearAllKeyboardsControl(k)
               \/ Begin(k) \/ Work(k) \/ Send(k) \/ WaitUntil(k)
               \/ saveWifiSetting(k) \/ FileWriteBytes(k)
               \/ GetLastError(k) \/ Done(k)
WIFIControl == CheckFails \/ Check \/ connect \/ disconnect
LED(l) == StartsBlinking(l) \/ LoadSeconds(l) \/ StoreSeconds(l) \/ StopsBlinking(l)

Next == \/ \E k \in Keyboards : KeyEvent(k) \/ saveZoomConfigSetting(k) \/ Callback(k)
        \/ WIFIControl \/ Associate
        \/ \E l \in LEDs : LED(l)

Spec == Init /\ [][Next]_vars

(* Goroutines go on, and wpa_supplicant with the right password does its   *)
(* work.  Nobody must type.                                                *)
FairSpec == Spec /\ WF_vars(WIFIControl) /\ WF_vars(Associate)
                 /\ \A k \in Keyboards : WF_vars(Callback(k))
                 /\ \A l \in LEDs : WF_vars(LED(l))

-----------------------------------------------------------------------------
(* Properties.                                                             *)

(* Types; the loop of the WIFI has the operation of a keyboard that does   *)
(* not wait to send it, and an LED blinks for a reason.                    *)
TypeOK ==
    /\ spelled \in Commands \union {None}
    /\ \A k \in Keyboards :
         /\ pc[k] \in {"read", "look"} => command[k] = None
         /\ command[k] = None => pc[k] \in {"read", "look", "store"}
    /\ operation \in (Commands \ {"other"}) \union {None}
    /\ (operation = None) <=> (wpc = "receive")
    /\ wpc \in {"connect", "disconnect"} => wpc = operation
    /\ \A l \in LEDs :
         /\ seconds[l] \in 0..Pending /\ view[l] \in 0..Pending
         /\ lpc[l] = "store" => view[l] > 0
         /\ lpc[l] = "idle" => ~lost[l]

(* A command with the WIFI comes to its end, although the channel has no   *)
(* buffer, an operation may fail and another keyboard may want the         *)
(* opposite; it waits for ever only for a network that nothing will change *)
(* any more.                                                               *)
Hopeless(k) ==
    /\ pc[k] = "wait" /\ wpc = "receive" /\ net # Goal(k)
    /\ command[k] = "connect" => supplicant # "good"
CommandEnds == \A k \in Keyboards : pc[k] # "read" ~> pc[k] = "read" \/ Hopeless(k)

(* With all commands done, what the main configuration says for the next   *)
(* start is how the WIFI is left, whenever the zoom keys of another        *)
(* keyboard save the same file; unless two keyboards were at the WIFI, or  *)
(* in Save, at once, the password is bad or something failed.              *)
SettingKept ==
    /\ \A k \in Keyboards : pc[k] = "read"
    /\ ~overlapped /\ faults = 0 /\ supplicant # "bad"
    => saved = net

(* Once all commands have come to their end, the LEDs stop blinking,       *)
(* however commands of two keyboards store their seconds between the load  *)
(* and the store of the loop; but if the loop writes MaxInt over the last  *)
(* seconds, the power LED blinks for ever.                                 *)
LEDsSteady ==
    <>[]((\A k \in Keyboards : pc[k] = "read") => \A l \in LEDs : lpc[l] = "idle" \/ lost[l])
=============================================================================
