---------------------------- MODULE ConsoleProofs ----------------------------
(***************************************************************************)
(* For any keyboards, keys and commands: the goroutines of keyboards, WIFI *)
(* and LEDs keep to their types, and the main configuration says how the   *)
(* WIFI is left.                                                           *)
(*                                                                         *)
(* The argument for the setting: as long as no two keyboards are at the    *)
(* WIFI or in Save at once and nothing has failed, whatever will still     *)
(* change the network is the operation of the one keyboard that waits for  *)
(* just that change, and the setting differs from the network only while   *)
(* it waits or is about to save; what Save has marshalled is the setting.  *)
(* The loop of the WIFI may lag behind: a keyboard that finds the network  *)
(* as it wants it is done before the loop has looked.                      *)
(***************************************************************************)
EXTENDS Console, TLAPS

KeyboardPlaces == {"read", "look", "clear", "begin", "work", "send", "wait", "save", "store", "report",
                   "done"}

(* What WIFIManage says that the network is to be.                         *)
Settings == {"on", "off/any"}

Types ==
    /\ spelled \in Commands \union {None}
    /\ pc \in [Keyboards -> KeyboardPlaces]
    /\ command \in [Keyboards -> Commands \union {None}]
    /\ wpc \in {"receive", "check", "connect", "disconnect"}
    /\ operation \in (Commands \ {"other"}) \union {None}
    /\ net \in {"on", "off/any"} /\ supplicant \in {"none", "good", "bad"}
    /\ managed \in Settings /\ saved \in Settings /\ text \in [Keyboards -> Settings]
    /\ overlapped \in BOOLEAN /\ faults \in Nat
    /\ seconds \in [LEDs -> 0..Pending] /\ view \in [LEDs -> 0..Pending]
    /\ lpc \in [LEDs -> {"idle", "blink", "store", "test"}] /\ lost \in [LEDs -> BOOLEAN]

(* A keyboard has a command from the look to the end, and only one that    *)
(* has to do with the WIFI sends; the zoom keys save without a command.    *)
KeyboardsOK ==
    \A k \in Keyboards :
        /\ pc[k] \in {"read", "look"} => command[k] = None
        /\ command[k] = None => pc[k] \in {"read", "look", "store"}
        /\ pc[k] = "store" => command[k] # "other"
        /\ pc[k] \in {"send", "wait", "save", "report"} => WithWIFI(k)
        /\ pc[k] = "work" => command[k] = "other"

WIFIOK ==
    /\ operation = None <=> wpc = "receive"
    /\ wpc \in {"connect", "disconnect"} => wpc = operation

(* An LED begins a second only with one left; one that has lost the last   *)
(* number of seconds has MaxInt, or is about to store it.                  *)
LEDsOK ==
    \A l \in LEDs :
        /\ lpc[l] = "blink" => seconds[l] > 0
        /\ lpc[l] = "store" => view[l] > 0
        /\ lost[l] => \/ lpc[l] = "store" /\ view[l] = Pending
                      \/ lpc[l] \in {"blink", "test"} /\ seconds[l] = Pending

CInv == Types /\ KeyboardsOK /\ WIFIOK /\ LEDsOK

-----------------------------------------------------------------------------
LEMMA Numbers ==
  /\ Pending \in Nat /\ Pending > 0 /\ {Success, Failure, Pending} \subseteq (0..Pending) \ {0}
  /\ \A n \in 0..Pending : Less(n) \in 0..Pending
  /\ Less(Pending) = Pending
  BY ConstantsAssumption DEF Pending, Less

(* Another number of seconds, whatever the loop is doing.                  *)
LEMMA BlinkKeeps ==
  ASSUME CInv, NEW l \in LEDs, NEW n \in {Success, Failure, Pending}, Blink(l, n)
  PROVE  /\ LEDsOK'
         /\ seconds' \in [LEDs -> 0..Pending] /\ view' \in [LEDs -> 0..Pending]
         /\ lpc' \in [LEDs -> {"idle", "blink", "store", "test"}] /\ lost' \in [LEDs -> BOOLEAN]
  <1>1. /\ seconds' = [seconds EXCEPT ![l] = n] /\ UNCHANGED <<lpc, view>>
        /\ lost' = [lost EXCEPT ![l] = lpc[l] = "store" /\ view[l] = Pending]
        /\ n \in 0..Pending /\ n > 0
    BY Numbers DEF Blink
  <1>2. /\ seconds' \in [LEDs -> 0..Pending] /\ view' \in [LEDs -> 0..Pending]
        /\ lpc' \in [LEDs -> {"idle", "blink", "store", "test"}] /\ lost' \in [LEDs -> BOOLEAN]
    BY <1>1 DEF CInv, Types
  <1>3. ASSUME NEW m \in LEDs, m # l
        PROVE  seconds'[m] = seconds[m] /\ lost'[m] = lost[m]
    BY <1>1, <1>3 DEF CInv, Types
  <1>4. seconds'[l] = n /\ (lost'[l] => lpc[l] = "store" /\ view[l] = Pending)
    BY <1>1 DEF CInv, Types
  <1>5. LEDsOK'
    BY <1>1, <1>3, <1>4 DEF CInv, LEDsOK
  <1> QED  BY <1>2, <1>5

(* The steps of a keyboard: what remains to be shown of each.              *)
LEMMA KeyboardStep ==
  ASSUME CInv, NEW k \in Keyboards, NEW to \in KeyboardPlaces, pc' = [pc EXCEPT ![k] = to],
         NEW c \in Commands \union {None}, command' = [command EXCEPT ![k] = c],
         to \in {"read", "look"} => c = None, c = None => to \in {"read", "look", "store"},
         to = "store" => c # "other",
         to \in {"send", "wait", "save", "report"} => c \in {"connect", "disconnect"},
         to = "work" => c = "other"
  PROVE  /\ pc' \in [Keyboards -> KeyboardPlaces]
         /\ command' \in [Keyboards -> Commands \union {None}]
         /\ KeyboardsOK'
  BY DEF CInv, Types, KeyboardsOK, WithWIFI

LEMMA SameCommand ==
  ASSUME Types, command' = command, NEW k \in Keyboards
  PROVE  command' = [command EXCEPT ![k] = command[k]] /\ command[k] \in Commands \union {None}
  BY DEF Types

LEMMA LEDsSame ==
  ASSUME CInv, UNCHANGED ledVars
  PROVE  /\ LEDsOK'
         /\ seconds' \in [LEDs -> 0..Pending] /\ view' \in [LEDs -> 0..Pending]
         /\ lpc' \in [LEDs -> {"idle", "blink", "store", "test"}] /\ lost' \in [LEDs -> BOOLEAN]
  BY DEF CInv, Types, LEDsOK, ledVars

LEMMA CallbackKeeps ==
  ASSUME CInv, NEW k \in Keyboards, KeyEvent(k) \/ saveZoomConfigSetting(k) \/ Callback(k)
  PROVE  CInv'
  <1> USE DEF Goto, keyVars, wifiVars, netVars, confVars
  <1>0. /\ Types /\ KeyboardsOK /\ WIFIOK
        /\ pc[k] \in KeyboardPlaces /\ command[k] \in Commands \union {None}
        /\ None \notin Commands
    BY ConstantsAssumption DEF CInv, Types, Commands
  <1>1. PICK to \in KeyboardPlaces : pc' = [pc EXCEPT ![k] = to]
    BY DEF KeyEvent, Callback, getKeyboardCommand, clearAllKeyboardsControl, Begin, Work, Send,
           WaitUntil, saveWifiSetting, saveZoomConfigSetting, FileWriteBytes, GetLastError, Done, KeyboardPlaces
  <1>2. PICK c \in Commands \union {None} :
          /\ command' = [command EXCEPT ![k] = c]
          /\ to \in {"read", "look"} => c = None
          /\ c = None => to \in {"read", "look", "store"}
          /\ to = "store" => c # "other"
          /\ to \in {"send", "wait", "save", "report"} => c \in {"connect", "disconnect"}
          /\ to = "work" => c = "other"
    <2>0. pc'[k] = to
      BY <1>0, <1>1 DEF Types
    <2>1. CASE getKeyboardCommand(k)
      <3>1. pc'[k] = IF spelled = None THEN "read" ELSE "clear"
        BY <1>0, <2>1 DEF getKeyboardCommand, Types
      <3> QED  BY <1>0, <2>0, <2>1, <3>1 DEF getKeyboardCommand, Types
    <2>2. CASE Done(k)
      <3>1. pc'[k] = "read"
        BY <1>0, <2>2 DEF Done, Types
      <3> QED  BY <2>0, <2>2, <3>1 DEF Done
    <2>3. CASE command' = command
      <3>1. /\ to \in {"read", "look"} => command[k] = None
            /\ command[k] = None => to \in {"read", "look", "store"}
            /\ to = "store" => command[k] # "other"
        BY <1>0, <1>1, <2>0, <2>3
           DEF KeyEvent, Callback, getKeyboardCommand, clearAllKeyboardsControl, Begin, Work, Send,
               WaitUntil, saveWifiSetting, saveZoomConfigSetting, FileWriteBytes, GetLastError, Done,
               KeyboardsOK, Types, WithWIFI, Commands
      <3>2. to \in {"send", "wait", "save", "report"} => command[k] \in {"connect", "disconnect"}
        BY <1>0, <1>1, <2>0, <2>3
           DEF KeyEvent, Callback, getKeyboardCommand, clearAllKeyboardsControl, Begin, Work, Send,
               WaitUntil, saveWifiSetting, saveZoomConfigSetting, FileWriteBytes, GetLastError, Done,
               KeyboardsOK, Types, Commands, WithWIFI
      <3>3. to = "work" => command[k] = "other"
        BY <1>0, <1>1, <2>0, <2>3
           DEF KeyEvent, Callback, getKeyboardCommand, clearAllKeyboardsControl, Begin, Work, Send,
               WaitUntil, saveWifiSetting, saveZoomConfigSetting, FileWriteBytes, GetLastError, Done, Types
      <3> QED  BY <1>0, <2>3, <3>1, <3>2, <3>3, SameCommand
    <2> QED  BY <2>1, <2>2, <2>3
             DEF KeyEvent, Callback, clearAllKeyboardsControl, Begin, Work, Send,
                 WaitUntil, saveWifiSetting, saveZoomConfigSetting, FileWriteBytes, GetLastError
  <1>3. /\ pc' \in [Keyboards -> KeyboardPlaces]
        /\ command' \in [Keyboards -> Commands \union {None}] /\ KeyboardsOK'
    BY <1>1, <1>2, KeyboardStep
  <1>4. /\ LEDsOK'
        /\ seconds' \in [LEDs -> 0..Pending] /\ view' \in [LEDs -> 0..Pending]
        /\ lpc' \in [LEDs -> {"idle", "blink", "store", "test"}] /\ lost' \in [LEDs -> BOOLEAN]
    <2>1. \/ UNCHANGED ledVars
          \/ \E l \in LEDs, n \in {Success, Failure, Pending} : Blink(l, n)
      BY DEF KeyEvent, Callback, getKeyboardCommand, clearAllKeyboardsControl, Begin, Work, Send,
             WaitUntil, saveWifiSetting, saveZoomConfigSetting, FileWriteBytes, GetLastError, Done, LEDs
    <2> QED  BY <2>1, LEDsSame, BlinkKeeps
  <1>5. WIFIOK' /\ wpc' \in {"receive", "check", "connect", "disconnect"}
               /\ operation' \in (Commands \ {"other"}) \union {None}
    <2>1. CASE UNCHANGED <<wpc, operation>>
      BY <1>0, <2>1 DEF WIFIOK, Types
    <2>2. CASE Send(k)
      <3>1. command[k] \in {"connect", "disconnect"} /\ command[k] # None
        BY <1>0, <2>2 DEF Send, KeyboardsOK, WithWIFI
      <3> QED  BY <1>0, <2>2, <3>1 DEF Send, WIFIOK, Commands
    <2> QED  BY <2>1, <2>2
             DEF KeyEvent, Callback, getKeyboardCommand, clearAllKeyboardsControl, Begin, Work,
                 WaitUntil, saveWifiSetting, saveZoomConfigSetting, FileWriteBytes, GetLastError, Done
  <1>6. UNCHANGED <<net, supplicant>> /\ spelled' \in Commands \union {None}
    BY <1>0 DEF KeyEvent, Callback, getKeyboardCommand, clearAllKeyboardsControl, Begin, Work, Send,
                WaitUntil, saveWifiSetting, saveZoomConfigSetting, FileWriteBytes, GetLastError, Done,
                Types
  <1>7. managed' \in Settings /\ saved' \in Settings /\ text' \in [Keyboards -> Settings]
    <2>1. managed \in Settings /\ saved \in Settings /\ text \in [Keyboards -> Settings]
      BY <1>0 DEF Types
    <2>2. managed' = managed \/ managed' = Goal(k)
      BY Zenon
         DEF KeyEvent, Callback, getKeyboardCommand, clearAllKeyboardsControl, Begin, Work, Send,
             WaitUntil, saveWifiSetting, saveZoomConfigSetting, FileWriteBytes, GetLastError, Done
    <2>3. saved' = saved \/ saved' = text[k] \/ saved' = "off/any"
      BY DEF KeyEvent, Callback, getKeyboardCommand, clearAllKeyboardsControl, Begin, Work, Send,
             WaitUntil, saveWifiSetting, saveZoomConfigSetting, FileWriteBytes, Marshal, GetLastError,
             Done
    <2>4. \/ text' = text \/ text' = [text EXCEPT ![k] = managed']
          \/ text' = [text EXCEPT ![k] = "off/any"]
      BY Zenon
         DEF KeyEvent, Callback, getKeyboardCommand, clearAllKeyboardsControl, Begin, Work, Send,
             WaitUntil, saveWifiSetting, saveZoomConfigSetting, FileWriteBytes, Marshal, GetLastError,
             Done
    <2> QED  BY <2>1, <2>2, <2>3, <2>4 DEF Settings, Goal
  <1>8. overlapped' \in BOOLEAN
    <2>1. overlapped \in BOOLEAN
      BY <1>0 DEF Types
    <2> QED  BY <2>1, Zenon
             DEF KeyEvent, Callback, getKeyboardCommand, clearAllKeyboardsControl, Begin, Work, Send,
                 WaitUntil, saveWifiSetting, saveZoomConfigSetting, FileWriteBytes, Marshal,
                 GetLastError, Done
  <1>9. faults' \in Nat
    <2>1. faults \in Nat
      BY <1>0 DEF Types
    <2>2. faults' = faults \/ faults' = faults + 1
      BY Zenon
         DEF KeyEvent, Callback, getKeyboardCommand, clearAllKeyboardsControl, Begin, Work, Send,
             WaitUntil, saveWifiSetting, saveZoomConfigSetting, FileWriteBytes, GetLastError, Done,
             Fault, Well
    <2> QED  BY <2>1, <2>2
  <1>10. Types'
    BY <1>0, <1>3, <1>4, <1>5, <1>6, <1>7, <1>8, <1>9 DEF Types
  <1> QED  BY <1>3, <1>4, <1>5, <1>10 DEF CInv

LEMMA WIFIKeeps ==
  ASSUME CInv, WIFIControl \/ Associate
  PROVE  CInv'
  <1> USE DEF keyVars, wifiVars, netVars, confVars
  <1>1. UNCHANGED <<spelled, pc, command, managed, saved, text, ledVars, overlapped>>
    BY DEF WIFIControl, CheckFails, Check, connect, disconnect, Associate
  <1>2. /\ WIFIOK' /\ wpc' \in {"receive", "check", "connect", "disconnect"}
        /\ operation' \in (Commands \ {"other"}) \union {None}
        /\ net' \in {"on", "off/any"} /\ supplicant' \in {"none", "good", "bad"} /\ faults' \in Nat
    BY ConstantsAssumption
       DEF WIFIControl, CheckFails, Check, connect, disconnect, Associate, OperationEnds,
           CInv, Types, WIFIOK, Fault, Well, Commands
  <1>3. KeyboardsOK' /\ LEDsOK'
    BY <1>1, LEDsSame DEF CInv, KeyboardsOK, WithWIFI
  <1>4. Types'
    BY <1>1, <1>2, LEDsSame DEF CInv, Types
  <1> QED  BY <1>2, <1>3, <1>4 DEF CInv

LEMMA LEDKeeps ==
  ASSUME CInv, NEW l \in LEDs, LED(l)
  PROVE  CInv'
  <1> USE DEF keyVars, wifiVars, netVars, confVars
  <1>1. /\ UNCHANGED <<spelled, pc, command, wpc, operation, net, supplicant, managed, saved, text>>
        /\ UNCHANGED <<faults, overlapped, lost>>
    BY DEF LED, StartsBlinking, LoadSeconds, StoreSeconds, StopsBlinking
  <1>2. /\ seconds \in [LEDs -> 0..Pending] /\ view \in [LEDs -> 0..Pending]
        /\ lpc \in [LEDs -> {"idle", "blink", "store", "test"}] /\ LEDsOK
        /\ \A m \in LEDs : seconds[m] \in Nat /\ view[m] \in Nat
    BY Numbers DEF CInv, Types
  <1>3. \A m \in LEDs \ {l} : lpc'[m] = lpc[m] /\ seconds'[m] = seconds[m] /\ view'[m] = view[m]
    BY <1>2 DEF LED, StartsBlinking, LoadSeconds, StoreSeconds, StopsBlinking
  <1>4. /\ seconds' \in [LEDs -> 0..Pending] /\ view' \in [LEDs -> 0..Pending]
        /\ lpc' \in [LEDs -> {"idle", "blink", "store", "test"}]
    BY <1>2, Numbers DEF LED, StartsBlinking, LoadSeconds, StoreSeconds, StopsBlinking
  <1>5. /\ lpc'[l] = "blink" => seconds'[l] > 0
        /\ lpc'[l] = "store" => view'[l] > 0
        /\ lost[l] => \/ lpc'[l] = "store" /\ view'[l] = Pending
                      \/ lpc'[l] \in {"blink", "test"} /\ seconds'[l] = Pending
    <2>1. CASE StartsBlinking(l)
      BY <1>2, <2>1 DEF StartsBlinking, LEDsOK
    <2>2. CASE LoadSeconds(l)
      BY <1>2, <2>2 DEF LoadSeconds, LEDsOK
    <2>3. CASE StoreSeconds(l)
      BY <1>2, <2>3, Numbers DEF StoreSeconds, LEDsOK
    <2>4. CASE StopsBlinking(l)
      BY <1>2, <2>4, Numbers DEF StopsBlinking, LEDsOK
    <2> QED  BY <2>1, <2>2, <2>3, <2>4 DEF LED
  <1>6. LEDsOK'
    BY <1>1, <1>2, <1>3, <1>5 DEF LEDsOK
  <1>7. KeyboardsOK' /\ WIFIOK'
    BY <1>1 DEF CInv, KeyboardsOK, WIFIOK, WithWIFI
  <1>8. Types'
    BY <1>1, <1>4 DEF CInv, Types
  <1> QED  BY <1>6, <1>7, <1>8 DEF CInv

LEMMA NextCInv == CInv /\ [Next]_vars => CInv'
  <1>1. ASSUME CInv, UNCHANGED vars PROVE CInv'
    BY <1>1 DEF CInv, Types, KeyboardsOK, WIFIOK, LEDsOK, WithWIFI, vars, keyVars, wifiVars,
                netVars, confVars, ledVars
  <1> QED  BY <1>1, CallbackKeeps, WIFIKeeps, LEDKeeps DEF Next

LEMMA InitCInv == Init => CInv
  <1> SUFFICES ASSUME Init PROVE CInv  OBVIOUS
  <1>1. 0 \in 0..Pending
    BY Numbers
  <1>2. Types
    BY <1>1, ConstantsAssumption DEF Init, Types, KeyboardPlaces, Commands, Settings
  <1>3. KeyboardsOK /\ WIFIOK /\ LEDsOK
    BY DEF Init, KeyboardsOK, WIFIOK, LEDsOK
  <1> QED  BY <1>2, <1>3 DEF CInv

(* A keyboard has a command while its callback runs one, unless it saves   *)
(* the configuration for the zoom keys, which are no command; the loop     *)
(* of WIFIControl works exactly while it has an operation, and the seconds *)
(* of an LED do not run below zero, though stores come in between.         *)
THEOREM TypesCorrect == Spec => []TypeOK
  <1>1. CInv => TypeOK
    <2> SUFFICES ASSUME CInv PROVE TypeOK  OBVIOUS
    <2> QED  BY DEF CInv, Types, KeyboardsOK, WIFIOK, LEDsOK, TypeOK
  <1> QED  BY <1>1, InitCInv, NextCInv, PTL DEF Spec

-----------------------------------------------------------------------------
(* The setting.  No two keyboards have been at the WIFI at once, and       *)
(* nothing has failed.                                                     *)
Calm == ~overlapped /\ faults = 0

Active(k)  == WithWIFI(k) /\ pc[k] \notin {"clear", "begin"}
Waiting(k) == WithWIFI(k) /\ pc[k] = "wait"
(* The operation of the WIFI's loop is to change the network.              *)
Changing == wpc # "receive" /\ (net = "on") # (operation = "connect")

(* What will change the network is what the only keyboard at the WIFI      *)
(* waits for: an operation, or a wpa_supplicant that is not connected yet; *)
(* afterwards the network is as it wants.                                  *)
Kept ==
    /\ \A j, k \in Keyboards : Active(j) /\ Active(k) => j = k
    /\ net = "on" => supplicant = "good"
    /\ net # "on" /\ supplicant # "none" =>
         wpc = "receive" /\ \E k \in Keyboards : Waiting(k) /\ command[k] = "connect"
    /\ Changing => \E k \in Keyboards : Waiting(k) /\ command[k] = operation
    /\ wpc \in {"connect", "disconnect"} => Changing
    /\ \A k \in Keyboards : WithWIFI(k) /\ pc[k] \in {"save", "store", "report", "done"} => net = Goal(k)

(* The configuration in memory differs from the network only while the     *)
(* keyboard waits or is about to set it, and its file only until that has  *)
(* written it; a Save writes what the configuration is.                    *)
FileKept ==
    /\ \/ \E k \in Keyboards : WithWIFI(k) /\ pc[k] \in {"wait", "save"}
       \/ managed = net
    /\ \/ \E k \in Keyboards : WithWIFI(k) /\ pc[k] \in {"wait", "save", "store"}
       \/ saved = net
    /\ \A j, k \in Keyboards : pc[j] = "store" /\ pc[k] = "store" => j = k
    /\ \A k \in Keyboards : pc[k] = "store" => text[k] = managed

SInv == CInv /\ (Calm => Kept /\ FileKept)

(* A keyboard that is not at the WIFI before nor after its step.           *)
LEMMA OthersKeepSetting ==
  ASSUME SInv, Calm, UNCHANGED <<net, supplicant, wpc, operation>>,
         \A k \in Keyboards :
           \/ pc'[k] = pc[k] /\ command'[k] = command[k]
           \/ ~(WithWIFI(k) /\ pc[k] \in {"send", "wait", "save", "store"}) /\ ~Active(k)'
  PROVE  Kept'
  <1>1. Kept
    BY DEF SInv
  <1>2. \A k \in Keyboards :
          /\ Active(k)' => Active(k) /\ pc'[k] = pc[k] /\ command'[k] = command[k]
          /\ WithWIFI(k) /\ pc[k] \in {"wait", "save", "store"} =>
               pc'[k] = pc[k] /\ command'[k] = command[k]
    BY DEF Active, WithWIFI
  <1>3. Changing' <=> Changing
    BY DEF Changing
  <1>4. \A k \in Keyboards : Waiting(k) => Waiting(k)' /\ command'[k] = command[k]
    BY <1>2 DEF Waiting, WithWIFI
  <1>5. \A k \in Keyboards : WithWIFI(k)' /\ pc'[k] \in {"save", "store", "report", "done"} =>
          WithWIFI(k) /\ pc[k] \in {"save", "store", "report", "done"} /\ command'[k] = command[k]
    BY <1>2 DEF Active, WithWIFI
  <1> QED  BY <1>1, <1>2, <1>3, <1>4, <1>5 DEF Kept, Goal

(* What is calm after a step was calm before it, and nothing failed in it. *)
LEMMA KeyboardCalm ==
  ASSUME SInv, NEW k \in Keyboards, KeyEvent(k) \/ saveZoomConfigSetting(k) \/ Callback(k), Calm'
  PROVE  Calm /\ faults' # faults + 1
  <1>0. overlapped \in BOOLEAN /\ faults \in Nat
    BY DEF SInv, CInv, Types
  <1>1. overlapped => overlapped'
    BY DEF KeyEvent, Callback, getKeyboardCommand, clearAllKeyboardsControl, Begin, Work, Send,
           WaitUntil, saveWifiSetting, saveZoomConfigSetting, FileWriteBytes, Marshal, GetLastError, Done
  <1>2. faults' = faults \/ faults' = faults + 1
    BY DEF KeyEvent, Callback, getKeyboardCommand, clearAllKeyboardsControl, Begin, Work, Send,
           WaitUntil, saveWifiSetting, saveZoomConfigSetting, FileWriteBytes, GetLastError, Done,
           Fault, Well
  <1> QED  BY <1>0, <1>1, <1>2 DEF Calm

LEMMA WIFICalm ==
  ASSUME SInv, WIFIControl \/ Associate, Calm'
  PROVE  Calm /\ faults' # faults + 1 /\ (faults' = faults \/ faults' = faults + 1)
  <1>0. overlapped \in BOOLEAN /\ faults \in Nat /\ overlapped' = overlapped
    BY DEF SInv, CInv, Types, WIFIControl, CheckFails, Check, connect, disconnect, Associate
  <1>1. faults' = faults \/ faults' = faults + 1
    BY DEF WIFIControl, CheckFails, Check, connect, disconnect, Associate, Fault, Well
  <1> QED  BY <1>0, <1>1 DEF Calm

(* The steps of a keyboard at the WIFI.                                    *)
LEMMA KeyboardKeepsSetting ==
  ASSUME SInv, NEW k \in Keyboards, KeyEvent(k) \/ saveZoomConfigSetting(k) \/ Callback(k), Calm'
  PROVE  Kept'
  <1> USE DEF Goto, keyVars, wifiVars, netVars, confVars
  <1>0. /\ CInv /\ Types /\ KeyboardsOK /\ WIFIOK
        /\ overlapped \in BOOLEAN /\ faults \in Nat /\ Commands = {"connect", "disconnect", "other"}
        /\ \A j \in Keyboards : pc[j] \in KeyboardPlaces /\ command[j] \in Commands \union {None}
        /\ None \notin Commands
    BY ConstantsAssumption DEF SInv, CInv, Types, Commands
  <1>1. Calm /\ Kept
    BY KeyboardCalm DEF SInv
  <1>2. \A j \in Keyboards \ {k} : pc'[j] = pc[j] /\ command'[j] = command[j]
    BY <1>0 DEF KeyEvent, Callback, getKeyboardCommand, clearAllKeyboardsControl, Begin, Work, Send,
                WaitUntil, saveWifiSetting, saveZoomConfigSetting, FileWriteBytes, GetLastError, Done, Types
  <1>3. faults' # faults + 1
    BY <1>0, <1>1 DEF Calm
  <1>4. ASSUME Active(k)', Active(k)
        PROVE  \A i, j \in Keyboards : Active(i)' /\ Active(j)' => i = j
    BY <1>1, <1>2, <1>4 DEF Kept, Active, WithWIFI
  <1>5. ASSUME UNCHANGED <<net, supplicant, wpc, operation>>, ~Active(k)',
               ~(WithWIFI(k) /\ pc[k] \in {"send", "wait", "save", "store"})
        PROVE  Kept'
    BY <1>1, <1>2, <1>5, OthersKeepSetting
  <1>12. CASE KeyEvent(k) \/ getKeyboardCommand(k) \/ clearAllKeyboardsControl(k) \/ Work(k)
    <2>1. UNCHANGED <<net, supplicant, wpc, operation>>
      BY <1>12 DEF KeyEvent, getKeyboardCommand, clearAllKeyboardsControl, Work
    <2>2. ~Active(k)' /\ ~(WithWIFI(k) /\ pc[k] \in {"send", "wait", "save", "store"})
      <3>1. CASE KeyEvent(k)
        BY <1>0, <3>1 DEF KeyEvent, Active, WithWIFI, KeyboardsOK, Types
      <3>2. CASE getKeyboardCommand(k)
        BY <1>0, <3>2 DEF getKeyboardCommand, Active, WithWIFI, KeyboardsOK, Types
      <3>3. CASE clearAllKeyboardsControl(k)
        BY <1>0, <3>3 DEF clearAllKeyboardsControl, Active, WithWIFI, Types
      <3>4. CASE Work(k)
        BY <1>0, <3>4 DEF Work, Active, WithWIFI, KeyboardsOK, Types
      <3> QED  BY <1>12, <3>1, <3>2, <3>3, <3>4
    <2> QED  BY <1>5, <2>1, <2>2
  <1>13. CASE saveZoomConfigSetting(k)
    <2>1. UNCHANGED <<net, supplicant, wpc, operation>>
      BY <1>13 DEF saveZoomConfigSetting
    <2>2. ~Active(k)' /\ ~(WithWIFI(k) /\ pc[k] \in {"send", "wait", "save", "store"})
      BY <1>0, <1>13 DEF saveZoomConfigSetting, Active, WithWIFI, KeyboardsOK, Types
    <2> QED  BY <1>5, <2>1, <2>2
  <1>6. CASE Begin(k)
    <2>1. /\ UNCHANGED <<net, supplicant, wpc, operation, managed, saved, text, command>> /\ pc[k] = "begin"
          /\ pc'[k] = IF command[k] = "other" THEN "work" ELSE "send"
          /\ WithWIFI(k) => \A j \in Keyboards \ {k} : ~Active(j)
      BY <1>0, <1>6 DEF Begin, Calm, Active, Types
    <2>2. \A i, j \in Keyboards : Active(i)' /\ Active(j)' => i = j
      BY <1>1, <1>2, <2>1 DEF Kept, Active, WithWIFI
    <2>3. \A j \in Keyboards :
            /\ Waiting(j) => Waiting(j)' /\ command'[j] = command[j]
            /\ pc'[j] \in {"save", "store", "report", "done"} => pc[j] \in {"save", "store", "report", "done"}
            /\ pc[j] \in {"wait", "save"} => pc'[j] \in {"wait", "save"}
      BY <1>2, <2>1 DEF Waiting, WithWIFI
    <2> QED  BY <1>1, <2>1, <2>2, <2>3 DEF Kept, Changing, Goal, WithWIFI
  <1>7. CASE Send(k)
    <2>1. /\ UNCHANGED <<net, supplicant, managed, saved, text, command>>
          /\ pc[k] = "send" /\ pc'[k] = "wait" /\ wpc' = "check" /\ operation' = command[k]
          /\ WithWIFI(k) /\ wpc = "receive"
      BY <1>0, <1>7 DEF Send, KeyboardsOK, Types
    <2>2. Active(k) /\ Active(k)' /\ Waiting(k)' /\ WithWIFI(k)'
      BY <2>1 DEF Active, Waiting, WithWIFI
    <2>3. net # "on" => supplicant = "none"
      <3>1. \A j \in Keyboards : ~Waiting(j)
        BY <1>1, <2>1, <2>2 DEF Kept, Active, Waiting
      <3> QED  BY <1>1, <3>1 DEF Kept
    <2>4. \A j \in Keyboards :
            WithWIFI(j)' /\ pc'[j] \in {"save", "store", "report", "done"} => net' = Goal(j)'
      BY <1>1, <1>2, <2>1 DEF Kept, WithWIFI, Goal
    <2> QED  BY <1>1, <1>4, <2>1, <2>2, <2>3, <2>4 DEF Kept
  <1>8. CASE WaitUntil(k)
    <2>1. /\ UNCHANGED <<net, supplicant, wpc, operation, managed, saved, text, command>>
          /\ pc[k] = "wait" /\ pc'[k] = "save" /\ net = Goal(k) /\ WithWIFI(k)
      BY <1>0, <1>3, <1>8 DEF WaitUntil, Fault, KeyboardsOK, Types
    <2>2. Active(k) /\ Active(k)' /\ WithWIFI(k)'
      BY <2>1 DEF Active, WithWIFI
    <2>3. /\ net # "on" => command[k] # "connect"
          /\ Changing => command[k] # operation
      BY <1>0, <2>1 DEF Goal, Changing, WithWIFI, WIFIOK, Types
    <2>4. \A j \in Keyboards : Waiting(j) /\ j # k => Waiting(j)' /\ command'[j] = command[j]
      BY <1>2 DEF Waiting, WithWIFI
    <2>5. \A j \in Keyboards :
            WithWIFI(j)' /\ pc'[j] \in {"save", "store", "report", "done"} => net' = Goal(j)'
      BY <1>1, <1>2, <2>1 DEF Kept, WithWIFI, Goal
    <2> QED  BY <1>1, <1>4, <2>1, <2>2, <2>3, <2>4, <2>5 DEF Kept, Changing
  <1>9. ASSUME UNCHANGED <<net, supplicant, wpc, operation, command>>, WithWIFI(k),
               pc[k] \in {"save", "store"}, pc'[k] \in {"store", "report"}
        PROVE  Kept'
    <2>1. /\ UNCHANGED <<net, supplicant, wpc, operation, command>> /\ WithWIFI(k)
          /\ pc[k] \in {"save", "store"} /\ pc'[k] \in {"store", "report"}
      BY <1>9
    <2>2. Active(k) /\ Active(k)' /\ WithWIFI(k)'
      BY <2>1 DEF Active, WithWIFI
    <2>3. net = Goal(k)
      BY <1>1, <2>1 DEF Kept
    <2>4. \A j \in Keyboards : Waiting(j) => Waiting(j)' /\ command'[j] = command[j]
      BY <1>2, <2>1 DEF Waiting, WithWIFI
    <2>5. \A j \in Keyboards :
            WithWIFI(j)' /\ pc'[j] \in {"save", "store", "report", "done"} => net' = Goal(j)'
      BY <1>1, <1>2, <2>1, <2>3 DEF Kept, WithWIFI, Goal
    <2> QED  BY <1>1, <1>4, <2>1, <2>2, <2>3, <2>4, <2>5 DEF Kept, Changing
  <1>10. CASE GetLastError(k) \/ Done(k)
    <2>1. /\ UNCHANGED <<net, supplicant, wpc, operation>>
          /\ pc[k] \in {"report", "done"} /\ pc'[k] \in {"done", "read"}
          /\ pc'[k] = "done" => command'[k] = command[k] /\ pc[k] = "report"
          /\ pc'[k] = "read" => command'[k] = None
      BY <1>0, <1>10 DEF GetLastError, Done, Types
    <2>2. CASE pc'[k] = "read"
      <3>1. ~Active(k)'
        BY <1>0, <2>1, <2>2 DEF Active, WithWIFI
      <3> QED  BY <1>1, <1>2, <2>1, <3>1, OthersKeepSetting
    <2>3. CASE pc'[k] = "done"
      <3>1. WithWIFI(k) /\ WithWIFI(k)' /\ Active(k) /\ Active(k)' /\ command'[k] = command[k]
        BY <1>0, <2>1, <2>3 DEF KeyboardsOK, WithWIFI, Active
      <3>2. \A j \in Keyboards : Waiting(j) => Waiting(j)' /\ command'[j] = command[j]
        BY <1>2, <2>1 DEF Waiting, WithWIFI
      <3>3. \A j \in Keyboards :
              WithWIFI(j)' /\ pc'[j] \in {"save", "store", "report", "done"} => net' = Goal(j)'
        BY <1>1, <1>2, <2>1, <2>3, <3>1 DEF Kept, WithWIFI, Goal
      <3> QED  BY <1>1, <1>4, <2>1, <3>1, <3>2, <3>3 DEF Kept, Changing
    <2> QED  BY <2>1, <2>2, <2>3
  <1>11. CASE FileWriteBytes(k)
    <2>1. /\ UNCHANGED <<net, supplicant, wpc, operation, command>> /\ pc[k] = "store"
          /\ pc'[k] = IF command[k] = None THEN "read" ELSE "report"
      BY <1>0, <1>11 DEF FileWriteBytes, Types
    <2>2. CASE command[k] = None
      BY <1>0, <1>5, <2>1, <2>2 DEF Active, WithWIFI
    <2>3. CASE command[k] # None
      BY <1>0, <1>9, <2>1, <2>3 DEF KeyboardsOK, WithWIFI
    <2> QED  BY <2>2, <2>3
  <1>14. CASE saveWifiSetting(k)
    <2>1. /\ UNCHANGED <<net, supplicant, wpc, operation, command>> /\ WithWIFI(k)
          /\ pc[k] = "save" /\ pc'[k] = "store"
      BY <1>0, <1>14 DEF saveWifiSetting, KeyboardsOK, Types
    <2> QED  BY <1>9, <2>1
  <1> QED  BY <1>6, <1>7, <1>8, <1>10, <1>11, <1>12, <1>13, <1>14 DEF Callback

(* The steps of the WIFI and of wpa_supplicant.                            *)
LEMMA WIFIKeepsSetting ==
  ASSUME SInv, WIFIControl \/ Associate, Calm'
  PROVE  Kept'
  <1> USE DEF keyVars, wifiVars, netVars, confVars
  <1>0. /\ CInv /\ Types /\ WIFIOK
        /\ overlapped \in BOOLEAN /\ faults \in Nat
        /\ net \in {"on", "off/any"} /\ supplicant \in {"none", "good", "bad"}
        /\ operation \in {"connect", "disconnect", None}
        /\ UNCHANGED <<pc, command, managed, saved, text, overlapped>>
    BY DEF SInv, CInv, Types, Commands, WIFIControl, CheckFails, Check, connect, disconnect, Associate
  <1>1. (faults' = faults \/ faults' = faults + 1) /\ Calm /\ Kept /\ faults' # faults + 1
    BY WIFICalm DEF SInv
  <1>2. \A k \in Keyboards : /\ Active(k)' <=> Active(k)
                             /\ Waiting(k)' <=> Waiting(k)
                             /\ WithWIFI(k)' <=> WithWIFI(k)
                             /\ Waiting(k) => Active(k) /\ WithWIFI(k)
    BY <1>0 DEF Active, Waiting, WithWIFI
  <1>3. CASE CheckFails \/ Check
    <2>1. /\ UNCHANGED <<net, supplicant>> /\ wpc = "check"
          /\ \/ wpc' = "receive" /\ ~Changing
             \/ wpc' = operation /\ operation' = operation /\ Changing
      BY <1>0, <1>1, <1>3 DEF CheckFails, Check, OperationEnds, Fault, Well, Changing
    <2>2. ~(net # "on" /\ supplicant # "none")
      BY <1>1, <2>1 DEF Kept
    <2>3. Changing' => Changing /\ operation' = operation
      BY <1>0, <2>1 DEF Changing
    <2>4. wpc' \in {"connect", "disconnect"} => Changing'
      BY <1>0, <2>1 DEF Changing
    <2> QED  BY <1>0, <1>1, <1>2, <2>1, <2>2, <2>3, <2>4 DEF Kept, Goal, WithWIFI, Active, Waiting
  <1>4. ASSUME NEW k \in Keyboards, Waiting(k), net' = Goal(k), net' = "on" => supplicant' = "good",
               net' # "on" => supplicant' = "none", wpc' = "receive"
        PROVE  Kept'
    <2>1. \A j \in Keyboards : WithWIFI(j) /\ pc[j] \in {"save", "store", "report", "done"} => FALSE
      BY <1>1, <1>2, <1>4 DEF Kept, Active, Waiting
    <2>2. ~Changing'
      BY <1>4 DEF Changing
    <2>3. WithWIFI(k)' /\ pc'[k] = "wait"
      BY <1>0, <1>2, <1>4 DEF Waiting
    <2>4. \A i, j \in Keyboards : Active(i)' /\ Active(j)' => i = j
      BY <1>1, <1>2 DEF Kept
    <2>5. \A j \in Keyboards : ~(WithWIFI(j)' /\ pc'[j] \in {"save", "store", "report", "done"})
      BY <1>0, <1>2, <2>1
    <2> QED  BY <1>4, <2>2, <2>3, <2>4, <2>5 DEF Kept
  <1>5. CASE connect
    <2>1. /\ UNCHANGED net /\ wpc' = "receive" /\ Changing /\ operation = "connect" /\ net # "on"
      BY <1>0, <1>1, <1>5 DEF connect, OperationEnds, Fault, Kept, Changing, WIFIOK
    <2>2. PICK k \in Keyboards : Waiting(k) /\ command[k] = "connect"
      BY <1>1, <2>1 DEF Kept
    <2>3. ~Changing' /\ Waiting(k)' /\ command'[k] = "connect"
      BY <1>0, <1>2, <2>1, <2>2 DEF Changing
    <2> QED  BY <1>0, <1>1, <1>2, <2>1, <2>3 DEF Kept, Goal, WithWIFI
  <1>6. CASE disconnect
    <2>1. /\ wpc' = "receive" /\ Changing /\ operation = "disconnect"
          /\ net' = "off/any" /\ supplicant' = "none"
      BY <1>0, <1>1, <1>6 DEF disconnect, OperationEnds, Fault, Kept, WIFIOK
    <2>2. PICK k \in Keyboards : Waiting(k) /\ command[k] = "disconnect"
      BY <1>1, <2>1 DEF Kept
    <2>3. net' = Goal(k)
      BY <2>1, <2>2 DEF Goal
    <2> QED  BY <1>4, <2>1, <2>2, <2>3
  <1>7. CASE Associate
    <2>1. /\ net # "on" /\ supplicant = "good" /\ net' = "on"
          /\ UNCHANGED <<supplicant, wpc>>
      BY <1>7 DEF Associate
    <2>2. wpc = "receive" /\ \E k \in Keyboards : Waiting(k) /\ command[k] = "connect"
      BY <1>1, <2>1 DEF Kept
    <2>3. PICK k \in Keyboards : Waiting(k) /\ net' = Goal(k)
      BY <2>1, <2>2 DEF Goal
    <2> QED  BY <1>4, <2>1, <2>2, <2>3
  <1> QED  BY <1>3, <1>5, <1>6, <1>7 DEF WIFIControl

(* A step that sets and saves nothing: the network changes only while a    *)
(* keyboard waits for it.                                                  *)
LEMMA QuietKeepsFile ==
  ASSUME FileKept, UNCHANGED <<managed, saved, text>>,
         \A k \in Keyboards : pc'[k] = "store" => pc[k] = "store",
         \A k \in Keyboards : /\ WithWIFI(k) /\ pc[k] \in {"wait", "save"} =>
                                   WithWIFI(k)' /\ pc'[k] \in {"wait", "save"}
                              /\ WithWIFI(k) /\ pc[k] \in {"wait", "save", "store"} =>
                                   WithWIFI(k)' /\ pc'[k] \in {"wait", "save", "store"},
         net' = net \/ \E k \in Keyboards : WithWIFI(k) /\ pc[k] = "wait"
  PROVE  FileKept'
  BY DEF FileKept

LEMMA KeyboardKeepsFile ==
  ASSUME SInv, NEW k \in Keyboards, KeyEvent(k) \/ saveZoomConfigSetting(k) \/ Callback(k), Calm'
  PROVE  FileKept'
  <1> USE DEF Goto, keyVars, wifiVars, netVars, confVars
  <1>0. /\ Types /\ KeyboardsOK /\ None \notin Commands /\ Commands = {"connect", "disconnect", "other"}
    BY ConstantsAssumption DEF SInv, CInv, Commands
  <1>1. Calm /\ Kept /\ FileKept /\ faults' # faults + 1
    BY KeyboardCalm DEF SInv
  <1>2. /\ UNCHANGED net
        /\ \A j \in Keyboards \ {k} : pc'[j] = pc[j] /\ command'[j] = command[j]
    BY <1>0 DEF KeyEvent, Callback, getKeyboardCommand, clearAllKeyboardsControl, Begin, Work, Send,
                WaitUntil, saveWifiSetting, saveZoomConfigSetting, FileWriteBytes, GetLastError, Done,
                Types
  <1>3. CASE \/ KeyEvent(k) \/ getKeyboardCommand(k) \/ clearAllKeyboardsControl(k) \/ Begin(k)
             \/ Work(k) \/ Send(k) \/ WaitUntil(k) \/ GetLastError(k) \/ Done(k)
    <2>1. UNCHANGED <<managed, saved, text>> /\ pc'[k] # "store"
      BY <1>0, <1>3 DEF KeyEvent, getKeyboardCommand, clearAllKeyboardsControl, Begin, Work, Send,
                        WaitUntil, GetLastError, Done, Types
    <2>2. /\ WithWIFI(k) /\ pc[k] \in {"wait", "save"} => WithWIFI(k)' /\ pc'[k] \in {"wait", "save"}
          /\ pc[k] # "store"
      BY <1>0, <1>3 DEF KeyEvent, getKeyboardCommand, clearAllKeyboardsControl, Begin, Work, Send,
                        WaitUntil, GetLastError, Done, Types, WithWIFI
    <2>3. \A j \in Keyboards : pc'[j] = "store" => pc[j] = "store"
      BY <1>2, <2>1
    <2>4. \A j \in Keyboards : WithWIFI(j) /\ pc[j] \in {"wait", "save"} =>
            WithWIFI(j)' /\ pc'[j] \in {"wait", "save"}
      BY <1>2, <2>2 DEF WithWIFI
    <2>5. \A j \in Keyboards : WithWIFI(j) /\ pc[j] \in {"wait", "save", "store"} =>
            WithWIFI(j)' /\ pc'[j] \in {"wait", "save", "store"}
      BY <1>2, <2>2 DEF WithWIFI
    <2> QED  BY <1>1, <1>2, <2>1, <2>3, <2>4, <2>5, QuietKeepsFile
  <1>4. CASE saveWifiSetting(k)
    <2>1. /\ pc[k] = "save" /\ pc'[k] = "store" /\ command' = command /\ WithWIFI(k)
          /\ managed' = Goal(k) /\ saved' = saved
          /\ text' = [text EXCEPT ![k] = managed']
          /\ \A j \in Keyboards \ {k} : pc[j] # "store"
      BY <1>0, <1>4 DEF saveWifiSetting, Marshal, KeyboardsOK, Types, Calm
    <2>2. managed' = net'
      BY <1>1, <1>2, <2>1 DEF Kept, Goal
    <2>3. \E j \in Keyboards : WithWIFI(j)' /\ pc'[j] \in {"wait", "save", "store"}
      BY <2>1 DEF WithWIFI
    <2>4. text'[k] = managed'
      BY <1>0, <2>1 DEF Types
    <2> QED  BY <1>2, <2>1, <2>2, <2>3, <2>4 DEF FileKept, WithWIFI
  <1>5. CASE saveZoomConfigSetting(k)
    <2>1. /\ pc[k] = "read" /\ pc'[k] = "store" /\ UNCHANGED <<command, managed, saved>> /\ ~WithWIFI(k)
          /\ text' = [text EXCEPT ![k] = managed]
          /\ \A j \in Keyboards \ {k} : pc[j] # "store"
      BY <1>0, <1>5 DEF saveZoomConfigSetting, Marshal, KeyboardsOK, WithWIFI, Types, Calm
    <2>2. text'[k] = managed'
      BY <1>0, <2>1 DEF Types
    <2>3. \A j \in Keyboards : /\ WithWIFI(j) => WithWIFI(j)' /\ pc'[j] = pc[j]
      BY <1>2, <2>1 DEF WithWIFI
    <2> QED  BY <1>1, <1>2, <2>1, <2>2, <2>3 DEF FileKept, WithWIFI
  <1>6. CASE FileWriteBytes(k)
    <2>1. /\ pc[k] = "store" /\ pc'[k] \in {"read", "report"} /\ UNCHANGED <<command, managed>>
          /\ saved' = text[k] /\ text' = [text EXCEPT ![k] = "off/any"]
      BY <1>0, <1>1, <1>6 DEF FileWriteBytes, Types, Fault
    <2>2. saved' = managed /\ \A j \in Keyboards : pc'[j] # "store"
      BY <1>1, <1>2, <2>1 DEF FileKept
    <2>3. \A j \in Keyboards : WithWIFI(j) /\ pc[j] \in {"wait", "save"} =>
            WithWIFI(j)' /\ pc'[j] \in {"wait", "save"}
      BY <1>2, <2>1 DEF WithWIFI
    <2> QED  BY <1>1, <1>2, <2>1, <2>2, <2>3 DEF FileKept, WithWIFI
  <1> QED  BY <1>3, <1>4, <1>5, <1>6 DEF Callback

LEMMA WIFIKeepsFile ==
  ASSUME SInv, WIFIControl \/ Associate, Calm'
  PROVE  FileKept'
  <1>1. Calm /\ Kept /\ FileKept
    BY WIFICalm DEF SInv
  <1>2. UNCHANGED <<pc, command, managed, saved, text>>
    BY DEF WIFIControl, CheckFails, Check, connect, disconnect, Associate, confVars
  <1>3. net' = net \/ \E k \in Keyboards : WithWIFI(k) /\ pc[k] = "wait"
    <2>1. CASE disconnect
      BY <1>1, <2>1 DEF disconnect, Kept, Waiting
    <2>2. CASE Associate
      BY <1>1, <2>2 DEF Associate, Kept, Waiting
    <2>3. CASE CheckFails \/ Check \/ connect
      BY <2>3 DEF CheckFails, Check, connect, netVars
    <2> QED  BY <2>1, <2>2, <2>3 DEF WIFIControl
  <1>4. \A k \in Keyboards : WithWIFI(k)' <=> WithWIFI(k)
    BY <1>2 DEF WithWIFI
  <1> QED  BY <1>1, <1>2, <1>3, <1>4, QuietKeepsFile

LEMMA NextSInv == SInv /\ [Next]_vars => SInv'
  <1> SUFFICES ASSUME SInv, [Next]_vars, Calm' PROVE Kept' /\ FileKept'
    BY NextCInv DEF SInv
  <1>1. ASSUME UNCHANGED <<pc, command, net, supplicant, wpc, operation, managed, saved, text,
                           overlapped, faults>>
        PROVE  Kept' /\ FileKept'
    <2>1. Calm /\ FileKept
      BY <1>1 DEF Calm, SInv
    <2>2. FileKept'
      BY <1>1, <2>1, QuietKeepsFile DEF WithWIFI
    <2> QED  BY <1>1, <2>1, <2>2, OthersKeepSetting
  <1>2. ASSUME NEW l \in LEDs, LED(l) PROVE Kept' /\ FileKept'
    BY <1>1, <1>2 DEF LED, StartsBlinking, LoadSeconds, StoreSeconds, StopsBlinking, wifiVars, netVars,
                      confVars
  <1>3. CASE UNCHANGED vars
    BY <1>1, <1>3 DEF vars, wifiVars, netVars, confVars
  <1> QED  BY <1>2, <1>3, KeyboardKeepsSetting, WIFIKeepsSetting, KeyboardKeepsFile, WIFIKeepsFile
           DEF Next

LEMMA InitSInv == Init => SInv
  <1> SUFFICES ASSUME Init PROVE SInv  OBVIOUS
  <1>1. \A k \in Keyboards : ~WithWIFI(k)
    BY ConstantsAssumption DEF Init, WithWIFI
  <1>2. Kept
    BY <1>1 DEF Init, Kept, Active, Waiting, Changing
  <1>3. FileKept
    BY DEF Init, FileKept
  <1> QED  BY <1>2, <1>3, InitCInv DEF SInv

(* When all commands have ended, what saveWifiSetting has left in the main *)
(* configuration for the next start is how the WIFI is, although commands  *)
(* wait for the network and not for the loop of WIFIControl; two keyboards *)
(* at the WIFI at once, failures and a bad password are excused.           *)
THEOREM SettingIsKept == Spec => []SettingKept
  <1>1. SInv => SettingKept
    <2> SUFFICES ASSUME SInv, \A k \in Keyboards : pc[k] = "read", Calm PROVE saved = net
      BY DEF SettingKept, Calm
    <2> QED  BY DEF SInv, FileKept
  <1> QED  BY <1>1, InitSInv, NextSInv, PTL DEF Spec
==============================================================================
