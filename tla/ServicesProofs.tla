---------------------------- MODULE ServicesProofs ----------------------------
(***************************************************************************)
(* That the Amiga never starts without something that has been there from  *)
(* the start, for all media, files and interleavings of the two polls.     *)
(*                                                                         *)
(* The argument: a poll that is seen idle has come to the end of its       *)
(* callbacks after at least one look, so it has attached what was there    *)
(* (Seen).  Seen lasts, since what is in boot is in every look.  Hence the *)
(* tests of servicesIdleCallback, though each is outdated when the next is *)
(* made, establish Seen of both polls before initializing is cleared, and  *)
(* nothing else lets the emulator run.                                     *)
(*                                                                         *)
(* And that SIGTERM leaves mounted only what could not be unmounted or was *)
(* mounted after it: what a round of unmountAll has not come to yet is in  *)
(* left, which each round fills again, whatever callbacks do meanwhile.    *)
(***************************************************************************)
EXTENDS Services, TLAPS

(* Poll p has attached what it found and what has been there all the time. *)
Seen(p) == boot \intersect Found(p) \subseteq old[p]
AllSeen == \A p \in Polls : Seen(p)

Places == {"look", "callbacks", "off", "initializing", "discovery", "blockDevices",
           "clear", "rerun"}

Types ==
    /\ pc \in [Polls -> Places]
    /\ old \in [Polls -> SUBSET (Media \union Files)]
    /\ new \in [Polls -> SUBSET (Media \union Files)]
    /\ current \in [Polls -> Media \union Files \union {None}]
    /\ isIdle \in [Polls -> BOOLEAN]
    /\ initializing \in BOOLEAN /\ rerunEmulator \in BOOLEAN /\ started \in BOOLEAN
    /\ boot \subseteq there /\ there \subseteq Media \union Files
    /\ \A p \in Polls : old[p] \union new[p] \subseteq Found(p)

(* A poll calls back with a look that has everything in boot; the callback *)
(* it is at is one for what it finds.                                      *)
CallsBack ==
    \A p \in Polls :
        /\ pc[p] = "callbacks" => boot \intersect Found(p) \subseteq new[p]
        /\ current[p] # None => pc[p] = "callbacks" /\ current[p] \in Found(p)

(* Until unmountAll, what stays in a look stays attached.                  *)
OldAttached ==
    shutdown = "no" => \A p \in Polls : boot \intersect old[p] \subseteq attached

(* What the tests of servicesIdleCallback have established.                *)
Handshake ==
    /\ \A p \in Polls :
         /\ isIdle[p] => Seen(p)
         /\ pc[p] = "blockDevices" => Seen("discovery")
         /\ pc[p] \in {"clear", "rerun"} => AllSeen
    /\ (~initializing \/ rerunEmulator \/ started) => AllSeen

BInv == Types /\ CallsBack /\ OldAttached /\ Handshake

-----------------------------------------------------------------------------
LEMMA InitBInv == Init => BInv
  <1> SUFFICES ASSUME Init PROVE BInv  OBVIOUS
  <1>1. Types
    <2>1. /\ pc \in [Polls -> Places]
          /\ current \in [Polls -> Media \union Files \union {None}]
          /\ isIdle \in [Polls -> BOOLEAN]
      BY DEF Init, Places
    <2>2. /\ initializing \in BOOLEAN /\ rerunEmulator \in BOOLEAN /\ started \in BOOLEAN
          /\ boot \subseteq there /\ there \subseteq Media \union Files
      BY DEF Init
    <2>3. /\ old \in [Polls -> SUBSET (Media \union Files)]
          /\ new \in [Polls -> SUBSET (Media \union Files)]
          /\ \A p \in Polls : old[p] \union new[p] \subseteq Found(p)
      BY DEF Init
    <2> QED  BY <2>1, <2>2, <2>3 DEF Types
  <1>2. CallsBack  BY DEF Init, CallsBack
  <1>3. OldAttached  BY DEF Init, OldAttached
  <1>4. Handshake  BY DEF Init, Handshake
  <1> QED  BY <1>1, <1>2, <1>3, <1>4 DEF BInv

(* The actions that change nothing BInv speaks of, but for the end.        *)
Elsewhere == \/ LookFails \/ ConfigFails \/ EmulatorQuits \/ stopServices \/ RoundEnd
             \/ BlockUntilRunning \/ (\E s \in {"SIGTERM", "SIGINT"} : Signal(s))
             \/ (\E p \in Polls : LoopEnds(p)) \/ UNCHANGED vars

LEMMA NextCases ==
  ASSUME [Next]_vars
  PROVE  \/ Plug \/ HardReset \/ Unmount \/ RunEmulator \/ Elsewhere
         \/ \E p \in Polls : \/ Look(p) \/ CallbackStart(p) \/ CallbackDone(p)
                             \/ CallbackRefused(p) \/ CallbackFails(p)
                             \/ CallbacksEnd(p) \/ servicesIdleCallback(p)
  BY DEF Next, Poll, gracefulShutdown, Outside, Elsewhere

LEMMA ElsewhereKeeps ==
  ASSUME Types, Elsewhere
  PROVE  /\ UNCHANGED <<initializing, rerunEmulator, old, new, current, isIdle, attached,
                        there, boot, started>>
         /\ pc' \in [Polls -> Places]
         /\ \A p \in Polls : pc'[p] # pc[p] => pc'[p] = "off" /\ pc[p] = "look"
         /\ shutdown' = "no" => shutdown = "no"
  <1>1. CASE LookFails
    <2>1. /\ UNCHANGED <<initializing, rerunEmulator, old, new, current, isIdle, attached,
                          there, boot, started, shutdown>>
          /\ pc["blockDevices"] = "look"
          /\ pc' = [pc EXCEPT !["blockDevices"] = "off"]
      BY <1>1 DEF LookFails, Stopped, Goto, startVars, ghosts
    <2> QED  BY <2>1 DEF Types, Places, Polls
  <1>2. CASE ConfigFails
    BY <1>2 DEF ConfigFails, startVars, pollVars, ghosts, Types
  <1>3. CASE EmulatorQuits
    BY <1>3 DEF EmulatorQuits, pollVars, endVars, world, ghosts, Types
  <1>4. CASE stopServices
    BY <1>4 DEF stopServices, startVars, pollVars, world, ghosts, Types
  <1>5. CASE RoundEnd
    BY <1>5 DEF RoundEnd, startVars, pollVars, world, ghosts, Types
  <1>6. CASE BlockUntilRunning
    BY <1>6 DEF BlockUntilRunning, startVars, pollVars, world, ghosts, Types
  <1>7. ASSUME NEW s \in {"SIGTERM", "SIGINT"}, Signal(s)
        PROVE  /\ UNCHANGED <<initializing, rerunEmulator, old, new, current, isIdle, attached,
                              there, boot, started>>
               /\ pc' \in [Polls -> Places]
               /\ \A p \in Polls : pc'[p] # pc[p] => pc'[p] = "off" /\ pc[p] = "look"
               /\ shutdown' = "no" => shutdown = "no"
    BY <1>7 DEF Signal, Stopped, Goto, startVars, world, Types, Places, Polls
  <1>8. ASSUME NEW p \in Polls, LoopEnds(p)
        PROVE  /\ UNCHANGED <<initializing, rerunEmulator, old, new, current, isIdle, attached,
                              there, boot, started>>
               /\ pc' \in [Polls -> Places]
               /\ \A q \in Polls : pc'[q] # pc[q] => pc'[q] = "off" /\ pc[q] = "look"
               /\ shutdown' = "no" => shutdown = "no"
    BY <1>8 DEF LoopEnds, Stopped, Goto, startVars, world, ghosts, Types, Places
  <1>9. CASE UNCHANGED vars
    BY <1>9 DEF vars, startVars, pollVars, endVars, world, ghosts, Types
  <1> QED  BY <1>1, <1>2, <1>3, <1>4, <1>5, <1>6, <1>7, <1>8, <1>9 DEF Elsewhere

-----------------------------------------------------------------------------
(* One step keeps BInv.  It is enough to look at the parts that the action *)
(* can disturb; Seen in a state is Seen in the next one.                   *)
LEMMA PlugKeeps == BInv /\ Plug => BInv'
  <1> SUFFICES ASSUME BInv, Plug PROVE BInv'  OBVIOUS
  <1>1. /\ UNCHANGED <<initializing, rerunEmulator, pc, old, new, current, isIdle, attached,
                       shutdown, started>>
        /\ boot' \subseteq boot
        /\ boot' \subseteq there' /\ there' \subseteq Media \union Files
    BY DEF Plug, BInv, Types, startVars, pollVars, endVars
  <1>2. \A p \in Polls : Seen(p) => Seen(p)'
    BY <1>1 DEF Seen
  <1>3. Types'  BY <1>1 DEF BInv, Types
  <1>4. CallsBack'  BY <1>1 DEF BInv, CallsBack
  <1>5. OldAttached'  BY <1>1 DEF BInv, OldAttached
  <1>6. Handshake'  BY <1>1, <1>2 DEF BInv, Handshake, AllSeen, Polls
  <1> QED  BY <1>3, <1>4, <1>5, <1>6 DEF BInv

LEMMA ElsewhereKeepsBInv == BInv /\ Elsewhere => BInv'
  <1> SUFFICES ASSUME BInv, Elsewhere PROVE BInv'  OBVIOUS
  <1>1. /\ UNCHANGED <<initializing, rerunEmulator, old, new, current, isIdle, attached,
                       there, boot, started>>
        /\ pc' \in [Polls -> Places]
        /\ \A p \in Polls : pc'[p] # pc[p] => pc'[p] = "off" /\ pc[p] = "look"
        /\ shutdown' = "no" => shutdown = "no"
    BY ElsewhereKeeps DEF BInv
  <1>2. \A p \in Polls : Seen(p) <=> Seen(p)'
    BY <1>1 DEF Seen
  <1>3. Types'  BY <1>1 DEF BInv, Types
  <1>4. CallsBack'  BY <1>1 DEF BInv, CallsBack
  <1>5. OldAttached'  BY <1>1 DEF BInv, OldAttached
  <1>6. Handshake'  BY <1>1, <1>2 DEF BInv, Handshake, AllSeen, Polls
  <1> QED  BY <1>3, <1>4, <1>5, <1>6 DEF BInv

LEMMA RunEmulatorKeeps == BInv /\ RunEmulator => BInv'
  <1> SUFFICES ASSUME BInv, RunEmulator PROVE BInv'  OBVIOUS
  <1>1. /\ UNCHANGED <<initializing, rerunEmulator, pc, old, new, current, isIdle, attached,
                       shutdown, there, boot>>
        /\ rerunEmulator /\ started' = TRUE
    BY DEF RunEmulator, pollVars, endVars, world
  <1>2. \A p \in Polls : Seen(p) <=> Seen(p)'
    BY <1>1 DEF Seen
  <1>3. Types'  BY <1>1 DEF BInv, Types
  <1>4. CallsBack'  BY <1>1 DEF BInv, CallsBack
  <1>5. OldAttached'  BY <1>1 DEF BInv, OldAttached
  <1>6. Handshake'  BY <1>1, <1>2 DEF BInv, Handshake, AllSeen, Polls
  <1> QED  BY <1>3, <1>4, <1>5, <1>6 DEF BInv

(* unmountAll takes media out of attached, but after shutdown is set.      *)
LEMMA ShutdownKeeps == BInv /\ (HardReset \/ Unmount) => BInv'
  <1> SUFFICES ASSUME BInv, HardReset \/ Unmount PROVE BInv'  OBVIOUS
  <1>1. /\ UNCHANGED <<initializing, rerunEmulator, pc, old, new, current, isIdle,
                       there, boot, started>>
        /\ shutdown' = "unmount"
    BY DEF HardReset, Unmount, pollVars, startVars, world, ghosts
  <1>2. \A p \in Polls : Seen(p) <=> Seen(p)'
    BY <1>1 DEF Seen
  <1>3. Types'  BY <1>1 DEF BInv, Types
  <1>4. CallsBack'  BY <1>1 DEF BInv, CallsBack
  <1>5. OldAttached'  BY <1>1 DEF OldAttached
  <1>6. Handshake'  BY <1>1, <1>2 DEF BInv, Handshake, AllSeen, Polls
  <1> QED  BY <1>3, <1>4, <1>5, <1>6 DEF BInv

(* A look has all of boot, since what is in boot has been there throughout. *)
LEMMA LookKeeps == ASSUME BInv, NEW p \in Polls, Look(p) PROVE BInv'
  <1>1. /\ UNCHANGED <<initializing, rerunEmulator, old, current, isIdle, attached,
                       shutdown, there, boot, started>>
        /\ pc[p] = "look" /\ pc' = [pc EXCEPT ![p] = "callbacks"]
        /\ new' = [new EXCEPT ![p] = there \intersect Found(p)]
    BY DEF Look, Goto, startVars, endVars, world, ghosts
  <1>2. \A q \in Polls : Seen(q) <=> Seen(q)'
    BY <1>1 DEF Seen
  <1>3. Types'
    <2>1. Found(p) \subseteq Media \union Files
      BY DEF Found
    <2> QED  BY <1>1, <2>1 DEF BInv, Types, Places
  <1>4. CallsBack'
    <2>1. boot \subseteq there  BY DEF BInv, Types
    <2> QED  BY <1>1, <2>1 DEF BInv, CallsBack, Types
  <1>5. OldAttached'  BY <1>1 DEF BInv, OldAttached
  <1>6. Handshake'
    <2>1. /\ \A q \in Polls : pc'[q] # pc[q] => pc'[q] = "callbacks"
      BY <1>1 DEF BInv, Types
    <2> QED  BY <1>1, <1>2, <2>1 DEF BInv, Handshake, AllSeen, Polls
  <1> QED  BY <1>3, <1>4, <1>5, <1>6 DEF BInv

LEMMA CallbackStartKeeps == ASSUME BInv, NEW p \in Polls, CallbackStart(p) PROVE BInv'
  <1>1. PICK x \in Due(p) :
               /\ current' = [current EXCEPT ![p] = x]
               /\ onHDOperationStart(x)
    BY DEF CallbackStart
  <1>2. /\ UNCHANGED <<initializing, pc, old, new, attached, shutdown, there, boot, started>>
        /\ pc[p] = "callbacks"
        /\ isIdle' = [isIdle EXCEPT ![p] = FALSE]
    BY DEF CallbackStart, endVars, world, ghosts
  <1>3. x \in Found(p) /\ x \in Media \union Files
    BY <1>1 DEF Due, Leaving, Coming, BInv, Types, Found
  <1>4. rerunEmulator' = rerunEmulator \/ rerunEmulator' = FALSE
    BY <1>1 DEF onHDOperationStart
  <1>5. \A q \in Polls : Seen(q) <=> Seen(q)'
    BY <1>2 DEF Seen
  <1>6. Types'  BY <1>1, <1>2, <1>3, <1>4 DEF BInv, Types
  <1>7. CallsBack'  BY <1>1, <1>2, <1>3 DEF BInv, CallsBack, Types
  <1>8. OldAttached'  BY <1>2 DEF BInv, OldAttached
  <1>9. Handshake'
    <2>1. \A q \in Polls : isIdle'[q] => isIdle[q]
      BY <1>2 DEF BInv, Types
    <2> QED  BY <1>2, <1>4, <1>5, <2>1 DEF BInv, Handshake, AllSeen, Polls
  <1> QED  BY <1>6, <1>7, <1>8, <1>9 DEF BInv

(* A callback detaches what the look lacks, which is not in boot, and puts *)
(* what it attaches into attached and into old.                            *)
LEMMA CallbackDoneKeeps == ASSUME BInv, NEW p \in Polls, CallbackDone(p) PROVE BInv'
  <1> DEFINE x == current[p]
  <1>1. /\ UNCHANGED <<initializing, pc, new, isIdle, shutdown, there, boot, started>>
        /\ x # None
        /\ attached' = IF x \in new[p] THEN attached \union {x} ELSE attached \ {x}
        /\ old' = [old EXCEPT ![p] = IF x \in new[p] THEN @ \union {x} ELSE @ \ {x}]
        /\ current' = [current EXCEPT ![p] = None]
        /\ onHDOperationDone(x)
    BY DEF CallbackDone, Tried, endVars, world
  <1>2. /\ pc[p] = "callbacks" /\ x \in Found(p) /\ x \in Media \union Files
        /\ boot \intersect Found(p) \subseteq new[p]
    BY <1>1 DEF BInv, CallsBack, Found
  <1>3. rerunEmulator' \in BOOLEAN /\ (rerunEmulator' => rerunEmulator \/ ~initializing)
    BY <1>1 DEF onHDOperationDone, BInv, Types
  <1>4. \A q \in Polls : Seen(q) => Seen(q)'
    BY <1>1, <1>2 DEF Seen, BInv, Types
  <1>5. Types'
    BY <1>1, <1>2, <1>3 DEF BInv, Types
  <1>6. CallsBack'
    BY <1>1, <1>2 DEF BInv, CallsBack, Types
  <1>7. OldAttached'
    <2> SUFFICES ASSUME shutdown = "no", NEW q \in Polls, NEW y \in boot, y \in old'[q]
                 PROVE  y \in attached'
      BY <1>1 DEF OldAttached
    <2>1. y \in old[q] => y \in attached
      BY DEF BInv, OldAttached
    <2>2. CASE x \in new[p]
      BY <1>1, <2>1, <2>2 DEF BInv, Types
    <2>3. CASE x \notin new[p]
      <3>1. x \notin boot  BY <1>2, <2>3
      <3> QED  BY <1>1, <2>1, <2>3, <3>1 DEF BInv, Types
    <2> QED  BY <2>2, <2>3
  <1>8. Handshake'
    BY <1>1, <1>3, <1>4 DEF BInv, Handshake, AllSeen, Polls
  <1> QED  BY <1>5, <1>6, <1>7, <1>8 DEF BInv

(* A callback that does not do what it should: its thing is not in boot.   *)
LEMMA FailureKeeps ==
  ASSUME BInv, NEW p \in Polls, CallbackRefused(p) \/ CallbackFails(p)
  PROVE  BInv'
  <1>1. PICK x \in Found(p) :
          /\ old' = [old EXCEPT ![p] = IF x \in new[p] THEN @ \union {x} ELSE @ \ {x}]
          /\ boot' = boot \ {x} /\ pc[p] = "callbacks"
          /\ attached' \in {attached, attached \union {x}, attached \ {x}}
          /\ current' \in {current, [current EXCEPT ![p] = None]}
          /\ isIdle' \in {isIdle, [isIdle EXCEPT ![p] = FALSE]}
          /\ rerunEmulator' = rerunEmulator \/ onHDOperationDone(x)
    <2>1. CASE CallbackRefused(p)
      <3>1. Due(p) \subseteq Found(p)
        BY DEF Due, Leaving, Coming, BInv, Types
      <3>2. PICK x \in Due(p) : Tried(p, x) /\ boot' = boot \ {x}
        BY <2>1 DEF CallbackRefused
      <3> QED  BY <2>1, <3>1, <3>2 DEF CallbackRefused, Tried, startVars
    <2>2. CASE CallbackFails(p)
      <3>1. current[p] \in Found(p) /\ pc[p] = "callbacks"
        BY <2>2 DEF CallbackFails, BInv, CallsBack
      <3>2. PICK x \in Found(p) : x = current[p]
        BY <3>1
      <3> QED  BY <2>2, <3>1, <3>2 DEF CallbackFails, Tried
    <2> QED  BY <2>1, <2>2
  <1>2. UNCHANGED <<initializing, pc, new, shutdown, there, started>>
    BY DEF CallbackRefused, CallbackFails, startVars, endVars
  <1>3. rerunEmulator' \in BOOLEAN /\ (rerunEmulator' => rerunEmulator \/ ~initializing)
    BY <1>1 DEF onHDOperationDone, BInv, Types
  <1>4. /\ old' \in [Polls -> SUBSET (Media \union Files)]
        /\ \A q \in Polls : /\ old'[q] \subseteq Found(q)
                            /\ old[q] \ {x} \subseteq old'[q]
                            /\ old'[q] \subseteq old[q] \union {x}
    <2>1. x \in Media \union Files
      BY <1>1 DEF Found
    <2> QED  BY <1>1, <2>1 DEF BInv, Types
  <1>5. \A q \in Polls : Seen(q) => Seen(q)'
    BY <1>1, <1>4 DEF Seen
  <1>6. /\ isIdle' \in [Polls -> BOOLEAN] /\ \A q \in Polls : isIdle'[q] => isIdle[q]
        /\ current' \in [Polls -> Media \union Files \union {None}]
        /\ \A q \in Polls : current'[q] \in {current[q], None}
    BY <1>1 DEF BInv, Types
  <1>7. Types'  BY <1>1, <1>2, <1>3, <1>4, <1>6 DEF BInv, Types
  <1>8. CallsBack'  BY <1>1, <1>2, <1>6 DEF BInv, CallsBack
  <1>9. OldAttached'
    BY <1>1, <1>2, <1>4 DEF BInv, OldAttached
  <1>10. Handshake'
    BY <1>2, <1>3, <1>5, <1>6 DEF BInv, Handshake, AllSeen, Polls
  <1> QED  BY <1>7, <1>8, <1>9, <1>10 DEF BInv

(* The end of the callbacks, where a poll becomes idle: it has seen.       *)
LEMMA CallbacksEndKeeps == ASSUME BInv, NEW p \in Polls, CallbacksEnd(p) PROVE BInv'
  <1>1. /\ UNCHANGED <<initializing, rerunEmulator, old, new, current, attached,
                       shutdown, there, boot, started>>
        /\ pc[p] = "callbacks" /\ current[p] = None /\ old[p] = new[p]
        /\ isIdle' = [isIdle EXCEPT ![p] = ~affected[p]]
        /\ \E where \in {"initializing", "look"} : pc' = [pc EXCEPT ![p] = where]
    BY DEF CallbacksEnd, Goto, startVars, endVars, world, ghosts
  <1>2. \A q \in Polls : Seen(q) <=> Seen(q)'
    BY <1>1 DEF Seen
  <1>3. Seen(p)
    BY <1>1 DEF BInv, CallsBack, Seen
  <1>4. /\ \A q \in Polls : pc'[q] # pc[q] => q = p /\ pc'[q] \in {"initializing", "look"}
        /\ pc' \in [Polls -> Places]
    BY <1>1 DEF BInv, Types, Places
  <1>5. \A q \in Polls : q # p => isIdle'[q] = isIdle[q]
    BY <1>1 DEF BInv, Types
  <1>6. Types'
    <2>1. isIdle' \in [Polls -> BOOLEAN]  BY <1>1 DEF BInv, Types
    <2> QED  BY <1>1, <1>4, <2>1 DEF BInv, Types
  <1>7. CallsBack'  BY <1>1, <1>4 DEF BInv, CallsBack
  <1>8. OldAttached'  BY <1>1 DEF BInv, OldAttached
  <1>9. Handshake'
    BY <1>1, <1>2, <1>3, <1>4, <1>5 DEF BInv, Handshake, AllSeen, Polls
  <1> QED  BY <1>6, <1>7, <1>8, <1>9 DEF BInv

(* Each test adds what it has found, and Seen lasts until the next one.    *)
LEMMA TestKeeps ==
  ASSUME BInv, NEW p \in Polls,
         NEW here, here # "callbacks",
         NEW holds, NEW where \in {"discovery", "blockDevices", "clear"},
         Test(p, here, holds, where),
         holds /\ where = "blockDevices" => Seen("discovery"),
         holds /\ where = "clear" => AllSeen
  PROVE  BInv'
  <1>1. /\ UNCHANGED <<initializing, rerunEmulator, old, new, current, isIdle, attached,
                       shutdown, there, boot, started>>
        /\ pc[p] = here /\ pc' = [pc EXCEPT ![p] = IF holds THEN where ELSE "look"]
    BY DEF Test, Goto, startVars, endVars, world, ghosts
  <1>2. \A q \in Polls : Seen(q) <=> Seen(q)'
    BY <1>1 DEF Seen
  <1>3. /\ pc' \in [Polls -> Places]
        /\ \A q \in Polls : pc'[q] = pc[q] \/ pc'[q] = "look" \/ (holds /\ pc'[q] = where)
    BY <1>1 DEF BInv, Types, Places
  <1>4. \A q \in Polls : pc'[q] = "callbacks" <=> pc[q] = "callbacks"
    BY <1>1 DEF BInv, Types
  <1>5. Types'  BY <1>1, <1>3 DEF BInv, Types
  <1>6. CallsBack'  BY <1>1, <1>4 DEF BInv, CallsBack
  <1>7. OldAttached'  BY <1>1 DEF BInv, OldAttached
  <1>8. Handshake'  BY <1>1, <1>2, <1>3 DEF BInv, Handshake, AllSeen, Polls
  <1> QED  BY <1>5, <1>6, <1>7, <1>8 DEF BInv

LEMMA IdleCallbackKeeps ==
  ASSUME BInv, NEW p \in Polls, servicesIdleCallback(p)
  PROVE  BInv'
  <1> USE DEF BInv
  <1>1. CASE Test(p, "initializing", initializing, "discovery")
    BY <1>1, TestKeeps
  <1>2. CASE Test(p, "discovery", isIdle["discovery"], "blockDevices")
    <2>1. isIdle["discovery"] => Seen("discovery")
      BY DEF Handshake, Polls
    <2> QED  BY <1>2, <2>1, TestKeeps
  <1>3. CASE Test(p, "blockDevices", isIdle["blockDevices"], "clear")
    <2>1. pc[p] = "blockDevices"
      BY <1>3 DEF Test
    <2>2. isIdle["blockDevices"] => AllSeen
      BY <2>1 DEF Handshake, AllSeen, Polls
    <2> QED  BY <1>3, <2>2, TestKeeps
  <1>4. ASSUME Initialized(p) \/ SetRerunEmulator(p)  PROVE BInv'
    <2>1. /\ UNCHANGED <<old, new, current, isIdle, attached, shutdown, there, boot, started>>
          /\ pc[p] \in {"clear", "rerun"}
          /\ \E where \in {"rerun", "look"} : pc' = [pc EXCEPT ![p] = where]
          /\ initializing' \in {initializing, FALSE} /\ rerunEmulator' \in {rerunEmulator, TRUE}
      BY <1>4 DEF Initialized, SetRerunEmulator, Goto, endVars, world, ghosts
    <2>2. \A q \in Polls : Seen(q) <=> Seen(q)'
      BY <2>1 DEF Seen
    <2>3. AllSeen'
      BY <2>1, <2>2 DEF Handshake, AllSeen
    <2>4. /\ pc' \in [Polls -> Places]
          /\ \A q \in Polls : pc'[q] = "callbacks" <=> pc[q] = "callbacks"
      BY <2>1 DEF Types, Places
    <2>5. Types'  BY <2>1, <2>4 DEF Types
    <2>6. CallsBack'  BY <2>1, <2>4 DEF CallsBack
    <2>7. OldAttached'  BY <2>1 DEF OldAttached
    <2>8. Handshake'  BY <2>3 DEF Handshake, AllSeen, Polls
    <2> QED  BY <2>5, <2>6, <2>7, <2>8
  <1> QED  BY <1>1, <1>2, <1>3, <1>4 DEF servicesIdleCallback

LEMMA NextBInv == BInv /\ [Next]_vars => BInv'
  BY NextCases, PlugKeeps, ElsewhereKeepsBInv, RunEmulatorKeeps, ShutdownKeeps, LookKeeps,
     CallbackStartKeeps, CallbackDoneKeeps, FailureKeeps, CallbacksEndKeeps, IdleCallbackKeeps

(* The parts of BInv hold in every state of every behaviour.               *)
THEOREM BInvHolds == Spec => []BInv
  BY InitBInv, NextBInv, PTL DEF Spec

(* The emulator runs for the first time only when everything that has been *)
(* plugged in since the start is attached (amipi400.go, servicesIdle-      *)
(* Callback), whatever the number of media and files.                      *)
THEOREM StartsWithBootMedia == Spec => []BootMediaAttached
  <1>1. BInv => BootMediaAttached
    <2> SUFFICES ASSUME BInv, started, shutdown = "no", NEW x \in boot
                 PROVE  x \in attached
      BY DEF BootMediaAttached
    <2>1. PICK p \in Polls : x \in Found(p)
      BY DEF BInv, Types, Polls, Found
    <2>2. x \in old[p]
      BY <2>1 DEF BInv, Handshake, AllSeen, Seen
    <2> QED  BY <2>2 DEF BInv, OldAttached
  <1> QED  BY <1>1, BInvHolds, PTL
-----------------------------------------------------------------------------
(* The shutdown.  What is mounted is excused or still to come in the       *)
(* round, and no runner stops before stopServices but by a failure or by   *)
(* the SIGINT that kills lsblk.                                            *)
EInv ==
    /\ running \subseteq Runners /\ failures \in Nat
    /\ signal = "none" => shutdown = "no"
    /\ shutdown = "unmount" => attached \intersect Media \subseteq excused \union left
    /\ shutdown \in {"stop", "done"} => attached \intersect Media \subseteq excused
    /\ signal # "SIGINT" /\ failures = 0 /\ running # Runners => shutdown = "done"
    /\ ended => running # Runners

LEMMA InitEInv == Init => EInv
  BY DEF Init, EInv

LEMMA ShutdownKeepsEInv == EInv /\ gracefulShutdown => EInv'
  <1> SUFFICES ASSUME EInv, gracefulShutdown PROVE EInv'  OBVIOUS
  <1>1. CASE HardReset
    BY <1>1 DEF HardReset, EInv, pollVars, world, ghosts
  <1>2. CASE Unmount
    <2>1. PICK x \in left :
            /\ left' = left \ {x}
            /\ \/ attached' = attached \ {x} /\ UNCHANGED excused
               \/ attached' = attached /\ excused' = excused \union {x}
      BY <1>2 DEF Unmount
    <2>2. shutdown = "unmount" /\ UNCHANGED <<running, shutdown, ended, failures, signal>>
      BY <1>2 DEF Unmount, world
    <2> QED  BY <2>1, <2>2 DEF EInv
  <1>3. CASE RoundEnd
    BY <1>3 DEF RoundEnd, EInv, pollVars, world, ghosts
  <1>4. CASE stopServices
    BY <1>4 DEF stopServices, EInv, pollVars, world, ghosts, Runners
  <1> QED  BY <1>1, <1>2, <1>3, <1>4 DEF gracefulShutdown

(* A callback mounts after the signal what it excuses, and before it       *)
(* unmountAll has not begun.                                               *)
LEMMA CallbackDoneKeepsEInv == ASSUME EInv, NEW p \in Polls, CallbackDone(p) PROVE EInv'
  <1>1. /\ UNCHANGED <<running, shutdown, left, ended, failures, signal>>
        /\ attached' \subseteq attached \union {current[p]}
        /\ excused' = IF signal # "none" THEN excused \union {current[p]} ELSE excused
    BY DEF CallbackDone, endVars, world
  <1> QED  BY <1>1 DEF EInv

LEMMA FailureKeepsEInv ==
  ASSUME EInv, NEW p \in Polls, CallbackRefused(p) \/ CallbackFails(p)
  PROVE  EInv'
  <1>1. CASE CallbackRefused(p)
    BY <1>1 DEF CallbackRefused, EInv, endVars
  <1>2. CASE CallbackFails(p)
    <2>1. /\ UNCHANGED <<running, shutdown, left, ended, signal>> /\ failures' = failures + 1
          /\ attached' \subseteq attached \union {current[p]}
          /\ excused' = IF signal # "none" THEN excused \union {current[p]} ELSE excused
      BY <1>2 DEF CallbackFails, endVars
    <2> QED  BY <2>1 DEF EInv
  <1> QED  BY <1>1, <1>2

(* The actions that may stop a runner.                                     *)
LEMMA StopsKeepEInv ==
  ASSUME EInv, \/ LookFails \/ ConfigFails
               \/ \E s \in {"SIGTERM", "SIGINT"} : Signal(s)
               \/ \E p \in Polls : LoopEnds(p)
  PROVE  EInv'
  <1>1. CASE LookFails \/ ConfigFails
    BY <1>1 DEF LookFails, ConfigFails, Stopped, EInv, startVars, pollVars, ghosts
  <1>2. ASSUME NEW s \in {"SIGTERM", "SIGINT"}, Signal(s)  PROVE EInv'
    BY <1>2 DEF Signal, Stopped, EInv, world
  <1>3. ASSUME NEW p \in Polls, LoopEnds(p)  PROVE EInv'
    <2>1. running' = running
      BY <1>3 DEF LoopEnds, Stopped
    <2> QED  BY <1>3, <2>1 DEF LoopEnds, EInv, startVars, world, ghosts
  <1> QED  BY <1>1, <1>2, <1>3

(* The other actions change nothing EInv speaks of, but for the end.       *)
LEMMA OthersKeepEInv ==
  ASSUME EInv, \/ Plug \/ EmulatorQuits \/ RunEmulator \/ BlockUntilRunning \/ UNCHANGED vars
               \/ \E p \in Polls : \/ Look(p) \/ CallbackStart(p) \/ CallbacksEnd(p)
                                   \/ servicesIdleCallback(p)
  PROVE  EInv'
  <1> DEFINE Same == UNCHANGED <<running, shutdown, left, attached, failures, signal, excused>>
  <1>1. CASE Plug
    BY <1>1 DEF Plug, EInv, pollVars, endVars
  <1>2. CASE EmulatorQuits \/ RunEmulator
    BY <1>2 DEF EmulatorQuits, RunEmulator, EInv, pollVars, endVars, world, ghosts
  <1>3. CASE BlockUntilRunning
    BY <1>3 DEF BlockUntilRunning, EInv, pollVars, world, ghosts
  <1>4. CASE UNCHANGED vars
    BY <1>4 DEF vars, EInv, pollVars, endVars, world, ghosts
  <1>5. ASSUME NEW p \in Polls,
               Look(p) \/ CallbackStart(p) \/ CallbacksEnd(p) \/ servicesIdleCallback(p)
        PROVE  EInv'
    <2>1. Same /\ UNCHANGED ended
      BY <1>5 DEF Look, CallbackStart, CallbacksEnd, servicesIdleCallback, Test, Initialized,
                  SetRerunEmulator, endVars, world, ghosts
    <2> QED  BY <2>1 DEF EInv
  <1> QED  BY <1>1, <1>2, <1>3, <1>4, <1>5

LEMMA NextEInv == EInv /\ [Next]_vars => EInv'
  BY ShutdownKeepsEInv, CallbackDoneKeepsEInv, FailureKeepsEInv, StopsKeepEInv, OthersKeepEInv
     DEF Next, Poll, Outside

(* After SIGTERM the program ends with nothing mounted but what could not  *)
(* be unmounted or was mounted meanwhile (gracefulShutdown, unmountAll,    *)
(* RunnersBlocker), whatever the number of media and of rounds.            *)
THEOREM TermLeavesUnmounted == Spec => []EndsUnmounted
  <1>1. EInv => EndsUnmounted
    BY DEF EInv, EndsUnmounted
  <1> QED  BY <1>1, InitEInv, NextEInv, PTL DEF Spec
-----------------------------------------------------------------------------
(* The rest of the type invariant: a poll at a callback has counted it and *)
(* is not idle, and one that has ended has said so.                        *)
RInv ==
    /\ affected \in [Polls -> BOOLEAN]
    /\ round \in 0..Rounds /\ left \subseteq Media /\ attached \subseteq Media \union Files
    /\ \A p \in Polls :
         /\ pc[p] = "off" => p \notin running
         /\ current[p] # None => affected[p] /\ ~isIdle[p]

LEMMA InitRInv == Init => RInv
  BY ConstantsAssumption DEF Init, RInv

LEMMA OutsideKeepsRInv ==
  ASSUME BInv, RInv, \/ Plug \/ RunEmulator \/ gracefulShutdown \/ Elsewhere
  PROVE  RInv'
  <1> USE ConstantsAssumption
  <1>1. CASE Plug \/ RunEmulator \/ EmulatorQuits \/ BlockUntilRunning \/ UNCHANGED vars
    <2>1. UNCHANGED <<affected, round, left, attached, pc, running, current, isIdle>>
      BY <1>1 DEF Plug, RunEmulator, EmulatorQuits, BlockUntilRunning, vars, pollVars, endVars
    <2> QED  BY <2>1 DEF RInv
  <1>2. CASE HardReset \/ Unmount \/ RoundEnd
    <2>1. /\ UNCHANGED <<affected, pc, running, current, isIdle>>
          /\ attached' \subseteq attached
          /\ left' \subseteq left \union Media
      BY <1>2 DEF HardReset, Unmount, RoundEnd, pollVars
    <2>2. round' \in 0..Rounds
      BY <1>2 DEF HardReset, Unmount, RoundEnd, RInv
    <2> QED  BY <2>1, <2>2 DEF RInv
  <1>3. CASE stopServices
    BY <1>3 DEF stopServices, RInv, pollVars
  <1>4. CASE ConfigFails
    BY <1>4 DEF ConfigFails, RInv, pollVars
  <1>5. ASSUME NEW p \in Polls, Stopped(p),
               UNCHANGED <<affected, round, left, attached, current, isIdle>>
        PROVE  RInv'
    BY <1>5 DEF Stopped, Goto, RInv, BInv, Types
  <1>6. CASE LookFails
    BY <1>5, <1>6 DEF LookFails, Polls
  <1>7. ASSUME NEW p \in Polls, LoopEnds(p)  PROVE RInv'
    BY <1>5, <1>7 DEF LoopEnds
  <1>8. ASSUME NEW s \in {"SIGTERM", "SIGINT"}, Signal(s)  PROVE RInv'
    <2>1. UNCHANGED <<affected, round, left, attached, current, isIdle>>
      BY <1>8 DEF Signal
    <2>2. CASE UNCHANGED <<pc, running>>
      BY <2>1, <2>2 DEF RInv
    <2>3. CASE Stopped("blockDevices")
      BY <1>5, <2>1, <2>3 DEF Polls
    <2> QED  BY <1>8, <2>2, <2>3 DEF Signal
  <1> QED  BY <1>1, <1>2, <1>3, <1>4, <1>6, <1>7, <1>8 DEF Elsewhere, gracefulShutdown

LEMMA PollKeepsRInv == ASSUME BInv, RInv, NEW p \in Polls, Poll(p) PROVE RInv'
  <1>1. CASE LoopEnds(p)
    BY <1>1, OutsideKeepsRInv DEF Elsewhere
  <1>2. CASE Look(p)
    BY <1>2 DEF Look, Goto, RInv, BInv, Types, endVars
  <1>3. CASE CallbackStart(p)
    <2>1. PICK x : current' = [current EXCEPT ![p] = x]
      BY <1>3 DEF CallbackStart
    <2>2. /\ affected' = [affected EXCEPT ![p] = TRUE]
          /\ isIdle' = [isIdle EXCEPT ![p] = FALSE]
          /\ UNCHANGED <<pc, round, left, attached, running>>
      BY <1>3 DEF CallbackStart, endVars
    <2> QED  BY <2>1, <2>2 DEF RInv, BInv, Types
  <1>4. CASE CallbackDone(p)
    <2>1. current[p] # None => current[p] \in Media \union Files
      BY DEF BInv, Types
    <2> QED  BY <1>4, <2>1 DEF CallbackDone, RInv, BInv, Types, endVars
  <1>5. CASE CallbacksEnd(p)
    BY <1>5 DEF CallbacksEnd, Goto, RInv, BInv, Types, endVars
  <1>6. CASE servicesIdleCallback(p)
    <2>1. /\ \E where \in Places \ {"off"} : pc' = [pc EXCEPT ![p] = where]
          /\ UNCHANGED <<affected, round, left, attached, running, current, isIdle>>
      BY <1>6 DEF servicesIdleCallback, Test, Initialized, SetRerunEmulator, Goto, Places, endVars
    <2> QED  BY <2>1 DEF RInv, BInv, Types
  <1>7. CASE CallbackRefused(p)
    <2>1. /\ affected' = [affected EXCEPT ![p] = TRUE]
          /\ isIdle' = [isIdle EXCEPT ![p] = FALSE]
          /\ UNCHANGED <<pc, round, left, attached, running, current>>
      BY <1>7 DEF CallbackRefused, endVars
    <2> QED  BY <2>1 DEF RInv, BInv, Types
  <1>8. CASE CallbackFails(p)
    <2>1. current[p] # None /\ current[p] \in Media \union Files
      BY <1>8 DEF CallbackFails, BInv, Types
    <2>2. /\ attached' \in {attached \union {current[p]}, attached \ {current[p]}}
          /\ current' = [current EXCEPT ![p] = None]
          /\ UNCHANGED <<pc, round, left, running, isIdle, affected>>
      BY <1>8 DEF CallbackFails, endVars
    <2> QED  BY <2>1, <2>2 DEF RInv, BInv, Types
  <1> QED  BY <1>1, <1>2, <1>3, <1>4, <1>5, <1>6, <1>7, <1>8 DEF Poll

LEMMA NextRInv == BInv /\ RInv /\ [Next]_vars => RInv'
  BY OutsideKeepsRInv, PollKeepsRInv DEF Next, Outside, Elsewhere

(* The type invariant: a poll that has ended has said so, callbacks of a   *)
(* poll are counted before they begin, the rounds of unmountAll end.       *)
THEOREM TypeCorrect == Spec => []TypeOK
  <1>1. BInv /\ EInv /\ RInv => TypeOK
    <2> SUFFICES ASSUME BInv, EInv, RInv PROVE TypeOK  OBVIOUS
    <2>1. \A p \in Polls :
            /\ pc[p] \in {"look", "callbacks", "off", "initializing", "clear", "rerun"} \union Polls
            /\ pc[p] = "off" => p \notin running
            /\ old[p] \union new[p] \subseteq Found(p)
            /\ current[p] # None => pc[p] = "callbacks" /\ affected[p] /\ ~isIdle[p]
      BY DEF BInv, RInv, Types, CallsBack, Places, Polls
    <2> QED  BY <2>1 DEF EInv, RInv, TypeOK
  <1> QED  BY <1>1, InitBInv, NextBInv, InitEInv, NextEInv, InitRInv, NextRInv, PTL DEF Spec
=============================================================================
