---------------------------- MODULE CoWaiterProofs ----------------------------
(***************************************************************************)
(* The safety of CoWaiter for any number of coroutines, events and         *)
(* payloads: a bound waiter can be reached, an accepted Notify is what its *)
(* wait reports, and the slot is given back.  The payload of a notify is   *)
(* read as the type it was made from.                                      *)
(***************************************************************************)
EXTENDS CoWaiter, CoEventValue, TLAPS

Entering == {"clock", "regist", "init"}

\* m_notify_mutex is held from the entry to the binding, with an empty slot.
SlotLock ==
    /\ \A c \in Waiters : holder = c <=> pc[c] \in Entering
    /\ holder # NoCo => slot = NoEvent

\* How far the event of a coroutine can be at each point of its call.
Stage(l, s) ==
    /\ l = "init" => s \in {"inited", "decided"}
    /\ l \in {"yield", "unwind"} => s \in {"live", "decided"}
    /\ l = "parked" => s \in {"live", "decided", "final"}
    /\ l \in {"run", "back"} => s = "final"

\* A call has an event from its RegistCustom on, and it is that call's alone.
OwnEvent ==
    /\ \A c \in Waiters : pc[c] \in {"clock", "regist"} => cev[c] = NoEvent
    /\ \A c \in Waiters : cev[c] = NoEvent => pc[c] \in {"run", "clock", "regist"}
    /\ \A c \in Waiters : cev[c] # NoEvent => Stage(pc[c], est[cev[c]])
    /\ \A c, d \in Waiters : cev[c] = cev[d] /\ cev[c] # NoEvent => c = d

\* The slot holds the event of a call that will come back for it.
SlotOwned ==
    slot # NoEvent => \E c \in Waiters : cev[c] = slot /\ pc[c] \in {"yield", "parked", "back", "unwind"}

\* The mask is latched by the first Trigger; CUSTOM is the accepted Notify, whose
\* payload no later Notify replaces.
MaskLatched ==
    \A e \in Events :
        /\ est[e] \in {"free", "inited", "live"} => emask[e] = "NONE"
        /\ est[e] = "decided" => emask[e] # "NONE"
        /\ notified[e] # "none" <=> emask[e] = "CUSTOM"
        /\ notified[e] # "none" => epay[e] = notified[e] /\ (slot = e => runStatus # "WAIT")

\* What a call may find when it looks at the mask of its event.
MaskOfCall ==
    \A c \in Waiters : cev[c] # NoEvent =>
        /\ emask[cev[c]] = "CANCELLED" => cancelRequested[c]
        /\ pc[c] = "init" => emask[cev[c]] # "CUSTOM"
        /\ pc[c] = "parked" => yret[c] = "zero" /\ (est[cev[c]] = "final" => emask[cev[c]] # "NONE")
        /\ pc[c] = "back" => (yret[c] = "error" <=> emask[cev[c]] = "NONE")

CancelFlag == \A c \in Waiters : cancelling[c] => cancelRequested[c]

WaiterInv ==
    WaiterTypeOK /\ SlotLock /\ OwnEvent /\ SlotOwned /\ WaiterReachable /\ MaskLatched
    /\ MaskOfCall /\ CancelFlag /\ NotifyCredit

USE CoWaiterAssumption DEF CoWaiterAssumption, Entering, Stage

-----------------------------------------------------------------------------
\* A call past RegistCustom has an event of its own, at the stage its label says.
LEMMA EventOfCall ==
    ASSUME WaiterInv, NEW c \in Waiters, pc[c] \notin {"run", "clock", "regist"}
    PROVE  /\ cev[c] \in Events /\ cev[c] # NoEvent /\ Stage(pc[c], est[cev[c]])
           /\ \A d \in Waiters : d # c => cev[d] # cev[c]
<1>1. cev \in [Waiters -> Events \cup {NoEvent}]
  BY DEF WaiterInv, WaiterTypeOK
<1>2. cev[c] # NoEvent
  BY DEF WaiterInv, OwnEvent
<1>3. \A d \in Waiters : d # c => cev[d] # cev[c]
  BY <1>2 DEF WaiterInv, OwnEvent
<1>4. Stage(pc[c], est[cev[c]])
  BY <1>2, Zenon DEF WaiterInv, OwnEvent
<1> QED  BY <1>1, <1>2, <1>3, <1>4

-----------------------------------------------------------------------------
\* An undecided event of a call under way is decided by something other than a
\* Notify: the timer, the descriptor, or a cancel that was requested.
LEMMA TriggerInv ==
    ASSUME WaiterInv, NEW c \in Waiters, pc[c] \in {"init", "yield", "parked"},
           NEW m \in Masks \ {"NONE", "CUSTOM"}, m = "CANCELLED" => cancelRequested[c],
           Trigger(cev[c], m), CancelFlag', cancelling' \in [Waiters -> BOOLEAN],
           UNCHANGED <<slotVars, epay, timer, coVars, cancelRequested, outVars, histVars>>
    PROVE  WaiterInv'
<1> DEFINE e == cev[c]
<1>1. /\ slot' = slot /\ runStatus' = runStatus /\ holder' = holder /\ epay' = epay
      /\ timer' = timer /\ pc' = pc /\ call' = call /\ cev' = cev /\ clock' = clock
      /\ rest' = rest /\ cancelRequested' = cancelRequested /\ yret' = yret
      /\ result' = result /\ value' = value /\ notified' = notified /\ broken' = broken
  BY DEF slotVars, coVars, outVars, histVars
<1>2. e \in Events
  BY EventOfCall
<1>3. CASE est[e] \in {"inited", "live"}
  <2>1. /\ est' = [est EXCEPT ![e] = "decided"] /\ emask' = [emask EXCEPT ![e] = m]
        /\ emask[e] = "NONE" /\ notified[e] = "none"
    BY <1>2, <1>3 DEF Trigger, WaiterInv, MaskLatched
  <2> HIDE DEF e
  <2>2. WaiterTypeOK'
    BY <1>1, <1>2, <2>1 DEF WaiterInv, WaiterTypeOK, EventStates
  <2>3. SlotLock' /\ SlotOwned'
    BY <1>1 DEF WaiterInv, SlotLock, SlotOwned
  <2>4. OwnEvent'
    BY <1>1, <1>2, <2>1 DEF WaiterInv, WaiterTypeOK, OwnEvent, e
  <2>5. WaiterReachable'
    BY <1>1, <1>2, <2>1 DEF WaiterInv, WaiterTypeOK, OwnEvent, WaiterReachable
  <2>6. MaskLatched'
    BY <1>1, <1>2, <2>1 DEF WaiterInv, WaiterTypeOK, MaskLatched
  <2>7. MaskOfCall'
    BY <1>1, <1>2, <2>1 DEF WaiterInv, WaiterTypeOK, OwnEvent, MaskOfCall, e
  <2>8. NotifyCredit'
    BY <1>1 DEF WaiterInv, NotifyCredit, Interface
  <2> QED  BY <2>2, <2>3, <2>4, <2>5, <2>6, <2>7, <2>8 DEF WaiterInv
<1>4. CASE est[e] \notin {"inited", "live"}
  <2>1. est' = est /\ emask' = emask
    BY <1>4 DEF Trigger
  <2> QED  BY <1>1, <2>1 DEF WaiterInv, WaiterTypeOK, SlotLock, OwnEvent, SlotOwned,
                             WaiterReachable, MaskLatched, MaskOfCall, NotifyCredit, Interface
<1> QED  BY <1>3, <1>4

\* A step that touches nothing the invariant relates.
LEMMA IdleWaiterInv ==
    ASSUME WaiterInv, UNCHANGED <<slot, holder, eventVars, pc, call, cev, outVars, histVars>>,
           clock' \in [Waiters -> {"ahead", "just", "past"}], rest' = rest,
           cancelRequested' \in [Waiters -> BOOLEAN], cancelling' \in [Waiters -> BOOLEAN],
           \A c \in Waiters : cancelRequested[c] => cancelRequested'[c],
           CancelFlag', runStatus' \in {runStatus, "FREE"}
    PROVE  WaiterInv'
<1>1. /\ slot' = slot /\ holder' = holder /\ epay' = epay /\ est' = est /\ emask' = emask
      /\ timer' = timer /\ pc' = pc /\ call' = call /\ cev' = cev /\ yret' = yret
      /\ result' = result /\ value' = value /\ notified' = notified /\ broken' = broken
  BY DEF eventVars, outVars, histVars
<1>2. WaiterTypeOK'
  BY <1>1 DEF WaiterInv, WaiterTypeOK
<1>3. SlotLock' /\ OwnEvent' /\ SlotOwned' /\ WaiterReachable'
  BY <1>1 DEF WaiterInv, SlotLock, OwnEvent, SlotOwned, WaiterReachable
<1>4. MaskLatched' /\ MaskOfCall' /\ NotifyCredit'
  BY <1>1 DEF WaiterInv, MaskLatched, MaskOfCall, NotifyCredit, Interface
<1> QED  BY <1>2, <1>3, <1>4 DEF WaiterInv

-----------------------------------------------------------------------------
\* Entry of a Wait: it returns at once, or it takes the lock of an empty slot.  A
\* residue it evicts is final, so nobody is waiting for it to be notified.
LEMMA EnterInv ==
    ASSUME WaiterInv, NEW c \in Waiters, NEW k \in Calls, Enter(c, k)
    PROVE  WaiterInv'
<1>1. /\ pc[c] = "run" /\ holder = NoCo /\ call' = [call EXCEPT ![c] = k]
      /\ clock' = [clock EXCEPT ![c] = "ahead"]
      /\ cev' = [cev EXCEPT ![c] = NoEvent] /\ est' = est /\ emask' = emask /\ epay' = epay
      /\ timer' = timer /\ cancelRequested' = cancelRequested /\ cancelling' = cancelling
      /\ yret' = yret /\ notified' = notified /\ broken' = broken
  BY DEF Enter, eventVars, cancelVars, histVars
<1>2. /\ k \in Interfaces \X BOOLEAN
      /\ rest' \in [Waiters -> {"positive", "zero", "negative"}]
  <2>1. FirstRest(k) \subseteq {"positive", "zero", "negative"}
    BY DEF FirstRest
  <2>2. rest \in [Waiters -> {"positive", "zero", "negative"}]
    BY DEF WaiterInv, WaiterTypeOK
  <2>3. \E r \in FirstRest(k) : rest' = [rest EXCEPT ![c] = r]
    BY DEF Enter
  <2>4. k \in Interfaces \X BOOLEAN
    BY CoWaiterAssumption DEF CoWaiterAssumption
  <2> QED  BY <2>1, <2>2, <2>3, <2>4
<1>3. \/ /\ \E r \in Results : Return(c, r)
         /\ UNCHANGED slotVars
      \/ /\ slot = NoEvent \/ est[slot] = "final"
         /\ slot' = NoEvent /\ runStatus' \in {runStatus, "FREE"} /\ holder' = c
         /\ \E l \in {"clock", "regist"} : pc' = [pc EXCEPT ![c] = l]
         /\ result' = [result EXCEPT ![c] = "None"] /\ value' = [value EXCEPT ![c] = Empty]
  BY DEF Enter, Occupied, Results
<1>4. CASE (\E r \in Results : Return(c, r)) /\ UNCHANGED slotVars
  <2>1. /\ slot' = slot /\ runStatus' = runStatus /\ holder' = holder
        /\ value' = [value EXCEPT ![c] = Empty] /\ pc' = [pc EXCEPT ![c] = "run"]
        /\ \E r \in Results : result' = [result EXCEPT ![c] = r]
    BY <1>4 DEF Return, slotVars
  <2>2. pc' = pc
    BY <1>1, <2>1 DEF WaiterInv, WaiterTypeOK
  <2>3. WaiterTypeOK'
    BY <1>1, <1>2, <2>1 DEF WaiterInv, WaiterTypeOK, PC
  <2>4. SlotLock' /\ OwnEvent'
    BY <1>1, <2>1, <2>2 DEF WaiterInv, WaiterTypeOK, SlotLock, OwnEvent
  <2>5. SlotOwned'
    BY <1>1, <2>1, <2>2 DEF WaiterInv, WaiterTypeOK, SlotOwned
  <2>6. WaiterReachable' /\ MaskLatched'
    BY <1>1, <2>1, <2>2 DEF WaiterInv, WaiterTypeOK, WaiterReachable, MaskLatched
  <2>7. MaskOfCall' /\ CancelFlag'
    BY <1>1, <2>1, <2>2 DEF WaiterInv, WaiterTypeOK, MaskOfCall, CancelFlag
  <2>8. NotifyCredit'
    BY <1>1, <2>1, <2>2 DEF WaiterInv, WaiterTypeOK, NotifyCredit, Interface
  <2> QED  BY <2>3, <2>4, <2>5, <2>6, <2>7, <2>8 DEF WaiterInv
<1>5. ASSUME slot = NoEvent \/ est[slot] = "final", slot' = NoEvent,
             runStatus' \in {runStatus, "FREE"}, holder' = c,
             NEW l \in {"clock", "regist"}, pc' = [pc EXCEPT ![c] = l],
             result' = [result EXCEPT ![c] = "None"], value' = [value EXCEPT ![c] = Empty]
      PROVE  WaiterInv'
  <2>1. \A d \in Waiters : d # c =>
           pc'[d] = pc[d] /\ cev'[d] = cev[d] /\ result'[d] = result[d] /\ value'[d] = value[d]
           /\ call'[d] = call[d]
    BY <1>1, <1>5 DEF WaiterInv, WaiterTypeOK
  <2>2. pc'[c] = l /\ cev'[c] = NoEvent /\ NoCo # c
    BY <1>1, <1>5 DEF WaiterInv, WaiterTypeOK
  <2>3. WaiterTypeOK'
    BY <1>1, <1>2, <1>5 DEF WaiterInv, WaiterTypeOK, PC, Results
  <2>4. SlotLock'
    BY <1>1, <1>5, <2>1, <2>2 DEF WaiterInv, SlotLock
  <2>5. OwnEvent'
    BY <1>1, <1>5, <2>1, <2>2 DEF WaiterInv, OwnEvent
  <2>6. SlotOwned' /\ CancelFlag'
    BY <1>1, <1>5 DEF WaiterInv, SlotOwned, CancelFlag
  <2>7. WaiterReachable'
    BY <1>1, <1>5, <2>1, <2>2 DEF WaiterInv, WaiterTypeOK, WaiterReachable
  <2>8. MaskLatched'
    BY <1>1, <1>5 DEF WaiterInv, MaskLatched
  <2>9. MaskOfCall'
    BY <1>1, <2>1, <2>2 DEF WaiterInv, MaskOfCall
  <2>10. NotifyCredit'
    BY <1>1, <2>1, <2>2 DEF WaiterInv, NotifyCredit, Interface
  <2> QED  BY <2>3, <2>4, <2>5, <2>6, <2>7, <2>8, <2>9, <2>10 DEF WaiterInv
<1> QED  BY <1>3, <1>4, <1>5

\* The second reading of the clock: on to the registration, or back with the lock
\* released; there is no event yet.
LEMMA SecondClockInv ==
    ASSUME WaiterInv, NEW c \in Waiters, SecondClock(c)
    PROVE  WaiterInv'
<1>1. /\ pc[c] = "clock" /\ slot' = slot /\ runStatus' = runStatus /\ est' = est
      /\ emask' = emask /\ epay' = epay /\ timer' = timer /\ call' = call /\ cev' = cev
      /\ clock' = clock /\ cancelRequested' = cancelRequested /\ cancelling' = cancelling
      /\ yret' = yret /\ notified' = notified /\ broken' = broken
  BY DEF SecondClock, eventVars, cancelVars, histVars
<1>2. cev[c] = NoEvent /\ holder = c
  BY <1>1 DEF WaiterInv, OwnEvent, SlotLock
<1>3. rest' \in [Waiters -> {"positive", "zero", "negative"}]
  <2>1. clock[c] \in {"ahead", "just", "past"}
    BY DEF WaiterInv, WaiterTypeOK
  <2> QED  BY <2>1 DEF SecondClock, WaiterInv, WaiterTypeOK
<1>4. PICK l \in {"run", "regist"} :
         /\ pc' = [pc EXCEPT ![c] = l] /\ holder' = IF l = "run" THEN NoCo ELSE c
         /\ \E r \in Results : result' = [result EXCEPT ![c] = r]
         /\ \E v \in Payloads \cup {Empty} : value' = [value EXCEPT ![c] = v]
  <2>1. CASE RestIsOver(c)
    BY <2>1 DEF SecondClock, Return, Results
  <2>2. CASE ~RestIsOver(c)
    <3>1. /\ pc' = [pc EXCEPT ![c] = "regist"] /\ holder' = holder
          /\ result' = [result EXCEPT ![c] = result[c]]
          /\ value' = [value EXCEPT ![c] = value[c]]
      BY <2>2 DEF SecondClock, WaiterInv, WaiterTypeOK
    <3> QED  BY <1>2, <3>1 DEF WaiterInv, WaiterTypeOK
  <2> QED  BY <2>1, <2>2
<1>5. \A d \in Waiters : d # c =>
         pc'[d] = pc[d] /\ result'[d] = result[d] /\ value'[d] = value[d]
  BY <1>4 DEF WaiterInv, WaiterTypeOK
<1>6. pc'[c] = l
  BY <1>4 DEF WaiterInv, WaiterTypeOK
<1>7. WaiterTypeOK'
  BY <1>1, <1>3, <1>4 DEF WaiterInv, WaiterTypeOK, PC
<1>8. SlotLock'
  BY <1>1, <1>2, <1>4, <1>5, <1>6 DEF WaiterInv, SlotLock
<1>9. OwnEvent'
  BY <1>1, <1>2, <1>5, <1>6 DEF WaiterInv, OwnEvent
<1>10. SlotOwned' /\ CancelFlag'
  BY <1>1, <1>2, <1>5 DEF WaiterInv, SlotLock, SlotOwned, CancelFlag
<1>11. WaiterReachable' /\ MaskLatched'
  BY <1>1, <1>5, <1>6 DEF WaiterInv, WaiterReachable, MaskLatched
<1>12. MaskOfCall' /\ NotifyCredit'
  BY <1>1, <1>2, <1>5, <1>6 DEF WaiterInv, MaskOfCall, NotifyCredit, Interface
<1> QED  BY <1>7, <1>8, <1>9, <1>10, <1>11, <1>12 DEF WaiterInv

\* RegistCustom gives the call an event that no other call has.
LEMMA RegistCustomInv ==
    ASSUME WaiterInv, NEW c \in Waiters, NEW e \in Events, RegistCustom(c, e)
    PROVE  WaiterInv'
<1>1. /\ pc[c] = "regist" /\ est[e] = "free" /\ est' = [est EXCEPT ![e] = "inited"]
      /\ cev' = [cev EXCEPT ![c] = e] /\ pc' = [pc EXCEPT ![c] = "init"]
      /\ timer' \in {timer, timer \cup {e}}
      /\ slot' = slot /\ runStatus' = runStatus /\ holder' = holder /\ emask' = emask
      /\ epay' = epay /\ call' = call /\ clock' = clock /\ rest' = rest
      /\ cancelRequested' = cancelRequested /\ cancelling' = cancelling /\ yret' = yret
      /\ result' = result /\ value' = value /\ notified' = notified /\ broken' = broken
  BY DEF RegistCustom, slotVars, cancelVars, outVars, histVars
<1>2. \A d \in Waiters : cev[d] # e
  <2> SUFFICES ASSUME NEW d \in Waiters, cev[d] = e PROVE FALSE
    OBVIOUS
  <2>1. cev[d] # NoEvent /\ pc[d] \in PC /\ Stage(pc[d], est[e])
    BY DEF WaiterInv, WaiterTypeOK, OwnEvent
  <2>2. pc[d] \notin {"clock", "regist"}
    BY <2>1 DEF WaiterInv, OwnEvent
  <2> QED  BY <1>1, <2>1, <2>2 DEF PC
<1>3. holder = c /\ slot = NoEvent /\ emask[e] = "NONE" /\ e # NoEvent
  BY <1>1 DEF WaiterInv, SlotLock, MaskLatched
<1>4. \A d \in Waiters : d # c => pc'[d] = pc[d] /\ cev'[d] = cev[d]
  BY <1>1 DEF WaiterInv, WaiterTypeOK
<1>5. pc'[c] = "init" /\ cev'[c] = e
  BY <1>1 DEF WaiterInv, WaiterTypeOK
<1>6. \A f \in Events : est'[f] = IF f = e THEN "inited" ELSE est[f]
  BY <1>1 DEF WaiterInv, WaiterTypeOK
<1>7. WaiterTypeOK'
  BY <1>1 DEF WaiterInv, WaiterTypeOK, PC, EventStates
<1>8. SlotLock' /\ SlotOwned' /\ CancelFlag'
  BY <1>1, <1>3, <1>4, <1>5 DEF WaiterInv, SlotLock, SlotOwned, CancelFlag
<1>9. OwnEvent'
  BY <1>1, <1>2, <1>3, <1>4, <1>5, <1>6 DEF WaiterInv, WaiterTypeOK, OwnEvent
<1>10. WaiterReachable'
  BY <1>1, <1>2, <1>4, <1>5, <1>6 DEF WaiterInv, WaiterTypeOK, OwnEvent, WaiterReachable
<1>11. MaskLatched'
  BY <1>1, <1>3, <1>6 DEF WaiterInv, MaskLatched
<1>12. MaskOfCall' /\ NotifyCredit'
  BY <1>1, <1>2, <1>3, <1>4, <1>5, <1>6
     DEF WaiterInv, WaiterTypeOK, OwnEvent, MaskOfCall, NotifyCredit, Interface
<1> QED  BY <1>7, <1>8, <1>9, <1>10, <1>11, <1>12 DEF WaiterInv

\* InitAndBind: the event comes into an empty slot, or the call returns an error.
\* Nobody else is reachable through the slot at that time.
LEMMA InitAndBindInv ==
    ASSUME WaiterInv, NEW c \in Waiters, InitAndBind(c)
    PROVE  WaiterInv'
<1> DEFINE e == cev[c]
<1>1. /\ pc[c] = "init" /\ holder' = NoCo /\ emask' = emask /\ epay' = epay /\ timer' = timer
      /\ call' = call /\ cev' = cev /\ clock' = clock /\ rest' = rest
      /\ cancelRequested' = cancelRequested /\ cancelling' = cancelling /\ yret' = yret
      /\ notified' = notified
  BY DEF InitAndBind, cancelVars
<1>2. /\ e \in Events /\ holder = c /\ slot = NoEvent /\ emask[e] # "CUSTOM"
      /\ notified[e] = "none" /\ \A d \in Waiters : d # c => cev[d] # e
  <2>1. e \in Events /\ e # NoEvent /\ \A d \in Waiters : d # c => cev[d] # e
    BY <1>1, EventOfCall
  <2>2. holder = c /\ slot = NoEvent
    BY <1>1 DEF WaiterInv, SlotLock
  <2>3. emask[e] # "CUSTOM"
    BY <1>1, <2>1 DEF WaiterInv, MaskOfCall
  <2>4. notified[e] = "none"
    BY <2>1, <2>3 DEF WaiterInv, MaskLatched
  <2> QED  BY <2>1, <2>2, <2>3, <2>4
<1>2a. \A d \in Waiters : d # c => pc[d] \notin Entering
  BY <1>2 DEF WaiterInv, SlotLock
<1>3. CASE /\ est' = [est EXCEPT ![e] = "final"]
           /\ broken' = IF est[e] = "inited" THEN broken \cup {e} ELSE broken
           /\ Return(c, "RuntimeUnavailable")
           /\ runStatus' \in {runStatus} \cup (IF Interface(c) = "combined" THEN {"FREE"} ELSE {})
           /\ UNCHANGED slot
  <2> HIDE DEF e
  <2>1. /\ pc' = [pc EXCEPT ![c] = "run"] /\ slot' = slot /\ runStatus' \in {runStatus, "FREE"}
        /\ result' = [result EXCEPT ![c] = "RuntimeUnavailable"]
        /\ value' = [value EXCEPT ![c] = Empty]
        /\ est' = [est EXCEPT ![e] = "final"] /\ broken' \in {broken, broken \cup {e}}
    BY <1>3 DEF Return
  <2>2. \A d \in Waiters : d # c =>
           pc'[d] = pc[d] /\ result'[d] = result[d] /\ value'[d] = value[d]
    BY <2>1 DEF WaiterInv, WaiterTypeOK
  <2>3. pc'[c] = "run" /\ result'[c] = "RuntimeUnavailable" /\ value'[c] = Empty
    BY <2>1 DEF WaiterInv, WaiterTypeOK
  <2>4. \A f \in Events : est'[f] = IF f = e THEN "final" ELSE est[f]
    BY <2>1 DEF WaiterInv, WaiterTypeOK
  <2>5. WaiterTypeOK'
    BY <1>1, <1>2, <2>1 DEF WaiterInv, WaiterTypeOK, PC, EventStates, Results
  <2>6. SlotLock' /\ SlotOwned' /\ CancelFlag'
    BY <1>1, <1>2, <1>2a, <2>1, <2>2, <2>3 DEF WaiterInv, SlotLock, SlotOwned, CancelFlag
  <2>7. OwnEvent'
    <3>1. \A d \in Waiters : cev[d] # NoEvent => Stage(pc'[d], est'[cev[d]])
      BY <1>1, <1>2, <2>2, <2>3, <2>4 DEF WaiterInv, WaiterTypeOK, OwnEvent, e
    <3> QED  BY <1>1, <1>2, <2>2, <2>3, <3>1 DEF WaiterInv, OwnEvent, e
  <2>8. WaiterReachable' /\ MaskLatched'
    BY <1>1, <1>2, <2>1, <2>2, <2>3, <2>4
       DEF WaiterInv, WaiterTypeOK, OwnEvent, WaiterReachable, MaskLatched, e
  <2>9. MaskOfCall'
    BY <1>1, <1>2, <2>1, <2>2, <2>3, <2>4 DEF WaiterInv, WaiterTypeOK, OwnEvent, MaskOfCall, e
  <2>10. NotifyCredit'
    BY <1>1, <1>2, <2>2, <2>3 DEF WaiterInv, NotifyCredit, Interface, e
  <2> QED  BY <2>5, <2>6, <2>7, <2>8, <2>9, <2>10 DEF WaiterInv
<1>4. CASE /\ est[e] = "inited"
           /\ est' = [est EXCEPT ![e] = "live"]
           /\ slot' = e
           /\ runStatus' = "WAIT"
           /\ pc' = [pc EXCEPT ![c] = "yield"]
           /\ UNCHANGED <<broken, result, value>>
  <2> HIDE DEF e
  <2>1. \A d \in Waiters : d # c => pc'[d] = pc[d]
    BY <1>4 DEF WaiterInv, WaiterTypeOK
  <2>2. pc'[c] = "yield" /\ result' = result /\ value' = value /\ broken' = broken
    BY <1>4 DEF WaiterInv, WaiterTypeOK
  <2>3. \A f \in Events : est'[f] = IF f = e THEN "live" ELSE est[f]
    BY <1>4 DEF WaiterInv, WaiterTypeOK
  <2>5. WaiterTypeOK'
    BY <1>1, <1>2, <1>4, <2>2 DEF WaiterInv, WaiterTypeOK, PC, EventStates
  <2>6. SlotLock' /\ SlotOwned' /\ CancelFlag'
    BY <1>1, <1>2, <1>2a, <1>4, <2>1, <2>2 DEF WaiterInv, SlotLock, SlotOwned, CancelFlag, e
  <2>7. OwnEvent'
    BY <1>1, <1>2, <2>1, <2>2, <2>3 DEF WaiterInv, WaiterTypeOK, OwnEvent, e
  <2>8. WaiterReachable'
    <3> SUFFICES ASSUME NEW d \in Waiters, pc'[d] \in {"yield", "parked"}, est'[cev'[d]] = "live"
                 PROVE  slot' = cev'[d] /\ runStatus' # "ACTIVE"
      BY DEF WaiterReachable
    <3>1. CASE d = c
      BY <1>1, <1>4, <3>1 DEF e
    <3>2. CASE d # c
      <4>1. pc[d] \in {"yield", "parked"} /\ cev[d] \in Events /\ cev[d] # e
        <5>1. pc[d] \in {"yield", "parked"}
          BY <2>1, <3>2
        <5> QED  BY <1>2, <3>2, <5>1, EventOfCall
      <4> QED  BY <1>1, <1>2, <2>3, <4>1 DEF WaiterInv, WaiterReachable
    <3> QED  BY <3>1, <3>2
  <2>9. MaskLatched'
    BY <1>1, <1>2, <1>4, <2>3 DEF WaiterInv, WaiterTypeOK, MaskLatched
  <2>10. MaskOfCall'
    BY <1>1, <1>2, <2>1, <2>2, <2>3 DEF WaiterInv, WaiterTypeOK, OwnEvent, MaskOfCall, e
  <2>11. NotifyCredit'
    BY <1>1, <2>1, <2>2 DEF WaiterInv, NotifyCredit, Interface
  <2> QED  BY <2>5, <2>6, <2>7, <2>8, <2>9, <2>10, <2>11 DEF WaiterInv
<1> QED  BY <1>3, <1>4 DEF InitAndBind

\* _RegistAwaitEvent: the coroutine is parked, its wait cancelled if the flag is
\* up, or the registration fails and the event is over without a mask.
LEMMA RegistAwaitEventInv ==
    ASSUME WaiterInv, NEW c \in Waiters, RegistAwaitEvent(c)
    PROVE  WaiterInv'
<1> DEFINE e == cev[c]
<1>1. /\ pc[c] = "yield" /\ slot' = slot /\ runStatus' = runStatus /\ holder' = holder
      /\ epay' = epay /\ timer' = timer /\ call' = call /\ cev' = cev /\ clock' = clock
      /\ rest' = rest /\ cancelRequested' = cancelRequested /\ cancelling' = cancelling
      /\ result' = result /\ value' = value /\ notified' = notified
  BY DEF RegistAwaitEvent, slotVars, cancelVars
<1>2. /\ e \in Events /\ est[e] \in {"live", "decided"}
      /\ est[e] = "live" => emask[e] = "NONE" /\ notified[e] = "none"
      /\ \A d \in Waiters : d # c => cev[d] # e
  <2>1. e \in Events /\ est[e] \in {"live", "decided"} /\ \A d \in Waiters : d # c => cev[d] # e
    BY <1>1, EventOfCall
  <2> QED  BY <2>1 DEF WaiterInv, MaskLatched
<1>3. PICK s \in EventStates, m \in Masks, l \in {"parked", "back"}, y \in {"zero", "error"} :
         /\ est' = [est EXCEPT ![e] = s] /\ emask' = [emask EXCEPT ![e] = m]
         /\ pc' = [pc EXCEPT ![c] = l] /\ yret' = [yret EXCEPT ![c] = y]
         /\ broken' \in {broken, broken \cup {e}}
         /\ \/ s = est[e] /\ m = emask[e] /\ l = "parked" /\ y = "zero"
            \/ /\ est[e] = "live" /\ s = "decided" /\ m = "CANCELLED" /\ cancelRequested[c]
               /\ l = "parked" /\ y = "zero"
            \/ est[e] = "live" /\ s = "final" /\ m = emask[e] /\ l = "back" /\ y = "error"
  <2>1. est = [est EXCEPT ![e] = est[e]] /\ emask = [emask EXCEPT ![e] = emask[e]]
        /\ est[e] \in EventStates /\ emask[e] \in Masks
    BY <1>2 DEF WaiterInv, WaiterTypeOK
  <2> QED  BY <1>2, <2>1 DEF RegistAwaitEvent, Trigger, CancelRecheck, EventStates, Masks
<1> HIDE DEF e
<1>4. \A d \in Waiters : d # c => pc'[d] = pc[d] /\ yret'[d] = yret[d]
  BY <1>3 DEF WaiterInv, WaiterTypeOK
<1>5. pc'[c] = l /\ yret'[c] = y
  BY <1>3 DEF WaiterInv, WaiterTypeOK
<1>6. \A f \in Events : /\ est'[f] = IF f = e THEN s ELSE est[f]
                        /\ emask'[f] = IF f = e THEN m ELSE emask[f]
  BY <1>3 DEF WaiterInv, WaiterTypeOK
<1>7. WaiterTypeOK'
  BY <1>1, <1>2, <1>3 DEF WaiterInv, WaiterTypeOK, PC
<1>8. SlotLock' /\ CancelFlag'
  BY <1>1, <1>3, <1>4, <1>5 DEF WaiterInv, SlotLock, CancelFlag
<1>9. SlotOwned'
  BY <1>1, <1>4, <1>5 DEF WaiterInv, SlotOwned
<1>10. OwnEvent'
  <2>1. Stage(l, s)
    BY <1>2, <1>3
  <2>2. \A d \in Waiters : cev[d] # NoEvent => Stage(pc'[d], est'[cev[d]])
    BY <1>1, <1>2, <1>4, <1>5, <1>6, <2>1 DEF WaiterInv, WaiterTypeOK, OwnEvent, e
  <2> QED  BY <1>1, <1>4, <1>5, <2>2 DEF WaiterInv, OwnEvent
<1>11. WaiterReachable'
  BY <1>1, <1>2, <1>3, <1>4, <1>5, <1>6 DEF WaiterInv, WaiterTypeOK, OwnEvent, WaiterReachable, e
<1>12. MaskLatched'
  BY <1>1, <1>2, <1>3, <1>6 DEF WaiterInv, WaiterTypeOK, MaskLatched
<1>13. MaskOfCall'
  BY <1>1, <1>2, <1>3, <1>4, <1>5, <1>6
     DEF WaiterInv, WaiterTypeOK, OwnEvent, MaskOfCall, MaskLatched, e
<1>14. NotifyCredit'
  BY <1>1, <1>3, <1>4, <1>5 DEF WaiterInv, NotifyCredit, Interface
<1> QED  BY <1>7, <1>8, <1>9, <1>10, <1>11, <1>12, <1>13, <1>14 DEF WaiterInv

\* _Complete of the decided event of a parked coroutine.
LEMMA CompleteInv ==
    ASSUME WaiterInv, NEW e \in Events, Complete(e)
    PROVE  WaiterInv'
<1>1. /\ est[e] = "decided" /\ est' = [est EXCEPT ![e] = "final"]
      /\ slot' = slot /\ runStatus' = runStatus /\ holder' = holder /\ emask' = emask
      /\ epay' = epay /\ timer' = timer /\ pc' = pc /\ call' = call /\ cev' = cev
      /\ clock' = clock /\ rest' = rest /\ cancelRequested' = cancelRequested
      /\ cancelling' = cancelling /\ yret' = yret /\ result' = result /\ value' = value
      /\ notified' = notified /\ broken' = broken
  BY DEF Complete, slotVars, coVars, cancelVars, outVars, histVars
<1>2. PICK c \in Waiters : cev[c] = e /\ pc[c] = "parked"
  BY DEF Complete
<1>3. \A f \in Events : est'[f] = IF f = e THEN "final" ELSE est[f]
  BY <1>1 DEF WaiterInv, WaiterTypeOK
<1>4. WaiterTypeOK'
  BY <1>1 DEF WaiterInv, WaiterTypeOK, EventStates
<1>5. SlotLock' /\ SlotOwned' /\ CancelFlag' /\ NotifyCredit'
  BY <1>1 DEF WaiterInv, SlotLock, SlotOwned, CancelFlag, NotifyCredit, Interface
<1>6. OwnEvent'
  BY <1>1, <1>2, <1>3 DEF WaiterInv, WaiterTypeOK, OwnEvent
<1>7. WaiterReachable' /\ MaskLatched'
  BY <1>1, <1>3 DEF WaiterInv, WaiterTypeOK, OwnEvent, WaiterReachable, MaskLatched
<1>8. MaskOfCall'
  BY <1>1, <1>2, <1>3 DEF WaiterInv, WaiterTypeOK, OwnEvent, MaskLatched, MaskOfCall
<1> QED  BY <1>4, <1>5, <1>6, <1>7, <1>8 DEF WaiterInv

\* Resume of a coroutine whose event is final, and the throwing yield.
LEMMA MoveOnInv ==
    ASSUME WaiterInv, NEW c \in Waiters, Resume(c) \/ YieldThrows(c)
    PROVE  WaiterInv'
<1>1. /\ slot' = slot /\ runStatus' = runStatus /\ holder' = holder /\ est' = est
      /\ emask' = emask /\ epay' = epay /\ timer' = timer /\ call' = call /\ cev' = cev
      /\ clock' = clock /\ rest' = rest /\ cancelRequested' = cancelRequested
      /\ cancelling' = cancelling /\ yret' = yret /\ result' = result /\ value' = value
      /\ notified' = notified /\ broken' = broken
  BY DEF Resume, YieldThrows, slotVars, eventVars, cancelVars, outVars, histVars
<1>2. PICK l \in {"back", "unwind"} :
         /\ pc' = [pc EXCEPT ![c] = l]
         /\ \/ pc[c] = "parked" /\ est[cev[c]] = "final" /\ l = "back"
            \/ pc[c] = "yield" /\ l = "unwind"
  BY DEF Resume, YieldThrows
<1>3. pc'[c] = l /\ \A d \in Waiters : d # c => pc'[d] = pc[d]
  BY <1>2 DEF WaiterInv, WaiterTypeOK
<1>4. WaiterTypeOK'
  BY <1>1, <1>2 DEF WaiterInv, WaiterTypeOK, PC
<1>5. SlotLock' /\ SlotOwned' /\ CancelFlag' /\ MaskLatched'
  BY <1>1, <1>2, <1>3 DEF WaiterInv, SlotLock, SlotOwned, CancelFlag, MaskLatched
<1>6. OwnEvent' /\ WaiterReachable'
  BY <1>1, <1>2, <1>3 DEF WaiterInv, OwnEvent, WaiterReachable
<1>7. MaskOfCall' /\ NotifyCredit'
  BY <1>1, <1>2, <1>3 DEF WaiterInv, MaskOfCall, NotifyCredit, Interface
<1> QED  BY <1>4, <1>5, <1>6, <1>7 DEF WaiterInv

\* Unbind: the call takes only its own event out of the slot, and what it reports
\* is what decided that event.
LEMMA UnbindInv ==
    ASSUME WaiterInv, NEW c \in Waiters, Unbind(c)
    PROVE  WaiterInv'
<1> DEFINE e == cev[c]
<1>1. /\ pc[c] = "back" /\ holder = NoCo /\ holder' = holder /\ est' = est /\ emask' = emask
      /\ epay' = epay /\ timer' = timer /\ call' = call /\ cev' = cev /\ clock' = clock
      /\ rest' = rest /\ cancelRequested' = cancelRequested /\ cancelling' = cancelling
      /\ yret' = yret /\ notified' = notified /\ broken' = broken
      /\ slot' = IF slot = e THEN NoEvent ELSE slot
      /\ runStatus' = IF slot = e THEN "FREE" ELSE runStatus
      /\ pc' = [pc EXCEPT ![c] = "run"] /\ result' = [result EXCEPT ![c] = Status(c)]
  BY DEF Unbind, OwnSlot, eventVars, cancelVars, histVars
<1>2. PICK v \in Payloads \cup {Empty} :
         /\ value' = [value EXCEPT ![c] = v]
         /\ v = IF yret[c] = "zero" /\ emask[e] = "CUSTOM" THEN epay[e] ELSE Empty
  <2>1. e \in Events
    BY <1>1 DEF WaiterInv, WaiterTypeOK, OwnEvent
  <2>2. epay[e] \in Payloads \cup {Empty}
    BY <2>1 DEF WaiterInv, WaiterTypeOK
  <2> QED  BY <2>2 DEF Unbind
<1>3. /\ e \in Events /\ est[e] = "final" /\ yret[c] \in {"zero", "error"}
      /\ (yret[c] = "error" <=> emask[e] = "NONE") /\ emask[e] \in Masks
      /\ \A d \in Waiters : d # c => cev[d] # e
      /\ (notified[e] # "none" <=> emask[e] = "CUSTOM")
      /\ (notified[e] # "none" => epay[e] = notified[e])
      /\ (emask[e] = "CANCELLED" => cancelRequested[c])
  BY <1>1 DEF WaiterInv, WaiterTypeOK, OwnEvent, MaskOfCall, MaskLatched
<1>4. /\ Status(c) \in Results
      /\ notified[e] # "none" => Status(c) = "Completed"
      /\ notified[e] = "none" /\ Status(c) = "Completed" =>
            Interface(c) = "legacy" /\ cancelRequested[c]
  BY <1>3 DEF Status, Masks, Results
<1>5. pc'[c] = "run" /\ result'[c] = Status(c) /\ value'[c] = v
  BY <1>1, <1>2 DEF WaiterInv, WaiterTypeOK
<1>6. \A d \in Waiters : d # c =>
         pc'[d] = pc[d] /\ result'[d] = result[d] /\ value'[d] = value[d]
  BY <1>1, <1>2 DEF WaiterInv, WaiterTypeOK
<1> HIDE DEF e
<1>7. WaiterTypeOK'
  BY <1>1, <1>2, <1>4 DEF WaiterInv, WaiterTypeOK, PC
<1>8. SlotLock' /\ CancelFlag'
  BY <1>1, <1>5, <1>6 DEF WaiterInv, SlotLock, CancelFlag
<1>9. SlotOwned'
  BY <1>1, <1>5, <1>6 DEF WaiterInv, SlotOwned, e
<1>10. OwnEvent'
  BY <1>1, <1>3, <1>5, <1>6 DEF WaiterInv, OwnEvent, e
<1>11. WaiterReachable'
  BY <1>1, <1>3, <1>5, <1>6 DEF WaiterInv, WaiterReachable
<1>12. MaskLatched'
  BY <1>1, <1>3 DEF WaiterInv, MaskLatched
<1>13. MaskOfCall'
  BY <1>1, <1>5, <1>6 DEF WaiterInv, MaskOfCall
<1>14. NotifyCredit'
  <2> SUFFICES ASSUME NEW d \in Waiters, pc'[d] = "run", cev'[d] # NoEvent,
                      result'[d] # "Exception"
               PROVE  IF notified'[cev'[d]] # "none"
                      THEN result'[d] = "Completed" /\ value'[d] = notified'[cev'[d]]
                      ELSE /\ value'[d] = Empty
                           /\ result'[d] = "Completed" => Interface(d)' = "legacy" /\ cancelRequested'[d]
    BY DEF NotifyCredit
  <2>1. CASE d = c
    BY <1>1, <1>2, <1>3, <1>4, <1>5, <2>1 DEF Interface, e
  <2>2. CASE d # c
    BY <1>1, <1>6, <2>2 DEF WaiterInv, NotifyCredit, Interface
  <2> QED  BY <2>1, <2>2
<1> QED  BY <1>7, <1>8, <1>9, <1>10, <1>11, <1>12, <1>13, <1>14 DEF WaiterInv

\* The unwinding of a throwing yield: the event is over, the slot is given back.
LEMMA UnwindInv ==
    ASSUME WaiterInv, NEW c \in Waiters, Unwind(c)
    PROVE  WaiterInv'
<1> DEFINE e == cev[c]
<1>1. /\ pc[c] = "unwind" /\ holder = NoCo /\ holder' = holder /\ emask' = emask
      /\ epay' = epay /\ timer' = timer /\ call' = call /\ cev' = cev /\ clock' = clock
      /\ rest' = rest /\ cancelRequested' = cancelRequested /\ cancelling' = cancelling
      /\ yret' = yret /\ notified' = notified /\ broken' = broken
      /\ slot' = IF slot = e THEN NoEvent ELSE slot
      /\ runStatus' = IF slot = e THEN "FREE" ELSE runStatus
      /\ est' = [est EXCEPT ![e] = "final"] /\ pc' = [pc EXCEPT ![c] = "run"]
      /\ result' = [result EXCEPT ![c] = "Exception"] /\ value' = [value EXCEPT ![c] = Empty]
  BY DEF Unwind, OwnSlot, Return, cancelVars, histVars
<1>3. e \in Events /\ e # NoEvent /\ \A d \in Waiters : d # c => cev[d] # e
  BY <1>1, EventOfCall
<1>4. \A f \in Events : est'[f] = IF f = e THEN "final" ELSE est[f]
  BY <1>1 DEF WaiterInv, WaiterTypeOK
<1>5. pc'[c] = "run" /\ result'[c] = "Exception" /\ value'[c] = Empty
  BY <1>1 DEF WaiterInv, WaiterTypeOK
<1>6. \A d \in Waiters : d # c =>
         pc'[d] = pc[d] /\ result'[d] = result[d] /\ value'[d] = value[d]
  BY <1>1 DEF WaiterInv, WaiterTypeOK
<1> HIDE DEF e
<1>7. WaiterTypeOK'
  BY <1>1 DEF WaiterInv, WaiterTypeOK, PC, Results, EventStates
<1>8. SlotLock' /\ CancelFlag'
  BY <1>1, <1>5, <1>6 DEF WaiterInv, SlotLock, CancelFlag
<1>9. SlotOwned'
  BY <1>1, <1>5, <1>6 DEF WaiterInv, SlotOwned, e
<1>10. OwnEvent'
  BY <1>1, <1>3, <1>4, <1>5, <1>6 DEF WaiterInv, WaiterTypeOK, OwnEvent, e
<1>11. WaiterReachable'
  BY <1>1, <1>3, <1>4, <1>5, <1>6 DEF WaiterInv, WaiterTypeOK, OwnEvent, WaiterReachable, e
<1>12. MaskLatched'
  BY <1>1, <1>3, <1>4 DEF WaiterInv, MaskLatched
<1>13. MaskOfCall'
  BY <1>1, <1>3, <1>4, <1>5, <1>6 DEF WaiterInv, WaiterTypeOK, OwnEvent, MaskOfCall, e
<1>14. NotifyCredit'
  BY <1>1, <1>5, <1>6 DEF WaiterInv, NotifyCredit, Interface
<1> QED  BY <1>7, <1>8, <1>9, <1>10, <1>11, <1>12, <1>13, <1>14 DEF WaiterInv

\* Notify decides the event in the slot if nothing else has; from then on it
\* passes this waiter by, so the payload stays.
LEMMA NotifyInv ==
    ASSUME WaiterInv, NEW p \in Payloads \cup {Empty}, Notify(p)
    PROVE  WaiterInv'
<1> DEFINE e == slot
<1>1. /\ holder = NoCo /\ runStatus = "WAIT" /\ runStatus' = "ACTIVE" /\ slot' = slot
      /\ holder' = holder /\ epay' = [epay EXCEPT ![e] = p] /\ timer' = timer /\ pc' = pc
      /\ call' = call /\ cev' = cev /\ clock' = clock /\ rest' = rest
      /\ cancelRequested' = cancelRequested /\ cancelling' = cancelling /\ yret' = yret
      /\ result' = result /\ value' = value /\ broken' = broken
  BY DEF Notify, NotifiableStatus, coVars, cancelVars, outVars
<1>2. e \in Events /\ notified[e] = "none"
  BY <1>1 DEF Notify, WaiterInv, WaiterTypeOK, MaskLatched
<1>3. PICK o \in Waiters : cev[o] = e /\ pc[o] \in {"yield", "parked", "back", "unwind"}
  BY DEF Notify, WaiterInv, SlotOwned
<1>4. \A d \in Waiters : d # o => cev[d] # e
  BY <1>2, <1>3 DEF WaiterInv, OwnEvent
<1>5. CASE est[e] \in {"inited", "live"}
  <2>1. /\ est' = [est EXCEPT ![e] = "decided"] /\ emask' = [emask EXCEPT ![e] = "CUSTOM"]
        /\ notified' = [notified EXCEPT ![e] = p] /\ p # "none"
    BY <1>5 DEF Notify, Trigger
  <2>2. \A f \in Events : /\ est'[f] = IF f = e THEN "decided" ELSE est[f]
                          /\ emask'[f] = IF f = e THEN "CUSTOM" ELSE emask[f]
                          /\ notified'[f] = IF f = e THEN p ELSE notified[f]
                          /\ epay'[f] = IF f = e THEN p ELSE epay[f]
    BY <1>1, <2>1 DEF WaiterInv, WaiterTypeOK
  <2>3. pc[o] \in {"yield", "parked", "unwind"} /\ est[e] = "live"
    BY <1>2, <1>3, <1>5 DEF WaiterInv, OwnEvent
  <2> HIDE DEF e
  <2>4. WaiterTypeOK'
    BY <1>1, <1>2, <2>1 DEF WaiterInv, WaiterTypeOK, EventStates, Masks
  <2>5. SlotLock' /\ SlotOwned' /\ CancelFlag'
    BY <1>1 DEF WaiterInv, SlotLock, SlotOwned, CancelFlag
  <2>6. OwnEvent'
    BY <1>1, <1>2, <1>3, <1>4, <2>2, <2>3 DEF WaiterInv, WaiterTypeOK, OwnEvent
  <2>7. WaiterReachable'
    <3> SUFFICES ASSUME NEW d \in Waiters, pc[d] \in {"yield", "parked"}, est'[cev[d]] = "live"
                 PROVE  FALSE
      BY <1>1 DEF WaiterReachable
    <3>1. cev[d] \in Events
      BY DEF WaiterInv, WaiterTypeOK, OwnEvent
    <3> QED  BY <2>2, <3>1 DEF WaiterInv, WaiterReachable, e
  <2>8. MaskLatched'
    BY <1>1, <1>2, <2>1, <2>2 DEF WaiterInv, MaskLatched, e
  <2>9. MaskOfCall'
    BY <1>1, <1>2, <1>3, <1>4, <2>2, <2>3 DEF WaiterInv, WaiterTypeOK, OwnEvent, MaskOfCall
  <2>10. NotifyCredit'
    BY <1>1, <1>3, <1>4, <2>2 DEF WaiterInv, WaiterTypeOK, NotifyCredit, Interface
  <2> QED  BY <2>4, <2>5, <2>6, <2>7, <2>8, <2>9, <2>10 DEF WaiterInv
<1>6. CASE est[e] \notin {"inited", "live"}
  <2>1. est' = est /\ emask' = emask /\ notified' = notified
    BY <1>2, <1>6 DEF Notify, Trigger, WaiterInv, WaiterTypeOK
  <2>2. \A f \in Events : epay'[f] = IF f = e THEN p ELSE epay[f]
    BY <1>1 DEF WaiterInv, WaiterTypeOK
  <2>3. WaiterTypeOK'
    BY <1>1, <1>2, <2>1 DEF WaiterInv, WaiterTypeOK
  <2>4. SlotLock' /\ SlotOwned' /\ CancelFlag' /\ OwnEvent'
    BY <1>1, <2>1 DEF WaiterInv, SlotLock, SlotOwned, CancelFlag, OwnEvent
  <2>5. WaiterReachable'
    BY <1>1, <1>6, <2>1 DEF WaiterInv, WaiterReachable
  <2>6. MaskLatched'
    BY <1>1, <1>2, <2>1, <2>2 DEF WaiterInv, MaskLatched
  <2>7. MaskOfCall' /\ NotifyCredit'
    BY <1>1, <2>1 DEF WaiterInv, MaskOfCall, NotifyCredit, Interface
  <2> QED  BY <2>3, <2>4, <2>5, <2>6, <2>7 DEF WaiterInv
<1> QED  BY <1>5, <1>6

-----------------------------------------------------------------------------
\* The steps of the clock, the timer, the descriptor and RequestCancel.
LEMMA OutsideInv ==
    ASSUME WaiterInv, NEW c \in Waiters,
           \/ Tick(c) \/ TimerFires(c) \/ FdEvent(c) \/ RequestCancel(c)
           \/ RequestCancelTrigger(c)
    PROVE  WaiterInv'
<1>0. WaiterTypeOK /\ CancelFlag
  BY DEF WaiterInv
<1>1. CASE Tick(c)
  <2>1. /\ UNCHANGED <<slot, holder, eventVars, pc, call, cev, outVars, histVars>>
        /\ clock' \in [Waiters -> {"ahead", "just", "past"}] /\ rest' = rest
        /\ cancelRequested' = cancelRequested /\ cancelling' = cancelling
        /\ runStatus' = runStatus
    BY <1>0, <1>1 DEF Tick, slotVars, cancelVars, WaiterTypeOK
  <2> QED  BY <1>0, <2>1, IdleWaiterInv DEF CancelFlag, WaiterTypeOK
<1>2. CASE RequestCancel(c)
  <2>1. /\ UNCHANGED <<slot, holder, eventVars, pc, call, cev, outVars, histVars>>
        /\ clock' = clock /\ rest' = rest /\ runStatus' = runStatus
        /\ cancelRequested' = [cancelRequested EXCEPT ![c] = TRUE]
        /\ cancelling' = [cancelling EXCEPT ![c] = TRUE]
    BY <1>2 DEF RequestCancel, slotVars, coVars
  <2>2. /\ cancelRequested' \in [Waiters -> BOOLEAN] /\ cancelling' \in [Waiters -> BOOLEAN]
        /\ CancelFlag' /\ \A d \in Waiters : cancelRequested[d] => cancelRequested'[d]
    BY <1>0, <2>1 DEF WaiterTypeOK, CancelFlag
  <2> QED  BY <1>0, <2>1, <2>2, IdleWaiterInv DEF WaiterTypeOK
<1>4. CASE TimerFires(c)
  <2>1. cancelling' = cancelling /\ cancelRequested' = cancelRequested
    BY <1>4 DEF TimerFires, cancelVars
  <2> QED  BY <1>0, <1>4, <2>1, TriggerInv DEF TimerFires, CancelFlag, Masks, WaiterTypeOK
<1>5. CASE FdEvent(c)
  <2>1. cancelling' = cancelling /\ cancelRequested' = cancelRequested
    BY <1>5 DEF FdEvent, cancelVars
  <2> QED  BY <1>0, <1>5, <2>1, TriggerInv DEF FdEvent, CancelFlag, Masks, WaiterTypeOK
<1>6. CASE RequestCancelTrigger(c)
  <2>1. /\ cancelRequested[c] /\ cancelRequested' = cancelRequested
        /\ cancelling' = [cancelling EXCEPT ![c] = FALSE]
    BY <1>0, <1>6 DEF RequestCancelTrigger, CancelFlag
  <2>2. cancelling' \in [Waiters -> BOOLEAN] /\ CancelFlag'
    BY <1>0, <2>1 DEF WaiterTypeOK, CancelFlag
  <2>3. CASE pc[c] \in {"init", "yield", "parked"}
    BY <1>6, <2>1, <2>2, <2>3, TriggerInv DEF RequestCancelTrigger, Masks
  <2>4. CASE pc[c] \notin {"init", "yield", "parked"}
    <3>1. /\ UNCHANGED <<slot, holder, eventVars, pc, call, cev, outVars, histVars>>
          /\ clock' = clock /\ rest' = rest /\ runStatus' = runStatus
      BY <1>6, <2>4 DEF RequestCancelTrigger, slotVars, coVars, eventVars
    <3> QED  BY <1>0, <2>1, <2>2, <3>1, IdleWaiterInv DEF WaiterTypeOK
  <2> QED  BY <2>3, <2>4
<1> QED  BY <1>1, <1>2, <1>4, <1>5, <1>6

\* The inductive invariant of CoWaiter.
THEOREM WaiterInvariance == WaiterSpec => []WaiterInv
<1>1. WaiterInit => WaiterInv
  <2> SUFFICES ASSUME WaiterInit PROVE WaiterInv
    OBVIOUS
  <2>1. WaiterTypeOK
    BY DEF WaiterInit, WaiterTypeOK, EventStates, Masks, PC, Interfaces, Results
  <2>2. SlotLock /\ OwnEvent /\ SlotOwned /\ WaiterReachable
    BY DEF WaiterInit, SlotLock, OwnEvent, SlotOwned, WaiterReachable
  <2>3. MaskLatched /\ MaskOfCall /\ CancelFlag /\ NotifyCredit
    BY DEF WaiterInit, MaskLatched, MaskOfCall, CancelFlag, NotifyCredit
  <2> QED  BY <2>1, <2>2, <2>3 DEF WaiterInv
<1>2. WaiterInv /\ [WaiterNext]_waiterVars => WaiterInv'
  <2> SUFFICES ASSUME WaiterInv, [WaiterNext]_waiterVars PROVE WaiterInv'
    OBVIOUS
  <2>1. CASE UNCHANGED waiterVars
    BY <2>1 DEF waiterVars, WaiterInv, WaiterTypeOK, SlotLock, OwnEvent, SlotOwned,
                WaiterReachable, MaskLatched, MaskOfCall, CancelFlag, NotifyCredit, Interface
  <2>2. ASSUME NEW c \in Waiters, Establish(c) PROVE WaiterInv'
    BY <2>2, SecondClockInv, RegistCustomInv, InitAndBindInv, RegistAwaitEventInv DEF Establish
  <2>3. ASSUME Cancel PROVE WaiterInv'
    <3>1. UNCHANGED <<slot, holder, eventVars, pc, call, cev, clock, rest, cancelVars, outVars,
                      histVars>> /\ runStatus' = "FREE"
      BY <2>3 DEF Cancel, coVars
    <3> QED  BY <3>1, IdleWaiterInv DEF WaiterInv, CancelFlag, WaiterTypeOK, cancelVars
  <2> QED  BY <2>1, <2>2, <2>3, EnterInv, MoveOnInv, UnbindInv, UnwindInv, OutsideInv,
              CompleteInv, NotifyInv DEF WaiterNext
<1> QED  BY <1>1, <1>2, PTL DEF WaiterSpec

\* A suspended waiter can be reached through the slot, an accepted Notify is what
\* its wait reports, and no slot stays taken, for any number of coroutines, events
\* and payloads and every mix of the three interfaces.
THEOREM WaiterSafeHolds == WaiterSpec => []WaiterSafe
<1>1. WaiterInv => WaiterSafe
  BY DEF WaiterInv, WaiterSafe, SlotOwned, SlotReleased
<1> QED  BY WaiterInvariance, <1>1, PTL

-----------------------------------------------------------------------------
(* CoEventValue.                                                            *)

\* The identifiers of a type's levels, innermost first.
IsIds(f, t, n) == f = [d \in 0 .. n |-> IF d = 0 THEN BaseId(t.base) ELSE PointerId(f[d - 1], t.ptrs[d])]
Ids(t) == CHOOSE f : IsIds(f, t, Len(t.ptrs))

\* No type in use has more levels than the limit is meant to allow.
LevelsLimited == \A t \in PayloadTypes : Len(t.ptrs) <= kMaxPointerDepth

LEMMA TypeIdIs == ASSUME NEW t PROVE TypeId(t) = Ids(t)[Len(t.ptrs)]
BY DEF TypeId, Ids, IsIds

\* One level more.
LEMMA IdsGrow ==
    ASSUME NEW t, NEW n \in Nat, \E f : IsIds(f, t, n)
    PROVE  \E f : IsIds(f, t, n + 1)
<1>1. PICK f : IsIds(f, t, n)
  OBVIOUS
<1> DEFINE g == [d \in 0 .. n + 1 |-> IF d = n + 1 THEN PointerId(f[n], t.ptrs[n + 1]) ELSE f[d]]
           h == [d \in 0 .. n + 1 |-> IF d = 0 THEN BaseId(t.base) ELSE PointerId(g[d - 1], t.ptrs[d])]
<1>2. \A d \in 0 .. n : f[d] = IF d = 0 THEN BaseId(t.base) ELSE PointerId(f[d - 1], t.ptrs[d])
  BY <1>1 DEF IsIds
<1>3. ASSUME NEW d \in 0 .. n + 1 PROVE g[d] = h[d]
  <2>1. CASE d = 0
    BY <1>2, <2>1
  <2>2. CASE d = n + 1
    BY <2>2
  <2>3. CASE d # 0 /\ d # n + 1
    <3>1. d \in 0 .. n /\ d - 1 \in 0 .. n + 1 /\ d - 1 # n + 1
      BY <2>3
    <3> QED  BY <1>2, <2>3, <3>1
  <2> QED  BY <2>1, <2>2, <2>3
<1>4. g = h
  BY <1>3
<1> QED  BY <1>4 DEF IsIds

LEMMA IdsExist ==
    ASSUME NEW t, NEW n \in 0 .. kMaxPointerDepth
    PROVE  \E f : IsIds(f, t, n)
<1>0. \E f : IsIds(f, t, 0)
  <2> DEFINE g == [d \in 0 .. 0 |-> BaseId(t.base)]
  <2>1. g = [d \in 0 .. 0 |-> IF d = 0 THEN BaseId(t.base) ELSE PointerId(g[d - 1], t.ptrs[d])]
    OBVIOUS
  <2> QED  BY <2>1 DEF IsIds
<1>1. \E f : IsIds(f, t, 1)
  BY <1>0, IdsGrow
<1>2. \E f : IsIds(f, t, 2)
  BY <1>1, IdsGrow
<1>3. \E f : IsIds(f, t, 3)
  BY <1>2, IdsGrow
<1>4. \E f : IsIds(f, t, 4)
  BY <1>3, IdsGrow
<1>5. \E f : IsIds(f, t, 5)
  BY <1>4, IdsGrow
<1>6. \E f : IsIds(f, t, 6)
  BY <1>5, IdsGrow
<1>7. \E f : IsIds(f, t, 7)
  BY <1>6, IdsGrow
<1>8. n \in {0, 1, 2, 3, 4, 5, 6, 7}
  BY DEF kMaxPointerDepth
<1> QED  BY <1>0, <1>1, <1>2, <1>3, <1>4, <1>5, <1>6, <1>7, <1>8

\* The two halves of an identifier, with a bound on the upper one.
Halves(id, bound) ==
    /\ id = <<id[1], id[2]>>
    /\ id[1] \in Nat /\ id[1] <= bound /\ id[2] \in Nat /\ id[2] < 65536

\* The lower half carries q into the upper one.
Carries(h, l, c, q, r) ==
    /\ q \in 0 .. 3 /\ r \in Nat /\ r < 65536 /\ 4 * l + c = 65536 * q + r
    /\ PointerId(<<h, l>>, c) = <<4 * h + q + 1, r>>

\* A pointer's identifier does not wrap, and gives back what it was made from.
LEMMA PointerIdFacts ==
    ASSUME NEW h \in Nat, h <= 5460, NEW l \in Nat, l < 65536, NEW c \in 0 .. 3
    PROVE  \E q, r : Carries(h, l, c, q, r)
<1> DEFINE low == 4 * l + c
           q == low \div 65536
           r == low % 65536
<1>1. low \in Nat /\ low < 262144
  OBVIOUS
<1>2. q \in 0 .. 3 /\ r \in Nat /\ r < 65536 /\ low = 65536 * q + r
  <2> HIDE DEF low
  <2> QED  BY <1>1
<1>3. PointerId(<<h, l>>, c) = <<(4 * h + q + 1) % 65536, r>>
  BY DEF PointerId, Half
<1> HIDE DEF q, r
<1>4. (4 * h + q + 1) % 65536 = 4 * h + q + 1
  BY <1>2
<1>5. Carries(h, l, c, q, r)
  BY <1>2, <1>3, <1>4 DEF Carries, low
<1> QED  BY <1>5

LEMMA PointerIdInjective ==
    ASSUME NEW a, Halves(a, 5460), NEW c \in 0 .. 3, NEW b, Halves(b, 5460), NEW e \in 0 .. 3,
           PointerId(a, c) = PointerId(b, e)
    PROVE  a = b /\ c = e
<1> DEFINE h == a[1]
           l == a[2]
           i == b[1]
           m == b[2]
<1>0. /\ a = <<h, l>> /\ h \in Nat /\ h <= 5460 /\ l \in Nat /\ l < 65536
      /\ b = <<i, m>> /\ i \in Nat /\ i <= 5460 /\ m \in Nat /\ m < 65536
  BY DEF Halves
<1> HIDE DEF h, l, i, m
<1>1. PICK q, r : Carries(h, l, c, q, r)
  BY <1>0, PointerIdFacts
<1>2. PICK p, s : Carries(i, m, e, p, s)
  BY <1>0, PointerIdFacts
<1>3. <<4 * h + q + 1, r>> = <<4 * i + p + 1, s>>
  BY <1>0, <1>1, <1>2 DEF Carries
<1>4. 4 * h + q + 1 = 4 * i + p + 1 /\ r = s
  BY ONLY <1>3
<1>5. h = i /\ q = p
  BY <1>0, <1>1, <1>2, <1>4 DEF Carries
<1>6. 4 * l + c = 4 * m + e
  BY <1>1, <1>2, <1>4, <1>5 DEF Carries
<1>7. l = m /\ c = e
  BY <1>0, <1>6
<1> QED  BY <1>0, <1>5, <1>7

\* What the static_asserts leave of a type.
LEMMA TypeParts ==
    ASSUME NEW t \in PayloadTypes
    PROVE  /\ t.base \in Nat /\ t.base > 0 /\ t.base < 65536
           /\ t.ptrs \in Seq(0 .. 3) /\ Len(t.ptrs) \in Nat
           /\ \A d \in 1 .. Len(t.ptrs) : t.ptrs[d] \in 0 .. 3
           /\ t = [base |-> t.base, ptrs |-> t.ptrs, size |-> t.size]
<1>1. Encodable(t)
  BY CoEventValueAssumption DEF CoEventValueAssumption
<1>2. t \in [base : Builtin \cup (kCustomBegin .. kPointerBegin - 1), ptrs : Seq(0 .. 3), size : 0 .. kInlineSize]
  BY <1>1 DEF Encodable
<1>3. \A b \in Builtin \cup (kCustomBegin .. kPointerBegin - 1) : b \in Nat /\ b > 0 /\ b < 65536
  <2>1. \A b \in Builtin : b \in Nat /\ b > 0 /\ b < 65536
    BY DEF Builtin
  <2>2. \A k \in Nat : \A b \in k .. kPointerBegin - 1 : b \in Nat /\ b >= k /\ b < 65536
    BY DEF kPointerBegin
  <2>3. kCustomBegin \in Nat /\ kCustomBegin > 0
    BY DEF kCustomBegin
  <2> QED  BY <2>1, <2>2, <2>3
<1>4. t.base \in Builtin \cup (kCustomBegin .. kPointerBegin - 1) /\ t.ptrs \in Seq(0 .. 3)
      /\ t = [base |-> t.base, ptrs |-> t.ptrs, size |-> t.size]
  BY <1>2
<1>5. Len(t.ptrs) \in Nat /\ \A d \in 1 .. Len(t.ptrs) : t.ptrs[d] \in 0 .. 3
  BY <1>4
<1> QED  BY <1>3, <1>4, <1>5

LEMMA IdsAre ==
    ASSUME NEW t \in PayloadTypes, NEW n, n = Len(t.ptrs), NEW f, IsIds(f, t, n)
    PROVE  /\ n \in Nat /\ f[0] = BaseId(t.base)
           /\ \A d \in 1 .. n : f[d] = PointerId(f[d - 1], t.ptrs[d]) /\ d - 1 \in 0 .. n /\ t.ptrs[d] \in 0 .. 3
<1>1. n \in Nat /\ 0 \in 0 .. n /\ \A d \in 1 .. n : d \in 0 .. n /\ d # 0 /\ d - 1 \in 0 .. n /\ t.ptrs[d] \in 0 .. 3
  BY TypeParts
<1>2. \A d \in 0 .. n : f[d] = IF d = 0 THEN BaseId(t.base) ELSE PointerId(f[d - 1], t.ptrs[d])
  BY DEF IsIds
<1> QED  BY <1>1, <1>2

\* A level of a pointer.
LEMMA LevelUp ==
    ASSUME NEW t \in PayloadTypes, NEW n, n = Len(t.ptrs), NEW f, IsIds(f, t, n),
           NEW d \in 1 .. n, NEW bound \in Nat, bound <= 5460, Halves(f[d - 1], bound)
    PROVE  Halves(f[d], 4 * bound + 4) /\ f[d][1] > 0
<1> DEFINE h == f[d - 1][1]
           l == f[d - 1][2]
           c == t.ptrs[d]
<1>1. f[d] = PointerId(<<h, l>>, c) /\ c \in 0 .. 3
      /\ h \in Nat /\ h <= bound /\ l \in Nat /\ l < 65536
  <2>1. f[d] = PointerId(f[d - 1], c) /\ c \in 0 .. 3
    BY IdsAre
  <2>2. f[d - 1] = <<h, l>> /\ h \in Nat /\ h <= bound /\ l \in Nat /\ l < 65536
    BY DEF Halves
  <2> QED  BY <2>1, <2>2
<1> HIDE DEF h, l, c
<1>2. h <= 5460
  BY <1>1
<1>3. PICK q, r : Carries(h, l, c, q, r)
  BY <1>1, <1>2, PointerIdFacts
<1>4. f[d] = <<4 * h + q + 1, r>> /\ q \in 0 .. 3 /\ r \in Nat /\ r < 65536
  BY <1>1, <1>3 DEF Carries
<1>5. f[d][1] = 4 * h + q + 1 /\ f[d][2] = r /\ f[d] = <<f[d][1], f[d][2]>>
  BY <1>4
<1>6. 4 * h + q + 1 \in Nat /\ 4 * h + q + 1 <= 4 * bound + 4 /\ 4 * h + q + 1 > 0
  BY <1>1, <1>4
<1> QED  BY <1>4, <1>5, <1>6 DEF Halves

LEMMA Levels ==
    ASSUME NEW t \in PayloadTypes, NEW n, n = Len(t.ptrs), n <= kMaxPointerDepth, NEW f, IsIds(f, t, n)
    PROVE  /\ f[0] = <<0, t.base>> /\ Halves(f[0], 0)
           /\ \A d \in 1 .. n : Halves(f[d - 1], 5460) /\ f[d][1] > 0
<1>0. f[0] = <<0, t.base>> /\ Halves(f[0], 0) /\ n \in Nat /\ n <= 7
  <2>1. f[0] = BaseId(t.base) /\ n \in Nat
    BY IdsAre
  <2>2. t.base \in Nat /\ t.base < 65536
    BY TypeParts
  <2>3. t.base \div 65536 = 0 /\ t.base % 65536 = t.base
    BY <2>2
  <2>4. f[0] = <<0, t.base>>
    BY <2>1, <2>3 DEF BaseId, Half
  <2> QED  BY <2>1, <2>2, <2>4 DEF Halves, kMaxPointerDepth
<1> DEFINE At(d, bound) == d \in 0 .. n => Halves(f[d], bound) /\ (d > 0 => f[d][1] > 0)
<1>10. ASSUME NEW d \in Nat, d > 0, NEW bound \in Nat, bound <= 5460, At(d - 1, bound), NEW b, b = 4 * bound + 4
       PROVE  At(d, b)
  <2> SUFFICES ASSUME d \in 0 .. n PROVE Halves(f[d], b) /\ f[d][1] > 0
    OBVIOUS
  <2>1. d \in 1 .. n /\ d - 1 \in 0 .. n
    BY <1>0, <1>10
  <2>2. Halves(f[d - 1], bound)
    BY <1>10, <2>1
  <2>3. bound \in Nat /\ bound <= 5460
    BY <1>10
  <2>4. Halves(f[d], 4 * bound + 4) /\ f[d][1] > 0
    BY <2>1, <2>2, <2>3, LevelUp
  <2> QED  BY <1>10, <2>4
<1>11. At(0, 0)
  BY <1>0
<1> HIDE DEF At
<1>1. At(1, 4)
  BY <1>10, <1>11
<1>2. At(2, 20)
  BY <1>10, <1>1
<1>3. At(3, 84)
  BY <1>10, <1>2
<1>4. At(4, 340)
  BY <1>10, <1>3
<1>5. At(5, 1364)
  BY <1>10, <1>4
<1>6. At(6, 5460)
  BY <1>10, <1>5
<1>7. At(7, 21844)
  BY <1>10, <1>6
<1>12. ASSUME NEW d \in 0 .. n PROVE (d < 7 => Halves(f[d], 5460)) /\ (d > 0 => f[d][1] > 0)
  <2>1. d \in {0, 1, 2, 3, 4, 5, 6, 7}
    BY <1>0
  <2>2. \A bound \in {0, 4, 20, 84, 340, 1364, 5460} : Halves(f[d], bound) => Halves(f[d], 5460)
    BY DEF Halves
  <2> QED  BY <1>11, <1>1, <1>2, <1>3, <1>4, <1>5, <1>6, <1>7, <2>1, <2>2 DEF At
<1>13. ASSUME NEW d \in 1 .. n PROVE Halves(f[d - 1], 5460) /\ f[d][1] > 0
  <2>1. d - 1 \in 0 .. n /\ d - 1 < 7 /\ d \in 0 .. n /\ d > 0
    BY <1>0
  <2> QED  BY <1>12, <2>1
<1> QED  BY <1>0, <1>13

\* Two levels with the same identifier have the same qualifiers, and so have
\* what they point to; a base type has no identifier of a pointer.
LEMMA SameBelow ==
    ASSUME NEW t \in PayloadTypes, NEW n, n = Len(t.ptrs), n <= kMaxPointerDepth, NEW f, IsIds(f, t, n),
           NEW u \in PayloadTypes, NEW m, m = Len(u.ptrs), m <= kMaxPointerDepth, NEW g, IsIds(g, u, m),
           NEW i \in 0 .. n, NEW j \in 0 .. m, f[i] = g[j]
    PROVE  /\ i = 0 <=> j = 0
           /\ i = 0 => t.base = u.base
           /\ i # 0 => f[i - 1] = g[j - 1] /\ t.ptrs[i] = u.ptrs[j]
<1>1. /\ f[0] = <<0, t.base>> /\ n \in Nat
      /\ \A d \in 1 .. n : Halves(f[d - 1], 5460) /\ f[d][1] > 0
      /\ \A d \in 1 .. n : f[d] = PointerId(f[d - 1], t.ptrs[d]) /\ t.ptrs[d] \in 0 .. 3
  BY Levels, IdsAre
<1>2. /\ g[0] = <<0, u.base>> /\ m \in Nat
      /\ \A d \in 1 .. m : Halves(g[d - 1], 5460) /\ g[d][1] > 0
      /\ \A d \in 1 .. m : g[d] = PointerId(g[d - 1], u.ptrs[d]) /\ u.ptrs[d] \in 0 .. 3
  BY Levels, IdsAre
<1>3. i = 0 <=> f[i][1] = 0
  <2>1. f[0][1] = 0
    BY <1>1
  <2>2. i # 0 => i \in 1 .. n
    BY <1>1
  <2> QED  BY <1>1, <2>1, <2>2
<1>4. j = 0 <=> g[j][1] = 0
  <2>1. g[0][1] = 0
    BY <1>2
  <2>2. j # 0 => j \in 1 .. m
    BY <1>2
  <2> QED  BY <1>2, <2>1, <2>2
<1>5. i = 0 <=> j = 0
  BY <1>3, <1>4
<1>6. ASSUME i = 0 PROVE t.base = u.base
  <2>1. <<0, t.base>> = <<0, u.base>>
    BY <1>1, <1>2, <1>5, <1>6
  <2> QED  BY ONLY <2>1
<1>7. ASSUME i # 0 PROVE f[i - 1] = g[j - 1] /\ t.ptrs[i] = u.ptrs[j]
  <2> DEFINE a == f[i - 1]
             b == g[j - 1]
             c == t.ptrs[i]
             e == u.ptrs[j]
  <2>1. i \in 1 .. n /\ j \in 1 .. m
    BY <1>1, <1>2, <1>5, <1>7
  <2>2. Halves(a, 5460) /\ f[i] = PointerId(a, c) /\ c \in 0 .. 3
    BY <1>1, <2>1
  <2>3. Halves(b, 5460) /\ g[j] = PointerId(b, e) /\ e \in 0 .. 3
    BY <1>2, <2>1
  <2>4. f[i] = g[j]
    OBVIOUS
  <2> HIDE DEF a, b, c, e
  <2>5. PointerId(a, c) = PointerId(b, e)
    BY ONLY <2>2, <2>3, <2>4
  <2>6. a = b /\ c = e
    BY ONLY <2>2, <2>3, <2>5, PointerIdInjective
  <2> QED  BY <2>6 DEF a, b, c, e
<1> QED  BY <1>5, <1>6, <1>7

LEMMA SameType ==
    ASSUME NEW t \in PayloadTypes, Len(t.ptrs) <= kMaxPointerDepth,
           NEW u \in PayloadTypes, Len(u.ptrs) <= kMaxPointerDepth, TypeId(t) = TypeId(u)
    PROVE  t.base = u.base /\ t.ptrs = u.ptrs
<1> DEFINE n == Len(t.ptrs)
           m == Len(u.ptrs)
           f == Ids(t)
           g == Ids(u)
<1>1. n \in Nat /\ m \in Nat /\ n <= 7 /\ m <= 7 /\ n \in 0 .. kMaxPointerDepth /\ m \in 0 .. kMaxPointerDepth
  <2>1. n \in Nat /\ m \in Nat /\ n <= kMaxPointerDepth /\ m <= kMaxPointerDepth
    BY TypeParts
  <2> HIDE DEF n, m
  <2> QED  BY <2>1 DEF kMaxPointerDepth
<1>2. IsIds(f, t, n) /\ IsIds(g, u, m)
  <2>1. (\E x : IsIds(x, t, n)) /\ (\E x : IsIds(x, u, m))
    <3> HIDE DEF n, m
    <3> QED  BY <1>1, IdsExist
  <2> QED  BY <2>1 DEF Ids
<1>3. f[n] = g[m]
  BY TypeIdIs
<1>4. n = Len(t.ptrs) /\ m = Len(u.ptrs) /\ n <= kMaxPointerDepth /\ m <= kMaxPointerDepth
  OBVIOUS
<1> HIDE DEF n, m, f, g
<1> DEFINE Agree(k) == k \in 0 .. n => \A j \in 0 .. m : f[k] = g[j] =>
                          k = j /\ t.base = u.base /\ \A x \in 1 .. k : t.ptrs[x] = u.ptrs[x]
<1>5. ASSUME NEW i \in 0 .. n, NEW j \in 0 .. m, f[i] = g[j]
      PROVE  /\ i = 0 <=> j = 0
             /\ i = 0 => t.base = u.base
             /\ i # 0 => f[i - 1] = g[j - 1] /\ t.ptrs[i] = u.ptrs[j]
  BY <1>2, <1>4, <1>5, SameBelow
<1>10. Agree(0)
  <2> SUFFICES ASSUME 0 \in 0 .. n, NEW j \in 0 .. m, f[0] = g[j] PROVE j = 0 /\ t.base = u.base
    OBVIOUS
  <2> QED  BY <1>5
<1>11. ASSUME NEW k \in Nat, Agree(k) PROVE Agree(k + 1)
  <2> SUFFICES ASSUME k + 1 \in 0 .. n, NEW j \in 0 .. m, f[k + 1] = g[j]
               PROVE  k + 1 = j /\ t.base = u.base /\ \A x \in 1 .. k + 1 : t.ptrs[x] = u.ptrs[x]
    OBVIOUS
  <2>1. f[k] = g[j - 1] /\ t.ptrs[k + 1] = u.ptrs[j] /\ j # 0
    <3>1. k + 1 # 0 /\ k + 1 - 1 = k
      OBVIOUS
    <3> QED  BY <1>5, <3>1
  <2>2. k \in 0 .. n /\ j - 1 \in 0 .. m
    BY <1>1, <2>1
  <2>3. k = j - 1 /\ t.base = u.base /\ \A x \in 1 .. k : t.ptrs[x] = u.ptrs[x]
    BY <1>11, <2>1, <2>2
  <2>4. \A x \in 1 .. k + 1 : x = k + 1 \/ x \in 1 .. k
    OBVIOUS
  <2> QED  BY <1>1, <2>1, <2>3, <2>4
<1> HIDE DEF Agree
<1>6. Agree(1)
  BY <1>10, <1>11
<1>7. Agree(2)
  BY <1>6, <1>11
<1>8. Agree(3)
  BY <1>7, <1>11
<1>9. Agree(4)
  BY <1>8, <1>11
<1>12. Agree(5)
  BY <1>9, <1>11
<1>13. Agree(6)
  BY <1>12, <1>11
<1>14. Agree(7)
  BY <1>13, <1>11
<1>15. Agree(n)
  <2>1. n \in {0, 1, 2, 3, 4, 5, 6, 7}
    BY <1>1
  <2> QED  BY <1>6, <1>7, <1>8, <1>9, <1>10, <1>12, <1>13, <1>14, <2>1
<1>16. n = m /\ t.base = u.base /\ \A x \in 1 .. n : t.ptrs[x] = u.ptrs[x]
  BY <1>1, <1>3, <1>15 DEF Agree
<1>17. t.ptrs = u.ptrs
  <2>1. t.ptrs \in Seq(0 .. 3) /\ u.ptrs \in Seq(0 .. 3) /\ Len(t.ptrs) = Len(u.ptrs)
    BY <1>16, TypeParts DEF n, m
  <2> QED  BY <1>16, <2>1 DEF n
<1> QED  BY <1>16, <1>17

\* What a value knows of the type it was made from.
PayloadInv == payload.type # kNone => /\ written \in PayloadTypes
                                      /\ payload.type = TypeId(written) /\ payload.size = written.size

\* A payload is read back as the type it was made from and as no other type in
\* use (CoEventValue::From, Get and the identifiers of CoEventValueTraits),
\* whichever types these are.  None may have more levels of pointers than the limit of
\* CoEventValuePointerDepth: that one does not count the levels below a qualified
\* pointer, and identifiers of more levels wrap.
THEOREM ReadAsWrittenHolds ==
    ASSUME LevelsLimited
    PROVE  PayloadSpec => []ReadAsWritten
<1>1. PayloadInit => PayloadInv
  BY DEF PayloadInit, PayloadInv, EmptyValue
<1>2. PayloadInv /\ [PayloadNext]_payloadVars => PayloadInv'
  <2>1. ASSUME NEW t \in PayloadTypes, From(t) PROVE PayloadInv'
    BY <2>1 DEF From, PayloadInv
  <2>2. ASSUME Cleared PROVE PayloadInv'
    BY <2>2 DEF Cleared, PayloadInv, EmptyValue
  <2>3. ASSUME PayloadInv, UNCHANGED payloadVars PROVE PayloadInv'
    BY <2>3 DEF payloadVars, PayloadInv
  <2> QED  BY <2>1, <2>2, <2>3 DEF PayloadNext
<1>3. PayloadInv => ReadAsWritten
  <2> SUFFICES ASSUME PayloadInv, payload.type # kNone, NEW t \in PayloadTypes
               PROVE  Get(t) <=> written = t
    BY DEF ReadAsWritten
  <2>1. written \in PayloadTypes /\ payload.type = TypeId(written) /\ payload.size = written.size
    BY DEF PayloadInv
  <2>2. ASSUME Get(t) PROVE written = t
    <3>1. TypeId(written) = TypeId(t) /\ written.size = t.size
      BY <2>1, <2>2 DEF Get
    <3>2. written.base = t.base /\ written.ptrs = t.ptrs
      BY <2>1, <3>1, SameType DEF LevelsLimited
    <3>3. /\ written = [base |-> written.base, ptrs |-> written.ptrs, size |-> written.size]
          /\ t = [base |-> t.base, ptrs |-> t.ptrs, size |-> t.size]
      BY <2>1, TypeParts
    <3> QED  BY <3>1, <3>2, <3>3
  <2>3. ASSUME written = t PROVE Get(t)
    BY <2>1, <2>3 DEF Get
  <2> QED  BY <2>2, <2>3
<1> QED  BY <1>1, <1>2, <1>3, PTL DEF PayloadSpec
=============================================================================
