------------------------------ MODULE CoWaiter ------------------------------
(***************************************************************************)
(* sync/CoWaiter: one wait slot shared by coroutines and notifiers.        *)
(*                                                                         *)
(* The slot holds the CoPollEvent of the current waiter.  m_notify_mutex   *)
(* covers the entry checks up to the binding of the slot, every Notify and *)
(* the unbinding after the resumption; it does not cover the clock, the    *)
(* cancel flag of the coroutine, its timer, nor the time between the       *)
(* decision of an event and the resumption of its waiter.                  *)
(*                                                                         *)
(* Events are taken at the level of OneShotWait, which CoPollEvent         *)
(* implements: the first accepted Trigger decides.                         *)
(***************************************************************************)
EXTENDS Naturals, FiniteSets

CONSTANTS Waiters, Events, Payloads,
          NoEvent, NoCo, Empty, \* Empty is CoEventValue{}
          Calls                 \* the calls made: <<interface, timed>>

Interfaces == {"legacy", "narrow", "combined"}

ASSUME CoWaiterAssumption ==
    /\ NoEvent \notin Events
    /\ NoCo \notin Waiters
    /\ Empty \notin Payloads /\ "none" \notin Payloads \cup {Empty}
    /\ Calls \subseteq Interfaces \X BOOLEAN

\* free: not created; inited: created, not yet through InitFdEvent; live: can
\* be triggered; decided: PENDING or TRIGGERING; final: FINAL or CANCELLED.
EventStates == {"free", "inited", "live", "decided", "final"}
Masks == {"NONE", "CUSTOM", "TIMEOUT", "READY", "CANCELLED", "CLOSED"}
Results == {"None", "Completed", "TimedOut", "Cancelled", "FdReady",
            "AlreadyWaiting", "RuntimeUnavailable", "Exception"}
PC == {"run", "clock", "regist", "init", "yield", "parked", "back", "unwind"}

VARIABLES
    slot, runStatus, holder,   \* m_co_event, m_run_status, m_notify_mutex
    est, emask, epay,       \* CoPollEvent: state, latched mask, payload
    timer,                  \* events whose pollevent::Event has a timer
    pc, call, cev,          \* coroutine: where, which call, its wait_event
    clock, rest,            \* deadline of the call: ahead, just over by less
                            \* than a millisecond, past; and remain_ms
    cancelRequested, cancelling,  \* RequestCancel: flag set, Trigger still to come
    yret, result, value,    \* yield_ret and what the call returned
    notified, broken        \* history: payload of the accepted Notify, events
                            \* whose creation or registration failed

slotVars == <<slot, runStatus, holder>>
eventVars == <<est, emask, epay, timer>>
coVars == <<pc, call, cev, clock, rest>>
cancelVars == <<cancelRequested, cancelling>>
outVars == <<yret, result, value>>
histVars == <<notified, broken>>
waiterVars == <<slot, runStatus, holder, est, emask, epay, timer, pc, call, cev, clock, rest,
          cancelRequested, cancelling, yret, result, value, notified, broken>>

\* The type invariant.
WaiterTypeOK ==
    /\ slot \in Events \cup {NoEvent}
    /\ runStatus \in {"FREE", "WAIT", "ACTIVE"}
    /\ holder \in Waiters \cup {NoCo}
    /\ est \in [Events -> EventStates]
    /\ emask \in [Events -> Masks]
    /\ epay \in [Events -> Payloads \cup {Empty}]
    /\ timer \in SUBSET Events
    /\ pc \in [Waiters -> PC]
    /\ call \in [Waiters -> Interfaces \X BOOLEAN]
    /\ cev \in [Waiters -> Events \cup {NoEvent}]
    /\ clock \in [Waiters -> {"ahead", "just", "past"}]
    /\ rest \in [Waiters -> {"positive", "zero", "negative"}]
    /\ cancelRequested \in [Waiters -> BOOLEAN]
    /\ cancelling \in [Waiters -> BOOLEAN]
    /\ yret \in [Waiters -> {"zero", "error"}]
    /\ result \in [Waiters -> Results]
    /\ value \in [Waiters -> Payloads \cup {Empty}]
    /\ notified \in [Events -> Payloads \cup {Empty, "none"}]
    /\ broken \in SUBSET Events

WaiterInit ==
    /\ slot = NoEvent /\ runStatus = "FREE" /\ holder = NoCo
    /\ est = [e \in Events |-> "free"]
    /\ emask = [e \in Events |-> "NONE"]
    /\ epay = [e \in Events |-> Empty]
    /\ timer = {}
    /\ pc = [c \in Waiters |-> "run"]
    /\ call = [c \in Waiters |-> <<"legacy", FALSE>>]
    /\ cev = [c \in Waiters |-> NoEvent]
    /\ clock = [c \in Waiters |-> "ahead"]
    /\ rest = [c \in Waiters |-> "positive"]
    /\ cancelRequested = [c \in Waiters |-> FALSE]
    /\ cancelling = [c \in Waiters |-> FALSE]
    /\ yret = [c \in Waiters |-> "zero"]
    /\ result = [c \in Waiters |-> "None"]
    /\ value = [c \in Waiters |-> Empty]
    /\ notified = [e \in Events |-> "none"]
    /\ broken = {}

-----------------------------------------------------------------------------
Timed(c) == call[c][2]
Interface(c) == call[c][1]

\* CoPollEvent::Trigger at this level: the first one decides.
Trigger(e, m) ==
    IF est[e] \in {"inited", "live"}
    THEN /\ est' = [est EXCEPT ![e] = "decided"]
         /\ emask' = [emask EXCEPT ![e] = m]
    ELSE UNCHANGED <<est, emask>>

\* The call is over, with result r and an empty payload.
Return(c, r) ==
    /\ result' = [result EXCEPT ![c] = r]
    /\ value' = [value EXCEPT ![c] = Empty]
    /\ pc' = [pc EXCEPT ![c] = "run"]

\* A residue whose wait is decided for good does not occupy the slot for the
\* narrow and the combined interface; the older ones refuse any occupant.
Occupied(i) ==
    slot # NoEvent /\ (i = "legacy" \/ est[slot] # "final")

\* remain_ms at the entry.  WaitWithTimeout passes its ms on as it is, 0 and
\* negative ones too; the others compute theirs later.
FirstRest(k) == IF k = <<"legacy", TRUE>> THEN {"positive", "zero", "negative"} ELSE {"positive"}

\* Entry of a Wait: lock, check cancel (not in the older interface), then the
\* deadline, then the slot.
Enter(c, k) ==
    /\ pc[c] = "run"
    /\ holder = NoCo
    /\ \E e \in Events : est[e] = "free"
    /\ call' = [call EXCEPT ![c] = k]
    /\ clock' = [clock EXCEPT ![c] = "ahead"]
    /\ \E r \in FirstRest(k) : rest' = [rest EXCEPT ![c] = r]
    /\ cev' = [cev EXCEPT ![c] = NoEvent]
    /\ \/ /\ k[1] # "legacy"
          /\ cancelRequested[c]
          /\ Return(c, "Cancelled")
          /\ UNCHANGED slotVars
       \/ /\ k[1] # "legacy"
          /\ ~cancelRequested[c]
          /\ k[2]
          /\ Return(c, "TimedOut")
          /\ UNCHANGED slotVars
       \/ /\ k[1] # "legacy" => ~cancelRequested[c]
          /\ Occupied(k[1])
          /\ Return(c, "AlreadyWaiting")
          /\ UNCHANGED slotVars
       \/ /\ k[1] # "legacy" => ~cancelRequested[c]
          /\ ~Occupied(k[1])
          /\ slot' = NoEvent
          /\ runStatus' = IF slot = NoEvent THEN runStatus ELSE "FREE"
          /\ holder' = c
          /\ pc' = [pc EXCEPT ![c] = IF k[1] # "legacy" /\ k[2]
                                     THEN "clock" ELSE "regist"]
          /\ result' = [result EXCEPT ![c] = "None"]
          /\ value' = [value EXCEPT ![c] = Empty]
    /\ UNCHANGED <<eventVars, cancelVars, yret, histVars>>

\* Time passes while a timed call is under way.
Tick(c) ==
    /\ pc[c] # "run" /\ Timed(c)
    /\ \/ clock[c] = "ahead" /\ clock' = [clock EXCEPT ![c] = "just"]
       \/ clock[c] = "just" /\ clock' = [clock EXCEPT ![c] = "past"]
    /\ UNCHANGED <<slotVars, eventVars, pc, call, cev, rest, cancelVars, outVars,
                   histVars>>

\* remain_ms is computed from a second reading of the clock, rounded up to
\* milliseconds.  Only the combined wait looks at its sign.
NeverOver(c) == FALSE  \* mutant
RestIsOver(c) == Interface(c) = "combined" /\ clock[c] # "ahead"

SecondClock(c) ==
    /\ pc[c] = "clock"
    /\ rest' = [rest EXCEPT ![c] = CASE clock[c] = "ahead" -> "positive"
                                     [] clock[c] = "just" -> "zero"
                                     [] clock[c] = "past" -> "negative"]
    /\ IF RestIsOver(c)
       THEN /\ Return(c, "TimedOut")
            /\ holder' = NoCo
       ELSE /\ pc' = [pc EXCEPT ![c] = "regist"]
            /\ UNCHANGED <<holder, result, value>>
    /\ UNCHANGED <<slot, runStatus, eventVars, call, cev, clock, cancelVars, yret,
                   histVars>>

\* RegistCustom, first half: the event is created and published as
\* m_await_event, where RequestCancel finds it.  Event::StartListen arms a
\* timer only for a positive rest.
RegistCustom(c, e) ==
    /\ pc[c] = "regist"
    /\ est[e] = "free"
    /\ est' = [est EXCEPT ![e] = "inited"]
    /\ cev' = [cev EXCEPT ![c] = e]
    /\ timer' = IF Timed(c) /\ rest[c] = "positive" THEN timer \cup {e} ELSE timer
    /\ pc' = [pc EXCEPT ![c] = "init"]
    /\ UNCHANGED <<slotVars, emask, epay, call, clock, rest, cancelVars, outVars,
                   histVars>>

\* InitCustomEvent, InitFdEvent and the binding of the slot.  An event that
\* is no longer INITED, a negative rest or a failed creation is an error (the
\* combined wait also sets m_run_status back when it is InitFdEvent that fails).
InitAndBind(c) ==
    LET e == cev[c]
        pollable == Timed(c) \/ Interface(c) = "combined"
        negative == rest[c] = "negative"
    IN  /\ pc[c] = "init"
        /\ holder' = NoCo
        /\ \/ /\ est[e] # "inited" \/ negative \/ pollable
              /\ est' = [est EXCEPT ![e] = "final"]
              /\ broken' = IF est[e] = "inited" THEN broken \cup {e} ELSE broken
              /\ Return(c, "RuntimeUnavailable")
              /\ runStatus' \in {runStatus} \cup (IF Interface(c) = "combined" THEN {"FREE"} ELSE {})
              /\ UNCHANGED slot
           \/ /\ est[e] = "inited" /\ ~negative
              /\ est' = [est EXCEPT ![e] = "live"]
              /\ slot' = e
              /\ runStatus' = "WAIT"
              /\ pc' = [pc EXCEPT ![c] = "yield"]
              /\ UNCHANGED <<broken, result, value>>
        /\ UNCHANGED <<emask, epay, timer, call, cev, clock, rest, cancelVars,
                       yret, notified>>

\* _RegistAwaitEvent on the worker, once the context is switched out: look at
\* the cancel flag once more, register; StartListen of a timer or an fd may
\* fail, unless the event is decided already.
NoRecheck(c) == FALSE  \* mutant
CancelRecheck(c) == cancelRequested[c]

RegistAwaitEvent(c) ==
    LET e == cev[c]
    IN  /\ pc[c] = "yield"
        /\ \/ /\ IF CancelRecheck(c) THEN Trigger(e, "CANCELLED")
                                     ELSE UNCHANGED <<est, emask>>
              /\ pc' = [pc EXCEPT ![c] = "parked"]
              /\ yret' = [yret EXCEPT ![c] = "zero"]
              /\ UNCHANGED broken
           \/ /\ est[e] = "live" /\ ~CancelRecheck(c)
              /\ Interface(c) = "combined" \/ Timed(c)
              /\ est' = [est EXCEPT ![e] = "final"]
              /\ pc' = [pc EXCEPT ![c] = "back"]
              /\ yret' = [yret EXCEPT ![c] = "error"]
              /\ broken' = broken \cup {e}
              /\ UNCHANGED emask
        /\ UNCHANGED <<slotVars, epay, timer, call, cev, clock, rest, cancelVars,
                       result, value, notified>>

\* _Complete: the decided event of a parked coroutine becomes FINAL.
Complete(e) ==
    /\ est[e] = "decided"
    /\ \E c \in Waiters : cev[c] = e /\ pc[c] = "parked"
    /\ est' = [est EXCEPT ![e] = "final"]
    /\ UNCHANGED <<slotVars, emask, epay, timer, coVars, cancelVars, outVars,
                   histVars>>

\* A worker resumes the coroutine; some time after the event became final.
Resume(c) ==
    /\ pc[c] = "parked"
    /\ est[cev[c]] = "final"
    /\ pc' = [pc EXCEPT ![c] = "back"]
    /\ UNCHANGED <<slotVars, eventVars, call, cev, clock, rest, cancelVars,
                   outVars, histVars>>

\* Storing the yield callback may throw: the coroutine never left its stack;
\* await is cleared, then, under the lock, the slot.
YieldThrows(c) ==
    /\ pc[c] = "yield"
    /\ pc' = [pc EXCEPT ![c] = "unwind"]
    /\ UNCHANGED <<slotVars, eventVars, call, cev, clock, rest, cancelVars,
                   outVars, histVars>>

\* After the resumption: unbind this wait's own event only, hand out the
\* payload, map the mask.  The older interface reports cancel as a timeout.
UnbindAny(c) == slot # NoEvent  \* mutant
NeverUnbind(c) == FALSE  \* mutant
OwnSlot(c) == slot = cev[c]

RawMask(c) == emask[cev[c]]  \* mutant
Status(c) ==
    LET m == emask[cev[c]]
    IN  CASE yret[c] = "error" -> "RuntimeUnavailable"
          [] yret[c] = "zero" /\ m = "CUSTOM" -> "Completed"
          [] yret[c] = "zero" /\ m = "TIMEOUT" -> "TimedOut"
          [] yret[c] = "zero" /\ m = "READY" -> "FdReady"
          [] yret[c] = "zero" /\ m = "CANCELLED" ->
               IF Interface(c) = "legacy" /\ Timed(c) THEN "TimedOut"
               ELSE IF Interface(c) = "legacy" THEN "Completed" ELSE "Cancelled"
          [] yret[c] = "zero" /\ m = "CLOSED" -> "Cancelled"

Unbind(c) ==
    /\ pc[c] = "back"
    /\ holder = NoCo
    /\ slot' = IF OwnSlot(c) THEN NoEvent ELSE slot
    /\ runStatus' = IF OwnSlot(c) THEN "FREE" ELSE runStatus
    /\ result' = [result EXCEPT ![c] = Status(c)]
    /\ value' = [value EXCEPT ![c] =
                    IF yret[c] = "zero" /\ emask[cev[c]] = "CUSTOM"
                    THEN epay[cev[c]] ELSE Empty]
    /\ pc' = [pc EXCEPT ![c] = "run"]
    /\ UNCHANGED <<holder, eventVars, call, cev, clock, rest, cancelVars, yret,
                   histVars>>

Unwind(c) ==
    /\ pc[c] = "unwind"
    /\ holder = NoCo
    /\ slot' = IF OwnSlot(c) THEN NoEvent ELSE slot
    /\ runStatus' = IF OwnSlot(c) THEN "FREE" ELSE runStatus
    /\ est' = [est EXCEPT ![cev[c]] = "final"]
    /\ Return(c, "Exception")
    /\ UNCHANGED <<holder, emask, epay, timer, call, cev, clock, rest, cancelVars,
                   yret, histVars>>

-----------------------------------------------------------------------------
\* Notify() and Notify(value): an attempt, made under the lock; the payload
\* goes to the event, not to the waiter.
AlsoActive == {"WAIT", "ACTIVE"}  \* mutant
NotifiableStatus == {"WAIT"}

Notify(p) ==
    /\ holder = NoCo
    /\ slot # NoEvent
    /\ runStatus \in NotifiableStatus
    /\ runStatus' = "ACTIVE"
    /\ epay' = [epay EXCEPT ![slot] = p]
    /\ Trigger(slot, "CUSTOM")
    /\ notified' = [notified EXCEPT ![slot] =
                      IF est[slot] \in {"inited", "live"} THEN p ELSE @]
    /\ UNCHANGED <<slot, holder, timer, coVars, cancelVars, outVars, broken>>

\* CoWaiter::Cancel, without the lock: Notify skips this waiter from now on.
Cancel ==
    /\ runStatus # "FREE"
    /\ runStatus' = "FREE"
    /\ UNCHANGED <<slot, holder, eventVars, coVars, cancelVars, outVars, histVars>>

\* The timer of a timed wait.
TimerFires(c) ==
    /\ pc[c] = "parked"
    /\ cev[c] \in timer
    /\ clock[c] # "ahead"
    /\ Trigger(cev[c], "TIMEOUT")
    /\ UNCHANGED <<slotVars, epay, timer, coVars, cancelVars, outVars, histVars>>

\* The descriptor of a combined wait is ready, or Hook_Close closes it.
FdEvent(c) ==
    /\ pc[c] = "parked"
    /\ Interface(c) = "combined"
    /\ \E m \in {"READY", "CLOSED"} : Trigger(cev[c], m)
    /\ UNCHANGED <<slotVars, epay, timer, coVars, cancelVars, outVars, histVars>>

\* Coroutine::RequestCancel: the flag first, then Trigger on m_await_event.
RequestCancel(c) ==
    /\ ~cancelRequested[c]
    /\ cancelRequested' = [cancelRequested EXCEPT ![c] = TRUE]
    /\ cancelling' = [cancelling EXCEPT ![c] = TRUE]
    /\ UNCHANGED <<slotVars, eventVars, coVars, outVars, histVars>>

RequestCancelTrigger(c) ==
    /\ cancelling[c]
    /\ cancelling' = [cancelling EXCEPT ![c] = FALSE]
    /\ IF pc[c] \in {"init", "yield", "parked"}
       THEN Trigger(cev[c], "CANCELLED")
       ELSE UNCHANGED <<est, emask>>
    /\ UNCHANGED <<slotVars, epay, timer, coVars, cancelRequested, outVars, histVars>>

-----------------------------------------------------------------------------
Establish(c) ==
    \/ SecondClock(c)
    \/ \E e \in Events : RegistCustom(c, e)
    \/ InitAndBind(c)
    \/ RegistAwaitEvent(c)

WaiterNext ==
    \/ \E c \in Waiters :
        \/ \E k \in Calls : Enter(c, k)
        \/ Establish(c) \/ Resume(c) \/ Unbind(c)
        \/ YieldThrows(c) \/ Unwind(c)
        \/ Tick(c) \/ TimerFires(c) \/ FdEvent(c)
        \/ RequestCancel(c) \/ RequestCancelTrigger(c)
    \/ \E e \in Events : Complete(e)
    \/ \E p \in Payloads \cup {Empty} : Notify(p)
    \/ Cancel

WaiterSpec == WaiterInit /\ [][WaiterNext]_waiterVars

\* Workers and the event loop run, time passes, the mutex is handed out fairly;
\* nobody is obliged to notify.
FairWaiters ==
    /\ WaiterSpec
    /\ \A c \in Waiters :
        /\ WF_waiterVars(Establish(c))
        /\ WF_waiterVars(Resume(c))
        /\ SF_waiterVars(Unbind(c) \/ Unwind(c))
        /\ WF_waiterVars(Tick(c))
        /\ WF_waiterVars(TimerFires(c))
        /\ WF_waiterVars(RequestCancelTrigger(c))
    /\ \A e \in Events : WF_waiterVars(Complete(e))

-----------------------------------------------------------------------------
(* Properties.                                                              *)

\* No orphaned waiter: as long as its wait is undecided, a suspended coroutine
\* is the one the slot leads Notify to, although residues of earlier waits are
\* evicted before their owners have resumed and unbind late.
WaiterReachable ==
    \A c \in Waiters :
        pc[c] \in {"yield", "parked"} /\ est[cev[c]] = "live"
            => slot = cev[c] /\ runStatus # "ACTIVE"

\* A Notify that was accepted is what its wait reports, with its payload; a
\* wait that ended otherwise delivers no payload, not even that of a Notify
\* that lost.  (Wait() of the older interface reports a cancel as 0 as well.)
NotifyCredit ==
    \A c \in Waiters :
        pc[c] = "run" /\ cev[c] # NoEvent /\ result[c] # "Exception" =>
            IF notified[cev[c]] # "none"
            THEN result[c] = "Completed" /\ value[c] = notified[cev[c]]
            ELSE /\ value[c] = Empty
                 /\ result[c] = "Completed" => Interface(c) = "legacy" /\ cancelRequested[c]

\* The slot is not held for ever by a wait that has ended: once every call has
\* returned the slot is empty.
SlotReleased ==
    (\A c \in Waiters : pc[c] = "run") => slot = NoEvent

\* A wait with a deadline returns, whether or not anybody notifies.
DeadlineReturns ==
    \A c \in Waiters : []<>(Timed(c) => pc[c] = "run")

\* It does, unless there is no timer: the older and the narrow interface hand 0 ms
\* on to Event::StartListen, which arms none, and the wait is without a deadline.
Untimed(c) == rest[c] = "zero" /\ Interface(c) # "combined"
TimerReturns ==
    \A c \in Waiters : []<>(Timed(c) /\ ~Untimed(c) => pc[c] = "run")

\* RequestCancel ends every wait of every interface.
CancelReturns ==
    \A c \in Waiters : []<>(cancelRequested[c] => pc[c] = "run")

\* A waiter bound to a CoWaiter can be reached, a Notify that said yes wakes its
\* waiter, and the slot is given back (CoWaiter::Wait, Notify).
WaiterSafe == WaiterTypeOK /\ WaiterReachable /\ NotifyCredit /\ SlotReleased

\* A wait of CoWaiter returns after a cancel, and after its deadline whenever it
\* has a timer; the combined one has, or returns at once (CoWaiter::Wait,
\* WaitWithTimeout, Coroutine::RequestCancel).
WaiterReturns == TimerReturns /\ CancelReturns
=============================================================================
