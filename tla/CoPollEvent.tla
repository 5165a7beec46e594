----------------------------- MODULE CoPollEvent -----------------------------
(***************************************************************************)
(* One wait of a coroutine: detail/CoPollEvent.{hpp,cc}, the await part of *)
(* detail/Coroutine.cc and the close protocol Hook_Close drives.           *)
(*                                                                         *)
(* A CoPollEvent is a lock-free phase word.  The coroutine that waits      *)
(* creates and arms it, the worker that ran the coroutine commits the park *)
(* once the context has been switched out, and any number of threads (the  *)
(* event loop, Notify, RequestCancel, Hook_Close) race to Trigger it.  One *)
(* compare-exchange, or one critical section of the fd table, is one       *)
(* action.                                                                 *)
(***************************************************************************)
EXTENDS Naturals, FiniteSets

CONSTANTS Coroutines,  \* coroutines that wait
          Events,      \* pool of CoPollEvent objects, never reused
          Fds,         \* descriptor numbers
          Closers,     \* threads that call Hook_Close
          NoEvent, NoFd, NoCo,
          Waits,       \* the waits issued: <<descriptor, what may end it>>
          MaxEpoch     \* bound on the generations of one descriptor

\* What can end a wait of its own accord: an fd, a timer, a Notify.
Sources == {"READY", "TIMEOUT", "CUSTOM"}

ASSUME CoPollEventAssumption ==
    /\ NoEvent \notin Events
    /\ NoFd \notin Fds
    /\ NoCo \notin Coroutines
    /\ MaxEpoch \in Nat
    /\ Waits \subseteq (Fds \cup {NoFd}) \X (SUBSET Sources \ {{}})
    /\ \A w \in Waits : "READY" \in w[2] <=> w[1] # NoFd

\* Trigger masks.  READY stands for READABLE/WRITEABLE; NONE is the mask 0.
Flags == {"READY", "TIMEOUT", "CUSTOM", "CANCELLED", "CLOSED"}
NoFlag == "NONE"

Phases == {"FREE", "INITED", "ARMING", "ARMED", "PARKED",
           "PENDING", "TRIGGERING", "FINAL", "CANCELLED"}

VARIABLES
    phase, mask,          \* m_state: phase and flags in one word
    owner, sources, efd,  \* m_co_id, what the event listens to, m_fd
    waitEpoch,            \* m_wait_epoch, sampled by InitFdEvent
    under,                \* m_event, the pollevent::Event below
    epoch, closing, waiters, \* FdSlot of each descriptor
    pc,                   \* where the coroutine or its worker is
    await,                \* Coroutine::m_await_event
    cancelReq,            \* Coroutine::m_cancel_requested
    lastMask, lastFd, lastEpoch, \* m_last_resume_event, m_last_wait_{fd,epoch}
    ret,                  \* what the last YieldUntil* returned
    queued,               \* entries of the coroutine in the run queues
    tasks,                \* threads inside _Complete
    cpc, cref,            \* RequestCancel in flight, per coroutine
    kpc, kfd, ksnap,      \* Hook_Close in flight, per closer
    obj,                  \* external: kernel object behind a descriptor
    won, cur, estObj, claimObj \* history: first accepted mask, last event of a
                               \* coroutine, objects at establish and claim

eventVars == <<owner, sources, efd>>
slotVars == <<epoch, closing, waiters>>
lastVars == <<lastMask, lastFd, lastEpoch>>
cancelVars == <<cpc, cref>>
closeVars == <<kpc, kfd, ksnap, obj, claimObj>>
histVars == <<cur, estObj>>
wordVars == <<phase, mask, won, tasks>>
vars == <<phase, mask, owner, sources, efd, waitEpoch, under, epoch, closing,
          waiters, pc, await, cancelReq, lastMask, lastFd, lastEpoch, ret,
          queued, tasks, cpc, cref, kpc, kfd, ksnap, obj, won, cur, estObj,
          claimObj>>

PC == {"run", "init", "create", "yield", "arm", "listen", "armed", "track",
       "commit", "parked", "done"}
TaskSteps == {"cancelfd", "final", "callback"}
Task == [ev: Events, mask: Flags, step: TaskSteps]

WordTypes ==
    /\ phase \in [Events -> Phases]
    /\ mask \in [Events -> Flags \cup {NoFlag}]
    /\ won \in [Events -> Flags \cup {NoFlag}]
    /\ tasks \in SUBSET Task

EventTypes ==
    /\ owner \in [Events -> Coroutines \cup {NoCo}]
    /\ sources \in [Events -> SUBSET Sources]
    /\ efd \in [Events -> Fds \cup {NoFd}]
    /\ waitEpoch \in [Events -> Nat]
    /\ under \in [Events -> {"none", "created", "listening", "deferred"}]

SlotTypes ==
    /\ epoch \in [Fds -> Nat]
    /\ closing \in [Fds -> BOOLEAN]
    /\ waiters \in [Fds -> SUBSET Events]

CoTypes ==
    /\ pc \in [Coroutines -> PC]
    /\ await \in [Coroutines -> Events \cup {NoEvent}]
    /\ cancelReq \in [Coroutines -> BOOLEAN]
    /\ ret \in [Coroutines -> {"zero", "error", "cancelled"}]
    /\ queued \in [Coroutines -> Nat]
    /\ cur \in [Coroutines -> Events \cup {NoEvent}]

LastTypes ==
    /\ lastMask \in [Coroutines -> Flags \cup {NoFlag}]
    /\ lastFd \in [Coroutines -> Fds \cup {NoFd}]
    /\ lastEpoch \in [Coroutines -> Nat]
    /\ estObj \in [Coroutines -> Nat]

CallerTypes ==
    /\ cpc \in [Coroutines -> {"idle", "read", "trigger"}]
    /\ cref \in [Coroutines -> Events \cup {NoEvent}]
    /\ kpc \in [Closers -> {"idle", "wait", "wake", "close", "end"}]
    /\ kfd \in [Closers -> Fds \cup {NoFd}]
    /\ ksnap \in [Closers -> SUBSET Events]
    /\ obj \in [Fds -> Nat]
    /\ claimObj \in [Closers -> Nat]

\* The type invariant; through tasks it also says that a completion always
\* carries a real trigger mask.
TypeOK ==
    WordTypes /\ EventTypes /\ SlotTypes /\ CoTypes /\ LastTypes /\ CallerTypes

Init ==
    /\ phase = [e \in Events |-> "FREE"]
    /\ mask = [e \in Events |-> NoFlag]
    /\ owner = [e \in Events |-> NoCo]
    /\ sources = [e \in Events |-> {}]
    /\ efd = [e \in Events |-> NoFd]
    /\ waitEpoch = [e \in Events |-> 0]
    /\ under = [e \in Events |-> "none"]
    /\ epoch = [f \in Fds |-> 0]
    /\ closing = [f \in Fds |-> FALSE]
    /\ waiters = [f \in Fds |-> {}]
    /\ pc = [c \in Coroutines |-> "run"]
    /\ await = [c \in Coroutines |-> NoEvent]
    /\ cancelReq = [c \in Coroutines |-> FALSE]
    /\ lastMask = [c \in Coroutines |-> NoFlag]
    /\ lastFd = [c \in Coroutines |-> NoFd]
    /\ lastEpoch = [c \in Coroutines |-> 0]
    /\ ret = [c \in Coroutines |-> "zero"]
    /\ queued = [c \in Coroutines |-> 0]
    /\ tasks = {}
    /\ cpc = [c \in Coroutines |-> "idle"]
    /\ cref = [c \in Coroutines |-> NoEvent]
    /\ kpc = [k \in Closers |-> "idle"]
    /\ kfd = [k \in Closers |-> NoFd]
    /\ ksnap = [k \in Closers |-> {}]
    /\ obj = [f \in Fds |-> 0]
    /\ won = [e \in Events |-> NoFlag]
    /\ cur = [c \in Coroutines |-> NoEvent]
    /\ estObj = [c \in Coroutines |-> 0]
    /\ claimObj = [k \in Closers |-> 0]

-----------------------------------------------------------------------------
(* The phase word.                                                          *)

\* Before the park Trigger only latches its mask; a parked event is completed
\* by the thread that wins it; every other phase is lost.
LatchesAlsoPending == {"INITED", "ARMING", "ARMED", "PENDING"}  \* mutant
LatchPhases == {"INITED", "ARMING", "ARMED"}
CompletesAlsoArmed == {"ARMED", "PARKED"}  \* mutant
CompletePhases == {"PARKED"}

\* CoPollEvent::Trigger.
Trigger(e, f) ==
    \/ /\ phase[e] \in LatchPhases
       /\ phase' = [phase EXCEPT ![e] = "PENDING"]
       /\ mask' = [mask EXCEPT ![e] = f]
       /\ won' = [won EXCEPT ![e] = IF @ = NoFlag THEN f ELSE @]
       /\ UNCHANGED tasks
    \/ /\ phase[e] \in CompletePhases
       /\ phase' = [phase EXCEPT ![e] = "TRIGGERING"]
       /\ mask' = [mask EXCEPT ![e] = f]
       /\ won' = [won EXCEPT ![e] = IF @ = NoFlag THEN f ELSE @]
       /\ tasks' = tasks \cup {[ev |-> e, mask |-> f, step |-> "cancelfd"]}
    \/ /\ phase[e] \notin LatchPhases \cup CompletePhases
       /\ UNCHANGED wordVars

\* A slot that never saw a close is dropped when its last waiter leaves; an
\* absent slot reads as epoch 0, no waiters, not closing.
SlotForgetsClose(f, ws) ==  \* mutant
    IF ws = {} /\ ~closing[f] THEN 0 ELSE epoch[f]
SlotEpochAfterErase(f, ws) ==
    IF ws = {} /\ ~closing[f] /\ epoch[f] = 0 THEN 0 ELSE epoch[f]

\* _CannelAllFdEvent: leave the fd table, hand the pollevent::Event over to
\* the poller for deferred destruction.
StillTracked(e) == waiters  \* mutant
UntrackedWaiters(e) ==
    IF efd[e] = NoFd THEN waiters
    ELSE [waiters EXCEPT ![efd[e]] = @ \ {e}]

CannelAllFdEvent(e) ==
    /\ waiters' = UntrackedWaiters(e)
    /\ epoch' = IF efd[e] = NoFd THEN epoch
                ELSE [epoch EXCEPT ![efd[e]] =
                        SlotEpochAfterErase(efd[e], waiters[efd[e]] \ {e})]
    /\ under' = [under EXCEPT ![e] = IF @ = "none" THEN "none" ELSE "deferred"]

-----------------------------------------------------------------------------
(* The waiting coroutine: YieldUntil*, RegistCustom, _RegistAwaitEvent.     *)

\* The wait could not be established: await is cleared, the event object
\* dies (its destructor hands m_event over), the coroutine goes on running.
Abandon(c) ==
    /\ await' = [await EXCEPT ![c] = NoEvent]
    /\ pc' = [pc EXCEPT ![c] = "run"]
    /\ ret' = [ret EXCEPT ![c] = "error"]

\* YieldUntil* with a cancel already requested returns 1 at once.
PreCancelled(c) ==
    /\ pc[c] = "run"
    /\ cancelReq[c]
    /\ ret' = [ret EXCEPT ![c] = "cancelled"]
    /\ UNCHANGED <<wordVars, eventVars, waitEpoch, under, slotVars, pc, await,
                   cancelReq, lastVars, queued, cancelVars, closeVars, histVars>>

\* Create an event and publish it as m_await_event.  RegistCustom does not
\* look at the cancel flag, the YieldUntil* family does.
StartWait(c, e, w) ==
    /\ pc[c] = "run"
    /\ phase[e] = "FREE"
    /\ cancelReq[c] => "CUSTOM" \in w[2]
    /\ phase' = [phase EXCEPT ![e] = "INITED"]
    /\ owner' = [owner EXCEPT ![e] = c]
    /\ sources' = [sources EXCEPT ![e] = w[2]]
    /\ efd' = [efd EXCEPT ![e] = w[1]]
    /\ await' = [await EXCEPT ![c] = e]
    /\ cur' = [cur EXCEPT ![c] = e]
    /\ pc' = [pc EXCEPT ![c] = "init"]
    /\ UNCHANGED <<mask, won, tasks, waitEpoch, under, slotVars, cancelReq,
                   lastVars, ret, queued, cancelVars, closeVars, estObj>>

\* InitFdEvent / InitCustomEvent: refuse an event already triggered, sample
\* the generation; a wait established on a closing fd is latched CLOSED.
InitFdEvent(c) ==
    LET e == await[c]
        f == efd[e]
    IN  /\ pc[c] = "init"
        /\ \/ /\ phase[e] # "INITED"
              /\ Abandon(c)
              /\ UNCHANGED <<wordVars, waitEpoch, estObj>>
           \/ /\ phase[e] = "INITED"
              /\ sources[e] = {"CUSTOM"}
              /\ pc' = [pc EXCEPT ![c] = "yield"]
              /\ UNCHANGED <<wordVars, waitEpoch, estObj, await, ret>>
           \/ /\ phase[e] = "INITED"
              /\ sources[e] # {"CUSTOM"}
              /\ f = NoFd
              /\ pc' = [pc EXCEPT ![c] = "create"]
              /\ UNCHANGED <<wordVars, waitEpoch, estObj, await, ret>>
           \/ /\ phase[e] = "INITED"
              /\ f # NoFd
              /\ waitEpoch' = [waitEpoch EXCEPT ![e] = epoch[f]]
              /\ estObj' = [estObj EXCEPT ![c] = obj[f]]
              /\ IF closing[f]
                 THEN /\ Trigger(e, "CLOSED")
                      /\ pc' = [pc EXCEPT ![c] = "yield"]
                 ELSE /\ pc' = [pc EXCEPT ![c] = "create"]
                      /\ UNCHANGED wordVars
              /\ UNCHANGED <<await, ret>>
        /\ UNCHANGED <<eventVars, under, slotVars, cancelReq, lastVars, queued,
                       cancelVars, closeVars, cur>>

\* The tail of InitFdEvent: the poller creates the pollevent::Event, or gives
\* up after its retries.
CreateEvent(c) ==
    LET e == await[c]
    IN  /\ pc[c] = "create"
        /\ \/ /\ under' = [under EXCEPT ![e] = "created"]
              /\ pc' = [pc EXCEPT ![c] = "yield"]
              /\ UNCHANGED <<await, ret>>
           \/ /\ Abandon(c)
              /\ UNCHANGED under
        /\ UNCHANGED <<wordVars, eventVars, waitEpoch, slotVars, cancelReq,
                       lastVars, queued, cancelVars, closeVars, histVars>>

\* An allocation failure inside InitFdEvent escapes to the coroutine's entry:
\* OnException withdraws the await event and ends the coroutine.
OnException(c) ==
    LET e == await[c]
    IN  /\ pc[c] = "init"
        /\ phase' = [phase EXCEPT ![e] = IF @ = "INITED" THEN "CANCELLED" ELSE @]
        /\ await' = [await EXCEPT ![c] = NoEvent]
        /\ pc' = [pc EXCEPT ![c] = "done"]
        /\ UNCHANGED <<mask, won, tasks, eventVars, waitEpoch, under, slotVars,
                       cancelReq, lastVars, ret, queued, cancelVars, closeVars,
                       histVars>>

\* The context has been switched out; the worker runs _RegistAwaitEvent,
\* which first looks at the cancel flag once more.
NoRecheck(c) == FALSE  \* mutant
CancelRecheck(c) == cancelReq[c]

RegistAwaitEvent(c) ==
    /\ pc[c] = "yield"
    /\ IF CancelRecheck(c) THEN Trigger(await[c], "CANCELLED") ELSE UNCHANGED wordVars
    /\ pc' = [pc EXCEPT ![c] = "arm"]
    /\ UNCHANGED <<eventVars, waitEpoch, under, slotVars, await, cancelReq,
                   lastVars, ret, queued, cancelVars, closeVars, histVars>>

\* Regist, first compare-exchange: INITED -> ARMING, or already PENDING.
RegistArming(c) ==
    LET e == await[c]
    IN  /\ pc[c] = "arm"
        /\ \/ /\ phase[e] = "PENDING"
              /\ pc' = [pc EXCEPT ![c] = "commit"]
              /\ UNCHANGED phase
           \/ /\ phase[e] = "INITED"
              /\ phase' = [phase EXCEPT ![e] = "ARMING"]
              /\ pc' = [pc EXCEPT ![c] = "listen"]
        /\ UNCHANGED <<mask, won, tasks, eventVars, waitEpoch, under, slotVars,
                       await, cancelReq, lastVars, ret, queued, cancelVars,
                       closeVars, histVars>>

\* Regist: StartListen succeeds, or fails and ARMING collapses to CANCELLED
\* unless a trigger got in first.
RegistListen(c) ==
    LET e == await[c]
    IN  /\ pc[c] = "listen"
        /\ \/ /\ under' = [under EXCEPT ![e] =
                             IF @ = "created" THEN "listening" ELSE @]
              /\ pc' = [pc EXCEPT ![c] = "armed"]
              /\ UNCHANGED <<phase, await, ret, slotVars>>
           \/ /\ under[e] = "created"
              /\ phase[e] = "ARMING"
              /\ phase' = [phase EXCEPT ![e] = "CANCELLED"]
              /\ CannelAllFdEvent(e)
              /\ Abandon(c)
              /\ UNCHANGED closing
           \/ /\ under[e] = "created"
              /\ phase[e] = "PENDING"
              /\ CannelAllFdEvent(e)
              /\ pc' = [pc EXCEPT ![c] = "commit"]
              /\ UNCHANGED <<phase, await, ret, closing>>
        /\ UNCHANGED <<mask, won, tasks, eventVars, waitEpoch, cancelReq,
                       lastVars, queued, cancelVars, closeVars, histVars>>

\* Regist, second compare-exchange: ARMING -> ARMED, or PENDING won.
RegistArmed(c) ==
    LET e == await[c]
    IN  /\ pc[c] = "armed"
        /\ \/ /\ phase[e] = "ARMING"
              /\ phase' = [phase EXCEPT ![e] = "ARMED"]
              /\ pc' = [pc EXCEPT ![c] = "track"]
              /\ UNCHANGED <<under, slotVars>>
           \/ /\ phase[e] = "PENDING"
              /\ CannelAllFdEvent(e)
              /\ pc' = [pc EXCEPT ![c] = "commit"]
              /\ UNCHANGED <<phase, closing>>
        /\ UNCHANGED <<mask, won, tasks, eventVars, waitEpoch, await, cancelReq,
                       lastVars, ret, queued, cancelVars, closeVars, histVars>>

\* _TrackWaiter: enter the fd table, unless the descriptor is closing or was
\* closed since InitFdEvent; then the wait triggers itself with CLOSED.
ClosingNow(e) == closing[efd[e]]  \* mutant
ClosedSinceInit(e) == closing[efd[e]] \/ epoch[efd[e]] # waitEpoch[e]

TrackWaiter(c) ==
    LET e == await[c]
        f == efd[e]
    IN  /\ pc[c] = "track"
        /\ pc' = [pc EXCEPT ![c] = "commit"]
        /\ \/ /\ f = NoFd
              /\ UNCHANGED <<waiters, wordVars>>
           \/ /\ f # NoFd
              /\ ClosedSinceInit(e)
              /\ Trigger(e, "CLOSED")
              /\ UNCHANGED waiters
           \/ /\ f # NoFd
              /\ ~ClosedSinceInit(e)
              /\ waiters' = [waiters EXCEPT ![f] = @ \cup {e}]
              /\ UNCHANGED wordVars
        /\ UNCHANGED <<eventVars, waitEpoch, under, epoch, closing, await,
                       cancelReq, lastVars, ret, queued, cancelVars, closeVars,
                       histVars>>

\* CommitPark, the worker's last access to the coroutine: publish PARKED, or
\* consume the pending mask and complete in place.
NoFlags(e) == NoFlag  \* mutant
PendingFlags(e) == mask[e]

CommitPark(c) ==
    LET e == await[c]
    IN  /\ pc[c] = "commit"
        /\ pc' = [pc EXCEPT ![c] = "parked"]
        /\ \/ /\ phase[e] = "ARMED"
              /\ phase' = [phase EXCEPT ![e] = "PARKED"]
              /\ UNCHANGED tasks
           \/ /\ phase[e] = "PENDING"
              /\ phase' = [phase EXCEPT ![e] = "TRIGGERING"]
              /\ tasks' = tasks \cup
                    {[ev |-> e, mask |-> PendingFlags(e), step |-> "cancelfd"]}
        /\ UNCHANGED <<mask, won, eventVars, waitEpoch, under, slotVars, await,
                       cancelReq, lastVars, ret, queued, cancelVars, closeVars,
                       histVars>>

-----------------------------------------------------------------------------
(* _Complete, run by whichever thread moved the event to TRIGGERING.        *)

StepTo(t, s) == tasks' = (tasks \ {t}) \cup {[t EXCEPT !.step = s]}

CompleteCancelFd(t) ==
    /\ t.step = "cancelfd"
    /\ CannelAllFdEvent(t.ev)
    /\ StepTo(t, "final")
    /\ UNCHANGED <<phase, mask, won, eventVars, waitEpoch, closing, pc, await,
                   cancelReq, lastVars, ret, queued, cancelVars, closeVars,
                   histVars>>

CompleteFinal(t) ==
    /\ t.step = "final"
    /\ phase' = [phase EXCEPT ![t.ev] = "FINAL"]
    /\ mask' = [mask EXCEPT ![t.ev] = t.mask]
    /\ StepTo(t, "callback")
    /\ UNCHANGED <<won, eventVars, waitEpoch, under, slotVars, pc, await,
                   cancelReq, lastVars, ret, queued, cancelVars, closeVars,
                   histVars>>

\* Coroutine::OnCoPollEvent: record why and on which generation the wait
\* ended, clear await, put the coroutine into a run queue.
OnCoPollEvent(t) ==
    LET c == owner[t.ev]
    IN  /\ t.step = "callback"
        /\ lastMask' = [lastMask EXCEPT ![c] = t.mask]
        /\ lastFd' = [lastFd EXCEPT ![c] = efd[t.ev]]
        /\ lastEpoch' = [lastEpoch EXCEPT ![c] = waitEpoch[t.ev]]
        /\ await' = [await EXCEPT ![c] = NoEvent]
        /\ queued' = [queued EXCEPT ![c] = @ + 1]
        /\ tasks' = tasks \ {t}
        /\ UNCHANGED <<phase, mask, won, eventVars, waitEpoch, under, slotVars,
                       pc, cancelReq, ret, cancelVars, closeVars, histVars>>

\* A worker takes the coroutine from a run queue and resumes it.
Resume(c) ==
    /\ queued[c] > 0
    /\ queued' = [queued EXCEPT ![c] = @ - 1]
    /\ pc' = [pc EXCEPT ![c] = "run"]
    /\ ret' = [ret EXCEPT ![c] = "zero"]
    /\ UNCHANGED <<wordVars, eventVars, waitEpoch, under, slotVars, await,
                   cancelReq, lastVars, cancelVars, closeVars, histVars>>

-----------------------------------------------------------------------------
(* The triggering side.                                                     *)

\* The callback InitFdEvent gave the pollevent::Event: fd ready or timer.
LoopTrigger(e) ==
    /\ under[e] = "listening"
    /\ \E f \in sources[e] \ {"CUSTOM"} : Trigger(e, f)
    /\ UNCHANGED <<eventVars, waitEpoch, under, slotVars, pc, await, cancelReq,
                   lastVars, ret, queued, cancelVars, closeVars, histVars>>

\* CoPoller::NotifyCustomEvent on an event some notifier still refers to.
NotifyCustomEvent(e) ==
    /\ phase[e] # "FREE"
    /\ "CUSTOM" \in sources[e]
    /\ Trigger(e, "CUSTOM")
    /\ UNCHANGED <<eventVars, waitEpoch, under, slotVars, pc, await, cancelReq,
                   lastVars, ret, queued, cancelVars, closeVars, histVars>>

\* Coroutine::RequestCancel: set the flag, read m_await_event, Trigger it.
RequestCancelSet(c) ==
    /\ cpc[c] = "idle"
    /\ pc[c] # "done"
    /\ cancelReq' = [cancelReq EXCEPT ![c] = TRUE]
    /\ cpc' = [cpc EXCEPT ![c] = "read"]
    /\ UNCHANGED <<wordVars, eventVars, waitEpoch, under, slotVars, pc, await,
                   lastVars, ret, queued, cref, closeVars, histVars>>

RequestCancelRead(c) ==
    /\ cpc[c] = "read"
    /\ cref' = [cref EXCEPT ![c] = await[c]]
    /\ cpc' = [cpc EXCEPT ![c] = IF await[c] = NoEvent THEN "idle" ELSE "trigger"]
    /\ UNCHANGED <<wordVars, eventVars, waitEpoch, under, slotVars, pc, await,
                   cancelReq, lastVars, ret, queued, closeVars, histVars>>

RequestCancelTrigger(c) ==
    /\ cpc[c] = "trigger"
    /\ Trigger(cref[c], "CANCELLED")
    /\ cpc' = [cpc EXCEPT ![c] = "idle"]
    /\ cref' = [cref EXCEPT ![c] = NoEvent]
    /\ UNCHANGED <<eventVars, waitEpoch, under, slotVars, pc, await, cancelReq,
                   lastVars, ret, queued, closeVars, histVars>>

-----------------------------------------------------------------------------
(* Hook_Close.                                                              *)

\* BeginFdClose, under the table lock: claim the close, advance the
\* generation, take every waiter off the table.
NeverClaimed(f) == FALSE  \* mutant
CloseClaimed(f) == closing[f]

BeginFdClose(k, f) ==
    /\ kpc[k] = "idle"
    /\ epoch[f] < MaxEpoch
    /\ kfd' = [kfd EXCEPT ![k] = f]
    /\ \/ /\ CloseClaimed(f)
          /\ kpc' = [kpc EXCEPT ![k] = "wait"]
          /\ UNCHANGED <<ksnap, slotVars, claimObj>>
       \/ /\ ~CloseClaimed(f)
          /\ claimObj' = [claimObj EXCEPT ![k] = obj[f]]
          /\ kpc' = [kpc EXCEPT ![k] = "wake"]
          /\ ksnap' = [ksnap EXCEPT ![k] = waiters[f]]
          /\ epoch' = [epoch EXCEPT ![f] = @ + 1]
          /\ closing' = [closing EXCEPT ![f] = TRUE]
          /\ waiters' = [waiters EXCEPT ![f] = {}]
    /\ UNCHANGED <<wordVars, eventVars, waitEpoch, under, pc, await, cancelReq,
                   lastVars, ret, queued, cancelVars, obj, histVars>>

\* The tail of BeginFdClose, outside the lock: wake the snapshot one by one.
CloseWake(k) ==
    /\ kpc[k] = "wake"
    /\ \/ \E e \in ksnap[k] :
            /\ Trigger(e, "CLOSED")
            /\ ksnap' = [ksnap EXCEPT ![k] = @ \ {e}]
            /\ UNCHANGED kpc
       \/ /\ ksnap[k] = {}
          /\ kpc' = [kpc EXCEPT ![k] = "close"]
          /\ UNCHANGED <<wordVars, ksnap>>
    /\ UNCHANGED <<eventVars, waitEpoch, under, slotVars, pc, await, cancelReq,
                   lastVars, ret, queued, cancelVars, kfd, obj, claimObj,
                   histVars>>

\* close(2): the number is free and may at once name a new object.
SysClose(k) ==
    /\ kpc[k] = "close"
    /\ obj' = [obj EXCEPT ![kfd[k]] = @ + 1]
    /\ kpc' = [kpc EXCEPT ![k] = "end"]
    /\ claimObj' = [claimObj EXCEPT ![k] = 0]
    /\ UNCHANGED <<wordVars, eventVars, waitEpoch, under, slotVars, pc, await,
                   cancelReq, lastVars, ret, queued, cancelVars, kfd, ksnap,
                   histVars>>

EndFdClose(k) ==
    /\ kpc[k] = "end"
    /\ closing' = [closing EXCEPT ![kfd[k]] = FALSE]
    /\ epoch' = [epoch EXCEPT ![kfd[k]] =
                    IF waiters[kfd[k]] = {} /\ @ = 0 THEN 0 ELSE @]
    /\ kpc' = [kpc EXCEPT ![k] = "idle"]
    /\ kfd' = [kfd EXCEPT ![k] = NoFd]
    /\ UNCHANGED <<wordVars, eventVars, waitEpoch, under, waiters, pc, await,
                   cancelReq, lastVars, ret, queued, cancelVars, ksnap, obj,
                   claimObj, histVars>>

\* WaitFdCloseReady by a closer that did not get the claim: the claimant has
\* finished, or 3 s have passed; either way EBADF without a close(2).
WaitFdCloseReady(k) ==
    /\ kpc[k] = "wait"
    /\ kpc' = [kpc EXCEPT ![k] = "idle"]
    /\ kfd' = [kfd EXCEPT ![k] = NoFd]
    /\ UNCHANGED <<wordVars, eventVars, waitEpoch, under, slotVars, pc, await,
                   cancelReq, lastVars, ret, queued, cancelVars, ksnap, obj,
                   claimObj, histVars>>

-----------------------------------------------------------------------------
WaitStep(c) ==
    \/ InitFdEvent(c) \/ CreateEvent(c) \/ RegistAwaitEvent(c)
    \/ RegistArming(c) \/ RegistListen(c) \/ RegistArmed(c)
    \/ TrackWaiter(c) \/ CommitPark(c)

CompleteStep(t) == CompleteCancelFd(t) \/ CompleteFinal(t) \/ OnCoPollEvent(t)

CancelStep(c) == RequestCancelRead(c) \/ RequestCancelTrigger(c)

CloseStep(k) == CloseWake(k) \/ SysClose(k) \/ EndFdClose(k)

Next ==
    \/ \E c \in Coroutines :
        \/ PreCancelled(c)
        \/ \E e \in Events, w \in Waits : StartWait(c, e, w)
        \/ WaitStep(c)
        \/ OnException(c)
        \/ Resume(c)
        \/ RequestCancelSet(c)
        \/ CancelStep(c)
    \/ \E t \in tasks : CompleteStep(t)
    \/ \E e \in Events : LoopTrigger(e) \/ NotifyCustomEvent(e)
    \/ \E k \in Closers :
        \/ \E f \in Fds : BeginFdClose(k, f)
        \/ CloseStep(k)
        \/ WaitFdCloseReady(k)

Spec == Init /\ [][Next]_vars

\* Workers keep running, a thread inside _Complete, RequestCancel or
\* Hook_Close finishes; nothing obliges an fd, a timer or a notifier to fire.
Fairness ==
    /\ \A c \in Coroutines :
        /\ WF_vars(WaitStep(c))
        /\ WF_vars(Resume(c))
        /\ WF_vars(CancelStep(c))
    /\ WF_vars(\E t \in tasks : CompleteStep(t))
    /\ \A k \in Closers : WF_vars(CloseStep(k))

FairSpec == Spec /\ Fairness

-----------------------------------------------------------------------------
(* Properties.                                                              *)

\* Coroutine::FdWaitEpochValid, evaluated after a resumption.
FdWaitEpochValid(c, f) ==
    /\ lastMask[c] # "CLOSED"
    /\ lastFd[c] = f => epoch[f] = lastEpoch[c]

\* A coroutine is in one place only: it is in a run queue at most once, and
\* then it is switched out, no thread still completes one of its waits and no
\* event can enqueue it again (CommitYield is the worker's last access).
ExclusiveCoroutine ==
    \A c \in Coroutines :
        /\ queued[c] <= 1
        /\ queued[c] = 1 => pc[c] = "parked" /\ await[c] = NoEvent
        /\ \A t \in tasks : owner[t.ev] = c =>
              pc[c] = "parked" /\ await[c] = t.ev /\ queued[c] = 0

\* First win: a coroutine that returns from a wait sees the mask of the first
\* Trigger that was accepted, no matter how many threads raced.
FirstWin ==
    \A c \in Coroutines :
        pc[c] = "run" /\ ret[c] = "zero" /\ cur[c] # NoEvent
            => lastMask[c] = won[cur[c]] /\ won[cur[c]] # NoFlag

\* When FdWaitEpochValid lets a resumed Hook retry its syscall, the descriptor
\* still names the object it named when the wait was established.
RetrySameObject ==
    \A c \in Coroutines :
        LET f == efd[cur[c]]
        IN  (/\ pc[c] = "run"
             /\ ret[c] = "zero"
             /\ cur[c] # NoEvent
             /\ f # NoFd
             /\ FdWaitEpochValid(c, f))
            => obj[f] = estObj[c]

\* close(2) is only issued on the object that was open when the caller
\* claimed the close: concurrent closers of one number never close its reuse.
CloseOwnObject ==
    \A k \in Closers :
        kpc[k] \in {"wake", "close"} => obj[kfd[k]] = claimObj[k]

\* A finished event is neither in the fd table nor still listening below, so
\* the next wait on the same descriptor does not collide with it.
NoLeakedWaiter ==
    \A e \in Events : phase[e] \in {"FINAL", "CANCELLED"} =>
        /\ under[e] \in {"none", "deferred"}
        /\ \A f \in Fds : e \notin waiters[f]

\* A wait whose descriptor was closed since it was established.
StaleWait(c) ==
    /\ await[c] # NoEvent
    /\ efd[await[c]] # NoFd
    /\ pc[c] \notin {"init", "run", "done"}
    /\ epoch[efd[await[c]]] # waitEpoch[await[c]]

\* No coroutine hangs on a closed descriptor: close(2) removes the epoll
\* interest silently, so BeginFdClose or Regist must wake it.
ClosedWaitReturns == \A c \in Coroutines : StaleWait(c) ~> pc[c] \in {"run", "done"}

\* RequestCancel ends every wait, whether it lands before, during or after
\* the registration.
CancelEndsWait ==
    \A c \in Coroutines :
        cancelReq[c] /\ await[c] # NoEvent ~> pc[c] \in {"run", "done"}

-----------------------------------------------------------------------------
(* The event implements a one-shot wait.                                    *)

absSt == [c \in Coroutines |->
            CASE pc[c] = "run" -> "running"
              [] pc[c] = "done" -> "ended"
              [] pc[c] \notin {"run", "done"} /\ queued[c] > 0 -> "ready"
              [] OTHER -> "waiting"]

absCause == [c \in Coroutines |->
                IF pc[c] \in {"run", "done"} THEN NoFlag ELSE won[cur[c]]]

OneShot == INSTANCE OneShotWait
    WITH Waiters <- Coroutines, Causes <- Flags, NoCause <- NoFlag,
         st <- absSt, cause <- absCause, outcome <- lastMask

\* Whatever races, a wait of the code is a one-shot wait: decided once, by the
\* first accepted Trigger, delivered once, resumed once; and a decided wait
\* is always delivered.
ImplementsOneShotWait == OneShot!FairSpec

\* No wait and no retry survives its descriptor: nothing is called again on an
\* object of another epoch, no slot remembers a wait that has ended.
NothingStale == RetrySameObject /\ NoLeakedWaiter

\* Waits of CoPollEvent come to an end (BeginFdClose, Coroutine::RequestCancel): a
\* close ends those on its descriptor, a cancel the one of its coroutine.
WaitsEnd == ClosedWaitReturns /\ CancelEndsWait
=============================================================================
