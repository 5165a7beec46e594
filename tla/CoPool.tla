------------------------------- MODULE CoPool -------------------------------
(***************************************************************************)
(* pool/CoPool: a fixed number of work coroutines and a monitor over one   *)
(* lock-free queue, one CoCond and a count-down latch.  The coroutines     *)
(* share a limited number of worker threads; a coroutine keeps its thread  *)
(* from the dispatch to the next suspension, and Release, when it is       *)
(* called in a coroutine, keeps it while it blocks on the latch.           *)
(***************************************************************************)
EXTENDS CoCond

CONSTANTS Works,     \* tasks, each submitted once from a thread of its own
          WithFuture,\* the tasks submitted by SubmitWithFuture
          Monitor, Releaser,
          Deployments \* pairs <<worker threads, "thread" | "coroutine">>: where
                      \* Release is called; a behaviour keeps to one of them

WorkCos == CondCos
PoolCos == WorkCos \cup {Monitor}

ASSUME CoPoolAssumption ==
    /\ Monitor \notin CondCos /\ Releaser \notin PoolCos
    /\ IsFiniteSet(Works) /\ WithFuture \subseteq Works
    /\ Notifiers = {Releaser}

VARIABLES
    deployed,
    accepting,   \* m_is_running
    workQueue,   \* m_works_queue
    runningNum,  \* m_running_co_num
    latch,       \* m_latch
    poolPc, onCpu,
    inHand,      \* the Work a work coroutine has dequeued
    toNotify,    \* remain_works_num - i of the monitor
    submitting,  \* tasks whose Submit has enqueued and not yet notified
    fate,        \* of each task: new, checked, queued, taken, and its end
    unhandled    \* m_unhandled_exception_count

poolVars == <<deployed, accepting, workQueue, runningNum, latch, poolPc, onCpu,
              inHand, toNotify, submitting, fate, unhandled>>

Ended == {"done", "threw", "dropped", "refused"}

\* The type invariant; in particular neither the count of running work coroutines
\* nor the latch runs below zero.
PoolTypeOK ==
    /\ CondTypeOK
    /\ accepting \in BOOLEAN
    /\ workQueue \subseteq Works
    /\ runningNum \in Nat /\ latch \in Nat /\ toNotify \in Nat /\ unhandled \in Nat
    /\ onCpu \subseteq PoolCos \cup {Releaser}
    /\ fate \in [Works -> {"new", "checked", "queued", "taken"} \cup Ended]

LatchWithoutMonitor == Cardinality(WorkCos)  \* mutant
LatchCount == Cardinality(WorkCos) + 1

\* The pool has been created: its coroutines are registered, none has run.
PoolInit ==
    /\ CondInit /\ CondAllInit
    /\ deployed \in Deployments
    /\ accepting = TRUE /\ workQueue = {} /\ runningNum = 0 /\ latch = LatchCount
    /\ poolPc = [c \in PoolCos \cup {Releaser} |->
                   IF c = Releaser THEN "owner" ELSE "new"]
    /\ onCpu = IF deployed[2] = "coroutine" THEN {Releaser} ELSE {}
    /\ inHand = [c \in WorkCos |-> CHOOSE w \in Works : TRUE]
    /\ toNotify = 0 /\ unhandled = 0
    /\ fate = [w \in Works |-> "new"] /\ submitting = {}

PoolGoto(c, label) == poolPc' = [poolPc EXCEPT ![c] = label]
Settle(w, how) == fate' = [fate EXCEPT ![w] = how]

-----------------------------------------------------------------------------
(* Threads.                                                                 *)

\* A runnable coroutine gets a worker thread: a new one, one whose wait on the
\* condition is decided, one whose sleep is over.
Dispatch(c) ==
    /\ Cardinality(onCpu) < deployed[1]
    /\ \/ poolPc[c] = "new" /\ PoolGoto(c, "start") /\ UNCHANGED condVars
       \/ poolPc[c] = "parked" /\ CondReturn(c) /\ PoolGoto(c, "loop")
       \/ poolPc[c] = "slept" /\ PoolGoto(c, IF c = Releaser THEN "check" ELSE "loop")
            /\ UNCHANGED condVars
    /\ onCpu' = onCpu \cup {c}
    /\ UNCHANGED <<deployed, accepting, workQueue, runningNum, latch, inHand, toNotify,
                   submitting, fate, unhandled>>

\* A sleep ends.  A thread goes on by itself.
SleepOver(c) ==
    /\ poolPc[c] = "sleep"
    /\ PoolGoto(c, IF c = Releaser /\ deployed[2] = "thread" THEN "check" ELSE "slept")
    /\ UNCHANGED <<condVars, deployed, accepting, workQueue, runningNum, latch, onCpu,
                   inHand, toNotify, submitting, fate, unhandled>>

-----------------------------------------------------------------------------
(* Submit and SubmitWithFuture: check, enqueue, notify.                     *)

SubmitCheck(w) ==
    /\ fate[w] = "new" /\ poolPc[Releaser] # "destroyed"
    /\ Settle(w, IF accepting THEN "checked" ELSE "refused")
    /\ UNCHANGED <<condVars, deployed, accepting, workQueue, runningNum, latch, poolPc, onCpu,
                   inHand, toNotify, submitting, unhandled>>

SubmitEnqueue(w) ==
    /\ fate[w] = "checked"
    /\ workQueue' = workQueue \cup {w}
    /\ Settle(w, "queued")
    /\ submitting' = submitting \cup {w}
    /\ UNCHANGED <<condVars, deployed, accepting, runningNum, latch, poolPc, onCpu,
                   inHand, toNotify, unhandled>>

\* NotifyOne after the enqueue; it may find nobody.
SubmitNotify(w) ==
    /\ w \in submitting
    /\ submitting' = submitting \ {w}
    /\ CondNotifyOne
    /\ UNCHANGED <<deployed, accepting, workQueue, runningNum, latch, poolPc, onCpu, inHand,
                   toNotify, fate, unhandled>>

-----------------------------------------------------------------------------
(* _WorkCo.                                                                 *)

\* m_running_co_num++, shared with _MonitorCo.
StartCo(c) ==
    /\ poolPc[c] = "start"
    /\ runningNum' = runningNum + 1
    /\ PoolGoto(c, "loop")
    /\ UNCHANGED <<condVars, deployed, accepting, workQueue, latch, onCpu, inHand, toNotify,
                   submitting, fate, unhandled>>

CheckRunning(c) ==
    /\ poolPc[c] = "loop"
    /\ PoolGoto(c, IF ~accepting THEN "leave" ELSE IF c = Monitor THEN "scan" ELSE "dequeue")
    /\ UNCHANGED <<condVars, deployed, accepting, workQueue, runningNum, latch, onCpu, inHand,
                   toNotify, submitting, fate, unhandled>>

Dequeue(c) ==
    /\ poolPc[c] = "dequeue"
    /\ \/ \E w \in workQueue :
            /\ workQueue' = workQueue \ {w}
            /\ inHand' = [inHand EXCEPT ![c] = w]
            /\ Settle(w, "taken")
            /\ PoolGoto(c, "invoke")
       \/ workQueue = {} /\ PoolGoto(c, "wait") /\ UNCHANGED <<workQueue, inHand, fate>>
    /\ UNCHANGED <<condVars, deployed, accepting, runningNum, latch, onCpu, toNotify, submitting, unhandled>>

\* m_cond->Wait(): the switch, then the callback.  A wait that cannot be
\* registered returns to the loop.
WaitForWork(c) ==
    /\ poolPc[c] = "wait"
    /\ \/ /\ CondWait(c) /\ PoolGoto(c, "callback")
       \/ PoolGoto(c, "loop") /\ UNCHANGED condVars
    /\ UNCHANGED <<deployed, accepting, workQueue, runningNum, latch, onCpu, inHand, toNotify,
                   submitting, fate, unhandled>>
WaitCallback(c) ==
    /\ poolPc[c] = "callback"
    /\ CondEnqueue(c)
    /\ PoolGoto(c, "parked")
    /\ onCpu' = onCpu \ {c}
    /\ UNCHANGED <<deployed, accepting, workQueue, runningNum, latch, inHand, toNotify,
                   submitting, fate, unhandled>>

\* Invoke, SetFinished or _HandleWorkException, delete.  An exception goes to
\* the future, to the callback, or is counted (also when the callback throws).
Invoke(c) ==
    /\ poolPc[c] = "invoke"
    /\ PoolGoto(c, "loop")
    /\ \/ Settle(inHand[c], "done") /\ UNCHANGED unhandled
       \/ /\ Settle(inHand[c], "threw")
          /\ \/ UNCHANGED unhandled
             \/ inHand[c] \notin WithFuture /\ unhandled' = unhandled + 1
    /\ UNCHANGED <<condVars, deployed, accepting, workQueue, runningNum, latch, onCpu, inHand,
                   toNotify, submitting>>

\* m_running_co_num--, and m_latch.Down() after the function has returned.
Leave(c) ==
    /\ poolPc[c] = "leave"
    /\ runningNum' = runningNum - 1
    /\ PoolGoto(c, "down")
    /\ UNCHANGED <<condVars, deployed, accepting, workQueue, latch, onCpu, inHand, toNotify,
                   submitting, fate, unhandled>>
Down(c) ==
    /\ poolPc[c] = "down"
    /\ latch' = latch - 1
    /\ PoolGoto(c, "finished")
    /\ onCpu' = onCpu \ {c}
    /\ UNCHANGED <<condVars, deployed, accepting, workQueue, runningNum, inHand, toNotify,
                   submitting, fate, unhandled>>

-----------------------------------------------------------------------------
(* _MonitorCo: as many notifies as there are tasks, then a sleep.           *)

MonitorIdle ==  \* mutant
    /\ poolPc[Monitor] = "scan"
    /\ toNotify' = 0
    /\ PoolGoto(Monitor, "notify")
    /\ UNCHANGED <<condVars, deployed, accepting, workQueue, runningNum, latch, onCpu, inHand,
                   submitting, fate, unhandled>>
MonitorScan ==
    /\ poolPc[Monitor] = "scan"
    /\ toNotify' = Cardinality(workQueue)
    /\ PoolGoto(Monitor, "notify")
    /\ UNCHANGED <<condVars, deployed, accepting, workQueue, runningNum, latch, onCpu, inHand,
                   submitting, fate, unhandled>>

MonitorNotify ==
    /\ poolPc[Monitor] = "notify"
    /\ IF toNotify > 0 /\ CondLive # {}
       THEN CondNotifyOne /\ toNotify' = toNotify - 1 /\ UNCHANGED <<poolPc, onCpu>>
       ELSE /\ toNotify' = 0
            /\ PoolGoto(Monitor, "sleep")
            /\ onCpu' = onCpu \ {Monitor}
            /\ UNCHANGED condVars
    /\ UNCHANGED <<deployed, accepting, workQueue, runningNum, latch, inHand, submitting, fate, unhandled>>

-----------------------------------------------------------------------------
(* Release, by its owner; the destructor drains, releases and destroys.     *)

ReleaseBegin ==
    /\ poolPc[Releaser] = "owner"
    /\ accepting' = FALSE
    /\ PoolGoto(Releaser, "check")
    /\ UNCHANGED <<condVars, deployed, workQueue, runningNum, latch, onCpu, inHand, toNotify,
                   submitting, fate, unhandled>>

\* while (m_running_co_num != 0) NotifyAll and sleep.
ReleaseOnce ==  \* mutant
    /\ poolPc[Releaser] = "check"
    /\ PoolGoto(Releaser, IF runningNum # 0 /\ CondLive # {} THEN "all" ELSE "latch")
    /\ UNCHANGED <<condVars, deployed, accepting, workQueue, runningNum, latch, onCpu, inHand,
                   toNotify, submitting, fate, unhandled>>
ReleaseCheck ==
    /\ poolPc[Releaser] = "check"
    /\ PoolGoto(Releaser, IF runningNum # 0 THEN "all" ELSE "latch")
    /\ UNCHANGED <<condVars, deployed, accepting, workQueue, runningNum, latch, onCpu, inHand,
                   toNotify, submitting, fate, unhandled>>

ReleaseNotifyAll ==
    /\ \/ poolPc[Releaser] = "all" /\ CondPop(Releaser) /\ PoolGoto(Releaser, "hand") /\ UNCHANGED onCpu
       \/ /\ poolPc[Releaser] = "all" /\ condQueue = <<>>
          /\ PoolGoto(Releaser, "sleep")
          /\ onCpu' = onCpu \ {Releaser}
          /\ UNCHANGED condVars
       \/ poolPc[Releaser] = "hand" /\ CondNotifyHand(Releaser) /\ PoolGoto(Releaser, "all")
            /\ UNCHANGED onCpu
    /\ UNCHANGED <<deployed, accepting, workQueue, runningNum, latch, inHand, toNotify,
                   submitting, fate, unhandled>>

\* m_latch.Wait() blocks the thread; then the queue is drained.
DropQueued ==
    /\ workQueue' = {}
    /\ fate' = [w \in Works |-> IF w \in workQueue THEN "dropped" ELSE fate[w]]
ReleaseLatch ==
    /\ poolPc[Releaser] = "latch" /\ latch = 0
    /\ DropQueued
    /\ PoolGoto(Releaser, "released")
    /\ UNCHANGED <<condVars, deployed, accepting, runningNum, latch, onCpu, inHand, toNotify,
                   submitting, unhandled>>

\* The destructor, once no Submit is under way (its Release finds nothing to
\* wait for).
Destroy ==
    /\ poolPc[Releaser] = "released"
    /\ submitting = {} /\ \A w \in Works : fate[w] # "checked"
    /\ DropQueued
    /\ PoolGoto(Releaser, "destroyed")
    /\ UNCHANGED <<condVars, deployed, accepting, runningNum, latch, onCpu, inHand, toNotify,
                   submitting, unhandled>>

-----------------------------------------------------------------------------
CoStep(c) ==
    \/ StartCo(c) \/ CheckRunning(c) \/ Leave(c) \/ Down(c)
    \/ c \in WorkCos /\ (Dequeue(c) \/ WaitForWork(c) \/ WaitCallback(c) \/ Invoke(c))
    \/ c = Monitor /\ (MonitorScan \/ MonitorNotify)

ReleaseStep == ReleaseCheck \/ ReleaseNotifyAll \/ ReleaseLatch

PoolNext ==
    /\ UNCHANGED condAll
    /\ \/ \E c \in PoolCos : CoStep(c)
       \/ \E c \in PoolCos \cup {Releaser} : Dispatch(c) \/ SleepOver(c)
       \/ \E w \in Works : SubmitCheck(w) \/ SubmitEnqueue(w) \/ SubmitNotify(w)
       \/ ReleaseBegin \/ ReleaseStep \/ Destroy

poolAll == <<condVars, poolVars>>
PoolSpec == PoolInit /\ [][PoolNext]_<<poolAll, condAll>>

\* Threads run, sleeps end, and a runnable coroutine gets a worker thread
\* whenever one keeps becoming free.  That a wait can be registered now and
\* then is assumed too: a loop of failures would keep a thread for ever.
PoolFairness ==
    /\ \A c \in PoolCos : WF_poolAll(CoStep(c))
    /\ \A c \in WorkCos : SF_poolAll(WaitForWork(c) /\ poolPc'[c] = "callback")
    /\ \A c \in PoolCos \cup {Releaser} : SF_poolAll(Dispatch(c)) /\ WF_poolAll(SleepOver(c))
    /\ WF_poolAll(ReleaseStep)

FairPool == PoolSpec /\ PoolFairness

-----------------------------------------------------------------------------
(* Properties.                                                              *)

\* A task whose Submit returned 0 is executed or discarded, also when the
\* notify came before the work coroutine had queued its waiter; as long as the
\* pool runs, or once it is destroyed.
AcceptedHandled ==
    \A w \in Works :
        []<>(fate[w] \notin {"queued", "taken"} \/ poolPc[Releaser] = "released")

\* Release returns, wherever the coroutines of the pool were when it began.
ReleaseReturns == []<>(poolPc[Releaser] \in {"owner", "released", "destroyed"})

\* Once Release has returned nothing of the pool runs any more (its owner may
\* destroy it), and after the destructor no accepted task is left behind, so
\* every future is settled.
ReleasedQuiet ==
    /\ poolPc[Releaser] \in {"released", "destroyed"} =>
         \A c \in PoolCos : poolPc[c] = "finished"
    /\ poolPc[Releaser] = "destroyed" => \A w \in Works : fate[w] \in Ended \cup {"new"}

\* When Release has returned nothing of the pool is at work (CoPool::Release and
\* the latch its coroutines count down).
PoolSound == PoolTypeOK /\ ReleasedQuiet
=============================================================================
