------------------------------ MODULE Processer ------------------------------
(***************************************************************************)
(* detail/Processer and the part of detail/Scheduler it hands coroutines   *)
(* to: the admission gate of a worker's local queue, the global queue,     *)
(* work stealing, the latch a worker sleeps on, and retirement.            *)
(*                                                                         *)
(* Actors are the worker threads and other threads (user threads, the      *)
(* scheduler thread).  A step is what one actor does between two accesses  *)
(* to state another one may change: one atomic load or store, or one       *)
(* section under a mutex.  Queues are sets: in which order CfsRunQueue     *)
(* picks, and the four priority levels of the global queue, are left out.  *)
(* Workers have no driver bound (IProcesserDriver is a component apart).   *)
(***************************************************************************)
EXTENDS Naturals, FiniteSets

CONSTANTS Workers, Threads, Coroutines,
          Initial,       \* the workers _CreateProcessers starts
          NoCo, NoActor,
          MaxSteals      \* bound on the number of successful Takes by a thief

Actors == Workers \cup Threads

ASSUME ProcesserAssumption ==
    /\ Workers \cap Threads = {}
    /\ Initial \subseteq Workers /\ Initial # {}
    /\ NoCo \notin Coroutines
    /\ NoActor \notin Actors
    /\ IsFiniteSet(Workers) /\ IsFiniteSet(Threads) /\ IsFiniteSet(Coroutines)
    /\ MaxSteals \in Nat

VARIABLES
    life, admission, retire,  \* m_lifecycle, m_admission_open, m_retire_requested
    inflight,                 \* m_enqueue_inflight
    local, global,            \* m_coroutine_queue, m_global_coroutine_queue
    snapshot,                 \* m_active_snapshot
    pending,                  \* ~m_run_cond_notify: the latch of the worker
    runLock, gmutex, mmutex,  \* m_run_cond_mutex held by its worker; who holds
                              \* m_global_queue_mutex, m_processer_map_mutex
    pc, why, hand, dest,      \* an actor: where it is, in which operation, the
                              \* coroutine it owns, the queue it wants to fill
    todo,                     \* workers it has still to try or to notify
    got,                      \* a pull or a steal of the worker had success
    running,                  \* m_running_coroutine
    fresh, parked, done, rejected, \* coroutines in no queue
    steals

lifeVars == <<life, admission, retire, snapshot>>
queueVars == <<inflight, local, global>>
lockVars == <<runLock, gmutex, mmutex>>
coVars == <<running, fresh, parked, done, rejected>>
actorVars == <<pc, why, hand, dest, todo, got>>
vars == <<life, admission, retire, snapshot, inflight, local, global, pending,
          runLock, gmutex, mmutex, pc, why, hand, dest, todo, got, running,
          fresh, parked, done, rejected, steals>>

Lives == {"Preparing", "Active", "Retiring", "Exited"}
Pulls == {"pull", "check", "sleep"} \* the three calls of _TryGetCoroutineFromGlobal
Whys == {"none", "regist", "registOn", "activate", "ready", "steal", "retire",
         "resize"} \cup Pulls
WorkerPC == {"gate", "loop", "ask", "pull", "pick", "run", "idle", "fair", "steal", "take",
             "wait", "decide", "asleep", "drain", "draining", "exit", "exited"}
CallPC == {"rest", "check", "admit", "recheck", "insert", "refused", "toglobal",
           "broadcast", "publish", "retiring"}

LifeTypes ==
    /\ life \in [Workers -> Lives]
    /\ admission \in [Workers -> BOOLEAN]
    /\ retire \in [Workers -> BOOLEAN]
    /\ snapshot \in SUBSET Workers
    /\ pending \in [Workers -> BOOLEAN]

QueueTypes ==
    /\ inflight \in [Workers -> Nat]
    /\ local \in [Workers -> SUBSET Coroutines]
    /\ global \in SUBSET Coroutines
    /\ runLock \in [Workers -> BOOLEAN]
    /\ gmutex \in Actors \cup {NoActor}
    /\ mmutex \in Actors \cup {NoActor}

ActorTypes ==
    /\ pc \in [Actors -> WorkerPC \cup CallPC]
    /\ why \in [Actors -> Whys]
    /\ hand \in [Actors -> Coroutines \cup {NoCo}]
    /\ dest \in [Actors -> Workers \cup {NoActor}]
    /\ todo \in [Actors -> SUBSET Workers]
    /\ got \in [Workers -> BOOLEAN]

CoTypes ==
    /\ running \in [Workers -> Coroutines \cup {NoCo}]
    /\ fresh \in SUBSET Coroutines
    /\ parked \in SUBSET Coroutines
    /\ done \in SUBSET Coroutines
    /\ rejected \in SUBSET Coroutines
    /\ steals \in 0 .. MaxSteals

\* The type invariant; in particular m_enqueue_inflight never runs below zero.
TypeOK == LifeTypes /\ QueueTypes /\ ActorTypes /\ CoTypes

\* After Start: the initial workers are registered, admitted and running.
Init ==
    /\ life = [w \in Workers |-> IF w \in Initial THEN "Active" ELSE "Preparing"]
    /\ admission = [w \in Workers |-> w \in Initial]
    /\ retire = [w \in Workers |-> FALSE]
    /\ snapshot = Initial
    /\ pending = [w \in Workers |-> FALSE]
    /\ inflight = [w \in Workers |-> 0]
    /\ local = [w \in Workers |-> {}]
    /\ global = {}
    /\ runLock = [w \in Workers |-> FALSE]
    /\ gmutex = NoActor /\ mmutex = NoActor
    /\ pc = [a \in Actors |-> IF a \in Threads THEN "rest"
                              ELSE IF a \in Initial THEN "loop" ELSE "gate"]
    /\ why = [a \in Actors |-> "none"]
    /\ hand = [a \in Actors |-> NoCo]
    /\ dest = [a \in Actors |-> NoActor]
    /\ todo = [a \in Actors |-> {}]
    /\ got = [w \in Workers |-> FALSE]
    /\ running = [w \in Workers |-> NoCo]
    /\ fresh = Coroutines
    /\ parked = {} /\ done = {} /\ rejected = {}
    /\ steals = 0

-----------------------------------------------------------------------------
(* Where an actor goes on.                                                  *)

Goto(a, p) == pc' = [pc EXCEPT ![a] = p]
\* A step that changes nothing but where the actor is.
Move(a, p) ==
    /\ Goto(a, p)
    /\ UNCHANGED <<lifeVars, queueVars, pending, lockVars, coVars, why, hand, dest,
                   todo, got, steals>>

\* The operation the actor was in is over.
Ends(a) == why' = [why EXCEPT ![a] = "none"]

\* A worker goes on in its loop; what its last pull brought is of no interest.
GoOn(w, p) ==
    /\ Goto(w, p)
    /\ Ends(w)
    /\ got' = [got EXCEPT ![w] = FALSE]
    /\ UNCHANGED <<lifeVars, queueVars, pending, lockVars, coVars, hand, dest, todo, steals>>

\* User code runs on other threads and in the coroutine a worker resumed.
InUserCode(a) == pc[a] \in {"rest", "run"}
Home(a) == IF a \in Threads THEN "rest" ELSE "run"

\* A worker makes at most 64 turns, then looks at the rest of its loop.
NextTurn == {"pick", "idle"}

AfterPull(w) == CASE why[w] = "pull" -> "pick"
                  [] why[w] = "check" -> "fair"
                  [] why[w] = "sleep" -> "decide"

\* Where a call that ends with notifications returns to.
AfterPublish(a) == CASE why[a] = "ready" -> NextTurn
                     [] why[a] = "retire" -> {"exit"}
                     [] OTHER -> {Home(a)}

-----------------------------------------------------------------------------
(* _EnqueueAdmitted(dest, hand): load, register, load again, insert.        *)

EnqueueCheck(a) ==
    /\ pc[a] = "check"
    /\ Move(a, IF admission[dest[a]] THEN "admit" ELSE "refused")

EnqueueRegister(a) ==
    /\ pc[a] = "admit"
    /\ inflight' = [inflight EXCEPT ![dest[a]] = @ + 1]
    /\ Goto(a, "recheck")
    /\ UNCHANGED <<lifeVars, local, global, pending, lockVars, coVars, why, hand,
                   dest, todo, got, steals>>

\* _ReleaseEnqueueSlot.
LeaksRefused(w) == [inflight EXCEPT ![w] = IF admission[w] THEN @ - 1 ELSE @]  \* mutant
ReleasesTwice(w) == [inflight EXCEPT ![w] = IF admission[w] THEN @ - 1 ELSE @ - 2]  \* mutant
Released(w) == [inflight EXCEPT ![w] = @ - 1]

NoSecondLook(w) == TRUE  \* mutant
StillAdmitted(w) == admission[w]

EnqueueRecheck(a) ==
    /\ pc[a] = "recheck"
    /\ IF StillAdmitted(dest[a])
       THEN Goto(a, "insert") /\ UNCHANGED inflight
       ELSE Goto(a, "refused") /\ inflight' = Released(dest[a])
    /\ UNCHANGED <<lifeVars, local, global, pending, lockVars, coVars, why, hand,
                   dest, todo, got, steals>>

\* CfsRunQueue::Enqueue and _ReleaseEnqueueSlot; only tasks from outside are
\* announced to the worker.
EnqueueInsert(a) ==
    /\ pc[a] = "insert"
    /\ local' = [local EXCEPT ![dest[a]] = @ \cup {hand[a]}]
    /\ inflight' = Released(dest[a])
    /\ hand' = [hand EXCEPT ![a] = NoCo]
    /\ dest' = [dest EXCEPT ![a] = NoActor]
    /\ \/ /\ why[a] \in {"regist", "registOn"}
          /\ todo' = [todo EXCEPT ![a] = {dest[a]}]
          /\ Goto(a, "publish")
          /\ UNCHANGED <<why, got>>
       \/ /\ why[a] = "activate" /\ Goto(a, Home(a))
          /\ Ends(a)
          /\ UNCHANGED <<todo, got>>
       \/ /\ why[a] = "ready" /\ \E p \in NextTurn : Goto(a, p)
          /\ Ends(a)
          /\ UNCHANGED <<todo, got>>
       \/ /\ why[a] \in Pulls \cup {"steal"}
          /\ Goto(a, IF why[a] = "steal" THEN "take" ELSE "pull")
          /\ got' = [got EXCEPT ![a] = TRUE]
          /\ UNCHANGED <<why, todo>>
    /\ UNCHANGED <<lifeVars, global, pending, lockVars, coVars, steals>>

\* The caller keeps a coroutine that was refused: the load balancer tries the
\* next worker, a targeted task is rejected, everything else goes to the global
\* queue; a pull puts it back without m_global_queue_mutex.
DropsRefused(c) == global  \* mutant
GivenBack(c) == global \cup {c}

EnqueueRefused(a) ==
    /\ pc[a] = "refused"
    /\ \/ /\ why[a] = "regist" /\ todo[a] # {}
          /\ \E w \in todo[a] : /\ dest' = [dest EXCEPT ![a] = w]
                               /\ todo' = [todo EXCEPT ![a] = @ \ {w}]
          /\ Goto(a, "check")
          /\ UNCHANGED <<global, hand, rejected, gmutex, mmutex, why>>
       \/ /\ why[a] = "registOn" \/ (why[a] = "regist" /\ todo[a] = {})
          /\ rejected' = rejected \cup {hand[a]}
          /\ hand' = [hand EXCEPT ![a] = NoCo]
          /\ gmutex' = NoActor
          /\ mmutex' = IF why[a] = "regist" THEN NoActor ELSE mmutex
          /\ dest' = [dest EXCEPT ![a] = NoActor]
          /\ Goto(a, Home(a))
          /\ Ends(a)
          /\ UNCHANGED <<global, todo>>
       \/ /\ why[a] \in {"activate", "ready", "steal"}
          /\ dest' = [dest EXCEPT ![a] = NoActor]
          /\ Goto(a, "toglobal")
          /\ UNCHANGED <<global, hand, rejected, gmutex, mmutex, why, todo>>
       \/ /\ why[a] \in Pulls
          /\ global' = GivenBack(hand[a])
          /\ hand' = [hand EXCEPT ![a] = NoCo]
          /\ dest' = [dest EXCEPT ![a] = NoActor]
          /\ Goto(a, AfterPull(a))
          /\ UNCHANGED <<rejected, gmutex, mmutex, why, todo>>
    /\ UNCHANGED <<lifeVars, inflight, local, pending, runLock, running, fresh,
                   parked, done, got, steals>>

-----------------------------------------------------------------------------
(* The global queue and the notification of workers.                        *)

\* _EnqueueGlobal; a thief (who tries the next victim if it has nothing) and a
\* draining worker go on without notifying.
EnqueueGlobal(a) ==
    /\ pc[a] = "toglobal"
    /\ gmutex = NoActor
    /\ global' = global \cup {hand[a]}
    /\ hand' = [hand EXCEPT ![a] = NoCo]
    /\ Goto(a, CASE why[a] = "steal" -> IF got[a] THEN "loop" ELSE "steal"
                 [] why[a] = "retire" -> "draining"
                 [] OTHER -> "broadcast")
    /\ todo' = [todo EXCEPT ![a] = {}]
    /\ UNCHANGED <<lifeVars, inflight, local, pending, lockVars, coVars, why, dest,
                   got, steals>>

\* _WakeActiveWorkers, or the end of OnActiveCoroutine: take the snapshot ...
Broadcast(a) ==
    /\ pc[a] = "broadcast"
    /\ mmutex = NoActor
    /\ todo' = [todo EXCEPT ![a] = snapshot]
    /\ Goto(a, "publish")
    /\ UNCHANGED <<lifeVars, queueVars, pending, lockVars, coVars, why, hand, dest,
                   got, steals>>

\* ... and _PublishRunnable for one worker after the other, under its
\* m_run_cond_mutex.  RegistCoroutineTask holds its mutexes until then.
Publish(a, w) ==
    /\ pc[a] = "publish"
    /\ w \in todo[a]
    /\ ~runLock[w]
    /\ pending' = [pending EXCEPT ![w] = TRUE]
    /\ todo' = [todo EXCEPT ![a] = @ \ {w}]
    /\ IF todo[a] = {w}
       THEN /\ \E p \in AfterPublish(a) : Goto(a, p)
            /\ Ends(a)
            /\ gmutex' = IF gmutex = a THEN NoActor ELSE gmutex
            /\ mmutex' = IF mmutex = a THEN NoActor ELSE mmutex
       ELSE UNCHANGED <<pc, why, gmutex, mmutex>>
    /\ UNCHANGED <<lifeVars, queueVars, runLock, coVars, hand, dest, got, steals>>

-----------------------------------------------------------------------------
(* Calls from user code.                                                    *)

\* RegistCoroutineTask: _LoadBlance2Proc enqueues under m_processer_map_mutex.
Regist(a, c) ==
    /\ InUserCode(a)
    /\ c \in fresh
    /\ gmutex = NoActor /\ mmutex = NoActor
    /\ gmutex' = a /\ mmutex' = a
    /\ fresh' = fresh \ {c}
    /\ hand' = [hand EXCEPT ![a] = c]
    /\ why' = [why EXCEPT ![a] = "regist"]
    /\ \E w \in snapshot : /\ dest' = [dest EXCEPT ![a] = w]
                           /\ todo' = [todo EXCEPT ![a] = snapshot \ {w}]
    /\ Goto(a, "check")
    /\ UNCHANGED <<lifeVars, queueVars, pending, runLock, running, parked, done,
                   rejected, got, steals>>

\* RegistCoroutineTaskOn: the target is looked up, the map mutex released, and
\* only then the task enqueued.
RegistOn(a, c, w) ==
    /\ InUserCode(a)
    /\ c \in fresh
    /\ w \in snapshot
    /\ gmutex = NoActor /\ mmutex = NoActor
    /\ gmutex' = a
    /\ fresh' = fresh \ {c}
    /\ hand' = [hand EXCEPT ![a] = c]
    /\ why' = [why EXCEPT ![a] = "registOn"]
    /\ dest' = [dest EXCEPT ![a] = w]
    /\ Goto(a, "check")
    /\ UNCHANGED <<lifeVars, queueVars, pending, mmutex, runLock, running, parked,
                   done, rejected, todo, got, steals>>

\* OnActiveCoroutine: a worker tries its own queue, any other thread goes to the
\* global one.
Activate(a, c) ==
    /\ InUserCode(a)
    /\ c \in parked
    /\ parked' = parked \ {c}
    /\ hand' = [hand EXCEPT ![a] = c]
    /\ why' = [why EXCEPT ![a] = "activate"]
    /\ IF a \in Workers
       THEN dest' = [dest EXCEPT ![a] = a] /\ Goto(a, "check")
       ELSE Goto(a, "toglobal") /\ UNCHANGED dest
    /\ UNCHANGED <<lifeVars, queueVars, pending, lockVars, running, fresh, done,
                   rejected, todo, got, steals>>

\* _CommitShrinkLocked: under the map mutex _BeginRetire closes the gates first,
\* then publishes Retiring and the request; never the caller's own worker.
MapUnlocked == TRUE  \* mutant
MapFree == mmutex = NoActor

BeginRetire(a, S) ==
    /\ InUserCode(a)
    /\ MapFree
    /\ S # {} /\ S \subseteq snapshot \ {a} /\ S # snapshot
    /\ mmutex' = a
    /\ admission' = [w \in Workers |-> admission[w] /\ w \notin S]
    /\ why' = [why EXCEPT ![a] = "resize"]
    /\ todo' = [todo EXCEPT ![a] = S]
    /\ Goto(a, "retiring")
    /\ UNCHANGED <<life, retire, snapshot, queueVars, pending, runLock, gmutex,
                   coVars, hand, dest, got, steals>>

CommitShrink(a) ==
    /\ pc[a] = "retiring"
    /\ life' = [w \in Workers |-> IF w \in todo[a] THEN "Retiring" ELSE life[w]]
    /\ retire' = [w \in Workers |-> retire[w] \/ w \in todo[a]]
    /\ snapshot' = snapshot \ todo[a]
    /\ mmutex' = NoActor
    /\ Goto(a, "publish")
    /\ UNCHANGED <<admission, queueVars, pending, runLock, gmutex, coVars, why, hand,
                   dest, todo, got, steals>>

\* The commit of _PrepareExpansionLocked, and the thread passing its gate.
Expand(a, w) ==
    /\ InUserCode(a)
    /\ mmutex = NoActor
    /\ life[w] = "Preparing"
    /\ life' = [life EXCEPT ![w] = "Active"]
    /\ admission' = [admission EXCEPT ![w] = TRUE]
    /\ snapshot' = snapshot \cup {w}
    /\ why' = [why EXCEPT ![a] = "resize"]
    /\ todo' = [todo EXCEPT ![a] = {w}]
    /\ Goto(a, "publish")
    /\ UNCHANGED <<retire, queueVars, pending, lockVars, coVars, hand, dest, got,
                   steals>>

WorkerMain(w) ==
    /\ pc[w] = "gate"
    /\ life[w] # "Preparing"
    /\ Move(w, "loop")

-----------------------------------------------------------------------------
(* _Run.                                                                    *)

Loop(w) ==
    /\ pc[w] = "loop"
    /\ Goto(w, IF retire[w] THEN "drain" ELSE IF local[w] = {} THEN "ask" ELSE "pick")
    /\ why' = [why EXCEPT ![w] = "pull"]
    /\ got' = [got EXCEPT ![w] = FALSE]
    /\ UNCHANGED <<lifeVars, queueVars, pending, lockVars, coVars, hand, dest, todo,
                   steals>>

\* _TryGetCoroutineFromGlobal: the gate is looked at once, then coroutines are
\* pulled one by one, until nothing is left or (after a success) the configured
\* number is reached.
Ask(w) ==
    /\ pc[w] = "ask"
    /\ Move(w, IF admission[w] THEN "pull" ELSE AfterPull(w))

PullOne(w, c) ==
    /\ pc[w] = "pull"
    /\ c \in global
    /\ global' = global \ {c}
    /\ hand' = [hand EXCEPT ![w] = c]
    /\ dest' = [dest EXCEPT ![w] = w]
    /\ Goto(w, "check")
    /\ UNCHANGED <<lifeVars, inflight, local, pending, lockVars, coVars, why, todo,
                   got, steals>>

PullEnd(w) ==
    /\ pc[w] = "pull"
    /\ global = {} \/ got[w]
    /\ Move(w, AfterPull(w))

Pick(w, c) ==
    /\ pc[w] = "pick"
    /\ ~retire[w]
    /\ c \in local[w]
    /\ local' = [local EXCEPT ![w] = @ \ {c}]
    /\ running' = [running EXCEPT ![w] = c]
    /\ Goto(w, "run")
    /\ Ends(w)
    /\ got' = [got EXCEPT ![w] = FALSE]
    /\ UNCHANGED <<lifeVars, inflight, global, pending, lockVars, fresh, parked, done,
                   rejected, hand, dest, todo, steals>>

PickNone(w) ==
    /\ pc[w] = "pick"
    /\ retire[w] \/ local[w] = {}
    /\ GoOn(w, IF retire[w] THEN "drain" ELSE "idle")

\* CommitYield of the coroutine: READY (or an EVENT_WAIT whose event has fired
\* already), EVENT_WAIT, FINAL.
YieldReady(w) ==
    /\ pc[w] = "run"
    /\ hand' = [hand EXCEPT ![w] = running[w]]
    /\ running' = [running EXCEPT ![w] = NoCo]
    /\ dest' = [dest EXCEPT ![w] = w]
    /\ why' = [why EXCEPT ![w] = "ready"]
    /\ Goto(w, "check")
    /\ UNCHANGED <<lifeVars, queueVars, pending, lockVars, fresh, parked, done,
                   rejected, todo, got, steals>>

YieldAway(w) ==
    /\ pc[w] = "run"
    /\ running' = [running EXCEPT ![w] = NoCo]
    /\ \/ parked' = parked \cup {running[w]} /\ UNCHANGED done
       \/ done' = done \cup {running[w]} /\ UNCHANGED parked
    /\ \E p \in NextTurn : Goto(w, p)
    /\ UNCHANGED <<lifeVars, queueVars, pending, lockVars, fresh, rejected, why, hand,
                   dest, todo, got, steals>>

\* Every kGlobalCheckInterval rounds the global queue is looked at in any case.
Idle(w) ==
    /\ pc[w] = "idle"
    /\ got' = [got EXCEPT ![w] = FALSE]
    /\ IF retire[w]
       THEN Goto(w, "drain") /\ UNCHANGED why
       ELSE \/ Goto(w, "ask") /\ why' = [why EXCEPT ![w] = "check"]
            \/ Goto(w, "fair") /\ UNCHANGED why
    /\ UNCHANGED <<lifeVars, queueVars, pending, lockVars, coVars, hand, dest, todo,
                   steals>>

\* Another round if there is work and this round had some (any_dequeued is left
\* open: a coroutine may have come meanwhile), else try to steal.
Fair(w) ==
    /\ pc[w] = "fair"
    /\ \/ local[w] # {} /\ GoOn(w, "loop")
       \/ GoOn(w, IF retire[w] THEN "drain" ELSE "steal")

-----------------------------------------------------------------------------
(* TryWorkSteal and Steal.                                                  *)

StealFrom(w, v) ==
    /\ pc[w] = "steal"
    /\ mmutex = NoActor
    /\ steals < MaxSteals
    /\ v \in snapshot \ {w}
    /\ life[w] = "Active" /\ life[v] = "Active" /\ admission[v]
    /\ local[v] # {}
    /\ todo' = [todo EXCEPT ![w] = {v}]
    /\ got' = [got EXCEPT ![w] = FALSE]
    /\ why' = [why EXCEPT ![w] = "steal"]
    /\ Goto(w, "take")
    /\ UNCHANGED <<lifeVars, queueVars, pending, lockVars, coVars, hand, dest, steals>>

\* No victim, or the victim has not been busy for long enough.
StealNothing(w) ==
    /\ pc[w] = "steal"
    /\ Move(w, "wait")

\* CfsRunQueue::Take of the victim, whatever has become of it meanwhile.
Take(w, v, c) ==
    /\ pc[w] = "take"
    /\ v \in todo[w]
    /\ steals < MaxSteals
    /\ c \in local[v]
    /\ local' = [local EXCEPT ![v] = @ \ {c}]
    /\ hand' = [hand EXCEPT ![w] = c]
    /\ dest' = [dest EXCEPT ![w] = w]
    /\ steals' = steals + 1
    /\ Goto(w, "check")
    /\ UNCHANGED <<lifeVars, inflight, global, pending, lockVars, coVars, why, todo, got>>

TakeEnd(w) ==
    /\ pc[w] = "take"
    /\ got[w] \/ steals = MaxSteals \/ \A v \in todo[w] : local[v] = {}
    /\ todo' = [todo EXCEPT ![w] = {}]
    /\ Goto(w, IF got[w] THEN "loop" ELSE "wait")
    /\ UNCHANGED <<lifeVars, queueVars, pending, lockVars, coVars, why, hand, dest, got,
                   steals>>

-----------------------------------------------------------------------------
(* _WaitForWork without a driver.                                           *)

WaitForWork(w) ==
    /\ pc[w] = "wait"
    /\ IF retire[w]
       THEN Goto(w, "loop") /\ UNCHANGED <<runLock, why, got>>
       ELSE /\ runLock' = [runLock EXCEPT ![w] = TRUE]
            /\ why' = [why EXCEPT ![w] = "sleep"]
            /\ got' = [got EXCEPT ![w] = FALSE]
            /\ Goto(w, "ask")
    /\ UNCHANGED <<lifeVars, queueVars, pending, gmutex, mmutex, coVars, hand, dest,
                   todo, steals>>

\* Still under the lock: sleep only if both queues are empty and nothing is
\* pending; the latch is reset on the way out.
SleepsAnyway(w) == ~pending[w] /\ ~retire[w]  \* mutant
MaySleep(w) == ~got[w] /\ local[w] = {} /\ ~pending[w] /\ ~retire[w]

Decide(w) ==
    /\ pc[w] = "decide"
    /\ runLock' = [runLock EXCEPT ![w] = FALSE]
    /\ pending' = [pending EXCEPT ![w] = FALSE]
    /\ Goto(w, IF MaySleep(w) THEN "asleep" ELSE "loop")
    /\ UNCHANGED <<lifeVars, queueVars, gmutex, mmutex, coVars, why, hand, dest, todo,
                   got, steals>>

Wake(w) ==
    /\ pc[w] = "asleep"
    /\ pending[w]
    /\ pending' = [pending EXCEPT ![w] = FALSE]
    /\ Goto(w, "loop")
    /\ UNCHANGED <<lifeVars, queueVars, lockVars, coVars, why, hand, dest, todo, got,
                   steals>>

\* wait_for runs into m_cfg_processer_proc_interval_us.
WakeByTimer(w) ==
    /\ pc[w] = "asleep"
    /\ pending' = [pending EXCEPT ![w] = FALSE]
    /\ Goto(w, "loop")
    /\ UNCHANGED <<lifeVars, queueVars, lockVars, coVars, why, hand, dest, todo, got,
                   steals>>

-----------------------------------------------------------------------------
(* The end of a retired worker.                                             *)

\* _DrainLocalToGlobal: wait for the enqueues under way, then hand over.
Quiescent(w) == inflight[w] = 0

WaitQuiescent(w) ==
    /\ pc[w] = "drain"
    /\ Quiescent(w)
    /\ why' = [why EXCEPT ![w] = "retire"]
    /\ Goto(w, "draining")
    /\ UNCHANGED <<lifeVars, queueVars, pending, lockVars, coVars, hand, dest, todo,
                   got, steals>>

DrainOne(w, c) ==
    /\ pc[w] = "draining"
    /\ c \in local[w]
    /\ local' = [local EXCEPT ![w] = @ \ {c}]
    /\ hand' = [hand EXCEPT ![w] = c]
    /\ Goto(w, "toglobal")
    /\ UNCHANGED <<lifeVars, inflight, global, pending, lockVars, coVars, why, dest,
                   todo, got, steals>>

LeavesQuietly == "exit"  \* mutant
AfterDrain == "broadcast"

DrainEnd(w) ==
    /\ pc[w] = "draining"
    /\ local[w] = {}
    /\ Move(w, AfterDrain)

Exit(w) ==
    /\ pc[w] = "exit"
    /\ life' = [life EXCEPT ![w] = "Exited"]
    /\ Goto(w, "exited")
    /\ UNCHANGED <<admission, retire, snapshot, queueVars, pending, lockVars, coVars,
                   why, hand, dest, todo, got, steals>>

-----------------------------------------------------------------------------
\* What an actor does inside a call it has begun.
CallStep(a) ==
    \/ EnqueueCheck(a) \/ EnqueueRegister(a) \/ EnqueueRecheck(a)
    \/ EnqueueInsert(a) \/ EnqueueRefused(a)
    \/ EnqueueGlobal(a) \/ Broadcast(a) \/ CommitShrink(a)
    \/ \E w \in Workers : Publish(a, w)

\* What a worker does by itself, except for what its coroutine chooses.
LoopStep(w) ==
    \/ WorkerMain(w) \/ Loop(w) \/ Ask(w) \/ PullEnd(w) \/ PickNone(w) \/ Idle(w) \/ Fair(w)
    \/ StealNothing(w) \/ TakeEnd(w) \/ WaitForWork(w) \/ Decide(w) \/ Wake(w)
    \/ WaitQuiescent(w) \/ DrainEnd(w) \/ Exit(w)
    \/ \E c \in Coroutines : PullOne(w, c) \/ Pick(w, c) \/ DrainOne(w, c)
    \/ \E v \in Workers : StealFrom(w, v) \/ \E c \in Coroutines : Take(w, v, c)

UserCall(a) ==
    \/ \E c \in Coroutines : Regist(a, c) \/ Activate(a, c)
    \/ \E c \in Coroutines, w \in Workers : RegistOn(a, c, w)
    \/ \E S \in SUBSET Workers : BeginRetire(a, S)
    \/ \E w \in Workers : Expand(a, w)

Next ==
    \/ \E a \in Actors : CallStep(a) \/ UserCall(a)
    \/ \E w \in Workers : LoopStep(w) \/ YieldReady(w) \/ YieldAway(w) \/ WakeByTimer(w)

Spec == Init /\ [][Next]_vars

\* Threads run, and one that waits for a mutex gets it if it is free again and
\* again; a coroutine that was resumed yields some time.  The timer of a
\* sleeping worker is NOT assumed to help.
ThreadsRun ==
    /\ \A a \in Actors : SF_vars(CallStep(a))
    /\ \A w \in Workers : /\ WF_vars(LoopStep(w))
                          /\ WF_vars(YieldReady(w) \/ YieldAway(w))

FairSpec == Spec /\ ThreadsRun

-----------------------------------------------------------------------------
(* Properties.                                                              *)

Within(S, c) == IF c \in S THEN 1 ELSE 0
Places(c) ==
    Cardinality({w \in Workers : c \in local[w]})
    + Cardinality({a \in Actors : hand[a] = c})
    + Cardinality({w \in Workers : running[w] = c})
    + Within(fresh, c) + Within(parked, c) + Within(done, c) + Within(rejected, c)
    + Within(global, c)

\* A coroutine is in exactly one place: never lost between two queues and never
\* in two of them, however stealing, retiring and enqueuing interleave.
Conserved == \A c \in Coroutines : Places(c) = 1

\* Nothing is left behind in, or still on its way into, the queue of a worker
\* whose thread has left _Run.
RetiredEmpty ==
    \A w \in Workers : life[w] = "Exited" =>
        /\ local[w] = {}
        /\ \A a \in Actors : ~(pc[a] = "insert" /\ dest[a] = w)

\* The load balancer is never refused: as long as it holds the map mutex no
\* worker of the snapshot closes its gate, so "coroutine task rejected" is
\* thrown only when there is no worker at all.
RegistAccepted ==
    \A a \in Actors : why[a] = "regist" => pc[a] # "refused"

Sleeping(w) == pc[w] = "asleep" /\ ~pending[w]

\* No wakeup is left to the timer: a worker does not sleep on a filled queue of
\* its own unless its notification is under way, and not all active workers
\* sleep while the global queue has work, unless somebody is about to notify (a
\* worker whose gate was closed does so before it exits).
NoSleepOnWork ==
    /\ \A w \in Workers :
        Sleeping(w) /\ local[w] # {} =>
            \E a \in Actors : pc[a] = "publish" /\ w \in todo[a]
    /\ global # {} /\ (\A w \in snapshot : Sleeping(w)) =>
        \/ \E a \in Actors : pc[a] \in {"broadcast", "publish"}
        \/ \E w \in Workers : ~admission[w] /\ life[w] \in {"Active", "Retiring"}

Runnable(c) ==
    \/ c \in global
    \/ \E w \in Workers : c \in local[w]
    \/ \E a \in Actors : hand[a] = c

\* Every coroutine handed to the scheduler runs (or its targeted registration is
\* rejected), without the help of the timer, also when its worker retires.  Which
\* of several coroutines comes first is CfsRunQueue's affair, so this is checked
\* for one at a time.  (Being run or rejected are the only ways not to be Runnable
\* any more: see Conserved.)
RunnableRuns == \A c \in Coroutines : []<>~Runnable(c)

\* Workers asked to retire drain and leave (each retires once, so that none is
\* left retiring in the end).
RetireExits == []<>(\A w \in Workers : life[w] # "Retiring")

\* No coroutine is lost or there twice (Processer::AddCoroutineTask, Steal, the
\* global queue, the drain): it is in one place, and none is with a worker that
\* has retired.
NothingLost == TypeOK /\ Conserved /\ RetiredEmpty
=============================================================================
