-------------------------- MODULE ProcesserScaling --------------------------
(***************************************************************************)
(* Scheduler: start, resizing, auto-scaling and the reaper of retired      *)
(* workers.  m_lifecycle_mutex is held from the entry of a request to its  *)
(* end, except while a batch whose threads failed to start is cancelled.   *)
(* What a retiring worker does with its coroutines is in Processer, driver *)
(* callbacks are in ProcesserDriver; here a driver is who pins a worker.   *)
(* A worker identity is used again once its thread has been joined and its *)
(* record erased.                                                          *)
(***************************************************************************)
EXTENDS Integers, FiniteSets

CONSTANTS Workers,      \* identities
          Callers,      \* threads that call SetProcesserNum and Start
          Loop,         \* the thread that runs _OnUpdate
          MinNum, MaxNum, InitialNum,
          Step,         \* m_scale_step
          Samples,      \* m_scale_up_samples, m_scale_down_samples
          kMaxOutstandingRetire,
          MaxThrows,    \* bound: joins that throw
          None

Actors == Callers \cup {Loop}

ASSUME ProcesserScalingAssumption ==
    /\ IsFiniteSet(Workers) /\ IsFiniteSet(Callers)
    /\ None \notin Workers \cup Actors /\ Loop \notin Callers
    /\ MinNum \in 1 .. InitialNum /\ InitialNum \in 1 .. MaxNum /\ MaxNum \in Nat
    /\ Cardinality(Workers) >= MaxNum + kMaxOutstandingRetire
                                + Cardinality(Callers) * (MaxNum - MinNum)
    /\ Step \in Nat \ {0} /\ Samples \in Nat \ {0} /\ kMaxOutstandingRetire \in Nat
    /\ MaxThrows \in Nat

VARIABLES
    started, initialized,  \* m_start_state = Starting, m_initialized
    life,      \* m_lifecycle of each worker; "none": no such worker
    active,    \* m_active_snapshot
    target, mode,          \* m_target_num, m_scaling_mode
    upHits, downHits,
    pinned,    \* workers whose driver slot is taken
    exited,    \* workers whose thread has ended (m_thread_exited is ready)
    claimed,   \* m_claimed
    lifecycle, \* holder of m_lifecycle_mutex, or None
    spc,       \* where an actor is
    batch, want,  \* the workers an actor prepares and the target it wants
    joining,   \* the worker an actor joins
    thrown,    \* joins that have thrown
    manual     \* history: the last target SetProcesserNum committed; 0: none

scalingVars == <<started, initialized, life, active, target, mode, upHits, downHits, pinned,
                 exited, claimed, lifecycle, spc, batch, want, joining, thrown, manual>>

ScalingTypeOK ==
    /\ life \in [Workers -> {"none", "Preparing", "Active", "Retiring", "Exited"}]
    /\ active \subseteq Workers /\ pinned \subseteq Workers
    /\ exited \subseteq Workers /\ claimed \subseteq Workers
    /\ target \in 0 .. MaxNum /\ mode \in {"Auto", "Manual"}
    /\ upHits \in 0 .. Samples /\ downHits \in 0 .. Samples
    /\ lifecycle \in Actors \cup {None}
    /\ batch \in [Actors -> SUBSET Workers]
    /\ joining \in [Actors -> Workers \cup {None}]

ScalingInit ==
    /\ started = FALSE /\ initialized = FALSE
    /\ life = [w \in Workers |-> "none"]
    /\ active = {} /\ target = 0 /\ mode = "Manual"
    /\ upHits = 0 /\ downHits = 0
    /\ pinned = {} /\ exited = {} /\ claimed = {}
    /\ lifecycle = None
    /\ spc = [a \in Actors |-> "out"]
    /\ batch = [a \in Actors |-> {}] /\ want = [a \in Actors |-> 0]
    /\ joining = [a \in Actors |-> None]
    /\ thrown = 0 /\ manual = 0

ActorTo(a, label) == spc' = [spc EXCEPT ![a] = label]
Becomes(ws, state) == life' = [w \in Workers |-> IF w \in ws THEN state ELSE life[w]]
Unused == {w \in Workers : life[w] = "none"}
Outstanding == {w \in Workers : life[w] \in {"Retiring", "Exited"}}
OneOf(S, n) == {T \in SUBSET S : Cardinality(T) = n}
Fresh(n) == CHOOSE T \in OneOf(Unused, n) : TRUE  \* new workers: any, they are alike

-----------------------------------------------------------------------------
(* What a target becomes: _ApplyTargetLocked.                               *)

\* The rest of a request that was granted, or refused, under the lock.  Only
\* SetProcesserNum changes the mode; the tick clears its counters.
TargetSet(a, n) ==
    /\ target' = n
    /\ upHits' = 0 /\ downHits' = 0
    /\ IF a = Loop THEN UNCHANGED <<mode, manual>> ELSE mode' = "Manual" /\ manual' = n
TargetKept(a, up) ==
    /\ upHits' = IF a = Loop /\ up THEN 0 ELSE upHits
    /\ downHits' = IF a = Loop /\ ~up THEN 0 ELSE downHits
    /\ UNCHANGED <<target, mode, manual>>

\* Expansion, first half: threads are created and wait at the gate.
Prepare(a, n) ==
    /\ lifecycle' = a
    /\ want' = [want EXCEPT ![a] = n]
    /\ LET ws == Fresh(n - Cardinality(active))
       IN  batch' = [batch EXCEPT ![a] = ws] /\ Becomes(ws, "Preparing")
    /\ ActorTo(a, "prepare")
    /\ UNCHANGED <<active, target, mode, upHits, downHits, manual>>

\* _CommitShrinkLocked: workers with a driver stay, the caller's own too.
RetireAny(a, n, self) == OneOf(active, Cardinality(active) - n)  \* mutant
RetireSets(a, n, self) == OneOf(active \ (pinned \cup {self}), Cardinality(active) - n)
Unbounded(n) == TRUE  \* mutant
RetireFits(n) ==
    Cardinality(Outstanding) + Cardinality(active) - n <= kMaxOutstandingRetire
Shrink(a, n, self) ==
    /\ IF RetireSets(a, n, self) # {} /\ RetireFits(n)
       THEN /\ \E ws \in RetireSets(a, n, self) :
                  Becomes(ws, "Retiring") /\ active' = active \ ws
            /\ TargetSet(a, n)
       ELSE TargetKept(a, FALSE) /\ UNCHANGED <<life, active>>
    /\ lifecycle' = None /\ ActorTo(a, "reap")
    /\ UNCHANGED <<batch, want>>

ApplyTarget(a, n, self) ==
    \/ n > Cardinality(active) /\ Prepare(a, n)
    \/ n < Cardinality(active) /\ Shrink(a, n, self)
    \/ /\ n = Cardinality(active) /\ TargetSet(a, n)
       /\ lifecycle' = None /\ ActorTo(a, "reap")
       /\ UNCHANGED <<life, active, batch, want>>

\* Expansion, second half: all threads are ready, the batch is published and
\* let through the gate.
Commit(a) ==
    /\ spc[a] \in {"prepare", "create"}
    /\ Becomes(batch[a], "Active") /\ active' = active \cup batch[a]
    /\ batch' = [batch EXCEPT ![a] = {}]
    /\ IF spc[a] = "prepare" THEN TargetSet(a, want[a])
       ELSE target' = want[a] /\ UNCHANGED <<mode, upHits, downHits, manual>>
    /\ initialized' = TRUE
    /\ lifecycle' = None
    /\ ActorTo(a, "reap")
    /\ UNCHANGED <<started, pinned, exited, claimed, want, joining, thrown>>

\* A thread cannot be created or fails before the gate: the lock is let go
\* while the batch is cancelled and joined, and taken again.
PrepareFails(a) ==
    /\ spc[a] \in {"prepare", "create"}
    /\ lifecycle' = None
    /\ ActorTo(a, IF spc[a] = "prepare" THEN "cancel" ELSE "cancelStart")
    /\ UNCHANGED <<started, initialized, life, active, target, mode, upHits, downHits, pinned,
                   exited, claimed, batch, want, joining, thrown, manual>>
CancelTarget(a) ==  \* mutant
    /\ spc[a] \in {"cancel", "cancelStart"} /\ lifecycle = None
    /\ Becomes(batch[a], "none")
    /\ batch' = [batch EXCEPT ![a] = {}]
    /\ target' = want[a]
    /\ started' = (started /\ spc[a] = "cancel")
    /\ ActorTo(a, IF spc[a] = "cancel" THEN "reap" ELSE "out")
    /\ UNCHANGED <<initialized, active, mode, upHits, downHits, manual, pinned, exited, claimed,
                   lifecycle, want, joining, thrown>>
CancelBatch(a) ==
    /\ spc[a] \in {"cancel", "cancelStart"} /\ lifecycle = None
    /\ Becomes(batch[a], "none")
    /\ batch' = [batch EXCEPT ![a] = {}]
    /\ TargetKept(a, TRUE)
    /\ started' = (started /\ spc[a] = "cancel")
    /\ ActorTo(a, IF spc[a] = "cancel" THEN "reap" ELSE "out")
    /\ UNCHANGED <<initialized, active, pinned, exited, claimed, lifecycle, want, joining, thrown>>

-----------------------------------------------------------------------------
(* Entry points.                                                            *)

\* Start: refused once started; _Init, then _CreateProcessers.
Start(a) ==
    /\ spc[a] = "out" /\ ~started /\ lifecycle = None
    /\ started' = TRUE
    /\ mode' \in {"Auto", "Manual"} /\ upHits' = 0 /\ downHits' = 0
    /\ target' = InitialNum
    /\ lifecycle' = a
    /\ want' = [want EXCEPT ![a] = InitialNum]
    /\ LET ws == Fresh(InitialNum)
       IN  batch' = [batch EXCEPT ![a] = ws] /\ Becomes(ws, "Preparing")
    /\ ActorTo(a, "create")
    /\ UNCHANGED <<initialized, active, pinned, exited, claimed, joining, thrown, manual>>

SetProcesserNum(a, n, self) ==
    /\ initialized /\ spc[a] = "out" /\ lifecycle = None
    /\ ApplyTarget(a, n, self)
    /\ UNCHANGED <<started, initialized, pinned, exited, claimed, joining, thrown>>

SetProcesserAutoScale(a, m) ==
    /\ initialized /\ spc[a] = "out" /\ lifecycle = None
    /\ mode' = m /\ upHits' = 0 /\ downHits' = 0
    /\ manual' = 0
    /\ UNCHANGED <<started, initialized, life, active, target, pinned, exited, claimed,
                   lifecycle, spc, batch, want, joining, thrown>>

\* RegisterProcesserDriver, under the same lock; the slot is emptied without it.
BindDriver(w) ==
    /\ initialized /\ lifecycle = None
    /\ w \in active /\ life[w] = "Active"
    /\ pinned' = pinned \cup {w}
    /\ UNCHANGED <<started, initialized, life, active, target, mode, upHits, downHits, exited,
                   claimed, lifecycle, spc, batch, want, joining, thrown, manual>>
UnbindDriver(w) ==
    /\ w \in pinned
    /\ pinned' = pinned \ {w}
    /\ UNCHANGED <<started, initialized, life, active, target, mode, upHits, downHits, exited,
                   claimed, lifecycle, spc, batch, want, joining, thrown, manual>>

-----------------------------------------------------------------------------
(* _AutoScaleTick.                                                          *)

\* The gate reads the mode without the lock; then _ReapRetiredWorkers.
TickGate ==
    /\ initialized /\ spc[Loop] = "out"
    /\ ActorTo(Loop, IF mode = "Auto" THEN "tick" ELSE "reap")
    /\ UNCHANGED <<started, initialized, life, active, target, mode, upHits, downHits, pinned,
                   exited, claimed, lifecycle, batch, want, joining, thrown, manual>>

Advanced(hits, hit) == IF ~hit THEN 0 ELSE IF hits < Samples THEN hits + 1 ELSE hits
Smallest(i, j) == IF i < j THEN i ELSE j
Largest(i, j) == IF i > j THEN i ELSE j

\* _ClaimAutoSampleLocked looks at the mode again (and at the interval); then
\* the load is sampled, any load, and counted.
AutoStays == TRUE  \* mutant
ClaimAutoSample == mode = "Auto"
TickSample ==
    /\ spc[Loop] = "tick" /\ lifecycle = None
    /\ \/ ActorTo(Loop, "reap") /\ UNCHANGED <<upHits, downHits, lifecycle>>
       \/ /\ ClaimAutoSample
          /\ \E up, down \in BOOLEAN :
                upHits' = Advanced(upHits, up) /\ downHits' = Advanced(downHits, down)
          /\ lifecycle' = Loop /\ ActorTo(Loop, "decide")
    /\ UNCHANGED <<started, initialized, life, active, target, mode, pinned, exited, claimed,
                   batch, want, joining, thrown, manual>>

\* _ApplyScalingDecisionLocked: a step up, else a step down, else nothing; at a
\* bound the signal is dropped.
StepsPast ==  \* mutant
    /\ upHits >= Samples
    /\ ApplyTarget(Loop, target + Step, None)
DecideUp ==
    /\ upHits >= Samples /\ target < MaxNum
    /\ ApplyTarget(Loop, Smallest(MaxNum, target + Step), None)
DecideDown ==
    /\ upHits < Samples /\ downHits >= Samples /\ target > MinNum
    /\ ApplyTarget(Loop, Largest(MinNum, target - Step), None)
DecideNothing ==
    /\ upHits >= Samples => target >= MaxNum
    /\ upHits < Samples /\ downHits >= Samples => target <= MinNum
    /\ upHits' = IF upHits >= Samples THEN 0 ELSE upHits
    /\ downHits' = IF upHits < Samples /\ downHits >= Samples THEN 0 ELSE downHits
    /\ lifecycle' = None /\ ActorTo(Loop, "reap")
    /\ UNCHANGED <<life, active, target, mode, batch, want, manual>>
TickDecide ==
    /\ spc[Loop] = "decide"
    /\ DecideUp \/ DecideDown \/ DecideNothing
    /\ UNCHANGED <<started, initialized, pinned, exited, claimed, joining, thrown>>

-----------------------------------------------------------------------------
(* Workers leave and are reaped.                                            *)

\* The end of _Run, and of the thread with its thread-local destructors.
WorkerExits(w) ==
    /\ life[w] = "Retiring"
    /\ Becomes({w}, "Exited")
    /\ UNCHANGED <<started, initialized, active, target, mode, upHits, downHits, pinned, exited,
                   claimed, lifecycle, spc, batch, want, joining, thrown, manual>>
ThreadEnds(w) ==
    /\ life[w] = "Exited" /\ w \notin exited
    /\ exited' = exited \cup {w}
    /\ UNCHANGED <<started, initialized, life, active, target, mode, upHits, downHits, pinned,
                   claimed, lifecycle, spc, batch, want, joining, thrown, manual>>

\* _ReapRetiredWorkers claims one record at a time under the map lock ...
ClaimAgain(a, w) ==  \* mutant
    /\ spc[a] = "reap" /\ life[w] = "Exited" /\ w \in exited
    /\ claimed' = claimed \cup {w}
    /\ joining' = [joining EXCEPT ![a] = w]
    /\ ActorTo(a, "join")
    /\ UNCHANGED <<started, initialized, life, active, target, mode, upHits, downHits, pinned,
                   exited, lifecycle, batch, want, thrown, manual>>
Claim(a, w) ==
    /\ spc[a] = "reap" /\ life[w] = "Exited" /\ w \in exited \ claimed
    /\ claimed' = claimed \cup {w}
    /\ joining' = [joining EXCEPT ![a] = w]
    /\ ActorTo(a, "join")
    /\ UNCHANGED <<started, initialized, life, active, target, mode, upHits, downHits, pinned,
                   exited, lifecycle, batch, want, thrown, manual>>

\* ... and joins it outside: the record is erased, or given up again when the
\* join throws.  After a limited number of turns the reaper stops.
Reap(a) ==
    /\ spc[a] = "join"
    /\ Becomes({joining[a]}, "none")
    /\ exited' = exited \ {joining[a]} /\ claimed' = claimed \ {joining[a]}
    /\ joining' = [joining EXCEPT ![a] = None]
    /\ ActorTo(a, "reap") \/ ActorTo(a, "out")
    /\ UNCHANGED <<started, initialized, active, target, mode, upHits, downHits, pinned,
                   lifecycle, batch, want, thrown, manual>>
KeepClaim(a) ==  \* mutant
    /\ spc[a] = "join" /\ thrown < MaxThrows
    /\ thrown' = thrown + 1
    /\ joining' = [joining EXCEPT ![a] = None]
    /\ ActorTo(a, "out")
    /\ UNCHANGED <<started, initialized, life, active, target, mode, upHits, downHits, pinned,
                   exited, claimed, lifecycle, batch, want, manual>>
JoinThrows(a) ==
    /\ spc[a] = "join" /\ thrown < MaxThrows
    /\ thrown' = thrown + 1
    /\ claimed' = claimed \ {joining[a]}
    /\ joining' = [joining EXCEPT ![a] = None]
    /\ ActorTo(a, "out")
    /\ UNCHANGED <<started, initialized, life, active, target, mode, upHits, downHits, pinned,
                   exited, lifecycle, batch, want, manual>>
ReapEnds(a) ==
    /\ spc[a] = "reap"
    /\ \A w \in exited \ claimed : life[w] # "Exited"
    /\ ActorTo(a, "out")
    /\ UNCHANGED <<started, initialized, life, active, target, mode, upHits, downHits, pinned,
                   exited, claimed, lifecycle, batch, want, joining, thrown, manual>>

-----------------------------------------------------------------------------
Proceeds(a) ==
    \/ Commit(a) \/ PrepareFails(a) \/ CancelBatch(a) \/ ReapEnds(a)
    \/ Reap(a) \/ JoinThrows(a) \/ \E w \in Workers : Claim(a, w)
LoopTurn == TickGate \/ TickSample \/ TickDecide \/ Proceeds(Loop)
WorkerLeaves(w) == WorkerExits(w) \/ ThreadEnds(w)

ScalingNext ==
    \/ LoopTurn
    \/ \E a \in Callers :
          \/ Proceeds(a) \/ Start(a)
          \/ \E n \in MinNum .. MaxNum, self \in active \cup {None} : SetProcesserNum(a, n, self)
          \/ \E m \in {"Auto", "Manual"} : SetProcesserAutoScale(a, m)
    \/ \E w \in Workers : BindDriver(w) \/ UnbindDriver(w) \/ WorkerLeaves(w)

ScalingSpec == ScalingInit /\ [][ScalingNext]_scalingVars

\* Threads run and the loop goes on for ever.
ScalingFairness ==
    /\ WF_scalingVars(LoopTurn)
    /\ \A a \in Callers : WF_scalingVars(Proceeds(a))
    /\ \A w \in Workers : WF_scalingVars(WorkerLeaves(w))

-----------------------------------------------------------------------------
(* Properties.                                                              *)

\* Whenever nobody holds the lifecycle lock the published target is the number
\* of active workers and lies between the bounds: a batch that failed, a refused
\* retirement, a request that came while a batch was cancelled leave no trace.
TargetIsActive ==
    initialized /\ lifecycle = None => target = Cardinality(active) /\ target \in MinNum .. MaxNum

\* A worker with a driver is never retired.
DriverPinned == pinned \subseteq active /\ \A w \in active : life[w] = "Active"

\* Threads waiting to be joined are limited, however requests follow each other.
RetireBounded == Cardinality(Outstanding) <= kMaxOutstandingRetire

\* What SetProcesserNum set stands until somebody asks for something else: a
\* tick that saw the mode before does not overwrite it.
ManualStands == manual # 0 => target = manual

\* Nobody joins a thread twice or one that has not ended, and no worker is lost:
\* each is active, waiting at one gate, or on its way to be joined.
EveryThreadAccounted ==
    /\ \A a, b \in Actors : joining[a] # None /\ a # b => joining[a] # joining[b]
    /\ \A a \in Actors : joining[a] # None => joining[a] \in exited
    /\ \A w \in Workers : life[w] = "Preparing" => \E a \in Actors : w \in batch[a]
    /\ \A w \in Workers : life[w] = "Active" => w \in active

\* Every retired worker is joined in the end.
RetiredJoined == []<>(Outstanding = {})

\* Resizing (Scheduler::SetProcesserNum, the automatic tick, the reaper): the
\* target is what is active, pinned workers stay, threads waiting to be joined
\* are bounded and each is accounted for, and a manual size stands.
ScalingSafe ==
    /\ ScalingTypeOK
    /\ TargetIsActive /\ DriverPinned /\ RetireBounded /\ ManualStands
    /\ EveryThreadAccounted
=============================================================================
