------------------------------ MODULE MCRuntime ------------------------------
(***************************************************************************)
(* Parts of the runtime whose calls must come back: the driver slot of a   *)
(* worker, resizing, CoMutex and CoWaiter.  One behaviour is one of them:  *)
(* the part is chosen in the initial state, the variables of the others    *)
(* stay as they are.                                                       *)
(***************************************************************************)
EXTENDS ProcesserDriver, ProcesserScaling, CoMutex, CoWaiter

CONSTANTS t1, t2, w1, w2, w3, w4, c1, c2, c3, e1, e2, p1

TimedCalls == {<<"combined", TRUE>>, <<"narrow", TRUE>>, <<"legacy", TRUE>>, <<"legacy", FALSE>>}

VARIABLE part
vars == <<part, driverVars, scalingVars, mutexVars, waiterVars>>

Init ==
    /\ part \in {"driver", "scaling", "mutex", "waiter"}
    /\ DriverInit /\ ScalingInit /\ MutexInit /\ WaiterInit

InDriver(A) == part = "driver" /\ A /\ UNCHANGED <<part, scalingVars, mutexVars, waiterVars>>
InScaling(A) == part = "scaling" /\ A /\ UNCHANGED <<part, driverVars, mutexVars, waiterVars>>
InMutex(A) == part = "mutex" /\ A /\ UNCHANGED <<part, driverVars, scalingVars, waiterVars>>
InWaiter(A) == part = "waiter" /\ A /\ UNCHANGED <<part, driverVars, scalingVars, mutexVars>>

Next == InDriver(DriverNext) \/ InScaling(ScalingNext) \/ InMutex(MutexNext)
        \/ InWaiter(WaiterNext)

\* The fairness of the parts.  A strong fairness condition of two parts is
\* written as one, for a behaviour is in one of them only.
Fairness ==
    /\ WF_vars(InDriver(WorkerMoves))
    /\ \A t \in Controls : WF_vars(InDriver(ControlMoves(t)))
    /\ WF_vars(InScaling(LoopTurn))
    /\ \A a \in Callers : WF_vars(InScaling(Proceeds(a)))
    /\ \A w \in Workers : WF_vars(InScaling(WorkerLeaves(w)))
    /\ \A c \in Lockers \ Waiters : SF_vars(InMutex(Continues(c)))
    /\ \A c \in Waiters :
        /\ SF_vars(InMutex(Continues(c)) \/ InWaiter(Unbind(c) \/ Unwind(c)))
        /\ WF_vars(InWaiter(Establish(c)))
        /\ WF_vars(InWaiter(Resume(c)))
        /\ WF_vars(InWaiter(Tick(c)))
        /\ WF_vars(InWaiter(TimerFires(c)))
        /\ WF_vars(InWaiter(RequestCancelTrigger(c)))
    /\ \A e \in Events : WF_vars(InWaiter(Complete(e)))

Spec == Init /\ [][Next]_vars /\ Fairness
=============================================================================
