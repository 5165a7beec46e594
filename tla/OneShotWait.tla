----------------------------- MODULE OneShotWait -----------------------------
(***************************************************************************)
(* What a wait promises, whatever races with it: it is decided at most     *)
(* once, by the first cause that is accepted; the waiter becomes ready     *)
(* once, with exactly that cause, and only then runs again.                *)
(***************************************************************************)
CONSTANTS Waiters, Causes, NoCause

VARIABLES st,      \* running, waiting, ready or ended
          cause,   \* what decided the wait in progress
          outcome  \* what the last completed wait delivered

absVars == <<st, cause, outcome>>

Init ==
    /\ st = [w \in Waiters |-> "running"]
    /\ cause = [w \in Waiters |-> NoCause]
    /\ outcome = [w \in Waiters |-> NoCause]

Begin(w) ==
    /\ st[w] = "running"
    /\ st' = [st EXCEPT ![w] = "waiting"]
    /\ UNCHANGED <<cause, outcome>>

Decide(w) ==
    /\ st[w] = "waiting"
    /\ cause[w] = NoCause
    /\ \E f \in Causes : cause' = [cause EXCEPT ![w] = f]
    /\ UNCHANGED <<st, outcome>>

Wake(w) ==
    /\ st[w] = "waiting"
    /\ cause[w] # NoCause
    /\ st' = [st EXCEPT ![w] = "ready"]
    /\ outcome' = [outcome EXCEPT ![w] = cause[w]]
    /\ UNCHANGED cause

Resume(w) ==
    /\ st[w] = "ready"
    /\ st' = [st EXCEPT ![w] = "running"]
    /\ cause' = [cause EXCEPT ![w] = NoCause]
    /\ UNCHANGED outcome

\* The wait could not be established; the last outcome is left alone.
Fail(w) ==
    /\ st[w] = "waiting"
    /\ st' = [st EXCEPT ![w] = "running"]
    /\ cause' = [cause EXCEPT ![w] = NoCause]
    /\ UNCHANGED outcome

End(w) ==
    /\ st[w] = "waiting"
    /\ st' = [st EXCEPT ![w] = "ended"]
    /\ cause' = [cause EXCEPT ![w] = NoCause]
    /\ UNCHANGED outcome

Next == \E w \in Waiters :
    Begin(w) \/ Decide(w) \/ Wake(w) \/ Resume(w) \/ Fail(w) \/ End(w)

\* A decided wait ends, a ready waiter runs.
Settle(w) == cause[w] # NoCause /\ (Wake(w) \/ Fail(w))

Spec == Init /\ [][Next]_absVars

FairSpec ==
    /\ Spec
    /\ \A w \in Waiters : WF_absVars(Settle(w)) /\ WF_absVars(Resume(w))
=============================================================================
