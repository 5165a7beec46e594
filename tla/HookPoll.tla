------------------------------ MODULE HookPoll ------------------------------
(***************************************************************************)
(* detail/Hook: poll, select and pselect in a coroutine (PollCore,         *)
(* SelectCore).  The descriptors are looked at once; if none is ready an   *)
(* epoll descriptor gathers those somebody is interested in, the coroutine *)
(* waits for it to become readable, and the descriptors are looked at      *)
(* again.  select puts its sets into that form and back.                   *)
(* Every descriptor appears once in a call.                                *)
(***************************************************************************)
EXTENDS Integers, FiniteSets

CONSTANTS PollFds, Unwatchable  \* descriptors; those epoll_ctl refuses

ASSUME HookPollAssumption == IsFiniteSet(PollFds) /\ Unwatchable \subseteq PollFds

VARIABLES
    events,     \* kernel: what holds of each descriptor
    interest,   \* pollfd.events, or the sets of select
    pollArgs,   \* <<"poll" or "select", timeout: zero, some, none>>
    pollPc,     \* out, begin, watch, wait, woken, returned
    watched,    \* what the epoll descriptor gathers
    timedOut, pollCancelled,
    pollResult, \* number reported, or -1
    taken       \* history: something that was asked for has been withdrawn

pollVars == <<events, interest, pollArgs, pollPc, watched, timedOut, pollCancelled,
              pollResult, taken>>

PollTypeOK ==
    /\ events \in [PollFds -> SUBSET {"IN", "OUT", "HUP"}]
    /\ interest \in [PollFds -> SUBSET {"IN", "OUT"}]
    /\ pollPc \in {"begin", "watch", "wait", "woken", "returned"}
    /\ watched \subseteq PollFds \X {"IN", "OUT", "HUP"}

PollInit ==
    /\ events = [f \in PollFds |-> {}]
    /\ interest \in [PollFds -> SUBSET {"IN", "OUT"}]
    /\ pollArgs \in {"poll", "select"} \X {"zero", "some", "none"}
    /\ pollPc = "begin"
    /\ watched = {} /\ timedOut = FALSE /\ pollCancelled = FALSE
    /\ pollResult = 0 /\ taken = FALSE

\* The pollfd array: select leaves out what is in none of its sets.
Entries == {f \in PollFds : pollArgs[1] = "poll" \/ interest[f] # {}}
\* poll(fds, nfds, 0): revents.
Revents(f) == events[f] \cap (interest[f] \cup {"HUP"})
Ready == {f \in Entries : Revents(f) # {}}

\* What the call reports: poll counts descriptors, select the bits of its sets
\* after the write-back (a hang-up is in both; every set is given).
Reported ==
    IF pollArgs[1] = "poll" THEN Cardinality(Ready)
    ELSE Cardinality({f \in Entries : Revents(f) \cap {"IN", "HUP"} # {}})
         + Cardinality({f \in Entries : Revents(f) \cap {"OUT", "HUP"} # {}})

PollReturn(n) == pollResult' = n /\ pollPc' = "returned" /\ watched' = {}

-----------------------------------------------------------------------------
\* The first look.  Without descriptors the call is a plain sleep.
FirstLook ==
    /\ pollPc = "begin"
    /\ \/ Ready # {} \/ pollArgs[2] = "zero"
       \/ Entries = {} /\ (pollArgs[2] = "none" \/ pollCancelled)
    /\ PollReturn(IF Ready = {} /\ pollArgs[2] = "some"
              THEN -1 ELSE Reported)
    /\ UNCHANGED <<events, interest, pollArgs, timedOut, pollCancelled, taken>>
BeginSleep ==
    /\ pollPc = "begin" /\ Entries = {} /\ pollArgs[2] = "some" /\ ~pollCancelled
    /\ pollPc' = "wait"
    /\ UNCHANGED <<events, interest, pollArgs, watched, timedOut, pollCancelled,
                   pollResult, taken>>
BeginWatch ==
    /\ pollPc = "begin" /\ Entries # {} /\ Ready = {} /\ pollArgs[2] # "zero"
    /\ pollPc' = "watch"
    /\ UNCHANGED <<events, interest, pollArgs, watched, timedOut, pollCancelled,
                   pollResult, taken>>

\* epoll_ctl for each entry with an interest; epoll always reports a hang-up.
OnlyReads ==  \* mutant
    {w \in (Entries \ Unwatchable) \X {"IN", "HUP"} : interest[w[1]] # {}}
StopsAtRefused ==  \* mutant
    IF \E f \in Unwatchable : interest[f] # {} THEN {}
    ELSE {w \in Entries \X {"IN", "OUT", "HUP"} :
              interest[w[1]] # {} /\ w[2] \in interest[w[1]] \cup {"HUP"}}
Gathered ==
    {w \in (Entries \ Unwatchable) \X {"IN", "OUT", "HUP"} :
        interest[w[1]] # {} /\ w[2] \in interest[w[1]] \cup {"HUP"}}
\* The wait, unless nothing can be watched, or it cannot begin.
Watch ==
    /\ pollPc = "watch"
    /\ \/ Gathered # {} /\ ~pollCancelled /\ pollPc' = "wait" /\ watched' = Gathered
          /\ UNCHANGED pollResult
       \/ Gathered # {} /\ PollReturn(-1)
       \/ Gathered = {} /\ pollPc' = "woken" /\ UNCHANGED <<watched, pollResult>>
    /\ UNCHANGED <<events, interest, pollArgs, timedOut, pollCancelled, taken>>

\* Level-triggered: the epoll descriptor is readable while anything gathered holds.
EpReadable == \E w \in watched : w[2] \in events[w[1]]
Wake ==
    /\ pollPc = "wait"
    /\ EpReadable \/ timedOut \/ pollCancelled
    /\ pollPc' = "woken"
    /\ UNCHANGED <<events, interest, pollArgs, watched, timedOut, pollCancelled,
                   pollResult, taken>>
SecondLook ==
    /\ pollPc = "woken"
    /\ PollReturn(Reported)
    /\ UNCHANGED <<events, interest, pollArgs, timedOut, pollCancelled, taken>>

-----------------------------------------------------------------------------
(* The world outside of the call.                                           *)

Happen(f, e) ==
    /\ e \notin events[f] /\ pollPc # "returned"
    /\ events' = [events EXCEPT ![f] = @ \cup {e}]
    /\ UNCHANGED <<interest, pollArgs, pollPc, watched, timedOut, pollCancelled, pollResult,
                   taken>>
\* Another reader or writer takes it.
Withdraw(f, e) ==
    /\ e \in events[f] \ {"HUP"} /\ pollPc # "returned"
    /\ events' = [events EXCEPT ![f] = @ \ {e}]
    /\ taken' = (taken \/ e \in interest[f])
    /\ UNCHANGED <<interest, pollArgs, pollPc, watched, timedOut, pollCancelled, pollResult>>
PollTimer ==
    /\ pollPc = "wait" /\ pollArgs[2] = "some" /\ ~timedOut
    /\ timedOut' = TRUE
    /\ UNCHANGED <<events, interest, pollArgs, pollPc, watched, pollCancelled, pollResult,
                   taken>>
PollCancel ==
    /\ ~pollCancelled /\ pollPc # "returned"
    /\ pollCancelled' = TRUE
    /\ UNCHANGED <<events, interest, pollArgs, pollPc, watched, timedOut, pollResult, taken>>

PollNext ==
    \/ FirstLook \/ BeginSleep \/ BeginWatch \/ Watch \/ Wake \/ SecondLook
    \/ \E f \in PollFds, e \in {"IN", "OUT", "HUP"} : Happen(f, e) \/ Withdraw(f, e)
    \/ PollTimer \/ PollCancel

PollSpec == PollInit /\ [][PollNext]_pollVars

-----------------------------------------------------------------------------
(* Properties.                                                              *)

\* While the coroutine sleeps, whatever the call would report makes the epoll
\* descriptor readable.  (A hang-up of a descriptor nobody is interested in, and
\* what epoll refuses, are not gathered.)
PollAwake ==
    pollPc = "wait" => \A f \in Entries \ Unwatchable :
        interest[f] # {} /\ Revents(f) # {} => EpReadable

NothingToWaitFor == \A f \in Entries : interest[f] = {} \/ f \in Unwatchable

\* The call returns 0 before its time only when there is nothing it can wait
\* for, it was cancelled, or what woke it was taken away again: nothing that
\* becomes ready between the first look, the gathering and the second look is
\* lost, and one descriptor that cannot be watched does not end the wait for
\* the others.
PollNotEarly ==
    pollPc = "returned" /\ pollResult = 0 =>
        \/ pollArgs[2] = "zero" \/ timedOut \/ pollCancelled
        \/ NothingToWaitFor \/ taken

\* A poll (Hook_Poll, Hook_Select) misses nothing: while it sleeps whatever it
\* would report wakes it, and it does not return empty-handed before its time.
PollReports == PollTypeOK /\ PollAwake /\ PollNotEarly
=============================================================================
