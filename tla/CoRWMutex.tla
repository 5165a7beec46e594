------------------------------ MODULE CoRWMutex ------------------------------
(***************************************************************************)
(* sync/CoRWMutex: a readers-writer lock that prefers writers.             *)
(*                                                                         *)
(* m_mutex is held from the entry of an operation to its return or to the  *)
(* yield callback that runs once the coroutine is switched out, so each    *)
(* such section is one action.  What it does not cover is the time between *)
(* the decision of a wait (Notify, timer, RequestCancel) and the           *)
(* resumption of the coroutine that waited.                                *)
(*                                                                         *)
(* Every wait uses a fresh CoWaiter.  A queue entry is the waiting         *)
(* coroutine as long as its Notify can succeed; an entry whose wait timed  *)
(* out, was cancelled or was never established is Dead: Notify returns -1. *)
(***************************************************************************)
EXTENDS Integers, Sequences, FiniteSets

CONSTANTS Coroutines, Dead,
          Operations, \* the blocking operations in use
          MaxQueue    \* bound on the length of a wait queue

ASSUME CoRWMutexAssumption ==
    /\ Dead \notin Coroutines
    /\ IsFiniteSet(Coroutines)
    /\ Operations \subseteq {"RLock", "WLock", "TryRLock(ms)", "TryWLock(ms)"}
    /\ MaxQueue \in Nat

VARIABLES
    status, rhold,   \* m_status, m_rlock_hold_num
    waitNum,         \* m_wait_wlock_num; m_has_wait_wlock is waitNum > 0
    rq, wq,          \* m_wait_readlock_queue, m_wait_writelock_queue
    op,              \* operation a coroutine is suspended in, or what it holds
    wake,            \* what decided its wait: none yet, notify, timeout, cancel
    cancelReq,       \* Coroutine::m_cancel_requested
    timedWriter      \* history: some TryWLock(ms) has been suspended

vars == <<status, rhold, waitNum, rq, wq, op, wake, cancelReq, timedWriter>>

Reading == {"RLock", "TryRLock(ms)"}
Writing == {"WLock", "TryWLock(ms)"}
TimedOps == {"TryRLock(ms)", "TryWLock(ms)"}

LockTypes ==
    /\ status \in {"FREE", "RLOCKED", "WLOCKED"}
    /\ rhold \in Nat
    /\ waitNum \in Nat
    /\ op \in [Coroutines -> {"idle", "R", "W"} \cup Reading \cup Writing]

WaitTypes ==
    /\ rq \in Seq(Coroutines \cup {Dead})
    /\ wq \in Seq(Coroutines \cup {Dead})
    /\ wake \in [Coroutines -> {"none", "notify", "timeout", "cancel"}]
    /\ cancelReq \in [Coroutines -> BOOLEAN]

\* The type invariant; in particular neither count runs below zero.
TypeOK == LockTypes /\ WaitTypes /\ timedWriter \in BOOLEAN

Init ==
    /\ status = "FREE" /\ rhold = 0 /\ waitNum = 0
    /\ rq = <<>> /\ wq = <<>>
    /\ op = [c \in Coroutines |-> "idle"]
    /\ wake = [c \in Coroutines |-> "none"]
    /\ cancelReq = [c \in Coroutines |-> FALSE]
    /\ timedWriter = FALSE

-----------------------------------------------------------------------------
(* Queues of CoWaiters.                                                     *)

Live(q) == {i \in DOMAIN q : q[i] # Dead}

\* Pop until a Notify succeeds: the entries left, and who was woken.
FirstLive(q) == CHOOSE i \in Live(q) : \A j \in Live(q) : i <= j
PopOne(q) == IF Live(q) = {} THEN <<>> ELSE SubSeq(q, FirstLive(q) + 1, Len(q))
Woken(q) == IF Live(q) = {} THEN {} ELSE {q[FirstLive(q)]}
Notified(cs) == [c \in Coroutines |-> IF c \in cs THEN "notify" ELSE wake[c]]

\* _NotifyOne: writers first, a reader only if no writer could be woken.
PopWithoutRetry ==  \* mutant
    /\ wq' = IF wq = <<>> THEN wq ELSE Tail(wq)
    /\ rq' = IF wq = <<>> /\ rq # <<>> THEN Tail(rq) ELSE rq
    /\ wake' = Notified(IF wq # <<>> THEN {Head(wq)} \ {Dead}
                      ELSE IF rq # <<>> THEN {Head(rq)} \ {Dead} ELSE {})
NotifyOne ==
    /\ wq' = PopOne(wq)
    /\ rq' = IF Live(wq) = {} THEN PopOne(rq) ELSE rq
    /\ wake' = Notified(IF Live(wq) = {} THEN Woken(rq) ELSE Woken(wq))

\* _NotifyAll(true).
NotifyAllReaders ==
    /\ rq' = <<>>
    /\ wake' = Notified({rq[i] : i \in Live(rq)})
    /\ UNCHANGED wq

\* The CoWaiter of c can no longer be notified.
Bury(q, c) == [i \in DOMAIN q |-> IF q[i] = c THEN Dead ELSE q[i]]

-----------------------------------------------------------------------------
(* Sections under m_mutex.                                                  *)

IgnoresWriters == status = "WLOCKED"  \* mutant
ReadBlocked == status = "WLOCKED" \/ waitNum > 0
OnlyWriters == status = "WLOCKED"  \* mutant
WriteBlocked == status # "FREE"

\* Take the read lock; wake the other readers unless a writer waits.
AcquireRead(c) ==
    /\ status' = "RLOCKED"
    /\ rhold' = rhold + 1
    /\ op' = [op EXCEPT ![c] = "R"]
    /\ IF waitNum = 0 THEN NotifyAllReaders ELSE UNCHANGED <<rq, wq, wake>>
    /\ UNCHANGED cancelReq

AcquireWrite(c) ==
    /\ status' = "WLOCKED"
    /\ op' = [op EXCEPT ![c] = "W"]
    /\ UNCHANGED <<rhold, rq, wq, wake, cancelReq>>

\* Queue a fresh CoWaiter and suspend in operation o.  The wait of a coroutine
\* with a cancel pending is decided as soon as it is registered.
Suspend(c, o) ==
    LET entry == IF cancelReq[c] THEN Dead ELSE c
    IN  /\ op' = [op EXCEPT ![c] = o]
        /\ wake' = [wake EXCEPT ![c] = IF cancelReq[c] THEN "cancel" ELSE "none"]
        /\ \/ /\ o \in Reading /\ Len(rq) < MaxQueue
              /\ rq' = Append(rq, entry) /\ UNCHANGED wq
           \/ /\ o \in Writing /\ Len(wq) < MaxQueue
              /\ wq' = Append(wq, entry) /\ UNCHANGED rq
        /\ UNCHANGED <<status, rhold, cancelReq>>

\* The wait could not be established (or preparing it threw): the callback has
\* not run, the entry stays behind dead, the operation returns -1.
GiveUp(c, o) ==
    /\ op' = [op EXCEPT ![c] = "idle"]
    /\ \/ /\ o \in Reading /\ Len(rq) < MaxQueue
          /\ rq' = Append(rq, Dead) /\ UNCHANGED wq
       \/ /\ o \in Writing /\ Len(wq) < MaxQueue
          /\ wq' = Append(wq, Dead) /\ UNCHANGED rq
    /\ UNCHANGED <<status, rhold, wake, cancelReq>>

\* RLock and TryRLock(ms), from the call to the first suspension or return.
RLock(c, o) ==
    /\ op[c] = "idle" /\ o \in Reading
    /\ \/ ~ReadBlocked /\ AcquireRead(c)
       \/ ReadBlocked /\ (Suspend(c, o) \/ GiveUp(c, o))
    /\ UNCHANGED waitNum

\* WLock and TryWLock(ms); the yield callback counts the waiting writer.
WLock(c, o) ==
    /\ op[c] = "idle" /\ o \in Writing
    /\ \/ ~WriteBlocked /\ AcquireWrite(c) /\ UNCHANGED waitNum
       \/ WriteBlocked /\ Suspend(c, o) /\ waitNum' = waitNum + 1
       \/ WriteBlocked /\ GiveUp(c, o) /\ UNCHANGED waitNum

\* TryRLock() and TryWLock() that succeed; a failure changes nothing.
TryRLock(c) ==
    /\ op[c] = "idle"
    /\ ~ReadBlocked
    /\ AcquireRead(c)
    /\ UNCHANGED waitNum

TryWLock(c) ==
    /\ op[c] = "idle"
    /\ ~WriteBlocked
    /\ AcquireWrite(c)
    /\ UNCHANGED waitNum

\* A reader resumes.  RLock rechecks and may wait again; TryRLock(ms) returns
\* 1 unless it was notified, and -1 when it then finds the lock taken.
ResumeRLock(c) ==
    /\ op[c] = "RLock"
    /\ wake[c] # "none"
    /\ \/ ~ReadBlocked /\ AcquireRead(c)
       \/ ReadBlocked /\ (Suspend(c, "RLock") \/ GiveUp(c, "RLock"))
    /\ UNCHANGED waitNum

ResumeTryRLock(c) ==
    /\ op[c] = "TryRLock(ms)"
    /\ wake[c] # "none"
    /\ \/ wake[c] = "notify" /\ ~ReadBlocked /\ AcquireRead(c)
       \/ /\ wake[c] # "notify" \/ ReadBlocked
          /\ op' = [op EXCEPT ![c] = "idle"]
          /\ UNCHANGED <<status, rhold, rq, wq, wake, cancelReq>>
    /\ UNCHANGED waitNum

\* A writer resumes: its turn as a waiting writer is over, whatever woke it.
KeepsCount == waitNum  \* mutant
SettledCount == waitNum - 1

ResumeWLock(c) ==
    /\ op[c] = "WLock"
    /\ wake[c] # "none"
    /\ \/ ~WriteBlocked /\ AcquireWrite(c) /\ waitNum' = SettledCount
       \/ WriteBlocked /\ Suspend(c, "WLock") /\ waitNum' = SettledCount + 1
       \/ WriteBlocked /\ GiveUp(c, "WLock") /\ waitNum' = SettledCount

ResumeTryWLock(c) ==
    /\ op[c] = "TryWLock(ms)"
    /\ wake[c] # "none"
    /\ waitNum' = SettledCount
    /\ \/ wake[c] = "notify" /\ ~WriteBlocked /\ AcquireWrite(c)
       \/ /\ wake[c] # "notify" \/ WriteBlocked
          /\ op' = [op EXCEPT ![c] = "idle"]
          /\ UNCHANGED <<status, rhold, rq, wq, wake, cancelReq>>

\* RUnLock: the last reader wakes one waiter.
RUnLock(c) ==
    /\ op[c] = "R"
    /\ op' = [op EXCEPT ![c] = "idle"]
    /\ rhold' = rhold - 1
    /\ status' = IF rhold = 1 THEN "FREE" ELSE "RLOCKED"
    /\ IF rhold = 1 THEN NotifyOne ELSE UNCHANGED <<rq, wq, wake>>
    /\ UNCHANGED <<waitNum, cancelReq>>

\* WUnLock: one writer if the writers' queue is not empty, else all readers.
WUnLock(c) ==
    /\ op[c] = "W"
    /\ op' = [op EXCEPT ![c] = "idle"]
    /\ status' = "FREE"
    /\ IF wq # <<>> THEN NotifyOne ELSE NotifyAllReaders
    /\ UNCHANGED <<rhold, waitNum, cancelReq>>

-----------------------------------------------------------------------------
(* Decisions taken outside m_mutex.                                         *)

\* The timer of a timed operation.
Timeout(c) ==
    /\ op[c] \in TimedOps
    /\ wake[c] = "none"
    /\ wake' = [wake EXCEPT ![c] = "timeout"]
    /\ rq' = Bury(rq, c) /\ wq' = Bury(wq, c)
    /\ UNCHANGED <<status, rhold, waitNum, op, cancelReq>>

\* Coroutine::RequestCancel ends the present wait and every later one.
RequestCancelOf(c) ==
    /\ ~cancelReq[c]
    /\ cancelReq' = [cancelReq EXCEPT ![c] = TRUE]
    /\ IF op[c] \in Reading \cup Writing /\ wake[c] = "none"
       THEN /\ wake' = [wake EXCEPT ![c] = "cancel"]
            /\ rq' = Bury(rq, c) /\ wq' = Bury(wq, c)
       ELSE UNCHANGED <<wake, rq, wq>>
    /\ UNCHANGED <<status, rhold, waitNum, op>>

ResumeLock(c) ==
    ResumeRLock(c) \/ ResumeTryRLock(c) \/ ResumeWLock(c) \/ ResumeTryWLock(c)

Next ==
    /\ \E c \in Coroutines :
        \/ \E o \in Operations : RLock(c, o) \/ WLock(c, o)
        \/ TryRLock(c) \/ TryWLock(c)
        \/ ResumeLock(c)
        \/ RUnLock(c) \/ WUnLock(c)
        \/ Timeout(c) \/ RequestCancelOf(c)
    /\ timedWriter' = IF \E c \in Coroutines : op'[c] = "TryWLock(ms)" THEN TRUE ELSE timedWriter

Spec == Init /\ [][Next]_vars

-----------------------------------------------------------------------------
(* Properties.                                                              *)

Holders(h) == {c \in Coroutines : op[c] = h}

\* A writer excludes everybody, and m_status and m_rlock_hold_num agree with
\* who holds the lock.
Exclusion ==
    /\ status = "WLOCKED" <=> Holders("W") # {}
    /\ status = "RLOCKED" <=> Holders("R") # {}
    /\ Cardinality(Holders("W")) <= 1
    /\ rhold = Cardinality(Holders("R"))

\* m_wait_wlock_num counts the writers whose wait is not settled; so the flag
\* neither hides a queued writer nor outlives the last one.
WriterCount == waitNum = Cardinality({c \in Coroutines : op[c] \in Writing})

\* No lost wakeup: when the lock is free and nobody is on the way to it, no
\* coroutine is suspended on it.
NoStranded ==
    status = "FREE" /\ (\A c \in Coroutines : op[c] \in Reading \cup Writing =>
                            wake[c] = "none")
        => \A c \in Coroutines : op[c] \notin Reading \cup Writing

\* For writers this holds whatever operations are in use: a lock that is left free
\* has woken a writer if one could be woken.
WriterNotStranded ==
    status = "FREE" /\ (\A c \in Coroutines : op[c] \in Reading \cup Writing =>
                            wake[c] = "none")
        => \A c \in Coroutines : op[c] \notin Writing

\* No coroutine waits for the lock that nobody will pass on to it (_NotifyOne,
\* _NotifyAll): no writer, and no reader as long as no writer has waited with a
\* timeout.
UntimedNotStranded == WaitTypes /\ WriterNotStranded /\ (~timedWriter => NoStranded)

\* A reader never gets in while a writer's wait is undecided.
WriterPreference ==
    [][\A c \in Coroutines : op'[c] = "R" /\ op[c] # "R" =>
        \A w \in Coroutines : ~(op[w] \in Writing /\ wake[w] = "none")]_vars

\* The state of a CoRWMutex agrees with who holds it and who asked for it: one
\* writer or any number of readers, m_wait_wlock_num the writers that wait, and no
\* count below zero.
LockConsistent == LockTypes /\ Exclusion /\ WriterCount
=============================================================================
