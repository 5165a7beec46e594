------------------------------- MODULE CoMutex -------------------------------
(***************************************************************************)
(* sync/CoMutex: a coroutine lock with barging.                            *)
(*                                                                         *)
(* m_mutex is held from the entry of an operation to its return or to the  *)
(* yield callback that runs once the coroutine is switched out: one action.*)
(* A queue entry is a coroutine while its event can still be triggered,    *)
(* and Dead once the wait has ended otherwise, was never registered, or is *)
(* the tombstone of a wait whose preparation threw.                        *)
(*                                                                         *)
(* All coroutines share one worker thread.  A section ends with a switch   *)
(* or a return to user code that may suspend, except where Lock goes round *)
(* its loop after a failed registration: there it keeps the worker.        *)
(***************************************************************************)
EXTENDS Integers, Sequences, FiniteSets

CONSTANTS Lockers,     \* the coroutines
          Dead,
          Cancellable, \* those RequestCancel may be called on
          MaxLockQueue \* bound on m_wait_event_queue

ASSUME CoMutexAssumption ==
    /\ Dead \notin Lockers /\ IsFiniteSet(Lockers) /\ Cancellable \subseteq Lockers
    /\ MaxLockQueue \in Nat

VARIABLES
    lockedCo,   \* m_locked_co; Dead is nullptr and COMUTEX_FREE
    lockQueue,  \* m_wait_event_queue
    lockPc,     \* where a coroutine is: idle, held, suspended in Lock or
                \* TryLock(ms), spinning ("retry"), runnable again ("ready")
    lockWake,   \* what decided its wait
    lockCancel, \* Coroutine::m_cancel_requested
    worker      \* who keeps the worker thread between two sections, or Dead

mutexVars == <<lockedCo, lockQueue, lockPc, lockWake, lockCancel, worker>>

MutexTypeOK ==
    /\ lockedCo \in Lockers \cup {Dead}
    /\ lockQueue \in Seq(Lockers \cup {Dead})
    /\ lockPc \in [Lockers -> {"idle", "held", "Lock", "TryLock(ms)", "retry", "ready"}]
    /\ lockWake \in [Lockers -> {"none", "notify", "timeout", "cancel"}]
    /\ lockCancel \in [Lockers -> BOOLEAN]
    /\ worker \in Lockers \cup {Dead}

MutexInit ==
    /\ lockedCo = Dead /\ lockQueue = <<>> /\ worker = Dead
    /\ lockPc = [c \in Lockers |-> "idle"]
    /\ lockWake = [c \in Lockers |-> "none"]
    /\ lockCancel = [c \in Lockers |-> FALSE]

Free == lockedCo = Dead
At(c, label) == lockPc' = [lockPc EXCEPT ![c] = label]
OnWorker(c) == worker \in {Dead, c}

-----------------------------------------------------------------------------
\* _OnLocked.
OnLocked(c) ==
    /\ lockedCo' = c
    /\ At(c, "held")
    /\ worker' = Dead
    /\ UNCHANGED <<lockQueue, lockWake, lockCancel>>

\* _WaitUnLock and _WaitUnLockUnitlTimeout that suspend.  The wait of a
\* coroutine with a cancel pending is decided when it is registered.
WaitUnLock(c, o) ==
    /\ Len(lockQueue) < MaxLockQueue
    /\ lockQueue' = Append(lockQueue, IF lockCancel[c] THEN Dead ELSE c)
    /\ lockWake' = [lockWake EXCEPT ![c] = IF lockCancel[c] THEN "cancel" ELSE "none"]
    /\ At(c, o)
    /\ worker' = Dead
    /\ UNCHANGED <<lockedCo, lockCancel>>

\* The same when no event can be made, when its registration fails, or when
\* the preparation throws: in the last two cases an entry stays behind.
WaitFails(c) ==
    /\ \/ UNCHANGED lockQueue
       \/ Len(lockQueue) < MaxLockQueue /\ lockQueue' = Append(lockQueue, Dead)
    /\ UNCHANGED <<lockedCo, lockWake, lockCancel>>

\* Lock, from the call, from a decided wait or from a retry to the next
\* suspension.  A failed registration goes to the retry; an exception leaves.
Lock(c) ==
    /\ OnWorker(c)
    /\ \/ lockPc[c] \in {"idle", "ready"}
       \/ lockPc[c] = "Lock" /\ lockWake[c] # "none"
    /\ \/ Free /\ OnLocked(c)
       \/ ~Free /\ WaitUnLock(c, "Lock")
       \/ ~Free /\ WaitFails(c) /\ At(c, "retry") /\ worker' = c
       \/ ~Free /\ WaitFails(c) /\ At(c, "idle") /\ worker' = Dead

\* YieldAndPushGCoQueue of the retry.
RetryWithoutYield(c) ==  \* mutant
    /\ lockPc[c] = "retry"
    /\ At(c, "ready")
    /\ UNCHANGED <<lockedCo, lockQueue, lockWake, lockCancel, worker>>
Retry(c) ==
    /\ lockPc[c] = "retry"
    /\ At(c, "ready")
    /\ worker' = Dead
    /\ UNCHANGED <<lockedCo, lockQueue, lockWake, lockCancel>>

\* TryLock() that succeeds; a failure changes nothing.
TryLock(c) ==
    /\ OnWorker(c) /\ lockPc[c] = "idle"
    /\ Free /\ OnLocked(c)

\* TryLock(ms) up to its suspension; a negative ms returns -1 at once.
TryLockMs(c) ==
    /\ OnWorker(c) /\ lockPc[c] = "idle"
    /\ \/ Free /\ OnLocked(c)
       \/ ~Free /\ WaitUnLock(c, "TryLock(ms)")
       \/ ~Free /\ WaitFails(c) /\ UNCHANGED <<lockPc, worker>>

\* TryLock(ms) goes on: 1 after a timeout or a cancel, -1 if it was notified and
\* somebody else was faster.
TakesStolen(c) ==  \* mutant
    /\ OnWorker(c) /\ lockPc[c] = "TryLock(ms)" /\ lockWake[c] # "none"
    /\ \/ lockWake[c] = "notify" /\ OnLocked(c)
       \/ /\ lockWake[c] # "notify"
          /\ At(c, "idle")
          /\ UNCHANGED <<lockedCo, lockQueue, lockWake, lockCancel, worker>>
ResumeTryLockMs(c) ==
    /\ OnWorker(c) /\ lockPc[c] = "TryLock(ms)" /\ lockWake[c] # "none"
    /\ \/ lockWake[c] = "notify" /\ Free /\ OnLocked(c)
       \/ /\ lockWake[c] # "notify" \/ ~Free
          /\ At(c, "idle")
          /\ UNCHANGED <<lockedCo, lockQueue, lockWake, lockCancel, worker>>

\* _NotifyOne: pops entries until a Trigger succeeds.
LiveEntries(q) == {i \in DOMAIN q : q[i] # Dead}
FirstEntry(q) == CHOOSE i \in LiveEntries(q) : \A j \in LiveEntries(q) : i <= j
NotifyHeadOnly ==  \* mutant
    /\ lockQueue' = IF lockQueue = <<>> THEN <<>> ELSE Tail(lockQueue)
    /\ lockWake' = IF lockQueue # <<>> /\ Head(lockQueue) # Dead
                   THEN [lockWake EXCEPT ![Head(lockQueue)] = "notify"] ELSE lockWake
MutexNotifyOne ==
    IF LiveEntries(lockQueue) = {}
    THEN lockQueue' = <<>> /\ UNCHANGED lockWake
    ELSE /\ lockQueue' = SubSeq(lockQueue, FirstEntry(lockQueue) + 1, Len(lockQueue))
         /\ lockWake' = [lockWake EXCEPT ![lockQueue[FirstEntry(lockQueue)]] = "notify"]

\* UnLock.
UnLock(c) ==
    /\ OnWorker(c) /\ lockPc[c] = "held"
    /\ lockedCo' = Dead
    /\ MutexNotifyOne
    /\ At(c, "idle")
    /\ UNCHANGED <<lockCancel, worker>>

-----------------------------------------------------------------------------
\* The timer of TryLock(ms), and RequestCancel, decide a wait from outside.
EndWait(c, by) ==
    /\ lockPc[c] \in {"Lock", "TryLock(ms)"} /\ lockWake[c] = "none"
    /\ lockWake' = [lockWake EXCEPT ![c] = by]
    /\ lockQueue' = [i \in DOMAIN lockQueue |-> IF lockQueue[i] = c THEN Dead ELSE lockQueue[i]]

LockTimeout(c) ==
    /\ lockPc[c] = "TryLock(ms)"
    /\ EndWait(c, "timeout")
    /\ UNCHANGED <<lockedCo, lockPc, lockCancel, worker>>

CancelLocker(c) ==
    /\ c \in Cancellable /\ ~lockCancel[c]
    /\ lockCancel' = [lockCancel EXCEPT ![c] = TRUE]
    /\ EndWait(c, "cancel") \/ (lockPc[c] \notin {"Lock", "TryLock(ms)"}
                                  /\ UNCHANGED <<lockWake, lockQueue>>)
    /\ UNCHANGED <<lockedCo, lockPc, worker>>

\* Steps of a call that has begun.
Continues(c) ==
    \/ lockPc[c] # "idle" /\ Lock(c)
    \/ Retry(c) \/ ResumeTryLockMs(c) \/ UnLock(c)

MutexNext ==
    \E c \in Lockers :
        \/ Lock(c) \/ TryLock(c) \/ TryLockMs(c) \/ Retry(c) \/ ResumeTryLockMs(c)
        \/ UnLock(c) \/ LockTimeout(c) \/ CancelLocker(c)

MutexSpec == MutexInit /\ [][MutexNext]_mutexVars

\* A coroutine that is runnable again and again is run by the worker (its run
\* queue is ordered by virtual run time).
MutexFairness == \A c \in Lockers : SF_mutexVars(Continues(c))

-----------------------------------------------------------------------------
(* Properties.                                                              *)

\* Whoever returned from Lock, TryLock or TryLock(ms) with the lock is the one
\* m_locked_co names: a notified waiter that was overtaken does not get in.
MutexExclusion == {c \in Lockers : lockPc[c] = "held"} = {lockedCo} \ {Dead}

\* No lost wakeup: while the lock is free and somebody waits for it, somebody
\* else is on the way to it (woken, or runnable after a failed registration).
MutexNotStranded ==
    Free /\ LiveEntries(lockQueue) # {}
        => \E c \in Lockers :
              \/ lockPc[c] \in {"retry", "ready"}
              \/ lockPc[c] \in {"Lock", "TryLock(ms)"} /\ lockWake[c] = "notify"

\* With a single worker, and with every registration failing, the holder still
\* gets to its UnLock, and a free lock that a Lock waits for is taken.
MutexProgress ==
    /\ []<>Free
    /\ []<>(Free => \A c \in Lockers : lockPc[c] \notin {"Lock", "retry", "ready"})

\* A CoMutex (CoMutex::Lock, TryLock, UnLock) has one holder, and while it is free
\* nobody who could take it is left suspended.
MutexSafe == MutexTypeOK /\ MutexExclusion /\ MutexNotStranded
=============================================================================
