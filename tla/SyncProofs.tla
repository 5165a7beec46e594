------------------------------ MODULE SyncProofs ------------------------------
(***************************************************************************)
(* CoMutex, CoCond, the lock guards, CoPool and the object registry, for   *)
(* any number of coroutines, guards, locks, callers and objects and any    *)
(* length of the queues.                                                   *)
(***************************************************************************)
EXTENDS CoMutex, CoCond, CoLockGuard, CoPool, ObjectRegistry, FiniteSetTheorems,
        SequenceTheorems, WellFoundedInduction, TLAPS

-----------------------------------------------------------------------------
(* Queues of entries.                                                       *)

\* A nonempty set of positions of a queue has a least one.
LEMMA LeastPosition ==
    ASSUME NEW T \in SUBSET Nat, T # {}
    PROVE  \E x \in T : \A y \in T : x <= y
<1>1. \E x \in T : \A y \in T : <<y, x>> \notin OpToRel(<, Nat)
  BY NatLessThanWellFounded, WFMin
<1>2. \A x, y \in Nat : <<y, x>> \notin OpToRel(<, Nat) => x <= y
  BY DEF OpToRel
<1> QED  BY <1>1, <1>2

\* What remains of a queue after its first f entries.
LEMMA QueueRest ==
    ASSUME NEW S, NEW q \in Seq(S), NEW f \in 1..Len(q)
    PROVE  /\ SubSeq(q, f + 1, Len(q)) \in Seq(S)
           /\ Len(SubSeq(q, f + 1, Len(q))) = Len(q) - f
           /\ \A i \in 1 .. Len(q) - f : SubSeq(q, f + 1, Len(q))[i] = q[f + i]
<1> DEFINE m == f + 1
<1>1. m \in Int /\ Len(q) \in Int /\ \A i \in m..Len(q) : q[i] \in S
  OBVIOUS
<1> HIDE DEF m
<1>2. /\ SubSeq(q, m, Len(q)) \in Seq(S)
      /\ Len(SubSeq(q, m, Len(q))) = IF m <= Len(q) THEN Len(q) - m + 1 ELSE 0
      /\ \A i \in 1 .. Len(q) - m + 1 : SubSeq(q, m, Len(q))[i] = q[m + i - 1]
  BY <1>1, SubSeqProperties
<1>3. \A i \in 1 .. Len(q) - f : m + i - 1 = f + i /\ i \in 1 .. Len(q) - m + 1
  BY DEF m
<1>4. \A i \in 1 .. Len(q) - f : SubSeq(q, m, Len(q))[i] = q[f + i]
  BY <1>2, <1>3
<1>5. Len(SubSeq(q, m, Len(q))) = Len(q) - f
  BY <1>2 DEF m
<1> QED  BY <1>2, <1>4, <1>5 DEF m

-----------------------------------------------------------------------------
(* CoMutex.                                                                 *)

\* A coroutine is in m_wait_event_queue only while it is suspended and nothing
\* has decided its wait.
MutexQueued ==
    \A i \in DOMAIN lockQueue : lockQueue[i] # Dead =>
        lockPc[lockQueue[i]] \in {"Lock", "TryLock(ms)"} /\ lockWake[lockQueue[i]] = "none"

\* It is there once: the notification of one entry leaves no live entry behind.
MutexQueuedOnce ==
    \A i, j \in DOMAIN lockQueue : lockQueue[i] # Dead /\ lockQueue[i] = lockQueue[j] => i = j

MutexInv ==
    MutexTypeOK /\ MutexExclusion /\ MutexNotStranded /\ MutexQueued /\ MutexQueuedOnce

\* _NotifyOne of CoMutex finds the first entry that can still be triggered.
LEMMA FirstEntryIsLeast ==
    ASSUME NEW q \in Seq(Lockers \cup {Dead}), LiveEntries(q) # {}
    PROVE  /\ FirstEntry(q) \in 1..Len(q) /\ q[FirstEntry(q)] \in Lockers
           /\ \A j \in LiveEntries(q) : FirstEntry(q) <= j
<1>1. LiveEntries(q) \in SUBSET Nat /\ DOMAIN q = 1..Len(q)
  BY DEF LiveEntries
<1>2. \E i \in LiveEntries(q) : \A j \in LiveEntries(q) : i <= j
  BY <1>1, LeastPosition
<1>3. FirstEntry(q) \in LiveEntries(q) /\ \A j \in LiveEntries(q) : FirstEntry(q) <= j
  BY <1>2 DEF FirstEntry
<1> QED  BY <1>1, <1>3 DEF LiveEntries

\* A coroutine that holds nothing and is in no live entry gets the free lock.
LEMMA OnLockedInv ==
    ASSUME MutexInv, NEW c \in Lockers, Free, OnLocked(c), CoMutexAssumption,
           \A i \in DOMAIN lockQueue : lockQueue[i] # c
    PROVE  MutexInv'
<1> USE CoMutexAssumption DEF CoMutexAssumption
<1>1. /\ lockedCo' = c /\ lockPc' = [lockPc EXCEPT ![c] = "held"] /\ worker' = Dead
      /\ lockQueue' = lockQueue /\ lockWake' = lockWake /\ lockCancel' = lockCancel
  BY DEF OnLocked, At
<1>2. MutexTypeOK'
  BY <1>1 DEF MutexInv, MutexTypeOK
<1>3. MutexExclusion'
  BY <1>1 DEF MutexInv, MutexTypeOK, MutexExclusion, Free
<1>4. MutexNotStranded'
  BY <1>1 DEF MutexNotStranded, Free
<1>5. MutexQueued'
  BY <1>1 DEF MutexInv, MutexTypeOK, MutexQueued
<1>6. MutexQueuedOnce'
  BY <1>1 DEF MutexInv, MutexQueuedOnce
<1> QED  BY <1>2, <1>3, <1>4, <1>5, <1>6 DEF MutexInv

\* A coroutine whose wait is not pending is in no live entry of the queue.
LEMMA NotQueued ==
    ASSUME MutexInv, NEW c \in Lockers, CoMutexAssumption,
           lockPc[c] \notin {"Lock", "TryLock(ms)"} \/ lockWake[c] # "none"
    PROVE  \A i \in DOMAIN lockQueue : lockQueue[i] # c
BY DEF MutexInv, MutexQueued, CoMutexAssumption

\* A coroutine suspends on a lock somebody holds.
LEMMA WaitUnLockInv ==
    ASSUME MutexInv, NEW c \in Lockers, NEW o \in {"Lock", "TryLock(ms)"},
           ~Free, WaitUnLock(c, o), CoMutexAssumption, lockPc[c] # "held",
           \A i \in DOMAIN lockQueue : lockQueue[i] # c
    PROVE  MutexInv'
<1> USE CoMutexAssumption DEF CoMutexAssumption
<1> DEFINE e == IF lockCancel[c] THEN Dead ELSE c
<1>1. /\ lockQueue' = Append(lockQueue, e) /\ lockPc' = [lockPc EXCEPT ![c] = o]
      /\ lockWake' = [lockWake EXCEPT ![c] = IF lockCancel[c] THEN "cancel" ELSE "none"]
      /\ worker' = Dead /\ lockedCo' = lockedCo /\ lockCancel' = lockCancel
  BY DEF WaitUnLock, At
<1>q. /\ lockQueue' \in Seq(Lockers \cup {Dead}) /\ Len(lockQueue') = Len(lockQueue) + 1
      /\ DOMAIN lockQueue = 1..Len(lockQueue) /\ DOMAIN lockQueue' = 1..(Len(lockQueue) + 1)
      /\ Len(lockQueue) \in Nat
      /\ \A i \in 1..Len(lockQueue) : lockQueue'[i] = lockQueue[i]
      /\ lockQueue'[Len(lockQueue) + 1] = e
  BY <1>1, AppendProperties DEF MutexInv, MutexTypeOK
<1>2. MutexTypeOK'
  BY <1>1, <1>q DEF MutexInv, MutexTypeOK
<1>3. MutexExclusion'
  BY <1>1 DEF MutexInv, MutexTypeOK, MutexExclusion
<1>4. MutexNotStranded'
  BY <1>1 DEF MutexNotStranded, Free
<1>5. MutexQueued'
  <2> SUFFICES ASSUME NEW i \in DOMAIN lockQueue', lockQueue'[i] # Dead
               PROVE  lockPc'[lockQueue'[i]] \in {"Lock", "TryLock(ms)"}
                      /\ lockWake'[lockQueue'[i]] = "none"
    BY DEF MutexQueued
  <2>1. CASE i \in DOMAIN lockQueue
    <3>1. lockQueue'[i] = lockQueue[i] /\ lockQueue[i] \in Lockers
      BY <2>1, <1>q DEF MutexInv, MutexTypeOK
    <3> QED  BY <2>1, <3>1, <1>1 DEF MutexInv, MutexTypeOK, MutexQueued
  <2>2. CASE i = Len(lockQueue) + 1
    BY <2>2, <1>1, <1>q DEF MutexInv, MutexTypeOK
  <2> QED  BY <1>q, <2>1, <2>2
<1>6. MutexQueuedOnce'
  BY <1>q DEF MutexInv, MutexQueuedOnce
<1> QED  BY <1>2, <1>3, <1>4, <1>5, <1>6 DEF MutexInv

\* A wait that could not be set up leaves at most an entry that cannot be triggered.
LEMMA WaitFailsInv ==
    ASSUME MutexInv, NEW c \in Lockers, NEW o \in {"idle", "retry"}, NEW w \in {c, Dead},
           ~Free, WaitFails(c), CoMutexAssumption, lockPc[c] # "held", At(c, o),
           worker' = w \/ UNCHANGED worker,
           \A i \in DOMAIN lockQueue : lockQueue[i] # c
    PROVE  MutexInv'
<1> USE CoMutexAssumption DEF CoMutexAssumption
<1>1. /\ lockPc' = [lockPc EXCEPT ![c] = o] /\ worker' \in Lockers \cup {Dead}
      /\ lockWake' = lockWake /\ lockedCo' = lockedCo /\ lockCancel' = lockCancel
      /\ lockQueue' = lockQueue \/ lockQueue' = Append(lockQueue, Dead)
  BY DEF WaitFails, At, MutexInv, MutexTypeOK
<1>q. /\ lockQueue' \in Seq(Lockers \cup {Dead})
      /\ DOMAIN lockQueue \subseteq DOMAIN lockQueue'
      /\ \A i \in DOMAIN lockQueue : lockQueue'[i] = lockQueue[i]
      /\ \A i \in DOMAIN lockQueue' \ DOMAIN lockQueue : lockQueue'[i] = Dead
  <2>1. CASE lockQueue' = lockQueue
    BY <2>1 DEF MutexInv, MutexTypeOK
  <2>2. CASE lockQueue' = Append(lockQueue, Dead)
    BY <2>2, AppendProperties DEF MutexInv, MutexTypeOK
  <2> QED  BY <1>1, <2>1, <2>2
<1>2. MutexTypeOK'
  BY <1>1, <1>q DEF MutexInv, MutexTypeOK
<1>3. MutexExclusion'
  BY <1>1 DEF MutexInv, MutexTypeOK, MutexExclusion
<1>4. MutexNotStranded'
  BY <1>1 DEF MutexNotStranded, Free
<1>5. MutexQueued'
  BY <1>1, <1>q DEF MutexInv, MutexTypeOK, MutexQueued
<1>6. MutexQueuedOnce'
  BY <1>q DEF MutexInv, MutexQueuedOnce
<1> QED  BY <1>2, <1>3, <1>4, <1>5, <1>6 DEF MutexInv

\* Lock, from any of the points it runs on from.
LEMMA LockInv ==
    ASSUME MutexInv, NEW c \in Lockers, Lock(c), CoMutexAssumption
    PROVE  MutexInv'
<1>1. lockPc[c] # "held" /\ \A i \in DOMAIN lockQueue : lockQueue[i] # c
  BY NotQueued DEF Lock
<1>2. CASE Free /\ OnLocked(c)
  BY <1>1, <1>2, OnLockedInv
<1>3. CASE ~Free /\ WaitUnLock(c, "Lock")
  BY <1>1, <1>3, WaitUnLockInv
<1>4. CASE ~Free /\ WaitFails(c) /\ At(c, "retry") /\ worker' = c
  BY <1>1, <1>4, WaitFailsInv
<1>5. CASE ~Free /\ WaitFails(c) /\ At(c, "idle") /\ worker' = Dead
  BY <1>1, <1>5, WaitFailsInv
<1> QED  BY <1>2, <1>3, <1>4, <1>5 DEF Lock

\* TryLock().
LEMMA TryLockInv ==
    ASSUME MutexInv, NEW c \in Lockers, TryLock(c), CoMutexAssumption
    PROVE  MutexInv'
<1>1. \A i \in DOMAIN lockQueue : lockQueue[i] # c
  BY NotQueued DEF TryLock
<1> QED  BY <1>1, OnLockedInv DEF TryLock

\* TryLock(ms), its first section.
LEMMA TryLockMsInv ==
    ASSUME MutexInv, NEW c \in Lockers, TryLockMs(c), CoMutexAssumption
    PROVE  MutexInv'
<1>1. lockPc[c] = "idle" /\ \A i \in DOMAIN lockQueue : lockQueue[i] # c
  BY NotQueued DEF TryLockMs
<1>2. CASE Free /\ OnLocked(c)
  BY <1>1, <1>2, OnLockedInv
<1>3. CASE ~Free /\ WaitUnLock(c, "TryLock(ms)")
  BY <1>1, <1>3, WaitUnLockInv
<1>4. CASE ~Free /\ WaitFails(c) /\ UNCHANGED <<lockPc, worker>>
  <2>1. At(c, "idle")
    BY <1>1, <1>4 DEF At, MutexInv, MutexTypeOK
  <2> QED  BY <1>1, <1>4, <2>1, WaitFailsInv
<1> QED  BY <1>2, <1>3, <1>4 DEF TryLockMs

\* The yield of a retry: the coroutine stays on the way to the lock.
LEMMA RetryInv ==
    ASSUME MutexInv, NEW c \in Lockers, Retry(c), CoMutexAssumption
    PROVE  MutexInv'
<1> USE CoMutexAssumption DEF CoMutexAssumption
<1>1. /\ lockPc[c] = "retry" /\ lockPc' = [lockPc EXCEPT ![c] = "ready"] /\ worker' = Dead
      /\ lockedCo' = lockedCo /\ lockQueue' = lockQueue /\ lockWake' = lockWake
      /\ lockCancel' = lockCancel
  BY DEF Retry, At
<1>2. MutexTypeOK'
  BY <1>1 DEF MutexInv, MutexTypeOK
<1>3. MutexExclusion'
  BY <1>1 DEF MutexInv, MutexTypeOK, MutexExclusion
<1>4. MutexNotStranded'
  BY <1>1 DEF MutexInv, MutexTypeOK, MutexNotStranded, Free, LiveEntries
<1>5. MutexQueued'
  BY <1>1 DEF MutexInv, MutexTypeOK, MutexQueued
<1>6. MutexQueuedOnce'
  BY <1>1 DEF MutexInv, MutexQueuedOnce
<1> QED  BY <1>2, <1>3, <1>4, <1>5, <1>6 DEF MutexInv

\* TryLock(ms) goes on.  One that gives up on a free lock was not notified, so
\* it takes nobody's wakeup with it.
LEMMA ResumeTryLockMsInv ==
    ASSUME MutexInv, NEW c \in Lockers, ResumeTryLockMs(c), CoMutexAssumption
    PROVE  MutexInv'
<1> USE CoMutexAssumption DEF CoMutexAssumption
<1>1. lockPc[c] = "TryLock(ms)" /\ lockWake[c] # "none"
      /\ \A i \in DOMAIN lockQueue : lockQueue[i] # c
  BY NotQueued DEF ResumeTryLockMs
<1>2. CASE Free /\ OnLocked(c)
  BY <1>1, <1>2, OnLockedInv
<1>3. CASE /\ lockWake[c] # "notify" \/ ~Free
           /\ At(c, "idle")
           /\ UNCHANGED <<lockedCo, lockQueue, lockWake, lockCancel, worker>>
  <2>1. lockPc' = [lockPc EXCEPT ![c] = "idle"]
    BY <1>3 DEF At
  <2>2. MutexTypeOK'
    BY <1>3, <2>1 DEF MutexInv, MutexTypeOK
  <2>3. MutexExclusion'
    BY <1>1, <1>3, <2>1 DEF MutexInv, MutexTypeOK, MutexExclusion
  <2>4. MutexNotStranded'
    BY <1>1, <1>3, <2>1 DEF MutexInv, MutexTypeOK, MutexNotStranded, Free, LiveEntries
  <2>5. MutexQueued'
    BY <1>1, <1>3, <2>1 DEF MutexInv, MutexTypeOK, MutexQueued
  <2>6. MutexQueuedOnce'
    BY <1>3 DEF MutexInv, MutexQueuedOnce
  <2> QED  BY <2>2, <2>3, <2>4, <2>5, <2>6 DEF MutexInv
<1> QED  BY <1>2, <1>3 DEF ResumeTryLockMs

\* UnLock: if anybody is left waiting, the first of them has been notified.
LEMMA UnLockInv ==
    ASSUME MutexInv, NEW c \in Lockers, UnLock(c), CoMutexAssumption
    PROVE  MutexInv'
<1> USE CoMutexAssumption DEF CoMutexAssumption
<1>1. /\ lockPc[c] = "held" /\ lockPc' = [lockPc EXCEPT ![c] = "idle"] /\ lockedCo' = Dead
      /\ lockCancel' = lockCancel /\ worker' = worker /\ MutexNotifyOne
  BY DEF UnLock, At
<1>2. lockedCo = c
  BY <1>1 DEF MutexInv, MutexTypeOK, MutexExclusion
<1>3. MutexExclusion'
  BY <1>1, <1>2 DEF MutexInv, MutexTypeOK, MutexExclusion
<1>4. CASE LiveEntries(lockQueue) = {}
  <2>1. lockQueue' = <<>> /\ lockWake' = lockWake
    BY <1>1, <1>4 DEF MutexNotifyOne
  <2>2. MutexTypeOK'
    BY <1>1, <2>1, EmptySeq DEF MutexInv, MutexTypeOK
  <2>3. DOMAIN lockQueue' = {}
    BY <2>1
  <2> QED  BY <1>3, <2>2, <2>3
           DEF MutexInv, MutexNotStranded, MutexQueued, MutexQueuedOnce, LiveEntries
<1>5. CASE LiveEntries(lockQueue) # {}
  <2> DEFINE f == FirstEntry(lockQueue)
             w == lockQueue[f]
  <2>1. /\ f \in 1..Len(lockQueue) /\ w \in Lockers
    BY <1>5, FirstEntryIsLeast DEF MutexInv, MutexTypeOK
  <2>2. /\ lockQueue' = SubSeq(lockQueue, f + 1, Len(lockQueue))
        /\ lockWake' = [lockWake EXCEPT ![w] = "notify"]
    BY <1>1, <1>5 DEF MutexNotifyOne
  <2> HIDE DEF f
  <2>3. /\ DOMAIN lockQueue = 1..Len(lockQueue) /\ Len(lockQueue) \in Nat
        /\ \A i \in f + 1 .. Len(lockQueue) : lockQueue[i] \in Lockers \cup {Dead}
    BY <2>1 DEF MutexInv, MutexTypeOK
  <2>4. /\ lockQueue' \in Seq(Lockers \cup {Dead})
        /\ Len(lockQueue') = Len(lockQueue) - f
        /\ \A i \in 1 .. Len(lockQueue) - f : lockQueue'[i] = lockQueue[f + i]
    BY <2>1, <2>2, QueueRest DEF MutexInv, MutexTypeOK
  <2>5. DOMAIN lockQueue' = 1 .. Len(lockQueue) - f
    BY <2>4
  <2>6. \A i \in DOMAIN lockQueue' : /\ f + i \in DOMAIN lockQueue /\ f + i # f
                                     /\ lockQueue'[i] = lockQueue[f + i]
    BY <2>1, <2>3, <2>4, <2>5
  <2>7. lockPc[w] \in {"Lock", "TryLock(ms)"} /\ w # c
    BY <1>1, <2>1, <2>3 DEF MutexInv, MutexTypeOK, MutexQueued
  <2>8. MutexTypeOK'
    BY <1>1, <2>1, <2>2, <2>4 DEF MutexInv, MutexTypeOK
  <2>9. MutexNotStranded'
    BY <1>1, <2>1, <2>2, <2>7 DEF MutexInv, MutexTypeOK, MutexNotStranded
  <2>10. MutexQueued'
    <3> SUFFICES ASSUME NEW i \in DOMAIN lockQueue', lockQueue'[i] # Dead
                 PROVE  lockPc'[lockQueue'[i]] \in {"Lock", "TryLock(ms)"}
                        /\ lockWake'[lockQueue'[i]] = "none"
      BY DEF MutexQueued
    <3>1. lockQueue'[i] # w /\ lockQueue'[i] = lockQueue[f + i] /\ f + i \in DOMAIN lockQueue
      BY <2>1, <2>3, <2>6 DEF MutexInv, MutexQueuedOnce
    <3>2. lockQueue'[i] \in Lockers /\ lockPc[lockQueue'[i]] \in {"Lock", "TryLock(ms)"}
          /\ lockWake[lockQueue'[i]] = "none"
      BY <2>3, <3>1 DEF MutexInv, MutexTypeOK, MutexQueued
    <3> QED  BY <1>1, <2>2, <3>1, <3>2 DEF MutexInv, MutexTypeOK
  <2>11. MutexQueuedOnce'
    <3> SUFFICES ASSUME NEW i \in DOMAIN lockQueue', NEW j \in DOMAIN lockQueue',
                        lockQueue'[i] # Dead, lockQueue'[i] = lockQueue'[j]
                 PROVE  i = j
      BY DEF MutexQueuedOnce
    <3>1. f + i = f + j
      BY <2>6 DEF MutexInv, MutexQueuedOnce
    <3> QED  BY <2>1, <2>3, <2>5, <3>1
  <2> QED  BY <1>3, <2>8, <2>9, <2>10, <2>11 DEF MutexInv
<1> QED  BY <1>4, <1>5

\* A wait that a timer or a cancel decides is taken out of the queue.
LEMMA EndWaitInv ==
    ASSUME MutexInv, NEW c \in Lockers, NEW by \in {"timeout", "cancel"}, EndWait(c, by),
           CoMutexAssumption, lockCancel' \in [Lockers -> BOOLEAN],
           UNCHANGED <<lockedCo, lockPc, worker>>
    PROVE  MutexInv'
<1> USE CoMutexAssumption DEF CoMutexAssumption
<1>1. /\ lockPc[c] \in {"Lock", "TryLock(ms)"} /\ lockWake[c] = "none"
      /\ lockWake' = [lockWake EXCEPT ![c] = by]
      /\ lockQueue' = [i \in DOMAIN lockQueue |-> IF lockQueue[i] = c THEN Dead ELSE lockQueue[i]]
  BY DEF EndWait
<1>q. /\ lockQueue' \in Seq(Lockers \cup {Dead}) /\ DOMAIN lockQueue' = DOMAIN lockQueue
      /\ \A i \in DOMAIN lockQueue :
            lockQueue'[i] = IF lockQueue[i] = c THEN Dead ELSE lockQueue[i]
  <2>1. DOMAIN lockQueue = 1..Len(lockQueue) /\ Len(lockQueue) \in Nat
    BY DEF MutexInv, MutexTypeOK
  <2>2. lockQueue' \in [1..Len(lockQueue) -> Lockers \cup {Dead}]
    BY <1>1, <2>1 DEF MutexInv, MutexTypeOK
  <2>3. lockQueue' \in Seq(Lockers \cup {Dead})
    BY <2>1, <2>2, SeqDef
  <2> QED  BY <1>1, <2>3
<1>2. MutexTypeOK'
  BY <1>1, <1>q DEF MutexInv, MutexTypeOK
<1>3. MutexExclusion'
  BY DEF MutexInv, MutexExclusion
<1>4. MutexNotStranded'
  BY <1>1, <1>q DEF MutexInv, MutexTypeOK, MutexNotStranded, Free, LiveEntries
<1>5. MutexQueued'
  BY <1>1, <1>q DEF MutexInv, MutexTypeOK, MutexQueued
<1>6. MutexQueuedOnce'
  BY <1>q DEF MutexInv, MutexQueuedOnce
<1> QED  BY <1>2, <1>3, <1>4, <1>5, <1>6 DEF MutexInv

\* RequestCancel on a coroutine that may or may not be waiting.
LEMMA CancelLockerInv ==
    ASSUME MutexInv, NEW c \in Lockers, CancelLocker(c), CoMutexAssumption
    PROVE  MutexInv'
<1>1. lockCancel' \in [Lockers -> BOOLEAN]
  BY DEF CancelLocker, MutexInv, MutexTypeOK
<1>2. CASE EndWait(c, "cancel")
  BY <1>1, <1>2, EndWaitInv DEF CancelLocker
<1>3. CASE UNCHANGED <<lockWake, lockQueue>>
  BY <1>1, <1>3 DEF CancelLocker, MutexInv, MutexTypeOK, MutexExclusion, MutexNotStranded,
                    MutexQueued, MutexQueuedOnce, Free, LiveEntries
<1> QED  BY <1>2, <1>3 DEF CancelLocker

\* The inductive invariant of CoMutex.
THEOREM MutexInvariance == MutexSpec => []MutexInv
<1>1. MutexInit => MutexInv
  <2> SUFFICES ASSUME MutexInit PROVE MutexInv
    OBVIOUS
  <2>1. MutexTypeOK
    BY EmptySeq DEF MutexInit, MutexTypeOK
  <2>2. MutexExclusion /\ DOMAIN lockQueue = {}
    BY DEF MutexInit, MutexExclusion
  <2> QED  BY <2>1, <2>2
           DEF MutexInv, MutexNotStranded, MutexQueued, MutexQueuedOnce, LiveEntries
<1>2. MutexInv /\ [MutexNext]_mutexVars => MutexInv'
  <2> SUFFICES ASSUME MutexInv, [MutexNext]_mutexVars PROVE MutexInv'
    OBVIOUS
  <2>1. ASSUME NEW c \in Lockers, LockTimeout(c) PROVE MutexInv'
    <3>1. lockCancel' \in [Lockers -> BOOLEAN]
      BY <2>1 DEF LockTimeout, MutexInv, MutexTypeOK
    <3> QED  BY <2>1, <3>1, EndWaitInv, CoMutexAssumption DEF LockTimeout
  <2>2. CASE UNCHANGED mutexVars
    BY <2>2 DEF mutexVars, MutexInv, MutexTypeOK, MutexExclusion, MutexNotStranded,
                MutexQueued, MutexQueuedOnce, Free, LiveEntries
  <2> QED  BY <2>1, <2>2, CoMutexAssumption, LockInv, TryLockInv, TryLockMsInv, RetryInv,
              ResumeTryLockMsInv, UnLockInv, CancelLockerInv DEF MutexNext
<1> QED  BY <1>1, <1>2, PTL DEF MutexSpec

\* One holder, and no free lock with everybody who waits for it asleep, for any
\* number of coroutines and any length of m_wait_event_queue.
THEOREM MutexSafeHolds == MutexSpec => []MutexSafe
<1>1. MutexInv => MutexSafe
  BY DEF MutexInv, MutexSafe
<1> QED  BY MutexInvariance, <1>1, PTL

-----------------------------------------------------------------------------
(* CoCond.                                                                  *)

\* c has an entry of its own in m_waiter_queue.
Queued(c) == \E i \in DOMAIN condQueue : condQueue[i] = c

\* Where the calls of NotifyAll still have to go: whoever one of them found and has
\* not been woken is in somebody's hand, or is queued and the call goes on.
CondPending ==
    /\ allOn \in [Notifiers -> BOOLEAN]
    /\ allFrom \in [Notifiers -> SUBSET CondCos]
    /\ \A n \in Notifiers : condHand[n] # Gone => allOn[n]
    /\ \A n \in Notifiers : \A c \in allFrom[n] :
          (\E m \in Notifiers : condHand[m] = c) \/ (allOn[n] /\ Queued(c))

CondInv == CondTypeOK /\ CondPending

\* What every step that is not a turn of NotifyAll leaves of it: who is not woken
\* stays where it was, and no hand is filled.
CondKept ==
    /\ \A c \in CondCos : condWake'[c] = "none" =>
          /\ Queued(c) => Queued(c)'
          /\ \A n \in Notifiers : condHand[n] = c => condHand'[n] = c
    /\ \A n \in Notifiers : condHand'[n] # Gone => condHand[n] # Gone

\* _NotifyOne of CoCond: every entry it drops is gone, except the one it wakes.
LEMMA CondNotifyOneInv ==
    ASSUME CondTypeOK, CondNotifyOne, CoCondAssumption
    PROVE  CondTypeOK' /\ CondKept
<1> USE CoCondAssumption DEF CoCondAssumption
<1>1. /\ condState' = condState /\ condHand' = condHand /\ CondLive \in SUBSET Nat
      /\ DOMAIN condQueue = 1..Len(condQueue) /\ Len(condQueue) \in Nat
  BY DEF CondNotifyOne, CondLive, CondTypeOK
<1>2. CASE CondLive = {}
  <2>1. condQueue' = <<>> /\ condWake' = condWake
    BY <1>2 DEF CondNotifyOne
  <2>2. CondTypeOK'
    BY <1>1, <2>1, EmptySeq DEF CondTypeOK
  <2>3. \A c \in CondCos : ~Queued(c)
    BY <1>2 DEF CondLive, Queued
  <2> QED  BY <1>1, <2>2, <2>3 DEF CondKept
<1>3. CASE CondLive # {}
  <2> DEFINE f == CHOOSE i \in CondLive : \A j \in CondLive : i <= j
  <2>1. f \in CondLive /\ \A j \in CondLive : f <= j
    BY <1>1, <1>3, LeastPosition
  <2>2. /\ condQueue' = SubSeq(condQueue, f + 1, Len(condQueue))
        /\ condWake' = [condWake EXCEPT ![condQueue[f]] = "notify"]
    BY <1>3 DEF CondNotifyOne
  <2> HIDE DEF f
  <2>3. f \in 1..Len(condQueue) /\ condQueue[f] \in CondCos
    BY <1>1, <2>1 DEF CondLive, CondTypeOK
  <2>4. /\ condQueue' \in Seq(CondCos \cup {Gone})
        /\ Len(condQueue') = Len(condQueue) - f
        /\ \A i \in 1 .. Len(condQueue) - f : condQueue'[i] = condQueue[f + i]
    BY <2>2, <2>3, QueueRest DEF CondTypeOK
  <2>5. CondTypeOK'
    BY <1>1, <2>2, <2>3, <2>4 DEF CondTypeOK
  <2>6. ASSUME NEW c \in CondCos, condWake'[c] = "none", Queued(c)
        PROVE  Queued(c)'
    <3>1. PICK k \in DOMAIN condQueue : condQueue[k] = c
      BY <2>6 DEF Queued
    <3>2. k \in CondLive /\ k # f
      BY <2>2, <2>3, <2>6, <3>1 DEF CondLive, CondTypeOK
    <3>3. k - f \in 1 .. Len(condQueue) - f /\ f + (k - f) = k
      BY <1>1, <2>1, <2>3, <3>1, <3>2
    <3>4. k - f \in DOMAIN condQueue' /\ condQueue'[k - f] = c
      BY <2>4, <3>1, <3>3
    <3> QED  BY <3>4 DEF Queued
  <2> QED  BY <1>1, <2>5, <2>6 DEF CondKept
<1> QED  BY <1>2, <1>3

\* A timer or a cancel takes an entry out, and with it whoever it was for.
LEMMA CondEndInv ==
    ASSUME CondTypeOK, NEW c \in CondCos, NEW by \in {"timeout", "cancel"}, CondEnd(c, by),
           CoCondAssumption
    PROVE  CondTypeOK' /\ CondKept
<1> USE CoCondAssumption DEF CoCondAssumption
<1>1. /\ condWake' = [condWake EXCEPT ![c] = by] /\ condState' = condState
      /\ condQueue' = [i \in DOMAIN condQueue |-> IF condQueue[i] = c THEN Gone ELSE condQueue[i]]
      /\ condHand' = [n \in Notifiers |-> IF condHand[n] = c THEN Gone ELSE condHand[n]]
  BY DEF CondEnd
<1>2. DOMAIN condQueue = 1..Len(condQueue) /\ Len(condQueue) \in Nat
  BY DEF CondTypeOK
<1>3. condQueue' \in [1..Len(condQueue) -> CondCos \cup {Gone}]
  BY <1>1, <1>2 DEF CondTypeOK
<1>4. condQueue' \in Seq(CondCos \cup {Gone})
  BY <1>2, <1>3, SeqDef
<1>5. CondTypeOK'
  BY <1>1, <1>4 DEF CondTypeOK
<1>6. CondKept
  BY <1>1 DEF CondTypeOK, CondKept, Queued
<1> QED  BY <1>5, <1>6

\* The callback of a wait appends; nobody is moved.
LEMMA CondEnqueueInv ==
    ASSUME CondTypeOK, NEW c \in CondCos, CondEnqueue(c), CoCondAssumption
    PROVE  CondTypeOK' /\ CondKept
<1> DEFINE e == IF condWake[c] = "none" THEN c ELSE Gone
<1>1. /\ condState' = [condState EXCEPT ![c] = "queued"] /\ condQueue' = Append(condQueue, e)
      /\ condWake' = condWake /\ condHand' = condHand
  BY DEF CondEnqueue
<1>2. /\ condQueue' \in Seq(CondCos \cup {Gone}) /\ Len(condQueue') = Len(condQueue) + 1
      /\ \A i \in 1..Len(condQueue) : condQueue'[i] = condQueue[i]
  BY <1>1, AppendProperties DEF CondTypeOK
<1>3. DOMAIN condQueue \subseteq DOMAIN condQueue'
      /\ \A i \in DOMAIN condQueue : condQueue'[i] = condQueue[i]
  BY <1>2 DEF CondTypeOK
<1>4. CondTypeOK'
  BY <1>1, <1>2 DEF CondTypeOK
<1>5. CondKept
  BY <1>1, <1>3 DEF CondKept, Queued
<1> QED  BY <1>4, <1>5

\* Neither the start nor the end of a wait moves an entry.
LEMMA CondWaitInv ==
    ASSUME CondTypeOK, NEW c \in CondCos, CondWait(c) \/ CondReturn(c)
    PROVE  CondTypeOK' /\ CondKept
BY DEF CondWait, CondReturn, CondTypeOK, CondKept, Queued

\* The second half of a turn of NotifyAll: who was in the hand is woken.
LEMMA CondNotifyHandInv ==
    ASSUME CondTypeOK, NEW n \in Notifiers, CondNotifyHand(n), CoCondAssumption
    PROVE  CondTypeOK' /\ CondKept
<1> USE CoCondAssumption DEF CoCondAssumption
<1>1. /\ condQueue' = condQueue /\ condState' = condState
      /\ condHand' = [condHand EXCEPT ![n] = Gone]
      /\ condWake' = IF condHand[n] = Gone THEN condWake
                     ELSE [condWake EXCEPT ![condHand[n]] = "notify"]
  BY DEF CondNotifyHand
<1>2. CondTypeOK'
  BY <1>1 DEF CondTypeOK
<1>3. CondKept
  BY <1>1 DEF CondTypeOK, CondKept, Queued
<1> QED  BY <1>2, <1>3

\* The first half: the first entry goes from the queue to the hand.
LEMMA CondPopInv ==
    ASSUME CondTypeOK, NEW n \in Notifiers, CondPop(n), CoCondAssumption
    PROVE  /\ CondTypeOK' /\ condWake' = condWake
           /\ \A m \in Notifiers \ {n} : condHand'[m] = condHand[m]
           /\ \A c \in CondCos : Queued(c) => Queued(c)' \/ condHand'[n] = c
<1> USE CoCondAssumption DEF CoCondAssumption
<1>1. /\ condQueue # <<>> /\ condHand' = [condHand EXCEPT ![n] = Head(condQueue)]
      /\ condQueue' = Tail(condQueue) /\ condState' = condState /\ condWake' = condWake
  BY DEF CondPop
<1>2. /\ Head(condQueue) \in CondCos \cup {Gone} /\ Tail(condQueue) \in Seq(CondCos \cup {Gone})
      /\ Head(condQueue) = condQueue[1]
      /\ Len(Tail(condQueue)) = Len(condQueue) - 1
      /\ \A i \in 1 .. Len(Tail(condQueue)) : Tail(condQueue)[i] = condQueue[i + 1]
  BY <1>1, HeadTailProperties DEF CondTypeOK
<1>3. CondTypeOK'
  BY <1>1, <1>2 DEF CondTypeOK
<1>4. ASSUME NEW c \in CondCos, Queued(c), condHand'[n] # c
      PROVE  Queued(c)'
  <2>1. PICK k \in DOMAIN condQueue : condQueue[k] = c
    BY <1>4 DEF Queued
  <2>2. k # 1 /\ k \in 1..Len(condQueue) /\ Len(condQueue) \in Nat
    BY <1>1, <1>2, <1>4, <2>1 DEF CondTypeOK
  <2>3. k - 1 \in 1 .. Len(Tail(condQueue)) /\ (k - 1) + 1 = k
    BY <1>2, <2>2
  <2>4. k - 1 \in DOMAIN condQueue' /\ condQueue'[k - 1] = c
    BY <1>1, <1>2, <2>1, <2>3
  <2> QED  BY <2>4 DEF Queued
<1>5. \A m \in Notifiers \ {n} : condHand'[m] = condHand[m]
  BY <1>1 DEF CondTypeOK
<1> QED  BY <1>1, <1>3, <1>4, <1>5

\* What is waited for, after a step: as before, less those that were woken.
LEMMA StillWaitingFacts ==
    ASSUME CondPending, allFrom' = StillWaiting
    PROVE  /\ allFrom' \in [Notifiers -> SUBSET CondCos]
           /\ \A n \in Notifiers : \A c \in allFrom'[n] :
                 c \in allFrom[n] /\ c \in CondCos /\ condWake'[c] = "none"
BY DEF CondPending, StillWaiting

\* A step that keeps who is not woken disturbs no NotifyAll.
LEMMA CondKeptInv ==
    ASSUME CondInv, CondTypeOK', CondKept, UNCHANGED allOn, allFrom' = StillWaiting
    PROVE  CondInv'
<1>1. /\ allFrom' \in [Notifiers -> SUBSET CondCos]
      /\ \A n \in Notifiers : \A c \in allFrom'[n] :
            c \in allFrom[n] /\ c \in CondCos /\ condWake'[c] = "none"
  BY StillWaitingFacts DEF CondInv
<1>2. \A n \in Notifiers : condHand'[n] # Gone => allOn'[n]
  BY DEF CondInv, CondPending, CondKept
<1>3. ASSUME NEW n \in Notifiers, NEW c \in allFrom'[n]
      PROVE  (\E m \in Notifiers : condHand'[m] = c) \/ (allOn'[n] /\ Queued(c)')
  <2>1. c \in allFrom[n] /\ c \in CondCos /\ condWake'[c] = "none"
    BY <1>1, <1>3
  <2>2. (\E m \in Notifiers : condHand[m] = c) \/ (allOn[n] /\ Queued(c))
    BY <2>1 DEF CondInv, CondPending
  <2> QED  BY <2>1, <2>2 DEF CondKept
<1> QED  BY <1>1, <1>2, <1>3 DEF CondInv, CondPending

\* A turn of NotifyAll: it ends only when the queue and its hand are empty, and
\* whoever it still waits for then is in the hand of another.
LEMMA CondAllTurnInv ==
    ASSUME CondInv, NEW n \in Notifiers, CondAllTurn(n), CoCondAssumption,
           allFrom' = StillWaiting
    PROVE  CondInv'
<1>1. /\ allFrom' \in [Notifiers -> SUBSET CondCos]
      /\ \A m \in Notifiers : \A c \in allFrom'[m] :
            c \in allFrom[m] /\ c \in CondCos /\ condWake'[c] = "none"
  BY StillWaitingFacts DEF CondInv
<1>2. CASE condQueue = <<>>
  <2>1. /\ allOn' = [allOn EXCEPT ![n] = FALSE] /\ condHand[n] = Gone
        /\ condQueue' = condQueue /\ condState' = condState
        /\ condWake' = condWake /\ condHand' = condHand
    BY <1>2 DEF CondAllTurn, condVars
  <2>2. CondTypeOK'
    BY <2>1 DEF CondInv, CondTypeOK
  <2>3. \A c \in CondCos : ~Queued(c)
    BY <1>2 DEF Queued
  <2>4. allOn' \in [Notifiers -> BOOLEAN]
    BY <2>1 DEF CondInv, CondPending
  <2>5. \A m \in Notifiers : condHand'[m] # Gone => allOn'[m]
    BY <2>1 DEF CondInv, CondPending
  <2>6. \A m \in Notifiers : \A c \in allFrom'[m] : \E k \in Notifiers : condHand'[k] = c
    BY <1>1, <2>1, <2>3 DEF CondInv, CondPending
  <2> QED  BY <1>1, <2>2, <2>4, <2>5, <2>6 DEF CondInv, CondPending
<1>3. CASE condQueue # <<>>
  <2>1. condHand[n] = Gone /\ CondPop(n) /\ allOn' = allOn /\ allOn[n]
    BY <1>3 DEF CondAllTurn
  <2>2. /\ CondTypeOK' /\ condWake' = condWake
        /\ \A m \in Notifiers \ {n} : condHand'[m] = condHand[m]
        /\ \A c \in CondCos : Queued(c) => Queued(c)' \/ condHand'[n] = c
    BY <2>1, CondPopInv DEF CondInv
  <2>3. \A m \in Notifiers : condHand'[m] # Gone => allOn'[m]
    BY <2>1, <2>2 DEF CondInv, CondPending
  <2>4. ASSUME NEW m \in Notifiers, NEW c \in allFrom'[m]
        PROVE  (\E k \in Notifiers : condHand'[k] = c) \/ (allOn'[m] /\ Queued(c)')
    <3>1. c \in allFrom[m] /\ c \in CondCos /\ c # Gone
      BY <1>1, <2>4 DEF CoCondAssumption
    <3>2. (\E k \in Notifiers : condHand[k] = c) \/ (allOn[m] /\ Queued(c))
      BY <3>1 DEF CondInv, CondPending
    <3> QED  BY <2>1, <2>2, <3>1, <3>2
  <2> QED  BY <1>1, <2>1, <2>2, <2>3, <2>4 DEF CondInv, CondPending
<1> QED  BY <1>2, <1>3

\* NotifyAll begins: it has everybody to reach who is queued at that moment.
LEMMA CondAllBeginInv ==
    ASSUME CondInv, NEW n \in Notifiers, CondAllBegin(n)
    PROVE  CondInv'
<1> DEFINE Q == {condQueue[i] : i \in CondLive}
<1>1. /\ allOn' = [allOn EXCEPT ![n] = TRUE] /\ allFrom' = [allFrom EXCEPT ![n] = Q]
      /\ condQueue' = condQueue /\ condState' = condState
      /\ condWake' = condWake /\ condHand' = condHand
  BY DEF CondAllBegin, condVars
<1>2. Q \in SUBSET CondCos /\ \A c \in Q : Queued(c)
  BY DEF CondInv, CondTypeOK, CondLive, Queued
<1> HIDE DEF Q
<1>3. CondTypeOK'
  BY <1>1 DEF CondInv, CondTypeOK
<1>4. /\ allOn' \in [Notifiers -> BOOLEAN] /\ allFrom' \in [Notifiers -> SUBSET CondCos]
      /\ \A m \in Notifiers : condHand'[m] # Gone => allOn'[m]
  BY <1>1, <1>2 DEF CondInv, CondPending
<1>5. ASSUME NEW m \in Notifiers, NEW c \in allFrom'[m]
      PROVE  (\E k \in Notifiers : condHand'[k] = c) \/ (allOn'[m] /\ Queued(c)')
  <2>1. Queued(c)' <=> Queued(c)
    BY <1>1 DEF Queued
  <2>2. CASE m = n
    BY <1>1, <1>2, <1>5, <2>1, <2>2 DEF CondInv, CondPending
  <2>3. CASE m # n
    BY <1>1, <1>5, <2>1, <2>3 DEF CondInv, CondPending
  <2> QED  BY <2>2, <2>3
<1> QED  BY <1>3, <1>4, <1>5 DEF CondInv, CondPending

\* Whoever was queued when a NotifyAll was called has been woken when it returns, or
\* is in the hand of another NotifyAll that has not returned: for any number of
\* coroutines and of calls of NotifyAll at the same time, and any length of
\* m_waiter_queue, whatever notifies, timeouts, cancels and new waits come between
\* their lock sections.
THEOREM CondAllReachedHolds == CondSpec => []CondAllReached
<1>1. CondInit /\ CondAllInit => CondInv
  <2> SUFFICES ASSUME CondInit, CondAllInit PROVE CondInv
    OBVIOUS
  <2>1. CondTypeOK
    BY EmptySeq DEF CondInit, CondTypeOK
  <2> QED  BY <2>1 DEF CondInv, CondPending, CondInit, CondAllInit
<1>2. CondInv /\ [CondNext]_<<condVars, condAll>> => CondInv'
  <2> SUFFICES ASSUME CondInv, [CondNext]_<<condVars, condAll>> PROVE CondInv'
    OBVIOUS
  <2> USE CoCondAssumption
  <2>1. CASE UNCHANGED <<condVars, condAll>>
    BY <2>1 DEF condVars, condAll, CondInv, CondTypeOK, CondPending, Queued
  <2>2. ASSUME CondUse, UNCHANGED allOn, allFrom' = StillWaiting
        PROVE  CondInv'
    <3>1. CondTypeOK
      BY DEF CondInv
    <3>2. CondTypeOK' /\ CondKept
      BY <2>2, <3>1, CondWaitInv, CondEnqueueInv, CondEndInv, CondNotifyOneInv,
         CondNotifyHandInv DEF CondUse
    <3> QED  BY <2>2, <3>2, CondKeptInv
  <2> QED  BY <2>1, <2>2, CondAllBeginInv, CondAllTurnInv DEF CondNext
<1>3. CondInv => CondAllReached
  <2> SUFFICES ASSUME CondInv, NEW n \in Notifiers, NEW c \in allFrom[n], ~allOn[n]
               PROVE  \E m \in Notifiers : allOn[m] /\ condHand[m] = c
    BY DEF CondInv, CondAllReached
  <2>1. c # Gone
    BY CoCondAssumption DEF CondInv, CondPending, CoCondAssumption
  <2>2. PICK m \in Notifiers : condHand[m] = c
    BY DEF CondInv, CondPending
  <2>3. allOn[m]
    BY <2>1, <2>2 DEF CondInv, CondPending
  <2> QED  BY <2>2, <2>3
<1> QED  BY <1>1, <1>2, <1>3, PTL DEF CondSpec

-----------------------------------------------------------------------------
(* The guards.  GuardBalance is inductive as it stands.                     *)

Sides == {"read", "write"}

\* The guards that own side s of lock m, and what they make the balance.
Owners(m, s) == {g \in Guards : owns[g] /\ guarded[g] = m /\ Side[g] = s}
Balanced(m, s) == held[m][s] = raw[m][s] + Cardinality(Owners(m, s))
OwnerHasLock == \A g \in Guards : owns[g] => g \in alive /\ guarded[g] # NoLock

\* GuardBalance in these terms, before and after a step.
LEMMA GuardParts ==
    /\ GuardBalance <=>
         GuardTypeOK /\ OwnerHasLock /\ \A m \in Locks, s \in Sides : Balanced(m, s)
    /\ GuardBalance' <=>
         GuardTypeOK' /\ OwnerHasLock' /\ \A m \in Locks, s \in Sides : Balanced(m, s)'
BY DEF GuardBalance, OwnerHasLock, Balanced, Owners, Sides

\* A set of guards can be counted; one that comes or goes makes a difference of
\* one, one that takes the place of another makes none.
LEMMA OwnerCounts ==
    ASSUME NEW A \in SUBSET Guards, CoLockGuardAssumption
    PROVE  /\ Cardinality(A) \in Nat
           /\ \A g \in Guards \ A : Cardinality(A \cup {g}) = Cardinality(A) + 1
           /\ \A g \in A : Cardinality(A \ {g}) = Cardinality(A) - 1 /\ Cardinality(A) > 0
           /\ \A h \in A, g \in Guards \ A : Cardinality((A \ {h}) \cup {g}) = Cardinality(A)
<1>1. IsFiniteSet(A)
  BY FS_Subset DEF CoLockGuardAssumption
<1>2. Cardinality(A) \in Nat /\ \A g \in Guards \ A : Cardinality(A \cup {g}) = Cardinality(A) + 1
  BY <1>1, FS_CardinalityType, FS_AddElement
<1>3. ASSUME NEW h \in A
      PROVE  /\ IsFiniteSet(A \ {h}) /\ Cardinality(A \ {h}) = Cardinality(A) - 1
             /\ Cardinality(A) > 0
  <2>1. IsFiniteSet(A \ {h}) /\ Cardinality(A \ {h}) = Cardinality(A) - 1
    BY <1>1, FS_RemoveElement
  <2>2. Cardinality(A \ {h}) \in Nat
    BY <2>1, FS_CardinalityType
  <2> QED  BY <1>2, <2>1, <2>2
<1>4. ASSUME NEW h \in A, NEW g \in Guards \ A
      PROVE  Cardinality((A \ {h}) \cup {g}) = Cardinality(A)
  <2> DEFINE B == A \ {h}
  <2>1. IsFiniteSet(B) /\ g \notin B /\ Cardinality(B) = Cardinality(A) - 1
    BY <1>3
  <2> HIDE DEF B
  <2>2. Cardinality(B \cup {g}) = Cardinality(B) + 1
    BY <2>1, FS_AddElement
  <2> QED  BY <1>2, <2>1, <2>2 DEF B
<1> QED  BY <1>2, <1>3, <1>4

\* What a state in balance says of one side of one lock.
LEMMA BalanceFacts ==
    ASSUME GuardBalance, CoLockGuardAssumption, NEW m \in Locks, NEW s \in Sides
    PROVE  /\ held[m][s] \in Nat /\ raw[m][s] \in Nat /\ Cardinality(Owners(m, s)) \in Nat
           /\ held[m][s] = raw[m][s] + Cardinality(Owners(m, s))
           /\ Owners(m, s) \in SUBSET Guards
<1>1. Owners(m, s) \in SUBSET Guards
  BY DEF Owners
<1>2. Cardinality(Owners(m, s)) \in Nat
  BY <1>1, OwnerCounts
<1>3. GuardTypeOK /\ Balanced(m, s)
  BY GuardParts
<1> QED  BY <1>1, <1>2, <1>3 DEF GuardTypeOK, Balanced, Sides

\* One acquisition more changes the count of one side of one lock.
LEMMA CountUp ==
    ASSUME NEW f \in [Locks -> [Sides -> Nat]], NEW m \in Locks, NEW s \in Sides
    PROVE  LET h == [f EXCEPT ![m][s] = @ + 1]
           IN  /\ h \in [Locks -> [Sides -> Nat]]
               /\ \A n \in Locks, t \in Sides :
                     h[n][t] = IF n = m /\ t = s THEN f[n][t] + 1 ELSE f[n][t]
BY DEF Sides

\* The same for one acquisition that is given back.
LEMMA CountDown ==
    ASSUME NEW f \in [Locks -> [Sides -> Nat]], NEW m \in Locks, NEW s \in Sides, f[m][s] > 0
    PROVE  LET h == [f EXCEPT ![m][s] = @ - 1]
           IN  /\ h \in [Locks -> [Sides -> Nat]]
               /\ \A n \in Locks, t \in Sides :
                     h[n][t] = IF n = m /\ t = s THEN f[n][t] - 1 ELSE f[n][t]
BY DEF Sides

\* A direct call takes or gives back an acquisition that no guard owns.
LEMMA RawInv ==
    ASSUME GuardBalance, NEW m \in Locks, NEW s \in Sides,
           RawLock(m, s) \/ RawUnLock(m, s), CoLockGuardAssumption
    PROVE  GuardBalance'
<1>1. owns' = owns /\ guarded' = guarded /\ alive' = alive
  BY DEF RawLock, RawUnLock
<1>2. GuardTypeOK /\ OwnerHasLock' /\ \A n \in Locks, t \in Sides : Owners(n, t)' = Owners(n, t)
  BY <1>1, GuardParts DEF Owners, OwnerHasLock
<1>3. /\ held \in [Locks -> [Sides -> Nat]] /\ raw \in [Locks -> [Sides -> Nat]]
  BY <1>2 DEF GuardTypeOK, Sides
<1>4. CASE RawLock(m, s)
  <2>1. held' = [held EXCEPT ![m][s] = @ + 1] /\ raw' = [raw EXCEPT ![m][s] = @ + 1]
    BY <1>4 DEF RawLock, Acquired
  <2>2. /\ held' \in [Locks -> [Sides -> Nat]] /\ raw' \in [Locks -> [Sides -> Nat]]
        /\ \A n \in Locks, t \in Sides :
              held'[n][t] = IF n = m /\ t = s THEN held[n][t] + 1 ELSE held[n][t]
        /\ \A n \in Locks, t \in Sides :
              raw'[n][t] = IF n = m /\ t = s THEN raw[n][t] + 1 ELSE raw[n][t]
    BY <1>3, <2>1, CountUp
  <2>3. GuardTypeOK'
    BY <1>1, <1>2, <2>2 DEF GuardTypeOK, Sides
  <2>4. ASSUME NEW n \in Locks, NEW t \in Sides PROVE Balanced(n, t)'
    BY <1>2, <2>2, BalanceFacts DEF Balanced
  <2> QED  BY <1>2, <2>3, <2>4, GuardParts
<1>5. CASE RawUnLock(m, s)
  <2>1. held' = [held EXCEPT ![m][s] = @ - 1] /\ raw' = [raw EXCEPT ![m][s] = @ - 1]
        /\ raw[m][s] > 0
    BY <1>5 DEF RawUnLock, Released
  <2>a. held[m][s] > 0
    BY <2>1, BalanceFacts
  <2>2. /\ held' \in [Locks -> [Sides -> Nat]] /\ raw' \in [Locks -> [Sides -> Nat]]
        /\ \A n \in Locks, t \in Sides :
              held'[n][t] = IF n = m /\ t = s THEN held[n][t] - 1 ELSE held[n][t]
        /\ \A n \in Locks, t \in Sides :
              raw'[n][t] = IF n = m /\ t = s THEN raw[n][t] - 1 ELSE raw[n][t]
    BY <1>3, <2>1, <2>a, CountDown
  <2>3. GuardTypeOK'
    BY <1>1, <1>2, <2>2 DEF GuardTypeOK, Sides
  <2>4. ASSUME NEW n \in Locks, NEW t \in Sides PROVE Balanced(n, t)'
    BY <1>2, <2>2, BalanceFacts DEF Balanced
  <2> QED  BY <1>2, <2>3, <2>4, GuardParts
<1> QED  BY <1>4, <1>5

\* A guard g that owned nothing now owns side Side[g] of m, which was acquired or
\* taken over from a direct call.
LEMMA OwnInv ==
    ASSUME GuardBalance, NEW g \in Guards, NEW m \in Locks, ~owns[g], CoLockGuardAssumption,
           alive' = alive \cup {g}, guarded' = [guarded EXCEPT ![g] = m],
           owns' = [owns EXCEPT ![g] = TRUE],
           \/ held' = [held EXCEPT ![m][Side[g]] = @ + 1] /\ UNCHANGED raw
           \/ raw[m][Side[g]] > 0 /\ UNCHANGED held
              /\ raw' = [raw EXCEPT ![m][Side[g]] = @ - 1]
    PROVE  GuardBalance'
<1>1. GuardTypeOK /\ OwnerHasLock /\ NoLock \notin Locks /\ Side[g] \in Sides
  BY GuardParts DEF CoLockGuardAssumption, Sides
<1>2. /\ held \in [Locks -> [Sides -> Nat]] /\ raw \in [Locks -> [Sides -> Nat]]
  BY <1>1 DEF GuardTypeOK, Sides
<1>3. /\ held' \in [Locks -> [Sides -> Nat]] /\ raw' \in [Locks -> [Sides -> Nat]]
      /\ \A n \in Locks, t \in Sides :
            held'[n][t] - raw'[n][t] = IF n = m /\ t = Side[g] THEN held[n][t] - raw[n][t] + 1
                                       ELSE held[n][t] - raw[n][t]
  <2>1. CASE held' = [held EXCEPT ![m][Side[g]] = @ + 1] /\ UNCHANGED raw
    <3>1. /\ held' \in [Locks -> [Sides -> Nat]]
          /\ \A n \in Locks, t \in Sides :
                held'[n][t] = IF n = m /\ t = Side[g] THEN held[n][t] + 1 ELSE held[n][t]
      BY <1>1, <1>2, <2>1, CountUp
    <3> QED  BY <1>2, <2>1, <3>1, BalanceFacts
  <2>2. CASE raw[m][Side[g]] > 0 /\ UNCHANGED held /\ raw' = [raw EXCEPT ![m][Side[g]] = @ - 1]
    <3>1. /\ raw' \in [Locks -> [Sides -> Nat]]
          /\ \A n \in Locks, t \in Sides :
                raw'[n][t] = IF n = m /\ t = Side[g] THEN raw[n][t] - 1 ELSE raw[n][t]
      BY <1>1, <1>2, <2>2, CountDown
    <3> QED  BY <1>2, <2>2, <3>1, BalanceFacts
  <2> QED  BY <2>1, <2>2
<1>4. GuardTypeOK' /\ OwnerHasLock'
  BY <1>1, <1>3 DEF GuardTypeOK, OwnerHasLock, Sides
<1>5. ASSUME NEW n \in Locks, NEW t \in Sides PROVE Balanced(n, t)'
  <2>1. held'[n][t] \in Nat /\ raw'[n][t] \in Nat
    BY <1>3
  <2>2. CASE n = m /\ t = Side[g]
    <3>1. Owners(n, t)' = Owners(n, t) \cup {g} /\ g \notin Owners(n, t)
      BY <1>1, <2>2 DEF GuardTypeOK, Owners
    <3>2. Cardinality(Owners(n, t)') = Cardinality(Owners(n, t)) + 1
      BY <3>1, OwnerCounts, BalanceFacts
    <3> QED  BY <1>3, <2>1, <2>2, <3>2, BalanceFacts DEF Balanced
  <2>3. CASE ~(n = m /\ t = Side[g])
    <3>1. Owners(n, t)' = Owners(n, t)
      BY <1>1, <2>3 DEF GuardTypeOK, Owners
    <3> QED  BY <1>3, <2>1, <2>3, <3>1, BalanceFacts DEF Balanced
  <2> QED  BY <2>2, <2>3
<1> QED  BY <1>4, <1>5, GuardParts

\* A guard g gives back what it owned; what happens to its association, and what it
\* takes over from another guard, is the caller's.
LEMMA GiveBack ==
    ASSUME GuardBalance, NEW g \in Guards, owns[g], CoLockGuardAssumption,
           Released(guarded[g], Side[g])
    PROVE  /\ guarded[g] \in Locks /\ Side[g] \in Sides
           /\ g \in Owners(guarded[g], Side[g])
           /\ held' \in [Locks -> [Sides -> Nat]]
           /\ \A n \in Locks, t \in Sides :
                 held'[n][t] = IF n = guarded[g] /\ t = Side[g] THEN held[n][t] - 1
                               ELSE held[n][t]
<1>1. GuardTypeOK /\ OwnerHasLock /\ NoLock \notin Locks /\ Side[g] \in Sides
  BY GuardParts DEF CoLockGuardAssumption, Sides
<1>2. guarded[g] \in Locks /\ g \in Owners(guarded[g], Side[g])
  BY <1>1 DEF GuardTypeOK, OwnerHasLock, Owners
<1>3. held[guarded[g]][Side[g]] > 0
  <2>1. Cardinality(Owners(guarded[g], Side[g])) > 0
    BY <1>1, <1>2, BalanceFacts, OwnerCounts
  <2> QED  BY <1>1, <1>2, <2>1, BalanceFacts
<1>4. held \in [Locks -> [Sides -> Nat]]
  BY <1>1 DEF GuardTypeOK, Sides
<1> QED  BY <1>1, <1>2, <1>3, <1>4, CountDown DEF Released

\* A guard g that owned side Side[g] of guarded[g] gives it back, whatever it is
\* associated with afterwards.
LEMMA DisownInv ==
    ASSUME GuardBalance, NEW g \in Guards, owns[g], CoLockGuardAssumption,
           Released(guarded[g], Side[g]), UNCHANGED raw,
           alive' \in {alive, alive \ {g}},
           NEW l \in Locks \cup {NoLock}, guarded' = [guarded EXCEPT ![g] = l],
           owns' = [owns EXCEPT ![g] = FALSE]
    PROVE  GuardBalance'
<1> DEFINE m == guarded[g]
<1>1. GuardTypeOK /\ OwnerHasLock
  BY GuardParts
<1>2. /\ m \in Locks /\ Side[g] \in Sides /\ g \in Owners(m, Side[g])
      /\ held' \in [Locks -> [Sides -> Nat]]
      /\ \A n \in Locks, t \in Sides :
            held'[n][t] = IF n = m /\ t = Side[g] THEN held[n][t] - 1 ELSE held[n][t]
  BY GiveBack
<1>3. GuardTypeOK' /\ OwnerHasLock'
  BY <1>1, <1>2 DEF GuardTypeOK, OwnerHasLock, Sides
<1>4. ASSUME NEW n \in Locks, NEW t \in Sides PROVE Balanced(n, t)'
  <2>1. CASE n = m /\ t = Side[g]
    <3>1. Owners(n, t)' = Owners(n, t) \ {g}
      BY <1>1, <2>1 DEF GuardTypeOK, Owners
    <3>2. Cardinality(Owners(n, t)') = Cardinality(Owners(n, t)) - 1
      BY <1>2, <2>1, <3>1, OwnerCounts, BalanceFacts
    <3> QED  BY <1>2, <2>1, <3>2, BalanceFacts DEF Balanced
  <2>2. CASE ~(n = m /\ t = Side[g])
    <3>1. Owners(n, t)' = Owners(n, t)
      BY <1>1, <2>2 DEF GuardTypeOK, Owners
    <3> QED  BY <1>2, <2>2, <3>1, BalanceFacts DEF Balanced
  <2> QED  BY <2>1, <2>2
<1> QED  BY <1>3, <1>4, GuardParts

\* A guard that owns nothing is constructed, reassociated or destroyed.
LEMMA IdleInv ==
    ASSUME GuardBalance, NEW g \in Guards, ~owns[g],
           UNCHANGED <<held, raw, owns>>, alive' \in {alive, alive \cup {g}, alive \ {g}},
           NEW l \in Locks \cup {NoLock}, guarded' = [guarded EXCEPT ![g] = l]
    PROVE  GuardBalance'
<1>1. GuardTypeOK /\ OwnerHasLock /\ \A n \in Locks, t \in Sides : Balanced(n, t)
  BY GuardParts
<1>2. GuardTypeOK' /\ OwnerHasLock'
  BY <1>1 DEF GuardTypeOK, OwnerHasLock
<1>3. \A n \in Locks, t \in Sides : Owners(n, t)' = Owners(n, t)
  BY <1>1 DEF GuardTypeOK, Owners
<1> QED  BY <1>1, <1>2, <1>3, GuardParts DEF Balanced

\* g, which owns nothing, takes over the lock of h, and what h owned of it.
LEMMA TakeOverInv ==
    ASSUME GuardBalance, NEW g \in Guards, NEW h \in alive, g # h, Side[g] = Side[h],
           ~owns[g], CoLockGuardAssumption, UNCHANGED <<held, raw>>, alive' = alive \cup {g},
           guarded' = [guarded EXCEPT ![g] = guarded[h], ![h] = NoLock],
           owns' = [owns EXCEPT ![g] = owns[h], ![h] = FALSE]
    PROVE  GuardBalance'
<1>1. GuardTypeOK /\ OwnerHasLock /\ (\A n \in Locks, t \in Sides : Balanced(n, t)) /\ h \in Guards
  BY GuardParts DEF GuardTypeOK
<1>2. GuardTypeOK' /\ OwnerHasLock'
  BY <1>1 DEF GuardTypeOK, OwnerHasLock
<1>3. ASSUME NEW n \in Locks, NEW t \in Sides PROVE Balanced(n, t)'
  <2>0. NoLock # n
    BY DEF CoLockGuardAssumption
  <2>1. CASE h \in Owners(n, t)
    <3>1. Owners(n, t)' = (Owners(n, t) \ {h}) \cup {g} /\ g \notin Owners(n, t)
      BY <1>1, <2>0, <2>1 DEF GuardTypeOK, Owners
    <3>2. Cardinality(Owners(n, t)') = Cardinality(Owners(n, t))
      BY <2>1, <3>1, OwnerCounts, BalanceFacts
    <3> QED  BY <1>1, <3>2 DEF Balanced
  <2>2. CASE h \notin Owners(n, t)
    <3>1. Owners(n, t)' = Owners(n, t)
      BY <1>1, <2>0, <2>2 DEF GuardTypeOK, Owners
    <3> QED  BY <1>1, <3>1 DEF Balanced
  <2> QED  BY <2>1, <2>2
<1> QED  BY <1>2, <1>3, GuardParts

\* Move assignment: an owning target gives its lock back once, and what the source
\* owned has one owner again.
LEMMA MoveAssignInv ==
    ASSUME GuardBalance, NEW g \in Guards, NEW h \in Guards, MoveAssign(g, h),
           CoLockGuardAssumption
    PROVE  GuardBalance'
<1>0. GuardTypeOK /\ OwnerHasLock
  BY GuardParts
<1>1. CASE g = h /\ owns[g]
  <2>1. /\ guarded' = [guarded EXCEPT ![g] = guarded[g]]
        /\ owns' = [owns EXCEPT ![g] = FALSE] /\ guarded[g] \in Locks \cup {NoLock}
    BY <1>0, <1>1 DEF MoveAssign, GuardTypeOK
  <2>2. Released(guarded[g], Side[g]) /\ UNCHANGED raw /\ alive' = alive
    BY <1>1 DEF MoveAssign
  <2> QED  BY <1>1, <2>1, <2>2, DisownInv
<1>2. CASE g = h /\ ~owns[g]
  <2>1. UNCHANGED <<held, raw, owns>> /\ alive' = alive
        /\ guarded' = [guarded EXCEPT ![g] = guarded[g]] /\ guarded[g] \in Locks \cup {NoLock}
    BY <1>0, <1>2 DEF MoveAssign, GuardTypeOK
  <2> QED  BY <1>2, <2>1, IdleInv
<1>3. CASE g # h /\ ~owns[g]
  <2>1. /\ UNCHANGED <<held, raw>> /\ alive' = alive \cup {g} /\ h \in alive
        /\ guarded' = [guarded EXCEPT ![g] = guarded[h], ![h] = NoLock]
        /\ owns' = [owns EXCEPT ![g] = owns[h], ![h] = FALSE] /\ Side[g] = Side[h]
    BY <1>3 DEF MoveAssign
  <2> QED  BY <1>3, <2>1, TakeOverInv
<1>4. CASE g # h /\ owns[g]
  <2> DEFINE m == guarded[g]
  <2>1. /\ g \in alive /\ h \in alive /\ Side[g] = Side[h] /\ alive' = alive /\ raw' = raw
        /\ guarded' = [guarded EXCEPT ![g] = guarded[h], ![h] = NoLock]
        /\ owns' = [owns EXCEPT ![g] = owns[h], ![h] = FALSE]
        /\ Released(guarded[g], Side[g])
    BY <1>4 DEF MoveAssign
  <2>2. /\ m \in Locks /\ Side[g] \in Sides /\ g \in Owners(m, Side[g])
        /\ held' \in [Locks -> [Sides -> Nat]]
        /\ \A n \in Locks, t \in Sides :
              held'[n][t] = IF n = m /\ t = Side[g] THEN held[n][t] - 1 ELSE held[n][t]
    BY <1>4, <2>1, GiveBack
  <2>3. GuardTypeOK' /\ OwnerHasLock'
    BY <1>0, <1>4, <2>1, <2>2 DEF GuardTypeOK, OwnerHasLock, Sides
  <2>4. ASSUME NEW n \in Locks, NEW t \in Sides PROVE Balanced(n, t)'
    <3> DEFINE A == Owners(n, t) \ {g}
    <3>0. NoLock # n
      BY DEF CoLockGuardAssumption
    <3>1. A \in SUBSET Guards /\ g \notin A
      BY DEF Owners
    <3>2. Cardinality(Owners(n, t)') = Cardinality(A)
      <4>1. CASE h \in Owners(n, t)
        <5>1. Owners(n, t)' = (A \ {h}) \cup {g} /\ h \in A
          BY <1>0, <1>4, <2>1, <3>0, <4>1 DEF GuardTypeOK, Owners
        <5> HIDE DEF A
        <5> QED  BY <3>1, <5>1, OwnerCounts
      <4>2. CASE h \notin Owners(n, t)
        <5>1. Owners(n, t)' = A
          BY <1>0, <1>4, <2>1, <3>0, <4>2 DEF GuardTypeOK, Owners
        <5> QED  BY <5>1
      <4> QED  BY <4>1, <4>2
    <3>3. CASE n = m /\ t = Side[g]
      <4>1. Cardinality(A) = Cardinality(Owners(n, t)) - 1
        BY <2>2, <3>3, OwnerCounts, BalanceFacts
      <4>2. held'[n][t] = held[n][t] - 1 /\ raw'[n][t] = raw[n][t]
        BY <2>1, <2>2, <3>3
      <4> HIDE DEF A
      <4> QED  BY <3>2, <4>1, <4>2, BalanceFacts DEF Balanced
    <3>4. CASE ~(n = m /\ t = Side[g])
      <4>1. Cardinality(A) = Cardinality(Owners(n, t))
        <5>1. A = Owners(n, t)
          BY <3>4 DEF Owners
        <5> QED  BY <5>1
      <4>2. held'[n][t] = held[n][t] /\ raw'[n][t] = raw[n][t]
        BY <2>1, <2>2, <3>4
      <4> HIDE DEF A
      <4> QED  BY <3>2, <4>1, <4>2, BalanceFacts DEF Balanced
    <3> QED  BY <3>3, <3>4
  <2> QED  BY <2>3, <2>4, GuardParts
<1> QED  BY <1>1, <1>2, <1>3, <1>4

\* Every acquisition has exactly one owner that will give it back, for any number
\* of guards and locks and any sequence of constructions, moves and destructions.
THEOREM GuardBalanceHolds == GuardSpec => []GuardBalance
<1>1. GuardInit => GuardBalance
  <2> SUFFICES ASSUME GuardInit PROVE GuardBalance
    OBVIOUS
  <2>1. GuardTypeOK /\ OwnerHasLock
    BY DEF GuardInit, GuardTypeOK, OwnerHasLock
  <2>2. \A m \in Locks, s \in Sides : Owners(m, s) = {}
    BY DEF GuardInit, Owners
  <2>3. \A m \in Locks, s \in Sides : held[m][s] = 0 /\ raw[m][s] = 0
    BY DEF GuardInit, Sides
  <2>4. \A m \in Locks, s \in Sides : Cardinality(Owners(m, s)) = 0
    BY <2>2, FS_EmptySet
  <2>5. \A m \in Locks, s \in Sides : Balanced(m, s)
    BY <2>3, <2>4 DEF Balanced
  <2> QED  BY <2>1, <2>5, GuardParts
<1>2. GuardBalance /\ [GuardNext]_guardVars => GuardBalance'
  <2> SUFFICES ASSUME GuardBalance, [GuardNext]_guardVars PROVE GuardBalance'
    OBVIOUS
  <2> USE CoLockGuardAssumption
  <2>0. GuardTypeOK /\ OwnerHasLock
    BY GuardParts
  <2>1. ASSUME NEW g \in Guards, NEW m \in Locks, Construct(g, m) PROVE GuardBalance'
    <3>1. ~owns[g]
      BY <2>0, <2>1 DEF Construct, OwnerHasLock
    <3> QED  BY <2>1, <3>1, OwnInv, IdleInv DEF Construct, Associated, Acquired
  <2>2. ASSUME NEW g \in Guards, GuardLock(g) PROVE GuardBalance'
    <3>1. /\ guarded[g] \in Locks /\ guarded' = [guarded EXCEPT ![g] = guarded[g]]
          /\ alive' = alive \cup {g} /\ ~owns[g] /\ raw' = raw
          /\ owns' = [owns EXCEPT ![g] = TRUE]
          /\ held' = [held EXCEPT ![guarded[g]][Side[g]] = @ + 1]
      BY <2>0, <2>2 DEF GuardLock, GuardTypeOK, Acquired
    <3> QED  BY <3>1, OwnInv
  <2>3. ASSUME NEW g \in Guards, GuardUnlock(g) PROVE GuardBalance'
    <3>1. guarded[g] \in Locks \cup {NoLock} /\ guarded' = [guarded EXCEPT ![g] = guarded[g]]
          /\ alive' = alive /\ owns[g] /\ raw' = raw /\ Released(guarded[g], Side[g])
          /\ owns' = [owns EXCEPT ![g] = FALSE]
      BY <2>0, <2>3 DEF GuardUnlock, GuardTypeOK
    <3> QED  BY <3>1, DisownInv
  <2>4. ASSUME NEW g \in Guards, Destruct(g) PROVE GuardBalance'
    <3>1. /\ guarded' = [guarded EXCEPT ![g] = NoLock] /\ alive' = alive \ {g} /\ raw' = raw
          /\ owns' = [owns EXCEPT ![g] = FALSE]
      BY <2>4 DEF Destruct
    <3>2. CASE owns[g]
      <4>1. Released(guarded[g], Side[g])
        BY <2>0, <2>4, <3>2 DEF Destruct, OwnerHasLock
      <4> QED  BY <3>1, <3>2, <4>1, DisownInv
    <3>3. CASE ~owns[g]
      <4>1. owns' = owns /\ held' = held
        BY <2>0, <2>4, <3>3 DEF Destruct, GuardTypeOK
      <4> QED  BY <3>1, <3>3, <4>1, IdleInv
    <3> QED  BY <3>2, <3>3
  <2>5. ASSUME NEW g \in Guards, NEW h \in Guards, MoveConstruct(g, h) PROVE GuardBalance'
    <3>1. ~owns[g] /\ g # h
      BY <2>0, <2>5 DEF MoveConstruct, OwnerHasLock
    <3> QED  BY <2>5, <3>1, TakeOverInv DEF MoveConstruct
  <2>6. CASE UNCHANGED guardVars
    <3>1. GuardTypeOK' /\ OwnerHasLock'
      BY <2>0, <2>6 DEF guardVars, GuardTypeOK, OwnerHasLock
    <3>2. \A m \in Locks, s \in Sides : Owners(m, s)' = Owners(m, s)
      BY <2>6 DEF guardVars, Owners
    <3>3. \A m \in Locks, s \in Sides : Balanced(m, s)'
      BY <2>6, <3>2, GuardParts DEF guardVars, Balanced
    <3> QED  BY <3>1, <3>3, GuardParts
  <2>7. ASSUME NEW m \in Locks, NEW s \in Sides, RawLock(m, s) \/ RawUnLock(m, s)
        PROVE  GuardBalance'
    BY <2>7, RawInv
  <2> QED  BY <2>1, <2>2, <2>3, <2>4, <2>5, <2>6, <2>7, MoveAssignInv DEF GuardNext, Sides
<1> QED  BY <1>1, <1>2, PTL DEF GuardSpec

-----------------------------------------------------------------------------
(* CoPool.                                                                  *)

WorkLabels == {"new", "start", "loop", "dequeue", "wait", "callback", "parked", "invoke",
               "leave", "down", "finished"}
MonitorLabels == {"new", "start", "loop", "scan", "notify", "sleep", "slept",
                  "leave", "down", "finished"}
ReleaseLabels == {"owner", "check", "all", "hand", "sleep", "slept", "latch", "released", "destroyed"}
Labels == WorkLabels \cup MonitorLabels \cup ReleaseLabels

PoolLabels ==
    /\ poolPc \in [PoolCos \cup {Releaser} -> Labels]
    /\ \A c \in WorkCos : poolPc[c] \in WorkLabels
    /\ poolPc[Monitor] \in MonitorLabels /\ poolPc[Releaser] \in ReleaseLabels

\* The coroutines of the pool at one of the labels R.
CosAt(R) == {c \in PoolCos : poolPc[c] \in R}

\* Between m_running_co_num++ and m_running_co_num--; before m_latch.Down().
Counted == {"loop", "dequeue", "wait", "callback", "parked", "invoke", "scan", "notify",
            "sleep", "slept", "leave"}
Unfinished == Labels \ {"finished"}

\* m_running_co_num counts the coroutines inside their function, m_latch those
\* that have not left it for good.
PoolCounts == runningNum = Cardinality(CosAt(Counted)) /\ latch = Cardinality(CosAt(Unfinished))

\* A task is in the queue, or in the hand of one that is about to run it, or
\* nowhere.
TaskPlaces ==
    /\ inHand \in [WorkCos -> Works \cup {CHOOSE w \in Works : TRUE}]
    /\ workQueue = {w \in Works : fate[w] = "queued"}
    /\ \A c \in WorkCos : poolPc[c] = "invoke" => inHand[c] \in Works /\ fate[inHand[c]] = "taken"
    /\ \A w \in Works : fate[w] = "taken" => \E c \in WorkCos : poolPc[c] = "invoke" /\ inHand[c] = w
    /\ \A c, d \in WorkCos :
          poolPc[c] = "invoke" /\ poolPc[d] = "invoke" /\ inHand[c] = inHand[d] => c = d

PoolInv ==
    /\ PoolTypeOK
    /\ PoolLabels /\ PoolCounts /\ TaskPlaces /\ ReleasedQuiet

USE CoPoolAssumption, CoCondAssumption DEF CoPoolAssumption, CoCondAssumption

\* The set of coroutines of the pool is finite, and so are its parts.
LEMMA CosFinite ==
    ASSUME NEW R
    PROVE  IsFiniteSet(CosAt(R)) /\ Cardinality(CosAt(R)) \in Nat
<1>1. IsFiniteSet(PoolCos)
  BY FS_AddElement DEF PoolCos, WorkCos
<1>2. CosAt(R) \in SUBSET PoolCos
  BY DEF CosAt
<1> QED  BY <1>1, <1>2, FS_Subset, FS_CardinalityType

\* A coroutine that goes from one label to another joins or leaves a count.
LEMMA CountMoves ==
    ASSUME PoolLabels, NEW c \in PoolCos, NEW l \in Labels, PoolGoto(c, l), NEW R
    PROVE  /\ poolPc[c] \in R /\ l \in R => CosAt(R)' = CosAt(R)
           /\ poolPc[c] \notin R /\ l \notin R => CosAt(R)' = CosAt(R)
           /\ poolPc[c] \notin R /\ l \in R => Cardinality(CosAt(R)') = Cardinality(CosAt(R)) + 1
           /\ poolPc[c] \in R /\ l \notin R =>
                 /\ Cardinality(CosAt(R)) > 0
                 /\ Cardinality(CosAt(R)') = Cardinality(CosAt(R)) - 1
<1>1. /\ poolPc'[c] = l /\ \A d \in PoolCos : d # c => poolPc'[d] = poolPc[d]
  BY DEF PoolGoto, PoolLabels
<1>2. IsFiniteSet(CosAt(R)) /\ Cardinality(CosAt(R)) \in Nat
  BY CosFinite
<1>3. ASSUME poolPc[c] \notin R, l \in R
      PROVE  Cardinality(CosAt(R)') = Cardinality(CosAt(R)) + 1
  <2>1. CosAt(R)' = CosAt(R) \cup {c} /\ c \notin CosAt(R)
    BY <1>1, <1>3 DEF CosAt
  <2> QED  BY <1>2, <2>1, FS_AddElement
<1>4. ASSUME poolPc[c] \in R, l \notin R
      PROVE  /\ Cardinality(CosAt(R)) > 0
             /\ Cardinality(CosAt(R)') = Cardinality(CosAt(R)) - 1
  <2>1. CosAt(R)' = CosAt(R) \ {c} /\ c \in CosAt(R)
    BY <1>1, <1>4 DEF CosAt
  <2>2. Cardinality(CosAt(R)) # 0
    BY <1>2, <2>1, FS_EmptySet
  <2>3. Cardinality(CosAt(R) \ {c}) = Cardinality(CosAt(R)) - 1
    BY <1>2, <2>1, FS_RemoveElement
  <2> QED  BY <1>2, <2>1, <2>2, <2>3
<1>5. ASSUME poolPc[c] \in R <=> l \in R PROVE CosAt(R)' = CosAt(R)
  BY <1>1, <1>5 DEF CosAt
<1> QED  BY <1>3, <1>4, <1>5

\* A step of the condition keeps its types.
LEMMA PoolCondTypes ==
    ASSUME PoolInv,
           \/ UNCHANGED condVars \/ CondNotifyOne
           \/ CondPop(Releaser) \/ CondNotifyHand(Releaser)
           \/ \E c \in WorkCos : CondWait(c) \/ CondEnqueue(c) \/ CondReturn(c)
    PROVE  CondTypeOK'
<1>1. CondTypeOK /\ Releaser \in Notifiers /\ WorkCos = CondCos
  BY DEF PoolInv, PoolTypeOK, WorkCos
<1>2. CASE UNCHANGED condVars
  BY <1>1, <1>2 DEF CondTypeOK, condVars
<1> QED  BY <1>1, <1>2, CondNotifyOneInv, CondPopInv, CondNotifyHandInv, CondEnqueueInv,
            CondWaitInv

\* The control state of a coroutine, and what it may not be before the end.
LEMMA CoFacts ==
    ASSUME PoolInv, NEW c \in PoolCos
    PROVE  /\ PoolTypeOK /\ PoolLabels /\ PoolCounts /\ TaskPlaces /\ c # Releaser
           /\ poolPc[c] \in Labels
           /\ poolPc[c] # "finished" => poolPc[Releaser] \notin {"released", "destroyed"}
BY DEF PoolInv, PoolLabels, ReleasedQuiet, PoolCos, WorkCos

\* A coroutine that stays in its function, and does not touch a task.
LEMMA CoMoves ==
    ASSUME PoolInv, NEW c \in PoolCos, NEW l \in Labels, PoolGoto(c, l), PoolTypeOK',
           c \in WorkCos => l \in WorkLabels, c = Monitor => l \in MonitorLabels,
           poolPc[c] \notin {"finished", "invoke"}, l \notin {"finished", "invoke"},
           poolPc[c] \in Counted <=> l \in Counted,
           UNCHANGED <<workQueue, runningNum, latch, inHand, fate>>
    PROVE  PoolInv'
<1>1. /\ PoolLabels /\ PoolCounts /\ TaskPlaces /\ c # Releaser /\ poolPc[c] \in Labels
      /\ poolPc[Releaser] \notin {"released", "destroyed"}
  BY CoFacts
<1>2. /\ poolPc' \in [PoolCos \cup {Releaser} -> Labels] /\ poolPc'[c] = l
      /\ \A d \in PoolCos \cup {Releaser} : d # c => poolPc'[d] = poolPc[d]
  BY <1>1 DEF PoolGoto, PoolLabels
<1>3. PoolLabels'
  BY <1>1, <1>2 DEF PoolLabels, PoolCos, WorkCos
<1>4. PoolCounts'
  <2>1. CosAt(Counted)' = CosAt(Counted)
    BY <1>1, CountMoves
  <2>2. CosAt(Unfinished)' = CosAt(Unfinished)
    BY <1>1, CountMoves DEF Unfinished
  <2> QED  BY <1>1, <2>1, <2>2 DEF PoolCounts
<1>5. TaskPlaces'
  <2>1. \A d \in WorkCos : (poolPc'[d] = "invoke") <=> (poolPc[d] = "invoke")
    BY <1>2 DEF PoolCos
  <2> QED  BY <1>1, <2>1 DEF TaskPlaces
<1>6. ReleasedQuiet'
  BY <1>1, <1>2 DEF ReleasedQuiet
<1> QED  BY <1>3, <1>4, <1>5, <1>6 DEF PoolInv

\* A step of Release or of its thread, up to the latch.
LEMMA ReleaserMoves ==
    ASSUME PoolInv, NEW l \in ReleaseLabels \ {"released", "destroyed"}, PoolGoto(Releaser, l),
           PoolTypeOK',
           UNCHANGED <<workQueue, runningNum, latch, inHand, fate>>
    PROVE  PoolInv'
<1>1. PoolLabels /\ PoolCounts /\ TaskPlaces
  BY DEF PoolInv
<1>2. /\ poolPc' \in [PoolCos \cup {Releaser} -> Labels] /\ poolPc'[Releaser] = l
      /\ \A d \in PoolCos : poolPc'[d] = poolPc[d]
  BY <1>1 DEF PoolGoto, PoolLabels, Labels
<1>3. PoolLabels'
  BY <1>1, <1>2 DEF PoolLabels, PoolCos, WorkCos
<1>4. PoolCounts'
  <2>1. CosAt(Counted)' = CosAt(Counted) /\ CosAt(Unfinished)' = CosAt(Unfinished)
    BY <1>2 DEF CosAt
  <2> QED  BY <1>1, <2>1 DEF PoolCounts
<1>5. TaskPlaces'
  <2>1. \A d \in WorkCos : (poolPc'[d] = "invoke") <=> (poolPc[d] = "invoke")
    BY <1>2 DEF PoolCos
  <2> QED  BY <1>1, <2>1 DEF TaskPlaces
<1>6. ReleasedQuiet'
  BY <1>2 DEF ReleasedQuiet
<1> QED  BY <1>3, <1>4, <1>5, <1>6 DEF PoolInv

\* The thread a coroutine runs on, a sleep that ends.
LEMMA DispatchInv ==
    ASSUME PoolInv, UNCHANGED condAll, NEW c \in PoolCos \cup {Releaser},
           Dispatch(c) \/ SleepOver(c)
    PROVE  PoolInv'
<1>1. PICK l \in Labels : /\ PoolGoto(c, l)
                          /\ poolPc[c] \in {"new", "parked", "slept", "sleep"}
                          /\ \/ (l = "start" /\ poolPc[c] = "new")
                             \/ (l = "loop" /\ poolPc[c] = "parked")
                             \/ (l = "loop" /\ poolPc[c] = "slept" /\ c # Releaser)
                             \/ (l = "slept" /\ poolPc[c] = "sleep")
                             \/ (l = "check" /\ c = Releaser)
                          /\ UNCHANGED condVars \/ (poolPc[c] = "parked" /\ CondReturn(c))
                          /\ UNCHANGED <<accepting, workQueue, runningNum, latch, inHand, toNotify,
                                         submitting, fate, unhandled>>
                          /\ onCpu' = onCpu \/ onCpu' = onCpu \cup {c}
  BY DEF Dispatch, SleepOver, Labels, WorkLabels, MonitorLabels, ReleaseLabels
<1>2. PoolLabels /\ PoolTypeOK
  BY DEF PoolInv
<1>3. poolPc[c] = "parked" => c \in WorkCos
  BY <1>2 DEF PoolLabels, PoolCos, MonitorLabels, ReleaseLabels
<1>4. CondTypeOK'
  BY <1>1, <1>3, PoolCondTypes
<1>5. PoolTypeOK'
  BY <1>1, <1>2, <1>4 DEF PoolTypeOK
<1>6. CASE c = Releaser
  <2>1. l \in ReleaseLabels \ {"released", "destroyed"}
    BY <1>1, <1>2, <1>6 DEF PoolLabels, ReleaseLabels
  <2> QED  BY <1>1, <1>4, <1>5, <1>6, <2>1, ReleaserMoves
<1>7. CASE c \in PoolCos /\ c # Releaser
  <2>1. /\ c \in WorkCos => l \in WorkLabels
        /\ c = Monitor => l \in MonitorLabels
    BY <1>1, <1>2, <1>7 DEF PoolLabels, WorkLabels, MonitorLabels
  <2>2. poolPc[c] \in Counted <=> l \in Counted
    BY <1>1, <1>7 DEF Counted
  <2>3. poolPc[c] \notin {"finished", "invoke"} /\ l \notin {"finished", "invoke"}
    BY <1>1, <1>7
  <2> QED  BY <1>1, <1>4, <1>5, <1>7, <2>1, <2>2, <2>3, CoMoves
<1> QED  BY <1>6, <1>7

\* Nobody moves and no task changes hands.
LEMMA PoolStays ==
    ASSUME PoolInv, PoolTypeOK',
           UNCHANGED <<poolPc, workQueue, runningNum, latch, inHand, fate>>
    PROVE  PoolInv'
<1>1. CosAt(Counted)' = CosAt(Counted) /\ CosAt(Unfinished)' = CosAt(Unfinished)
  BY DEF CosAt
<1> QED  BY <1>1 DEF PoolInv, PoolLabels, PoolCounts, TaskPlaces, ReleasedQuiet

\* The turns of _WorkCo and _MonitorCo between the two counts.
LEMMA TurnsInv ==
    ASSUME PoolInv, UNCHANGED condAll, NEW c \in PoolCos,
           \/ CheckRunning(c)
           \/ c \in WorkCos /\ (WaitForWork(c) \/ WaitCallback(c))
           \/ c = Monitor /\ (MonitorScan \/ MonitorNotify)
    PROVE  PoolInv'
<1>1. /\ PoolTypeOK /\ PoolLabels /\ c # Releaser /\ IsFiniteSet(workQueue)
      /\ Cardinality(workQueue) \in Nat
  <2>1. PoolTypeOK /\ PoolLabels /\ c # Releaser
    BY CoFacts
  <2> QED  BY <2>1, FS_Subset, FS_CardinalityType DEF PoolTypeOK
<1>2. CASE CheckRunning(c)
  <2> DEFINE l == IF ~accepting THEN "leave" ELSE IF c = Monitor THEN "scan" ELSE "dequeue"
  <2>1. /\ poolPc[c] = "loop" /\ PoolGoto(c, l) /\ UNCHANGED condVars
        /\ UNCHANGED <<accepting, workQueue, runningNum, latch, onCpu, inHand, toNotify, fate, unhandled>>
    BY <1>2 DEF CheckRunning
  <2>2. CondTypeOK'
    BY <2>1, PoolCondTypes
  <2>3. PoolTypeOK'
    BY <1>1, <2>1, <2>2 DEF PoolTypeOK
  <2>4. /\ l \in Labels /\ l \notin {"finished", "invoke"} /\ l \in Counted /\ poolPc[c] \in Counted
    BY <2>1 DEF WorkLabels, MonitorLabels, Labels, Counted, WorkCos
  <2>5. /\ c \in WorkCos => l \in WorkLabels
        /\ c = Monitor => l \in MonitorLabels
    BY DEF WorkLabels, MonitorLabels, WorkCos
  <2> HIDE DEF l
  <2> QED  BY <2>1, <2>2, <2>3, <2>4, <2>5, CoMoves
<1>3. CASE c \in WorkCos /\ (WaitForWork(c) \/ WaitCallback(c))
  <2>1. PICK l \in {"callback", "loop", "parked"} :
           /\ poolPc[c] \in {"wait", "callback"} /\ PoolGoto(c, l)
           /\ UNCHANGED condVars \/ CondWait(c) \/ CondEnqueue(c)
           /\ onCpu' = onCpu \/ onCpu' = onCpu \ {c}
           /\ UNCHANGED <<accepting, workQueue, runningNum, latch, inHand, toNotify, fate, unhandled>>
    BY <1>3 DEF WaitForWork, WaitCallback
  <2>2. CondTypeOK'
    BY <1>3, <2>1, PoolCondTypes
  <2>3. PoolTypeOK'
    BY <1>1, <2>1, <2>2 DEF PoolTypeOK
  <2>4. /\ l \in WorkLabels /\ l \in Labels /\ c # Monitor /\ poolPc[c] \notin {"finished", "invoke"}
        /\ l \notin {"finished", "invoke"} /\ l \in Counted /\ poolPc[c] \in Counted
    BY <1>3, <2>1 DEF WorkLabels, Labels, Counted, WorkCos
  <2> QED  BY <2>1, <2>2, <2>3, <2>4, CoMoves
<1>4. CASE c = Monitor /\ (MonitorScan \/ MonitorNotify)
  <2>1. /\ poolPc[c] \in {"scan", "notify"}
        /\ UNCHANGED condVars \/ CondNotifyOne
        /\ UNCHANGED poolPc \/ \E l \in {"notify", "sleep"} : PoolGoto(c, l)
        /\ onCpu' = onCpu \/ onCpu' = onCpu \ {c}
        /\ toNotify' \in Nat
        /\ UNCHANGED <<accepting, workQueue, runningNum, latch, inHand, fate, unhandled>>
    <3>1. CASE MonitorScan
      BY <1>1, <1>4, <3>1 DEF MonitorScan
    <3>2. CASE MonitorNotify
      BY <1>1, <1>4, <3>2 DEF MonitorNotify, PoolTypeOK
    <3> QED  BY <1>4, <3>1, <3>2
  <2>2. CondTypeOK'
    BY <2>1, PoolCondTypes
  <2>3. PoolTypeOK'
    BY <1>1, <2>1, <2>2 DEF PoolTypeOK
  <2>4. CASE UNCHANGED poolPc
    BY <2>1, <2>2, <2>3, <2>4, PoolStays
  <2>5. ASSUME NEW l \in {"notify", "sleep"}, PoolGoto(c, l) PROVE PoolInv'
    <3>1. /\ l \in MonitorLabels /\ l \in Labels /\ c \notin WorkCos /\ poolPc[c] \notin {"finished", "invoke"}
          /\ l \notin {"finished", "invoke"} /\ l \in Counted /\ poolPc[c] \in Counted
      BY <1>4, <2>1 DEF MonitorLabels, Labels, Counted, WorkCos
    <3> QED  BY <2>1, <2>2, <2>3, <2>5, <3>1, CoMoves
  <2> QED  BY <2>1, <2>4, <2>5
<1> QED  BY <1>2, <1>3, <1>4

\* A coroutine begins, leaves its function, and counts the latch down: the counts
\* follow, and neither runs below zero.
LEMMA CountingInv ==
    ASSUME PoolInv, UNCHANGED condAll, NEW c \in PoolCos, StartCo(c) \/ Leave(c) \/ Down(c)
    PROVE  PoolInv'
<1>1. /\ PoolTypeOK /\ PoolLabels /\ PoolCounts /\ TaskPlaces /\ c # Releaser /\ poolPc[c] \in Labels
      /\ poolPc[c] # "finished" => poolPc[Releaser] \notin {"released", "destroyed"}
  BY CoFacts
<1>2. PICK l \in {"loop", "down", "finished"} :
         /\ PoolGoto(c, l) /\ poolPc[c] \in {"start", "leave", "down"}
         /\ \/ l = "loop" /\ poolPc[c] = "start" /\ runningNum' = runningNum + 1 /\ latch' = latch
            \/ l = "down" /\ poolPc[c] = "leave" /\ runningNum' = runningNum - 1 /\ latch' = latch
            \/ l = "finished" /\ poolPc[c] = "down" /\ runningNum' = runningNum /\ latch' = latch - 1
         /\ onCpu' = onCpu \/ onCpu' = onCpu \ {c}
         /\ UNCHANGED <<condVars, accepting, workQueue, inHand, toNotify, fate, unhandled>>
  BY DEF StartCo, Leave, Down
<1>3. l \in WorkLabels /\ l \in MonitorLabels /\ l \in Labels
  BY DEF WorkLabels, MonitorLabels, Labels
<1>4. /\ poolPc' \in [PoolCos \cup {Releaser} -> Labels] /\ poolPc'[c] = l
      /\ \A d \in PoolCos \cup {Releaser} : d # c => poolPc'[d] = poolPc[d]
  BY <1>1, <1>2, <1>3 DEF PoolGoto, PoolLabels
<1>5. CondTypeOK'
  BY <1>2, PoolCondTypes
<1>6. PoolCounts' /\ runningNum' \in Nat /\ latch' \in Nat
  <2>1. /\ l = "loop" => Cardinality(CosAt(Counted)') = Cardinality(CosAt(Counted)) + 1
        /\ l = "down" => /\ Cardinality(CosAt(Counted)') = Cardinality(CosAt(Counted)) - 1
                         /\ Cardinality(CosAt(Counted)) > 0
        /\ l = "finished" => CosAt(Counted)' = CosAt(Counted)
    BY <1>1, <1>2, <1>3, CountMoves DEF Counted
  <2>2. /\ l # "finished" => CosAt(Unfinished)' = CosAt(Unfinished)
        /\ l = "finished" => /\ Cardinality(CosAt(Unfinished)') = Cardinality(CosAt(Unfinished)) - 1
                             /\ Cardinality(CosAt(Unfinished)) > 0
    BY <1>1, <1>2, <1>3, CountMoves DEF Unfinished
  <2>3. Cardinality(CosAt(Counted)) \in Nat /\ Cardinality(CosAt(Unfinished)) \in Nat
    BY CosFinite
  <2> QED  BY <1>1, <1>2, <2>1, <2>2, <2>3 DEF PoolCounts
<1>7. PoolTypeOK'
  BY <1>1, <1>2, <1>5, <1>6 DEF PoolTypeOK
<1>8. PoolLabels'
  BY <1>1, <1>3, <1>4 DEF PoolLabels, PoolCos, WorkCos
<1>9. TaskPlaces'
  <2>1. \A d \in WorkCos : (poolPc'[d] = "invoke") <=> (poolPc[d] = "invoke")
    BY <1>2, <1>4 DEF PoolCos
  <2> QED  BY <1>1, <1>2, <2>1 DEF TaskPlaces
<1>10. ReleasedQuiet'
  BY <1>1, <1>2, <1>4 DEF ReleasedQuiet
<1> QED  BY <1>5, <1>6, <1>7, <1>8, <1>9, <1>10 DEF PoolInv

\* A task is submitted; nobody moves.
LEMMA SubmitInv ==
    ASSUME PoolInv, UNCHANGED condAll, NEW w \in Works,
           SubmitCheck(w) \/ SubmitEnqueue(w) \/ SubmitNotify(w)
    PROVE  PoolInv'
<1>1. PoolTypeOK /\ PoolLabels /\ PoolCounts /\ TaskPlaces /\ ReleasedQuiet
  BY DEF PoolInv
<1>2. /\ UNCHANGED <<accepting, runningNum, latch, poolPc, onCpu, inHand, toNotify, unhandled>>
      /\ UNCHANGED condVars \/ CondNotifyOne
  BY DEF SubmitCheck, SubmitEnqueue, SubmitNotify
<1>3. CondTypeOK'
  BY <1>2, PoolCondTypes
<1>4. CASE SubmitNotify(w)
  <2>1. UNCHANGED <<workQueue, fate>>
    BY <1>4 DEF SubmitNotify
  <2>2. PoolTypeOK'
    BY <1>1, <1>2, <1>3, <2>1 DEF PoolTypeOK
  <2> QED  BY <1>2, <1>3, <2>1, <2>2, PoolStays
<1>5. CASE SubmitCheck(w) \/ SubmitEnqueue(w)
  <2>1. PICK h \in {"checked", "refused", "queued"} :
           /\ fate' = [fate EXCEPT ![w] = h] /\ fate[w] \in {"new", "checked"}
           /\ \/ fate[w] = "new" /\ h # "queued" /\ workQueue' = workQueue
                 /\ poolPc[Releaser] # "destroyed"
              \/ fate[w] = "checked" /\ h = "queued" /\ workQueue' = workQueue \cup {w}
    BY <1>5 DEF SubmitCheck, SubmitEnqueue, Settle
  <2>2. /\ fate' \in [Works -> {"new", "checked", "queued", "taken"} \cup Ended] /\ fate'[w] = h
        /\ \A v \in Works : v # w => fate'[v] = fate[v]
    BY <1>1, <2>1 DEF PoolTypeOK, Ended
  <2>3. PoolTypeOK'
    BY <1>1, <1>2, <1>3, <2>1, <2>2 DEF PoolTypeOK
  <2>4. PoolLabels' /\ PoolCounts'
    <3>1. CosAt(Counted)' = CosAt(Counted) /\ CosAt(Unfinished)' = CosAt(Unfinished)
      BY <1>2 DEF CosAt
    <3> QED  BY <1>1, <1>2, <3>1 DEF PoolLabels, PoolCounts
  <2>5. TaskPlaces'
    <3>1. workQueue' = {v \in Works : fate'[v] = "queued"}
      BY <1>1, <2>1, <2>2 DEF TaskPlaces
    <3>2. \A v \in Works : (fate'[v] = "taken") <=> (fate[v] = "taken")
      BY <2>1, <2>2
    <3> QED  BY <1>1, <1>2, <3>1, <3>2 DEF TaskPlaces
  <2>6. ReleasedQuiet'
    <3>1. poolPc[Releaser] # "destroyed"
      BY <1>1, <2>1 DEF ReleasedQuiet, Ended
    <3> QED  BY <1>1, <1>2, <3>1 DEF ReleasedQuiet
  <2> QED  BY <1>3, <2>3, <2>4, <2>5, <2>6 DEF PoolInv
<1> QED  BY <1>4, <1>5

\* A work coroutine takes a task, or runs the one it has: the task is in one
\* hand only.
LEMMA TaskInv ==
    ASSUME PoolInv, UNCHANGED condAll, NEW c \in WorkCos, Dequeue(c) \/ Invoke(c)
    PROVE  PoolInv'
<1>1. /\ PoolTypeOK /\ PoolLabels /\ PoolCounts /\ TaskPlaces /\ c # Releaser /\ c # Monitor
      /\ c \in PoolCos /\ poolPc[c] \in Labels
      /\ poolPc[c] # "finished" => poolPc[Releaser] \notin {"released", "destroyed"}
  BY CoFacts DEF PoolCos, WorkCos
<1>2. PICK l \in {"invoke", "wait", "loop"} :
         /\ PoolGoto(c, l) /\ poolPc[c] \in {"dequeue", "invoke"}
         /\ UNCHANGED <<condVars, accepting, runningNum, latch, onCpu, toNotify>>
  BY DEF Dequeue, Invoke
<1>3. /\ poolPc' \in [PoolCos \cup {Releaser} -> Labels] /\ poolPc'[c] = l
      /\ \A d \in PoolCos \cup {Releaser} : d # c => poolPc'[d] = poolPc[d]
  BY <1>1, <1>2 DEF PoolGoto, PoolLabels, Labels, WorkLabels
<1>4. CondTypeOK'
  BY <1>2, PoolCondTypes
<1>5. PoolLabels'
  BY <1>1, <1>3 DEF PoolLabels, PoolCos, WorkCos, WorkLabels
<1>6. PoolCounts'
  <2>1. CosAt(Counted)' = CosAt(Counted) /\ CosAt(Unfinished)' = CosAt(Unfinished)
    BY <1>1, <1>2, CountMoves DEF Counted, Unfinished, Labels, WorkLabels
  <2> QED  BY <1>1, <1>2, <2>1 DEF PoolCounts
<1>7. ReleasedQuiet'
  BY <1>1, <1>2, <1>3 DEF ReleasedQuiet
<1>8. CASE Dequeue(c) /\ workQueue = {}
  <2>1. l = "wait" /\ poolPc[c] = "dequeue" /\ UNCHANGED <<workQueue, inHand, fate, unhandled>>
    BY <1>1, <1>2, <1>3, <1>8 DEF Dequeue, PoolGoto
  <2>2. PoolTypeOK'
    BY <1>1, <1>2, <1>4, <2>1 DEF PoolTypeOK
  <2>3. TaskPlaces'
    <3>1. \A d \in WorkCos : (poolPc'[d] = "invoke") <=> (poolPc[d] = "invoke")
      BY <1>3, <2>1 DEF PoolCos
    <3> QED  BY <1>1, <2>1, <3>1 DEF TaskPlaces
  <2> QED  BY <1>4, <1>5, <1>6, <1>7, <2>2, <2>3 DEF PoolInv
<1>9. CASE Dequeue(c) /\ workQueue # {}
  <2>1. PICK w \in workQueue :
           /\ workQueue' = workQueue \ {w} /\ inHand' = [inHand EXCEPT ![c] = w]
           /\ fate' = [fate EXCEPT ![w] = "taken"] /\ poolPc[c] = "dequeue"
           /\ PoolGoto(c, "invoke") /\ UNCHANGED unhandled
    BY <1>9 DEF Dequeue, Settle
  <2>2. l = "invoke" /\ w \in Works /\ fate[w] = "queued"
    BY <1>1, <1>3, <2>1 DEF PoolGoto, PoolLabels, TaskPlaces
  <2>3. /\ fate' \in [Works -> {"new", "checked", "queued", "taken"} \cup Ended] /\ fate'[w] = "taken"
        /\ \A v \in Works : v # w => fate'[v] = fate[v]
    BY <1>1, <2>1, <2>2 DEF PoolTypeOK
  <2>4. /\ inHand' \in [WorkCos -> Works \cup {CHOOSE v \in Works : TRUE}] /\ inHand'[c] = w
        /\ \A d \in WorkCos : d # c => inHand'[d] = inHand[d]
    BY <1>1, <2>1, <2>2 DEF TaskPlaces
  <2>5. PoolTypeOK'
    BY <1>1, <1>2, <1>4, <2>1, <2>3 DEF PoolTypeOK
  <2>6. TaskPlaces'
    <3>1. workQueue' = {v \in Works : fate'[v] = "queued"}
      BY <1>1, <2>1, <2>3 DEF TaskPlaces
    <3>2. \A d \in WorkCos : d # c => poolPc'[d] = poolPc[d]
      BY <1>3 DEF PoolCos
    <3>3. ASSUME NEW d \in WorkCos, poolPc'[d] = "invoke"
          PROVE  inHand'[d] \in Works /\ fate'[inHand'[d]] = "taken"
      <4>1. CASE d = c
        BY ONLY <2>2, <2>3, <2>4, <4>1
      <4>2. CASE d # c
        <5>1. poolPc[d] = "invoke" /\ inHand'[d] = inHand[d]
          BY ONLY <2>4, <3>2, <3>3, <4>2
        <5>2. inHand[d] \in Works /\ fate[inHand[d]] = "taken"
          BY <1>1, <5>1 DEF TaskPlaces
        <5> QED  BY ONLY <2>2, <2>3, <5>1, <5>2
      <4> QED  BY <4>1, <4>2
    <3>4. ASSUME NEW v \in Works, fate'[v] = "taken"
          PROVE  \E d \in WorkCos : poolPc'[d] = "invoke" /\ inHand'[d] = v
      <4>1. CASE v = w
        BY <1>3, <2>2, <2>4, <4>1
      <4>2. CASE v # w
        <5>1. PICK d \in WorkCos : poolPc[d] = "invoke" /\ inHand[d] = v
          BY <1>1, <2>3, <3>4, <4>2 DEF TaskPlaces
        <5> QED  BY <2>1, <2>4, <3>2, <5>1
      <4> QED  BY <4>1, <4>2
    <3>5. ASSUME NEW a \in WorkCos, NEW d \in WorkCos, poolPc'[a] = "invoke", poolPc'[d] = "invoke",
                 inHand'[a] = inHand'[d]
          PROVE  a = d
      <4>1. \A x \in WorkCos : x # c /\ poolPc'[x] = "invoke" => inHand'[x] # w
        BY <1>1, <2>2, <2>4, <3>2 DEF TaskPlaces
      <4> QED  BY <1>1, <2>4, <3>2, <3>5, <4>1 DEF TaskPlaces
    <3> QED  BY <2>4, <3>1, <3>3, <3>4, <3>5 DEF TaskPlaces
  <2> QED  BY <1>4, <1>5, <1>6, <1>7, <2>5, <2>6 DEF PoolInv
<1>10. CASE Invoke(c)
  <2> DEFINE w == inHand[c]
  <2>1. PICK h \in {"done", "threw"} :
           /\ fate' = [fate EXCEPT ![w] = h] /\ poolPc[c] = "invoke" /\ PoolGoto(c, "loop")
           /\ unhandled' = unhandled \/ unhandled' = unhandled + 1
           /\ UNCHANGED <<workQueue, inHand>>
    BY <1>10 DEF Invoke, Settle
  <2>2. l = "loop" /\ w \in Works /\ fate[w] = "taken"
    BY <1>1, <1>3, <2>1 DEF PoolGoto, PoolLabels, TaskPlaces
  <2> HIDE DEF w
  <2>3. /\ fate' \in [Works -> {"new", "checked", "queued", "taken"} \cup Ended] /\ fate'[w] = h
        /\ \A v \in Works : v # w => fate'[v] = fate[v]
    BY <1>1, <2>1, <2>2 DEF PoolTypeOK, Ended
  <2>5. PoolTypeOK'
    BY <1>1, <1>2, <1>4, <2>1, <2>3 DEF PoolTypeOK
  <2>6. TaskPlaces'
    <3>1. workQueue' = {v \in Works : fate'[v] = "queued"}
      BY <1>1, <2>1, <2>2, <2>3 DEF TaskPlaces
    <3>2. \A d \in WorkCos : d # c => poolPc'[d] = poolPc[d]
      BY <1>3 DEF PoolCos
    <3>3. ASSUME NEW d \in WorkCos, poolPc'[d] = "invoke"
          PROVE  inHand'[d] \in Works /\ fate'[inHand'[d]] = "taken"
      <4>1. d # c /\ poolPc[d] = "invoke" /\ inHand'[d] = inHand[d]
        BY <1>3, <2>1, <2>2, <3>2, <3>3
      <4>2. inHand[d] # w /\ inHand[d] \in Works /\ fate[inHand[d]] = "taken"
        BY <1>1, <2>1, <4>1 DEF TaskPlaces, w
      <4> QED  BY <2>3, <4>1, <4>2
    <3>4. ASSUME NEW v \in Works, fate'[v] = "taken"
          PROVE  \E d \in WorkCos : poolPc'[d] = "invoke" /\ inHand'[d] = v
      <4>1. v # w /\ fate[v] = "taken"
        BY <2>3, <3>4
      <4>2. PICK d \in WorkCos : poolPc[d] = "invoke" /\ inHand[d] = v
        BY <1>1, <4>1 DEF TaskPlaces
      <4> QED  BY <2>1, <3>2, <4>1, <4>2 DEF w
    <3>5. ASSUME NEW a \in WorkCos, NEW d \in WorkCos, poolPc'[a] = "invoke", poolPc'[d] = "invoke",
                 inHand'[a] = inHand'[d]
          PROVE  a = d
      BY <1>1, <1>3, <2>1, <2>2, <3>2, <3>5 DEF TaskPlaces
    <3> QED  BY <1>1, <2>1, <3>1, <3>3, <3>4, <3>5 DEF TaskPlaces
  <2> QED  BY <1>4, <1>5, <1>6, <1>7, <2>5, <2>6 DEF PoolInv
<1> QED  BY <1>8, <1>9, <1>10

\* Release up to the latch, wherever it is called.
LEMMA ReleaseInv ==
    ASSUME PoolInv, UNCHANGED condAll, ReleaseBegin \/ ReleaseCheck \/ ReleaseNotifyAll
    PROVE  PoolInv'
<1>1. PoolTypeOK
  BY DEF PoolInv
<1>2. PICK l \in {"check", "all", "latch", "hand", "sleep"} :
         /\ PoolGoto(Releaser, l) /\ accepting' \in BOOLEAN
         /\ UNCHANGED condVars \/ CondPop(Releaser) \/ CondNotifyHand(Releaser)
         /\ onCpu' = onCpu \/ onCpu' = onCpu \ {Releaser}
         /\ UNCHANGED <<workQueue, runningNum, latch, inHand, toNotify, fate, unhandled>>
  BY <1>1 DEF ReleaseBegin, ReleaseCheck, ReleaseNotifyAll, PoolTypeOK
<1>3. CondTypeOK'
  BY <1>2, PoolCondTypes
<1>4. PoolTypeOK'
  BY <1>1, <1>2, <1>3 DEF PoolTypeOK
<1>5. l \in ReleaseLabels \ {"released", "destroyed"}
  BY DEF ReleaseLabels
<1> QED  BY <1>2, <1>3, <1>4, <1>5, ReleaserMoves

\* The latch opens and the queue is drained: every coroutine has finished, so
\* no task is in anybody's hand.  The destructor drains once more.
LEMMA DrainInv ==
    ASSUME PoolInv, UNCHANGED condAll, ReleaseLatch \/ Destroy
    PROVE  PoolInv'
<1>1. PoolTypeOK /\ PoolLabels /\ PoolCounts /\ TaskPlaces /\ ReleasedQuiet
  BY DEF PoolInv
<1>2. PICK l \in {"released", "destroyed"} :
         /\ PoolGoto(Releaser, l) /\ DropQueued
         /\ l = "released" => latch = 0
         /\ l = "destroyed" => /\ poolPc[Releaser] = "released"
                               /\ \A w \in Works : fate[w] # "checked"
         /\ UNCHANGED <<condVars, accepting, runningNum, latch, onCpu, inHand, toNotify, unhandled>>
  BY DEF ReleaseLatch, Destroy
<1>3. /\ poolPc' \in [PoolCos \cup {Releaser} -> Labels] /\ poolPc'[Releaser] = l
      /\ \A d \in PoolCos : poolPc'[d] = poolPc[d]
  BY <1>1, <1>2 DEF PoolGoto, PoolLabels, Labels, ReleaseLabels, PoolCos
<1>4. CondTypeOK'
  BY <1>2, PoolCondTypes
<1>5. \A c \in PoolCos : poolPc[c] = "finished"
  <2>1. CASE l = "released"
    <3>1. CosAt(Unfinished) = {}
      BY <1>1, <1>2, <2>1, CosFinite, FS_EmptySet DEF PoolCounts
    <3> QED  BY <1>1, <3>1 DEF CosAt, Unfinished, PoolLabels
  <2>2. CASE l = "destroyed"
    BY <1>1, <1>2, <2>2 DEF ReleasedQuiet
  <2> QED  BY <2>1, <2>2
<1>6. \A w \in Works : fate[w] # "taken"
  BY <1>1, <1>5 DEF TaskPlaces, PoolCos
<1>7. /\ workQueue' = {} /\ fate' \in [Works -> {"new", "checked"} \cup Ended]
      /\ l = "destroyed" => \A w \in Works : fate'[w] \in {"new"} \cup Ended
  <2>1. /\ workQueue' = {} /\ fate' = [w \in Works |-> IF w \in workQueue THEN "dropped" ELSE fate[w]]
    BY <1>2 DEF DropQueued
  <2>2. \A w \in Works : fate'[w] \in {"new", "checked"} \cup Ended
    BY <1>1, <1>6, <2>1 DEF TaskPlaces, PoolTypeOK, Ended
  <2>3. l = "destroyed" => \A w \in Works : fate'[w] # "checked"
    BY <1>2, <2>1
  <2> QED  BY <2>1, <2>2, <2>3
<1>8. PoolTypeOK'
  BY <1>1, <1>2, <1>4, <1>7 DEF PoolTypeOK
<1>9. PoolLabels'
  BY <1>1, <1>3 DEF PoolLabels, PoolCos, WorkCos, ReleaseLabels
<1>10. PoolCounts'
  <2>1. CosAt(Counted)' = CosAt(Counted) /\ CosAt(Unfinished)' = CosAt(Unfinished)
    BY <1>3 DEF CosAt
  <2> QED  BY <1>1, <1>2, <2>1 DEF PoolCounts
<1>11. TaskPlaces'
  <2>1. \A c \in WorkCos : poolPc'[c] = "finished"
    BY <1>3, <1>5 DEF PoolCos
  <2>2. \A w \in Works : fate'[w] \notin {"queued", "taken"}
    BY <1>7 DEF Ended
  <2>3. inHand' = inHand /\ workQueue' = {}
    BY <1>2, <1>7
  <2> QED  BY <1>1, <2>1, <2>2, <2>3 DEF TaskPlaces
<1>12. ReleasedQuiet'
  BY <1>3, <1>5, <1>7 DEF ReleasedQuiet
<1> QED  BY <1>4, <1>8, <1>9, <1>10, <1>11, <1>12 DEF PoolInv

\* A new pool.
LEMMA PoolInitial == PoolInit => PoolInv
<1> SUFFICES ASSUME PoolInit PROVE PoolInv
  OBVIOUS
<1>1. IsFiniteSet(PoolCos) /\ Cardinality(PoolCos) = LatchCount /\ LatchCount \in Nat
  BY FS_AddElement, FS_CardinalityType DEF PoolCos, WorkCos, LatchCount
<1>2. CondTypeOK
  BY EmptySeq DEF PoolInit, CondInit, CondTypeOK
<1>3. \A c \in PoolCos : poolPc[c] = "new" /\ c # Releaser
  BY DEF PoolInit
<1>4. PoolTypeOK
  BY <1>1, <1>2 DEF PoolInit, PoolTypeOK
<1>5. PoolLabels
  BY <1>3 DEF PoolInit, PoolLabels, Labels, WorkLabels, MonitorLabels, ReleaseLabels, PoolCos
<1>6. PoolCounts
  <2>1. CosAt(Counted) = {} /\ CosAt(Unfinished) = PoolCos
    BY <1>3 DEF CosAt, Counted, Unfinished, Labels, WorkLabels
  <2> QED  BY <1>1, <2>1, FS_EmptySet DEF PoolInit, PoolCounts
<1>7. TaskPlaces
  BY <1>3 DEF PoolInit, TaskPlaces, PoolCos
<1>8. ReleasedQuiet
  BY DEF PoolInit, ReleasedQuiet
<1> QED  BY <1>4, <1>5, <1>6, <1>7, <1>8 DEF PoolInv, PoolInit

\* The counts of CoPool and the places of its tasks, for any number of work
\* coroutines, tasks and threads.
THEOREM PoolInvariance == PoolSpec => []PoolInv
<1>1. PoolInv /\ [PoolNext]_<<poolAll, condAll>> => PoolInv'
  <2> SUFFICES ASSUME PoolInv, [PoolNext]_<<poolAll, condAll>> PROVE PoolInv'
    OBVIOUS
  <2>1. CASE UNCHANGED <<poolAll, condAll>>
    <3>1. PoolTypeOK'
      BY <2>1 DEF PoolInv, PoolTypeOK, CondTypeOK, poolAll, poolVars, condVars, condAll
    <3> QED  BY <2>1, <3>1, PoolStays DEF poolAll, poolVars
  <2>2. CASE PoolNext
    <3>1. UNCHANGED condAll
      BY <2>2 DEF PoolNext
    <3>2. ASSUME NEW c \in PoolCos, CoStep(c) PROVE PoolInv'
      BY <3>1, <3>2, TurnsInv, CountingInv, TaskInv DEF CoStep
    <3>3. ASSUME NEW c \in PoolCos \cup {Releaser}, Dispatch(c) \/ SleepOver(c) PROVE PoolInv'
      BY <3>1, <3>3, DispatchInv
    <3>4. ASSUME NEW w \in Works, SubmitCheck(w) \/ SubmitEnqueue(w) \/ SubmitNotify(w) PROVE PoolInv'
      BY <3>1, <3>4, SubmitInv
    <3>5. ASSUME ReleaseBegin \/ ReleaseStep \/ Destroy PROVE PoolInv'
      BY <3>1, <3>5, ReleaseInv, DrainInv DEF ReleaseStep
    <3> QED  BY <2>2, <3>2, <3>3, <3>4, <3>5 DEF PoolNext
  <2> QED  BY <2>1, <2>2
<1> QED  BY <1>1, PoolInitial, PTL DEF PoolSpec

\* When CoPool::Release has returned, none of the pool's coroutines runs any
\* more, however many there are and wherever they were when it was called, and the
\* destructor leaves no accepted task behind.
THEOREM PoolSoundHolds == PoolSpec => []PoolSound
<1>1. PoolInv => PoolSound
  BY DEF PoolInv, PoolSound
<1> QED  BY <1>1, PoolInvariance, PTL

-----------------------------------------------------------------------------
(* ObjectRegistry.                                                          *)

KindBucket == [kind : Kinds, counts : Counters]
RegistryTypes == RegistryTypeOK /\ kindBuckets \in Seq(KindBucket)

\* A call that holds a reference to its object; one in the object's destructor.
Holding == {"made", "counted", "found", "drop"}
Ending == {"destroy", "kind", "manager", "unregister"}
ObjOf(t) == arg[t][1]

\* The mutex is held between the two countings, and while a query looks.
MutexHeld == \A t \in Callers : mutex = t <=> step[t] \in {"counted", "found"}
RefsHeld == \A t \in Callers, o \in CoObjects : t \in refs[o] <=> step[t] \in Holding /\ ObjOf(t) = o

\* What a call knows of its object.
CallRight(t) ==
    /\ step[t] \in {"made", "counted", "drop"} \cup Ending => ObjOf(t) \in CoObjects
    /\ step[t] = "made" => /\ stage[ObjOf(t)] = "made" /\ refs[ObjOf(t)] = {t}
                           /\ key[ObjOf(t)] = arg[t][2]
    /\ step[t] = "counted" => stage[ObjOf(t)] = "committed" /\ refs[ObjOf(t)] = {t}
    /\ step[t] = "found" /\ ObjOf(t) # NoObject => stage[ObjOf(t)] = "committed"
    /\ step[t] = "drop" => /\ stage[ObjOf(t)] \in {"made", "committed"}
                           /\ stage[ObjOf(t)] = "made" => refs[ObjOf(t)] = {t}
    /\ step[t] \in Ending => refs[ObjOf(t)] = {}
    /\ step[t] \in {"destroy", "kind"} => stage[ObjOf(t)] = "committed"
    /\ step[t] \in {"manager", "unregister"} => stage[ObjOf(t)] = "settled"

\* An object is destroyed once.
EndAlone == \A t, u \in Callers : step[t] \in Ending /\ step[u] \in Ending /\ ObjOf(t) = ObjOf(u) => t = u

\* What is known of an object; its kind has a bucket while it counts.
ObjectRight(o) ==
    /\ "user" \in refs[o] => stage[o] = "committed"
    /\ stage[o] \in {"made", "committed", "settled"} => kind[o] \in Kinds /\ FindKind(kind[o]) # 0

\* An entry is under the key of its object.
OwnKey == manager # {} => \A k \in Keys : members[k] # NoObject => key[members[k]] = k

RegistryInv ==
    /\ RegistryTypes /\ MutexHeld /\ RefsHeld /\ EndAlone /\ OwnKey
    /\ \A t \in Callers : CallRight(t)
    /\ \A o \in CoObjects : ObjectRight(o)
    /\ IndexNamesMembers /\ CountsLiveObjects

\* What the assumption on the constants gives.
LEMMA RegistryConstants ==
    /\ Shared \subseteq CoObjects /\ IsFiniteSet(CoObjects) /\ AnyKey \in Keys
    /\ NoObject \notin CoObjects /\ NoCaller \notin Callers /\ "user" \notin Callers
BY RegistryAssumption DEF RegistryAssumption, AnyKey

-----------------------------------------------------------------------------
(* The list of counters.                                                    *)

\* The place of the first bucket of a kind, and what it counts.
FirstOf(b, k) == SelectInSeq(b, LAMBDA e : e.kind = k)
StatsOf(b, k) == IF FirstOf(b, k) = 0 THEN NoCounts ELSE b[FirstOf(b, k)].counts
IsFirst(b, k, n) == n \in 1 .. Len(b) /\ b[n].kind = k /\ \A i \in 1 .. n - 1 : b[i].kind # k
NoneOf(b, k) == \A i \in 1 .. Len(b) : b[i].kind # k

LEMMA FirstFacts ==
    ASSUME NEW b \in Seq(KindBucket), NEW k
    PROVE  \/ FirstOf(b, k) = 0 /\ NoneOf(b, k)
           \/ IsFirst(b, k, FirstOf(b, k))
<1> DEFINE I == {i \in 1 .. Len(b) : b[i].kind = k}
<1>1. FirstOf(b, k) = IF I # {} THEN Min(I) ELSE 0
  BY DEF FirstOf, SelectInSeq
<1>2. CASE I = {}
  BY <1>1, <1>2 DEF NoneOf
<1>3. CASE I # {}
  <2>1. I \in SUBSET Nat /\ Len(b) \in Nat
    OBVIOUS
  <2>2. \E n \in I : \A m \in I : n <= m
    <3> HIDE DEF I
    <3> QED  BY <1>3, <2>1, LeastPosition
  <2>3. Min(I) \in I /\ \A m \in I : Min(I) <= m
    <3> HIDE DEF I
    <3> QED  BY <2>2 DEF Min
  <2>4. FirstOf(b, k) \in I /\ \A m \in I : FirstOf(b, k) <= m
    <3> HIDE DEF I
    <3> QED  BY <1>1, <1>3, <2>3
  <2>5. ASSUME NEW i \in 1 .. FirstOf(b, k) - 1 PROVE b[i].kind # k
    <3>1. i \in 1 .. Len(b) /\ ~(FirstOf(b, k) <= i)
      BY <2>1, <2>4
    <3> QED  BY <2>4, <3>1
  <2> QED  BY <2>4, <2>5 DEF IsFirst
<1> QED  BY <1>2, <1>3

LEMMA NoneFacts ==
    ASSUME NEW b \in Seq(KindBucket), NEW k, NoneOf(b, k)
    PROVE  FirstOf(b, k) = 0
<1>1. ~IsFirst(b, k, FirstOf(b, k))
  BY DEF NoneOf, IsFirst
<1> QED  BY <1>1, FirstFacts

\* It is the only such place.
LEMMA FirstIs ==
    ASSUME NEW b \in Seq(KindBucket), NEW k, NEW n, IsFirst(b, k, n)
    PROVE  FirstOf(b, k) = n
<1>1. n \in Nat /\ n > 0 /\ Len(b) \in Nat /\ n \in 1 .. Len(b) /\ ~NoneOf(b, k)
  BY DEF IsFirst, NoneOf
<1>2. IsFirst(b, k, FirstOf(b, k))
  BY <1>1, FirstFacts
<1>3. FirstOf(b, k) \in Nat /\ FirstOf(b, k) > 0
  BY <1>2 DEF IsFirst
<1>4. ~(n < FirstOf(b, k))
  <2>1. n < FirstOf(b, k) => n \in 1 .. FirstOf(b, k) - 1
    BY <1>1, <1>3
  <2> QED  BY <1>2, <2>1 DEF IsFirst
<1>5. ~(FirstOf(b, k) < n)
  <2>1. FirstOf(b, k) < n => FirstOf(b, k) \in 1 .. n - 1
    BY <1>1, <1>3
  <2> QED  BY <1>2, <2>1 DEF IsFirst
<1> QED  BY <1>1, <1>3, <1>4, <1>5

\* c is the list b with a bucket for kind x, which had none or zeros.
KindGrows(b, x, c) ==
    /\ c \in Seq(KindBucket)
    /\ \A k \in Kinds : /\ FirstOf(c, k) # 0 <=> k = x \/ FirstOf(b, k) # 0
                        /\ StatsOf(c, k) = StatsOf(b, k)

\* A kind gets its bucket: the others only move.
LEMMA KindAdded ==
    ASSUME NEW b \in Seq(KindBucket), NEW x \in Kinds, FirstOf(b, x) = 0, NEW c,
           c = <<[kind |-> x, counts |-> NoCounts]>> \o b
    PROVE  KindGrows(b, x, c)
<1> DEFINE e == [kind |-> x, counts |-> NoCounts]
<1>1. e \in KindBucket /\ e.kind = x /\ e.counts = NoCounts
  BY DEF KindBucket, Counters, NoCounts
<1>2. <<e>> \in Seq(KindBucket) /\ Len(<<e>>) = 1 /\ <<e>>[1] = e
  BY <1>1
<1> HIDE DEF e
<1>3. /\ c \in Seq(KindBucket) /\ Len(b) \in Nat /\ Len(c) = 1 + Len(b) /\ c[1] = e
      /\ \A i \in 1 .. Len(b) : c[i + 1] = b[i]
  <2>1. c = <<e>> \o b
    BY DEF e
  <2>2. /\ c \in Seq(KindBucket) /\ Len(c) = Len(<<e>>) + Len(b)
        /\ \A i \in 1 .. Len(<<e>>) + Len(b) : c[i] = IF i <= Len(<<e>>) THEN <<e>>[i] ELSE b[i - Len(<<e>>)]
    BY <1>2, <2>1, ConcatProperties
  <2>3. Len(b) \in Nat
    OBVIOUS
  <2>4. \A i \in 1 .. Len(b) : i + 1 \in 1 .. 1 + Len(b) /\ ~(i + 1 <= 1) /\ i + 1 - 1 = i
    BY <2>3
  <2> QED  BY <1>2, <2>2, <2>3, <2>4
<1>4. FirstOf(c, x) = 1 /\ StatsOf(c, x) = NoCounts
  <2>1. IsFirst(c, x, 1)
    BY <1>1, <1>3 DEF IsFirst
  <2>2. FirstOf(c, x) = 1
    BY <1>3, <2>1, FirstIs
  <2> QED  BY <1>1, <1>3, <2>2 DEF StatsOf
<1>5. ASSUME NEW k \in Kinds \ {x}
      PROVE  (FirstOf(c, k) # 0 <=> FirstOf(b, k) # 0) /\ StatsOf(c, k) = StatsOf(b, k)
  <2>1. CASE FirstOf(b, k) = 0
    <3>1. NoneOf(b, k)
      BY <2>1, FirstFacts DEF IsFirst
    <3>2. ASSUME NEW i \in 1 .. Len(c) PROVE c[i].kind # k
      <4>1. i = 1 \/ (i - 1 \in 1 .. Len(b) /\ i = i - 1 + 1)
        BY <1>3
      <4>2. i # 1 => c[i] = b[i - 1] /\ i - 1 \in 1 .. Len(b)
        BY <1>3, <4>1
      <4> QED  BY <1>1, <1>3, <3>1, <4>2 DEF NoneOf
    <3>3. FirstOf(c, k) = 0
      <4>1. NoneOf(c, k)
        BY <3>2 DEF NoneOf
      <4> QED  BY <1>3, <4>1, NoneFacts
    <3> QED  BY <2>1, <3>3 DEF StatsOf
  <2>2. CASE FirstOf(b, k) # 0
    <3> DEFINE n == FirstOf(b, k)
    <3>1. IsFirst(b, k, n)
      BY <2>2, FirstFacts
    <3>2. n \in Nat /\ n > 0 /\ n \in 1 .. Len(b) /\ b[n].kind = k
      BY <3>1 DEF IsFirst
    <3> HIDE DEF n
    <3>3. n + 1 \in 1 .. Len(c) /\ c[n + 1] = b[n]
      BY <1>3, <3>2
    <3>4. ASSUME NEW i \in 1 .. n + 1 - 1 PROVE c[i].kind # k
      <4>1. i = 1 \/ (i - 1 \in 1 .. n - 1 /\ i - 1 \in 1 .. Len(b) /\ i = i - 1 + 1)
        BY <1>3, <3>2
      <4>2. i # 1 => c[i] = b[i - 1] /\ i - 1 \in 1 .. n - 1
        BY <1>3, <4>1
      <4> QED  BY <1>1, <1>3, <3>1, <4>2 DEF IsFirst
    <3>5. FirstOf(c, k) = n + 1
      <4>1. IsFirst(c, k, n + 1)
        BY <3>2, <3>3, <3>4 DEF IsFirst
      <4> QED  BY <1>3, <4>1, FirstIs
    <3> QED  BY <2>2, <3>2, <3>3, <3>5 DEF StatsOf, n
  <2> QED  BY <2>1, <2>2
<1>6. StatsOf(b, x) = NoCounts
  BY DEF StatsOf
<1> QED  BY <1>3, <1>4, <1>5, <1>6 DEF KindGrows

\* The counters of a kind change: those of the others do not.
LEMMA KindCounted ==
    ASSUME NEW b \in Seq(KindBucket), NEW x \in Kinds, FirstOf(b, x) # 0, NEW v \in Counters,
           NEW c \in Seq(KindBucket), Len(c) = Len(b),
           c[FirstOf(b, x)] = [kind |-> x, counts |-> v],
           \A i \in 1 .. Len(b) : i # FirstOf(b, x) => c[i] = b[i]
    PROVE  \A k \in Kinds : /\ FirstOf(c, k) # 0 <=> FirstOf(b, k) # 0
                            /\ StatsOf(c, k) = IF k = x THEN v ELSE StatsOf(b, k)
<1> DEFINE n == FirstOf(b, x)
<1>1. IsFirst(b, x, n)
  BY FirstFacts
<1>2. n \in Nat /\ n > 0 /\ n \in 1 .. Len(b) /\ b[n].kind = x /\ Len(b) \in Nat
  BY <1>1 DEF IsFirst
<1>5. c[n].kind = x /\ c[n].counts = v /\ \A i \in 1 .. Len(b) \ {n} : c[i] = b[i]
  OBVIOUS
<1> HIDE DEF n
<1>6. ASSUME NEW k \in Kinds PROVE FirstOf(c, k) = FirstOf(b, k)
  <2>1. \A i \in 1 .. Len(b) : c[i].kind = b[i].kind
    BY <1>2, <1>5
  <2>2. CASE FirstOf(b, k) = 0
    <3>1. NoneOf(c, k)
      <4>1. NoneOf(b, k)
        BY <2>2, FirstFacts DEF IsFirst
      <4> QED  BY <1>5, <2>1, <4>1 DEF NoneOf
    <3> QED  BY <1>5, <2>2, <3>1, NoneFacts
  <2>3. CASE FirstOf(b, k) # 0
    <3>1. IsFirst(b, k, FirstOf(b, k))
      BY <2>3, FirstFacts
    <3>2. \A i \in 1 .. FirstOf(b, k) - 1 : i \in 1 .. Len(b)
      BY <1>2, <3>1 DEF IsFirst
    <3>3. IsFirst(c, k, FirstOf(b, k))
      BY <1>5, <2>1, <3>1, <3>2 DEF IsFirst
    <3> QED  BY <1>5, <3>3, FirstIs
  <2> QED  BY <2>2, <2>3
<1>7. ASSUME NEW k \in Kinds \ {x}, FirstOf(b, k) # 0 PROVE c[FirstOf(b, k)] = b[FirstOf(b, k)]
  <2>1. IsFirst(b, k, FirstOf(b, k))
    BY <1>7, FirstFacts
  <2> QED  BY <1>2, <1>5, <2>1 DEF IsFirst
<1>8. FirstOf(c, x) = n
  BY <1>6 DEF n
<1>9. StatsOf(c, x) = v
  BY <1>2, <1>5, <1>8 DEF StatsOf
<1>10. ASSUME NEW k \in Kinds \ {x} PROVE StatsOf(c, k) = StatsOf(b, k)
  <2>1. FirstOf(c, k) = FirstOf(b, k)
    BY <1>6
  <2>2. CASE FirstOf(b, k) = 0
    BY <2>1, <2>2 DEF StatsOf
  <2>3. CASE FirstOf(b, k) # 0
    <3>1. c[FirstOf(c, k)] = b[FirstOf(b, k)]
      BY <1>7, <2>1, <2>3
    <3> QED  BY ONLY <2>1, <2>3, <3>1 DEF StatsOf
  <2> QED  BY <2>2, <2>3
<1> QED  BY <1>5, <1>6, <1>9, <1>10

\* The registry's own operators are these of its list.
LEMMA RegistryList ==
    ASSUME NEW k
    PROVE  /\ FindKind(k) = FirstOf(kindBuckets, k) /\ GetCoObjectStats(k) = StatsOf(kindBuckets, k)
           /\ FindKind(k)' = FirstOf(kindBuckets', k) /\ GetCoObjectStats(k)' = StatsOf(kindBuckets', k)
<1>1. FindKind(k) = FirstOf(kindBuckets, k)
  BY DEF FindKind, FirstOf, SelectInSeq
<1>2. FindKind(k)' = FirstOf(kindBuckets', k)
  BY DEF FindKind, FirstOf, SelectInSeq
<1> QED  BY <1>1, <1>2 DEF GetCoObjectStats, StatsOf

\* A creation and a destruction count one.
LEMMA Counting ==
    ASSUME NEW n \in Counters
    PROVE  /\ OnCreate(n) \in Counters /\ OnCreate(n).alive = n.alive + 1
           /\ OnDestroy(n) \in Counters /\ OnDestroy(n).alive = n.alive - 1
<1>1. /\ n.created \in Nat /\ n.destroyed \in Nat /\ n.alive \in Int /\ n.peak \in Nat
      /\ n = [created |-> n.created, destroyed |-> n.destroyed, alive |-> n.alive, peak |-> n.peak]
  BY DEF Counters
<1>2. OnCreate(n).alive = n.alive + 1 /\ OnCreate(n).created = n.created + 1 /\ OnCreate(n).destroyed = n.destroyed
      /\ OnCreate(n).peak = IF n.alive + 1 > n.peak THEN n.alive + 1 ELSE n.peak
  BY <1>1 DEF OnCreate
<1>3. OnDestroy(n).alive = n.alive - 1 /\ OnDestroy(n).created = n.created
      /\ OnDestroy(n).destroyed = n.destroyed + 1 /\ OnDestroy(n).peak = n.peak
  BY <1>1 DEF OnDestroy
<1>4. OnCreate(n) \in Counters
  <2> DEFINE p == IF n.alive + 1 > n.peak THEN n.alive + 1 ELSE n.peak
             x == n.created + 1
             y == n.alive + 1
  <2>1. p \in Nat /\ x \in Nat /\ y \in Int
    BY <1>1
  <2>2. OnCreate(n) = [n EXCEPT !.created = x, !.alive = y, !.peak = p]
    BY DEF OnCreate
  <2> HIDE DEF p, x, y
  <2>3. [n EXCEPT !.created = x, !.alive = y, !.peak = p] \in Counters
    BY <2>1 DEF Counters
  <2> QED  BY <2>2, <2>3
<1>5. OnDestroy(n) \in Counters
  <2> DEFINE x == n.destroyed + 1
             y == n.alive - 1
  <2>1. x \in Nat /\ y \in Int
    BY <1>1
  <2>2. OnDestroy(n) = [n EXCEPT !.destroyed = x, !.alive = y]
    BY DEF OnDestroy
  <2> HIDE DEF x, y
  <2>3. [n EXCEPT !.destroyed = x, !.alive = y] \in Counters
    BY <2>1 DEF Counters
  <2> QED  BY <2>2, <2>3
<1> QED  BY <1>2, <1>3, <1>4, <1>5

LEMMA StatsType ==
    ASSUME NEW b \in Seq(KindBucket), NEW k
    PROVE  StatsOf(b, k) \in Counters /\ (FirstOf(b, k) # 0 => b[FirstOf(b, k)].counts = StatsOf(b, k))
<1>1. NoCounts \in Counters
  BY DEF NoCounts, Counters
<1>2. ASSUME FirstOf(b, k) # 0 PROVE b[FirstOf(b, k)].counts \in Counters
  <2>1. FirstOf(b, k) \in 1 .. Len(b)
    BY <1>2, FirstFacts DEF IsFirst
  <2>2. b[FirstOf(b, k)] \in KindBucket
    BY <2>1
  <2> QED  BY <2>2 DEF KindBucket
<1> QED  BY <1>1, <1>2 DEF StatsOf

\* The two countings of a kind.
LEMMA KindStep ==
    ASSUME kindBuckets \in Seq(KindBucket), NEW x \in Kinds, FirstOf(kindBuckets, x) # 0,
           NEW v \in Counters, kindBuckets' = [kindBuckets EXCEPT ![FindKind(x)].counts = v]
    PROVE  /\ kindBuckets' \in Seq(KindBucket)
           /\ \A k \in Kinds : /\ FirstOf(kindBuckets', k) # 0 <=> FirstOf(kindBuckets, k) # 0
                               /\ StatsOf(kindBuckets', k) = IF k = x THEN v ELSE StatsOf(kindBuckets, k)
<1> DEFINE n == FirstOf(kindBuckets, x)
           e == [kind |-> x, counts |-> v]
<1>1. FindKind(x) = n
  BY RegistryList
<1>2. IsFirst(kindBuckets, x, n)
  BY FirstFacts
<1>3. n \in 1 .. Len(kindBuckets) /\ kindBuckets[n].kind = x /\ kindBuckets[n] \in KindBucket
  BY <1>2 DEF IsFirst
<1>4. e \in KindBucket /\ [kindBuckets[n] EXCEPT !.counts = v] = e
  BY <1>3 DEF KindBucket
<1>5. kindBuckets' = [kindBuckets EXCEPT ![n] = [kindBuckets[n] EXCEPT !.counts = v]]
  BY <1>1
<1>6. kindBuckets' = [kindBuckets EXCEPT ![n] = e]
  BY <1>4, <1>5
<1> HIDE DEF n, e
<1>7. /\ [kindBuckets EXCEPT ![n] = e] \in Seq(KindBucket)
      /\ Len([kindBuckets EXCEPT ![n] = e]) = Len(kindBuckets)
      /\ \A j \in 1 .. Len(kindBuckets) : [kindBuckets EXCEPT ![n] = e][j] = IF j = n THEN e ELSE kindBuckets[j]
  BY <1>3, <1>4, ExceptSeq
<1>8. /\ kindBuckets' \in Seq(KindBucket) /\ Len(kindBuckets') = Len(kindBuckets)
      /\ kindBuckets'[n] = e /\ \A j \in 1 .. Len(kindBuckets) : j # n => kindBuckets'[j] = kindBuckets[j]
  BY ONLY <1>3, <1>6, <1>7
<1>9. \A k \in Kinds : /\ FirstOf(kindBuckets', k) # 0 <=> FirstOf(kindBuckets, k) # 0
                      /\ StatsOf(kindBuckets', k) = IF k = x THEN v ELSE StatsOf(kindBuckets, k)
  <2>1. /\ kindBuckets \in Seq(KindBucket) /\ x \in Kinds /\ FirstOf(kindBuckets, x) # 0 /\ v \in Counters
        /\ kindBuckets'[FirstOf(kindBuckets, x)] = [kind |-> x, counts |-> v]
        /\ \A i \in 1 .. Len(kindBuckets) : i # FirstOf(kindBuckets, x) => kindBuckets'[i] = kindBuckets[i]
    BY <1>8 DEF n, e
  <2> QED  BY ONLY <1>8, <2>1, KindCounted
<1> QED  BY <1>8, <1>9

\* The bucket a creation may add.
LEMMA KindBegins ==
    ASSUME kindBuckets \in Seq(KindBucket), NEW x \in Kinds, kindBuckets' = GetOrCreateCounters(x)
    PROVE  /\ kindBuckets' \in Seq(KindBucket)
           /\ \A k \in Kinds : /\ FirstOf(kindBuckets', k) # 0 <=> k = x \/ FirstOf(kindBuckets, k) # 0
                               /\ StatsOf(kindBuckets', k) = StatsOf(kindBuckets, k)
<1>1. FindKind(x) = FirstOf(kindBuckets, x)
  BY RegistryList
<1>2. CASE FirstOf(kindBuckets, x) = 0
  <2>1. kindBuckets' = <<[kind |-> x, counts |-> NoCounts]>> \o kindBuckets
    BY <1>1, <1>2 DEF GetOrCreateCounters
  <2>2. kindBuckets \in Seq(KindBucket) /\ x \in Kinds /\ FirstOf(kindBuckets, x) = 0
    BY <1>2
  <2>3. KindGrows(kindBuckets, x, kindBuckets')
    BY ONLY <2>1, <2>2, KindAdded
  <2> QED  BY ONLY <2>3 DEF KindGrows
<1>3. CASE FirstOf(kindBuckets, x) # 0
  <2>1. kindBuckets' = kindBuckets
    BY <1>1, <1>3 DEF GetOrCreateCounters
  <2> QED  BY <1>3, <2>1
<1> QED  BY <1>2, <1>3

LEMMA RegistryStarts == RegistryInit => RegistryInv
<1> SUFFICES ASSUME RegistryInit PROVE RegistryInv
  OBVIOUS
<1>1. RegistryTypes
  <2>1. kindBuckets = <<>> /\ NoCounts \in Counters
    BY DEF RegistryInit, NoCounts, Counters
  <2>2. RegistryTypeOK
    BY <2>1, RegistryConstants DEF RegistryInit, RegistryTypeOK
  <2> QED  BY <2>1, <2>2 DEF RegistryTypes
<1>2. MutexHeld /\ RefsHeld /\ EndAlone /\ OwnKey
  BY RegistryConstants DEF RegistryInit, MutexHeld, RefsHeld, EndAlone, OwnKey, Holding, Ending
<1>3. (\A t \in Callers : CallRight(t)) /\ (\A o \in CoObjects : ObjectRight(o)) /\ IndexNamesMembers
  BY DEF RegistryInit, CallRight, ObjectRight, IndexNamesMembers, Registered, Ending, ObjOf
<1>4. CountsLiveObjects
  <2>1. counts.alive = 0
    BY DEF RegistryInit, NoCounts
  <2>2. \A k : GetCoObjectStats(k).alive = 0
    <3> TAKE k
    <3>1. kindBuckets \in Seq(KindBucket) /\ NoneOf(kindBuckets, k)
      BY DEF RegistryInit, NoneOf
    <3>2. FirstOf(kindBuckets, k) = 0
      BY <3>1, NoneFacts
    <3>3. GetCoObjectStats(k) = NoCounts
      BY <3>2, RegistryList DEF StatsOf
    <3> QED  BY <3>3 DEF NoCounts
  <2>3. \A o \in CoObjects : stage[o] # "committed"
    BY DEF RegistryInit
  <2>4. {o \in {o \in CoObjects : stage[o] = "committed"} : ~CallAt(o, "kind")} = {}
    BY <2>3
  <2>5. \A k : {o \in {o \in CoObjects : stage[o] = "committed"} : kind[o] = k /\ ~CallAt(o, "counted")} = {}
    BY <2>3
  <2> QED  BY <2>1, <2>2, <2>4, <2>5, FS_EmptySet DEF CountsLiveObjects
<1> QED  BY <1>1, <1>2, <1>3, <1>4 DEF RegistryInv

-----------------------------------------------------------------------------
(* One step.                                                                *)

\* A call's object, and its place.
LEMMA CallFacts ==
    ASSUME RegistryInv, NEW t \in Callers
    PROVE  /\ t # NoCaller /\ t # "user" /\ ObjOf(t) \in CoObjects \cup {NoObject} /\ arg[t][2] \in Keys
           /\ arg[t] \in (CoObjects \cup {NoObject}) \X Keys
           /\ step[t] \in {"made", "counted", "drop", "destroy", "kind", "manager", "unregister"} => ObjOf(t) \in CoObjects
           /\ step[t] \in {"counted", "kind"} =>
                  kind[ObjOf(t)] \in Kinds /\ FirstOf(kindBuckets, kind[ObjOf(t)]) # 0
<1>1. arg[t] \in (CoObjects \cup {NoObject}) \X Keys
  BY DEF RegistryInv, RegistryTypes, RegistryTypeOK
<1>2. CallRight(t)
  BY DEF RegistryInv
<1>3. step[t] \in {"made", "counted", "drop", "destroy", "kind", "manager", "unregister"} => ObjOf(t) \in CoObjects
  BY <1>2 DEF CallRight, Ending
<1>4. step[t] \in {"counted", "kind"} => ObjOf(t) \in CoObjects /\ stage[ObjOf(t)] = "committed"
  BY <1>2, <1>3 DEF CallRight
<1>5. step[t] \in {"counted", "kind"} => kind[ObjOf(t)] \in Kinds /\ FirstOf(kindBuckets, kind[ObjOf(t)]) # 0
  BY <1>4, RegistryList DEF RegistryInv, ObjectRight
<1> QED  BY <1>1, <1>3, <1>5, RegistryConstants DEF ObjOf

LEMMA KindUp ==
    ASSUME RegistryInv, NEW t \in Callers, CountsKind(t)
    PROVE  /\ kindBuckets' \in Seq(KindBucket)
           /\ \A k \in Kinds : /\ FirstOf(kindBuckets', k) # 0 <=> FirstOf(kindBuckets, k) # 0
                               /\ StatsOf(kindBuckets', k) =
                                     IF k = kind[ObjOf(t)] THEN OnCreate(StatsOf(kindBuckets, k)) ELSE StatsOf(kindBuckets, k)
<1> DEFINE x == kind[ObjOf(t)]
           v == OnCreate(StatsOf(kindBuckets, x))
<1>1. /\ kindBuckets \in Seq(KindBucket) /\ x \in Kinds /\ FirstOf(kindBuckets, x) # 0
      /\ FindKind(x) = FirstOf(kindBuckets, x)
  BY CallFacts, RegistryList DEF RegistryInv, RegistryTypes, CountsKind
<1>2. v \in Counters /\ kindBuckets[FindKind(x)].counts = StatsOf(kindBuckets, x)
  <2>1. /\ StatsOf(kindBuckets, x) \in Counters
        /\ FirstOf(kindBuckets, x) # 0 => kindBuckets[FirstOf(kindBuckets, x)].counts = StatsOf(kindBuckets, x)
    BY <1>1, StatsType
  <2> QED  BY <1>1, <2>1, Counting
<1>3. kindBuckets' = [kindBuckets EXCEPT ![FindKind(x)].counts = OnCreate(kindBuckets[FindKind(x)].counts)]
  BY DEF CountsKind, ObjOf
<1>4. kindBuckets' = [kindBuckets EXCEPT ![FindKind(x)].counts = v]
  BY <1>2, <1>3
<1> HIDE DEF x, v
<1>5. /\ kindBuckets' \in Seq(KindBucket)
      /\ \A k \in Kinds : /\ FirstOf(kindBuckets', k) # 0 <=> FirstOf(kindBuckets, k) # 0
                          /\ StatsOf(kindBuckets', k) = IF k = x THEN v ELSE StatsOf(kindBuckets, k)
  BY <1>1, <1>2, <1>4, KindStep
<1> QED  BY <1>5 DEF x, v

LEMMA KindDown ==
    ASSUME RegistryInv, NEW t \in Callers, SettleKind(t)
    PROVE  /\ kindBuckets' \in Seq(KindBucket)
           /\ \A k \in Kinds : /\ FirstOf(kindBuckets', k) # 0 <=> FirstOf(kindBuckets, k) # 0
                               /\ StatsOf(kindBuckets', k) =
                                     IF k = kind[ObjOf(t)] THEN OnDestroy(StatsOf(kindBuckets, k)) ELSE StatsOf(kindBuckets, k)
<1> DEFINE x == kind[ObjOf(t)]
           v == OnDestroy(StatsOf(kindBuckets, x))
<1>1. /\ kindBuckets \in Seq(KindBucket) /\ x \in Kinds /\ FirstOf(kindBuckets, x) # 0
      /\ FindKind(x) = FirstOf(kindBuckets, x)
  BY CallFacts, RegistryList DEF RegistryInv, RegistryTypes, SettleKind
<1>2. v \in Counters /\ kindBuckets[FindKind(x)].counts = StatsOf(kindBuckets, x)
  <2>1. /\ StatsOf(kindBuckets, x) \in Counters
        /\ FirstOf(kindBuckets, x) # 0 => kindBuckets[FirstOf(kindBuckets, x)].counts = StatsOf(kindBuckets, x)
    BY <1>1, StatsType
  <2> QED  BY <1>1, <2>1, Counting
<1>3. kindBuckets' = [kindBuckets EXCEPT ![FindKind(x)].counts = OnDestroy(kindBuckets[FindKind(x)].counts)]
  BY DEF SettleKind, ObjOf
<1>4. kindBuckets' = [kindBuckets EXCEPT ![FindKind(x)].counts = v]
  BY <1>2, <1>3
<1> HIDE DEF x, v
<1>5. /\ kindBuckets' \in Seq(KindBucket)
      /\ \A k \in Kinds : /\ FirstOf(kindBuckets', k) # 0 <=> FirstOf(kindBuckets, k) # 0
                          /\ StatsOf(kindBuckets', k) = IF k = x THEN v ELSE StatsOf(kindBuckets, k)
  BY <1>1, <1>2, <1>4, KindStep
<1> QED  BY <1>5 DEF x, v

\* The actions of one caller.
CallerStep(t) ==
    \/ CreateCommits(t) \/ CountsKind(t) \/ CreateThrows(t) \/ Drops(t) \/ SettleManager(t) \/ SettleKind(t)
    \/ LocksManager(t) \/ OnMemberDestroy(t) \/ QueryUnlocks(t)
    \/ \E o \in CoObjects : UserDrops(t, o) \/ CreatesAgain(t, o) \/ \E k \in Keys, x \in Kinds : CreateBegins(t, o, k, x)
    \/ \E k \in Keys : QueryBegins(t, k)

LEMMA NextCases == RegistryNext => ManagerDropped \/ \E t \in Callers : CallerStep(t)
BY DEF RegistryNext, CallerStep

\* The list keeps its type and its kinds.
LEMMA BucketsStep ==
    ASSUME RegistryInv, RegistryNext
    PROVE  /\ kindBuckets' \in Seq(KindBucket)
           /\ \A k \in Kinds : FirstOf(kindBuckets, k) # 0 => FirstOf(kindBuckets', k) # 0
<1>1. kindBuckets \in Seq(KindBucket)
  BY DEF RegistryInv, RegistryTypes
<1>2. CASE kindBuckets' = kindBuckets
  BY <1>1, <1>2
<1>3. ASSUME NEW t \in Callers, CountsKind(t) \/ SettleKind(t)
      PROVE  /\ kindBuckets' \in Seq(KindBucket)
             /\ \A k \in Kinds : FirstOf(kindBuckets, k) # 0 => FirstOf(kindBuckets', k) # 0
  BY <1>3, KindUp, KindDown
<1>4. ASSUME NEW t \in Callers, NEW o \in CoObjects, NEW k \in Keys, NEW x \in Kinds, CreateBegins(t, o, k, x)
      PROVE  /\ kindBuckets' \in Seq(KindBucket)
             /\ \A y \in Kinds : FirstOf(kindBuckets, y) # 0 => FirstOf(kindBuckets', y) # 0
  <2>1. kindBuckets' = GetOrCreateCounters(x)
    BY <1>4 DEF CreateBegins
  <2> QED  BY <1>1, <2>1, KindBegins
<1>5. \/ kindBuckets' = kindBuckets \/ \E t \in Callers : CountsKind(t) \/ SettleKind(t)
      \/ \E t \in Callers, o \in CoObjects, k \in Keys, x \in Kinds : CreateBegins(t, o, k, x)
  BY DEF RegistryNext, ManagerDropped, CreateCommits, CreateThrows, Drops, SettleManager, LocksManager,
         OnMemberDestroy, QueryUnlocks, UserDrops, CreatesAgain, QueryBegins
<1> QED  BY <1>2, <1>3, <1>4, <1>5

LEMMA RegistryTypesStep ==
    ASSUME RegistryInv, RegistryNext
    PROVE  RegistryTypes'
<1> USE DEF CallReturns, Goes
<1>1. RegistryTypeOK /\ counts \in Counters
  BY DEF RegistryInv, RegistryTypes, RegistryTypeOK
<1>2. OnCreate(counts) \in Counters /\ OnDestroy(counts) \in Counters
  BY <1>1, Counting
<1>3. kindBuckets' \in Seq(KindBucket)
  BY BucketsStep
<1>4. \A i \in DOMAIN kindBuckets' : kindBuckets'[i].kind \in Kinds /\ kindBuckets'[i].counts \in Counters
  <2>1. DOMAIN kindBuckets' = 1 .. Len(kindBuckets')
    BY <1>3
  <2>2. \A i \in 1 .. Len(kindBuckets') : kindBuckets'[i] \in KindBucket
    BY <1>3
  <2> QED  BY <2>1, <2>2 DEF KindBucket
<1>5. counts' \in Counters
  <2>1. CASE ManagerDropped
    BY <1>1, <2>1 DEF ManagerDropped
  <2>2. ASSUME NEW t \in Callers, CallerStep(t)
        PROVE  counts' \in {counts, OnCreate(counts), OnDestroy(counts)}
    <3>1. \/ CreateCommits(t) /\ counts' = OnCreate(counts)
          \/ SettleManager(t) /\ counts' = OnDestroy(counts)
          \/ counts' = counts
      BY <2>2 DEF CallerStep, CreateBegins, CreateCommits, CountsKind, CreateThrows, Drops, SettleManager,
             SettleKind, LocksManager, OnMemberDestroy, QueryUnlocks, UserDrops, CreatesAgain, QueryBegins
    <3> QED  BY <3>1
  <2> QED  BY <1>1, <1>2, <2>1, <2>2, NextCases
<1> DEFINE Rest == /\ step' \in [Callers -> {"idle", "made", "counted", "found", "drop", "destroy", "kind",
                             "manager", "unregister"}]
                   /\ arg' \in [Callers -> (CoObjects \cup {NoObject}) \X Keys]
                   /\ mutex' \in Callers \cup {NoCaller}
                   /\ members' \in [Keys -> CoObjects \cup {NoObject}]
                   /\ key' \in [CoObjects -> Keys] /\ kind' \in [CoObjects -> Kinds \cup {NoKind}]
                   /\ refs' \in [CoObjects -> SUBSET (Callers \cup {"user"})]
                   /\ stage' \in [CoObjects -> {"new", "made", "committed", "settled", "gone"}]
                   /\ manager' \subseteq Callers \cup {"user"}
<1>6. ASSUME ManagerDropped PROVE Rest
  BY <1>1, <1>6 DEF RegistryTypeOK, ManagerDropped
<1>7. ASSUME NEW t \in Callers, CallerStep(t) PROVE Rest
  <2>1. /\ arg[t] \in (CoObjects \cup {NoObject}) \X Keys /\ arg[t][2] \in Keys
        /\ step[t] \in {"made", "counted", "drop", "destroy", "kind", "manager", "unregister"} => arg[t][1] \in CoObjects
    BY CallFacts DEF ObjOf
  <2>2. CASE CreateCommits(t)
    BY <1>1, <2>1, <2>2 DEF RegistryTypeOK, CreateCommits
  <2>3. CASE CountsKind(t)
    BY <1>1, <2>1, <2>3 DEF RegistryTypeOK, CountsKind
  <2>4. CASE CreateThrows(t)
    BY <1>1, <2>1, <2>4 DEF RegistryTypeOK, CreateThrows, Uncommitted
  <2>5. CASE Drops(t)
    <3>1. arg[t][1] \in CoObjects
      BY <2>1, <2>5 DEF Drops
    <3>2. refs' \in [CoObjects -> SUBSET (Callers \cup {"user"})]
      BY <1>1, <2>5, <3>1 DEF RegistryTypeOK, Drops
    <3>3. stage' \in [CoObjects -> {"new", "made", "committed", "settled", "gone"}]
      BY <1>1, <2>5, <3>1 DEF RegistryTypeOK, Drops
    <3>4. /\ step' \in {[step EXCEPT ![t] = l] : l \in {"idle", "destroy"}}
          /\ manager' \in {manager, manager \ {t}}
          /\ UNCHANGED <<arg, mutex, members, key, kind>>
      BY <1>1, <2>5 DEF Drops
    <3> QED  BY <1>1, <3>2, <3>3, <3>4 DEF RegistryTypeOK
  <2>6. CASE SettleManager(t)
    BY <1>1, <2>1, <2>6 DEF RegistryTypeOK, SettleManager
  <2>7. CASE SettleKind(t)
    BY <1>1, <2>1, <2>7 DEF RegistryTypeOK, SettleKind
  <2>8. CASE LocksManager(t)
    BY <1>1, <2>1, <2>8 DEF RegistryTypeOK, LocksManager
  <2>9. CASE OnMemberDestroy(t)
    BY <1>1, <2>1, <2>9 DEF RegistryTypeOK, OnMemberDestroy
  <2>10. CASE QueryUnlocks(t)
    BY <1>1, <2>1, <2>10 DEF RegistryTypeOK, QueryUnlocks, LockEndsFirst
  <2>11. ASSUME NEW o \in CoObjects, UserDrops(t, o) PROVE Rest
    BY <1>1, <2>1, <2>11 DEF RegistryTypeOK, UserDrops
  <2>12. ASSUME NEW o \in CoObjects, CreatesAgain(t, o) PROVE Rest
    BY <1>1, <2>1, <2>12 DEF RegistryTypeOK, CreatesAgain
  <2>13. ASSUME NEW o \in CoObjects, NEW k \in Keys, NEW x \in Kinds, CreateBegins(t, o, k, x) PROVE Rest
    BY <1>1, <2>1, <2>13 DEF RegistryTypeOK, CreateBegins
  <2>14. ASSUME NEW k \in Keys, QueryBegins(t, k) PROVE Rest
    BY <1>1, <2>1, <2>14 DEF RegistryTypeOK, QueryBegins
  <2> HIDE DEF Rest
  <2> QED  BY <1>7, <2>2, <2>3, <2>4, <2>5, <2>6, <2>7, <2>8, <2>9, <2>10, <2>11, <2>12, <2>13, <2>14 DEF CallerStep
<1>8. Rest
  BY <1>6, <1>7, NextCases
<1> QED  BY <1>3, <1>4, <1>5, <1>8 DEF RegistryTypes, RegistryTypeOK

\* What a step does to the calls and to what they know of their objects.
CallsKnow == MutexHeld /\ RefsHeld /\ EndAlone /\ \A t \in Callers : CallRight(t)

\* What a call's step knows at its start.
RegistryKnown == 
    /\ step \in [Callers -> {"idle", "made", "counted", "found", "drop", "destroy", "kind", "manager", "unregister"}]
    /\ arg \in [Callers -> (CoObjects \cup {NoObject}) \X Keys]
    /\ refs \in [CoObjects -> SUBSET (Callers \cup {"user"})]
    /\ stage \in [CoObjects -> {"new", "made", "committed", "settled", "gone"}]
    /\ key \in [CoObjects -> Keys] /\ mutex \in Callers \cup {NoCaller}
    /\ NoObject \notin CoObjects /\ NoCaller \notin Callers /\ "user" \notin Callers
    /\ CallsKnow /\ \A o \in CoObjects : "user" \in refs[o] => stage[o] = "committed"

LEMMA KnownAtStep == RegistryInv => RegistryKnown
BY RegistryConstants DEF RegistryInv, RegistryTypes, RegistryTypeOK, RegistryKnown, CallsKnow, ObjectRight

LEMMA CallsCreateCommits ==
    ASSUME RegistryKnown, NEW t \in Callers, CreateCommits(t)
    PROVE  CallsKnow'
<1> USE DEF CreateCommits, Goes, Holding, Ending, ObjOf, RegistryKnown, CallsKnow
<1>1. CallRight(t)
  OBVIOUS
<1>2. MutexHeld'
  BY DEF MutexHeld
<1>3. RefsHeld'
  BY <1>1 DEF MutexHeld, RefsHeld, CallRight
<1>4. EndAlone'
  BY <1>1 DEF MutexHeld, RefsHeld, EndAlone, CallRight
<1>5. CallRight(t)'
  BY <1>1 DEF MutexHeld, RefsHeld, CallRight
<1>6. ASSUME NEW u \in Callers \ {t} PROVE CallRight(u)'
  BY <1>1 DEF MutexHeld, RefsHeld, EndAlone, CallRight
<1> QED  BY <1>2, <1>3, <1>4, <1>5, <1>6

LEMMA CallsCountsKind ==
    ASSUME RegistryKnown, NEW t \in Callers, CountsKind(t)
    PROVE  CallsKnow'
<1> USE DEF CountsKind, CallReturns, Goes, Holding, Ending, ObjOf, RegistryKnown, CallsKnow
<1>1. CallRight(t)
  OBVIOUS
<1>2. MutexHeld'
  BY DEF MutexHeld
<1>3. RefsHeld'
  BY <1>1 DEF MutexHeld, RefsHeld, CallRight
<1>4. EndAlone'
  BY <1>1 DEF MutexHeld, RefsHeld, EndAlone, CallRight
<1>5. CallRight(t)'
  BY <1>1 DEF MutexHeld, RefsHeld, CallRight
<1>6. ASSUME NEW u \in Callers \ {t} PROVE CallRight(u)'
  BY <1>1 DEF MutexHeld, RefsHeld, EndAlone, CallRight
<1> QED  BY <1>2, <1>3, <1>4, <1>5, <1>6

LEMMA CallsCreateThrows ==
    ASSUME RegistryKnown, NEW t \in Callers, CreateThrows(t)
    PROVE  CallsKnow'
<1> USE DEF CreateThrows, Uncommitted, Goes, Holding, Ending, ObjOf, RegistryKnown, CallsKnow
<1>1. CallRight(t)
  OBVIOUS
<1>2. MutexHeld'
  BY DEF MutexHeld
<1>3. RefsHeld'
  BY <1>1 DEF MutexHeld, RefsHeld, CallRight
<1>4. EndAlone'
  BY <1>1 DEF MutexHeld, RefsHeld, EndAlone, CallRight
<1>5. CallRight(t)'
  BY <1>1 DEF MutexHeld, RefsHeld, CallRight
<1>6. ASSUME NEW u \in Callers \ {t} PROVE CallRight(u)'
  BY <1>1 DEF MutexHeld, RefsHeld, EndAlone, CallRight
<1> QED  BY <1>2, <1>3, <1>4, <1>5, <1>6

LEMMA CallsDrops ==
    ASSUME RegistryKnown, NEW t \in Callers, Drops(t)
    PROVE  CallsKnow'
<1> USE DEF Drops, CallReturns, Goes, Holding, Ending, ObjOf, RegistryKnown, CallsKnow
<1>1. CallRight(t)
  OBVIOUS
<1>2. MutexHeld'
  BY DEF MutexHeld
<1>3. RefsHeld'
  BY <1>1 DEF MutexHeld, RefsHeld, CallRight
<1>4. EndAlone'
  BY <1>1 DEF MutexHeld, RefsHeld, EndAlone, CallRight
<1>5. CallRight(t)'
  BY <1>1 DEF MutexHeld, RefsHeld, CallRight
<1>6. ASSUME NEW u \in Callers \ {t} PROVE CallRight(u)'
  BY <1>1 DEF MutexHeld, RefsHeld, EndAlone, CallRight
<1> QED  BY <1>2, <1>3, <1>4, <1>5, <1>6

LEMMA CallsSettleManager ==
    ASSUME RegistryKnown, NEW t \in Callers, SettleManager(t)
    PROVE  CallsKnow'
<1> USE DEF SettleManager, Goes, Holding, Ending, ObjOf, RegistryKnown, CallsKnow
<1>1. CallRight(t)
  OBVIOUS
<1>2. MutexHeld'
  BY DEF MutexHeld
<1>3. RefsHeld'
  BY <1>1 DEF MutexHeld, RefsHeld, CallRight
<1>4. EndAlone'
  BY <1>1 DEF MutexHeld, RefsHeld, EndAlone, CallRight
<1>5. CallRight(t)'
  BY <1>1 DEF MutexHeld, RefsHeld, CallRight
<1>6. ASSUME NEW u \in Callers \ {t} PROVE CallRight(u)'
  BY <1>1 DEF MutexHeld, RefsHeld, EndAlone, CallRight
<1> QED  BY <1>2, <1>3, <1>4, <1>5, <1>6

LEMMA CallsSettleKind ==
    ASSUME RegistryKnown, NEW t \in Callers, SettleKind(t)
    PROVE  CallsKnow'
<1> USE DEF SettleKind, Goes, Holding, Ending, ObjOf, RegistryKnown, CallsKnow
<1>1. CallRight(t)
  OBVIOUS
<1>2. MutexHeld'
  BY DEF MutexHeld
<1>3. RefsHeld'
  BY <1>1 DEF MutexHeld, RefsHeld, CallRight
<1>4. EndAlone'
  BY <1>1 DEF MutexHeld, RefsHeld, EndAlone, CallRight
<1>5. CallRight(t)'
  BY <1>1 DEF MutexHeld, RefsHeld, CallRight
<1>6. ASSUME NEW u \in Callers \ {t} PROVE CallRight(u)'
  BY <1>1 DEF MutexHeld, RefsHeld, EndAlone, CallRight
<1> QED  BY <1>2, <1>3, <1>4, <1>5, <1>6

LEMMA CallsLocksManager ==
    ASSUME RegistryKnown, NEW t \in Callers, LocksManager(t)
    PROVE  CallsKnow'
<1> USE DEF LocksManager, CallReturns, Goes, Holding, Ending, ObjOf, RegistryKnown, CallsKnow
<1>1. CallRight(t)
  OBVIOUS
<1>2. MutexHeld'
  BY DEF MutexHeld
<1>3. RefsHeld'
  BY <1>1 DEF MutexHeld, RefsHeld, CallRight
<1>4. EndAlone'
  BY <1>1 DEF MutexHeld, RefsHeld, EndAlone, CallRight
<1>5. CallRight(t)'
  BY <1>1 DEF MutexHeld, RefsHeld, CallRight
<1>6. ASSUME NEW u \in Callers \ {t} PROVE CallRight(u)'
  BY <1>1 DEF MutexHeld, RefsHeld, EndAlone, CallRight
<1> QED  BY <1>2, <1>3, <1>4, <1>5, <1>6

LEMMA CallsOnMemberDestroy ==
    ASSUME RegistryKnown, NEW t \in Callers, OnMemberDestroy(t)
    PROVE  CallsKnow'
<1> USE DEF OnMemberDestroy, CallReturns, Goes, Holding, Ending, ObjOf, RegistryKnown, CallsKnow
<1>1. CallRight(t)
  OBVIOUS
<1>2. MutexHeld'
  BY DEF MutexHeld
<1>3. RefsHeld'
  BY <1>1 DEF MutexHeld, RefsHeld, CallRight
<1>4. EndAlone'
  BY <1>1 DEF MutexHeld, RefsHeld, EndAlone, CallRight
<1>5. CallRight(t)'
  BY <1>1 DEF MutexHeld, RefsHeld, CallRight
<1>6. ASSUME NEW u \in Callers \ {t} PROVE CallRight(u)'
  BY <1>1 DEF MutexHeld, RefsHeld, EndAlone, CallRight
<1> QED  BY <1>2, <1>3, <1>4, <1>5, <1>6

LEMMA CallsQueryUnlocks ==
    ASSUME RegistryKnown, NEW t \in Callers, QueryUnlocks(t)
    PROVE  CallsKnow'
<1> USE DEF QueryUnlocks, LockEndsFirst, CallReturns, Goes, Holding, Ending, ObjOf, RegistryKnown, CallsKnow
<1>1. CallRight(t)
  OBVIOUS
<1>2. MutexHeld'
  BY DEF MutexHeld
<1>3. RefsHeld'
  BY <1>1 DEF MutexHeld, RefsHeld, CallRight
<1>4. EndAlone'
  BY <1>1 DEF MutexHeld, RefsHeld, EndAlone, CallRight
<1>5. CallRight(t)'
  BY <1>1 DEF MutexHeld, RefsHeld, CallRight
<1>6. ASSUME NEW u \in Callers \ {t} PROVE CallRight(u)'
  BY <1>1 DEF MutexHeld, RefsHeld, EndAlone, CallRight
<1> QED  BY <1>2, <1>3, <1>4, <1>5, <1>6

LEMMA CallsUserDrops ==
    ASSUME RegistryKnown, NEW t \in Callers, NEW o \in CoObjects, UserDrops(t, o)
    PROVE  CallsKnow'
<1> USE DEF UserDrops, Goes, Holding, Ending, ObjOf, RegistryKnown, CallsKnow
<1>1. CallRight(t)
  OBVIOUS
<1>2. MutexHeld'
  BY DEF MutexHeld
<1>3. RefsHeld'
  BY <1>1 DEF MutexHeld, RefsHeld, CallRight
<1>4. EndAlone'
  BY <1>1 DEF MutexHeld, RefsHeld, EndAlone, CallRight
<1>5. CallRight(t)'
  BY <1>1 DEF MutexHeld, RefsHeld, CallRight
<1>6. ASSUME NEW u \in Callers \ {t} PROVE CallRight(u)'
  BY <1>1 DEF MutexHeld, RefsHeld, EndAlone, CallRight
<1> QED  BY <1>2, <1>3, <1>4, <1>5, <1>6

LEMMA CallsCreatesAgain ==
    ASSUME RegistryKnown, NEW t \in Callers, NEW o \in CoObjects, CreatesAgain(t, o)
    PROVE  CallsKnow'
<1> USE DEF CreatesAgain, Goes, Holding, Ending, ObjOf, RegistryKnown, CallsKnow
<1>1. CallRight(t)
  OBVIOUS
<1>2. MutexHeld'
  BY DEF MutexHeld
<1>3. RefsHeld'
  BY <1>1 DEF MutexHeld, RefsHeld, CallRight
<1>4. EndAlone'
  BY <1>1 DEF MutexHeld, RefsHeld, EndAlone, CallRight
<1>5. CallRight(t)'
  BY <1>1 DEF MutexHeld, RefsHeld, CallRight
<1>6. ASSUME NEW u \in Callers \ {t} PROVE CallRight(u)'
  BY <1>1 DEF MutexHeld, RefsHeld, EndAlone, CallRight
<1> QED  BY <1>2, <1>3, <1>4, <1>5, <1>6

LEMMA CallsCreateBegins ==
    ASSUME RegistryKnown, NEW t \in Callers, NEW o \in CoObjects, NEW k \in Keys, NEW x \in Kinds, CreateBegins(t, o, k, x)
    PROVE  CallsKnow'
<1> USE DEF CreateBegins, Goes, Holding, Ending, ObjOf, RegistryKnown, CallsKnow
<1>1. CallRight(t)
  OBVIOUS
<1>2. MutexHeld'
  BY DEF MutexHeld
<1>3. RefsHeld'
  BY <1>1 DEF MutexHeld, RefsHeld, CallRight
<1>4. EndAlone'
  BY <1>1 DEF MutexHeld, RefsHeld, EndAlone, CallRight
<1>5. CallRight(t)'
  BY <1>1 DEF MutexHeld, RefsHeld, CallRight
<1>6. ASSUME NEW u \in Callers \ {t} PROVE CallRight(u)'
  BY <1>1 DEF MutexHeld, RefsHeld, EndAlone, CallRight
<1> QED  BY <1>2, <1>3, <1>4, <1>5, <1>6

LEMMA CallsQueryBegins ==
    ASSUME RegistryKnown, NEW t \in Callers, NEW k \in Keys, QueryBegins(t, k)
    PROVE  CallsKnow'
<1> USE DEF QueryBegins, Held, Goes, Holding, Ending, ObjOf, RegistryKnown, CallsKnow
<1>1. CallRight(t)
  OBVIOUS
<1>2. MutexHeld'
  BY DEF MutexHeld
<1>3. RefsHeld'
  BY <1>1 DEF MutexHeld, RefsHeld, CallRight
<1>4. EndAlone'
  BY <1>1 DEF MutexHeld, RefsHeld, EndAlone, CallRight
<1>5. CallRight(t)'
  BY <1>1 DEF MutexHeld, RefsHeld, CallRight
<1>6. ASSUME NEW u \in Callers \ {t} PROVE CallRight(u)'
  BY <1>1 DEF MutexHeld, RefsHeld, EndAlone, CallRight
<1> QED  BY <1>2, <1>3, <1>4, <1>5, <1>6

\* What a step does to the objects, and to the index.
ObjectsKnow == \A o \in CoObjects : ObjectRight(o)
IndexRight == OwnKey /\ IndexNamesMembers
IndexTypes == members \in [Keys -> CoObjects \cup {NoObject}] /\ kind \in [CoObjects -> Kinds \cup {NoKind}]

LEMMA IndexCreateCommits ==
    ASSUME RegistryKnown, IndexTypes, ObjectsKnow, IndexRight, kindBuckets \in Seq(KindBucket),
           \A y \in Kinds : FirstOf(kindBuckets, y) # 0 => FirstOf(kindBuckets', y) # 0,
           NEW t \in Callers, CreateCommits(t)
    PROVE  ObjectsKnow' /\ IndexRight'
<1> USE DEF CreateCommits, Goes, Holding, Ending, ObjOf, RegistryKnown, CallsKnow, IndexTypes
<1>1. CallRight(t)
  OBVIOUS
<1>2. /\ kindBuckets \in Seq(KindBucket)
      /\ \A y \in Kinds : FirstOf(kindBuckets, y) # 0 => FirstOf(kindBuckets', y) # 0
  OBVIOUS
<1>4. ObjectsKnow'
  <2>1. ASSUME NEW p \in CoObjects PROVE ObjectRight(p)'
    BY <1>1, <1>2, RegistryList DEF CallRight, ObjectRight, ObjectsKnow
  <2> QED  BY <2>1 DEF ObjectsKnow
<1>5. OwnKey'
  BY <1>1 DEF IndexRight, OwnKey, IndexNamesMembers, Registered, CallRight
<1>6. IndexNamesMembers'
  <2>1. /\ ObjOf(t) \in CoObjects /\ arg[t][2] \in Keys /\ stage[ObjOf(t)] = "made" /\ key[ObjOf(t)] = arg[t][2]
        /\ members[arg[t][2]] = NoObject /\ manager' = manager /\ key' = key
        /\ members' = [members EXCEPT ![arg[t][2]] = ObjOf(t)] /\ stage' = [stage EXCEPT ![ObjOf(t)] = "committed"]
    BY <1>1 DEF CallRight, Duplicate
  <2>2. ASSUME manager # {}, NEW p \in Registered' PROVE members'[key[p]] = p
    <3>1. p = ObjOf(t) \/ p \in Registered
      BY <2>1, <2>2 DEF Registered
    <3> QED  BY <2>1, <2>2, <3>1 DEF IndexRight, IndexNamesMembers, Registered
  <2>3. ASSUME manager # {}, NEW k \in Keys, members'[k] # NoObject PROVE members'[k] \in Registered'
    <3>1. k = arg[t][2] \/ members[k] \in Registered
      BY <2>1, <2>3 DEF IndexRight, IndexNamesMembers
    <3> QED  BY <2>1, <2>3, <3>1 DEF Registered
  <2> QED  BY <2>1, <2>2, <2>3 DEF IndexNamesMembers
<1> QED  BY <1>4, <1>5, <1>6 DEF IndexRight

LEMMA IndexCountsKind ==
    ASSUME RegistryKnown, IndexTypes, ObjectsKnow, IndexRight, kindBuckets \in Seq(KindBucket),
           \A y \in Kinds : FirstOf(kindBuckets, y) # 0 => FirstOf(kindBuckets', y) # 0,
           NEW t \in Callers, CountsKind(t)
    PROVE  ObjectsKnow' /\ IndexRight'
<1> USE DEF CountsKind, CallReturns, Goes, Holding, Ending, ObjOf, RegistryKnown, CallsKnow, IndexTypes
<1>1. CallRight(t)
  OBVIOUS
<1>2. /\ kindBuckets \in Seq(KindBucket)
      /\ \A y \in Kinds : FirstOf(kindBuckets, y) # 0 => FirstOf(kindBuckets', y) # 0
  OBVIOUS
<1>3. /\ kind' = kind /\ refs \in [CoObjects -> SUBSET (Callers \cup {"user"})]
      /\ stage \in [CoObjects -> {"new", "made", "committed", "settled", "gone"}] /\ ObjectsKnow
      /\ stage' = stage /\ refs' = [refs EXCEPT ![ObjOf(t)] = {"user"}] /\ stage[ObjOf(t)] = "committed"
  BY <1>1 DEF CallRight
<1>4. ObjectsKnow'
  <2>1. ASSUME NEW p \in CoObjects PROVE ObjectRight(p)'
    BY ONLY <1>2, <1>3, <2>1, RegistryList DEF ObjectRight, ObjectsKnow
  <2> QED  BY <2>1 DEF ObjectsKnow
<1>5. OwnKey'
  BY <1>1 DEF IndexRight, OwnKey, IndexNamesMembers, Registered, CallRight
<1>6. IndexNamesMembers'
  BY <1>1 DEF IndexRight, OwnKey, IndexNamesMembers, Registered, CallRight
<1> QED  BY <1>4, <1>5, <1>6 DEF IndexRight

LEMMA IndexCreateThrows ==
    ASSUME RegistryKnown, IndexTypes, ObjectsKnow, IndexRight, kindBuckets \in Seq(KindBucket),
           \A y \in Kinds : FirstOf(kindBuckets, y) # 0 => FirstOf(kindBuckets', y) # 0,
           NEW t \in Callers, CreateThrows(t)
    PROVE  ObjectsKnow' /\ IndexRight'
<1> USE DEF CreateThrows, Uncommitted, Goes, Holding, Ending, ObjOf, RegistryKnown, CallsKnow, IndexTypes
<1>1. CallRight(t)
  OBVIOUS
<1>2. /\ kindBuckets \in Seq(KindBucket)
      /\ \A y \in Kinds : FirstOf(kindBuckets, y) # 0 => FirstOf(kindBuckets', y) # 0
  OBVIOUS
<1>4. ObjectsKnow'
  <2>1. ASSUME NEW p \in CoObjects PROVE ObjectRight(p)'
    BY <1>1, <1>2, RegistryList DEF CallRight, ObjectRight, ObjectsKnow
  <2> QED  BY <2>1 DEF ObjectsKnow
<1>5. OwnKey'
  BY <1>1 DEF IndexRight, OwnKey, IndexNamesMembers, Registered, CallRight
<1>6. IndexNamesMembers'
  BY <1>1 DEF IndexRight, OwnKey, IndexNamesMembers, Registered, CallRight
<1> QED  BY <1>4, <1>5, <1>6 DEF IndexRight

LEMMA IndexDrops ==
    ASSUME RegistryKnown, IndexTypes, ObjectsKnow, IndexRight, kindBuckets \in Seq(KindBucket),
           \A y \in Kinds : FirstOf(kindBuckets, y) # 0 => FirstOf(kindBuckets', y) # 0,
           NEW t \in Callers, Drops(t)
    PROVE  ObjectsKnow' /\ IndexRight'
<1> USE DEF Drops, CallReturns, Goes, Holding, Ending, ObjOf, RegistryKnown, CallsKnow, IndexTypes
<1>1. CallRight(t)
  OBVIOUS
<1>2. /\ kindBuckets \in Seq(KindBucket)
      /\ \A y \in Kinds : FirstOf(kindBuckets, y) # 0 => FirstOf(kindBuckets', y) # 0
  OBVIOUS
<1>4. ObjectsKnow'
  <2>1. ASSUME NEW p \in CoObjects PROVE ObjectRight(p)'
    BY <1>1, <1>2, RegistryList DEF CallRight, ObjectRight, ObjectsKnow
  <2> QED  BY <2>1 DEF ObjectsKnow
<1>5. OwnKey'
  BY <1>1 DEF IndexRight, OwnKey, IndexNamesMembers, Registered, CallRight
<1>6. IndexNamesMembers'
  BY <1>1 DEF IndexRight, OwnKey, IndexNamesMembers, Registered, CallRight
<1> QED  BY <1>4, <1>5, <1>6 DEF IndexRight

LEMMA IndexSettleManager ==
    ASSUME RegistryKnown, IndexTypes, ObjectsKnow, IndexRight, kindBuckets \in Seq(KindBucket),
           \A y \in Kinds : FirstOf(kindBuckets, y) # 0 => FirstOf(kindBuckets', y) # 0,
           NEW t \in Callers, SettleManager(t)
    PROVE  ObjectsKnow' /\ IndexRight'
<1> USE DEF SettleManager, Goes, Holding, Ending, ObjOf, RegistryKnown, CallsKnow, IndexTypes
<1>1. CallRight(t)
  OBVIOUS
<1>2. /\ kindBuckets \in Seq(KindBucket)
      /\ \A y \in Kinds : FirstOf(kindBuckets, y) # 0 => FirstOf(kindBuckets', y) # 0
  OBVIOUS
<1>4. ObjectsKnow'
  <2>1. ASSUME NEW p \in CoObjects PROVE ObjectRight(p)'
    BY <1>1, <1>2, RegistryList DEF CallRight, ObjectRight, ObjectsKnow
  <2> QED  BY <2>1 DEF ObjectsKnow
<1>5. OwnKey'
  BY <1>1 DEF IndexRight, OwnKey, IndexNamesMembers, Registered, CallRight
<1>6. IndexNamesMembers'
  BY <1>1 DEF IndexRight, OwnKey, IndexNamesMembers, Registered, CallRight
<1> QED  BY <1>4, <1>5, <1>6 DEF IndexRight

LEMMA IndexSettleKind ==
    ASSUME RegistryKnown, IndexTypes, ObjectsKnow, IndexRight, kindBuckets \in Seq(KindBucket),
           \A y \in Kinds : FirstOf(kindBuckets, y) # 0 => FirstOf(kindBuckets', y) # 0,
           NEW t \in Callers, SettleKind(t)
    PROVE  ObjectsKnow' /\ IndexRight'
<1> USE DEF SettleKind, Goes, Holding, Ending, ObjOf, RegistryKnown, CallsKnow, IndexTypes
<1>1. CallRight(t)
  OBVIOUS
<1>2. /\ kindBuckets \in Seq(KindBucket)
      /\ \A y \in Kinds : FirstOf(kindBuckets, y) # 0 => FirstOf(kindBuckets', y) # 0
  OBVIOUS
<1>3. /\ kind' = kind /\ refs \in [CoObjects -> SUBSET (Callers \cup {"user"})]
      /\ stage \in [CoObjects -> {"new", "made", "committed", "settled", "gone"}] /\ ObjectsKnow
      /\ refs' = refs /\ stage' = [stage EXCEPT ![ObjOf(t)] = "settled"] /\ stage[ObjOf(t)] = "committed" /\ refs[ObjOf(t)] = {}
  BY <1>1 DEF CallRight
<1>4. ObjectsKnow'
  <2>1. ASSUME NEW p \in CoObjects PROVE ObjectRight(p)'
    BY ONLY <1>2, <1>3, <2>1, RegistryList DEF ObjectRight, ObjectsKnow
  <2> QED  BY <2>1 DEF ObjectsKnow
<1>5. OwnKey'
  BY <1>1 DEF IndexRight, OwnKey, IndexNamesMembers, Registered, CallRight
<1>6. IndexNamesMembers'
  BY <1>1 DEF IndexRight, OwnKey, IndexNamesMembers, Registered, CallRight
<1> QED  BY <1>4, <1>5, <1>6 DEF IndexRight

LEMMA IndexLocksManager ==
    ASSUME RegistryKnown, IndexTypes, ObjectsKnow, IndexRight, kindBuckets \in Seq(KindBucket),
           \A y \in Kinds : FirstOf(kindBuckets, y) # 0 => FirstOf(kindBuckets', y) # 0,
           NEW t \in Callers, LocksManager(t)
    PROVE  ObjectsKnow' /\ IndexRight'
<1> USE DEF LocksManager, CallReturns, Goes, Holding, Ending, ObjOf, RegistryKnown, CallsKnow, IndexTypes
<1>1. CallRight(t)
  OBVIOUS
<1>2. /\ kindBuckets \in Seq(KindBucket)
      /\ \A y \in Kinds : FirstOf(kindBuckets, y) # 0 => FirstOf(kindBuckets', y) # 0
  OBVIOUS
<1>4. ObjectsKnow'
  <2>1. ASSUME NEW p \in CoObjects PROVE ObjectRight(p)'
    BY <1>1, <1>2, RegistryList DEF CallRight, ObjectRight, ObjectsKnow
  <2> QED  BY <2>1 DEF ObjectsKnow
<1>5. OwnKey'
  BY <1>1 DEF IndexRight, OwnKey, IndexNamesMembers, Registered, CallRight
<1>6. IndexNamesMembers'
  BY <1>1 DEF IndexRight, OwnKey, IndexNamesMembers, Registered, CallRight
<1> QED  BY <1>4, <1>5, <1>6 DEF IndexRight

LEMMA IndexOnMemberDestroy ==
    ASSUME RegistryKnown, IndexTypes, ObjectsKnow, IndexRight, kindBuckets \in Seq(KindBucket),
           \A y \in Kinds : FirstOf(kindBuckets, y) # 0 => FirstOf(kindBuckets', y) # 0,
           NEW t \in Callers, OnMemberDestroy(t)
    PROVE  ObjectsKnow' /\ IndexRight'
<1> USE DEF OnMemberDestroy, CallReturns, Goes, Holding, Ending, ObjOf, RegistryKnown, CallsKnow, IndexTypes
<1>1. CallRight(t)
  OBVIOUS
<1>2. /\ kindBuckets \in Seq(KindBucket)
      /\ \A y \in Kinds : FirstOf(kindBuckets, y) # 0 => FirstOf(kindBuckets', y) # 0
  OBVIOUS
<1>4. ObjectsKnow'
  <2>1. ASSUME NEW p \in CoObjects PROVE ObjectRight(p)'
    BY <1>1, <1>2, RegistryList DEF CallRight, ObjectRight, ObjectsKnow
  <2> QED  BY <2>1 DEF ObjectsKnow
<1>5. OwnKey'
  BY <1>1 DEF IndexRight, OwnKey, IndexNamesMembers, Registered, CallRight
<1>6. IndexNamesMembers'
  BY <1>1 DEF IndexRight, OwnKey, IndexNamesMembers, Registered, CallRight
<1> QED  BY <1>4, <1>5, <1>6 DEF IndexRight

LEMMA IndexQueryUnlocks ==
    ASSUME RegistryKnown, IndexTypes, ObjectsKnow, IndexRight, kindBuckets \in Seq(KindBucket),
           \A y \in Kinds : FirstOf(kindBuckets, y) # 0 => FirstOf(kindBuckets', y) # 0,
           NEW t \in Callers, QueryUnlocks(t)
    PROVE  ObjectsKnow' /\ IndexRight'
<1> USE DEF QueryUnlocks, LockEndsFirst, CallReturns, Goes, Holding, Ending, ObjOf, RegistryKnown, CallsKnow, IndexTypes
<1>1. CallRight(t)
  OBVIOUS
<1>2. /\ kindBuckets \in Seq(KindBucket)
      /\ \A y \in Kinds : FirstOf(kindBuckets, y) # 0 => FirstOf(kindBuckets', y) # 0
  OBVIOUS
<1>4. ObjectsKnow'
  <2>1. ASSUME NEW p \in CoObjects PROVE ObjectRight(p)'
    BY <1>1, <1>2, RegistryList DEF CallRight, ObjectRight, ObjectsKnow
  <2> QED  BY <2>1 DEF ObjectsKnow
<1>5. OwnKey'
  BY <1>1 DEF IndexRight, OwnKey, IndexNamesMembers, Registered, CallRight
<1>6. IndexNamesMembers'
  BY <1>1 DEF IndexRight, OwnKey, IndexNamesMembers, Registered, CallRight
<1> QED  BY <1>4, <1>5, <1>6 DEF IndexRight

LEMMA IndexUserDrops ==
    ASSUME RegistryKnown, IndexTypes, ObjectsKnow, IndexRight, kindBuckets \in Seq(KindBucket),
           \A y \in Kinds : FirstOf(kindBuckets, y) # 0 => FirstOf(kindBuckets', y) # 0,
           NEW t \in Callers, NEW o \in CoObjects, UserDrops(t, o)
    PROVE  ObjectsKnow' /\ IndexRight'
<1> USE DEF UserDrops, Goes, Holding, Ending, ObjOf, RegistryKnown, CallsKnow, IndexTypes
<1>1. CallRight(t)
  OBVIOUS
<1>2. /\ kindBuckets \in Seq(KindBucket)
      /\ \A y \in Kinds : FirstOf(kindBuckets, y) # 0 => FirstOf(kindBuckets', y) # 0
  OBVIOUS
<1>4. ObjectsKnow'
  <2>1. ASSUME NEW p \in CoObjects PROVE ObjectRight(p)'
    BY <1>1, <1>2, RegistryList DEF CallRight, ObjectRight, ObjectsKnow
  <2> QED  BY <2>1 DEF ObjectsKnow
<1>5. OwnKey'
  BY <1>1 DEF IndexRight, OwnKey, IndexNamesMembers, Registered, CallRight
<1>6. IndexNamesMembers'
  BY <1>1 DEF IndexRight, OwnKey, IndexNamesMembers, Registered, CallRight
<1> QED  BY <1>4, <1>5, <1>6 DEF IndexRight

LEMMA IndexCreatesAgain ==
    ASSUME RegistryKnown, IndexTypes, ObjectsKnow, IndexRight, kindBuckets \in Seq(KindBucket),
           \A y \in Kinds : FirstOf(kindBuckets, y) # 0 => FirstOf(kindBuckets', y) # 0,
           NEW t \in Callers, NEW o \in CoObjects, CreatesAgain(t, o)
    PROVE  ObjectsKnow' /\ IndexRight'
<1> USE DEF CreatesAgain, Goes, Holding, Ending, ObjOf, RegistryKnown, CallsKnow, IndexTypes
<1>1. CallRight(t)
  OBVIOUS
<1>2. /\ kindBuckets \in Seq(KindBucket)
      /\ \A y \in Kinds : FirstOf(kindBuckets, y) # 0 => FirstOf(kindBuckets', y) # 0
  OBVIOUS
<1>4. ObjectsKnow'
  <2>1. ASSUME NEW p \in CoObjects PROVE ObjectRight(p)'
    BY <1>1, <1>2, RegistryList DEF CallRight, ObjectRight, ObjectsKnow
  <2> QED  BY <2>1 DEF ObjectsKnow
<1>5. OwnKey'
  BY <1>1 DEF IndexRight, OwnKey, IndexNamesMembers, Registered, CallRight
<1>6. IndexNamesMembers'
  BY <1>1 DEF IndexRight, OwnKey, IndexNamesMembers, Registered, CallRight
<1> QED  BY <1>4, <1>5, <1>6 DEF IndexRight

LEMMA IndexCreateBegins ==
    ASSUME RegistryKnown, IndexTypes, ObjectsKnow, IndexRight, kindBuckets \in Seq(KindBucket),
           \A y \in Kinds : FirstOf(kindBuckets, y) # 0 => FirstOf(kindBuckets', y) # 0,
           NEW t \in Callers, NEW o \in CoObjects, NEW k \in Keys, NEW x \in Kinds, CreateBegins(t, o, k, x)
    PROVE  ObjectsKnow' /\ IndexRight'
<1> USE DEF CreateBegins, Goes, Holding, Ending, ObjOf, RegistryKnown, CallsKnow, IndexTypes
<1>1. CallRight(t)
  OBVIOUS
<1>2. /\ kindBuckets \in Seq(KindBucket)
      /\ \A y \in Kinds : FirstOf(kindBuckets, y) # 0 => FirstOf(kindBuckets', y) # 0
  OBVIOUS
<1>3. FirstOf(kindBuckets', x) # 0
  <2>1. kindBuckets' = GetOrCreateCounters(x)
    OBVIOUS
  <2> QED  BY <1>2, <2>1, KindBegins
<1>4. ObjectsKnow'
  <2>1. ASSUME NEW p \in CoObjects PROVE ObjectRight(p)'
    BY <1>1, <1>2, <1>3, RegistryList DEF CallRight, ObjectRight, ObjectsKnow
  <2> QED  BY <2>1 DEF ObjectsKnow
<1>5. OwnKey'
  BY <1>1 DEF IndexRight, OwnKey, IndexNamesMembers, Registered, CallRight
<1>6. IndexNamesMembers'
  BY <1>1 DEF IndexRight, OwnKey, IndexNamesMembers, Registered, CallRight
<1> QED  BY <1>4, <1>5, <1>6 DEF IndexRight

LEMMA IndexQueryBegins ==
    ASSUME RegistryKnown, IndexTypes, ObjectsKnow, IndexRight, kindBuckets \in Seq(KindBucket),
           \A y \in Kinds : FirstOf(kindBuckets, y) # 0 => FirstOf(kindBuckets', y) # 0,
           NEW t \in Callers, NEW k \in Keys, QueryBegins(t, k)
    PROVE  ObjectsKnow' /\ IndexRight'
<1> USE DEF QueryBegins, Held, Goes, Holding, Ending, ObjOf, RegistryKnown, CallsKnow, IndexTypes
<1>1. CallRight(t)
  OBVIOUS
<1>2. /\ kindBuckets \in Seq(KindBucket)
      /\ \A y \in Kinds : FirstOf(kindBuckets, y) # 0 => FirstOf(kindBuckets', y) # 0
  OBVIOUS
<1>4. ObjectsKnow'
  <2>1. ASSUME NEW p \in CoObjects PROVE ObjectRight(p)'
    BY <1>1, <1>2, RegistryList DEF CallRight, ObjectRight, ObjectsKnow
  <2> QED  BY <2>1 DEF ObjectsKnow
<1>5. OwnKey'
  BY <1>1 DEF IndexRight, OwnKey, IndexNamesMembers, Registered, CallRight
<1>6. IndexNamesMembers'
  BY <1>1 DEF IndexRight, OwnKey, IndexNamesMembers, Registered, CallRight
<1> QED  BY <1>4, <1>5, <1>6 DEF IndexRight

\* The counts.  An object is in the manager's from its commit to the first
\* settling, in its kind's from the second counting to the second settling.
InManager == {p \in CoObjects : stage[p] = "committed" /\ ~CallAt(p, "kind")}
InKind(k) == {p \in CoObjects : stage[p] = "committed" /\ kind[p] = k /\ ~CallAt(p, "counted")}
CountsRight ==
    /\ counts.alive = Cardinality(InManager)
    /\ \A k \in Kinds : StatsOf(kindBuckets, k).alive = Cardinality(InKind(k))

LEMMA CountsAre == (CountsLiveObjects <=> CountsRight) /\ (CountsLiveObjects' <=> CountsRight')
<1>1. /\ InManager = {p \in {p \in CoObjects : stage[p] = "committed"} : ~CallAt(p, "kind")}
      /\ \A k \in Kinds : InKind(k) = {p \in {p \in CoObjects : stage[p] = "committed"} : kind[p] = k /\ ~CallAt(p, "counted")}
  BY DEF InManager, InKind
<1>2. /\ InManager' = {p \in {p \in CoObjects : stage'[p] = "committed"} : ~CallAt(p, "kind")'}
      /\ \A k \in Kinds : InKind(k)' = {p \in {p \in CoObjects : stage'[p] = "committed"} : kind'[p] = k /\ ~CallAt(p, "counted")'}
  BY DEF InManager, InKind
<1>3. CountsLiveObjects <=> CountsRight
  BY <1>1, RegistryList DEF CountsLiveObjects, CountsRight
<1>4. CountsLiveObjects' <=> CountsRight'
  BY <1>2, RegistryList DEF CountsLiveObjects, CountsRight
<1> QED  BY <1>3, <1>4

LEMMA CountedFinite ==
    /\ IsFiniteSet(InManager) /\ IsFiniteSet(InManager')
    /\ \A k : IsFiniteSet(InKind(k)) /\ IsFiniteSet(InKind(k)')
<1>1. InManager \subseteq CoObjects /\ InManager' \subseteq CoObjects
  BY DEF InManager
<1>2. \A k : InKind(k) \subseteq CoObjects /\ InKind(k)' \subseteq CoObjects
  BY DEF InKind
<1> QED  BY <1>1, <1>2, RegistryConstants, FS_Subset

\* A step of t that is not a counting.
LEMMA CountsSame ==
    ASSUME CountsRight, NEW t \in Callers,
           \A u \in Callers \ {t} : step'[u] = step[u] /\ arg'[u] = arg[u],
           step[t] \notin {"kind", "counted"}, step'[t] \notin {"kind", "counted"},
           \A p \in CoObjects : /\ stage'[p] = "committed" <=> stage[p] = "committed"
                                /\ stage[p] = "committed" => kind'[p] = kind[p],
           counts' = counts, \A k \in Kinds : StatsOf(kindBuckets', k) = StatsOf(kindBuckets, k)
    PROVE  CountsRight'
<1>1. \A p, s : s \in {"kind", "counted"} => (CallAt(p, s)' <=> CallAt(p, s))
  BY DEF CallAt
<1>2. InManager' = InManager
  BY <1>1 DEF InManager
<1>3. \A k \in Kinds : InKind(k)' = InKind(k)
  BY <1>1 DEF InKind
<1> QED  BY <1>2, <1>3 DEF CountsRight

LEMMA CountsCreateCommits ==
    ASSUME RegistryKnown, CountsRight, counts \in Counters, NEW t \in Callers, CreateCommits(t)
    PROVE  CountsRight'
<1> DEFINE o == ObjOf(t)
<1>1. /\ o \in CoObjects /\ stage[o] = "made" /\ step[t] = "made" /\ step' = [step EXCEPT ![t] = "counted"]
      /\ arg' = arg /\ stage' = [stage EXCEPT ![o] = "committed"] /\ kind' = kind
      /\ kindBuckets' = kindBuckets /\ counts' = OnCreate(counts)
      /\ \A u \in Callers : CallRight(u)
      /\ step \in [Callers -> {"idle", "made", "counted", "found", "drop", "destroy", "kind", "manager", "unregister"}]
      /\ stage \in [CoObjects -> {"new", "made", "committed", "settled", "gone"}]
  BY DEF RegistryKnown, CallsKnow, CallRight, CreateCommits, Goes, ObjOf
<1> HIDE DEF o
<1>2. \A p : (CallAt(p, "kind")' <=> CallAt(p, "kind"))
  BY <1>1 DEF CallAt
<1>3. \A p : (CallAt(p, "counted")' <=> CallAt(p, "counted") \/ p = o)
  BY <1>1 DEF CallAt, o, ObjOf
<1>4. ~CallAt(o, "kind")
  BY <1>1 DEF CallAt, CallRight, ObjOf
<1>5. InManager' = InManager \cup {o} /\ o \notin InManager
  BY <1>1, <1>2, <1>4 DEF InManager
<1>6. \A k \in Kinds : InKind(k)' = InKind(k)
  BY <1>1, <1>3 DEF InKind
<1>7. counts'.alive = counts.alive + 1
  BY <1>1, Counting
<1>8. Cardinality(InManager') = Cardinality(InManager) + 1
  BY <1>5, CountedFinite, FS_AddElement
<1> QED  BY <1>1, <1>6, <1>7, <1>8 DEF CountsRight

LEMMA CountsCountsKind ==
    ASSUME RegistryInv, RegistryKnown, CountsRight, NEW t \in Callers, CountsKind(t)
    PROVE  CountsRight'
<1> DEFINE o == ObjOf(t)
<1>1. /\ o \in CoObjects /\ stage[o] = "committed" /\ step[t] = "counted" /\ step' = [step EXCEPT ![t] = "idle"]
      /\ arg' = arg /\ stage' = stage /\ kind' = kind /\ counts' = counts
      /\ step \in [Callers -> {"idle", "made", "counted", "found", "drop", "destroy", "kind", "manager", "unregister"}]
      /\ refs[o] = {t} /\ \A u \in Callers : step[u] = "counted" => refs[ObjOf(u)] = {u}
  BY DEF RegistryKnown, CallsKnow, CallRight, CountsKind, CallReturns, Goes, ObjOf
<1>2. \A k \in Kinds : StatsOf(kindBuckets', k) =
             IF k = kind[o] THEN OnCreate(StatsOf(kindBuckets, k)) ELSE StatsOf(kindBuckets, k)
  BY KindUp
<1>3. \A k : StatsOf(kindBuckets, k) \in Counters
  BY StatsType DEF RegistryInv, RegistryTypes
<1> HIDE DEF o
<1>4. \A p : (CallAt(p, "kind")' <=> CallAt(p, "kind"))
  BY <1>1 DEF CallAt
<1>5. CallAt(o, "counted") /\ \A p : p = o => ~CallAt(p, "counted")'
  BY <1>1 DEF CallAt, o, ObjOf
<1>6. \A p : p # o => (CallAt(p, "counted")' <=> CallAt(p, "counted"))
  BY <1>1 DEF CallAt, o, ObjOf
<1>7. InManager' = InManager
  BY <1>1, <1>4 DEF InManager
<1>8. ASSUME NEW k \in Kinds PROVE StatsOf(kindBuckets', k).alive = Cardinality(InKind(k)')
  <2>1. CASE k = kind[o]
    <3>1. InKind(k)' = InKind(k) \cup {o} /\ o \notin InKind(k)
      <4>1. o \in InKind(k)' /\ o \notin InKind(k) /\ InKind(k)' \subseteq CoObjects /\ InKind(k) \subseteq CoObjects
        BY <1>1, <1>5, <2>1 DEF InKind
      <4>2. \A p \in CoObjects : p # o => (p \in InKind(k)' <=> p \in InKind(k))
        BY <1>1, <1>6 DEF InKind
      <4> QED  BY ONLY <1>1, <4>1, <4>2
    <3>2. Cardinality(InKind(k)') = Cardinality(InKind(k)) + 1
      BY <3>1, CountedFinite, FS_AddElement
    <3>3. StatsOf(kindBuckets', k).alive = StatsOf(kindBuckets, k).alive + 1
      BY <1>2, <1>3, <2>1, Counting
    <3> QED  BY <3>2, <3>3 DEF CountsRight
  <2>2. CASE k # kind[o]
    <3>1. InKind(k)' = InKind(k)
      BY <1>1, <1>6, <2>2 DEF InKind
    <3> QED  BY <1>2, <2>2, <3>1 DEF CountsRight
  <2> QED  BY <2>1, <2>2
<1> QED  BY <1>1, <1>7, <1>8 DEF CountsRight

LEMMA CountsSettleManager ==
    ASSUME RegistryKnown, CountsRight, counts \in Counters, NEW t \in Callers, SettleManager(t)
    PROVE  CountsRight'
<1> DEFINE o == ObjOf(t)
<1>1. /\ o \in CoObjects /\ stage[o] = "committed" /\ step[t] = "destroy" /\ step' = [step EXCEPT ![t] = "kind"]
      /\ arg' = arg /\ stage' = stage /\ kind' = kind /\ kindBuckets' = kindBuckets /\ counts' = OnDestroy(counts)
      /\ step \in [Callers -> {"idle", "made", "counted", "found", "drop", "destroy", "kind", "manager", "unregister"}]
      /\ \A u \in Callers : step[u] = "kind" /\ ObjOf(u) = o => u = t
  BY DEF RegistryKnown, CallsKnow, CallRight, EndAlone, Ending, SettleManager, Goes, ObjOf
<1> HIDE DEF o
<1>2. ~CallAt(o, "kind") /\ \A p : p = o => CallAt(p, "kind")'
  BY <1>1 DEF CallAt, o, ObjOf
<1>3. \A p : p # o => (CallAt(p, "kind")' <=> CallAt(p, "kind"))
  BY <1>1 DEF CallAt, o, ObjOf
<1>4. \A p : (CallAt(p, "counted")' <=> CallAt(p, "counted"))
  BY <1>1 DEF CallAt
<1>5. InManager' = InManager \ {o} /\ o \in InManager
  <2>1. o \in InManager /\ o \notin InManager' /\ InManager' \subseteq CoObjects /\ InManager \subseteq CoObjects
    BY <1>1, <1>2 DEF InManager
  <2>2. \A p \in CoObjects : p # o => (p \in InManager' <=> p \in InManager)
    BY <1>1, <1>3 DEF InManager
  <2> QED  BY ONLY <2>1, <2>2
<1>6. \A k \in Kinds : InKind(k)' = InKind(k)
  BY <1>1, <1>4 DEF InKind
<1>7. counts'.alive = counts.alive - 1
  BY <1>1, Counting
<1>8. Cardinality(InManager') = Cardinality(InManager) - 1
  BY <1>5, CountedFinite, FS_RemoveElement
<1> QED  BY <1>1, <1>6, <1>7, <1>8 DEF CountsRight

LEMMA CountsSettleKind ==
    ASSUME RegistryInv, RegistryKnown, CountsRight, NEW t \in Callers, SettleKind(t)
    PROVE  CountsRight'
<1> DEFINE o == ObjOf(t)
<1>1. /\ o \in CoObjects /\ stage[o] = "committed" /\ step[t] = "kind" /\ step' = [step EXCEPT ![t] = "manager"]
      /\ arg' = arg /\ stage' = [stage EXCEPT ![o] = "settled"] /\ kind' = kind /\ counts' = counts
      /\ step \in [Callers -> {"idle", "made", "counted", "found", "drop", "destroy", "kind", "manager", "unregister"}]
      /\ stage \in [CoObjects -> {"new", "made", "committed", "settled", "gone"}]
      /\ refs[o] = {} /\ \A u \in Callers : step[u] = "counted" => refs[ObjOf(u)] = {u}
  BY DEF RegistryKnown, CallsKnow, CallRight, SettleKind, Ending, Goes, ObjOf
<1>2. \A k \in Kinds : StatsOf(kindBuckets', k) =
             IF k = kind[o] THEN OnDestroy(StatsOf(kindBuckets, k)) ELSE StatsOf(kindBuckets, k)
  BY KindDown
<1>3. \A k : StatsOf(kindBuckets, k) \in Counters
  BY StatsType DEF RegistryInv, RegistryTypes
<1> HIDE DEF o
<1>4. CallAt(o, "kind") /\ ~CallAt(o, "counted")
  BY <1>1 DEF CallAt, o, ObjOf
<1>5. \A p : p # o => (CallAt(p, "kind")' <=> CallAt(p, "kind"))
  BY <1>1 DEF CallAt, o, ObjOf
<1>6. \A p : (CallAt(p, "counted")' <=> CallAt(p, "counted"))
  BY <1>1 DEF CallAt
<1>7. InManager' = InManager
  BY <1>1, <1>4, <1>5 DEF InManager
<1>8. ASSUME NEW k \in Kinds PROVE StatsOf(kindBuckets', k).alive = Cardinality(InKind(k)')
  <2>1. CASE k = kind[o]
    <3>1. InKind(k)' = InKind(k) \ {o} /\ o \in InKind(k)
      BY <1>1, <1>4, <1>6, <2>1 DEF InKind
    <3>2. Cardinality(InKind(k)') = Cardinality(InKind(k)) - 1
      BY <3>1, CountedFinite, FS_RemoveElement
    <3>3. StatsOf(kindBuckets', k).alive = StatsOf(kindBuckets, k).alive - 1
      BY <1>2, <1>3, <2>1, Counting
    <3> QED  BY <3>2, <3>3 DEF CountsRight
  <2>2. CASE k # kind[o]
    <3>1. InKind(k)' = InKind(k)
      BY <1>1, <1>6, <2>2 DEF InKind
    <3> QED  BY <1>2, <2>2, <3>1 DEF CountsRight
  <2> QED  BY <2>1, <2>2
<1> QED  BY <1>1, <1>7, <1>8 DEF CountsRight

\* Every step keeps the calls', the objects' and the index's part.
LEMMA CallsIndexStep ==
    ASSUME RegistryInv, RegistryNext
    PROVE  CallsKnow' /\ ObjectsKnow' /\ IndexRight'
<1>1. /\ RegistryKnown /\ IndexTypes /\ ObjectsKnow /\ IndexRight /\ kindBuckets \in Seq(KindBucket)
      /\ \A y \in Kinds : FirstOf(kindBuckets, y) # 0 => FirstOf(kindBuckets', y) # 0
  BY KnownAtStep, BucketsStep DEF RegistryInv, RegistryTypes, RegistryTypeOK, IndexTypes, ObjectsKnow, IndexRight
<1>2. ASSUME ManagerDropped PROVE CallsKnow' /\ ObjectsKnow' /\ IndexRight'
  <2>1. /\ UNCHANGED <<step, arg, mutex, members, key, kind, refs, stage, counts, kindBuckets>>
        /\ manager' # {} => manager # {}
    BY <1>2 DEF ManagerDropped
  <2>2. CallsKnow'
    BY <1>1, <2>1 DEF RegistryKnown, CallsKnow, MutexHeld, RefsHeld, EndAlone, CallRight, ObjOf
  <2>3. ObjectsKnow'
    BY <1>1, <2>1, RegistryList DEF ObjectsKnow, ObjectRight
  <2>4. IndexRight'
    BY <1>1, <2>1 DEF IndexRight, OwnKey, IndexNamesMembers, Registered
  <2> QED  BY <2>2, <2>3, <2>4
<1>3. ASSUME NEW t \in Callers, CallerStep(t) PROVE CallsKnow' /\ ObjectsKnow' /\ IndexRight'
  <2>1. CASE CreateCommits(t)
    BY ONLY <1>1, <1>3, <2>1, CallsCreateCommits, IndexCreateCommits
  <2>2. CASE CountsKind(t)
    BY ONLY <1>1, <1>3, <2>2, CallsCountsKind, IndexCountsKind
  <2>3. CASE CreateThrows(t)
    BY ONLY <1>1, <1>3, <2>3, CallsCreateThrows, IndexCreateThrows
  <2>4. CASE Drops(t)
    BY ONLY <1>1, <1>3, <2>4, CallsDrops, IndexDrops
  <2>5. CASE SettleManager(t)
    BY ONLY <1>1, <1>3, <2>5, CallsSettleManager, IndexSettleManager
  <2>6. CASE SettleKind(t)
    BY ONLY <1>1, <1>3, <2>6, CallsSettleKind, IndexSettleKind
  <2>7. CASE LocksManager(t)
    BY ONLY <1>1, <1>3, <2>7, CallsLocksManager, IndexLocksManager
  <2>8. CASE OnMemberDestroy(t)
    BY ONLY <1>1, <1>3, <2>8, CallsOnMemberDestroy, IndexOnMemberDestroy
  <2>9. CASE QueryUnlocks(t)
    BY ONLY <1>1, <1>3, <2>9, CallsQueryUnlocks, IndexQueryUnlocks
  <2>10. ASSUME NEW o \in CoObjects, UserDrops(t, o) PROVE CallsKnow' /\ ObjectsKnow' /\ IndexRight'
    BY ONLY <1>1, <1>3, <2>10, CallsUserDrops, IndexUserDrops
  <2>11. ASSUME NEW o \in CoObjects, CreatesAgain(t, o) PROVE CallsKnow' /\ ObjectsKnow' /\ IndexRight'
    BY ONLY <1>1, <1>3, <2>11, CallsCreatesAgain, IndexCreatesAgain
  <2>12. ASSUME NEW o \in CoObjects, NEW k \in Keys, NEW x \in Kinds, CreateBegins(t, o, k, x) PROVE CallsKnow' /\ ObjectsKnow' /\ IndexRight'
    BY ONLY <1>1, <1>3, <2>12, CallsCreateBegins, IndexCreateBegins
  <2>13. ASSUME NEW k \in Keys, QueryBegins(t, k) PROVE CallsKnow' /\ ObjectsKnow' /\ IndexRight'
    BY ONLY <1>1, <1>3, <2>13, CallsQueryBegins, IndexQueryBegins
  <2> QED  BY <1>3, <2>1, <2>2, <2>3, <2>4, <2>5, <2>6, <2>7, <2>8, <2>9, <2>10, <2>11, <2>12, <2>13 DEF CallerStep
<1> QED  BY <1>2, <1>3, NextCases

\* And the counts.
LEMMA CountsStep ==
    ASSUME RegistryInv, RegistryNext
    PROVE  CountsRight'
<1>1. RegistryKnown /\ RegistryInv /\ CountsRight /\ counts \in Counters /\ kindBuckets \in Seq(KindBucket)
  BY KnownAtStep, CountsAre DEF RegistryInv, RegistryTypes, RegistryTypeOK
<1>2. ASSUME ManagerDropped PROVE CountsRight'
  <2>1. UNCHANGED <<step, arg, kind, stage, counts, kindBuckets>>
    BY <1>2 DEF ManagerDropped
  <2>2. InManager' = InManager /\ \A k \in Kinds : InKind(k)' = InKind(k)
    BY <2>1 DEF InManager, InKind, CallAt
  <2> QED  BY <1>1, <2>1, <2>2 DEF CountsRight
<1>3. ASSUME NEW t \in Callers, CallerStep(t) PROVE CountsRight'
  <2>0. CallRight(t) /\ step[t] \in {"idle", "made", "counted", "found", "drop", "destroy", "kind", "manager", "unregister"}
    BY <1>1 DEF RegistryKnown, CallsKnow
  <2> DEFINE Same == /\ \A u \in Callers \ {t} : step'[u] = step[u] /\ arg'[u] = arg[u]
                     /\ step[t] \notin {"kind", "counted"} /\ step'[t] \notin {"kind", "counted"}
                     /\ \A p \in CoObjects : /\ stage'[p] = "committed" <=> stage[p] = "committed"
                                             /\ stage[p] = "committed" => kind'[p] = kind[p]
                     /\ counts' = counts
  <2>10. ASSUME Same, kindBuckets' = kindBuckets PROVE CountsRight'
    BY ONLY <1>1, <1>3, <2>10, CountsSame
  <2>1. CASE CreateCommits(t)
    BY ONLY <1>1, <1>3, <2>1, CountsCreateCommits
  <2>2. CASE CountsKind(t)
    BY ONLY <1>1, <1>3, <2>2, CountsCountsKind
  <2>3. CASE SettleManager(t)
    BY ONLY <1>1, <1>3, <2>3, CountsSettleManager
  <2>4. CASE SettleKind(t)
    BY ONLY <1>1, <1>3, <2>4, CountsSettleKind
  <2>11. CASE CreateThrows(t)
    <3>1. Same /\ kindBuckets' = kindBuckets
      BY <1>1, <2>0, <2>11 DEF RegistryKnown, CallRight, Ending, ObjOf, CreateThrows, Uncommitted, Goes
    <3> QED  BY <2>10, <3>1
  <2>12. CASE Drops(t)
    <3>1. Same /\ kindBuckets' = kindBuckets
      BY <1>1, <2>0, <2>12 DEF RegistryKnown, CallRight, Ending, ObjOf, Drops, CallReturns, Goes
    <3> QED  BY <2>10, <3>1
  <2>13. CASE LocksManager(t)
    <3>1. Same /\ kindBuckets' = kindBuckets
      BY <1>1, <2>0, <2>13 DEF RegistryKnown, CallRight, Ending, ObjOf, LocksManager, CallReturns, Goes
    <3> QED  BY <2>10, <3>1
  <2>14. CASE OnMemberDestroy(t)
    <3>1. Same /\ kindBuckets' = kindBuckets
      BY <1>1, <2>0, <2>14 DEF RegistryKnown, CallRight, Ending, ObjOf, OnMemberDestroy, CallReturns, Goes
    <3> QED  BY <2>10, <3>1
  <2>15. CASE QueryUnlocks(t)
    <3>1. Same /\ kindBuckets' = kindBuckets
      BY <1>1, <2>0, <2>15 DEF RegistryKnown, CallRight, Ending, ObjOf, QueryUnlocks, LockEndsFirst, CallReturns, Goes
    <3> QED  BY <2>10, <3>1
  <2>16. ASSUME NEW o \in CoObjects, UserDrops(t, o) PROVE CountsRight'
    <3>1. Same /\ kindBuckets' = kindBuckets
      BY <1>1, <2>0, <2>16 DEF RegistryKnown, CallRight, Ending, ObjOf, UserDrops, Goes
    <3> QED  BY <2>10, <3>1
  <2>17. ASSUME NEW o \in CoObjects, CreatesAgain(t, o) PROVE CountsRight'
    <3>1. Same /\ kindBuckets' = kindBuckets
      BY <1>1, <2>0, <2>17 DEF RegistryKnown, CallRight, Ending, ObjOf, CreatesAgain, Goes
    <3> QED  BY <2>10, <3>1
  <2>18. ASSUME NEW o \in CoObjects, NEW k \in Keys, NEW x \in Kinds, CreateBegins(t, o, k, x) PROVE CountsRight'
    <3>1. Same
      BY <1>1, <2>0, <2>18 DEF RegistryKnown, CreateBegins, Goes
    <3>2. kindBuckets' = GetOrCreateCounters(x)
      BY <2>18 DEF CreateBegins
    <3>3. \A y \in Kinds : StatsOf(kindBuckets', y) = StatsOf(kindBuckets, y)
      BY <1>1, <3>2, KindBegins
    <3> QED  BY ONLY <1>1, <1>3, <3>1, <3>3, CountsSame
  <2>19. ASSUME NEW k \in Keys, QueryBegins(t, k) PROVE CountsRight'
    <3>1. Same /\ kindBuckets' = kindBuckets
      BY <1>1, <2>0, <2>19 DEF RegistryKnown, CallRight, Ending, ObjOf, QueryBegins, Held, Goes
    <3> QED  BY <2>10, <3>1
  <2> HIDE DEF Same
  <2> QED  BY <1>3, <2>1, <2>2, <2>3, <2>4, <2>11, <2>12, <2>13, <2>14, <2>15, <2>16, <2>17, <2>18, <2>19 DEF CallerStep
<1> QED  BY <1>2, <1>3, NextCases

LEMMA RegistryStutters ==
    ASSUME RegistryInv, UNCHANGED registryVars
    PROVE  RegistryInv'
<1>1. UNCHANGED <<step, arg, mutex, members, key, kind, refs, stage, manager, counts, kindBuckets>>
  BY DEF registryVars
<1>2. RegistryTypes' /\ MutexHeld' /\ RefsHeld' /\ EndAlone' /\ OwnKey'
  BY <1>1 DEF RegistryInv, RegistryTypes, RegistryTypeOK, MutexHeld, RefsHeld, EndAlone, OwnKey, ObjOf
<1>3. (\A t \in Callers : CallRight(t))' /\ IndexNamesMembers'
  BY <1>1 DEF RegistryInv, CallRight, IndexNamesMembers, Registered, ObjOf
<1>4. (\A o \in CoObjects : ObjectRight(o))'
  BY <1>1, RegistryList DEF RegistryInv, ObjectRight
<1>5. CountsLiveObjects'
  <2>1. InManager' = InManager /\ \A k \in Kinds : InKind(k)' = InKind(k)
    BY <1>1 DEF InManager, InKind, CallAt
  <2>2. CountsRight
    BY CountsAre DEF RegistryInv
  <2>3. CountsRight'
    BY <1>1, <2>1, <2>2 DEF CountsRight
  <2> QED  BY <2>3, CountsAre
<1> QED  BY <1>2, <1>3, <1>4, <1>5 DEF RegistryInv

\* The registry (ManagerBase::Create, GetObjectInfo, _OnMemberDestroy and
\* CoObjectCounters), whatever the callers, the objects, the keys and the kinds:
\* while the manager lives its index names exactly the committed objects whose
\* destructor has not come to it, each under its own key; its count and the
\* kinds' counts are the objects that live; and nobody destroys an object under
\* the manager's mutex.
THEOREM RegistrySoundHolds == RegistryInit /\ [][RegistryNext]_registryVars => []RegistrySound
<1>1. RegistryInit => RegistryInv
  BY RegistryStarts
<1>2. RegistryInv /\ [RegistryNext]_registryVars => RegistryInv'
  <2>1. ASSUME RegistryInv, RegistryNext PROVE RegistryInv'
    <3>1. RegistryTypes'
      BY <2>1, RegistryTypesStep
    <3>2. CallsKnow' /\ ObjectsKnow' /\ IndexRight'
      BY <2>1, CallsIndexStep
    <3>3. CountsLiveObjects'
      BY <2>1, CountsStep, CountsAre
    <3> QED  BY <3>1, <3>2, <3>3 DEF RegistryInv, CallsKnow, ObjectsKnow, IndexRight
  <2> QED  BY <2>1, RegistryStutters
<1>3. RegistryInv => RegistrySound
  BY DEF RegistryInv, RegistryTypes, MutexHeld, RegistrySound, DestroysUnlocked
<1> QED  BY <1>1, <1>2, <1>3, PTL
=============================================================================
