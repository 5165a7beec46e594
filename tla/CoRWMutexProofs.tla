--------------------------- MODULE CoRWMutexProofs ---------------------------
(***************************************************************************)
(* Exclusion, the count of waiting writers, writer preference and the      *)
(* absence of lost wakeups of CoRWMutex, for any finite set of coroutines  *)
(* and any length of the queues.                                           *)
(***************************************************************************)
EXTENDS CoRWMutex, FiniteSetTheorems, SequenceTheorems, WellFoundedInduction, TLAPS

Waiting == {c \in Coroutines : op[c] \in Writing}

\* Exclusion and WriterCount need each other's types only; together they are
\* inductive.
IInv == LockTypes /\ Exclusion /\ WriterCount

USE CoRWMutexAssumption

\* A coroutine joins a counted set of coroutines.
LEMMA Joins ==
    ASSUME NEW A \in SUBSET Coroutines, NEW B, NEW c \in Coroutines, c \notin A,
           B = A \cup {c}
    PROVE  /\ Cardinality(A) \in Nat
           /\ Cardinality(B) = Cardinality(A) + 1
<1>1. IsFiniteSet(A)
  BY FS_Subset
<1> QED  BY <1>1, FS_AddElement, FS_CardinalityType

\* A coroutine leaves a counted set of coroutines.
LEMMA Leaves ==
    ASSUME NEW A \in SUBSET Coroutines, NEW B, NEW c \in A, B = A \ {c}
    PROVE  /\ Cardinality(A) \in Nat
           /\ Cardinality(B) = Cardinality(A) - 1
<1>1. IsFiniteSet(A)
  BY FS_Subset
<1> QED  BY <1>1, FS_RemoveElement, FS_CardinalityType

\* A set of coroutines counts zero exactly when it is empty.
LEMMA CountZero ==
    ASSUME NEW A \in SUBSET Coroutines
    PROVE  /\ Cardinality(A) \in Nat
           /\ Cardinality(A) = 0 <=> A = {}
<1>1. IsFiniteSet(A)
  BY FS_Subset
<1> QED  BY <1>1, FS_EmptySet, FS_CardinalityType

\* A coroutine that neither holds nor waits for writing takes the read lock.
LEMMA AcquireReadInv ==
    ASSUME IInv, NEW c \in Coroutines, op[c] \in {"idle"} \cup Reading,
           status # "WLOCKED", AcquireRead(c), UNCHANGED waitNum
    PROVE  IInv'
<1>1. op' = [op EXCEPT ![c] = "R"] /\ status' = "RLOCKED" /\ rhold' = rhold + 1
  BY DEF AcquireRead
<1>2. LockTypes'
  BY <1>1 DEF IInv, LockTypes
<1>3. Holders("R")' = Holders("R") \cup {c} /\ c \notin Holders("R")
  BY <1>1 DEF IInv, LockTypes, Holders, Reading
<1>4. Holders("W")' = Holders("W") /\ Waiting' = Waiting
  BY <1>1 DEF IInv, LockTypes, Holders, Waiting, Reading, Writing
<1>5. Exclusion'
  BY <1>1, <1>3, <1>4, Joins DEF IInv, Exclusion, Holders
<1>6. WriterCount'
  BY <1>4 DEF IInv, WriterCount, Waiting
<1> QED  BY <1>2, <1>5, <1>6 DEF IInv

\* A coroutine that does not hold the lock takes the write lock of a free one.
LEMMA AcquireWriteInv ==
    ASSUME IInv, NEW c \in Coroutines, op[c] \in {"idle"} \cup Writing,
           status = "FREE", AcquireWrite(c),
           waitNum' = IF op[c] = "idle" THEN waitNum ELSE waitNum - 1
    PROVE  IInv'
<1>1. op' = [op EXCEPT ![c] = "W"] /\ status' = "WLOCKED" /\ rhold' = rhold
  BY DEF AcquireWrite
<1>2. Holders("W") = {} /\ Holders("R") = {}
  BY DEF IInv, Exclusion
<1>3. Holders("W")' = {c} /\ Holders("R")' = {}
  BY <1>1, <1>2 DEF IInv, LockTypes, Holders
<1>4. Exclusion'
  <2>1. Cardinality(Holders("W")') = 1
    BY <1>3, FS_Singleton
  <2>2. rhold' = Cardinality(Holders("R")')
    BY <1>1, <1>2, <1>3 DEF IInv, Exclusion
  <2> QED  BY <1>1, <1>3, <2>1, <2>2 DEF Exclusion
<1>5. LockTypes' /\ WriterCount'
  <2>1. CASE op[c] = "idle"
    <3>1. Waiting' = Waiting
      BY <1>1, <2>1 DEF IInv, LockTypes, Waiting, Writing
    <3> QED  BY <1>1, <2>1, <3>1 DEF IInv, LockTypes, WriterCount, Waiting
  <2>2. CASE op[c] \in Writing
    <3>1. Waiting' = Waiting \ {c} /\ c \in Waiting
      BY <1>1, <2>2 DEF IInv, LockTypes, Waiting, Writing
    <3>2. waitNum' = waitNum - 1
      BY <2>2 DEF Writing
    <3>3. Cardinality(Waiting') = Cardinality(Waiting) - 1 /\ Cardinality(Waiting') \in Nat
      BY <3>1, Leaves, CountZero DEF Waiting
    <3> QED  BY <1>1, <3>2, <3>3 DEF IInv, LockTypes, WriterCount, Waiting
  <2> QED  BY <2>1, <2>2
<1> QED  BY <1>4, <1>5 DEF IInv

\* A coroutine moves between not waiting and waiting, and holds nothing.
LEMMA WaitingInv ==
    ASSUME IInv, NEW c \in Coroutines, NEW o \in {"idle"} \cup Reading \cup Writing,
           op[c] \in {"idle"} \cup Reading \cup Writing,
           op' = [op EXCEPT ![c] = o], UNCHANGED <<status, rhold>>,
           waitNum' = (IF op[c] \in Writing THEN waitNum - 1 ELSE waitNum)
                      + (IF o \in Writing THEN 1 ELSE 0)
    PROVE  IInv'
<1>1. Holders("R")' = Holders("R") /\ Holders("W")' = Holders("W")
  BY DEF IInv, LockTypes, Holders, Reading, Writing
<1>2. Exclusion'
  BY <1>1 DEF IInv, Exclusion
<1>3. op' \in [Coroutines -> {"idle", "R", "W"} \cup Reading \cup Writing]
  BY DEF IInv, LockTypes
<1>4. waitNum' \in Nat /\ WriterCount'
  <2>1. CASE op[c] \in Writing /\ o \in Writing
    <3>1. Waiting' = Waiting
      BY <2>1 DEF IInv, LockTypes, Waiting
    <3>2. waitNum' = waitNum /\ waitNum \in Nat
      BY <2>1 DEF IInv, LockTypes
    <3> QED  BY <3>1, <3>2 DEF IInv, WriterCount, Waiting
  <2>2. CASE op[c] \notin Writing /\ o \notin Writing
    <3>1. Waiting' = Waiting
      BY <2>2 DEF IInv, LockTypes, Waiting
    <3> QED  BY <2>2, <3>1 DEF IInv, LockTypes, WriterCount, Waiting
  <2>3. CASE op[c] \in Writing /\ o \notin Writing
    <3>1. Waiting' = Waiting \ {c} /\ c \in Waiting
      BY <2>3 DEF IInv, LockTypes, Waiting
    <3>2. Cardinality(Waiting') = Cardinality(Waiting) - 1 /\ Cardinality(Waiting') \in Nat
      BY <3>1, Leaves, CountZero DEF Waiting
    <3> QED  BY <2>3, <3>2 DEF IInv, LockTypes, WriterCount, Waiting
  <2>4. CASE op[c] \notin Writing /\ o \in Writing
    <3>1. Waiting' = Waiting \cup {c} /\ c \notin Waiting
      BY <2>4 DEF IInv, LockTypes, Waiting
    <3>2. Cardinality(Waiting') = Cardinality(Waiting) + 1
      BY <3>1, Joins DEF Waiting
    <3> QED  BY <2>4, <3>2 DEF IInv, LockTypes, WriterCount, Waiting
  <2> QED  BY <2>1, <2>2, <2>3, <2>4
<1> QED  BY <1>2, <1>3, <1>4 DEF IInv, LockTypes

\* RUnLock preserves the invariant: the count reaches zero with the last
\* reader, and only then does the lock become free.
LEMMA RUnLockInv ==
    ASSUME IInv, NEW c \in Coroutines, RUnLock(c)
    PROVE  IInv'
<1>1. /\ op[c] = "R" /\ op' = [op EXCEPT ![c] = "idle"] /\ rhold' = rhold - 1
      /\ status' = IF rhold = 1 THEN "FREE" ELSE "RLOCKED"
      /\ waitNum' = waitNum
  BY DEF RUnLock
<1>2. Holders("R")' = Holders("R") \ {c} /\ c \in Holders("R")
  BY <1>1 DEF IInv, LockTypes, Holders
<1>3. Holders("W")' = Holders("W") /\ Waiting' = Waiting
  BY <1>1 DEF IInv, LockTypes, Holders, Waiting, Writing
<1>4. Holders("W") = {}
  BY <1>2 DEF IInv, Exclusion
<1>5. /\ Cardinality(Holders("R")') = rhold - 1
      /\ Cardinality(Holders("R")') \in Nat
      /\ Cardinality(Holders("R")') = 0 <=> Holders("R")' = {}
  <2>1. Holders("R") \in SUBSET Coroutines /\ Holders("R")' \in SUBSET Coroutines
    BY <1>2 DEF Holders
  <2> QED  BY <1>2, <2>1, Leaves, CountZero DEF IInv, Exclusion
<1>6. Exclusion'
  BY <1>1, <1>3, <1>4, <1>5 DEF IInv, Exclusion, LockTypes
<1>7. LockTypes' /\ WriterCount'
  BY <1>1, <1>3, <1>5 DEF IInv, LockTypes, WriterCount, Waiting
<1> QED  BY <1>6, <1>7 DEF IInv

\* WUnLock preserves the invariant.
LEMMA WUnLockInv ==
    ASSUME IInv, NEW c \in Coroutines, WUnLock(c)
    PROVE  IInv'
<1>1. /\ op[c] = "W" /\ op' = [op EXCEPT ![c] = "idle"] /\ status' = "FREE"
      /\ UNCHANGED <<rhold, waitNum>>
  BY DEF WUnLock
<1>2. c \in Holders("W") /\ Holders("W") \in SUBSET Coroutines
  BY <1>1 DEF Holders
<1>3. Cardinality(Holders("W") \ {c}) = 0
  BY <1>2, Leaves, CountZero DEF IInv, Exclusion
<1>4. Holders("W")' = {} /\ Holders("R")' = Holders("R") /\ Waiting' = Waiting
  <2>1. Holders("W") \ {c} = {}
    BY <1>2, <1>3, CountZero
  <2> QED  BY <1>1, <2>1 DEF IInv, LockTypes, Holders, Waiting, Writing
<1>5. Holders("R") = {}
  BY <1>2 DEF IInv, Exclusion
<1>6. Exclusion'
  BY <1>1, <1>4, <1>5, FS_EmptySet DEF IInv, Exclusion
<1>7. LockTypes' /\ WriterCount'
  BY <1>1, <1>4 DEF IInv, LockTypes, WriterCount, Waiting
<1> QED  BY <1>6, <1>7 DEF IInv

\* Every step preserves the invariant.
LEMMA NextInv == IInv /\ [Next]_vars => IInv'
<1> SUFFICES ASSUME IInv, [Next]_vars PROVE IInv'
  OBVIOUS
<1>1. ASSUME NEW c \in Coroutines, NEW o \in Operations, RLock(c, o)
      PROVE  IInv'
  BY <1>1, AcquireReadInv, WaitingInv
     DEF RLock, ReadBlocked, Suspend, GiveUp, Reading, Writing, IInv, LockTypes
<1>2. ASSUME NEW c \in Coroutines, NEW o \in Operations, WLock(c, o)
      PROVE  IInv'
  BY <1>2, AcquireWriteInv, WaitingInv
     DEF WLock, WriteBlocked, Suspend, GiveUp, Reading, Writing, IInv, LockTypes
<1>3. ASSUME NEW c \in Coroutines, TryRLock(c) \/ TryWLock(c)
      PROVE  IInv'
  BY <1>3, AcquireReadInv, AcquireWriteInv DEF TryRLock, TryWLock, ReadBlocked, WriteBlocked
<1>4. ASSUME NEW c \in Coroutines, ResumeRLock(c) \/ ResumeTryRLock(c)
      PROVE  IInv'
  BY <1>4, AcquireReadInv, WaitingInv
     DEF ResumeRLock, ResumeTryRLock, ReadBlocked, Suspend, GiveUp, Reading, Writing,
         IInv, LockTypes
<1>5. ASSUME NEW c \in Coroutines, ResumeWLock(c)
      PROVE  IInv'
  BY <1>5, AcquireWriteInv, WaitingInv
     DEF ResumeWLock, WriteBlocked, SettledCount, Suspend, GiveUp, Reading, Writing,
         IInv, LockTypes
<1>6. ASSUME NEW c \in Coroutines, ResumeTryWLock(c)
      PROVE  IInv'
  BY <1>6, AcquireWriteInv, WaitingInv
     DEF ResumeTryWLock, WriteBlocked, SettledCount, Reading, Writing, IInv, LockTypes
<1>7. ASSUME NEW c \in Coroutines, Timeout(c) \/ RequestCancelOf(c)
      PROVE  IInv'
  BY <1>7 DEF Timeout, RequestCancelOf, IInv, LockTypes, Exclusion, WriterCount, Holders
<1>8. CASE UNCHANGED vars
  BY <1>8 DEF vars, IInv, LockTypes, Exclusion, WriterCount, Holders
<1> QED
  BY <1>1, <1>2, <1>3, <1>4, <1>5, <1>6, <1>7, <1>8, RUnLockInv, WUnLockInv
     DEF Next, ResumeLock

\* The invariant holds in every reachable state.
THEOREM Invariance == Spec => []IInv
<1>1. Init => IInv
  <2> SUFFICES ASSUME Init PROVE IInv
    OBVIOUS
  <2>1. Holders("R") = {} /\ Holders("W") = {} /\ Waiting = {}
    BY DEF Init, Holders, Waiting, Writing
  <2>2. Cardinality(Holders("R")) = 0 /\ Cardinality(Holders("W")) = 0
    BY <2>1, FS_EmptySet
  <2>3. Cardinality(Waiting) = 0
    BY <2>1, FS_EmptySet
  <2>4. LockTypes
    BY DEF Init, LockTypes
  <2> QED  BY <2>1, <2>2, <2>3, <2>4 DEF Init, IInv, Exclusion, WriterCount, Waiting
<1> QED  BY <1>1, NextInv, PTL DEF Spec

\* A writer excludes everybody; m_status and m_rlock_hold_num agree with who
\* holds the lock, for any number of coroutines.
THEOREM ExclusionHolds == Spec => []Exclusion
<1>1. IInv => Exclusion
  BY DEF IInv
<1> QED  BY Invariance, <1>1, PTL

\* m_wait_wlock_num counts exactly the writers whose wait is not settled.
THEOREM WriterCountHolds == Spec => []WriterCount
<1>1. IInv => WriterCount
  BY DEF IInv
<1> QED  BY Invariance, <1>1, PTL

\* The two together, with the counts in their ranges: what the lock's fields say
\* is what the coroutines do, for any number of coroutines.
THEOREM LockConsistentHolds == Spec => []LockConsistent
<1>1. IInv => LockConsistent
  BY DEF IInv, LockConsistent
<1> QED  BY Invariance, <1>1, PTL

\* Readers do not overtake: no step gives the read lock to a coroutine while a
\* writer's wait is undecided, because ReadBlocked sees every such writer in
\* m_wait_wlock_num.
THEOREM WriterPreferenceHolds == Spec => WriterPreference
<1>1. IInv /\ [Next]_vars =>
        [\A c \in Coroutines : op'[c] = "R" /\ op[c] # "R" =>
            \A w \in Coroutines : ~(op[w] \in Writing /\ wake[w] = "none")]_vars
  <2> SUFFICES ASSUME IInv, Next, NEW c \in Coroutines, op'[c] = "R", op[c] # "R"
               PROVE  \A w \in Coroutines : op[w] \notin Writing
    OBVIOUS
  <2>1. ~ReadBlocked
    <3>1. PICK d \in Coroutines :
            \/ \E o \in Operations : RLock(d, o) \/ WLock(d, o)
            \/ TryRLock(d) \/ TryWLock(d) \/ ResumeLock(d)
            \/ RUnLock(d) \/ WUnLock(d) \/ Timeout(d) \/ RequestCancelOf(d)
      BY DEF Next
    <3>2. ASSUME NEW o, \/ op' = [op EXCEPT ![d] = o] /\ o # "R"
                        \/ op' = op
          PROVE  FALSE
      BY <3>2 DEF IInv, LockTypes
    <3>3. CASE \E o \in Operations : RLock(d, o)
      BY <3>2, <3>3 DEF RLock, Suspend, GiveUp, Reading
    <3>4. CASE \E o \in Operations : WLock(d, o)
      BY <3>2, <3>4 DEF WLock, AcquireWrite, Suspend, GiveUp, Writing
    <3>5. CASE TryRLock(d)
      BY <3>5 DEF TryRLock
    <3>6. CASE TryWLock(d) \/ RUnLock(d) \/ WUnLock(d) \/ Timeout(d) \/ RequestCancelOf(d)
      BY <3>2, <3>6 DEF TryWLock, AcquireWrite, RUnLock, WUnLock, Timeout, RequestCancelOf
    <3>7. CASE ResumeLock(d)
      BY <3>2, <3>7 DEF ResumeLock, ResumeRLock, ResumeTryRLock, ResumeWLock, ResumeTryWLock,
                        AcquireWrite, Suspend, GiveUp
    <3> QED  BY <3>1, <3>3, <3>4, <3>5, <3>6, <3>7
  <2>2. Cardinality(Waiting) = 0
    BY <2>1 DEF ReadBlocked, IInv, LockTypes, WriterCount, Waiting
  <2>3. Waiting = {}
    BY <2>2, CountZero DEF Waiting
  <2> QED  BY <2>3 DEF Waiting
<1> QED  BY Invariance, <1>1, PTL DEF Spec, WriterPreference

-----------------------------------------------------------------------------
(* No lost wakeup: for writers, and before the first timed writer for all.  *)

\* Coroutine c has an entry in q that a Notify can still reach.
In(q, c) == \E i \in DOMAIN q : q[i] = c
Once(q) == \A i, j \in DOMAIN q : q[i] = q[j] /\ q[i] # Dead => i = j
Undecided(c) == wake[c] = "none"

\* The live entries of the two queues are the coroutines whose wait is undecided.
Queued ==
    /\ Once(rq) /\ Once(wq)
    /\ \A c \in Coroutines : /\ In(wq, c) <=> op[c] \in Writing /\ Undecided(c)
                             /\ In(rq, c) <=> op[c] \in Reading /\ Undecided(c)

\* Decided, and bound to look at the lock again and take it if it can.
OnTheWay(c) ==
    \/ op[c] \in {"RLock", "WLock"} /\ ~Undecided(c)
    \/ op[c] \in TimedOps /\ wake[c] = "notify"

\* A free lock has a writer coming while writers wait ...
WriterComing ==
    status = "FREE" /\ (\E c \in Coroutines : op[c] \in Writing /\ Undecided(c)) =>
        \E c \in Coroutines : op[c] \in Writing /\ OnTheWay(c)

\* ... and, as long as no writer waits with a timeout, somebody while readers wait:
\* a writer that holds them back by being counted is one that comes.
Untimed == \A c \in Coroutines : op[c] # "TryWLock(ms)"
ReaderServed ==
    status = "FREE" /\ (\E c \in Coroutines : op[c] \in Reading /\ Undecided(c)) =>
        \E c \in Coroutines : OnTheWay(c)

\* What a step keeps of the two.
Kept == WriterComing' /\ (Untimed /\ ReaderServed => ReaderServed')

QInv == WaitTypes /\ Queued
Entries == Coroutines \cup {Dead}

\* A nonempty set of positions has a least one.
LEMMA LeastOf ==
    ASSUME NEW T \in SUBSET Nat, T # {}
    PROVE  \E x \in T : \A y \in T : x <= y
<1>1. \E x \in T : \A y \in T : <<y, x>> \notin OpToRel(<, Nat)
  BY NatLessThanWellFounded, WFMin
<1>2. \A x, y \in Nat : <<y, x>> \notin OpToRel(<, Nat) => x <= y
  BY DEF OpToRel
<1> QED  BY <1>1, <1>2

\* An empty queue holds nobody.
LEMMA EmptyFacts ==
    /\ <<>> \in Seq(Entries) /\ Once(<<>>)
    /\ \A c \in Coroutines : ~In(<<>>, c)
BY DEF Once, In

\* An entry at the end of a queue.
LEMMA AppendFacts ==
    ASSUME NEW q \in Seq(Entries), Once(q), NEW e \in Entries, e = Dead \/ ~In(q, e)
    PROVE  /\ Append(q, e) \in Seq(Entries) /\ Once(Append(q, e))
           /\ \A d \in Coroutines : In(Append(q, e), d) <=> In(q, d) \/ d = e
<1> DEFINE p == Append(q, e)
<1>1. /\ p \in Seq(Entries) /\ Len(q) \in Nat
      /\ DOMAIN q = 1..Len(q) /\ DOMAIN p = 1..(Len(q) + 1)
      /\ \A i \in 1..Len(q) : p[i] = q[i]
      /\ p[Len(q) + 1] = e
  BY AppendProperties
<1> HIDE DEF p
<1>2. Once(p)
  BY <1>1 DEF Once, In
<1>3. \A d \in Coroutines : In(p, d) <=> In(q, d) \/ d = e
  BY <1>1 DEF In
<1> QED  BY <1>1, <1>2, <1>3 DEF p

\* A wait is decided from outside: its entry is dead, the others stay.
LEMMA BuryFacts ==
    ASSUME NEW q \in Seq(Entries), Once(q), NEW c \in Coroutines
    PROVE  /\ Bury(q, c) \in Seq(Entries) /\ Once(Bury(q, c))
           /\ \A d \in Coroutines : In(Bury(q, c), d) <=> In(q, d) /\ d # c
<1>1. /\ DOMAIN Bury(q, c) = DOMAIN q /\ DOMAIN q = 1..Len(q) /\ Len(q) \in Nat
      /\ \A i \in DOMAIN q : q[i] \in Entries
      /\ \A i \in DOMAIN q : Bury(q, c)[i] = IF q[i] = c THEN Dead ELSE q[i]
  BY DEF Bury
<1>2. Bury(q, c) \in Seq(Entries)
  <2>1. Bury(q, c) \in [1..Len(q) -> Entries]
    BY <1>1 DEF Bury, Entries
  <2> QED  BY <1>1, <2>1, SeqDef
<1>3. Once(Bury(q, c))
  BY <1>1 DEF Once
<1>4. \A d \in Coroutines : In(Bury(q, c), d) <=> In(q, d) /\ d # c
  BY <1>1 DEF In
<1> QED  BY <1>2, <1>3, <1>4

\* What remains of a queue after its first f entries.
LEMMA RestOf ==
    ASSUME NEW q \in Seq(Entries), NEW f \in 1..Len(q)
    PROVE  /\ SubSeq(q, f + 1, Len(q)) \in Seq(Entries)
           /\ Len(SubSeq(q, f + 1, Len(q))) = Len(q) - f
           /\ \A i \in 1 .. Len(q) - f : SubSeq(q, f + 1, Len(q))[i] = q[f + i]
<1> DEFINE m == f + 1
<1>1. m \in Int /\ Len(q) \in Int /\ \A i \in m..Len(q) : q[i] \in Entries
  OBVIOUS
<1> HIDE DEF m
<1>2. /\ SubSeq(q, m, Len(q)) \in Seq(Entries)
      /\ Len(SubSeq(q, m, Len(q))) = IF m <= Len(q) THEN Len(q) - m + 1 ELSE 0
      /\ \A i \in 1 .. Len(q) - m + 1 : SubSeq(q, m, Len(q))[i] = q[m + i - 1]
  BY <1>1, SubSeqProperties
<1>3. \A i \in 1 .. Len(q) - f : m + i - 1 = f + i /\ i \in 1 .. Len(q) - m + 1
  BY DEF m
<1>4. \A i \in 1 .. Len(q) - f : SubSeq(q, m, Len(q))[i] = q[f + i]
  BY <1>2, <1>3
<1>5. Len(SubSeq(q, m, Len(q))) = Len(q) - f
  BY <1>2 DEF m
<1> QED  BY <1>2, <1>4, <1>5 DEF m

\* A pop wakes exactly the coroutine it takes out, or finds nobody to wake.
LEMMA PopFacts ==
    ASSUME NEW q \in Seq(Entries), Once(q)
    PROVE  /\ PopOne(q) \in Seq(Entries) /\ Once(PopOne(q))
           /\ Live(q) = {} =>
                 /\ Woken(q) = {}
                 /\ \A d \in Coroutines : ~In(q, d) /\ ~In(PopOne(q), d)
           /\ Live(q) # {} =>
                 \E w \in Coroutines :
                    /\ Woken(q) = {w} /\ In(q, w)
                    /\ \A d \in Coroutines : In(PopOne(q), d) <=> In(q, d) /\ d # w
<1>1. DOMAIN q = 1..Len(q) /\ Len(q) \in Nat /\ \A i \in DOMAIN q : q[i] \in Entries
  OBVIOUS
<1>2. CASE Live(q) = {}
  BY <1>1, <1>2, EmptyFacts DEF Live, PopOne, Woken, In
<1>3. CASE Live(q) # {}
  <2> DEFINE f == FirstLive(q)
             p == SubSeq(q, f + 1, Len(q))
  <2>1. Live(q) \in SUBSET Nat
    BY <1>1 DEF Live
  <2>2. f \in Live(q) /\ \A j \in Live(q) : f <= j
    <3>1. \E i \in Live(q) : \A j \in Live(q) : i <= j
      BY <1>3, <2>1, LeastOf
    <3> QED  BY <3>1 DEF FirstLive
  <2> HIDE DEF f
  <2>3. f \in 1..Len(q) /\ q[f] \in Coroutines /\ q[f] # Dead
    BY <1>1, <2>2 DEF Live, Entries
  <2>4. p \in Seq(Entries) /\ Len(p) = Len(q) - f /\ \A i \in 1 .. Len(q) - f : p[i] = q[f + i]
    BY <2>3, RestOf
  <2>5. PopOne(q) = p /\ Woken(q) = {q[f]}
    BY <1>3 DEF PopOne, Woken, f
  <2>6. DOMAIN p = 1 .. Len(q) - f
    BY <2>4
  <2> HIDE DEF p
  <2>7. Once(p)
    <3> SUFFICES ASSUME NEW i \in 1 .. Len(q) - f, NEW j \in 1 .. Len(q) - f,
                        q[f + i] = q[f + j], q[f + i] # Dead
                 PROVE  i = j
      BY <2>4, <2>6 DEF Once
    <3>1. f + i \in DOMAIN q /\ f + j \in DOMAIN q
      BY <1>1, <2>3
    <3>2. f + i = f + j
      BY <3>1 DEF Once
    <3> QED  BY <2>3, <3>2
  <2>8. ASSUME NEW d \in Coroutines PROVE In(p, d) <=> In(q, d) /\ d # q[f]
    <3>1. ASSUME In(p, d) PROVE In(q, d) /\ d # q[f]
      <4>1. PICK i \in 1 .. Len(q) - f : q[f + i] = d
        BY <3>1, <2>4, <2>6 DEF In
      <4>2. f + i \in DOMAIN q /\ f + i # f
        BY <1>1, <2>3
      <4> QED  BY <4>1, <4>2, <1>1, <2>3 DEF In, Once
    <3>2. ASSUME In(q, d), d # q[f] PROVE In(p, d)
      <4>1. PICK i \in DOMAIN q : q[i] = d
        BY <3>2 DEF In
      <4>2. i \in Live(q) /\ i # f
        BY <3>2, <4>1 DEF Live
      <4>3. i - f \in 1 .. Len(q) - f /\ f + (i - f) = i
        BY <1>1, <2>2, <2>3, <4>2
      <4>4. p[i - f] = d
        BY <4>1, <4>3, <2>4
      <4> QED  BY <4>3, <4>4, <2>6 DEF In
    <3> QED  BY <3>1, <3>2
  <2>9. In(q, q[f])
    BY <1>1, <2>3 DEF In
  <2> QED  BY <1>3, <2>3, <2>4, <2>5, <2>7, <2>8, <2>9
<1> QED  BY <1>2, <1>3

\* Without timed writers, a counted writer makes a free lock's next visitor
\* certain: it is decided, or one that is decided comes for it.
LEMMA WriterComes ==
    ASSUME IInv, WriterComing, Untimed, status = "FREE", waitNum > 0
    PROVE  \E w \in Coroutines : op[w] = "WLock" /\ ~Undecided(w)
<1>1. Cardinality(Waiting) # 0
  BY DEF IInv, LockTypes, WriterCount, Waiting
<1>2. Waiting # {}
  BY <1>1, CountZero DEF Waiting
<1>3. PICK w \in Coroutines : op[w] \in Writing
  BY <1>2 DEF Waiting
<1>4. op[w] = "WLock"
  BY <1>3 DEF Untimed, Writing
<1>5. CASE Undecided(w)
  <2>1. PICK d \in Coroutines : op[d] \in Writing /\ OnTheWay(d)
    BY <1>3, <1>5 DEF WriterComing
  <2> QED  BY <2>1 DEF Untimed, Writing, OnTheWay, TimedOps
<1> QED  BY <1>4, <1>5

\* What holds of the queues after the wait of c is over: c has no live entry.
LEMMA NotIn ==
    ASSUME QInv, NEW c \in Coroutines,
           op[c] \notin Reading \cup Writing \/ wake[c] # "none"
    PROVE  ~In(rq, c) /\ ~In(wq, c)
BY DEF QInv, Queued, Undecided

\* Whoever is not queued takes the read lock, and all readers are notified.
LEMMA AcquireReadQ ==
    ASSUME IInv, QInv, NEW c \in Coroutines, AcquireRead(c), ~In(rq, c), ~In(wq, c)
    PROVE  QInv'
<1>1. op' = [op EXCEPT ![c] = "R"] /\ wq' = wq /\ cancelReq' = cancelReq
  BY DEF AcquireRead, NotifyAllReaders
<1>2. CASE waitNum # 0
  BY <1>1, <1>2 DEF AcquireRead, QInv, WaitTypes, Queued, Undecided, IInv, LockTypes, Reading, Writing
<1>3. CASE waitNum = 0
  <2>1. /\ rq' = <<>>
        /\ wake' = [d \in Coroutines |-> IF d \in {rq[i] : i \in Live(rq)} THEN "notify" ELSE wake[d]]
    BY <1>3 DEF AcquireRead, NotifyAllReaders, Notified
  <2>2. \A d \in Coroutines : d \in {rq[i] : i \in Live(rq)} <=> In(rq, d)
    BY DEF Live, In
  <2>3. WaitTypes'
    BY <1>1, <2>1, EmptyFacts DEF QInv, WaitTypes, Entries
  <2>4. \A d \in Coroutines : wake'[d] = IF In(rq, d) THEN "notify" ELSE wake[d]
    BY <2>1, <2>2
  <2>5. Queued'
    <3>1. Once(rq)' /\ Once(wq)'
      BY <1>1, <2>1, EmptyFacts DEF QInv, Queued, Once
    <3>2. ASSUME NEW d \in Coroutines
          PROVE  /\ In(wq, d)' <=> op'[d] \in Writing /\ wake'[d] = "none"
                 /\ In(rq, d)' <=> op'[d] \in Reading /\ wake'[d] = "none"
      <4>1. ~In(<<>>, d) /\ In(rq, d)' = In(<<>>, d) /\ In(wq, d)' = In(wq, d)
        BY <1>1, <2>1, EmptyFacts DEF In
      <4> QED  BY <1>1, <2>4, <4>1 DEF QInv, Queued, Undecided, IInv, LockTypes, Reading, Writing
    <3> QED  BY <3>1, <3>2 DEF Queued, Undecided
  <2> QED  BY <2>3, <2>5 DEF QInv
<1> QED  BY <1>2, <1>3

\* Whoever is not queued takes the write lock.
LEMMA AcquireWriteQ ==
    ASSUME IInv, QInv, NEW c \in Coroutines, AcquireWrite(c), ~In(rq, c), ~In(wq, c)
    PROVE  QInv'
BY DEF AcquireWrite, QInv, WaitTypes, Queued, Undecided, IInv, LockTypes, Reading, Writing, In, Once

\* Whoever is not queued suspends in o.
LEMMA SuspendQ ==
    ASSUME IInv, QInv, NEW c \in Coroutines, NEW o, Suspend(c, o), ~In(rq, c), ~In(wq, c)
    PROVE  QInv'
<1> DEFINE e == IF cancelReq[c] THEN Dead ELSE c
<1>1. /\ op' = [op EXCEPT ![c] = o] /\ cancelReq' = cancelReq
      /\ wake' = [wake EXCEPT ![c] = IF cancelReq[c] THEN "cancel" ELSE "none"]
      /\ \/ o \in Reading /\ rq' = Append(rq, e) /\ wq' = wq
         \/ o \in Writing /\ wq' = Append(wq, e) /\ rq' = rq
  BY DEF Suspend
<1>2. e \in Entries /\ (e = Dead \/ (~In(rq, e) /\ ~In(wq, e)))
  BY DEF Entries
<1>d. \A d \in Coroutines : d = e <=> ~cancelReq[c] /\ d = c
  OBVIOUS
<1>t. /\ rq \in Seq(Entries) /\ wq \in Seq(Entries) /\ Once(rq) /\ Once(wq)
      /\ wake \in [Coroutines -> {"none", "notify", "timeout", "cancel"}]
      /\ op \in [Coroutines -> {"idle", "R", "W"} \cup Reading \cup Writing]
      /\ cancelReq \in [Coroutines -> BOOLEAN]
  BY DEF QInv, WaitTypes, Queued, Entries, IInv, LockTypes
<1> HIDE DEF e
<1>3. CASE o \in Reading /\ rq' = Append(rq, e) /\ wq' = wq
  <2>1. /\ rq' \in Seq(Entries) /\ Once(rq') /\ wq' = wq
        /\ \A d \in Coroutines : In(rq', d) <=> In(rq, d) \/ (~cancelReq[c] /\ d = c)
    BY <1>2, <1>3, <1>t, <1>d, AppendFacts
  <2>2. WaitTypes'
    BY <1>1, <1>t, <2>1 DEF WaitTypes, Entries
  <2>3. ASSUME NEW d \in Coroutines
        PROVE  /\ In(wq', d) <=> op'[d] \in Writing /\ wake'[d] = "none"
               /\ In(rq', d) <=> op'[d] \in Reading /\ wake'[d] = "none"
    BY <1>1, <1>3, <1>t, <2>1 DEF QInv, Queued, Undecided, Reading, Writing
  <2> QED  BY <1>t, <2>1, <2>2, <2>3 DEF QInv, Queued, Undecided
<1>4. CASE o \in Writing /\ wq' = Append(wq, e) /\ rq' = rq
  <2>1. /\ wq' \in Seq(Entries) /\ Once(wq') /\ rq' = rq
        /\ \A d \in Coroutines : In(wq', d) <=> In(wq, d) \/ (~cancelReq[c] /\ d = c)
    BY <1>2, <1>4, <1>t, <1>d, AppendFacts
  <2>2. WaitTypes'
    BY <1>1, <1>t, <2>1 DEF WaitTypes, Entries
  <2>3. ASSUME NEW d \in Coroutines
        PROVE  /\ In(wq', d) <=> op'[d] \in Writing /\ wake'[d] = "none"
               /\ In(rq', d) <=> op'[d] \in Reading /\ wake'[d] = "none"
    BY <1>1, <1>4, <1>t, <2>1 DEF QInv, Queued, Undecided, Reading, Writing
  <2> QED  BY <1>t, <2>1, <2>2, <2>3 DEF QInv, Queued, Undecided
<1> QED  BY <1>1, <1>3, <1>4

\* Whoever is not queued gives up and leaves a dead entry.
LEMMA GiveUpQ ==
    ASSUME IInv, QInv, NEW c \in Coroutines, NEW o, GiveUp(c, o), ~In(rq, c), ~In(wq, c)
    PROVE  QInv'
<1>1. /\ op' = [op EXCEPT ![c] = "idle"] /\ cancelReq' = cancelReq /\ wake' = wake
      /\ \/ rq' = Append(rq, Dead) /\ wq' = wq
         \/ wq' = Append(wq, Dead) /\ rq' = rq
  BY DEF GiveUp
<1>t. /\ rq \in Seq(Entries) /\ wq \in Seq(Entries) /\ Once(rq) /\ Once(wq)
      /\ op \in [Coroutines -> {"idle", "R", "W"} \cup Reading \cup Writing]
      /\ Dead \in Entries
  BY DEF QInv, WaitTypes, Queued, Entries, IInv, LockTypes
<1>2. /\ rq' \in Seq(Entries) /\ wq' \in Seq(Entries) /\ Once(rq') /\ Once(wq')
      /\ \A d \in Coroutines : (In(rq', d) <=> In(rq, d)) /\ (In(wq', d) <=> In(wq, d))
  <2>1. ASSUME NEW q \in Seq(Entries), Once(q)
        PROVE  /\ Append(q, Dead) \in Seq(Entries) /\ Once(Append(q, Dead))
               /\ \A d \in Coroutines : In(Append(q, Dead), d) <=> In(q, d)
    BY <1>t, <2>1, AppendFacts
  <2>2. CASE rq' = Append(rq, Dead) /\ wq' = wq
    BY <1>t, <2>1, <2>2
  <2>3. CASE wq' = Append(wq, Dead) /\ rq' = rq
    BY <1>t, <2>1, <2>3
  <2> QED  BY <1>1, <2>2, <2>3
<1>3. WaitTypes'
  BY <1>1, <1>2 DEF QInv, WaitTypes, Entries
<1>4. ASSUME NEW d \in Coroutines
      PROVE  /\ In(wq', d) <=> op'[d] \in Writing /\ wake'[d] = "none"
             /\ In(rq', d) <=> op'[d] \in Reading /\ wake'[d] = "none"
  BY <1>1, <1>t, <1>2 DEF QInv, Queued, Undecided, Reading, Writing
<1> QED  BY <1>2, <1>3, <1>4 DEF QInv, Queued, Undecided

\* A holder leaves and notifies one waiter, a writer if there is one.
LEMMA NotifyOneQ ==
    ASSUME IInv, QInv, NEW c \in Coroutines, op[c] \in {"R", "W"},
           op' = [op EXCEPT ![c] = "idle"], NotifyOne, UNCHANGED cancelReq
    PROVE  QInv' /\ WriterComing' /\ ReaderServed'
<1>t. /\ rq \in Seq(Entries) /\ wq \in Seq(Entries) /\ Once(rq) /\ Once(wq)
      /\ wake \in [Coroutines -> {"none", "notify", "timeout", "cancel"}]
      /\ op \in [Coroutines -> {"idle", "R", "W"} \cup Reading \cup Writing]
      /\ cancelReq' \in [Coroutines -> BOOLEAN]
  BY DEF QInv, WaitTypes, Queued, Entries, IInv, LockTypes
<1>o. \A d \in Coroutines : /\ op'[d] \in Writing <=> op[d] \in Writing
                            /\ op'[d] \in Reading <=> op[d] \in Reading
                            /\ op[d] \in Reading \cup Writing => op'[d] = op[d]
  BY <1>t DEF Reading, Writing
<1>q. \A d \in Coroutines : /\ In(wq, d) <=> op[d] \in Writing /\ wake[d] = "none"
                            /\ In(rq, d) <=> op[d] \in Reading /\ wake[d] = "none"
  BY DEF QInv, Queued, Undecided
<1>1. CASE Live(wq) # {}
  <2>1. PICK w \in Coroutines :
           /\ Woken(wq) = {w} /\ In(wq, w)
           /\ \A d \in Coroutines : In(PopOne(wq), d) <=> In(wq, d) /\ d # w
    BY <1>1, <1>t, PopFacts
  <2>2. /\ wq' = PopOne(wq) /\ rq' = rq
        /\ wake' = [d \in Coroutines |-> IF d = w THEN "notify" ELSE wake[d]]
    BY <1>1, <2>1 DEF NotifyOne, Notified
  <2>3. wq' \in Seq(Entries) /\ Once(wq')
    BY <1>t, <2>2, PopFacts
  <2>4. WaitTypes'
    BY <1>t, <2>2, <2>3 DEF WaitTypes, Entries
  <2>5. ASSUME NEW d \in Coroutines
        PROVE  /\ In(wq', d) <=> op'[d] \in Writing /\ wake'[d] = "none"
               /\ In(rq', d) <=> op'[d] \in Reading /\ wake'[d] = "none"
    <3>1. wake'[d] = (IF d = w THEN "notify" ELSE wake[d]) /\ (In(rq', d) <=> In(rq, d))
      BY <2>2
    <3>2. In(wq', d) <=> In(wq, d) /\ d # w
      BY <2>1, <2>2
    <3>3. op[w] \notin Reading
      BY <1>q, <2>1 DEF Reading, Writing
    <3> QED  BY <1>o, <1>q, <3>1, <3>2, <3>3
  <2>6. QInv'
    BY <1>t, <2>2, <2>3, <2>4, <2>5 DEF QInv, Queued, Undecided
  <2>7. op'[w] \in Writing /\ wake'[w] = "notify"
    BY <1>o, <1>q, <2>1, <2>2
  <2>8. WriterComing' /\ ReaderServed'
    BY <2>7 DEF WriterComing, ReaderServed, OnTheWay, Undecided, Writing, TimedOps
  <2> QED  BY <2>6, <2>8
<1>2. CASE Live(wq) = {} /\ Live(rq) # {}
  <2>1. PICK w \in Coroutines :
           /\ Woken(rq) = {w} /\ In(rq, w)
           /\ \A d \in Coroutines : In(PopOne(rq), d) <=> In(rq, d) /\ d # w
    BY <1>2, <1>t, PopFacts
  <2>2. /\ wq' = PopOne(wq) /\ rq' = PopOne(rq)
        /\ wake' = [d \in Coroutines |-> IF d = w THEN "notify" ELSE wake[d]]
    BY <1>2, <2>1 DEF NotifyOne, Notified
  <2>3. rq' \in Seq(Entries) /\ Once(rq') /\ wq' \in Seq(Entries) /\ Once(wq')
    BY <1>t, <2>2, PopFacts
  <2>e. \A d \in Coroutines : ~In(wq, d) /\ ~In(wq', d)
    BY <1>2, <1>t, <2>2, PopFacts
  <2>4. WaitTypes'
    BY <1>t, <2>2, <2>3 DEF WaitTypes, Entries
  <2>5. ASSUME NEW d \in Coroutines
        PROVE  /\ In(wq', d) <=> op'[d] \in Writing /\ wake'[d] = "none"
               /\ In(rq', d) <=> op'[d] \in Reading /\ wake'[d] = "none"
    <3>1. wake'[d] = (IF d = w THEN "notify" ELSE wake[d])
      BY <2>2
    <3>2. In(rq', d) <=> In(rq, d) /\ d # w
      BY <2>1, <2>2
    <3> QED  BY <1>o, <1>q, <2>e, <3>1, <3>2
  <2>6. QInv'
    BY <2>3, <2>4, <2>5 DEF QInv, Queued, Undecided
  <2>7. op'[w] \in Reading /\ wake'[w] = "notify"
    BY <1>o, <1>q, <2>1, <2>2
  <2>8. \A d \in Coroutines : ~(op'[d] \in Writing /\ wake'[d] = "none")
    BY <2>e, <2>5
  <2>9. WriterComing' /\ ReaderServed'
    BY <2>7, <2>8 DEF WriterComing, ReaderServed, OnTheWay, Undecided, Reading, TimedOps
  <2> QED  BY <2>6, <2>9
<1>3. CASE Live(wq) = {} /\ Live(rq) = {}
  <2>2. /\ wq' = PopOne(wq) /\ rq' = PopOne(rq)
        /\ wake' = [d \in Coroutines |-> wake[d]]
    BY <1>3, <1>t, PopFacts DEF NotifyOne, Notified
  <2>3. rq' \in Seq(Entries) /\ Once(rq') /\ wq' \in Seq(Entries) /\ Once(wq')
    BY <1>t, <2>2, PopFacts
  <2>e. \A d \in Coroutines : ~In(wq, d) /\ ~In(wq', d) /\ ~In(rq, d) /\ ~In(rq', d)
    BY <1>3, <1>t, <2>2, PopFacts
  <2>4. WaitTypes'
    BY <1>t, <2>2, <2>3 DEF WaitTypes, Entries
  <2>5. ASSUME NEW d \in Coroutines
        PROVE  /\ ~(op'[d] \in Writing /\ wake'[d] = "none")
               /\ ~(op'[d] \in Reading /\ wake'[d] = "none")
    BY <1>o, <1>q, <2>e, <2>2
  <2>6. QInv'
    BY <2>3, <2>e, <2>4, <2>5 DEF QInv, Queued, Undecided
  <2>7. WriterComing' /\ ReaderServed'
    BY <2>5 DEF WriterComing, ReaderServed, Undecided
  <2> QED  BY <2>6, <2>7
<1> QED  BY <1>1, <1>2, <1>3

\* The last holder leaves when no writer has an entry, and notifies all readers.
LEMMA NotifyReadersQ ==
    ASSUME IInv, QInv, wq = <<>>, NEW c \in Coroutines, op[c] \in {"R", "W"},
           op' = [op EXCEPT ![c] = "idle"], NotifyAllReaders, UNCHANGED cancelReq
    PROVE  QInv' /\ WriterComing' /\ ReaderServed'
<1>t. /\ wake \in [Coroutines -> {"none", "notify", "timeout", "cancel"}]
      /\ op \in [Coroutines -> {"idle", "R", "W"} \cup Reading \cup Writing]
      /\ cancelReq' \in [Coroutines -> BOOLEAN]
  BY DEF QInv, WaitTypes, IInv, LockTypes
<1>1. /\ rq' = <<>> /\ wq' = <<>>
      /\ wake' = [d \in Coroutines |-> IF d \in {rq[i] : i \in Live(rq)} THEN "notify" ELSE wake[d]]
  BY DEF NotifyAllReaders, Notified
<1>2. \A d \in Coroutines : d \in {rq[i] : i \in Live(rq)} <=> In(rq, d)
  BY DEF Live, In
<1>3. WaitTypes'
  BY <1>1, <1>t, EmptyFacts DEF WaitTypes, Entries
<1>4. \A d \in Coroutines : /\ wake'[d] = IF In(rq, d) THEN "notify" ELSE wake[d]
                            /\ ~In(wq, d) /\ ~In(rq', d) /\ ~In(wq', d)
  BY <1>1, <1>2, EmptyFacts
<1>5. ASSUME NEW d \in Coroutines
      PROVE  /\ ~(op'[d] \in Writing /\ wake'[d] = "none")
             /\ ~(op'[d] \in Reading /\ wake'[d] = "none")
  BY <1>t, <1>4 DEF QInv, Queued, Undecided, Reading, Writing
<1>6. Once(rq') /\ Once(wq')
  BY <1>1, EmptyFacts
<1>7. QInv'
  BY <1>3, <1>4, <1>5, <1>6 DEF QInv, Queued, Undecided
<1> QED  BY <1>5, <1>7 DEF WriterComing, ReaderServed, Undecided

\* A wait is decided by its timer or by a cancel.
LEMMA DecideQ ==
    ASSUME IInv, QInv, WriterComing, NEW c \in Coroutines, op[c] \in Reading \cup Writing,
           Undecided(c), NEW k \in {"timeout", "cancel"},
           wake' = [wake EXCEPT ![c] = k], rq' = Bury(rq, c), wq' = Bury(wq, c),
           cancelReq' \in [Coroutines -> BOOLEAN], UNCHANGED <<status, op>>
    PROVE  QInv' /\ Kept
<1>t. /\ rq \in Seq(Entries) /\ wq \in Seq(Entries) /\ Once(rq) /\ Once(wq)
      /\ wake \in [Coroutines -> {"none", "notify", "timeout", "cancel"}]
  BY DEF QInv, WaitTypes, Queued, Entries
<1>1. /\ rq' \in Seq(Entries) /\ wq' \in Seq(Entries) /\ Once(rq') /\ Once(wq')
      /\ \A d \in Coroutines : (In(rq', d) <=> In(rq, d) /\ d # c)
                               /\ (In(wq', d) <=> In(wq, d) /\ d # c)
  BY <1>t, BuryFacts
<1>2. WaitTypes'
  BY <1>t, <1>1 DEF WaitTypes, Entries
<1>3. \A d \in Coroutines : wake'[d] = IF d = c THEN k ELSE wake[d]
  BY <1>t
<1>4. QInv'
  BY <1>1, <1>2, <1>3 DEF QInv, Queued, Undecided
<1>5. Kept
  <2>1. \A d \in Coroutines : Undecided(d)' => Undecided(d)
    BY <1>3 DEF Undecided
  <2>2. \A d \in Coroutines : ~Undecided(d) => ~Undecided(d)' /\ wake'[d] = wake[d]
    BY <1>3 DEF Undecided
  <2>3. \A d \in Coroutines : OnTheWay(d) => OnTheWay(d)'
    BY <2>2 DEF OnTheWay, Undecided, TimedOps
  <2> QED  BY <2>1, <2>3 DEF Kept, WriterComing, ReaderServed
<1> QED  BY <1>4, <1>5

\* A reader that finds the lock free but promised to a writer waits or leaves:
\* the writer still comes.
LEMMA ReaderStays ==
    ASSUME IInv, WriterComing, NEW c \in Coroutines,
           op[c] \in {"idle"} \cup Reading, op'[c] \notin Writing, status' = status,
           status = "FREE" => waitNum > 0,
           \A d \in Coroutines \ {c} : op'[d] = op[d] /\ wake'[d] = wake[d]
    PROVE  Kept
<1>1. \A d \in Coroutines : op'[d] \in Writing \/ op[d] \in Writing =>
        d # c /\ op'[d] = op[d] /\ wake'[d] = wake[d]
  BY DEF Reading, Writing
<1>2. \A d \in Coroutines : op[d] \in Writing /\ OnTheWay(d) => op'[d] \in Writing /\ OnTheWay(d)'
  BY <1>1 DEF OnTheWay, Undecided
<1>3. WriterComing'
  BY <1>1, <1>2 DEF WriterComing, Undecided
<1>4. ASSUME Untimed, status = "FREE" PROVE \E d \in Coroutines : OnTheWay(d)'
  <2>1. PICK w \in Coroutines : op[w] = "WLock" /\ ~Undecided(w)
    BY <1>4, WriterComes
  <2> QED  BY <1>2, <2>1 DEF OnTheWay, Writing
<1> QED  BY <1>3, <1>4 DEF Kept, ReaderServed

\* A wait that ended without a notification was nobody's promise.
LEMMA NobodyLeaves ==
    ASSUME WriterComing, NEW c \in Coroutines, op[c] \in TimedOps, wake[c] # "notify",
           \A d \in Coroutines : op'[d] = IF d = c THEN "idle" ELSE op[d],
           UNCHANGED <<status, wake>>
    PROVE  Kept
<1>1. ~OnTheWay(c)
  BY DEF OnTheWay, TimedOps
<1>2. \A d \in Coroutines : OnTheWay(d) => OnTheWay(d)' /\ op'[d] = op[d]
  BY <1>1 DEF OnTheWay, Undecided
<1>3. \A d \in Coroutines : /\ op'[d] \in Writing => op[d] \in Writing
                            /\ op'[d] \in Reading => op[d] \in Reading
                            /\ Undecided(d)' => Undecided(d)
  BY DEF Undecided, Reading, Writing
<1> QED  BY <1>2, <1>3 DEF Kept, WriterComing, ReaderServed

\* The lock is held after the step: there is nothing to show.
LEMMA HeldKept ==
    ASSUME status' # "FREE"
    PROVE  Kept
BY DEF Kept, WriterComing, ReaderServed

\* Every step keeps the queues in agreement with the waits, and the promises.
LEMMA QueuesNext ==
    ASSUME IInv, QInv, WriterComing, [Next]_vars
    PROVE  QInv' /\ Kept
<1>t. /\ op \in [Coroutines -> {"idle", "R", "W"} \cup Reading \cup Writing]
      /\ wake \in [Coroutines -> {"none", "notify", "timeout", "cancel"}]
      /\ waitNum \in Nat /\ rhold \in Nat /\ status \in {"FREE", "RLOCKED", "WLOCKED"}
  BY DEF IInv, LockTypes, QInv, WaitTypes
<1>a. ASSUME NEW c \in Coroutines, op[c] \in {"idle"} \cup Reading, ReadBlocked,
             NEW o \in Reading, Suspend(c, o) \/ GiveUp(c, o), ~In(rq, c), ~In(wq, c)
      PROVE  QInv' /\ Kept
  <2>1. QInv'
    BY <1>a, SuspendQ, GiveUpQ
  <2>2. /\ status' = status /\ (status = "FREE" => waitNum > 0) /\ op'[c] \notin Writing
        /\ \A d \in Coroutines \ {c} : op'[d] = op[d] /\ wake'[d] = wake[d]
    BY <1>a, <1>t DEF Suspend, GiveUp, ReadBlocked, Reading, Writing
  <2> QED  BY <1>a, <2>1, <2>2, ReaderStays
<1>b. ASSUME NEW c \in Coroutines, AcquireRead(c), ~In(rq, c), ~In(wq, c)
      PROVE  QInv' /\ Kept
  BY <1>b, AcquireReadQ, HeldKept DEF AcquireRead
<1>c. ASSUME NEW c \in Coroutines, AcquireWrite(c), ~In(rq, c), ~In(wq, c)
      PROVE  QInv' /\ Kept
  BY <1>c, AcquireWriteQ, HeldKept DEF AcquireWrite
<1>d. ASSUME NEW c \in Coroutines, WriteBlocked, NEW o, Suspend(c, o) \/ GiveUp(c, o),
             ~In(rq, c), ~In(wq, c)
      PROVE  QInv' /\ Kept
  <2>1. status' # "FREE"
    BY <1>d DEF WriteBlocked, Suspend, GiveUp
  <2> QED  BY <1>d, <2>1, SuspendQ, GiveUpQ, HeldKept
<1>1. ASSUME NEW c \in Coroutines, NEW o \in Operations, RLock(c, o)
      PROVE  QInv' /\ Kept
  <2>1. ~In(rq, c) /\ ~In(wq, c)
    BY <1>1, NotIn DEF RLock, Reading, Writing
  <2> QED  BY <1>1, <1>a, <1>b, <2>1 DEF RLock
<1>2. ASSUME NEW c \in Coroutines, NEW o \in Operations, WLock(c, o)
      PROVE  QInv' /\ Kept
  <2>1. ~In(rq, c) /\ ~In(wq, c)
    BY <1>2, NotIn DEF WLock, Reading, Writing
  <2> QED  BY <1>2, <1>c, <1>d, <2>1 DEF WLock
<1>3. ASSUME NEW c \in Coroutines, TryRLock(c) \/ TryWLock(c)
      PROVE  QInv' /\ Kept
  <2>1. ~In(rq, c) /\ ~In(wq, c)
    BY <1>3, NotIn DEF TryRLock, TryWLock, Reading, Writing
  <2> QED  BY <1>3, <1>b, <1>c, <2>1 DEF TryRLock, TryWLock
<1>4. ASSUME NEW c \in Coroutines, ResumeRLock(c)
      PROVE  QInv' /\ Kept
  <2>1. ~In(rq, c) /\ ~In(wq, c)
    BY <1>4, NotIn DEF ResumeRLock
  <2> QED  BY <1>4, <1>a, <1>b, <2>1 DEF ResumeRLock, Reading
<1>5. ASSUME NEW c \in Coroutines, ResumeTryRLock(c)
      PROVE  QInv' /\ Kept
  <2>1. ~In(rq, c) /\ ~In(wq, c) /\ op[c] = "TryRLock(ms)"
    BY <1>5, NotIn DEF ResumeTryRLock
  <2>2. CASE AcquireRead(c)
    BY <1>b, <2>1, <2>2
  <2>3. CASE /\ wake[c] # "notify" \/ ReadBlocked
             /\ op' = [op EXCEPT ![c] = "idle"]
             /\ UNCHANGED <<status, rhold, rq, wq, wake, cancelReq>>
    <3>1. \A d \in Coroutines : op'[d] = IF d = c THEN "idle" ELSE op[d]
      BY <1>t, <2>3
    <3>2. QInv'
      BY <2>1, <2>3, <3>1 DEF QInv, WaitTypes, Queued, Undecided, Reading, Writing
    <3>3. CASE ReadBlocked
      BY <1>t, <2>1, <2>3, <3>1, <3>2, <3>3, ReaderStays DEF ReadBlocked, Reading, Writing
    <3>4. CASE wake[c] # "notify"
      BY <2>1, <2>3, <3>1, <3>2, <3>4, NobodyLeaves DEF TimedOps
    <3> QED  BY <2>3, <3>3, <3>4
  <2> QED  BY <1>5, <2>2, <2>3 DEF ResumeTryRLock
<1>6. ASSUME NEW c \in Coroutines, ResumeWLock(c)
      PROVE  QInv' /\ Kept
  <2>1. ~In(rq, c) /\ ~In(wq, c)
    BY <1>6, NotIn DEF ResumeWLock
  <2> QED  BY <1>6, <1>c, <1>d, <2>1 DEF ResumeWLock
<1>7. ASSUME NEW c \in Coroutines, ResumeTryWLock(c)
      PROVE  QInv' /\ Kept
  <2>1. ~In(rq, c) /\ ~In(wq, c) /\ op[c] = "TryWLock(ms)"
    BY <1>7, NotIn DEF ResumeTryWLock
  <2>2. CASE AcquireWrite(c)
    BY <1>c, <2>1, <2>2
  <2>3. CASE /\ wake[c] # "notify" \/ WriteBlocked
             /\ op' = [op EXCEPT ![c] = "idle"]
             /\ UNCHANGED <<status, rhold, rq, wq, wake, cancelReq>>
    <3>1. \A d \in Coroutines : op'[d] = IF d = c THEN "idle" ELSE op[d]
      BY <1>t, <2>3
    <3>2. QInv'
      BY <2>1, <2>3, <3>1 DEF QInv, WaitTypes, Queued, Undecided, Reading, Writing
    <3>3. CASE WriteBlocked
      BY <2>3, <3>2, <3>3, HeldKept DEF WriteBlocked
    <3>4. CASE wake[c] # "notify"
      BY <2>1, <2>3, <3>1, <3>2, <3>4, NobodyLeaves DEF TimedOps
    <3> QED  BY <2>3, <3>3, <3>4
  <2> QED  BY <1>7, <2>2, <2>3 DEF ResumeTryWLock
<1>8. ASSUME NEW c \in Coroutines, RUnLock(c)
      PROVE  QInv' /\ Kept
  <2>1. CASE rhold = 1
    BY <1>8, <2>1, NotifyOneQ DEF RUnLock, Kept
  <2>2. CASE rhold # 1
    <3>1. \A d \in Coroutines : op'[d] = IF d = c THEN "idle" ELSE op[d]
      BY <1>8, <1>t DEF RUnLock
    <3>2. QInv'
      BY <1>8, <2>2, <3>1 DEF RUnLock, QInv, WaitTypes, Queued, Undecided, Reading, Writing
    <3> QED  BY <1>8, <2>2, <3>2, HeldKept DEF RUnLock
  <2> QED  BY <2>1, <2>2
<1>9. ASSUME NEW c \in Coroutines, WUnLock(c)
      PROVE  QInv' /\ Kept
  BY <1>9, NotifyOneQ, NotifyReadersQ DEF WUnLock, Kept
<1>10. ASSUME NEW c \in Coroutines, Timeout(c)
       PROVE  QInv' /\ Kept
  <2>1. cancelReq' \in [Coroutines -> BOOLEAN] /\ op[c] \in Reading \cup Writing
    BY <1>10 DEF Timeout, QInv, WaitTypes, TimedOps, Reading, Writing
  <2> QED  BY <1>10, <2>1, DecideQ DEF Timeout, Undecided
<1>11. ASSUME NEW c \in Coroutines, RequestCancelOf(c)
       PROVE  QInv' /\ Kept
  <2>1. cancelReq' \in [Coroutines -> BOOLEAN]
    BY <1>11 DEF RequestCancelOf, QInv, WaitTypes
  <2>2. CASE op[c] \in Reading \cup Writing /\ wake[c] = "none"
    BY <1>11, <2>1, <2>2, DecideQ DEF RequestCancelOf, Undecided
  <2>3. CASE ~(op[c] \in Reading \cup Writing /\ wake[c] = "none")
    BY <1>11, <2>1, <2>3
       DEF RequestCancelOf, QInv, WaitTypes, Queued, Undecided, Kept, WriterComing, ReaderServed, OnTheWay
  <2> QED  BY <2>2, <2>3
<1>12. CASE UNCHANGED vars
  BY <1>12 DEF vars, QInv, WaitTypes, Queued, Undecided, Kept, WriterComing, ReaderServed, OnTheWay
<1> QED
  BY <1>1, <1>2, <1>3, <1>4, <1>5, <1>6, <1>7, <1>8, <1>9, <1>10, <1>11, <1>12
     DEF Next, ResumeLock

\* The queues agree with the waits and a writer is on the way to a free lock
\* while writers wait, in every reachable state and whatever operations are used.
THEOREM WaitQueues == Spec => [](QInv /\ WriterComing)
<1>1. Init => QInv /\ WriterComing
  <2> SUFFICES ASSUME Init PROVE QInv /\ WriterComing
    OBVIOUS
  <2>1. /\ rq = <<>> /\ wq = <<>> /\ cancelReq = [c \in Coroutines |-> FALSE]
        /\ wake = [c \in Coroutines |-> "none"]
        /\ \A c \in Coroutines : op[c] = "idle"
    BY DEF Init
  <2>2. WaitTypes
    BY <2>1, EmptyFacts DEF WaitTypes, Entries
  <2>3. Queued
    BY <2>1, EmptyFacts DEF Queued, Reading, Writing
  <2> QED  BY <2>1, <2>2, <2>3 DEF QInv, WriterComing, Reading, Writing
<1>2. IInv /\ QInv /\ WriterComing /\ [Next]_vars => (QInv /\ WriterComing)'
  BY QueuesNext DEF Kept
<1> QED  BY Invariance, <1>1, <1>2, PTL DEF Spec

\* As long as no writer has waited with a timeout, whoever holds readers back on
\* a free lock comes for it.
THEOREM ReadersServed == Spec => [](~timedWriter => Untimed /\ ReaderServed)
<1> DEFINE Served == ~timedWriter => Untimed /\ ReaderServed
<1>1. Init => Served
  BY DEF Init, ReaderServed, Untimed, Reading
<1>2. IInv /\ QInv /\ WriterComing /\ Served /\ [Next]_vars => Served'
  <2> SUFFICES ASSUME IInv, QInv, WriterComing, Served, [Next]_vars, ~timedWriter'
               PROVE  Untimed' /\ ReaderServed'
    OBVIOUS
  <2>1. CASE Next
    <3>1. ~timedWriter /\ \A c \in Coroutines : op'[c] # "TryWLock(ms)"
      BY <2>1 DEF Next
    <3> QED  BY <2>1, <3>1, QueuesNext DEF Kept, Untimed
  <2>2. CASE UNCHANGED vars
    BY <2>2, QueuesNext DEF Kept, Untimed, vars
  <2> QED  BY <2>1, <2>2
<1> QED  BY Invariance, WaitQueues, <1>1, <1>2, PTL DEF Spec

\* No wakeup is lost.  Whenever the lock is free and nobody is on the way to it, no
\* writer is suspended on it; nor is a reader, as long as no writer has waited with
\* a timeout (with TryWLock(ms) readers may be: the run rwmutex_timed_writer).  For
\* any number of coroutines.
THEOREM NotStrandedHolds == Spec => []UntimedNotStranded
<1>1. QInv => WaitTypes
  BY DEF QInv
<1>2. WriterComing => WriterNotStranded
  BY DEF WriterComing, WriterNotStranded, OnTheWay, Undecided, Reading, Writing, TimedOps
<1>3. WriterComing /\ ReaderServed => NoStranded
  BY DEF WriterComing, ReaderServed, NoStranded, OnTheWay, Undecided, Reading, Writing, TimedOps
<1>4. QInv /\ WriterComing /\ (~timedWriter => Untimed /\ ReaderServed) => UntimedNotStranded
  BY <1>1, <1>2, <1>3 DEF UntimedNotStranded
<1> QED  BY WaitQueues, ReadersServed, <1>4, PTL
=============================================================================
