----------------------------- MODULE StackPool -----------------------------
(***************************************************************************)
(* detail/StackPool with detail/Stack and the part of detail/Context that  *)
(* borrows a stack and gives it back.  Coroutines are made and destroyed   *)
(* on any thread; the scheduler trims the pool on its tick, a user may     *)
(* empty it.  All counts change under one lock, memory is allocated and    *)
(* freed without it.                                                       *)
(*                                                                         *)
(* A stack taken out of the pool to be freed is reachable by nobody, so    *)
(* its free is part of the step that takes it.  The clock is a choice: an  *)
(* interval has passed or not.                                             *)
(***************************************************************************)
EXTENDS Integers, Sequences, FiniteSets, SequencesExt

CONSTANTS
    Contexts,
    Asks,       \* what they ask for: <<stack size, protect>>
    Default,    \* m_cfg_stack_size, m_cfg_stack_protect
    PageSize,
    PointerDiffLimit, \* the largest ptrdiff_t
    MaxAlloc, MinAlloc, Preload  \* m_cfg_stackpool_max_alloc_size, min.., m_cfg_static_coroutine

ASSUME StackPoolAssumption ==
    /\ IsFiniteSet(Contexts) /\ IsFiniteSet(Asks)
    /\ PageSize \in Nat \ {0} /\ PointerDiffLimit \in Nat
    /\ MaxAlloc \in Nat /\ MinAlloc \in Nat /\ Preload \in Nat
    /\ Asks \subseteq Nat \X BOOLEAN /\ Default \in Asks

VARIABLES
    buckets,    \* m_buckets: [live, idle, borrowed, pending, pool] of each key there is
    total,      \* m_live_count, m_borrowed_count, m_pending_count
    coAvg,      \* m_co_avg
    frame,      \* of each Context: [at, ask, stack]
    trim,       \* the loop of OnUpdate: keep, and how many are left to release; -1: not in it
    memory      \* the stacks there are: id -> [useable, protect, chunk]

stackVars == <<buckets, total, coAvg, frame, trim, memory>>

SizeMax == 2 * PointerDiffLimit + 1

-----------------------------------------------------------------------------
(* Stack.                                                                   *)

Padding(size) == IF size % PageSize = 0 THEN 0 ELSE PageSize - (size % PageSize)
Refused == -1
NormalizeSize(size) ==
    IF \/ size = 0
       \/ size > SizeMax - Padding(size)
       \/ size + Padding(size) > PointerDiffLimit
    THEN Refused ELSE size + Padding(size)

\* The constructor throws: the guard page does not fit, or the system refuses
\* memory or protection.
GuardFits(key) == ~key[2] \/ key[1] <= PointerDiffLimit - PageSize
NewStack(key) == [useable |-> key[1], protect |-> key[2],
                  chunk |-> IF key[2] THEN key[1] + PageSize ELSE key[1]]

-----------------------------------------------------------------------------
(* The buckets; all under the lock.                                         *)

KeyOf(s) == <<memory[s].useable, memory[s].protect>>
NewBucket == [live |-> 0, idle |-> 0, borrowed |-> 0, pending |-> 0, pool |-> <<>>]
GetBucket(key) == IF key \in DOMAIN buckets THEN buckets[key] ELSE NewBucket
Pinned(b) == b.idle # 0 \/ b.borrowed # 0 \/ b.pending # 0
Without(f, x) == [y \in DOMAIN f \ {x} |-> f[y]]
Put(key, b) == [k \in DOMAIN buckets \cup {key} |-> IF k = key THEN b ELSE buckets[k]]
EraseBucketIfEmpty(key, b) == IF Pinned(b) THEN Put(key, b) ELSE Without(buckets, key)

\* The pool's first idle stack in the order of the map, as <<bucket, stack>>.
Before(a, b) == a[1] < b[1] \/ (a[1] = b[1] /\ ~a[2] /\ b[2])
WithIdle == {k \in DOMAIN buckets : buckets[k].idle # 0}
TakeIdle ==
    LET key == CHOOSE k \in WithIdle : \A j \in WithIdle \ {k} : Before(k, j)
        b == buckets[key]
    IN /\ buckets' = EraseBucketIfEmpty(key,
                        [b EXCEPT !.pool = Front(@), !.idle = @ - 1, !.live = @ - 1])
       /\ total' = [total EXCEPT !.live = @ - 1]
       /\ memory' = Without(memory, Last(b.pool))

-----------------------------------------------------------------------------
(* A Context: Apply in its constructor, Release in its destructor.          *)

NoStack == 0
Fresh == CHOOSE s \in 1 .. Cardinality(DOMAIN memory) + 1 : s \notin DOMAIN memory

BorrowedOnly == total.borrowed >= MaxAlloc  \* mutant
AtCapacity == total.borrowed + total.pending >= MaxAlloc

\* The first half of Apply: refused, out of the pool, or a place reserved.
Apply(x, ask) ==
    LET key == <<NormalizeSize(ask[1]), ask[2]>>
        b == GetBucket(key)
    IN /\ frame[x].at = "none" /\ key[1] # Refused /\ ~AtCapacity
       /\ \/ /\ b.pool # <<>>
             /\ buckets' = Put(key, [b EXCEPT !.pool = Front(@), !.idle = @ - 1, !.borrowed = @ + 1])
             /\ total' = [total EXCEPT !.borrowed = @ + 1]
             /\ frame' = [frame EXCEPT ![x] = [at |-> "made", ask |-> ask, stack |-> Last(b.pool)]]
          \/ /\ b.pool = <<>>
             /\ buckets' = Put(key, [b EXCEPT !.pending = @ + 1])
             /\ total' = [total EXCEPT !.pending = @ + 1]
             /\ frame' = [frame EXCEPT ![x] = [at |-> "allocating", ask |-> ask, stack |-> NoStack]]
       /\ UNCHANGED <<coAvg, trim, memory>>

AskedKey(x) == <<NormalizeSize(frame[x].ask[1]), frame[x].ask[2]>>
NoFrameOf == [at |-> "none", ask |-> Default, stack |-> NoStack]

\* The allocation done without the lock, and the second half.
Commit(x) ==
    LET key == AskedKey(x)
        b == GetBucket(key)
    IN /\ frame[x].at = "allocating" /\ GuardFits(key)
       /\ memory' = [s \in DOMAIN memory \cup {Fresh} |->
                        IF s = Fresh THEN NewStack(key) ELSE memory[s]]
       /\ buckets' = Put(key, [b EXCEPT !.pending = @ - 1, !.live = @ + 1, !.borrowed = @ + 1])
       /\ total' = [live |-> total.live + 1, borrowed |-> total.borrowed + 1,
                    pending |-> total.pending - 1]
       /\ frame' = [frame EXCEPT ![x].at = "made", ![x].stack = Fresh]
       /\ UNCHANGED <<coAvg, trim>>
KeepsReserved(x) ==  \* mutant
    /\ frame[x].at = "allocating"
    /\ frame' = [frame EXCEPT ![x] = NoFrameOf]
    /\ UNCHANGED <<buckets, total, coAvg, trim, memory>>
RollBack(x) ==
    LET key == AskedKey(x)
        b == GetBucket(key)
    IN /\ frame[x].at = "allocating"
       /\ buckets' = EraseBucketIfEmpty(key, [b EXCEPT !.pending = @ - 1])
       /\ total' = [total EXCEPT !.pending = @ - 1]
       /\ frame' = [frame EXCEPT ![x] = NoFrameOf]
       /\ UNCHANGED <<coAvg, trim, memory>>

\* Release: back into the bucket of the stack's own properties; when the bucket
\* cannot hold it, or knows of no borrowed stack, it is freed.
DefaultKey(s) == <<NormalizeSize(Default[1]), Default[2]>>  \* mutant
ReturnKey(s) == KeyOf(s)
Release(x) ==
    LET s == frame[x].stack
        key == ReturnKey(s)
        b == GetBucket(key)
    IN /\ frame[x].at = "made"
       /\ frame' = [frame EXCEPT ![x] = NoFrameOf]
       /\ \/ /\ b.borrowed > 0
             /\ buckets' = Put(key, [b EXCEPT !.pool = Append(@, s), !.borrowed = @ - 1,
                                              !.idle = @ + 1])
             /\ total' = [total EXCEPT !.borrowed = @ - 1]
             /\ UNCHANGED memory
          \/ /\ b.borrowed > 0
             /\ buckets' = EraseBucketIfEmpty(key, [b EXCEPT !.borrowed = @ - 1, !.live = @ - 1])
             /\ total' = [total EXCEPT !.borrowed = @ - 1, !.live = @ - 1]
             /\ memory' = Without(memory, s)
          \/ /\ b.borrowed = 0
             /\ buckets' = EraseBucketIfEmpty(key, b)
             /\ memory' = Without(memory, s)
             /\ UNCHANGED total
       /\ UNCHANGED <<coAvg, trim>>

-----------------------------------------------------------------------------
(* The tick, the user's ReleaseUnused, and the start.                       *)

InUse == total.borrowed + total.pending

\* OnUpdate: average, and when it is time how much to keep.
OnUpdate(sample, adjust) ==
    LET first == IF coAvg = 0 THEN InUse ELSE coAvg
        avg == IF sample THEN (7 * first + InUse) \div 8 ELSE first
        keep == IF MinAlloc > avg THEN MinAlloc ELSE avg
    IN /\ trim.left = -1
       /\ coAvg' = avg
       /\ trim' = IF adjust THEN [keep |-> keep, left |-> IF total.live > keep
                                                          THEN total.live - keep ELSE 0]
                            ELSE trim
       /\ UNCHANGED <<buckets, total, frame, memory>>

\* Its loop, one stack at a time.
AboveKeep == total.live > trim.keep
TrimDone == [keep |-> 0, left |-> -1]
TrimOne ==
    /\ trim.left >= 0
    /\ IF trim.left > 0 /\ AboveKeep /\ WithIdle # {}
       THEN TakeIdle /\ trim' = [trim EXCEPT !.left = @ - 1]
       ELSE trim' = TrimDone /\ UNCHANGED <<buckets, total, memory>>
    /\ UNCHANGED <<coAvg, frame>>

\* One round of ReleaseUnused, by any thread.
ReleaseUnused == WithIdle # {} /\ TakeIdle /\ UNCHANGED <<coAvg, frame, trim>>

\* The constructor of the pool has filled the default bucket; a push that failed
\* has stopped it early.  If the default stack cannot be made it throws: there is
\* no pool.
StackPoolInit ==
    \E n \in 0 .. IF Preload < MaxAlloc THEN Preload ELSE MaxAlloc :
        LET key == <<NormalizeSize(Default[1]), Default[2]>>
        IN /\ Preload > 0 => key[1] # Refused /\ (MaxAlloc > 0 => GuardFits(key))
           /\ memory = [s \in 1 .. n |-> NewStack(key)]
           /\ buckets = IF n = 0 THEN [k \in {} |-> NewBucket]
                        ELSE [k \in {key} |-> [live |-> n, idle |-> n, borrowed |-> 0, pending |-> 0,
                                               pool |-> [s \in 1 .. n |-> s]]]
           /\ total = [live |-> n, borrowed |-> 0, pending |-> 0]
           /\ coAvg = 0 /\ trim = TrimDone
           /\ frame = [x \in Contexts |-> NoFrameOf]

StackPoolNext ==
    \/ \E x \in Contexts : \/ \E ask \in Asks : Apply(x, ask)
                           \/ Commit(x) \/ RollBack(x) \/ Release(x)
    \/ \E sample, adjust \in BOOLEAN : OnUpdate(sample, adjust)
    \/ TrimOne \/ ReleaseUnused

-----------------------------------------------------------------------------
(* Properties.                                                              *)

StackPoolTypeOK ==
    /\ \A x \in Contexts : /\ frame[x].at \in {"none", "allocating", "made"}
                           /\ frame[x].ask \in Asks
                           /\ frame[x].stack \in DOMAIN memory \cup {NoStack}
    /\ trim.left \in -1 .. Cardinality(Asks) * MaxAlloc + Preload

At(place, key) == {x \in Contexts : frame[x].at = place /\ AskedKey(x) = key}

\* The counts tell the truth between any two locked sections: a bucket's idle
\* stacks are those in its vector, borrowed and pending those that Contexts hold
\* or wait for, the totals are the sums, and no stack is in two places.  On it
\* rest the capacity check, the trimming and the erasure of buckets
\* (StackPool::Apply, Release, _TakeIdleLocked).
CountsTrue ==
    /\ \A key \in DOMAIN buckets :
          LET b == buckets[key]
          IN /\ b.idle = Len(b.pool)
             /\ b.live = b.idle + b.borrowed
             /\ b.borrowed = Cardinality(At("made", key))
             /\ b.pending = Cardinality(At("allocating", key))
             /\ \A i \in 1 .. Len(b.pool) : KeyOf(b.pool[i]) = key
    /\ \A x \in Contexts : frame[x].at # "none" => AskedKey(x) \in DOMAIN buckets
    /\ total.live = Cardinality(DOMAIN memory)
    /\ total.borrowed = Cardinality({x \in Contexts : frame[x].at = "made"})
    /\ total.pending = Cardinality({x \in Contexts : frame[x].at = "allocating"})
    /\ \A x, y \in Contexts : frame[x].stack = frame[y].stack /\ x # y => frame[x].stack = NoStack

\* No more coroutines than the configured number have a stack or are about to
\* get one, over all sizes and however the threads that create them interleave
\* (the capacity check of StackPool::Apply).
CapacityHeld == Cardinality({x \in Contexts : frame[x].at # "none"}) <= MaxAlloc

\* A coroutine runs on a stack at least as large as it asked for, less than a
\* page larger, with the protection it asked for, and whose memory is in reach
\* of a pointer difference - new or used before (Stack::NormalizeSize and
\* Stack::Stack, StackPool::Release by the stack's own size).
StackAsAsked ==
    \A x \in Contexts : frame[x].at = "made" =>
        LET s == memory[frame[x].stack]
        IN /\ s.useable >= frame[x].ask[1] /\ s.useable < frame[x].ask[1] + PageSize
           /\ s.protect = frame[x].ask[2]
           /\ s.useable % PageSize = 0
           /\ s.chunk <= PointerDiffLimit

\* The pool counts right, keeps to its capacity, and gives every coroutine the
\* stack it asked for (StackPool::Apply and Release, Stack::Stack).
StackSound == StackPoolTypeOK /\ CountsTrue /\ CapacityHeld /\ StackAsAsked
=============================================================================
