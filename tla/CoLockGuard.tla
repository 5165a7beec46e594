---------------------------- MODULE CoLockGuard ----------------------------
(***************************************************************************)
(* sync/CoLockGuard: the guards CoLockGuard, CoUniqueLock, CoReadLock and  *)
(* CoWriteLock over CoMutex and CoRWMutex.  The four differ in the         *)
(* operation they call and in what a failed blocking acquisition does: the *)
(* Lock of a CoMutex cannot fail, RLock and WLock return -1 and the guard  *)
(* throws.  A lock is what it promises: its outstanding acquisitions.      *)
(***************************************************************************)
EXTENDS Integers, FiniteSets

CONSTANTS Guards, Locks, NoLock,
          Side    \* "read" or "write": which acquisition each guard makes

ASSUME CoLockGuardAssumption ==
    /\ NoLock \notin Locks
    /\ IsFiniteSet(Guards) /\ Side \in [Guards -> {"read", "write"}]

VARIABLES
    held,     \* per lock and side, acquisitions not yet given back
    raw,      \* those of them made by a direct call, for adopt_lock
    alive,    \* guards that are constructed
    guarded,  \* m_mutex
    owns      \* m_owns

guardVars == <<held, raw, alive, guarded, owns>>

GuardTypeOK ==
    /\ held \in [Locks -> [{"read", "write"} -> Nat]]
    /\ raw \in [Locks -> [{"read", "write"} -> Nat]]
    /\ alive \subseteq Guards
    /\ guarded \in [Guards -> Locks \cup {NoLock}]
    /\ owns \in [Guards -> BOOLEAN]

GuardInit ==
    /\ held = [m \in Locks |-> [s \in {"read", "write"} |-> 0]]
    /\ raw = held
    /\ alive = {}
    /\ guarded = [g \in Guards |-> NoLock]
    /\ owns = [g \in Guards |-> FALSE]

\* A writer excludes everybody (see CoMutex, CoRWMutex).
MayAcquire(m, s) == held[m]["write"] = 0 /\ (s = "write" => held[m]["read"] = 0)
Acquired(m, s) == held' = [held EXCEPT ![m][s] = @ + 1]
Released(m, s) == held' = [held EXCEPT ![m][s] = @ - 1]
Associated(g, m) == guarded' = [guarded EXCEPT ![g] = m]

-----------------------------------------------------------------------------
\* The user locks and unlocks without a guard; StdLockWapper does the same.
RawLock(m, s) ==
    /\ MayAcquire(m, s) /\ raw[m][s] = 0
    /\ Acquired(m, s)
    /\ raw' = [raw EXCEPT ![m][s] = @ + 1]
    /\ UNCHANGED <<alive, guarded, owns>>
RawUnLock(m, s) ==
    /\ raw[m][s] > 0
    /\ Released(m, s)
    /\ raw' = [raw EXCEPT ![m][s] = @ - 1]
    /\ UNCHANGED <<alive, guarded, owns>>

\* Constructors: empty and defer_lock; locking, which throws when it fails (then
\* there is no guard) and else waits; try_to_lock; adopt_lock.
Construct(g, m) ==
    /\ g \notin alive
    /\ alive' = alive \cup {g}
    /\ \/ Associated(g, NoLock) /\ UNCHANGED <<held, raw, owns>>
       \/ Associated(g, m) /\ UNCHANGED <<held, raw, owns>>
       \/ /\ Associated(g, m) /\ MayAcquire(m, Side[g])
          /\ Acquired(m, Side[g])
          /\ owns' = [owns EXCEPT ![g] = TRUE]
          /\ UNCHANGED raw
       \/ /\ Associated(g, m) /\ raw[m][Side[g]] > 0
          /\ owns' = [owns EXCEPT ![g] = TRUE]
          /\ raw' = [raw EXCEPT ![m][Side[g]] = @ - 1]
          /\ UNCHANGED held

\* lock() that returns, try_lock() and try_lock_for() that succeed; unsuccessful
\* ones, and a lock() that throws, leave m_owns FALSE.
OwnsOnFailure(g) ==  \* mutant
    /\ g \in alive /\ guarded[g] # NoLock /\ ~owns[g]
    /\ IF MayAcquire(guarded[g], Side[g]) THEN Acquired(guarded[g], Side[g]) ELSE UNCHANGED held
    /\ owns' = [owns EXCEPT ![g] = TRUE]
    /\ UNCHANGED <<raw, alive, guarded>>
GuardLock(g) ==
    /\ g \in alive /\ guarded[g] # NoLock /\ ~owns[g]
    /\ MayAcquire(guarded[g], Side[g])
    /\ Acquired(guarded[g], Side[g])
    /\ owns' = [owns EXCEPT ![g] = TRUE]
    /\ UNCHANGED <<raw, alive, guarded>>

GuardUnlock(g) ==
    /\ g \in alive /\ owns[g]
    /\ Released(guarded[g], Side[g])
    /\ owns' = [owns EXCEPT ![g] = FALSE]
    /\ UNCHANGED <<raw, alive, guarded>>

\* Move construction of g from h.
MoveConstruct(g, h) ==
    /\ g \notin alive /\ h \in alive /\ Side[g] = Side[h]
    /\ alive' = alive \cup {g}
    /\ guarded' = [guarded EXCEPT ![g] = guarded[h], ![h] = NoLock]
    /\ owns' = [owns EXCEPT ![g] = owns[h], ![h] = FALSE]
    /\ UNCHANGED <<held, raw>>

\* Move assignment: g lets go of its own lock first.  g = std::move(g) ends up
\* without the lock and with its association.
MoveAssign(g, h) ==
    /\ {g, h} \subseteq alive /\ Side[g] = Side[h]
    /\ IF owns[g] THEN Released(guarded[g], Side[g]) ELSE UNCHANGED held
    /\ guarded' = IF g = h THEN guarded ELSE [guarded EXCEPT ![g] = guarded[h], ![h] = NoLock]
    /\ owns' = [owns EXCEPT ![g] = owns[h], ![h] = FALSE]
    /\ UNCHANGED <<raw, alive>>

\* The destructor.
Destruct(g) ==
    /\ g \in alive
    /\ IF owns[g] /\ guarded[g] # NoLock THEN Released(guarded[g], Side[g]) ELSE UNCHANGED held
    /\ alive' = alive \ {g}
    /\ guarded' = [guarded EXCEPT ![g] = NoLock]
    /\ owns' = [owns EXCEPT ![g] = FALSE]
    /\ UNCHANGED raw

GuardNext ==
    \/ \E m \in Locks, s \in {"read", "write"} : RawLock(m, s) \/ RawUnLock(m, s)
    \/ \E g \in Guards : (\E m \in Locks : Construct(g, m))
                          \/ GuardLock(g) \/ GuardUnlock(g) \/ Destruct(g)
    \/ \E g, h \in Guards : MoveConstruct(g, h) \/ MoveAssign(g, h)

GuardSpec == GuardInit /\ [][GuardNext]_guardVars

-----------------------------------------------------------------------------
\* Whatever sequence of constructions, moves, failed and successful
\* acquisitions: every acquisition has exactly one owner that will give it back
\* (none leaks, none is given back twice), and an owning guard has a lock.
GuardBalance ==
    /\ GuardTypeOK
    /\ \A g \in Guards : owns[g] => g \in alive /\ guarded[g] # NoLock
    /\ \A m \in Locks, s \in {"read", "write"} :
          held[m][s] = raw[m][s]
              + Cardinality({g \in Guards : owns[g] /\ guarded[g] = m /\ Side[g] = s})
=============================================================================
