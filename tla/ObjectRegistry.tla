---------------------------- MODULE ObjectRegistry ----------------------------
(***************************************************************************)
(* object/: ManagerBase indexes objects it does not own, CoObjectCounters  *)
(* count them per manager and per kind.  An object is created, committed   *)
(* under the manager's mutex and given to its owner; its destructor runs   *)
(* wherever the last reference goes, settles the counts and takes its      *)
(* entry out, if the manager is still there.  A query takes a reference.   *)
(***************************************************************************)
EXTENDS Integers, Sequences, FiniteSets, SequencesExt

CONSTANTS Callers, CoObjects, NoObject, Keys, Kinds, NoKind, NoCaller,
          Shared   \* the objects whose owner is a shared_ptr

ASSUME RegistryAssumption ==
    /\ Shared \subseteq CoObjects /\ IsFiniteSet(CoObjects) /\ Keys # {}
    /\ NoObject \notin CoObjects /\ NoCaller \notin Callers /\ "user" \notin Callers

VARIABLES
    step,      \* where each caller is
    arg,       \* the object and the key it works on
    mutex,     \* holder of the manager's m_mutex
    members,   \* m_members
    key,       \* m_key of a committed object, and its kind
    kind,
    refs,      \* strong references of an object: callers, and "user"
    stage,      \* new, made by its creator, committed, settled, gone
    manager,   \* strong references of the manager
    counts,    \* its counters
    kindBuckets    \* g_kindCounters, newest first

registryVars == <<step, arg, mutex, members, key, kind, refs, stage, manager, counts, kindBuckets>>

Counters == [created : Nat, destroyed : Nat, alive : Int, peak : Nat]
NoCounts == [created |-> 0, destroyed |-> 0, alive |-> 0, peak |-> 0]

RegistryTypeOK ==
    /\ step \in [Callers -> {"idle", "made", "counted", "found", "drop", "destroy", "kind",
                             "manager", "unregister"}]
    /\ arg \in [Callers -> (CoObjects \cup {NoObject}) \X Keys]
    /\ mutex \in Callers \cup {NoCaller}
    /\ members \in [Keys -> CoObjects \cup {NoObject}]
    /\ key \in [CoObjects -> Keys] /\ kind \in [CoObjects -> Kinds \cup {NoKind}]
    /\ refs \in [CoObjects -> SUBSET (Callers \cup {"user"})]
    /\ stage \in [CoObjects -> {"new", "made", "committed", "settled", "gone"}]
    /\ manager \subseteq Callers \cup {"user"} /\ counts \in Counters
    /\ \A i \in DOMAIN kindBuckets : kindBuckets[i].kind \in Kinds /\ kindBuckets[i].counts \in Counters

AnyKey == CHOOSE k \in Keys : TRUE

RegistryInit ==
    /\ step = [t \in Callers |-> "idle"]
    /\ arg = [t \in Callers |-> <<NoObject, AnyKey>>]
    /\ mutex = NoCaller /\ members = [k \in Keys |-> NoObject]
    /\ key = [o \in CoObjects |-> AnyKey] /\ kind = [o \in CoObjects |-> NoKind]
    /\ refs = [o \in CoObjects |-> {}] /\ stage = [o \in CoObjects |-> "new"]
    /\ manager = {"user"} /\ counts = NoCounts /\ kindBuckets = <<>>

-----------------------------------------------------------------------------
(* Counters, and the list of them by kind.                                  *)

OnCreate(n) ==
    [n EXCEPT !.created = @ + 1, !.alive = @ + 1,
              !.peak = IF n.alive + 1 > @ THEN n.alive + 1 ELSE @]
OnDestroy(n) == [n EXCEPT !.destroyed = @ + 1, !.alive = @ - 1]

\* The first bucket of a kind, 0 if there is none.
FindKind(k) ==
    SelectInSeq(kindBuckets, LAMBDA b : b.kind = k)

\* One lock for the search and the new bucket.
AlwaysNew(k) == <<[kind |-> k, counts |-> NoCounts]>> \o kindBuckets  \* mutant
GetOrCreateCounters(k) ==
    IF FindKind(k) = 0 THEN <<[kind |-> k, counts |-> NoCounts]>> \o kindBuckets ELSE kindBuckets

GetCoObjectStats(k) == IF FindKind(k) = 0 THEN NoCounts ELSE kindBuckets[FindKind(k)].counts

-----------------------------------------------------------------------------
(* Create.                                                                  *)

Goes(t, s) == step' = [step EXCEPT ![t] = s]

\* With the call goes the reference to the manager it was made with.
CallReturns(t) == Goes(t, "idle") /\ manager' = manager \ {t}

\* The manager holds itself while it runs the creator, which makes the object;
\* the kind has its counters from here on.
CreateBegins(t, o, k, x) ==
    /\ step[t] = "idle" /\ "user" \in manager /\ stage[o] = "new"
    /\ manager' = manager \cup {t}
    /\ stage' = [stage EXCEPT ![o] = "made"]
    /\ refs' = [refs EXCEPT ![o] = {t}]
    /\ key' = [key EXCEPT ![o] = k] /\ kind' = [kind EXCEPT ![o] = x]
    /\ kindBuckets' = GetOrCreateCounters(x)
    /\ arg' = [arg EXCEPT ![t] = <<o, k>>]
    /\ Goes(t, "made")
    /\ UNCHANGED <<mutex, members, counts>>

\* A key in use: nothing was committed, the owner goes back where it came from.
Duplicate(k) == members[k] # NoObject

CreateCommits(t) ==
    LET o == arg[t][1]
    IN  /\ step[t] = "made" /\ mutex = NoCaller /\ ~Duplicate(arg[t][2])
        /\ members' = [members EXCEPT ![arg[t][2]] = o]
        /\ stage' = [stage EXCEPT ![o] = "committed"]
        /\ counts' = OnCreate(counts) /\ mutex' = t /\ Goes(t, "counted")
        /\ UNCHANGED <<arg, key, kind, refs, manager, kindBuckets>>

\* Still under the mutex; then the owner is the user's.
CountsKind(t) ==
    LET o == arg[t][1]
    IN  /\ step[t] = "counted"
        /\ kindBuckets' = [kindBuckets EXCEPT ![FindKind(kind[o])].counts = OnCreate(@)]
        /\ refs' = [refs EXCEPT ![o] = {"user"}]
        /\ mutex' = NoCaller /\ CallReturns(t)
        /\ UNCHANGED <<arg, members, key, kind, stage, counts>>

\* What a failed creation leaves committed: nothing.
CommitsFirst(o) == "committed"  \* mutant
Uncommitted(o) == stage[o]

CreateThrows(t) ==
    LET o == arg[t][1]
    IN  /\ step[t] = "made" /\ mutex = NoCaller /\ Duplicate(arg[t][2])
        /\ stage' = [stage EXCEPT ![o] = Uncommitted(o)]
        /\ Goes(t, "drop")
        /\ UNCHANGED <<arg, mutex, members, key, kind, refs, manager, counts, kindBuckets>>

\* A creator that hands out an object of the manager: already registered.
CreatesAgain(t, o) ==
    /\ step[t] = "idle" /\ "user" \in manager /\ o \in Shared /\ "user" \in refs[o]
    /\ refs' = [refs EXCEPT ![o] = @ \cup {t}] /\ manager' = manager \cup {t}
    /\ arg' = [arg EXCEPT ![t] = <<o, key[o]>>]
    /\ Goes(t, "drop")
    /\ UNCHANGED <<mutex, members, key, kind, stage, counts, kindBuckets>>

-----------------------------------------------------------------------------
(* The end of an object: the caller's reference goes, and with the last one *)
(* ~MemberBase runs.                                                        *)

UserDrops(t, o) ==
    /\ step[t] = "idle" /\ "user" \in refs[o]
    /\ refs' = [refs EXCEPT ![o] = (@ \ {"user"}) \cup {t}]
    /\ arg' = [arg EXCEPT ![t] = <<o, key[o]>>]
    /\ Goes(t, "drop")
    /\ UNCHANGED <<mutex, members, key, kind, stage, manager, counts, kindBuckets>>

Drops(t) ==
    LET o == arg[t][1]
    IN  /\ step[t] = "drop"
        /\ refs' = [refs EXCEPT ![o] = @ \ {t}]
        /\ \/ refs[o] # {t} /\ stage' = stage /\ CallReturns(t)
           \/ refs[o] = {t} /\ stage[o] = "made"
              /\ stage' = [stage EXCEPT ![o] = "gone"] /\ CallReturns(t)
           \/ refs[o] = {t} /\ stage[o] = "committed" /\ stage' = stage
              /\ Goes(t, "destroy") /\ UNCHANGED manager
        /\ UNCHANGED <<arg, mutex, members, key, kind, counts, kindBuckets>>

SettleManager(t) ==
    /\ step[t] = "destroy"
    /\ counts' = OnDestroy(counts) /\ Goes(t, "kind")
    /\ UNCHANGED <<arg, mutex, members, key, kind, refs, stage, manager, kindBuckets>>

SettleKind(t) ==
    LET o == arg[t][1]
    IN  /\ step[t] = "kind"
        /\ kindBuckets' = [kindBuckets EXCEPT ![FindKind(kind[o])].counts = OnDestroy(@)]
        /\ stage' = [stage EXCEPT ![o] = "settled"] /\ Goes(t, "manager")
        /\ UNCHANGED <<arg, mutex, members, key, kind, refs, manager, counts>>

\* m_manager.lock().
LocksManager(t) ==
    /\ step[t] = "manager"
    /\ \/ manager # {} /\ manager' = manager \cup {t} /\ Goes(t, "unregister") /\ stage' = stage
       \/ manager = {} /\ CallReturns(t)
          /\ stage' = [stage EXCEPT ![arg[t][1]] = "gone"]
    /\ UNCHANGED <<arg, mutex, members, key, kind, refs, counts, kindBuckets>>

\* Its own entry, by iterator.
OnMemberDestroy(t) ==
    LET o == arg[t][1]
    IN  /\ step[t] = "unregister" /\ mutex = NoCaller
        /\ members' = [members EXCEPT ![key[o]] = NoObject]
        /\ stage' = [stage EXCEPT ![o] = "gone"]
        /\ CallReturns(t)
        /\ UNCHANGED <<arg, mutex, key, kind, refs, counts, kindBuckets>>

\* The user's manager goes; its counters stay with the objects.
ManagerDropped ==
    /\ "user" \in manager /\ manager' = manager \ {"user"}
    /\ UNCHANGED <<step, arg, mutex, members, key, kind, refs, stage, counts, kindBuckets>>

-----------------------------------------------------------------------------
(* GetObjectInfo.  A shared object is kept alive by the query itself; a     *)
(* unique one gives its identity only.                                      *)

Held(o) == stage[o] = "committed" /\ refs[o] # {}

QueryBegins(t, k) ==
    /\ step[t] = "idle" /\ "user" \in manager /\ mutex = NoCaller
    /\ manager' = manager \cup {t} /\ mutex' = t
    /\ LET o == members[k]
           got == o \in Shared /\ Held(o)
       IN  /\ refs' = IF got THEN [refs EXCEPT ![o] = @ \cup {t}] ELSE refs
           /\ arg' = [arg EXCEPT ![t] = <<IF got THEN o ELSE NoObject, k>>]
    /\ Goes(t, "found")
    /\ UNCHANGED <<members, key, kind, stage, counts, kindBuckets>>

\* The scope of the lock ends before the reference does.
OwnerEndsFirst(t) == mutex  \* mutant
LockEndsFirst(t) == NoCaller

QueryUnlocks(t) ==
    /\ step[t] = "found" /\ mutex' = LockEndsFirst(t)
    /\ \/ arg[t][1] = NoObject /\ CallReturns(t)
       \/ arg[t][1] # NoObject /\ Goes(t, "drop") /\ UNCHANGED manager
    /\ UNCHANGED <<arg, members, key, kind, refs, stage, counts, kindBuckets>>

RegistryNext ==
    \/ ManagerDropped
    \/ \E t \in Callers :
        \/ CreateCommits(t) \/ CountsKind(t) \/ CreateThrows(t) \/ Drops(t) \/ SettleManager(t) \/ SettleKind(t)
        \/ LocksManager(t) \/ OnMemberDestroy(t) \/ QueryUnlocks(t)
        \/ \E o \in CoObjects : UserDrops(t, o) \/ CreatesAgain(t, o) \/ \E k \in Keys, x \in Kinds : CreateBegins(t, o, k, x)
        \/ \E k \in Keys : QueryBegins(t, k)

-----------------------------------------------------------------------------
(* Properties.                                                              *)

Registered == {o \in CoObjects : stage[o] \in {"committed", "settled"}}

\* While the manager lives its index names exactly the committed objects whose
\* destructor has not come to it, each under its own key: a creation that
\* failed takes nobody's entry away when its object goes.
IndexNamesMembers ==
    manager # {} =>
        /\ \A o \in Registered : members[key[o]] = o
        /\ \A k \in Keys : members[k] # NoObject => members[k] \in Registered

\* Between the two countings of its creation or of its destruction.
CallAt(o, s) == \E t \in Callers : step[t] = s /\ arg[t][1] = o

\* The manager's count and the kinds' counts are the objects that live, whoever
\* creates, fails, queries and destroys at the same time, with the manager or
\* after it.
CountsLiveObjects ==
    LET live == {o \in CoObjects : stage[o] = "committed"}
    IN  /\ counts.alive = Cardinality({o \in live : ~CallAt(o, "kind")})
        /\ \A k \in Kinds : GetCoObjectStats(k).alive = Cardinality({o \in live : kind[o] = k /\ ~CallAt(o, "counted")})

\* A query that turns out to hold the last reference destroys the object
\* outside the manager's mutex, which the destructor takes.
DestroysUnlocked == \A t \in Callers : step[t] = "unregister" => mutex # t

\* The registry (ManagerBase::Create, GetObjectInfo, _OnMemberDestroy) names and counts
\* the objects there are, and does not destroy one under its own mutex.
RegistrySound == RegistryTypeOK /\ IndexNamesMembers /\ CountsLiveObjects /\ DestroysUnlocked
=============================================================================
