----------------------------- MODULE CfsRunQueue -----------------------------
(***************************************************************************)
(* detail/CfsRunQueue: the ready queue of each Processer, ordered by the   *)
(* virtual time a coroutine has used, and the accounting of a run.  A      *)
(* coroutine leaves a queue with its debt, the time it is ahead of the     *)
(* queue's floor, and joins the next one at that queue's floor plus the    *)
(* debt.  Virtual time is counted in 1/Unit microseconds, a multiple of    *)
(* every weight, so that charge / weight is exact.                         *)
(***************************************************************************)
EXTENDS Integers, Sequences, SequencesExt

CONSTANTS
    CfsCos, NoTask,
    CfsProcs,
    Weights, Normal,   \* of the priorities; Normal is the one of a yield
    Unit,
    Elapsed,           \* microseconds a run may take by the clock
    MaxServed,         \* bounds: runs and migrations in a behaviour
    MaxTaken

ASSUME CfsAssumption ==
    /\ Normal \in Weights /\ Weights \subseteq Nat \ {0} /\ Elapsed \subseteq Nat
    /\ Unit \in Nat \ {0} /\ \A w \in Weights : Unit % w = 0
    /\ MaxServed \in Nat /\ MaxTaken \in Nat /\ NoTask \notin CfsCos

VARIABLES
    queue,     \* m_queue, first to run first
    floor,     \* m_floor
    onCpu,     \* m_running
    vruntime,  \* m_vruntime: absolute in a queue or running, else the debt
    weight,    \* m_weight
    waiting,   \* m_waiting
    hand,      \* who has a coroutine that is in no queue
    served,    \* runs and migrations in this behaviour
    migrated,
    passed,    \* history: [c][d], the least d pays for its runs past c, since both are there
    allowed    \* history: the debt c was queued with

cfsVars == <<queue, floor, onCpu, vruntime, weight, waiting, hand, served, migrated, passed, allowed>>

Hands == {"new", "queue", "cpu", "ready", "taken", "parked", "final"}

CfsTypeOK ==
    /\ queue \in [CfsProcs -> Seq(CfsCos)] /\ onCpu \in [CfsProcs -> CfsCos \cup {NoTask}]
    /\ floor \in [CfsProcs -> Nat] /\ vruntime \in [CfsCos -> Int]
    /\ weight \in [CfsCos -> Weights] /\ waiting \in [CfsCos -> BOOLEAN]
    /\ hand \in [CfsCos -> Hands] /\ served \in 0 .. MaxServed
    /\ migrated \in 0 .. MaxTaken
    /\ passed \in [CfsCos -> [CfsCos -> Nat]] /\ allowed \in [CfsCos -> Int]

NotPassed == [d \in CfsCos |-> 0]

CfsInit ==
    /\ queue = [p \in CfsProcs |-> <<>>] /\ onCpu = [p \in CfsProcs |-> NoTask]
    /\ floor = [p \in CfsProcs |-> 0] /\ vruntime = [c \in CfsCos |-> 0]
    /\ weight = [c \in CfsCos |-> Normal] /\ waiting = [c \in CfsCos |-> FALSE]
    /\ hand = [c \in CfsCos |-> "new"] /\ served = 0 /\ migrated = 0
    /\ passed = [c \in CfsCos |-> NotPassed] /\ allowed = [c \in CfsCos |-> 0]

CfsMax(a, b) == IF a >= b THEN a ELSE b
CfsMin(a, b) == IF a <= b THEN a ELSE b

\* Waiting earns no credit, a debt stays.
Debt(c) == IF waiting[c] THEN CfsMax(0, vruntime[c]) ELSE vruntime[c]

\* insert_before(upper_bound(entity)): behind its equals.
Behind(p, v) == Cardinality({i \in DOMAIN queue[p] : vruntime[queue[p][i]] <= v}) + 1

\* The weight a coroutine is queued with: a yield's is NORMAL, a migration
\* keeps it, a submission and an event choose.
NextWeights(c) ==
    CASE hand[c] = "ready" -> {Normal}
      [] hand[c] = "taken" -> {weight[c]}
      [] OTHER -> Weights

\* The virtual time c joins a queue with.
JoinAt(p, c) == floor[p] + Debt(c)

\* Enqueue: by a submission, by an event, by the worker it yields to, by a thief.
CfsEnqueue(p, c) ==
    /\ hand[c] \in {"new", "parked", "ready", "taken"}
    /\ LET v == JoinAt(p, c)
       IN  /\ vruntime' = [vruntime EXCEPT ![c] = v]
           /\ queue' = [queue EXCEPT ![p] = InsertAt(@, Behind(p, v), c)]
           /\ allowed' = [allowed EXCEPT ![c] = v - floor[p]]
    /\ weight' \in {[weight EXCEPT ![c] = w] : w \in NextWeights(c)}
    /\ waiting' = [waiting EXCEPT ![c] = FALSE]
    /\ hand' = [hand EXCEPT ![c] = "queue"]
    /\ passed' = [d \in CfsCos |->
          IF d = c THEN NotPassed
          ELSE IF \E i \in DOMAIN queue[p] : queue[p][i] = d
               THEN passed[d] ELSE [passed[d] EXCEPT ![c] = 0]]
    /\ UNCHANGED <<floor, onCpu, served, migrated>>

\* Pick: nobody while somebody runs.
CfsPick(p) ==
    /\ onCpu[p] = NoTask /\ queue[p] # <<>> /\ served < MaxServed
    /\ LET c == Head(queue[p])
       IN  /\ onCpu' = [onCpu EXCEPT ![p] = c]
           /\ hand' = [hand EXCEPT ![c] = "cpu"]
           /\ passed' = [d \in CfsCos |->
                IF \E i \in 2 .. Len(queue[p]) : queue[p][i] = d
                THEN [passed[d] EXCEPT ![c] = @ + Unit \div weight[c]]
                ELSE IF d = c THEN NotPassed ELSE passed[d]]
           /\ allowed' = [allowed EXCEPT ![c] = 0]
    /\ queue' = [queue EXCEPT ![p] = Tail(@)]
    /\ served' = served + 1
    /\ UNCHANGED <<floor, vruntime, weight, waiting, migrated>>

\* What a run costs: never nothing.
ChargeElapsed(c, elapsed) == elapsed * (Unit \div weight[c])  \* mutant
Charge(c, elapsed) == CfsMax(1, elapsed) * (Unit \div weight[c])

\* How far the queue has come when its running coroutine stands at v.
ProgressOfRunner(p, v) == v  \* mutant
Progress(p, v) == IF queue[p] = <<>> THEN v ELSE CfsMin(v, vruntime[Head(queue[p])])

\* Account, and what CommitYield decides: back to a queue, parked until an
\* event, or finished.
Account(p, elapsed, next) ==
    /\ onCpu[p] # NoTask
    /\ LET c == onCpu[p]
           v == vruntime[c] + Charge(c, elapsed)
           f == CfsMax(floor[p], Progress(p, v))
       IN  /\ floor' = [floor EXCEPT ![p] = f]
           /\ vruntime' = [vruntime EXCEPT ![c] = IF next = "final" THEN 0 ELSE v - f]
           /\ waiting' = [waiting EXCEPT ![c] = next = "parked"]
           /\ hand' = [hand EXCEPT ![c] = next]
    /\ onCpu' = [onCpu EXCEPT ![p] = NoTask]
    /\ UNCHANGED <<queue, weight, served, migrated, passed, allowed>>

\* Take: a thief or a retiring worker; the runner stays.
CfsTake(p) ==
    /\ queue[p] # <<>> /\ migrated < MaxTaken
    /\ LET c == Head(queue[p])
       IN  /\ vruntime' = [vruntime EXCEPT ![c] = @ - floor[p]]
           /\ passed' = [passed EXCEPT ![c] = NotPassed]
           /\ allowed' = [allowed EXCEPT ![c] = 0]
           /\ hand' = [hand EXCEPT ![c] = "taken"]
    /\ queue' = [queue EXCEPT ![p] = Tail(@)]
    /\ migrated' = migrated + 1
    /\ UNCHANGED <<floor, onCpu, weight, waiting, served>>

CfsNext ==
    \E p \in CfsProcs :
        \/ \E c \in CfsCos : CfsEnqueue(p, c)
        \/ CfsPick(p)
        \/ \E e \in Elapsed, n \in {"ready", "parked", "final"} : Account(p, e, n)
        \/ CfsTake(p)

-----------------------------------------------------------------------------
(* Properties.                                                              *)

\* A queued coroutine is passed by each other one only as long as its own debt
\* lasts: all that one's runs but the last, each counted as one microsecond at
\* its weight, fit into the debt.  A run too short for the clock counts, and
\* yielding, waiting or being taken helps the other one only if it runs
\* elsewhere in between.
OvertakingBounded ==
    \A c, d \in CfsCos : hand[c] = "queue" => passed[c][d] <= allowed[c] + Unit

\* Nobody is behind the floor of the queue it is in, and so nobody carries
\* credit when it is taken to another worker or waits.
NoCredit ==
    /\ \A p \in CfsProcs : \A i \in DOMAIN queue[p] : vruntime[queue[p][i]] >= floor[p]
    /\ \A c \in CfsCos : hand[c] \in {"ready", "taken", "parked"} => vruntime[c] >= 0

\* The run queue (CfsRunQueue::Enqueue, Pick, Account, Take) shares out fairly:
\* nobody is passed for longer than its own debt lasts, nobody carries credit.
FairShare == CfsTypeOK /\ OvertakingBounded /\ NoCredit
=============================================================================
