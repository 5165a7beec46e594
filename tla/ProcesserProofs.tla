--------------------------- MODULE ProcesserProofs ---------------------------
(***************************************************************************)
(* The safety of the scheduler's queues for any number of workers, threads *)
(* and coroutines: no coroutine is lost or there twice, the load balancer  *)
(* is never refused, and no work is left to the timer of a sleeping worker.*)
(***************************************************************************)
EXTENDS Processer, FiniteSetTheorems, TLAPS

Enqueuing == {"check", "admit", "recheck", "insert", "refused"}
UserCalls == {"regist", "registOn", "activate", "resize"}

\* In which operation an actor is, where.
CallShape(a) ==
    /\ pc[a] \in Enqueuing =>
          why[a] \in {"regist", "registOn", "activate", "ready", "steal"} \cup Pulls
    /\ pc[a] = "toglobal" => why[a] \in {"activate", "ready", "steal", "retire"}
    /\ pc[a] = "broadcast" => why[a] \in {"activate", "ready", "retire"}
    /\ pc[a] = "publish" => why[a] \in UserCalls \cup {"ready", "retire"}
    /\ pc[a] = "retiring" => why[a] = "resize"
    /\ pc[a] \in {"ask", "pull"} => why[a] \in Pulls
    /\ pc[a] = "take" => why[a] = "steal"
    /\ pc[a] = "draining" => why[a] = "retire"
    /\ why[a] = "regist" => pc[a] \in Enqueuing \cup {"publish"}
    /\ a \in Threads => pc[a] = "rest" \/ (pc[a] \in CallPC /\ why[a] \in UserCalls)
    /\ a \in Workers => pc[a] # "rest"

\* An actor owns a coroutine exactly while it is handing one over, and knows the
\* queue it wants to fill: its own, except for a registration.
HandShape(a) ==
    /\ hand[a] # NoCo <=> pc[a] \in Enqueuing \cup {"toglobal"}
    /\ pc[a] \in Enqueuing =>
          /\ dest[a] \in Workers /\ life[dest[a]] # "Preparing"
          /\ why[a] \notin {"regist", "registOn"} => dest[a] = a
    /\ pc[a] = "refused" => ~admission[dest[a]]

\* A worker has a current coroutine exactly while user code runs on it.
RunShape(w) ==
    running[w] # NoCo <=> pc[w] = "run" \/ (pc[w] \in CallPC /\ why[w] \in UserCalls)

Shape == (\A a \in Actors : CallShape(a) /\ HandShape(a)) /\ \A w \in Workers : RunShape(w)

\* Who holds m_processer_map_mutex; a load balancer that has it tries the workers of
\* the snapshot and finds every gate open.
MapHeld(a) ==
    /\ why[a] = "regist" \/ pc[a] = "retiring" => mmutex = a
    /\ why[a] = "regist" /\ pc[a] \in Enqueuing => admission[dest[a]] /\ pc[a] # "refused"
MapLock == \A a \in Actors : MapHeld(a)

\* The worker has found its queue quiescent; it has handed everything over.
Drained(w) ==
    \/ pc[w] \in {"draining", "exit", "exited"}
    \/ pc[w] \in {"toglobal", "broadcast", "publish"} /\ why[w] = "retire"
Emptied(w) ==
    pc[w] \in {"exit", "exited"} \/ (pc[w] \in {"broadcast", "publish"} /\ why[w] = "retire")

\* The life of a worker: its gate is opened once, and closed before it is asked to
\* retire.
LifeShape(w) ==
    /\ retire[w] => ~admission[w] /\ life[w] \in {"Retiring", "Exited"}
    /\ life[w] = "Preparing" => ~retire[w] /\ w \notin snapshot /\ pc[w] = "gate"
    /\ w \in snapshot => life[w] = "Active"
    /\ w \notin snapshot => life[w] = "Preparing" \/ retire[w]
    /\ w \in snapshot /\ ~admission[w] => \E a \in Actors : pc[a] = "retiring" /\ w \in todo[a]
    /\ life[w] = "Exited" => pc[w] = "exited"
    /\ pc[w] = "drain" \/ Drained(w) => retire[w]

\* A shrink leaves at least one worker, and closes gates before it is committed.
ShrinkShape(a) ==
    pc[a] = "retiring" =>
        /\ todo[a] \subseteq snapshot /\ todo[a] # snapshot
        /\ \A w \in todo[a] : ~admission[w]

Lifecycle ==
    /\ \A w \in Workers : LifeShape(w)
    /\ \A a \in Actors : ShrinkShape(a)
    /\ snapshot # {}

\* m_enqueue_inflight counts the enqueues between registration and release.
Registered(w) == {a \in Actors : pc[a] \in {"recheck", "insert"} /\ dest[a] = w}
InflightCounts == \A w \in Workers : inflight[w] = Cardinality(Registered(w))

\* After the drain nobody is about to insert, and after that nothing is there.
DrainHolds ==
    \A w \in Workers :
        /\ Drained(w) => \A a \in Actors : ~(pc[a] = "insert" /\ dest[a] = w)
        /\ Emptied(w) => local[w] = {}

\* The places of a coroutine: a kind, and the actor it belongs to, if any.
Kinds == {"local", "hand", "running", "fresh", "parked", "done", "rejected", "global"}
Owners == Actors \cup {NoActor}
In(c, k, i) ==
    \/ k = "local" /\ i \in Workers /\ c \in local[i]
    \/ k = "hand" /\ i \in Actors /\ hand[i] = c
    \/ k = "running" /\ i \in Workers /\ running[i] = c
    \/ k = "fresh" /\ i = NoActor /\ c \in fresh
    \/ k = "parked" /\ i = NoActor /\ c \in parked
    \/ k = "done" /\ i = NoActor /\ c \in done
    \/ k = "rejected" /\ i = NoActor /\ c \in rejected
    \/ k = "global" /\ i = NoActor /\ c \in global
InOnePlace ==
    \A c \in Coroutines : \E k \in Kinds, i \in Owners :
        \A j \in Kinds, x \in Owners : In(c, j, x) <=> j = k /\ x = i

\* Nobody sleeps on a filled queue of its own without a notification under way.
Announces(a, w) == pc[a] = "publish" /\ w \in todo[a]
LocalAnnounced ==
    \A w \in Workers : Sleeping(w) /\ local[w] # {} => \E a \in Actors : Announces(a, w)

\* Work in the global queue has somebody who answers for it: a notifier that will
\* reach an active worker, an active worker that has still to look before it sleeps,
\* or a worker with a closed gate that has not yet sent its broadcast.
WillNotify(a) ==
    pc[a] = "broadcast" \/ (pc[a] = "publish" /\ todo[a] \cap snapshot # {})
WillLook(w) ==
    w \in snapshot /\ ~Sleeping(w) /\ ~(pc[w] = "decide" /\ MaySleep(w))
Closing(w) ==
    ~admission[w] /\ life[w] \in {"Active", "Retiring"} /\ ~Emptied(w)
Covers(a) == WillNotify(a) \/ (a \in Workers /\ (WillLook(a) \/ Closing(a)))
GlobalCovered == global # {} => \E a \in Actors : Covers(a)

ProcInv ==
    /\ TypeOK /\ Shape /\ MapLock /\ Lifecycle /\ InflightCounts /\ DrainHolds /\ InOnePlace
    /\ LocalAnnounced /\ GlobalCovered

USE ProcesserAssumption DEF ProcesserAssumption, Actors, Enqueuing, UserCalls, Pulls

-----------------------------------------------------------------------------
(* What a step of one actor leaves alone, and which parts of the invariant  *)
(* follow from what it does to that actor.                                  *)

OthersStay(a) ==
    /\ \A b \in Actors \ {a} :
          /\ pc'[b] = pc[b] /\ why'[b] = why[b] /\ hand'[b] = hand[b] /\ dest'[b] = dest[b]
          /\ todo'[b] = todo[b]
    /\ \A w \in Workers \ {a} : running'[w] = running[w] /\ got'[w] = got[w]

\* No worker goes back to Preparing, and only one that does has its gate opened.
GatesOpenOnce ==
    \A w \in Workers : life[w] # "Preparing" =>
        life'[w] # "Preparing" /\ (admission'[w] => admission[w])

\* A step of one actor leaves the shape of the others alone.
LEMMA ShapeStep ==
    ASSUME ProcInv, NEW a \in Actors, OthersStay(a), GatesOpenOnce,
           CallShape(a)', HandShape(a)', a \in Workers => RunShape(a)'
    PROVE  Shape'
<1>1. ASSUME NEW b \in Actors \ {a}
      PROVE  CallShape(b)' /\ HandShape(b)' /\ (b \in Workers => RunShape(b)')
  <2>1. /\ pc'[b] = pc[b] /\ why'[b] = why[b] /\ hand'[b] = hand[b] /\ dest'[b] = dest[b]
        /\ b \in Workers => running'[b] = running[b]
        /\ CallShape(b) /\ HandShape(b) /\ (b \in Workers => RunShape(b))
    BY DEF OthersStay, ProcInv, Shape
  <2>2. CallShape(b)' /\ (b \in Workers => RunShape(b)')
    BY <2>1 DEF CallShape, RunShape
  <2>3. HandShape(b)'
    BY <2>1 DEF HandShape, GatesOpenOnce
  <2> QED  BY <2>2, <2>3
<1> QED  BY <1>1 DEF Shape

\* The map mutex changes hands only through the actor of the step.
LEMMA MapStep ==
    ASSUME ProcInv, NEW a \in Actors, OthersStay(a),
           mmutex' = mmutex \/ mmutex \in {a, NoActor},
           mmutex # NoActor => \A w \in Workers : admission[w] => admission'[w],
           MapHeld(a)'
    PROVE  MapLock'
<1>1. ASSUME NEW b \in Actors \ {a}
      PROVE  MapHeld(b)'
  <2>1. /\ pc'[b] = pc[b] /\ why'[b] = why[b] /\ dest'[b] = dest[b]
        /\ MapHeld(b) /\ HandShape(b) /\ b # NoActor
    BY DEF OthersStay, ProcInv, MapLock, Shape
  <2> QED  BY <2>1 DEF MapHeld, HandShape
<1> QED  BY <1>1 DEF MapLock

\* A step that changes no lifecycle and is no part of a resize.
LEMMA LifeStep ==
    ASSUME ProcInv, NEW a \in Actors, OthersStay(a), UNCHANGED lifeVars,
           pc[a] # "retiring", pc'[a] # "retiring",
           a \in Workers => /\ life[a] \notin {"Preparing", "Exited"}
                            /\ pc'[a] = "drain" \/ Drained(a)' => retire[a]
    PROVE  Lifecycle'
<1>1. life' = life /\ admission' = admission /\ retire' = retire /\ snapshot' = snapshot
  BY DEF lifeVars
<1>2. ASSUME NEW w \in Workers PROVE LifeShape(w)'
  <2>1. LifeShape(w) /\ (w # a => pc'[w] = pc[w] /\ why'[w] = why[w])
    BY DEF ProcInv, Lifecycle, OthersStay
  <2>2. w \in snapshot /\ ~admission[w] => \E b \in Actors : pc'[b] = "retiring" /\ w \in todo'[b]
    <3> SUFFICES ASSUME w \in snapshot, ~admission[w]
                 PROVE  \E b \in Actors : pc'[b] = "retiring" /\ w \in todo'[b]
      OBVIOUS
    <3>1. PICK b \in Actors : pc[b] = "retiring" /\ w \in todo[b]
      BY <2>1 DEF LifeShape
    <3> QED  BY <3>1 DEF OthersStay
  <2>3. CASE w = a
    BY <1>1, <2>1, <2>2, <2>3 DEF LifeShape
  <2>4. CASE w # a
    BY <1>1, <2>1, <2>2, <2>4 DEF LifeShape, Drained
  <2> QED  BY <2>3, <2>4
<1>3. ASSUME NEW b \in Actors PROVE ShrinkShape(b)'
  BY <1>1 DEF ProcInv, Lifecycle, ShrinkShape, OthersStay
<1> QED  BY <1>1, <1>2, <1>3 DEF ProcInv, Lifecycle

\* A step that neither registers nor releases an enqueue.
LEMMA InflightStep ==
    ASSUME ProcInv, NEW a \in Actors, OthersStay(a), inflight' = inflight,
           pc'[a] \in {"recheck", "insert"} <=> pc[a] \in {"recheck", "insert"},
           pc[a] \in {"recheck", "insert"} => dest'[a] = dest[a]
    PROVE  InflightCounts'
<1>1. ASSUME NEW w \in Workers PROVE Registered(w)' = Registered(w)
  <2>1. ASSUME NEW b \in Actors
        PROVE  pc'[b] \in {"recheck", "insert"} /\ dest'[b] = w
                  <=> pc[b] \in {"recheck", "insert"} /\ dest[b] = w
    BY DEF OthersStay
  <2> QED  BY <2>1 DEF Registered
<1> QED  BY <1>1 DEF ProcInv, InflightCounts

\* What a step must not do to a drained queue.
LEMMA DrainStep ==
    ASSUME ProcInv, NEW a \in Actors, OthersStay(a),
           \A w \in Workers : pc'[a] = "insert" /\ dest'[a] = w => ~Drained(w)',
           \A w \in Workers \ {a} : Emptied(w) /\ local[w] = {} => local'[w] = {},
           a \in Workers => (Drained(a)' /\ ~Drained(a) => inflight[a] = 0),
           a \in Workers => (Emptied(a)' => local'[a] = {})
    PROVE  DrainHolds'
<1> SUFFICES ASSUME NEW w \in Workers
             PROVE  /\ Drained(w)' => \A b \in Actors : ~(pc'[b] = "insert" /\ dest'[b] = w)
                    /\ Emptied(w)' => local'[w] = {}
  BY DEF DrainHolds
<1>1. /\ Drained(w) => \A b \in Actors : ~(pc[b] = "insert" /\ dest[b] = w)
      /\ Emptied(w) => local[w] = {}
      /\ inflight[w] = Cardinality(Registered(w))
  BY DEF ProcInv, DrainHolds, InflightCounts
<1>2. w # a => (Drained(w)' <=> Drained(w)) /\ (Emptied(w)' <=> Emptied(w))
  BY DEF OthersStay, Drained, Emptied
<1>3. IsFiniteSet(Registered(w))
  BY FS_Subset, FS_Union DEF Registered
<1>4. inflight[w] = 0 => \A b \in Actors : ~(pc[b] = "insert" /\ dest[b] = w)
  BY <1>1, <1>3, FS_EmptySet DEF Registered
<1>5. ASSUME Drained(w)', NEW b \in Actors, pc'[b] = "insert", dest'[b] = w PROVE FALSE
  <2>1. b # a
    BY <1>5
  <2>2. pc[b] = "insert" /\ dest[b] = w
    BY <1>5, <2>1 DEF OthersStay
  <2> QED  BY <1>1, <1>2, <1>4, <1>5, <2>2
<1>6. Emptied(w)' => local'[w] = {}
  BY <1>1, <1>2
<1> QED  BY <1>5, <1>6

\* A queue another actor sleeps on is filled only with an announcement, and who
\* drops an announcement has made it.
LEMMA AnnounceStep ==
    ASSUME ProcInv, NEW a \in Actors, OthersStay(a),
           \A w \in Workers \ {a} :
              /\ pending[w] => pending'[w]
              /\ local'[w] # {} => local[w] # {} \/ Announces(a, w)',
           a \in Workers => pc'[a] # "asleep" \/ local'[a] = {},
           \A w \in Workers : Announces(a, w) => Announces(a, w)' \/ pending'[w]
    PROVE  LocalAnnounced'
<1> SUFFICES ASSUME NEW w \in Workers, Sleeping(w)', local'[w] # {}
             PROVE  \E b \in Actors : Announces(b, w)'
  BY DEF LocalAnnounced
<1>1. pc'[w] = "asleep" /\ ~pending'[w]
  BY DEF Sleeping
<1>2. (Sleeping(w) /\ local[w] # {}) \/ Announces(a, w)'
  BY <1>1 DEF OthersStay, Sleeping
<1>3. ASSUME Sleeping(w), local[w] # {} PROVE \E b \in Actors : Announces(b, w)'
  <2>1. PICK b \in Actors : Announces(b, w)
    BY <1>3 DEF ProcInv, LocalAnnounced
  <2>2. CASE b = a
    BY <1>1, <2>1, <2>2
  <2>3. CASE b # a
    BY <2>1, <2>3 DEF OthersStay, Announces
  <2> QED  BY <2>2, <2>3
<1> QED  BY <1>2, <1>3

\* A step that changes no lifecycle: the other actors go on answering for the global
\* queue, so it is enough that this one does, if it did or if it filled the queue.
LEMMA CoverStep ==
    ASSUME ProcInv, NEW a \in Actors, OthersStay(a), UNCHANGED lifeVars,
           \A w \in Workers \ {a} :
              /\ pending[w] => pending'[w]
              /\ local[w] # {} => local'[w] # {} \/ Covers(a)',
           global' # {} => Covers(a)' \/ (global # {} /\ ~Covers(a))
    PROVE  GlobalCovered'
<1>1. life' = life /\ admission' = admission /\ retire' = retire /\ snapshot' = snapshot
  BY DEF lifeVars
<1> SUFFICES ASSUME global' # {}, ~Covers(a)'
             PROVE  \E b \in Actors : Covers(b)'
  BY DEF GlobalCovered
<1>2. PICK b \in Actors : Covers(b) /\ b # a
  BY DEF ProcInv, GlobalCovered
<1>3. pc'[b] = pc[b] /\ why'[b] = why[b] /\ todo'[b] = todo[b] /\ (b \in Workers => got'[b] = got[b])
  BY <1>2 DEF OthersStay
<1>4. WillNotify(b) => WillNotify(b)'
  BY <1>1, <1>3 DEF WillNotify
<1>5. b \in Workers /\ Closing(b) => Closing(b)'
  BY <1>1, <1>3 DEF Closing, Emptied
<1>6. b \in Workers /\ WillLook(b) => WillLook(b)'
  BY <1>1, <1>2, <1>3 DEF WillLook, Sleeping, MaySleep
<1> QED  BY <1>2, <1>4, <1>5, <1>6 DEF Covers

\* No coroutine changes its place.
LEMMA PlacesKept ==
    ASSUME ProcInv, UNCHANGED <<local, global, hand, coVars>>
    PROVE  InOnePlace'
<1>1. \A c \in Coroutines, k \in Kinds, i \in Owners : In(c, k, i)' <=> In(c, k, i)
  BY DEF In, coVars
<1> SUFFICES ASSUME NEW c \in Coroutines
             PROVE  \E k \in Kinds, i \in Owners :
                        \A j \in Kinds, x \in Owners : In(c, j, x)' <=> j = k /\ x = i
  BY DEF InOnePlace
<1>2. PICK k \in Kinds, i \in Owners :
          \A j \in Kinds, x \in Owners : In(c, j, x) <=> j = k /\ x = i
  BY DEF ProcInv, InOnePlace
<1>3. \A j \in Kinds, x \in Owners : In(c, j, x)' <=> j = k /\ x = i
  BY <1>1, <1>2
<1> QED  BY <1>3

\* Coroutine c, and only c, goes from one place to another.
Moved(c, k, i, l, m) ==
    \A d \in Coroutines, j \in Kinds, x \in Owners :
        In(d, j, x)' <=> \/ d = c /\ j = l /\ x = m
                         \/ In(d, j, x) /\ ~(d = c /\ j = k /\ x = i)

\* A coroutine moved from one place to another is in one place.
LEMMA PlaceMoved ==
    ASSUME ProcInv, NEW c \in Coroutines, NEW k \in Kinds, NEW i \in Owners,
           NEW l \in Kinds, NEW m \in Owners, In(c, k, i), Moved(c, k, i, l, m)
    PROVE  InOnePlace'
<1> SUFFICES ASSUME NEW d \in Coroutines
             PROVE  \E j \in Kinds, x \in Owners :
                        \A jj \in Kinds, xx \in Owners : In(d, jj, xx)' <=> jj = j /\ xx = x
  BY DEF InOnePlace
<1>1. PICK j \in Kinds, x \in Owners :
          \A jj \in Kinds, xx \in Owners : In(d, jj, xx) <=> jj = j /\ xx = x
  BY DEF ProcInv, InOnePlace
<1>2. \A jj \in Kinds, xx \in Owners :
          In(d, jj, xx)' <=> \/ d = c /\ jj = l /\ xx = m
                             \/ In(d, jj, xx) /\ ~(d = c /\ jj = k /\ xx = i)
  BY DEF Moved
<1>3. CASE d = c
  <2>1. j = k /\ x = i
    BY <1>1, <1>3
  <2>2. \A jj \in Kinds, xx \in Owners : In(d, jj, xx)' <=> jj = l /\ xx = m
    BY <1>1, <1>2, <1>3, <2>1
  <2> QED  BY <2>2
<1>4. CASE d # c
  <2>1. \A jj \in Kinds, xx \in Owners : In(d, jj, xx)' <=> jj = j /\ xx = x
    BY <1>1, <1>2, <1>4
  <2> QED  BY <2>1
<1> QED  BY <1>3, <1>4

-----------------------------------------------------------------------------
(* The worker loop.                                                         *)

LoopPC == {"gate", "loop", "ask", "pull", "pick", "idle", "fair", "steal", "take", "wait",
           "decide", "asleep", "drain"}

\* A turn of the loop that touches no queue: it keeps the invariant if it goes to the
\* drain only when asked to retire, and to sleep only with its queue empty and
\* somebody left to answer for the global one.
LEMMA TurnStep ==
    ASSUME ProcInv, NEW w \in Workers, OthersStay(w),
           UNCHANGED <<lifeVars, queueVars, coVars, hand, dest, mmutex>>,
           pc[w] \in LoopPC, pc'[w] \in LoopPC \ {"gate"}, life[w] # "Preparing",
           \A v \in Workers \ {w} : pending[v] => pending'[v],
           pc'[w] = "drain" => retire[w],
           pc'[w] = "asleep" => local[w] = {},
           pc'[w] \in {"decide", "asleep"} /\ Covers(w) => Covers(w)' \/ global = {},
           why'[w] \notin {"regist"}, CallShape(w)', TypeOK'
    PROVE  ProcInv'
<1> USE DEF LoopPC
<1>1. /\ life' = life /\ admission' = admission /\ retire' = retire /\ snapshot' = snapshot
      /\ inflight' = inflight /\ local' = local /\ global' = global
      /\ running' = running /\ hand' = hand /\ dest' = dest /\ mmutex' = mmutex
  BY DEF lifeVars, queueVars, coVars
<1>2. /\ CallShape(w) /\ HandShape(w) /\ RunShape(w) /\ LifeShape(w)
  BY DEF ProcInv, Shape, Lifecycle
<1>3. life[w] # "Exited" /\ ~Drained(w) /\ ~Drained(w)' /\ ~Emptied(w) /\ ~Emptied(w)'
  BY <1>2 DEF LifeShape, Drained, Emptied
<1>4. Shape'
  <2>1. HandShape(w)' /\ RunShape(w)'
    BY <1>1, <1>2 DEF HandShape, RunShape, CallPC
  <2> QED  BY <1>1, <2>1, ShapeStep DEF GatesOpenOnce
<1>5. MapLock'
  <2>1. MapHeld(w)'
    BY DEF MapHeld
  <2> QED  BY <1>1, <2>1, MapStep
<1>6. Lifecycle'
  BY <1>3, LifeStep
<1>7. InflightCounts'
  BY <1>1, InflightStep
<1>8. DrainHolds'
  BY <1>1, <1>3, DrainStep
<1>9. InOnePlace'
  BY <1>1, PlacesKept DEF coVars
<1>10. LocalAnnounced'
  <2>1. \A v \in Workers : ~Announces(w, v)
    BY DEF Announces
  <2> QED  BY <1>1, <2>1, AnnounceStep
<1>11. GlobalCovered'
  <2>1. ASSUME pc'[w] \notin {"decide", "asleep"}, Covers(w)
        PROVE  Covers(w)'
    <3>1. WillLook(w) \/ Closing(w)
      BY <2>1 DEF Covers, WillNotify
    <3>2. w \in snapshot => WillLook(w)'
      BY <1>1, <2>1 DEF WillLook, Sleeping
    <3>3. Closing(w) => Closing(w)'
      BY <1>1, <1>3 DEF Closing
    <3> QED  BY <3>1, <3>2, <3>3 DEF Covers, WillLook
  <2> QED  BY <1>1, <2>1, CoverStep
<1> QED  BY <1>4, <1>5, <1>6, <1>7, <1>8, <1>9, <1>10, <1>11 DEF ProcInv

\* What is known of a worker in its loop.
LEMMA LoopShapes ==
    ASSUME ProcInv, NEW w \in Workers
    PROVE  /\ w \in Actors /\ w # NoActor /\ TypeOK /\ CallShape(w) /\ HandShape(w)
           /\ RunShape(w) /\ LifeShape(w)
           /\ pc[w] \notin {"gate"} => life[w] # "Preparing"
           /\ why[w] \in Pulls => AfterPull(w) = (IF why[w] = "pull" THEN "pick"
                                                  ELSE IF why[w] = "check" THEN "fair" ELSE "decide")
BY DEF ProcInv, Shape, Lifecycle, LifeShape, AfterPull

\* The turns that only go on to another point of the loop, and perhaps to another
\* reason to look at the global queue.
LEMMA LoopTurn ==
    ASSUME ProcInv, NEW w \in Workers,
           \/ WorkerMain(w) \/ Loop(w) \/ PickNone(w) \/ Idle(w) \/ Fair(w)
           \/ (\E v \in Workers : StealFrom(w, v)) \/ StealNothing(w) \/ TakeEnd(w)
    PROVE  ProcInv'
<1>1. /\ life' = life /\ admission' = admission /\ retire' = retire /\ snapshot' = snapshot
      /\ inflight' = inflight /\ local' = local /\ global' = global /\ runLock' = runLock
      /\ gmutex' = gmutex /\ mmutex' = mmutex /\ steals' = steals /\ pending' = pending
      /\ hand' = hand /\ dest' = dest /\ UNCHANGED coVars
  BY DEF WorkerMain, Loop, PickNone, Idle, Fair, StealFrom, StealNothing, TakeEnd, Move, GoOn,
         lifeVars, queueVars, lockVars
<1>2. LifeShape(w) /\ CallShape(w) /\ TypeOK /\ (pc[w] \notin {"gate"} => life[w] # "Preparing")
  BY LoopShapes
<1>3. /\ pc[w] \in LoopPC /\ life[w] # "Preparing"
      /\ \E p \in {"loop", "drain", "ask", "pick", "idle", "fair", "steal", "take", "wait"} :
            /\ pc' = [pc EXCEPT ![w] = p]
            /\ p = "drain" => retire[w]
            /\ p = "ask" => why'[w] \in Pulls
            /\ p = "take" => why'[w] = "steal"
      /\ why' = why \/ \E y \in Pulls \cup {"steal", "none"} : why' = [why EXCEPT ![w] = y]
      /\ got' = got \/ got' = [got EXCEPT ![w] = FALSE]
      /\ todo' = todo \/ \E S \in SUBSET Workers : todo' = [todo EXCEPT ![w] = S]
  <2>1. CASE WorkerMain(w) \/ StealNothing(w)
    BY <1>2, <2>1 DEF WorkerMain, StealNothing, Move, Goto, LoopPC
  <2>6. CASE PickNone(w) \/ Fair(w)
    BY <1>2, <2>6 DEF PickNone, Fair, GoOn, Goto, Ends, LoopPC
  <2>2. CASE Loop(w)
    BY <1>2, <2>2 DEF Loop, Goto, LoopPC, TypeOK, ActorTypes
  <2>3. CASE Idle(w)
    BY <1>2, <2>3 DEF Idle, Goto, LoopPC, TypeOK, ActorTypes
  <2>4. CASE \E v \in Workers : StealFrom(w, v)
    <3>1. PICK v \in Workers : StealFrom(w, v)
      BY <2>4
    <3>2. pc' = [pc EXCEPT ![w] = "take"] /\ todo' = [todo EXCEPT ![w] = {v}] /\ {v} \in SUBSET Workers
      BY <3>1 DEF StealFrom, Goto
    <3>3. pc[w] = "steal" /\ why' = [why EXCEPT ![w] = "steal"] /\ got' = [got EXCEPT ![w] = FALSE]
      BY <3>1 DEF StealFrom
    <3> QED  BY <1>2, <3>2, <3>3 DEF LoopPC, TypeOK, ActorTypes
  <2>5. CASE TakeEnd(w)
    BY <1>2, <2>5 DEF TakeEnd, Goto, LoopPC
  <2> QED  BY <2>1, <2>2, <2>3, <2>4, <2>5, <2>6
<1>4. /\ OthersStay(w) /\ CallShape(w)' /\ why'[w] # "regist"
      /\ pc'[w] \in LoopPC \ {"gate", "decide", "asleep"}
      /\ pc'[w] = "drain" => retire[w]
  BY <1>1, <1>2, <1>3 DEF OthersStay, CallShape, coVars, TypeOK, ActorTypes, LoopPC
<1>5. TypeOK'
  <2>1. LifeTypes' /\ QueueTypes' /\ CoTypes'
    BY <1>1, <1>2 DEF TypeOK, LifeTypes, QueueTypes, CoTypes, coVars
  <2>2. pc' \in [Actors -> WorkerPC \cup CallPC]
    BY <1>2, <1>3 DEF TypeOK, ActorTypes, WorkerPC
  <2>3. why' \in [Actors -> Whys]
    BY <1>2, <1>3 DEF TypeOK, ActorTypes, Whys
  <2>5. got' \in [Workers -> BOOLEAN]
    BY <1>2, <1>3 DEF TypeOK, ActorTypes
  <2>4. todo' \in [Actors -> SUBSET Workers]
    BY <1>2, <1>3 DEF TypeOK, ActorTypes
  <2> QED  BY <1>1, <1>2, <2>1, <2>2, <2>3, <2>4, <2>5 DEF TypeOK, ActorTypes
<1> QED  BY <1>1, <1>3, <1>4, <1>5, TurnStep DEF lifeVars, queueVars, LoopPC

\* The look at the global queue: after it a worker that goes to sleep has found the
\* queue empty, or its gate is closed.
LEMMA PullTurn ==
    ASSUME ProcInv, NEW w \in Workers, Ask(w) \/ PullEnd(w)
    PROVE  ProcInv'
<1>1. /\ life' = life /\ admission' = admission /\ retire' = retire /\ snapshot' = snapshot
      /\ inflight' = inflight /\ local' = local /\ global' = global /\ runLock' = runLock
      /\ gmutex' = gmutex /\ mmutex' = mmutex /\ steals' = steals /\ pending' = pending
      /\ hand' = hand /\ dest' = dest /\ UNCHANGED coVars
      /\ why' = why /\ got' = got /\ todo' = todo
  BY DEF Ask, PullEnd, Move, lifeVars, queueVars, lockVars
<1>2. /\ LifeShape(w) /\ CallShape(w) /\ TypeOK /\ (pc[w] \notin {"gate"} => life[w] # "Preparing")
      /\ why[w] \in Pulls => AfterPull(w) = (IF why[w] = "pull" THEN "pick"
                                             ELSE IF why[w] = "check" THEN "fair" ELSE "decide")
  BY LoopShapes
<1>3. PICK p \in {"pull", "pick", "fair", "decide"} :
         /\ pc' = [pc EXCEPT ![w] = p]
         /\ pc[w] \in {"ask", "pull"} /\ why[w] \in Pulls
         /\ p = "decide" => ~admission[w] \/ global = {} \/ got[w]
  BY <1>2 DEF Ask, PullEnd, Move, Goto, CallShape
<1>4. OthersStay(w) /\ CallShape(w)' /\ pc'[w] = p
  BY <1>1, <1>2, <1>3 DEF OthersStay, CallShape, coVars, TypeOK, ActorTypes
<1>5. TypeOK'
  BY <1>1, <1>2, <1>3 DEF TypeOK, LifeTypes, QueueTypes, ActorTypes, CoTypes, coVars, WorkerPC, CallPC
<1>6. ASSUME p = "decide", global # {} PROVE Covers(w)'
  <2>1. ~admission[w] => Closing(w)'
    BY <1>1, <1>2, <1>3, <1>4, <1>6 DEF Closing, Emptied, LifeShape, TypeOK, LifeTypes, Lives
  <2>2. admission[w] => WillLook(w)'
    <3> SUFFICES ASSUME admission[w] PROVE WillLook(w)'
      OBVIOUS
    <3>1. w \in snapshot /\ got[w]
      BY <1>2, <1>3, <1>6 DEF LifeShape
    <3> QED  BY <1>1, <1>4, <1>6, <3>1 DEF WillLook, Sleeping, MaySleep
  <2> QED  BY <2>1, <2>2 DEF Covers
<1> QED  BY <1>1, <1>2, <1>3, <1>4, <1>5, <1>6, TurnStep DEF lifeVars, queueVars, LoopPC

\* _WaitForWork: a worker that had still to look does not go to sleep.
LEMMA SleepTurn ==
    ASSUME ProcInv, NEW w \in Workers, WaitForWork(w) \/ Decide(w) \/ Wake(w) \/ WakeByTimer(w)
    PROVE  ProcInv'
<1>1. /\ life' = life /\ admission' = admission /\ retire' = retire /\ snapshot' = snapshot
      /\ inflight' = inflight /\ local' = local /\ global' = global
      /\ gmutex' = gmutex /\ mmutex' = mmutex /\ steals' = steals
      /\ hand' = hand /\ dest' = dest /\ UNCHANGED coVars /\ todo' = todo
  BY DEF WaitForWork, Decide, Wake, WakeByTimer, lifeVars, queueVars, lockVars
<1>2. /\ LifeShape(w) /\ CallShape(w) /\ TypeOK /\ (pc[w] \notin {"gate"} => life[w] # "Preparing")
  BY LoopShapes
<1>3. PICK p \in {"loop", "ask", "asleep"} :
         /\ pc' = [pc EXCEPT ![w] = p]
         /\ pc[w] \in {"wait", "decide", "asleep"}
         /\ p = "asleep" => pc[w] = "decide" /\ MaySleep(w)
         /\ p = "ask" => why'[w] = "sleep"
         /\ why' = why \/ why' = [why EXCEPT ![w] = "sleep"]
         /\ got' = got \/ got' = [got EXCEPT ![w] = FALSE]
         /\ pending' = pending \/ pending' = [pending EXCEPT ![w] = FALSE]
         /\ runLock' = runLock \/ \E b \in BOOLEAN : runLock' = [runLock EXCEPT ![w] = b]
  <2>1. CASE WaitForWork(w)
    BY <1>2, <2>1 DEF WaitForWork, Goto, TypeOK, ActorTypes
  <2>2. CASE Decide(w)
    BY <1>2, <2>2 DEF Decide, Goto
  <2>3. CASE Wake(w) \/ WakeByTimer(w)
    BY <1>2, <2>3 DEF Wake, WakeByTimer, Goto, lockVars
  <2> QED  BY <2>1, <2>2, <2>3
<1>4. OthersStay(w) /\ CallShape(w)' /\ pc'[w] = p /\ why'[w] # "regist"
  BY <1>1, <1>2, <1>3 DEF OthersStay, CallShape, coVars, TypeOK, ActorTypes
<1>5. TypeOK'
  <2>1. LifeTypes' /\ QueueTypes' /\ CoTypes'
    <3>1. LifeTypes'
      BY <1>1, <1>2, <1>3 DEF TypeOK, LifeTypes
    <3>2. QueueTypes'
      BY <1>1, <1>2, <1>3 DEF TypeOK, QueueTypes
    <3>3. CoTypes'
      BY <1>1, <1>2 DEF TypeOK, CoTypes, coVars
    <3> QED  BY <3>1, <3>2, <3>3
  <2>2. pc' \in [Actors -> WorkerPC \cup CallPC]
    BY <1>2, <1>3 DEF TypeOK, ActorTypes, WorkerPC
  <2>3. why' \in [Actors -> Whys] /\ got' \in [Workers -> BOOLEAN]
    BY <1>2, <1>3 DEF TypeOK, ActorTypes, Whys
  <2>4. todo' \in [Actors -> SUBSET Workers]
    BY <1>1, <1>2 DEF TypeOK, ActorTypes
  <2> QED  BY <1>1, <1>2, <2>1, <2>2, <2>3, <2>4 DEF TypeOK, ActorTypes
<1>6. ASSUME p = "asleep" PROVE local[w] = {} /\ (Covers(w) => Covers(w)')
  <2>1. pc[w] = "decide" /\ MaySleep(w)
    BY <1>3, <1>6
  <2>2. Covers(w) => Closing(w)
    BY <2>1 DEF Covers, WillNotify, WillLook
  <2>3. Closing(w) => Closing(w)'
    BY <1>1, <1>4, <1>6 DEF Closing, Emptied
  <2> QED  BY <2>1, <2>2, <2>3 DEF Covers, MaySleep
<1>7. \A v \in Workers \ {w} : pending[v] => pending'[v]
  BY <1>2, <1>3 DEF TypeOK, LifeTypes
<1> QED  BY <1>1, <1>2, <1>3, <1>4, <1>5, <1>6, <1>7, TurnStep DEF lifeVars, queueVars, LoopPC

-----------------------------------------------------------------------------
(* _EnqueueAdmitted.                                                        *)

\* What is known of any actor.
LEMMA ActorShapes ==
    ASSUME ProcInv, NEW a \in Actors
    PROVE  /\ TypeOK /\ CallShape(a) /\ HandShape(a) /\ MapHeld(a) /\ a # NoActor
           /\ a \in Workers =>
                 /\ RunShape(a) /\ LifeShape(a)
                 /\ pc[a] \notin {"gate", "exited"} => life[a] \in {"Active", "Retiring"}
                 /\ a \in snapshot \/ (pc[a] \notin {"gate", "exited"} => ~admission[a])
           /\ a \in Threads => a \notin Workers
BY DEF ProcInv, Shape, MapLock, Lifecycle, LifeShape, TypeOK, LifeTypes, Lives

\* Worker a, on its way through its loop, answers for the global queue: it will look
\* at it, or its gate is closed and it will broadcast.
LEMMA Awake ==
    ASSUME ProcInv, NEW a \in Workers, UNCHANGED lifeVars, pc[a] \notin {"gate", "exited"},
           pc'[a] \notin {"decide", "asleep", "exit", "exited", "broadcast", "publish"}
    PROVE  Covers(a)'
<1>1. life' = life /\ admission' = admission /\ snapshot' = snapshot
  BY DEF lifeVars
<1>2. life[a] \in {"Active", "Retiring"} /\ (a \in snapshot \/ ~admission[a])
  BY ActorShapes
<1> QED  BY <1>1, <1>2 DEF Covers, WillLook, Sleeping, Closing, Emptied

\* The steps from the first look at the gate to the insertion or the refusal.
LEMMA EnqueueStep ==
    ASSUME ProcInv, NEW a \in Actors, OthersStay(a),
           UNCHANGED <<lifeVars, local, global, pending, mmutex, coVars, hand, dest>>,
           why'[a] = why[a], pc[a] \in Enqueuing, pc'[a] \in Enqueuing,
           pc'[a] = "refused" => ~admission[dest[a]],
           pc'[a] = "insert" => admission[dest[a]],
           InflightCounts', TypeOK'
    PROVE  ProcInv'
<1>1. /\ life' = life /\ admission' = admission /\ retire' = retire /\ snapshot' = snapshot
      /\ local' = local /\ global' = global /\ pending' = pending /\ mmutex' = mmutex
      /\ running' = running /\ hand' = hand /\ dest' = dest
  BY DEF lifeVars, coVars
<1>2. /\ TypeOK /\ CallShape(a) /\ HandShape(a) /\ MapHeld(a)
      /\ a \in Workers => /\ RunShape(a) /\ LifeShape(a) /\ life[a] \in {"Active", "Retiring"}
                          /\ ~Drained(a)' /\ ~Emptied(a)'
  BY ActorShapes DEF Drained, Emptied
<1>3. Shape'
  <2>1. CallShape(a)'
    BY <1>2 DEF CallShape, CallPC
  <2>2. HandShape(a)'
    BY <1>1, <1>2 DEF HandShape
  <2>3. a \in Workers => RunShape(a)'
    BY <1>1, <1>2 DEF RunShape, CallPC
  <2> QED  BY <1>1, <2>1, <2>2, <2>3, ShapeStep DEF GatesOpenOnce
<1>4. MapLock'
  <2>1. MapHeld(a)'
    BY <1>1, <1>2 DEF MapHeld
  <2> QED  BY <1>1, <2>1, MapStep
<1>5. Lifecycle'
  BY <1>2, LifeStep
<1>6. DrainHolds'
  <2>1. ASSUME NEW w \in Workers, pc'[a] = "insert", dest'[a] = w
        PROVE  ~Drained(w)'
    <3>1. admission[w] /\ LifeShape(w)
      BY <1>1, <2>1 DEF ProcInv, Lifecycle
    <3>2. ~Drained(w)
      BY <3>1 DEF LifeShape
    <3>3. w # a => pc'[w] = pc[w] /\ why'[w] = why[w]
      BY DEF OthersStay
    <3> QED  BY <1>2, <3>2, <3>3 DEF Drained
  <2> QED  BY <1>1, <1>2, <2>1, DrainStep
<1>7. InOnePlace'
  BY <1>1, PlacesKept DEF coVars
<1>8. LocalAnnounced'
  <2>1. \A v \in Workers : ~Announces(a, v)
    BY DEF Announces
  <2> QED  BY <1>1, <2>1, AnnounceStep
<1>9. GlobalCovered'
  <2>1. a \in Workers => Covers(a)'
    BY Awake
  <2>2. a \notin Workers => ~Covers(a)
    BY DEF Covers, WillNotify
  <2> QED  BY <1>1, <2>1, <2>2, CoverStep
<1> QED  BY <1>3, <1>4, <1>5, <1>6, <1>7, <1>8, <1>9 DEF ProcInv

\* _EnqueueAdmitted looks at the gate before it registers.
LEMMA CheckInv ==
    ASSUME ProcInv, NEW a \in Actors, EnqueueCheck(a)
    PROVE  ProcInv'
<1>1. /\ life' = life /\ admission' = admission /\ retire' = retire /\ snapshot' = snapshot
      /\ inflight' = inflight /\ local' = local /\ global' = global /\ runLock' = runLock
      /\ gmutex' = gmutex /\ mmutex' = mmutex /\ steals' = steals /\ pending' = pending
      /\ hand' = hand /\ dest' = dest /\ UNCHANGED coVars
      /\ why' = why /\ got' = got /\ todo' = todo
  BY DEF EnqueueCheck, Move, lifeVars, queueVars, lockVars
<1>2. PICK p \in {"admit", "refused"} :
         /\ pc' = [pc EXCEPT ![a] = p] /\ pc[a] = "check"
         /\ p = "refused" => ~admission[dest[a]]
  BY DEF EnqueueCheck, Move, Goto
<1>3. TypeOK /\ TypeOK'
  BY <1>1, <1>2, ActorShapes DEF TypeOK, LifeTypes, QueueTypes, ActorTypes, CoTypes, coVars, CallPC
<1>4. OthersStay(a) /\ pc'[a] = p
  BY <1>1, <1>2, <1>3 DEF OthersStay, coVars, TypeOK, ActorTypes
<1>5. InflightCounts'
  BY <1>1, <1>2, <1>4, InflightStep
<1> QED  BY <1>1, <1>2, <1>3, <1>4, <1>5, EnqueueStep DEF lifeVars

\* A set of actors grows or shrinks by one.
LEMMA OneMore ==
    ASSUME NEW S \in SUBSET Actors, NEW T, NEW a \in Actors, a \notin S, T = S \cup {a}
    PROVE  Cardinality(T) = Cardinality(S) + 1 /\ Cardinality(S) \in Nat
BY FS_Subset, FS_Union, FS_AddElement, FS_CardinalityType

\* A counted set of actors loses one.
LEMMA OneLess ==
    ASSUME NEW S \in SUBSET Actors, NEW T, NEW a \in Actors, a \in S, T = S \ {a}
    PROVE  Cardinality(T) = Cardinality(S) - 1 /\ Cardinality(S) \in Nat \ {0}
<1>1. a \notin T /\ S = T \cup {a} /\ T \in SUBSET Actors
  OBVIOUS
<1>2. Cardinality(S) = Cardinality(T) + 1 /\ Cardinality(T) \in Nat
  BY <1>1, OneMore
<1> QED  BY <1>2

\* One enqueue is registered with w, or gives its slot back.
LEMMA InflightJoins ==
    ASSUME ProcInv, NEW a \in Actors, NEW w \in Workers, OthersStay(a),
           inflight' = [inflight EXCEPT ![w] = @ + 1],
           pc[a] \notin {"recheck", "insert"}, pc'[a] \in {"recheck", "insert"}, dest'[a] = w
    PROVE  InflightCounts' /\ inflight' \in [Workers -> Nat]
<1>1. TypeOK /\ inflight \in [Workers -> Nat]
  BY DEF ProcInv, TypeOK, QueueTypes
<1>2. ASSUME NEW v \in Workers PROVE inflight'[v] = Cardinality(Registered(v)')
  <2>1. inflight[v] = Cardinality(Registered(v)) /\ Registered(v) \in SUBSET Actors
    BY DEF ProcInv, InflightCounts, Registered
  <2>2. CASE v = w
    <3>1. Registered(v)' = Registered(v) \cup {a} /\ a \notin Registered(v)
      BY <2>2 DEF Registered, OthersStay
    <3> QED  BY <1>1, <2>1, <2>2, <3>1, OneMore
  <2>3. CASE v # w
    <3>1. Registered(v)' = Registered(v)
      BY <2>3 DEF Registered, OthersStay
    <3> QED  BY <1>1, <2>1, <2>3, <3>1
  <2> QED  BY <2>2, <2>3
<1> QED  BY <1>1, <1>2 DEF InflightCounts

\* An enqueue releases its registration.
LEMMA InflightLeaves ==
    ASSUME ProcInv, NEW a \in Actors, NEW w \in Workers, OthersStay(a),
           inflight' = [inflight EXCEPT ![w] = @ - 1],
           pc'[a] \notin {"recheck", "insert"}, pc[a] \in {"recheck", "insert"}, dest[a] = w
    PROVE  InflightCounts' /\ inflight' \in [Workers -> Nat]
<1>1. TypeOK /\ inflight \in [Workers -> Nat]
  BY DEF ProcInv, TypeOK, QueueTypes
<1>2. ASSUME NEW v \in Workers PROVE inflight'[v] = Cardinality(Registered(v)') /\ inflight'[v] \in Nat
  <2>1. inflight[v] = Cardinality(Registered(v)) /\ Registered(v) \in SUBSET Actors
    BY DEF ProcInv, InflightCounts, Registered
  <2>2. CASE v = w
    <3>1. Registered(v)' = Registered(v) \ {a} /\ a \in Registered(v)
      BY <2>2 DEF Registered, OthersStay
    <3> QED  BY <1>1, <2>1, <2>2, <3>1, OneLess
  <2>3. CASE v # w
    <3>1. Registered(v)' = Registered(v)
      BY <2>3 DEF Registered, OthersStay
    <3> QED  BY <1>1, <2>1, <2>3, <3>1
  <2> QED  BY <2>2, <2>3
<1> QED  BY <1>1, <1>2 DEF InflightCounts

\* _EnqueueAdmitted registers in m_enqueue_inflight.
LEMMA RegisterInv ==
    ASSUME ProcInv, NEW a \in Actors, EnqueueRegister(a)
    PROVE  ProcInv'
<1>1. /\ life' = life /\ admission' = admission /\ retire' = retire /\ snapshot' = snapshot
      /\ local' = local /\ global' = global /\ runLock' = runLock
      /\ gmutex' = gmutex /\ mmutex' = mmutex /\ steals' = steals /\ pending' = pending
      /\ hand' = hand /\ dest' = dest /\ UNCHANGED coVars
      /\ why' = why /\ got' = got /\ todo' = todo
  BY DEF EnqueueRegister, lifeVars, lockVars
<1>2. /\ pc' = [pc EXCEPT ![a] = "recheck"] /\ pc[a] = "admit" /\ dest[a] \in Workers
      /\ inflight' = [inflight EXCEPT ![dest[a]] = @ + 1] /\ TypeOK
  BY ActorShapes DEF EnqueueRegister, Goto, HandShape
<1>3. OthersStay(a) /\ pc'[a] = "recheck"
  BY <1>1, <1>2 DEF OthersStay, coVars, TypeOK, ActorTypes
<1>4. InflightCounts' /\ inflight' \in [Workers -> Nat]
  BY <1>1, <1>2, <1>3, InflightJoins
<1>5. TypeOK'
  BY <1>1, <1>2, <1>4 DEF TypeOK, LifeTypes, QueueTypes, ActorTypes, CoTypes, coVars, CallPC
<1> QED  BY <1>1, <1>2, <1>3, <1>4, <1>5, EnqueueStep DEF lifeVars

\* It looks at the gate again, and goes on or is refused.
LEMMA RecheckInv ==
    ASSUME ProcInv, NEW a \in Actors, EnqueueRecheck(a)
    PROVE  ProcInv'
<1>1. /\ life' = life /\ admission' = admission /\ retire' = retire /\ snapshot' = snapshot
      /\ local' = local /\ global' = global /\ runLock' = runLock
      /\ gmutex' = gmutex /\ mmutex' = mmutex /\ steals' = steals /\ pending' = pending
      /\ hand' = hand /\ dest' = dest /\ UNCHANGED coVars
      /\ why' = why /\ got' = got /\ todo' = todo
  BY DEF EnqueueRecheck, lifeVars, lockVars
<1>2. PICK p \in {"insert", "refused"} :
         /\ pc' = [pc EXCEPT ![a] = p] /\ pc[a] = "recheck" /\ dest[a] \in Workers /\ TypeOK
         /\ p = "refused" => /\ ~admission[dest[a]]
                             /\ inflight' = [inflight EXCEPT ![dest[a]] = @ - 1]
         /\ p = "insert" => admission[dest[a]] /\ inflight' = inflight
  BY ActorShapes DEF EnqueueRecheck, Goto, HandShape, StillAdmitted, Released
<1>3. OthersStay(a) /\ pc'[a] = p
  BY <1>1, <1>2 DEF OthersStay, coVars, TypeOK, ActorTypes
<1>4. InflightCounts' /\ inflight' \in [Workers -> Nat]
  <2>1. CASE p = "insert"
    BY <1>1, <1>2, <1>3, <2>1, InflightStep DEF TypeOK, QueueTypes
  <2>2. CASE p = "refused"
    BY <1>1, <1>2, <1>3, <2>2, InflightLeaves
  <2> QED  BY <2>1, <2>2
<1>5. TypeOK'
  BY <1>1, <1>2, <1>4 DEF TypeOK, LifeTypes, QueueTypes, ActorTypes, CoTypes, coVars, CallPC
<1> QED  BY <1>1, <1>2, <1>3, <1>4, <1>5, EnqueueStep DEF lifeVars

\* Where an insertion goes on, by the operation it belongs to.
LEMMA InsertInv ==
    ASSUME ProcInv, NEW a \in Actors, EnqueueInsert(a)
    PROVE  ProcInv'
<1> DEFINE w == dest[a]
           c == hand[a]
<1>1. /\ life' = life /\ admission' = admission /\ retire' = retire /\ snapshot' = snapshot
      /\ global' = global /\ runLock' = runLock /\ gmutex' = gmutex /\ mmutex' = mmutex
      /\ steals' = steals /\ pending' = pending /\ running' = running /\ UNCHANGED coVars
  BY DEF EnqueueInsert, lifeVars, lockVars, coVars
<1>2. /\ TypeOK /\ CallShape(a) /\ HandShape(a) /\ MapHeld(a) /\ a # NoActor
      /\ a \in Workers => RunShape(a) /\ LifeShape(a) /\ life[a] \in {"Active", "Retiring"}
      /\ a \in Threads => a \notin Workers
      /\ pc[a] = "insert" /\ w \in Workers /\ c \in Coroutines
      /\ why[a] \notin {"regist", "registOn"} => w = a
  <2>1. pc[a] = "insert"
    BY DEF EnqueueInsert
  <2>2. /\ TypeOK /\ CallShape(a) /\ HandShape(a) /\ MapHeld(a) /\ a # NoActor
        /\ a \in Workers => RunShape(a) /\ LifeShape(a) /\ life[a] \in {"Active", "Retiring"}
        /\ a \in Threads => a \notin Workers
    BY <2>1, ActorShapes
  <2> QED  BY <2>1, <2>2 DEF HandShape, TypeOK, ActorTypes
<1>3. /\ local' = [local EXCEPT ![w] = @ \cup {c}] /\ inflight' = [inflight EXCEPT ![w] = @ - 1]
      /\ hand' = [hand EXCEPT ![a] = NoCo] /\ dest' = [dest EXCEPT ![a] = NoActor]
  BY DEF EnqueueInsert, Released
<1>4. PICK p \in {"publish", "rest", "run", "pick", "idle", "take", "pull"}, y \in Whys :
         /\ pc' = [pc EXCEPT ![a] = p] /\ why' = [why EXCEPT ![a] = y]
         /\ p = "publish" => y = why[a] /\ y \in {"regist", "registOn"} /\ todo' = [todo EXCEPT ![a] = {w}]
         /\ p # "publish" => why[a] \notin {"regist", "registOn"} /\ y # "regist" /\ todo' = todo
         /\ p \in {"rest", "run"} => why[a] = "activate" /\ p = Home(a)
         /\ p \in {"pick", "idle"} => why[a] = "ready" /\ y = "none"
         /\ p = "take" => why[a] = "steal" /\ y = "steal"
         /\ p = "pull" => why[a] \in Pulls /\ y = why[a]
  <2>1. why = [why EXCEPT ![a] = why[a]] /\ why[a] \in Whys
    BY <1>2 DEF TypeOK, ActorTypes
  <2> QED  BY <1>2, <2>1 DEF EnqueueInsert, Goto, Ends, Home, NextTurn, CallShape, Whys
<1>5. got' = got \/ (a \in Workers /\ got' = [got EXCEPT ![a] = TRUE])
  BY <1>2 DEF EnqueueInsert, CallShape
<1> HIDE DEF w, c
<1>6. /\ pc'[a] = p /\ why'[a] = y /\ hand'[a] = NoCo /\ dest'[a] = NoActor
      /\ OthersStay(a)
  BY <1>1, <1>2, <1>3, <1>4, <1>5 DEF OthersStay, TypeOK, ActorTypes
<1>7. InflightCounts' /\ inflight' \in [Workers -> Nat]
  BY <1>2, <1>3, <1>4, <1>6, InflightLeaves DEF w
<1>8. TypeOK'
  <2>1. LifeTypes' /\ QueueTypes' /\ CoTypes'
    BY <1>1, <1>2, <1>3, <1>7 DEF TypeOK, LifeTypes, QueueTypes, CoTypes, coVars
  <2>2. pc' \in [Actors -> WorkerPC \cup CallPC]
    BY <1>2, <1>4 DEF TypeOK, ActorTypes, WorkerPC, CallPC
  <2>3. why' \in [Actors -> Whys] /\ todo' \in [Actors -> SUBSET Workers]
    BY <1>2, <1>4 DEF TypeOK, ActorTypes
  <2>4. got' \in [Workers -> BOOLEAN]
    BY <1>2, <1>5 DEF TypeOK, ActorTypes
  <2>5. hand' \in [Actors -> Coroutines \cup {NoCo}] /\ dest' \in [Actors -> Workers \cup {NoActor}]
    BY <1>2, <1>3 DEF TypeOK, ActorTypes
  <2> QED  BY <2>1, <2>2, <2>3, <2>4, <2>5 DEF TypeOK, ActorTypes
<1>9. Shape'
  <2>1. CallShape(a)'
    BY <1>2, <1>4, <1>6 DEF CallShape, Home, CallPC
  <2>2. HandShape(a)'
    BY <1>4, <1>6 DEF HandShape
  <2>3. a \in Workers => RunShape(a)'
    BY <1>1, <1>2, <1>4, <1>6 DEF RunShape, CallPC, CallShape, Home
  <2> QED  BY <1>1, <1>6, <2>1, <2>2, <2>3, ShapeStep DEF GatesOpenOnce
<1>10. MapLock'
  <2>1. MapHeld(a)'
    BY <1>1, <1>2, <1>4, <1>6 DEF MapHeld
  <2> QED  BY <1>1, <1>6, <2>1, MapStep
<1>11. a \in Workers => ~Drained(a)' /\ ~Emptied(a)' /\ ~Drained(a)
  BY <1>2, <1>4, <1>6 DEF Drained, Emptied
<1>12. Lifecycle'
  BY <1>1, <1>2, <1>4, <1>6, <1>11, LifeStep DEF lifeVars
<1>13. DrainHolds'
  <2>1. \A v \in Workers : Emptied(v) => v # w
    <3>1. \A v \in Workers : Emptied(v) => Drained(v)
      BY DEF Emptied, Drained
    <3> QED  BY <1>2, <3>1 DEF ProcInv, DrainHolds, w
  <2>2. \A v \in Workers : Emptied(v) => local'[v] = local[v]
    BY <1>2, <1>3, <2>1 DEF TypeOK, QueueTypes
  <2> QED  BY <1>4, <1>6, <1>11, <2>2, DrainStep
<1>14. InOnePlace'
  <2>1. In(c, "hand", a) /\ a \in Owners /\ w \in Owners /\ "hand" \in Kinds /\ "local" \in Kinds
    BY <1>2 DEF In, Owners, Kinds, c
  <2>2. Moved(c, "hand", a, "local", w)
    BY <1>1, <1>2, <1>3 DEF Moved, In, Kinds, coVars, TypeOK, QueueTypes, ActorTypes, c
  <2> QED  BY <1>2, <2>1, <2>2, PlaceMoved
<1>15. LocalAnnounced'
  <2>1. \A v \in Workers : ~Announces(a, v)
    BY <1>2 DEF Announces
  <2>2. ASSUME NEW v \in Workers \ {a}, local'[v] # {}
        PROVE  local[v] # {} \/ Announces(a, v)'
    <3>1. CASE v # w
      BY <1>2, <1>3, <2>2, <3>1 DEF TypeOK, QueueTypes
    <3>2. CASE v = w
      <4>1. why[a] \in {"regist", "registOn"}
        BY <1>2, <2>2, <3>2
      <4>2. p = "publish" /\ todo'[a] = {w}
        BY <1>2, <1>4, <4>1 DEF TypeOK, ActorTypes
      <4> QED  BY <1>6, <3>2, <4>2 DEF Announces
    <3> QED  BY <3>1, <3>2
  <2> QED  BY <1>1, <1>4, <1>6, <2>1, <2>2, AnnounceStep
<1>16. GlobalCovered'
  <2>1. a \in Workers /\ p # "publish" => Covers(a)'
    BY <1>1, <1>2, <1>4, <1>6, Awake DEF lifeVars
  <2>2. a \in Workers /\ p = "publish" => Covers(a)'
    <3> SUFFICES ASSUME a \in Workers, p = "publish" PROVE Covers(a)'
      OBVIOUS
    <3>1. ~Emptied(a)' /\ pc'[a] = "publish"
      BY <1>4, <1>6 DEF Emptied
    <3>2. a \in snapshot \/ ~admission[a]
      BY <1>2, ActorShapes
    <3> QED  BY <1>1, <1>2, <3>1, <3>2 DEF Covers, WillLook, Sleeping, Closing
  <2>3. a \notin Workers => ~Covers(a)
    BY <1>2 DEF Covers, WillNotify
  <2>4. \A v \in Workers : local[v] # {} => local'[v] # {}
    BY <1>2, <1>3 DEF TypeOK, QueueTypes
  <2> QED  BY <1>1, <1>6, <2>1, <2>2, <2>3, <2>4, CoverStep DEF lifeVars
<1> QED  BY <1>7, <1>8, <1>9, <1>10, <1>12, <1>13, <1>14, <1>15, <1>16 DEF ProcInv

-----------------------------------------------------------------------------
(* Coroutines change hands.                                                 *)

\* A step that fills no local queue, notifies nobody and resizes nothing.
LEMMA HandOver ==
    ASSUME ProcInv, NEW a \in Actors, OthersStay(a), UNCHANGED <<lifeVars, inflight, pending>>,
           mmutex' = mmutex \/ mmutex \in {a, NoActor},
           pc[a] \notin {"retiring", "recheck", "insert", "publish", "gate", "exited"},
           pc'[a] \notin {"retiring", "recheck", "insert", "asleep", "drain"},
           CallShape(a)', HandShape(a)', a \in Workers => RunShape(a)', MapHeld(a)',
           \A w \in Workers : local'[w] \subseteq local[w],
           \A w \in Workers \ {a} : local[w] # {} => local'[w] # {} \/ Covers(a)',
           a \in Workers /\ Drained(a)' => retire[a] /\ (Drained(a) \/ inflight[a] = 0),
           a \in Workers /\ Emptied(a)' => local'[a] = {},
           global' # {} => Covers(a)' \/ (global # {} /\ ~Covers(a)),
           InOnePlace', TypeOK'
    PROVE  ProcInv'
<1>1. /\ life' = life /\ admission' = admission /\ retire' = retire /\ snapshot' = snapshot
      /\ inflight' = inflight /\ pending' = pending
  BY DEF lifeVars
<1>2. a \in Workers => life[a] \in {"Active", "Retiring"}
  BY ActorShapes
<1>3. Shape'
  BY <1>1, ShapeStep DEF GatesOpenOnce
<1>4. MapLock'
  BY <1>1, MapStep
<1>5. Lifecycle'
  BY <1>2, LifeStep
<1>6. InflightCounts'
  BY <1>1, InflightStep
<1>7. DrainHolds'
  BY DrainStep
<1>8. LocalAnnounced'
  <2>1. \A v \in Workers : ~Announces(a, v)
    BY DEF Announces
  <2> QED  BY <1>1, <2>1, AnnounceStep
<1>9. GlobalCovered'
  BY <1>1, CoverStep
<1> QED  BY <1>3, <1>4, <1>5, <1>6, <1>7, <1>8, <1>9 DEF ProcInv

\* A refusal: the load balancer never meets one; a targeted task is rejected, and
\* everything else goes to the global queue.
LEMMA RefusedInv ==
    ASSUME ProcInv, NEW a \in Actors, EnqueueRefused(a)
    PROVE  ProcInv'
<1> DEFINE c == hand[a]
<1>1. /\ life' = life /\ admission' = admission /\ retire' = retire /\ snapshot' = snapshot
      /\ inflight' = inflight /\ local' = local /\ runLock' = runLock
      /\ steals' = steals /\ pending' = pending /\ running' = running /\ fresh' = fresh
      /\ parked' = parked /\ done' = done /\ got' = got
  BY DEF EnqueueRefused, lifeVars
<1>2. /\ TypeOK /\ CallShape(a) /\ HandShape(a) /\ MapHeld(a) /\ a # NoActor
      /\ a \in Workers => RunShape(a) /\ LifeShape(a) /\ life[a] \in {"Active", "Retiring"}
      /\ a \in Threads => a \notin Workers
      /\ pc[a] = "refused"
  BY ActorShapes DEF EnqueueRefused
<1>3. /\ c \in Coroutines /\ why[a] # "regist" /\ ~admission[dest[a]]
      /\ why[a] # "registOn" => dest[a] = a /\ a \in Workers
      /\ why[a] \in Pulls => AfterPull(a) = (IF why[a] = "pull" THEN "pick"
                                             ELSE IF why[a] = "check" THEN "fair" ELSE "decide")
  BY <1>2 DEF HandShape, MapHeld, TypeOK, ActorTypes, AfterPull
<1>4. PICK p \in {"rest", "run", "toglobal", "pick", "fair", "decide"}, y \in Whys :
         /\ pc' = [pc EXCEPT ![a] = p] /\ why' = [why EXCEPT ![a] = y]
         /\ dest' = [dest EXCEPT ![a] = NoActor] /\ todo' = todo /\ mmutex' = mmutex
         /\ gmutex' \in {gmutex, NoActor}
         /\ p \in {"rest", "run"} =>
               /\ why[a] = "registOn" /\ y = "none" /\ p = Home(a) /\ global' = global
               /\ rejected' = rejected \cup {c} /\ hand' = [hand EXCEPT ![a] = NoCo]
         /\ p = "toglobal" =>
               /\ why[a] \in {"activate", "ready", "steal"} /\ y = why[a]
               /\ hand' = hand /\ global' = global /\ rejected' = rejected
         /\ p \in {"pick", "fair", "decide"} =>
               /\ why[a] \in Pulls /\ y = why[a] /\ global' = global \cup {c}
               /\ rejected' = rejected /\ hand' = [hand EXCEPT ![a] = NoCo]
  <2>1. why = [why EXCEPT ![a] = why[a]] /\ why[a] \in Whys /\ "none" \in Whys
    BY <1>2 DEF TypeOK, ActorTypes, Whys
  <2> HIDE DEF c
  <2>2. CASE why[a] = "registOn"
    BY <1>3, <2>1, <2>2 DEF EnqueueRefused, Goto, Ends, Home, c
  <2>3. CASE why[a] \in {"activate", "ready", "steal"}
    BY <1>3, <2>1, <2>3 DEF EnqueueRefused, Goto, c
  <2>4. CASE why[a] \in Pulls
    BY <1>3, <2>1, <2>4 DEF EnqueueRefused, Goto, GivenBack, c
  <2> QED  BY <1>2, <1>3, <2>2, <2>3, <2>4 DEF CallShape
<1> HIDE DEF c
<1>5. /\ pc'[a] = p /\ why'[a] = y /\ OthersStay(a)
      /\ p = "toglobal" => hand'[a] # NoCo
      /\ p # "toglobal" => hand'[a] = NoCo
  BY <1>1, <1>2, <1>3, <1>4 DEF OthersStay, TypeOK, ActorTypes, c
<1>6. TypeOK'
  <2>1. LifeTypes' /\ QueueTypes' /\ CoTypes'
    BY <1>1, <1>2, <1>3, <1>4 DEF TypeOK, LifeTypes, QueueTypes, CoTypes
  <2>2. pc' \in [Actors -> WorkerPC \cup CallPC] /\ why' \in [Actors -> Whys]
    BY <1>2, <1>4 DEF TypeOK, ActorTypes, WorkerPC, CallPC
  <2>3. hand' \in [Actors -> Coroutines \cup {NoCo}] /\ dest' \in [Actors -> Workers \cup {NoActor}]
    BY <1>2, <1>4 DEF TypeOK, ActorTypes
  <2> QED  BY <1>1, <1>2, <1>4, <2>1, <2>2, <2>3 DEF TypeOK, ActorTypes
<1>7. CallShape(a)' /\ HandShape(a)' /\ MapHeld(a)' /\ (a \in Workers => RunShape(a)')
  <2>1. CallShape(a)'
    BY <1>2, <1>3, <1>4, <1>5 DEF CallShape, Home, CallPC
  <2>2. HandShape(a)' /\ MapHeld(a)'
    BY <1>3, <1>4, <1>5 DEF HandShape, MapHeld
  <2>3. a \in Workers => RunShape(a)'
    BY <1>1, <1>2, <1>4, <1>5 DEF RunShape, CallPC, Home
  <2> QED  BY <2>1, <2>2, <2>3
<1>8. InOnePlace'
  <2>1. /\ In(c, "hand", a) /\ a \in Owners /\ NoActor \in Owners
        /\ "hand" \in Kinds /\ "global" \in Kinds /\ "rejected" \in Kinds
    BY <1>3 DEF In, Owners, Kinds, c
  <2>2. CASE p \in {"rest", "run"}
    <3>1. Moved(c, "hand", a, "rejected", NoActor)
      BY <1>1, <1>2, <1>3, <1>4, <2>2 DEF Moved, In, Kinds, TypeOK, ActorTypes, c
    <3> QED  BY <1>3, <2>1, <3>1, PlaceMoved
  <2>3. CASE p = "toglobal"
    BY <1>1, <1>4, <2>3, PlacesKept DEF coVars
  <2>4. CASE p \in {"pick", "fair", "decide"}
    <3>1. Moved(c, "hand", a, "global", NoActor)
      BY <1>1, <1>2, <1>3, <1>4, <2>4 DEF Moved, In, Kinds, TypeOK, ActorTypes, c
    <3> QED  BY <1>3, <2>1, <3>1, PlaceMoved
  <2> QED  BY <2>2, <2>3, <2>4
<1>9. /\ a \in Workers => ~Drained(a)' /\ ~Emptied(a)'
      /\ a \in Workers => Covers(a)'
      /\ a \notin Workers => global' = global /\ ~Covers(a)
  <2>1. a \in Workers => ~Drained(a)' /\ ~Emptied(a)'
    BY <1>2, <1>4, <1>5 DEF Drained, Emptied
  <2>2. a \in Workers /\ p # "decide" => Covers(a)'
    BY <1>1, <1>2, <1>4, <1>5, Awake DEF lifeVars
  <2>3. a \in Workers /\ p = "decide" => Closing(a)'
    BY <1>1, <1>2, <1>3, <1>4, <2>1 DEF Closing
  <2>4. a \notin Workers => ~Covers(a) /\ global' = global
    BY <1>2, <1>3, <1>4 DEF Covers, WillNotify
  <2> QED  BY <2>1, <2>2, <2>3, <2>4 DEF Covers
<1> QED  BY <1>1, <1>2, <1>4, <1>5, <1>6, <1>7, <1>8, <1>9, HandOver DEF lifeVars

\* A refused or balanced coroutine goes to the global queue.
LEMMA GlobalInv ==
    ASSUME ProcInv, NEW a \in Actors, EnqueueGlobal(a)
    PROVE  ProcInv'
<1> DEFINE c == hand[a]
<1>1. /\ life' = life /\ admission' = admission /\ retire' = retire /\ snapshot' = snapshot
      /\ inflight' = inflight /\ local' = local /\ runLock' = runLock /\ gmutex' = gmutex
      /\ mmutex' = mmutex /\ steals' = steals /\ pending' = pending /\ UNCHANGED coVars
      /\ why' = why /\ dest' = dest /\ got' = got /\ running' = running
  BY DEF EnqueueGlobal, lifeVars, lockVars, coVars
<1>2. /\ TypeOK /\ CallShape(a) /\ HandShape(a) /\ MapHeld(a) /\ a # NoActor
      /\ a \in Workers => RunShape(a) /\ LifeShape(a) /\ life[a] \in {"Active", "Retiring"}
      /\ a \in Threads => a \notin Workers
      /\ pc[a] = "toglobal"
  BY ActorShapes DEF EnqueueGlobal
<1>3. c \in Coroutines
  BY <1>2 DEF HandShape, TypeOK, ActorTypes
<1>4. PICK p \in {"loop", "steal", "draining", "broadcast"} :
         /\ pc' = [pc EXCEPT ![a] = p] /\ todo' = [todo EXCEPT ![a] = {}]
         /\ global' = global \cup {c} /\ hand' = [hand EXCEPT ![a] = NoCo]
         /\ p \in {"loop", "steal"} => why[a] = "steal"
         /\ p = "draining" <=> why[a] = "retire"
         /\ p = "broadcast" => why[a] \in {"activate", "ready"}
  BY <1>2 DEF EnqueueGlobal, Goto, CallShape
<1> HIDE DEF c
<1>5. pc'[a] = p /\ OthersStay(a) /\ hand'[a] = NoCo
  BY <1>1, <1>2, <1>4 DEF OthersStay, TypeOK, ActorTypes, coVars
<1>6. TypeOK'
  <2>1. LifeTypes' /\ QueueTypes' /\ CoTypes'
    BY <1>1, <1>2, <1>3, <1>4 DEF TypeOK, LifeTypes, QueueTypes, CoTypes, coVars
  <2>2. pc' \in [Actors -> WorkerPC \cup CallPC]
    BY <1>2, <1>4 DEF TypeOK, ActorTypes, WorkerPC, CallPC
  <2>3. hand' \in [Actors -> Coroutines \cup {NoCo}] /\ todo' \in [Actors -> SUBSET Workers]
    BY <1>2, <1>4 DEF TypeOK, ActorTypes
  <2> QED  BY <1>1, <1>2, <2>1, <2>2, <2>3 DEF TypeOK, ActorTypes
<1>7. CallShape(a)' /\ HandShape(a)' /\ MapHeld(a)' /\ (a \in Workers => RunShape(a)')
  BY <1>1, <1>2, <1>4, <1>5 DEF CallShape, HandShape, MapHeld, RunShape, CallPC
<1>8. InOnePlace'
  <2>1. /\ In(c, "hand", a) /\ a \in Owners /\ NoActor \in Owners
        /\ "hand" \in Kinds /\ "global" \in Kinds
    BY <1>3 DEF In, Owners, Kinds, c
  <2>2. Moved(c, "hand", a, "global", NoActor)
    BY <1>1, <1>2, <1>3, <1>4 DEF Moved, In, Kinds, coVars, TypeOK, ActorTypes, c
  <2> QED  BY <1>3, <2>1, <2>2, PlaceMoved
<1>9. /\ a \in Workers /\ Drained(a)' => retire[a] /\ Drained(a)
      /\ a \in Workers => ~Emptied(a)'
      /\ Covers(a)'
  <2>1. a \in Workers => /\ Drained(a)' => retire[a] /\ Drained(a)
                         /\ ~Emptied(a)'
    BY <1>1, <1>2, <1>4, <1>5 DEF Drained, Emptied, LifeShape
  <2>2. p = "broadcast" => Covers(a)'
    BY <1>5 DEF Covers, WillNotify
  <2>3. p # "broadcast" => a \in Workers
    BY <1>2, <1>4 DEF CallShape
  <2>4. p # "broadcast" => Covers(a)'
    BY <1>1, <1>2, <1>4, <1>5, <2>3, Awake DEF lifeVars
  <2> QED  BY <2>1, <2>2, <2>4
<1> QED  BY <1>1, <1>2, <1>4, <1>5, <1>6, <1>7, <1>8, <1>9, HandOver DEF lifeVars

\* Whoever filled the global queue notifies the workers.
LEMMA BroadcastInv ==
    ASSUME ProcInv, NEW a \in Actors, Broadcast(a)
    PROVE  ProcInv'
<1>1. /\ life' = life /\ admission' = admission /\ retire' = retire /\ snapshot' = snapshot
      /\ inflight' = inflight /\ local' = local /\ global' = global /\ runLock' = runLock
      /\ gmutex' = gmutex /\ mmutex' = mmutex /\ steals' = steals /\ pending' = pending
      /\ why' = why /\ hand' = hand /\ dest' = dest /\ got' = got /\ UNCHANGED coVars
      /\ running' = running
  BY DEF Broadcast, lifeVars, queueVars, lockVars, coVars
<1>2. /\ TypeOK /\ CallShape(a) /\ HandShape(a) /\ MapHeld(a)
      /\ a \in Workers => RunShape(a) /\ LifeShape(a)
      /\ pc[a] = "broadcast" /\ pc' = [pc EXCEPT ![a] = "publish"]
      /\ todo' = [todo EXCEPT ![a] = snapshot]
  BY ActorShapes DEF Broadcast, Goto
<1>3. pc'[a] = "publish" /\ todo'[a] = snapshot /\ OthersStay(a)
  BY <1>1, <1>2 DEF OthersStay, TypeOK, ActorTypes, coVars
<1>4. TypeOK'
  <2>1. LifeTypes' /\ QueueTypes' /\ CoTypes'
    BY <1>1, <1>2 DEF TypeOK, LifeTypes, QueueTypes, CoTypes, coVars
  <2>2. pc' \in [Actors -> WorkerPC \cup CallPC] /\ todo' \in [Actors -> SUBSET Workers]
    BY <1>2 DEF TypeOK, LifeTypes, ActorTypes, CallPC
  <2> QED  BY <1>1, <1>2, <2>1, <2>2 DEF TypeOK, ActorTypes
<1>5. CallShape(a)' /\ HandShape(a)' /\ MapHeld(a)' /\ (a \in Workers => RunShape(a)')
  BY <1>1, <1>2, <1>3 DEF CallShape, HandShape, MapHeld, RunShape, CallPC
<1>6. InOnePlace'
  BY <1>1, PlacesKept
<1>7. /\ a \in Workers /\ Drained(a)' => retire[a] /\ Drained(a)
      /\ a \in Workers /\ Emptied(a)' => local'[a] = {}
  BY <1>1, <1>2, <1>3 DEF Drained, Emptied, LifeShape, ProcInv, DrainHolds
<1>8. Covers(a)'
  BY <1>1, <1>3 DEF Covers, WillNotify, ProcInv, Lifecycle
<1> QED  BY <1>1, <1>2, <1>3, <1>4, <1>5, <1>6, <1>7, <1>8, HandOver DEF lifeVars

\* RegistCoroutineTask and RegistCoroutineTaskOn choose a worker of the snapshot.
LEMMA RegistInv ==
    ASSUME ProcInv, NEW a \in Actors, NEW c \in Coroutines,
           Regist(a, c) \/ \E w \in Workers : RegistOn(a, c, w)
    PROVE  ProcInv'
<1>1. /\ life' = life /\ admission' = admission /\ retire' = retire /\ snapshot' = snapshot
      /\ inflight' = inflight /\ local' = local /\ global' = global /\ runLock' = runLock
      /\ steals' = steals /\ pending' = pending /\ got' = got /\ running' = running
      /\ parked' = parked /\ done' = done /\ rejected' = rejected /\ mmutex = NoActor
      /\ pc[a] \in {"rest", "run"} /\ c \in fresh /\ gmutex' = a /\ fresh' = fresh \ {c}
      /\ hand' = [hand EXCEPT ![a] = c] /\ pc' = [pc EXCEPT ![a] = "check"]
  BY DEF Regist, RegistOn, InUserCode, Goto, lifeVars, queueVars
<1>2. /\ TypeOK /\ CallShape(a) /\ HandShape(a) /\ MapHeld(a) /\ a # NoActor
      /\ a \in Workers => RunShape(a) /\ LifeShape(a) /\ life[a] \in {"Active", "Retiring"}
      /\ a \in Threads => a \notin Workers
  BY <1>1, ActorShapes
<1>3. PICK w \in snapshot, y \in {"regist", "registOn"} :
         /\ dest' = [dest EXCEPT ![a] = w] /\ why' = [why EXCEPT ![a] = y]
         /\ y = "regist" => mmutex' = a
         /\ todo' = todo \/ todo' = [todo EXCEPT ![a] = snapshot \ {w}]
         /\ mmutex' \in {mmutex, a}
  BY DEF Regist, RegistOn
<1>4. /\ w \in Workers /\ life[w] = "Active"
      /\ admission[w]
  <2>1. w \in Workers /\ LifeShape(w)
    BY <1>2, <1>3 DEF TypeOK, LifeTypes, ProcInv, Lifecycle
  <2>2. \A b \in Actors : pc[b] # "retiring"
    BY <1>1 DEF ProcInv, MapLock, MapHeld
  <2> QED  BY <1>3, <2>1, <2>2 DEF LifeShape
<1>5. /\ pc'[a] = "check" /\ why'[a] = y /\ dest'[a] = w /\ hand'[a] = c /\ OthersStay(a)
  BY <1>1, <1>2, <1>3 DEF OthersStay, TypeOK, ActorTypes
<1>6. TypeOK'
  <2>1. LifeTypes' /\ QueueTypes' /\ CoTypes'
    BY <1>1, <1>2, <1>3 DEF TypeOK, LifeTypes, QueueTypes, CoTypes
  <2>2. pc' \in [Actors -> WorkerPC \cup CallPC] /\ why' \in [Actors -> Whys]
    BY <1>1, <1>2, <1>3 DEF TypeOK, ActorTypes, CallPC, Whys
  <2>3. hand' \in [Actors -> Coroutines \cup {NoCo}] /\ dest' \in [Actors -> Workers \cup {NoActor}]
    BY <1>1, <1>2, <1>3, <1>4 DEF TypeOK, ActorTypes
  <2>4. todo' \in [Actors -> SUBSET Workers]
    BY <1>2, <1>3 DEF TypeOK, ActorTypes, LifeTypes
  <2> QED  BY <1>1, <1>2, <2>1, <2>2, <2>3, <2>4 DEF TypeOK, ActorTypes
<1>7. CallShape(a)' /\ HandShape(a)' /\ MapHeld(a)' /\ (a \in Workers => RunShape(a)')
  <2>1. CallShape(a)' /\ MapHeld(a)'
    BY <1>1, <1>3, <1>4, <1>5 DEF CallShape, MapHeld, CallPC
  <2>2. HandShape(a)'
    BY <1>1, <1>3, <1>4, <1>5 DEF HandShape
  <2>3. a \in Workers => RunShape(a)'
    BY <1>1, <1>2, <1>3, <1>5 DEF RunShape, CallPC, CallShape
  <2> QED  BY <2>1, <2>2, <2>3
<1>8. InOnePlace'
  <2>1. /\ In(c, "fresh", NoActor) /\ a \in Owners /\ NoActor \in Owners
        /\ "hand" \in Kinds /\ "fresh" \in Kinds
    BY <1>1 DEF In, Owners, Kinds
  <2>2. hand[a] = NoCo
    BY <1>1, <1>2 DEF HandShape
  <2>3. Moved(c, "fresh", NoActor, "hand", a)
    BY <1>1, <1>2, <2>2 DEF Moved, In, Kinds, TypeOK, ActorTypes
  <2> QED  BY <2>1, <2>3, PlaceMoved
<1>9. /\ a \in Workers => ~Drained(a)' /\ ~Emptied(a)' /\ Covers(a)'
      /\ a \notin Workers => ~Covers(a)
  <2>1. a \in Workers => ~Drained(a)' /\ ~Emptied(a)'
    BY <1>5 DEF Drained, Emptied
  <2>2. a \in Workers => Covers(a)'
    BY <1>1, <1>5, Awake DEF lifeVars
  <2> QED  BY <1>1, <2>1, <2>2 DEF Covers, WillNotify
<1> QED  BY <1>1, <1>2, <1>3, <1>5, <1>6, <1>7, <1>8, <1>9, HandOver DEF lifeVars

\* OnActiveCoroutine takes up a parked coroutine.
LEMMA ActivateInv ==
    ASSUME ProcInv, NEW a \in Actors, NEW c \in Coroutines, Activate(a, c)
    PROVE  ProcInv'
<1>1. /\ life' = life /\ admission' = admission /\ retire' = retire /\ snapshot' = snapshot
      /\ inflight' = inflight /\ local' = local /\ global' = global /\ runLock' = runLock
      /\ gmutex' = gmutex /\ mmutex' = mmutex /\ todo' = todo
      /\ steals' = steals /\ pending' = pending /\ got' = got /\ running' = running
      /\ fresh' = fresh /\ done' = done /\ rejected' = rejected
      /\ pc[a] \in {"rest", "run"} /\ c \in parked /\ parked' = parked \ {c}
      /\ hand' = [hand EXCEPT ![a] = c] /\ why' = [why EXCEPT ![a] = "activate"]
  BY DEF Activate, InUserCode, Goto, lifeVars, queueVars, lockVars
<1>2. /\ TypeOK /\ CallShape(a) /\ HandShape(a) /\ MapHeld(a) /\ a # NoActor
      /\ a \in Workers => RunShape(a) /\ LifeShape(a) /\ life[a] \in {"Active", "Retiring"}
      /\ a \in Threads => a \notin Workers
  BY <1>1, ActorShapes
<1>3. PICK p \in {"check", "toglobal"} :
         /\ pc' = [pc EXCEPT ![a] = p]
         /\ p = "check" => a \in Workers /\ dest' = [dest EXCEPT ![a] = a]
         /\ p = "toglobal" => a \in Threads /\ dest' = dest
  BY DEF Activate, Goto
<1>5. /\ pc'[a] = p /\ why'[a] = "activate" /\ hand'[a] = c /\ OthersStay(a)
      /\ p = "check" => dest'[a] = a
  BY <1>1, <1>2, <1>3 DEF OthersStay, TypeOK, ActorTypes
<1>6. TypeOK'
  <2>1. LifeTypes' /\ QueueTypes' /\ CoTypes'
    BY <1>1, <1>2, <1>3 DEF TypeOK, LifeTypes, QueueTypes, CoTypes
  <2>2. pc' \in [Actors -> WorkerPC \cup CallPC] /\ why' \in [Actors -> Whys]
    BY <1>1, <1>2, <1>3 DEF TypeOK, ActorTypes, CallPC, Whys
  <2>3. hand' \in [Actors -> Coroutines \cup {NoCo}] /\ dest' \in [Actors -> Workers \cup {NoActor}]
    BY <1>1, <1>2, <1>3 DEF TypeOK, ActorTypes
  <2> QED  BY <1>1, <1>2, <2>1, <2>2, <2>3 DEF TypeOK, ActorTypes
<1>7. CallShape(a)' /\ HandShape(a)' /\ MapHeld(a)' /\ (a \in Workers => RunShape(a)')
  <2>1. CallShape(a)' /\ MapHeld(a)'
    BY <1>1, <1>2, <1>3, <1>5 DEF CallShape, MapHeld, CallPC
  <2>2. HandShape(a)'
    BY <1>1, <1>2, <1>3, <1>5 DEF HandShape
  <2>3. a \in Workers => RunShape(a)'
    BY <1>1, <1>2, <1>3, <1>5 DEF RunShape, CallPC, CallShape
  <2> QED  BY <2>1, <2>2, <2>3
<1>8. InOnePlace'
  <2>1. /\ In(c, "parked", NoActor) /\ a \in Owners /\ NoActor \in Owners
        /\ "hand" \in Kinds /\ "parked" \in Kinds
    BY <1>1 DEF In, Owners, Kinds
  <2>2. hand[a] = NoCo
    BY <1>1, <1>2 DEF HandShape
  <2>3. Moved(c, "parked", NoActor, "hand", a)
    BY <1>1, <1>2, <2>2 DEF Moved, In, Kinds, TypeOK, ActorTypes
  <2> QED  BY <2>1, <2>3, PlaceMoved
<1>9. /\ a \in Workers => ~Drained(a)' /\ ~Emptied(a)' /\ Covers(a)'
      /\ a \notin Workers => ~Covers(a)
  <2>1. a \in Workers => ~Drained(a)' /\ ~Emptied(a)'
    BY <1>3, <1>5 DEF Drained, Emptied
  <2>2. a \in Workers => Covers(a)'
    BY <1>1, <1>5, Awake DEF lifeVars
  <2> QED  BY <1>1, <2>1, <2>2 DEF Covers, WillNotify
<1> QED  BY <1>1, <1>2, <1>3, <1>5, <1>6, <1>7, <1>8, <1>9, HandOver DEF lifeVars

\* A worker has taken a coroutine out of a queue, or back from its user code, and is
\* about to enqueue it with itself.
LEMMA OwnEnqueue ==
    ASSUME ProcInv, NEW w \in Workers, NEW c \in Coroutines, OthersStay(w),
           UNCHANGED <<lifeVars, inflight, pending, mmutex>>,
           pc[w] \in {"pull", "take", "run"}, pc'[w] = "check", dest'[w] = w, hand'[w] = c,
           why'[w] \in {"ready", "steal"} \cup Pulls, running'[w] = NoCo,
           \A v \in Workers : local'[v] \subseteq local[v],
           InOnePlace', TypeOK'
    PROVE  ProcInv'
<1>1. /\ life' = life /\ inflight' = inflight /\ mmutex' = mmutex /\ pending' = pending
  BY DEF lifeVars
<1>2. life[w] \in {"Active", "Retiring"} /\ w \in Actors
  BY ActorShapes
<1>3. CallShape(w)' /\ HandShape(w)' /\ MapHeld(w)' /\ RunShape(w)'
  BY <1>1, <1>2 DEF CallShape, HandShape, MapHeld, RunShape, CallPC
<1>4. ~Drained(w)' /\ ~Emptied(w)' /\ Covers(w)'
  BY Awake DEF Drained, Emptied
<1> QED  BY <1>1, <1>2, <1>3, <1>4, HandOver

\* A worker pulls one coroutine from the global queue.
LEMMA PullOneInv ==
    ASSUME ProcInv, NEW w \in Workers, NEW c \in Coroutines, PullOne(w, c)
    PROVE  ProcInv'
<1>1. /\ UNCHANGED lifeVars /\ inflight' = inflight /\ pending' = pending /\ mmutex' = mmutex
      /\ local' = local /\ runLock' = runLock /\ gmutex' = gmutex /\ steals' = steals
      /\ why' = why /\ todo' = todo /\ got' = got /\ running' = running /\ fresh' = fresh
      /\ parked' = parked /\ done' = done /\ rejected' = rejected
      /\ pc[w] = "pull" /\ c \in global /\ global' = global \ {c}
      /\ hand' = [hand EXCEPT ![w] = c] /\ dest' = [dest EXCEPT ![w] = w]
      /\ pc' = [pc EXCEPT ![w] = "check"]
  BY DEF PullOne, Goto, lockVars, coVars
<1>2. TypeOK /\ why[w] \in Pulls /\ hand[w] = NoCo /\ running[w] = NoCo /\ w \in Actors
  BY <1>1, ActorShapes DEF CallShape, HandShape, RunShape, CallPC
<1>3. OthersStay(w) /\ pc'[w] = "check" /\ dest'[w] = w /\ hand'[w] = c
  BY <1>1, <1>2 DEF OthersStay, TypeOK, ActorTypes
<1>4. TypeOK'
  <2>1. LifeTypes' /\ QueueTypes' /\ CoTypes'
    BY <1>1, <1>2 DEF TypeOK, LifeTypes, QueueTypes, CoTypes, lifeVars
  <2>2. ActorTypes'
    BY <1>1, <1>2 DEF TypeOK, ActorTypes, CallPC
  <2> QED  BY <2>1, <2>2 DEF TypeOK
<1>5. InOnePlace'
  <2>1. /\ In(c, "global", NoActor) /\ w \in Owners /\ NoActor \in Owners
        /\ "hand" \in Kinds /\ "global" \in Kinds
    BY <1>1 DEF In, Owners, Kinds
  <2>2. Moved(c, "global", NoActor, "hand", w)
    BY <1>1, <1>2 DEF Moved, In, Kinds, TypeOK, ActorTypes
  <2> QED  BY <2>1, <2>2, PlaceMoved
<1> QED  BY <1>1, <1>2, <1>3, <1>4, <1>5, OwnEnqueue

\* A thief takes a coroutine from its victim.
LEMMA TakeInv ==
    ASSUME ProcInv, NEW w \in Workers, NEW v \in Workers, NEW c \in Coroutines, Take(w, v, c)
    PROVE  ProcInv'
<1>1. /\ UNCHANGED lifeVars /\ inflight' = inflight /\ pending' = pending /\ mmutex' = mmutex
      /\ global' = global /\ runLock' = runLock /\ gmutex' = gmutex
      /\ why' = why /\ todo' = todo /\ got' = got /\ running' = running /\ fresh' = fresh
      /\ parked' = parked /\ done' = done /\ rejected' = rejected
      /\ pc[w] = "take" /\ c \in local[v] /\ local' = [local EXCEPT ![v] = @ \ {c}]
      /\ hand' = [hand EXCEPT ![w] = c] /\ dest' = [dest EXCEPT ![w] = w]
      /\ pc' = [pc EXCEPT ![w] = "check"] /\ steals < MaxSteals /\ steals' = steals + 1
  BY DEF Take, Goto, lockVars, coVars
<1>2. TypeOK /\ why[w] = "steal" /\ hand[w] = NoCo /\ running[w] = NoCo /\ w \in Actors
  BY <1>1, ActorShapes DEF CallShape, HandShape, RunShape, CallPC
<1>3. OthersStay(w) /\ pc'[w] = "check" /\ dest'[w] = w /\ hand'[w] = c
  BY <1>1, <1>2 DEF OthersStay, TypeOK, ActorTypes
<1>4. TypeOK'
  <2>1. LifeTypes' /\ QueueTypes' /\ CoTypes'
    BY <1>1, <1>2 DEF TypeOK, LifeTypes, QueueTypes, CoTypes, lifeVars
  <2>2. ActorTypes'
    BY <1>1, <1>2 DEF TypeOK, ActorTypes, CallPC
  <2> QED  BY <2>1, <2>2 DEF TypeOK
<1>5. InOnePlace'
  <2>1. /\ In(c, "local", v) /\ w \in Owners /\ v \in Owners
        /\ "hand" \in Kinds /\ "local" \in Kinds
    BY <1>1 DEF In, Owners, Kinds
  <2>2. Moved(c, "local", v, "hand", w)
    BY <1>1, <1>2 DEF Moved, In, Kinds, TypeOK, QueueTypes, ActorTypes
  <2> QED  BY <2>1, <2>2, PlaceMoved
<1>6. \A u \in Workers : local'[u] \subseteq local[u]
  BY <1>1, <1>2 DEF TypeOK, QueueTypes
<1> QED  BY <1>1, <1>2, <1>3, <1>4, <1>5, <1>6, OwnEnqueue

\* The running coroutine yields and stays runnable.
LEMMA YieldReadyInv ==
    ASSUME ProcInv, NEW w \in Workers, YieldReady(w)
    PROVE  ProcInv'
<1> DEFINE c == running[w]
<1>1. /\ UNCHANGED lifeVars /\ inflight' = inflight /\ pending' = pending /\ mmutex' = mmutex
      /\ local' = local /\ global' = global /\ runLock' = runLock /\ gmutex' = gmutex
      /\ todo' = todo /\ got' = got /\ fresh' = fresh /\ parked' = parked /\ done' = done
      /\ rejected' = rejected /\ steals' = steals /\ pc[w] = "run"
      /\ hand' = [hand EXCEPT ![w] = c] /\ running' = [running EXCEPT ![w] = NoCo]
      /\ dest' = [dest EXCEPT ![w] = w] /\ why' = [why EXCEPT ![w] = "ready"]
      /\ pc' = [pc EXCEPT ![w] = "check"]
  BY DEF YieldReady, Goto, lockVars, queueVars
<1>2. TypeOK /\ hand[w] = NoCo /\ c \in Coroutines /\ w \in Actors
  BY <1>1, ActorShapes DEF HandShape, RunShape, TypeOK, CoTypes
<1>3. /\ OthersStay(w) /\ pc'[w] = "check" /\ dest'[w] = w /\ hand'[w] = c
      /\ why'[w] = "ready" /\ running'[w] = NoCo
  BY <1>1, <1>2 DEF OthersStay, TypeOK, ActorTypes, CoTypes
<1> HIDE DEF c
<1>4. TypeOK'
  <2>1. LifeTypes' /\ QueueTypes' /\ CoTypes'
    BY <1>1, <1>2 DEF TypeOK, LifeTypes, QueueTypes, CoTypes, lifeVars
  <2>2. ActorTypes'
    BY <1>1, <1>2 DEF TypeOK, ActorTypes, CallPC, Whys
  <2> QED  BY <2>1, <2>2 DEF TypeOK
<1>5. InOnePlace'
  <2>1. /\ In(c, "running", w) /\ w \in Owners
        /\ "hand" \in Kinds /\ "running" \in Kinds
    BY <1>1 DEF In, Owners, Kinds, c
  <2>2. Moved(c, "running", w, "hand", w)
    BY <1>1, <1>2 DEF Moved, In, Kinds, TypeOK, CoTypes, ActorTypes, c
  <2> QED  BY <1>2, <2>1, <2>2, PlaceMoved
<1> QED  BY <1>1, <1>2, <1>3, <1>4, <1>5, OwnEnqueue

\* The coroutine parks or ends.
LEMMA YieldAwayInv ==
    ASSUME ProcInv, NEW w \in Workers, YieldAway(w)
    PROVE  ProcInv'
<1> DEFINE c == running[w]
<1>1. /\ UNCHANGED lifeVars /\ inflight' = inflight /\ pending' = pending /\ mmutex' = mmutex
      /\ local' = local /\ global' = global /\ runLock' = runLock /\ gmutex' = gmutex
      /\ todo' = todo /\ got' = got /\ fresh' = fresh /\ rejected' = rejected
      /\ steals' = steals /\ hand' = hand /\ dest' = dest /\ why' = why
      /\ pc[w] = "run" /\ running' = [running EXCEPT ![w] = NoCo]
  BY DEF YieldAway, Goto, lockVars, queueVars
<1>2. PICK p \in {"pick", "idle"} : pc' = [pc EXCEPT ![w] = p]
  BY DEF YieldAway, Goto, NextTurn
<1>3. PICK k \in {"parked", "done"} :
          /\ k = "parked" => parked' = parked \cup {c} /\ done' = done
          /\ k = "done" => done' = done \cup {c} /\ parked' = parked
  BY DEF YieldAway
<1>4. /\ TypeOK /\ hand[w] = NoCo /\ c \in Coroutines /\ w \in Actors
      /\ CallShape(w) /\ MapHeld(w)
  BY <1>1, ActorShapes DEF HandShape, RunShape, TypeOK, CoTypes
<1>5. OthersStay(w) /\ pc'[w] = p /\ running'[w] = NoCo
  BY <1>1, <1>2, <1>4 DEF OthersStay, TypeOK, ActorTypes, CoTypes
<1> HIDE DEF c
<1>6. TypeOK'
  <2>1. LifeTypes' /\ QueueTypes' /\ CoTypes'
    BY <1>1, <1>3, <1>4 DEF TypeOK, LifeTypes, QueueTypes, CoTypes, lifeVars
  <2>2. ActorTypes'
    BY <1>1, <1>2, <1>4 DEF TypeOK, ActorTypes, WorkerPC
  <2> QED  BY <2>1, <2>2 DEF TypeOK
<1>7. InOnePlace'
  <2>1. /\ In(c, "running", w) /\ w \in Owners /\ NoActor \in Owners
        /\ k \in Kinds /\ "running" \in Kinds
    BY <1>1 DEF In, Owners, Kinds, c
  <2>2. Moved(c, "running", w, k, NoActor)
    BY <1>1, <1>3, <1>4 DEF Moved, In, Kinds, TypeOK, CoTypes, c
  <2> QED  BY <1>4, <2>1, <2>2, PlaceMoved
<1>8. CallShape(w)' /\ HandShape(w)' /\ MapHeld(w)' /\ RunShape(w)'
  BY <1>1, <1>2, <1>4, <1>5 DEF CallShape, HandShape, MapHeld, RunShape, CallPC
<1>9. ~Drained(w)' /\ ~Emptied(w)' /\ Covers(w)'
  BY <1>1, <1>2, <1>5, Awake DEF Drained, Emptied
<1> QED  BY <1>1, <1>2, <1>4, <1>5, <1>6, <1>7, <1>8, <1>9, HandOver

\* The worker picks its next coroutine.
LEMMA PickInv ==
    ASSUME ProcInv, NEW w \in Workers, NEW c \in Coroutines, Pick(w, c)
    PROVE  ProcInv'
<1>1. /\ UNCHANGED lifeVars /\ inflight' = inflight /\ pending' = pending /\ mmutex' = mmutex
      /\ global' = global /\ runLock' = runLock /\ gmutex' = gmutex
      /\ todo' = todo /\ fresh' = fresh /\ rejected' = rejected /\ parked' = parked /\ done' = done
      /\ steals' = steals /\ hand' = hand /\ dest' = dest
      /\ pc[w] = "pick" /\ c \in local[w] /\ local' = [local EXCEPT ![w] = @ \ {c}]
      /\ running' = [running EXCEPT ![w] = c] /\ pc' = [pc EXCEPT ![w] = "run"]
      /\ why' = [why EXCEPT ![w] = "none"] /\ got' = [got EXCEPT ![w] = FALSE]
  BY DEF Pick, Goto, Ends, lockVars
<1>2. TypeOK /\ hand[w] = NoCo /\ running[w] = NoCo /\ w \in Actors /\ CallShape(w)
  BY <1>1, ActorShapes DEF HandShape, RunShape, CallPC
<1>3. /\ OthersStay(w) /\ pc'[w] = "run" /\ running'[w] = c /\ why'[w] = "none"
      /\ \A v \in Workers : local'[v] \subseteq local[v]
      /\ \A v \in Workers \ {w} : local'[v] = local[v]
  BY <1>1, <1>2 DEF OthersStay, TypeOK, ActorTypes, CoTypes, QueueTypes
<1>4. TypeOK'
  <2>1. LifeTypes' /\ QueueTypes' /\ CoTypes'
    BY <1>1, <1>2 DEF TypeOK, LifeTypes, QueueTypes, CoTypes, lifeVars
  <2>2. ActorTypes'
    BY <1>1, <1>2 DEF TypeOK, ActorTypes, WorkerPC, Whys
  <2> QED  BY <2>1, <2>2 DEF TypeOK
<1>5. InOnePlace'
  <2>1. /\ In(c, "local", w) /\ w \in Owners /\ "local" \in Kinds /\ "running" \in Kinds
    BY <1>1 DEF In, Owners, Kinds
  <2>2. Moved(c, "local", w, "running", w)
    BY <1>1, <1>2 DEF Moved, In, Kinds, TypeOK, CoTypes, QueueTypes
  <2> QED  BY <2>1, <2>2, PlaceMoved
<1>6. CallShape(w)' /\ HandShape(w)' /\ MapHeld(w)' /\ RunShape(w)'
  BY <1>1, <1>2, <1>3 DEF CallShape, HandShape, MapHeld, RunShape, CallPC
<1>7. ~Drained(w)' /\ ~Emptied(w)' /\ Covers(w)'
  BY <1>1, <1>3, Awake DEF Drained, Emptied
<1> QED  BY <1>1, <1>2, <1>3, <1>4, <1>5, <1>6, <1>7, HandOver

-----------------------------------------------------------------------------
(* The end of a retired worker.                                             *)

\* A retiring worker moves one coroutine to the global queue.
LEMMA DrainOneInv ==
    ASSUME ProcInv, NEW w \in Workers, NEW c \in Coroutines, DrainOne(w, c)
    PROVE  ProcInv'
<1>1. /\ UNCHANGED lifeVars /\ inflight' = inflight /\ pending' = pending /\ mmutex' = mmutex
      /\ global' = global /\ runLock' = runLock /\ gmutex' = gmutex
      /\ todo' = todo /\ fresh' = fresh /\ rejected' = rejected /\ parked' = parked /\ done' = done
      /\ steals' = steals /\ dest' = dest /\ running' = running /\ why' = why /\ got' = got
      /\ pc[w] = "draining" /\ c \in local[w] /\ local' = [local EXCEPT ![w] = @ \ {c}]
      /\ hand' = [hand EXCEPT ![w] = c] /\ pc' = [pc EXCEPT ![w] = "toglobal"]
  BY DEF DrainOne, Goto, lockVars, coVars
<1>2. /\ TypeOK /\ hand[w] = NoCo /\ running[w] = NoCo /\ w \in Actors /\ CallShape(w)
      /\ why[w] = "retire" /\ LifeShape(w)
  BY <1>1, ActorShapes DEF HandShape, RunShape, CallPC, CallShape
<1>3. /\ OthersStay(w) /\ pc'[w] = "toglobal" /\ hand'[w] = c
      /\ \A v \in Workers : local'[v] \subseteq local[v]
      /\ \A v \in Workers \ {w} : local'[v] = local[v]
  BY <1>1, <1>2 DEF OthersStay, TypeOK, ActorTypes, CoTypes, QueueTypes
<1>4. TypeOK'
  <2>1. LifeTypes' /\ QueueTypes' /\ CoTypes'
    BY <1>1, <1>2 DEF TypeOK, LifeTypes, QueueTypes, CoTypes, lifeVars
  <2>2. ActorTypes'
    BY <1>1, <1>2 DEF TypeOK, ActorTypes, CallPC
  <2> QED  BY <2>1, <2>2 DEF TypeOK
<1>5. InOnePlace'
  <2>1. /\ In(c, "local", w) /\ w \in Owners /\ "local" \in Kinds /\ "hand" \in Kinds
    BY <1>1 DEF In, Owners, Kinds
  <2>2. Moved(c, "local", w, "hand", w)
    BY <1>1, <1>2 DEF Moved, In, Kinds, TypeOK, ActorTypes, QueueTypes
  <2> QED  BY <2>1, <2>2, PlaceMoved
<1>6. CallShape(w)' /\ HandShape(w)' /\ MapHeld(w)' /\ RunShape(w)'
  BY <1>1, <1>2, <1>3 DEF CallShape, HandShape, MapHeld, RunShape, CallPC
<1>7. Drained(w) /\ retire[w] /\ ~Emptied(w)' /\ Covers(w)'
  BY <1>1, <1>2, <1>3, Awake DEF Drained, Emptied, LifeShape
<1> QED  BY <1>1, <1>2, <1>3, <1>4, <1>5, <1>6, <1>7, HandOver

\* The drain starts when no enqueue is under way, and ends with the broadcast.
LEMMA DrainTurn ==
    ASSUME ProcInv, NEW w \in Workers, WaitQuiescent(w) \/ DrainEnd(w)
    PROVE  ProcInv'
<1>1. /\ UNCHANGED lifeVars /\ inflight' = inflight /\ pending' = pending /\ mmutex' = mmutex
      /\ global' = global /\ runLock' = runLock /\ gmutex' = gmutex /\ local' = local
      /\ todo' = todo /\ fresh' = fresh /\ rejected' = rejected /\ parked' = parked /\ done' = done
      /\ steals' = steals /\ dest' = dest /\ running' = running /\ hand' = hand /\ got' = got
  BY DEF WaitQuiescent, DrainEnd, Move, queueVars, lockVars, coVars
<1>2. /\ TypeOK /\ w \in Actors /\ CallShape(w) /\ LifeShape(w) /\ HandShape(w) /\ RunShape(w)
  BY ActorShapes
<1>3. PICK p \in {"draining", "broadcast"} :
         /\ pc' = [pc EXCEPT ![w] = p] /\ why' = [why EXCEPT ![w] = "retire"]
         /\ p = "draining" => pc[w] = "drain" /\ inflight[w] = 0
         /\ p = "broadcast" => pc[w] = "draining" /\ local[w] = {}
  <2>1. why[w] = "retire" => why = [why EXCEPT ![w] = "retire"]
    BY <1>2 DEF TypeOK, ActorTypes
  <2> QED  BY <1>2, <2>1 DEF WaitQuiescent, Quiescent, DrainEnd, AfterDrain, Move, Goto, CallShape
<1>4. OthersStay(w) /\ pc'[w] = p /\ why'[w] = "retire"
  BY <1>1, <1>2, <1>3 DEF OthersStay, TypeOK, ActorTypes, CoTypes
<1>5. TypeOK'
  <2>1. LifeTypes' /\ QueueTypes' /\ CoTypes'
    BY <1>1, <1>2 DEF TypeOK, LifeTypes, QueueTypes, CoTypes, lifeVars
  <2>2. ActorTypes'
    BY <1>1, <1>2, <1>3 DEF TypeOK, ActorTypes, CallPC, WorkerPC, Whys
  <2> QED  BY <2>1, <2>2 DEF TypeOK
<1>6. InOnePlace'
  BY <1>1, PlacesKept DEF coVars
<1>7. CallShape(w)' /\ HandShape(w)' /\ MapHeld(w)' /\ RunShape(w)'
  BY <1>1, <1>2, <1>3, <1>4 DEF CallShape, HandShape, MapHeld, RunShape, CallPC
<1>8. /\ retire[w] /\ (Drained(w) \/ inflight[w] = 0) /\ (Emptied(w)' => local'[w] = {})
      /\ Covers(w)'
  <2>1. /\ retire[w] /\ (Drained(w) \/ inflight[w] = 0) /\ (Emptied(w)' => local'[w] = {})
    BY <1>1, <1>2, <1>3, <1>4 DEF Drained, Emptied, LifeShape
  <2>2. p = "draining" => Covers(w)'
    BY <1>1, <1>3, <1>4, Awake
  <2>3. p = "broadcast" => Covers(w)'
    BY <1>4 DEF Covers, WillNotify
  <2> QED  BY <2>1, <2>2, <2>3
<1> QED  BY <1>1, <1>2, <1>3, <1>4, <1>5, <1>6, <1>7, <1>8, HandOver

-----------------------------------------------------------------------------
(* Notification, resize and the end.                                        *)

\* _PublishRunnable: the worker that is told will look at the queues before it sleeps.
LEMMA PublishInv ==
    ASSUME ProcInv, NEW a \in Actors, NEW w \in Workers, Publish(a, w)
    PROVE  ProcInv'
<1>1. /\ life' = life /\ admission' = admission /\ retire' = retire /\ snapshot' = snapshot
      /\ inflight' = inflight /\ local' = local /\ global' = global /\ runLock' = runLock
      /\ steals' = steals /\ got' = got /\ hand' = hand /\ dest' = dest /\ UNCHANGED coVars
      /\ running' = running /\ pc[a] = "publish" /\ w \in todo[a]
      /\ pending' = [pending EXCEPT ![w] = TRUE] /\ todo' = [todo EXCEPT ![a] = @ \ {w}]
  BY DEF Publish, lifeVars, queueVars, coVars
<1>2. /\ TypeOK /\ CallShape(a) /\ HandShape(a) /\ MapHeld(a) /\ a # NoActor
      /\ a \in Workers => /\ RunShape(a) /\ LifeShape(a) /\ life[a] \in {"Active", "Retiring"}
                          /\ Emptied(a) => local[a] = {}
      /\ a \in Threads => a \notin Workers
  <2>1. a \in Workers /\ Emptied(a) => local[a] = {}
    BY DEF ProcInv, DrainHolds
  <2> QED  BY <1>1, <2>1, ActorShapes
<1>3. PICK p \in {"publish", "pick", "idle", "exit", "rest", "run"}, y \in Whys :
         /\ pc' = [pc EXCEPT ![a] = p] /\ why' = [why EXCEPT ![a] = y]
         /\ p = "publish" => y = why[a] /\ todo[a] # {w} /\ mmutex' = mmutex
         /\ p # "publish" => y = "none" /\ todo[a] = {w} /\ mmutex' \in {mmutex, NoActor}
         /\ p \in {"pick", "idle"} => why[a] = "ready"
         /\ p = "exit" => why[a] = "retire"
         /\ p \in {"rest", "run"} => why[a] \in UserCalls /\ p = Home(a)
  <2>1. CASE todo[a] = {w}
    BY <1>2, <2>1 DEF Publish, Goto, Ends, AfterPublish, Home, NextTurn, CallShape, Whys
  <2>2. CASE todo[a] # {w}
    <3>1. pc' = [pc EXCEPT ![a] = "publish"] /\ why' = [why EXCEPT ![a] = why[a]] /\ why[a] \in Whys
      BY <1>1, <1>2, <2>2 DEF Publish, TypeOK, ActorTypes
    <3> QED  BY <2>2, <3>1 DEF Publish
  <2> QED  BY <2>1, <2>2
<1>4. mmutex' = mmutex \/ mmutex = a
  BY DEF Publish
<1>5. /\ gmutex' \in {gmutex, NoActor} /\ mmutex' \in {mmutex, NoActor}
  BY DEF Publish
<1>6. /\ pc'[a] = p /\ why'[a] = y /\ todo'[a] = todo[a] \ {w} /\ OthersStay(a)
      /\ pending'[w] = TRUE
      /\ \A v \in Workers : pending[v] => pending'[v]
  BY <1>1, <1>2, <1>3 DEF OthersStay, TypeOK, LifeTypes, ActorTypes, coVars
<1>7. TypeOK'
  <2>1. LifeTypes' /\ QueueTypes' /\ CoTypes'
    BY <1>1, <1>2, <1>5 DEF TypeOK, LifeTypes, QueueTypes, CoTypes, coVars
  <2>2. pc' \in [Actors -> WorkerPC \cup CallPC] /\ why' \in [Actors -> Whys]
    BY <1>2, <1>3 DEF TypeOK, ActorTypes, CallPC, WorkerPC
  <2>3. todo' \in [Actors -> SUBSET Workers]
    BY <1>1, <1>2 DEF TypeOK, ActorTypes
  <2> QED  BY <1>1, <1>2, <2>1, <2>2, <2>3 DEF TypeOK, ActorTypes
<1>8. Shape'
  <2>1. CallShape(a)'
    BY <1>1, <1>2, <1>3, <1>6 DEF CallShape, CallPC, Home
  <2>2. HandShape(a)'
    BY <1>1, <1>2, <1>3, <1>6 DEF HandShape
  <2>3. a \in Workers => RunShape(a)'
    BY <1>1, <1>2, <1>3, <1>6 DEF RunShape, CallPC, Home
  <2> QED  BY <1>1, <1>6, <2>1, <2>2, <2>3, ShapeStep DEF GatesOpenOnce
<1>9. MapLock'
  <2>1. MapHeld(a)'
    BY <1>1, <1>2, <1>3, <1>6 DEF MapHeld
  <2> QED  BY <1>1, <1>4, <1>6, <2>1, MapStep
<1>10. a \in Workers => (Drained(a)' <=> Drained(a)) /\ (Emptied(a)' <=> Emptied(a))
  BY <1>1, <1>3, <1>6 DEF Drained, Emptied
<1>11. Lifecycle'
  BY <1>1, <1>2, <1>3, <1>6, <1>10, LifeStep DEF lifeVars, LifeShape
<1>12. InflightCounts'
  BY <1>1, <1>3, <1>6, InflightStep
<1>13. DrainHolds'
  BY <1>1, <1>2, <1>3, <1>6, <1>10, DrainStep
<1>14. InOnePlace'
  BY <1>1, PlacesKept
<1>15. LocalAnnounced'
  <2>1. \A v \in Workers : Announces(a, v) => Announces(a, v)' \/ pending'[v]
    BY <1>1, <1>3, <1>6 DEF Announces
  <2> QED  BY <1>1, <1>3, <1>6, <2>1, AnnounceStep
<1>16. GlobalCovered'
  <2>1. CASE w \in snapshot
    <3>1. WillLook(w)'
      BY <1>1, <1>6, <2>1 DEF WillLook, Sleeping, MaySleep
    <3> QED  BY <3>1 DEF GlobalCovered, Covers
  <2>2. CASE w \notin snapshot
    <3>1. WillNotify(a) => WillNotify(a)'
      BY <1>1, <1>3, <1>6, <2>2 DEF WillNotify
    <3>2. a \in Workers /\ WillLook(a) => WillLook(a)'
      BY <1>1, <1>3, <1>6 DEF WillLook, Sleeping
    <3>3. a \in Workers /\ Closing(a) => Closing(a)'
      BY <1>1, <1>10 DEF Closing
    <3>4. Covers(a) => Covers(a)'
      BY <3>1, <3>2, <3>3 DEF Covers
    <3> QED  BY <1>1, <1>6, <3>4, CoverStep DEF lifeVars
  <2> QED  BY <2>1, <2>2
<1> QED  BY <1>7, <1>8, <1>9, <1>11, <1>12, <1>13, <1>14, <1>15, <1>16 DEF ProcInv

\* A step of a resize touches no queue.
LEMMA ResizeStep ==
    ASSUME ProcInv, NEW a \in Actors, OthersStay(a),
           UNCHANGED <<queueVars, pending, coVars, hand, dest>>,
           pc[a] \notin {"recheck", "insert", "publish"},
           pc'[a] \notin {"recheck", "insert", "asleep"},
           a \in Workers => (Drained(a)' => Drained(a)) /\ (Emptied(a)' => Emptied(a))
    PROVE  InflightCounts' /\ DrainHolds' /\ InOnePlace' /\ LocalAnnounced'
<1>1. inflight' = inflight /\ local' = local /\ global' = global
  BY DEF queueVars
<1>2. InflightCounts'
  BY <1>1, InflightStep
<1>3. DrainHolds'
  <2>1. a \in Workers => (Emptied(a)' => local'[a] = {})
    BY <1>1 DEF ProcInv, DrainHolds
  <2> QED  BY <1>1, <2>1, DrainStep
<1>4. InOnePlace'
  BY <1>1, PlacesKept
<1>5. LocalAnnounced'
  <2>1. \A v \in Workers : ~Announces(a, v)
    BY DEF Announces
  <2> QED  BY <1>1, <2>1, AnnounceStep
<1> QED  BY <1>2, <1>3, <1>4, <1>5

\* The gates are closed first, under the map mutex.
LEMMA BeginRetireInv ==
    ASSUME ProcInv, NEW a \in Actors, NEW S \in SUBSET Workers, BeginRetire(a, S)
    PROVE  ProcInv'
<1>1. /\ life' = life /\ retire' = retire /\ snapshot' = snapshot /\ inflight' = inflight
      /\ local' = local /\ global' = global /\ pending' = pending /\ runLock' = runLock
      /\ gmutex' = gmutex /\ UNCHANGED coVars /\ hand' = hand /\ dest' = dest /\ got' = got
      /\ steals' = steals /\ running' = running /\ mmutex = NoActor /\ mmutex' = a
      /\ pc[a] \in {"rest", "run"} /\ S \subseteq snapshot \ {a} /\ S # snapshot
      /\ admission' = [w \in Workers |-> admission[w] /\ w \notin S]
      /\ why' = [why EXCEPT ![a] = "resize"] /\ todo' = [todo EXCEPT ![a] = S]
      /\ pc' = [pc EXCEPT ![a] = "retiring"]
  BY DEF BeginRetire, InUserCode, MapFree, Goto, queueVars, coVars
<1>2. /\ TypeOK /\ CallShape(a) /\ HandShape(a)
      /\ a \in Workers => RunShape(a) /\ LifeShape(a) /\ life[a] \in {"Active", "Retiring"}
  BY <1>1, ActorShapes
<1>3. /\ pc'[a] = "retiring" /\ why'[a] = "resize" /\ todo'[a] = S /\ OthersStay(a)
      /\ \A w \in Workers : admission'[w] <=> admission[w] /\ w \notin S
  BY <1>1, <1>2 DEF OthersStay, TypeOK, ActorTypes, coVars
<1>4. TypeOK'
  <2>1. LifeTypes' /\ QueueTypes' /\ CoTypes'
    BY <1>1, <1>2 DEF TypeOK, LifeTypes, QueueTypes, CoTypes, coVars
  <2>2. ActorTypes'
    BY <1>1, <1>2 DEF TypeOK, ActorTypes, CallPC, Whys
  <2> QED  BY <2>1, <2>2 DEF TypeOK
<1>5. Shape'
  <2>1. CallShape(a)' /\ HandShape(a)' /\ (a \in Workers => RunShape(a)')
    BY <1>1, <1>2, <1>3 DEF CallShape, HandShape, RunShape, CallPC
  <2> QED  BY <1>1, <1>3, <2>1, ShapeStep DEF GatesOpenOnce
<1>6. MapLock'
  <2>1. MapHeld(a)'
    BY <1>1, <1>3 DEF MapHeld
  <2> QED  BY <1>1, <1>3, <2>1, MapStep
<1>7. \A b \in Actors : pc[b] # "retiring"
  BY <1>1 DEF ProcInv, MapLock, MapHeld
<1>8. Lifecycle'
  <2>1. ASSUME NEW w \in Workers PROVE LifeShape(w)'
    <3>1. LifeShape(w) /\ (w # a => pc'[w] = pc[w] /\ why'[w] = why[w])
      BY <1>3 DEF ProcInv, Lifecycle, OthersStay
    <3>2. w \in snapshot /\ ~admission'[w] => pc'[a] = "retiring" /\ w \in todo'[a]
      BY <1>3, <1>7, <3>1 DEF LifeShape
    <3>3. CASE w = a
      BY <1>1, <1>2, <1>3, <3>1, <3>2, <3>3 DEF LifeShape, Drained
    <3>4. CASE w # a
      BY <1>1, <1>3, <3>1, <3>2, <3>4 DEF LifeShape, Drained
    <3> QED  BY <3>3, <3>4
  <2>2. ASSUME NEW b \in Actors PROVE ShrinkShape(b)'
    BY <1>1, <1>3, <1>7 DEF ShrinkShape, OthersStay
  <2> QED  BY <1>1, <2>1, <2>2 DEF ProcInv, Lifecycle
<1>9. InflightCounts' /\ DrainHolds' /\ InOnePlace' /\ LocalAnnounced'
  <2>1. a \in Workers => ~Drained(a)' /\ ~Emptied(a)'
    BY <1>3 DEF Drained, Emptied
  <2> QED  BY <1>1, <1>3, <2>1, ResizeStep DEF queueVars
<1>10. GlobalCovered'
  <2>1. ASSUME NEW b \in Actors, Covers(b) PROVE Covers(b)'
    <3>1. b # a => pc'[b] = pc[b] /\ why'[b] = why[b] /\ todo'[b] = todo[b]
      BY <1>3 DEF OthersStay
    <3>2. WillNotify(b) => WillNotify(b)'
      BY <1>1, <3>1 DEF WillNotify
    <3>3. b \in Workers /\ WillLook(b) => WillLook(b)'
      BY <1>1, <1>3, <3>1 DEF WillLook, Sleeping, MaySleep
    <3>4. b \in Workers /\ Closing(b) => Closing(b)'
      BY <1>1, <1>3, <3>1 DEF Closing, Emptied
    <3> QED  BY <2>1, <3>2, <3>3, <3>4 DEF Covers
  <2> QED  BY <1>1, <2>1 DEF ProcInv, GlobalCovered
<1> QED  BY <1>4, <1>5, <1>6, <1>8, <1>9, <1>10 DEF ProcInv

\* Then the workers are asked to retire and leave the snapshot: they answer for what
\* the notifications no longer reach.
LEMMA CommitShrinkInv ==
    ASSUME ProcInv, NEW a \in Actors, CommitShrink(a)
    PROVE  ProcInv'
<1> DEFINE S == todo[a]
<1>1. /\ admission' = admission /\ inflight' = inflight /\ UNCHANGED queueVars
      /\ local' = local /\ global' = global /\ pending' = pending /\ runLock' = runLock
      /\ gmutex' = gmutex /\ UNCHANGED coVars /\ hand' = hand /\ dest' = dest /\ got' = got
      /\ steals' = steals /\ running' = running /\ mmutex' = NoActor /\ why' = why /\ todo' = todo
      /\ pc[a] = "retiring" /\ pc' = [pc EXCEPT ![a] = "publish"]
      /\ life' = [w \in Workers |-> IF w \in S THEN "Retiring" ELSE life[w]]
      /\ retire' = [w \in Workers |-> retire[w] \/ w \in S]
      /\ snapshot' = snapshot \ S
  BY DEF CommitShrink, Goto, queueVars, coVars
<1>2. /\ TypeOK /\ CallShape(a) /\ HandShape(a) /\ why[a] = "resize" /\ mmutex = a
      /\ a \in Workers => RunShape(a) /\ LifeShape(a) /\ life[a] \in {"Active", "Retiring"}
      /\ S \subseteq snapshot /\ S # snapshot /\ S \in SUBSET Workers
      /\ \A w \in S : ~admission[w]
  <2>1. S \subseteq snapshot /\ S # snapshot /\ \A w \in S : ~admission[w]
    BY <1>1 DEF ProcInv, Lifecycle, ShrinkShape
  <2>2. /\ TypeOK /\ CallShape(a) /\ HandShape(a) /\ MapHeld(a)
        /\ a \in Workers => RunShape(a) /\ LifeShape(a) /\ life[a] \in {"Active", "Retiring"}
    BY <1>1, ActorShapes
  <2> QED  BY <1>1, <2>1, <2>2 DEF CallShape, MapHeld, TypeOK, ActorTypes
<1> HIDE DEF S
<1>3. /\ pc'[a] = "publish" /\ OthersStay(a)
      /\ \A w \in Workers : w \in S => life'[w] = "Retiring" /\ retire'[w]
      /\ \A w \in Workers : w \notin S => life'[w] = life[w] /\ (retire'[w] <=> retire[w])
  BY <1>1, <1>2 DEF OthersStay, TypeOK, ActorTypes, coVars
<1>4. TypeOK'
  <2>1. LifeTypes' /\ QueueTypes' /\ CoTypes'
    BY <1>1, <1>2 DEF TypeOK, LifeTypes, QueueTypes, CoTypes, coVars, Lives
  <2>2. ActorTypes'
    BY <1>1, <1>2 DEF TypeOK, ActorTypes, CallPC
  <2> QED  BY <2>1, <2>2 DEF TypeOK
<1>5. Shape'
  <2>1. CallShape(a)' /\ HandShape(a)' /\ (a \in Workers => RunShape(a)')
    BY <1>1, <1>2, <1>3 DEF CallShape, HandShape, RunShape, CallPC
  <2>2. GatesOpenOnce
    BY <1>1, <1>3 DEF GatesOpenOnce
  <2> QED  BY <1>3, <2>1, <2>2, ShapeStep
<1>6. MapLock'
  <2>1. MapHeld(a)'
    BY <1>1, <1>2, <1>3 DEF MapHeld
  <2> QED  BY <1>1, <1>2, <1>3, <2>1, MapStep
<1>7. \A b \in Actors : pc[b] = "retiring" => b = a
  BY <1>2 DEF ProcInv, MapLock, MapHeld
<1>8. ASSUME NEW w \in Workers
      PROVE  /\ LifeShape(w) /\ (w # a => pc'[w] = pc[w] /\ why'[w] = why[w])
             /\ w \in S => ~Drained(w) /\ ~Emptied(w)
  <2>1. LifeShape(w) /\ (w # a => pc'[w] = pc[w] /\ why'[w] = why[w])
    BY <1>3 DEF ProcInv, Lifecycle, OthersStay
  <2>2. w \in S => ~Drained(w)
    BY <1>2, <2>1 DEF LifeShape
  <2> QED  BY <2>1, <2>2 DEF Drained, Emptied
<1>9. Lifecycle'
  <2>1. ASSUME NEW w \in Workers PROVE LifeShape(w)'
    <3>1. LifeShape(w) /\ (w # a => pc'[w] = pc[w] /\ why'[w] = why[w]) /\ (w \in S => ~Drained(w))
      BY <1>8
    <3>2. w \in snapshot /\ ~admission[w] => w \in S
      BY <1>7, <3>1 DEF LifeShape, S
    <3>3. CASE w \in S
      <4>1. life[w] = "Active"
        BY <1>2, <3>1, <3>3 DEF LifeShape
      <4> QED  BY <1>1, <1>2, <1>3, <3>1, <3>3, <4>1 DEF LifeShape, Drained
    <3>4. CASE w \notin S /\ w # a
      BY <1>1, <1>3, <3>1, <3>2, <3>4 DEF LifeShape, Drained
    <3>5. CASE w \notin S /\ w = a
      <4>1. ~Drained(w)'
        BY <1>1, <1>2, <1>3, <3>5 DEF Drained
      <4> QED  BY <1>1, <1>2, <1>3, <3>1, <3>2, <3>5, <4>1 DEF LifeShape
    <3> QED  BY <3>3, <3>4, <3>5
  <2>2. ASSUME NEW b \in Actors PROVE ShrinkShape(b)'
    BY <1>3, <1>7 DEF ShrinkShape, OthersStay
  <2>3. snapshot' # {}
    BY <1>1, <1>2
  <2> QED  BY <2>1, <2>2, <2>3 DEF Lifecycle
<1>10. a \in Workers => ~Drained(a)' /\ ~Emptied(a)'
  BY <1>1, <1>2, <1>3 DEF Drained, Emptied
<1>11. InflightCounts' /\ DrainHolds' /\ InOnePlace' /\ LocalAnnounced'
  BY <1>1, <1>3, <1>10, ResizeStep
<1>12. GlobalCovered'
  <2>1. ASSUME NEW w \in S PROVE w \in Workers /\ Covers(w)'
    <3>1. w \in Workers /\ ~Emptied(w)'
      BY <1>2, <1>8, <1>10, <2>1 DEF Emptied
    <3>2. Closing(w)'
      BY <1>1, <1>2, <1>3, <2>1, <3>1 DEF Closing
    <3> QED  BY <3>1, <3>2 DEF Covers
  <2>2. ASSUME NEW b \in Actors, Covers(b), S = {} \/ b \notin S, todo[b] \cap S = {} PROVE Covers(b)'
    <3>1. b # a => pc'[b] = pc[b] /\ why'[b] = why[b] /\ todo'[b] = todo[b]
      BY <1>3 DEF OthersStay
    <3>2. WillNotify(b) => WillNotify(b)'
      BY <1>1, <2>2, <3>1 DEF WillNotify
    <3>3. b \in Workers /\ WillLook(b) => WillLook(b)'
      BY <1>1, <1>3, <2>2, <3>1 DEF WillLook, Sleeping, MaySleep
    <3>4. b \in Workers /\ Closing(b) => Closing(b)'
      BY <1>1, <1>3, <1>10, <2>2, <3>1 DEF Closing, Emptied
    <3> QED  BY <2>2, <3>2, <3>3, <3>4 DEF Covers
  <2>3. CASE S = {}
    BY <1>1, <2>2, <2>3 DEF ProcInv, GlobalCovered
  <2>4. CASE S # {}
    BY <2>1, <2>4 DEF GlobalCovered
  <2> QED  BY <2>3, <2>4
<1> QED  BY <1>4, <1>5, <1>6, <1>9, <1>11, <1>12 DEF ProcInv

\* A worker is added and its gate opened.
LEMMA ExpandInv ==
    ASSUME ProcInv, NEW a \in Actors, NEW w \in Workers, Expand(a, w)
    PROVE  ProcInv'
<1>1. /\ retire' = retire /\ UNCHANGED queueVars /\ inflight' = inflight
      /\ local' = local /\ global' = global /\ pending' = pending /\ runLock' = runLock
      /\ gmutex' = gmutex /\ UNCHANGED coVars /\ hand' = hand /\ dest' = dest /\ got' = got
      /\ steals' = steals /\ running' = running /\ mmutex' = NoActor /\ mmutex = NoActor
      /\ pc[a] \in {"rest", "run"} /\ pc' = [pc EXCEPT ![a] = "publish"]
      /\ life[w] = "Preparing" /\ life' = [life EXCEPT ![w] = "Active"]
      /\ admission' = [admission EXCEPT ![w] = TRUE] /\ snapshot' = snapshot \cup {w}
      /\ why' = [why EXCEPT ![a] = "resize"] /\ todo' = [todo EXCEPT ![a] = {w}]
  BY DEF Expand, InUserCode, Goto, queueVars, lockVars, coVars
<1>2. /\ TypeOK /\ CallShape(a) /\ HandShape(a)
      /\ a \in Workers => RunShape(a) /\ LifeShape(a) /\ life[a] \in {"Active", "Retiring"}
      /\ a # w
  BY <1>1, ActorShapes
<1>3. /\ pc'[a] = "publish" /\ why'[a] = "resize" /\ OthersStay(a)
      /\ life'[w] = "Active" /\ admission'[w]
      /\ \A v \in Workers \ {w} : life'[v] = life[v] /\ admission'[v] = admission[v]
  BY <1>1, <1>2 DEF OthersStay, TypeOK, LifeTypes, ActorTypes, coVars
<1>4. TypeOK'
  <2>1. LifeTypes' /\ QueueTypes' /\ CoTypes'
    BY <1>1, <1>2 DEF TypeOK, LifeTypes, QueueTypes, CoTypes, coVars, Lives
  <2>2. ActorTypes'
    BY <1>1, <1>2 DEF TypeOK, ActorTypes, CallPC, Whys
  <2> QED  BY <2>1, <2>2 DEF TypeOK
<1>5. Shape'
  <2>1. CallShape(a)' /\ HandShape(a)' /\ (a \in Workers => RunShape(a)')
    BY <1>1, <1>2, <1>3 DEF CallShape, HandShape, RunShape, CallPC
  <2>2. GatesOpenOnce
    BY <1>1, <1>3 DEF GatesOpenOnce
  <2> QED  BY <1>3, <2>1, <2>2, ShapeStep
<1>6. MapLock'
  <2>1. MapHeld(a)'
    BY <1>3 DEF MapHeld
  <2> QED  BY <1>1, <1>3, <2>1, MapStep
<1>7. \A b \in Actors : pc[b] # "retiring"
  BY <1>1 DEF ProcInv, MapLock, MapHeld
<1>8. Lifecycle'
  <2>1. ASSUME NEW v \in Workers PROVE LifeShape(v)'
    <3>1. LifeShape(v) /\ (v # a => pc'[v] = pc[v] /\ why'[v] = why[v])
          /\ (v \in snapshot => admission[v])
      BY <1>3, <1>7 DEF ProcInv, Lifecycle, OthersStay, LifeShape
    <3>2. CASE v = w
      BY <1>1, <1>2, <1>3, <3>1, <3>2 DEF LifeShape, Drained
    <3>3. CASE v # w /\ v # a
      BY <1>1, <1>3, <3>1, <3>3 DEF LifeShape, Drained
    <3>4. CASE v # w /\ v = a
      BY <1>1, <1>2, <1>3, <3>1, <3>4 DEF LifeShape, Drained
    <3> QED  BY <3>2, <3>3, <3>4
  <2>2. ASSUME NEW b \in Actors PROVE ShrinkShape(b)'
    BY <1>3, <1>7 DEF ShrinkShape, OthersStay
  <2> QED  BY <1>1, <2>1, <2>2 DEF Lifecycle
<1>9. InflightCounts' /\ DrainHolds' /\ InOnePlace' /\ LocalAnnounced'
  <2>1. a \in Workers => ~Drained(a)' /\ ~Emptied(a)'
    BY <1>3 DEF Drained, Emptied
  <2> QED  BY <1>1, <1>3, <2>1, ResizeStep
<1>10. GlobalCovered'
  <2>1. ASSUME NEW b \in Actors, Covers(b) PROVE Covers(b)'
    <3>1. b # a => pc'[b] = pc[b] /\ why'[b] = why[b] /\ todo'[b] = todo[b]
      BY <1>3 DEF OthersStay
    <3>2. WillNotify(b) => WillNotify(b)'
      BY <1>1, <3>1 DEF WillNotify
    <3>3. b \in Workers /\ WillLook(b) => WillLook(b)'
      BY <1>1, <1>3, <3>1 DEF WillLook, Sleeping, MaySleep
    <3>4. b \in Workers /\ Closing(b) => Closing(b)'
      BY <1>1, <1>3, <3>1 DEF Closing, Emptied
    <3> QED  BY <2>1, <3>2, <3>3, <3>4 DEF Covers
  <2> QED  BY <1>1, <2>1 DEF ProcInv, GlobalCovered
<1> QED  BY <1>4, <1>5, <1>6, <1>8, <1>9, <1>10 DEF ProcInv

\* A drained worker exits.
LEMMA ExitInv ==
    ASSUME ProcInv, NEW w \in Workers, Exit(w)
    PROVE  ProcInv'
<1>1. /\ admission' = admission /\ retire' = retire /\ snapshot' = snapshot /\ UNCHANGED queueVars
      /\ local' = local /\ global' = global /\ pending' = pending /\ runLock' = runLock
      /\ gmutex' = gmutex /\ UNCHANGED coVars /\ hand' = hand /\ dest' = dest /\ got' = got
      /\ steals' = steals /\ running' = running /\ mmutex' = mmutex /\ inflight' = inflight
      /\ why' = why /\ todo' = todo /\ pc[w] = "exit" /\ pc' = [pc EXCEPT ![w] = "exited"]
      /\ life' = [life EXCEPT ![w] = "Exited"]
  BY DEF Exit, Goto, queueVars, lockVars, coVars
<1>2. /\ TypeOK /\ CallShape(w) /\ HandShape(w) /\ MapHeld(w) /\ w \in Actors
      /\ RunShape(w) /\ LifeShape(w)
  BY <1>1, ActorShapes
<1>3. /\ pc'[w] = "exited" /\ OthersStay(w) /\ life'[w] = "Exited"
      /\ \A v \in Workers \ {w} : life'[v] = life[v]
  BY <1>1, <1>2 DEF OthersStay, TypeOK, LifeTypes, ActorTypes, coVars
<1>4. TypeOK'
  <2>1. LifeTypes' /\ QueueTypes' /\ CoTypes'
    BY <1>1, <1>2 DEF TypeOK, LifeTypes, QueueTypes, CoTypes, coVars, Lives
  <2>2. ActorTypes'
    BY <1>1, <1>2 DEF TypeOK, ActorTypes, WorkerPC
  <2> QED  BY <2>1, <2>2 DEF TypeOK
<1>5. Shape'
  <2>1. CallShape(w)' /\ HandShape(w)' /\ RunShape(w)'
    BY <1>1, <1>2, <1>3 DEF CallShape, HandShape, RunShape, CallPC
  <2>2. GatesOpenOnce
    BY <1>1, <1>3 DEF GatesOpenOnce
  <2> QED  BY <1>2, <1>3, <2>1, <2>2, ShapeStep
<1>6. MapLock'
  <2>1. MapHeld(w)'
    BY <1>1, <1>2, <1>3 DEF MapHeld, CallShape
  <2> QED  BY <1>1, <1>2, <1>3, <2>1, MapStep
<1>7. Drained(w) /\ Emptied(w) /\ retire[w] /\ w \notin snapshot
  BY <1>1, <1>2 DEF Drained, Emptied, LifeShape
<1>8. Lifecycle'
  <2>1. ASSUME NEW v \in Workers PROVE LifeShape(v)'
    <3>1. LifeShape(v) /\ (v # w => pc'[v] = pc[v] /\ why'[v] = why[v])
      BY <1>3 DEF ProcInv, Lifecycle, OthersStay
    <3>2. v \in snapshot /\ ~admission[v] => \E b \in Actors : pc'[b] = "retiring" /\ v \in todo'[b]
      BY <1>1, <1>2, <3>1 DEF LifeShape, TypeOK, ActorTypes
    <3>3. CASE v = w
      BY <1>1, <1>2, <1>3, <1>7, <3>3 DEF LifeShape
    <3>4. CASE v # w
      BY <1>1, <1>3, <3>1, <3>2, <3>4 DEF LifeShape, Drained
    <3> QED  BY <3>3, <3>4
  <2>2. ASSUME NEW b \in Actors PROVE ShrinkShape(b)'
    BY <1>1, <1>3 DEF ProcInv, Lifecycle, ShrinkShape, OthersStay
  <2> QED  BY <1>1, <2>1, <2>2 DEF ProcInv, Lifecycle
<1>9. InflightCounts' /\ DrainHolds' /\ InOnePlace' /\ LocalAnnounced'
  BY <1>1, <1>2, <1>3, <1>7, ResizeStep
<1>10. GlobalCovered'
  <2>1. ~Covers(w)
    BY <1>1, <1>7 DEF Covers, WillNotify, WillLook, Closing
  <2>2. ASSUME NEW b \in Actors, Covers(b) PROVE Covers(b)'
    <3>1. b # w /\ pc'[b] = pc[b] /\ why'[b] = why[b]
      BY <1>3, <2>1, <2>2 DEF OthersStay
    <3> QED  BY <1>1, <1>3, <2>2, <3>1 DEF Covers, WillNotify, WillLook, Sleeping, MaySleep,
                                           Closing, Emptied
  <2> QED  BY <1>1, <2>2 DEF ProcInv, GlobalCovered
<1> QED  BY <1>4, <1>5, <1>6, <1>8, <1>9, <1>10 DEF ProcInv

-----------------------------------------------------------------------------
(* The theorems.                                                            *)

\* The invariant holds at the start.
LEMMA InitProcInv == Init => ProcInv
<1> SUFFICES ASSUME Init PROVE ProcInv
  OBVIOUS
<1>1. TypeOK
  BY DEF Init, TypeOK, LifeTypes, QueueTypes, ActorTypes, CoTypes, Lives, Whys, WorkerPC, CallPC
<1>2. Shape
  BY DEF Init, Shape, CallShape, HandShape, RunShape, CallPC
<1>3. MapLock /\ DrainHolds
  BY DEF Init, MapLock, MapHeld, DrainHolds, Drained, Emptied
<1>4. Lifecycle
  <2>1. \A w \in Workers : LifeShape(w)
    BY DEF Init, LifeShape, Drained
  <2>2. \A a \in Actors : ShrinkShape(a)
    BY DEF Init, ShrinkShape
  <2> QED  BY <2>1, <2>2 DEF Init, Lifecycle
<1>5. InflightCounts
  <2>1. \A w \in Workers : Registered(w) = {}
    BY DEF Init, Registered
  <2> QED  BY <2>1, FS_EmptySet DEF Init, InflightCounts
<1>6. InOnePlace
  <2>1. \A c \in Coroutines, j \in Kinds, x \in Owners : In(c, j, x) <=> j = "fresh" /\ x = NoActor
    BY DEF Init, In, Kinds, Owners
  <2> QED  BY <2>1 DEF InOnePlace, Kinds, Owners
<1>7. LocalAnnounced /\ GlobalCovered
  BY DEF Init, LocalAnnounced, Sleeping, GlobalCovered
<1> QED  BY <1>1, <1>2, <1>3, <1>4, <1>5, <1>6, <1>7 DEF ProcInv

\* Every step preserves it.
LEMMA NextProcInv ==
    ASSUME ProcInv, [Next]_vars
    PROVE  ProcInv'
<1>1. CASE UNCHANGED vars
  <2>1. /\ UNCHANGED <<life, admission, retire, snapshot, inflight, local, global, pending>>
        /\ UNCHANGED <<runLock, gmutex, mmutex, pc, why, hand, dest, todo, got, running>>
        /\ UNCHANGED <<fresh, parked, done, rejected, steals>>
    BY <1>1 DEF vars
  <2>2. TypeOK' /\ Shape' /\ MapLock'
    BY <2>1 DEF ProcInv, TypeOK, LifeTypes, QueueTypes, ActorTypes, CoTypes, Shape, CallShape,
                HandShape, RunShape, MapLock, MapHeld
  <2>3. Lifecycle' /\ InflightCounts' /\ DrainHolds'
    BY <2>1 DEF ProcInv, Lifecycle, LifeShape, ShrinkShape, InflightCounts, Registered, DrainHolds,
                Drained, Emptied
  <2>4. InOnePlace'
    BY <2>1, PlacesKept DEF coVars
  <2>5. LocalAnnounced' /\ GlobalCovered'
    BY <2>1 DEF ProcInv, LocalAnnounced, Sleeping, Announces, GlobalCovered, Covers, WillNotify,
                WillLook, MaySleep, Closing, Emptied
  <2> QED  BY <2>2, <2>3, <2>4, <2>5 DEF ProcInv
<1>2. ASSUME NEW a \in Actors, CallStep(a) PROVE ProcInv'
  BY <1>2, CheckInv, RegisterInv, RecheckInv, InsertInv, RefusedInv, GlobalInv, BroadcastInv,
     CommitShrinkInv, PublishInv DEF CallStep
<1>3. ASSUME NEW a \in Actors, UserCall(a) PROVE ProcInv'
  BY <1>3, RegistInv, ActivateInv, BeginRetireInv, ExpandInv DEF UserCall
<1>4. ASSUME NEW w \in Workers, LoopStep(w) PROVE ProcInv'
  <2>1. ASSUME NEW c \in Coroutines, PullOne(w, c) \/ Pick(w, c) \/ DrainOne(w, c) PROVE ProcInv'
    BY <2>1, PullOneInv, PickInv, DrainOneInv
  <2>2. ASSUME NEW v \in Workers, StealFrom(w, v) \/ \E c \in Coroutines : Take(w, v, c)
        PROVE  ProcInv'
    BY <2>2, TakeInv, LoopTurn
  <2>3. CASE \/ WorkerMain(w) \/ Loop(w) \/ PickNone(w) \/ Idle(w) \/ Fair(w)
             \/ StealNothing(w) \/ TakeEnd(w)
    BY <2>3, LoopTurn
  <2>4. CASE Ask(w) \/ PullEnd(w)
    BY <2>4, PullTurn
  <2>5. CASE WaitForWork(w) \/ Decide(w) \/ Wake(w)
    BY <2>5, SleepTurn
  <2>6. CASE WaitQuiescent(w) \/ DrainEnd(w) \/ Exit(w)
    BY <2>6, DrainTurn, ExitInv
  <2> QED  BY <1>4, <2>1, <2>2, <2>3, <2>4, <2>5, <2>6 DEF LoopStep
<1>5. ASSUME NEW w \in Workers, YieldReady(w) \/ YieldAway(w) \/ WakeByTimer(w) PROVE ProcInv'
  BY <1>5, YieldReadyInv, YieldAwayInv, SleepTurn
<1> QED  BY <1>1, <1>2, <1>3, <1>4, <1>5 DEF Next

\* The inductive invariant of the scheduler's queues.
THEOREM ProcesserInvariance == Spec => []ProcInv
<1>1. Init => ProcInv
  BY InitProcInv
<1>2. ProcInv /\ [Next]_vars => ProcInv'
  BY NextProcInv
<1> QED  BY <1>1, <1>2, PTL DEF Spec

\* A coroutine that is in one place is counted once.
LEMMA OnePlaceOnce ==
    ASSUME TypeOK, InOnePlace, NEW c \in Coroutines
    PROVE  Places(c) = 1
<1>1. PICK k \in Kinds, i \in Owners :
          \A j \in Kinds, x \in Owners : In(c, j, x) <=> j = k /\ x = i
  BY DEF InOnePlace
<1>2. /\ {w \in Workers : c \in local[w]} = IF k = "local" THEN {i} ELSE {}
      /\ k = "local" => i \in Workers
  <2>1. \A w \in Workers : c \in local[w] <=> In(c, "local", w)
    BY DEF In
  <2>2. k = "local" => i \in Workers
    BY <1>1 DEF In
  <2>3. \A w \in Workers : c \in local[w] <=> k = "local" /\ w = i
    BY <1>1, <2>1 DEF Kinds, Owners
  <2> QED  BY <2>2, <2>3
<1>3. {a \in Actors : hand[a] = c} = IF k = "hand" THEN {i} ELSE {}
  <2>1. \A a \in Actors : hand[a] = c <=> In(c, "hand", a)
    BY DEF In
  <2>2. k = "hand" => i \in Actors
    BY <1>1 DEF In
  <2>3. \A a \in Actors : hand[a] = c <=> k = "hand" /\ a = i
    BY <1>1, <2>1 DEF Kinds, Owners
  <2> QED  BY <2>2, <2>3
<1>4. {w \in Workers : running[w] = c} = IF k = "running" THEN {i} ELSE {}
  <2>1. \A w \in Workers : running[w] = c <=> In(c, "running", w)
    BY DEF In
  <2>2. k = "running" => i \in Workers
    BY <1>1 DEF In
  <2>3. \A w \in Workers : running[w] = c <=> k = "running" /\ w = i
    BY <1>1, <2>1 DEF Kinds, Owners
  <2> QED  BY <2>2, <2>3
<1>5. /\ c \in fresh <=> k = "fresh"
      /\ c \in parked <=> k = "parked"
      /\ c \in done <=> k = "done"
      /\ c \in rejected <=> k = "rejected"
      /\ c \in global <=> k = "global"
  <2>1. k \in {"fresh", "parked", "done", "rejected", "global"} => i = NoActor
    BY <1>1 DEF In
  <2>2. NoActor \in Owners
    BY DEF Owners
  <2> QED  BY <1>1, <2>1, <2>2 DEF In, Kinds
<1>6. Cardinality({i}) = 1 /\ Cardinality({}) = 0
  BY FS_Singleton, FS_EmptySet
<1> HIDE DEF Kinds
<1>7. /\ Cardinality({w \in Workers : c \in local[w]}) = IF k = "local" THEN 1 ELSE 0
      /\ Cardinality({a \in Actors : hand[a] = c}) = IF k = "hand" THEN 1 ELSE 0
      /\ Cardinality({w \in Workers : running[w] = c}) = IF k = "running" THEN 1 ELSE 0
  BY <1>2, <1>3, <1>4, <1>6
<1> QED  BY <1>5, <1>7 DEF Places, Within, Kinds

\* No coroutine is lost or there twice, however enqueues, steals, wakeups and resizes
\* interleave, and nothing is left with a worker that has retired
\* (Processer::AddCoroutineTask, Steal, _DrainLocalToGlobal, the global queue).
THEOREM NothingLostHolds == Spec => []NothingLost
<1>1. ProcInv => NothingLost
  <2> SUFFICES ASSUME ProcInv PROVE NothingLost
    OBVIOUS
  <2>1. TypeOK /\ Conserved
    BY OnePlaceOnce DEF ProcInv, Conserved
  <2>2. RetiredEmpty
    <3> SUFFICES ASSUME NEW w \in Workers, life[w] = "Exited"
                 PROVE  /\ local[w] = {}
                        /\ \A a \in Actors : ~(pc[a] = "insert" /\ dest[a] = w)
      BY DEF RetiredEmpty
    <3>1. Drained(w) /\ Emptied(w)
      BY DEF ProcInv, Lifecycle, LifeShape, Drained, Emptied
    <3> QED  BY <3>1 DEF ProcInv, DrainHolds
  <2> QED  BY <2>1, <2>2 DEF NothingLost
<1> QED  BY <1>1, ProcesserInvariance, PTL

\* _LoadBlance2Proc is never refused: it holds m_processer_map_mutex, and only under
\* that mutex does a shrink close the gate of a worker of the snapshot.
THEOREM RegistAcceptedHolds == Spec => []RegistAccepted
<1>1. ProcInv => RegistAccepted
  BY DEF ProcInv, MapLock, MapHeld, RegistAccepted
<1> QED  BY <1>1, ProcesserInvariance, PTL

\* No worker sleeps on its own work without a notification under way, and not all
\* active workers sleep on the global queue unless somebody is about to notify
\* (_PublishRunnable, _WaitForWork, the broadcast after a drain).
THEOREM NoSleepOnWorkHolds == Spec => []NoSleepOnWork
<1>1. ProcInv => NoSleepOnWork
  <2> SUFFICES ASSUME ProcInv PROVE NoSleepOnWork
    OBVIOUS
  <2>1. \A w \in Workers : Sleeping(w) /\ local[w] # {} =>
            \E a \in Actors : pc[a] = "publish" /\ w \in todo[a]
    BY DEF ProcInv, LocalAnnounced, Announces
  <2>2. ASSUME global # {}, \A w \in snapshot : Sleeping(w)
        PROVE  \/ \E a \in Actors : pc[a] \in {"broadcast", "publish"}
               \/ \E w \in Workers : ~admission[w] /\ life[w] \in {"Active", "Retiring"}
    <3>1. PICK a \in Actors : Covers(a)
      BY <2>2 DEF ProcInv, GlobalCovered
    <3> QED  BY <2>2, <3>1 DEF Covers, WillNotify, WillLook, Closing
  <2> QED  BY <2>1, <2>2 DEF NoSleepOnWork
<1> QED  BY <1>1, ProcesserInvariance, PTL
=============================================================================
