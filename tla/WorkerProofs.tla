----------------------------- MODULE WorkerProofs -----------------------------
(***************************************************************************)
(* The safety of a worker's driver slot and of resizing, and the fairness  *)
(* of its run queue, for any number of threads, workers, coroutines and    *)
(* driver generations and any weights.                                     *)
(***************************************************************************)
EXTENDS ProcesserDriver, ProcesserScaling, CfsRunQueue,
        FiniteSetTheorems, SequenceTheorems, WellFoundedInduction, TLAPS

-----------------------------------------------------------------------------
(* The driver slot.                                                         *)

WorkerLabels == {"tickRead", "tickLease", "tick", "run", "waitRead", "waitLease", "recheck",
                 "waiting", "plain", "asleep"}
Leading == {"leaderWake", "leaderWoke", "leaderWait", "leaderDetach", "leaderPublish", "leaderDone"}
Unregistering == Leading \cup {"unregister", "join"}
Handing == Unregistering \cup {"wakeLease", "wake", "woke"}
ControlLabels == Handing \cup {"out", "publish", "wakeRead"}

\* Who has a binding in hand, and which.
DriverLabels ==
    /\ wpc \in WorkerLabels /\ wgen \in 0 .. lastGen
    /\ wpc \in {"tickLease", "tick", "waitLease", "recheck", "waiting"} => wgen # 0
    /\ cpc \in [Controls -> ControlLabels] /\ cgen \in [Controls -> 0 .. lastGen]
    /\ \A t \in Controls : cpc[t] \in Handing => cgen[t] # 0
    /\ bound <= lastGen /\ tasks <= given

\* m_inflight counts the threads inside a callback.
ControlHolders(g) == {t \in Controls : HoldsLease(t, g)}
WorkerHolds(g) == wgen = g /\ wpc \in {"tick", "recheck", "waiting"}
LeaseCount(g) ==
    binding[g].inflight = Cardinality(ControlHolders(g)) + IF WorkerHolds(g) THEN 1 ELSE 0

\* A generation that is off the slot has been detached by a leader who was asked to
\* and has seen all callbacks return; none can be granted again.
SlotShape(g) ==
    /\ g <= lastGen /\ bound # g => binding[g].inflight = 0 /\ binding[g].state = "Detaching"
    /\ g <= lastGen => binding[g].state # "Unbound"
    /\ g > lastGen => /\ binding[g].state = "Unbound" /\ binding[g].inflight = 0
                      /\ ~binding[g].reserved /\ ~binding[g].detached /\ g \notin gone
    /\ binding[g].state = "Detaching" <=> binding[g].reserved
    /\ binding[g].detached => bound # g
    /\ binding[g].reserved => g \in asked
    /\ g \in gone => bound # g

UnregisterShape(t) ==
    /\ cpc[t] \in Leading => binding[cgen[t]].reserved
    /\ cpc[t] \in {"leaderDetach", "leaderPublish", "leaderDone"} => bound # cgen[t]
    /\ cpc[t] \in Unregistering => cgen[t] \in asked

DriverInv ==
    /\ DriverTypeOK /\ DriverLabels
    /\ \A g \in Generations : LeaseCount(g) /\ SlotShape(g)
    /\ \A t \in Controls : UnregisterShape(t)

\* A generation in hand is one that was given out.
LEMMA InHand ==
    ASSUME DriverInv
    PROVE  /\ wgen # 0 => wgen \in Generations
           /\ bound # 0 => bound \in Generations
           /\ \A t \in Controls : cgen[t] # 0 => cgen[t] \in Generations
BY ProcesserDriverAssumption
   DEF DriverInv, DriverTypeOK, DriverLabels, Generations, ProcesserDriverAssumption

\* The counts of a generation: none inside a callback means none holds a lease.
LEMMA HoldersCounted ==
    ASSUME DriverInv, NEW g \in Generations
    PROVE  /\ IsFiniteSet(ControlHolders(g)) /\ Cardinality(ControlHolders(g)) \in Nat
           /\ binding[g].inflight = 0 => ~WorkerHolds(g) /\ \A t \in Controls : ~HoldsLease(t, g)
           /\ WorkerHolds(g) \/ (\E t \in Controls : HoldsLease(t, g)) => binding[g].inflight > 0
<1>1. IsFiniteSet(ControlHolders(g)) /\ Cardinality(ControlHolders(g)) \in Nat
  BY ProcesserDriverAssumption, FS_Subset, FS_CardinalityType
     DEF ProcesserDriverAssumption, ControlHolders
<1>2. LeaseCount(g)
  BY DEF DriverInv
<1>3. Cardinality(ControlHolders(g)) = 0 => \A t \in Controls : ~HoldsLease(t, g)
  BY <1>1, FS_EmptySet DEF ControlHolders
<1> QED  BY <1>1, <1>2, <1>3 DEF LeaseCount

\* A lease is held only on the generation in the slot.
LEMMA LeasedIsBound ==
    ASSUME DriverInv
    PROVE  /\ \A g \in Generations : WorkerHolds(g) => bound = g
           /\ \A g \in Generations, t \in Controls : HoldsLease(t, g) => bound = g
<1> SUFFICES ASSUME NEW g \in Generations, WorkerHolds(g) \/ \E t \in Controls : HoldsLease(t, g)
             PROVE  bound = g
  OBVIOUS
<1>1. binding[g].inflight > 0
  BY HoldersCounted
<1>2. SlotShape(g)
  BY DEF DriverInv
<1>3. g \in Nat /\ lastGen \in Nat
  BY ProcesserDriverAssumption DEF DriverInv, DriverTypeOK, Generations, ProcesserDriverAssumption
<1> QED  BY <1>1, <1>2, <1>3 DEF SlotShape

-----------------------------------------------------------------------------
\* A step that changes no binding: the counts stay if nobody gets or loses a lease.
LEMMA CountKept ==
    ASSUME DriverInv, NEW g \in Generations, binding'[g].inflight = binding[g].inflight,
           WorkerHolds(g)' <=> WorkerHolds(g),
           \A t \in Controls : HoldsLease(t, g)' <=> HoldsLease(t, g)
    PROVE  LeaseCount(g)'
<1>1. LeaseCount(g) /\ ControlHolders(g)' = ControlHolders(g)
  BY DEF DriverInv, ControlHolders
<1> QED  BY <1>1 DEF LeaseCount

\* The lease count follows the worker while the control threads keep theirs.
LEMMA WorkerCounts ==
    ASSUME DriverInv, NEW g \in Generations,
           \A t \in Controls : HoldsLease(t, g)' <=> HoldsLease(t, g),
           binding'[g].inflight = binding[g].inflight + (IF WorkerHolds(g)' THEN 1 ELSE 0)
                                                      - (IF WorkerHolds(g) THEN 1 ELSE 0)
    PROVE  LeaseCount(g)' /\ binding'[g].inflight \in Nat
<1>1. LeaseCount(g) /\ ControlHolders(g)' = ControlHolders(g)
  BY DEF DriverInv, ControlHolders
<1>2. Cardinality(ControlHolders(g)) \in Nat
  BY HoldersCounted
<1> QED  BY <1>1, <1>2 DEF LeaseCount

\* A control thread obtains a lease.
LEMMA ControlJoins ==
    ASSUME DriverInv, NEW g \in Generations, NEW t \in Controls,
           ~HoldsLease(t, g), HoldsLease(t, g)', WorkerHolds(g)' <=> WorkerHolds(g),
           \A s \in Controls \ {t} : HoldsLease(s, g)' <=> HoldsLease(s, g),
           binding'[g].inflight = binding[g].inflight + 1
    PROVE  LeaseCount(g)'
<1>1. /\ LeaseCount(g) /\ ControlHolders(g)' = ControlHolders(g) \cup {t}
      /\ t \notin ControlHolders(g)
  BY DEF DriverInv, ControlHolders
<1>2. IsFiniteSet(ControlHolders(g)) /\ Cardinality(ControlHolders(g)) \in Nat
  BY HoldersCounted
<1>3. Cardinality(ControlHolders(g)') = Cardinality(ControlHolders(g)) + 1
  BY <1>1, <1>2, FS_AddElement
<1> QED  BY <1>1, <1>2, <1>3 DEF LeaseCount

\* A control thread gives a lease back.
LEMMA ControlLeaves ==
    ASSUME DriverInv, NEW g \in Generations, NEW t \in Controls,
           HoldsLease(t, g), ~HoldsLease(t, g)', WorkerHolds(g)' <=> WorkerHolds(g),
           \A s \in Controls \ {t} : HoldsLease(s, g)' <=> HoldsLease(s, g),
           binding'[g].inflight = binding[g].inflight - 1
    PROVE  LeaseCount(g)' /\ binding'[g].inflight \in Nat
<1>1. /\ LeaseCount(g) /\ ControlHolders(g)' = ControlHolders(g) \ {t}
      /\ t \in ControlHolders(g)
  BY DEF DriverInv, ControlHolders
<1>2. IsFiniteSet(ControlHolders(g)) /\ Cardinality(ControlHolders(g)) \in Nat
  BY HoldersCounted
<1>3. /\ Cardinality(ControlHolders(g)') = Cardinality(ControlHolders(g)) - 1
      /\ Cardinality(ControlHolders(g)') \in Nat
  BY <1>1, <1>2, FS_RemoveElement, FS_CardinalityType
<1> QED  BY <1>1, <1>2, <1>3 DEF LeaseCount

\* The bindings, before it is known that no count runs below zero.
Bindings == [Generations -> [state : States, inflight : Int, reserved : BOOLEAN, detached : BOOLEAN]]

\* A step of the worker: it gets or loses a lease and the count follows, and the
\* state of a binding changes from Bound to Failed at most.
LEMMA WorkerStep ==
    ASSUME DriverInv, WorkerKeeps,
           wpc' \in WorkerLabels, wgen' \in 0 .. lastGen,
           wpc' \in {"tickLease", "tick", "waitLease", "recheck", "waiting"} => wgen' # 0,
           memo' \in [Generations -> BOOLEAN], quiet' \in BOOLEAN, tasks' \in 0 .. tasks,
           binding' \in Bindings,
           \A g \in Generations :
              /\ binding'[g].inflight = binding[g].inflight + (IF WorkerHolds(g)' THEN 1 ELSE 0)
                                                            - (IF WorkerHolds(g) THEN 1 ELSE 0)
              /\ binding'[g].state = binding[g].state
                 \/ (binding[g].state = "Bound" /\ binding'[g].state = "Failed")
              /\ binding'[g].reserved = binding[g].reserved
              /\ binding'[g].detached = binding[g].detached
              /\ WorkerHolds(g)' => bound = g
    PROVE  DriverInv'
<1>1. /\ bound' = bound /\ lastGen' = lastGen /\ given' = given /\ cpc' = cpc /\ cgen' = cgen
      /\ pending' = pending /\ asked' = asked /\ gone' = gone
  BY DEF WorkerKeeps
<1>2. ASSUME NEW g \in Generations
      PROVE  LeaseCount(g)' /\ SlotShape(g)' /\ binding'[g].inflight \in Nat
  <2>1. LeaseCount(g)' /\ binding'[g].inflight \in Nat
    <3>1. \A t \in Controls : HoldsLease(t, g)' <=> HoldsLease(t, g)
      BY <1>1 DEF HoldsLease
    <3> QED  BY <3>1, WorkerCounts
  <2>2. SlotShape(g)'
    <3>1. SlotShape(g)
      BY DEF DriverInv
    <3>2. bound # g => ~WorkerHolds(g) /\ ~WorkerHolds(g)'
      BY LeasedIsBound
    <3>3. bound # g => binding'[g].inflight = binding[g].inflight
      BY <3>2 DEF DriverInv, DriverTypeOK
    <3>4. g > lastGen => bound # g
      BY ProcesserDriverAssumption
         DEF DriverInv, DriverTypeOK, DriverLabels, Generations, ProcesserDriverAssumption
    <3> QED  BY <1>1, <3>1, <3>3, <3>4 DEF SlotShape
  <2> QED  BY <2>1, <2>2
<1>3. ASSUME NEW t \in Controls PROVE UnregisterShape(t)'
  <2>1. UnregisterShape(t) /\ (cpc[t] \in Leading => cgen[t] \in Generations)
    BY InHand DEF DriverInv, DriverLabels, Handing, Unregistering
  <2> QED  BY <1>1, <2>1 DEF UnregisterShape
<1>4. DriverTypeOK'
  <2>1. binding' \in [Generations -> [state : States, inflight : Nat,
                                      reserved : BOOLEAN, detached : BOOLEAN]]
    BY <1>2 DEF Bindings
  <2>2. tasks' \in 0 .. MaxTasks
    BY ProcesserDriverAssumption DEF DriverInv, DriverTypeOK, ProcesserDriverAssumption
  <2> QED  BY <1>1, <2>1, <2>2 DEF DriverInv, DriverTypeOK
<1>5. DriverLabels'
  <2>1. tasks' <= given
    BY ProcesserDriverAssumption DEF DriverInv, DriverTypeOK, DriverLabels, ProcesserDriverAssumption
  <2> QED  BY <1>1, <2>1 DEF DriverInv, DriverLabels
<1> QED  BY <1>2, <1>3, <1>4, <1>5 DEF DriverInv

\* A lease changes one count and nothing else.
LEMMA LeaseEffect ==
    ASSUME DriverInv, NEW g \in Generations, Lease(g)
    PROVE  /\ binding' \in Bindings
           /\ \A h \in Generations :
                /\ binding'[h].inflight = binding[h].inflight + IF h = g THEN 1 ELSE 0
                /\ binding'[h].state = binding[h].state
                /\ binding'[h].reserved = binding[h].reserved
                /\ binding'[h].detached = binding[h].detached
BY DEF Lease, DriverInv, DriverTypeOK, Bindings

\* So does giving it back, except that a failure marks a bound binding.
LEMMA UnleaseEffect ==
    ASSUME DriverInv, NEW g \in Generations, Unlease(g) \/ FailAndUnlease(g)
    PROVE  /\ binding' \in Bindings
           /\ \A h \in Generations :
                /\ binding'[h].inflight = binding[h].inflight - IF h = g THEN 1 ELSE 0
                /\ binding'[h].state = binding[h].state
                   \/ (binding[h].state = "Bound" /\ binding'[h].state = "Failed")
                /\ Unlease(g) => binding'[h].state = binding[h].state
                /\ binding'[h].reserved = binding[h].reserved
                /\ binding'[h].detached = binding[h].detached
BY DEF Unlease, FailAndUnlease, DriverInv, DriverTypeOK, Bindings, States

\* The worker's steps: Tick, Wait and what they lease.
LEMMA WorkerInv ==
    ASSUME DriverInv, Worker
    PROVE  DriverInv'
<1>1. /\ wpc \in WorkerLabels /\ wgen \in 0 .. lastGen /\ bound \in 0 .. lastGen
      /\ memo \in [Generations -> BOOLEAN] /\ quiet \in BOOLEAN /\ tasks \in 0 .. MaxTasks
      /\ wpc \in {"tickLease", "tick", "waitLease", "recheck", "waiting"} => wgen \in Generations
      /\ binding \in Bindings /\ lastGen \in Nat /\ tasks \in 0 .. tasks /\ MaxTasks \in Nat
      /\ tasks > 0 => tasks - 1 \in 0 .. tasks
      /\ \A g \in Generations : binding[g].inflight \in Int
  BY InHand, ProcesserDriverAssumption
     DEF DriverInv, DriverTypeOK, DriverLabels, Generations, Bindings, ProcesserDriverAssumption
<1>2. \A g \in Generations : g # 0
  BY DEF Generations
<1> USE DEF WorkerTo, InTick, InWait
<1>3. CASE TickRead \/ WaitRead \/ RunTask \/ PlainWait \/ PlainWakes
  <2>1. /\ binding' = binding /\ memo' = memo /\ WorkerKeeps
        /\ wpc' \in WorkerLabels \ {"tick", "recheck", "waiting"}
        /\ wpc \notin {"tick", "recheck", "waiting"}
        /\ wpc' \in {"tickLease", "waitLease"} => wgen' # 0
        /\ wgen' \in 0 .. lastGen /\ quiet' \in BOOLEAN /\ tasks' \in 0 .. tasks
    BY <1>1, <1>3 DEF TickRead, WaitRead, RunTask, PlainWait, PlainWakes, WorkerLabels
  <2>2. \A g \in Generations : ~WorkerHolds(g) /\ ~WorkerHolds(g)'
    BY <2>1 DEF WorkerHolds
  <2> QED  BY <1>1, <2>1, <2>2, WorkerStep
<1>4. CASE TickLease \/ WaitLease
  <2>1. /\ memo' = memo /\ tasks' = tasks /\ quiet' = quiet /\ WorkerKeeps
        /\ wpc \in {"tickLease", "waitLease"} /\ wgen \in Generations
    BY <1>1, <1>4 DEF TickLease, WaitLease
  <2>2. CASE Granted(wgen)
    <3>1. Lease(wgen) /\ wgen' = wgen /\ wpc' \in {"tick", "recheck"} /\ bound = wgen
      <4>1. Lease(wgen) /\ wgen' = wgen /\ wpc' \in {"tick", "recheck"}
        BY <1>4, <2>2 DEF TickLease, WaitLease
      <4>2. SlotShape(wgen) /\ wgen <= lastGen
        BY <1>1, <2>1 DEF DriverInv
      <4> QED  BY <2>2, <4>1, <4>2 DEF SlotShape, Granted
    <3>2. /\ \A g \in Generations : ~WorkerHolds(g) /\ (WorkerHolds(g)' <=> g = wgen)
          /\ wgen' # 0
      BY <1>2, <2>1, <3>1 DEF WorkerHolds
    <3> HIDE DEF WorkerTo, InTick, InWait
    <3>3. /\ binding' \in Bindings
          /\ \A h \in Generations :
                /\ binding'[h].inflight = binding[h].inflight + IF h = wgen THEN 1 ELSE 0
                /\ binding'[h].state = binding[h].state
                /\ binding'[h].reserved = binding[h].reserved
                /\ binding'[h].detached = binding[h].detached
      BY <2>1, <3>1, LeaseEffect
    <3>4. \A h \in Generations :
             binding'[h].inflight = binding[h].inflight + (IF WorkerHolds(h)' THEN 1 ELSE 0)
                                                        - (IF WorkerHolds(h) THEN 1 ELSE 0)
      BY <1>1, <3>2, <3>3
    <3> QED  BY <1>1, <2>1, <3>1, <3>2, <3>3, <3>4, WorkerStep DEF WorkerLabels
  <2>3. CASE ~Granted(wgen)
    <3>1. binding' = binding /\ wgen' = 0 /\ wpc' \in {"run", "plain"}
      BY <1>4, <2>3 DEF TickLease, WaitLease
    <3>2. \A g \in Generations : ~WorkerHolds(g) /\ ~WorkerHolds(g)'
      BY <2>1, <3>1 DEF WorkerHolds
    <3> QED  BY <1>1, <2>1, <3>1, <3>2, WorkerStep DEF WorkerLabels
  <2> QED  BY <2>2, <2>3
<1>5. CASE Recheck /\ tasks = 0 /\ quiet
  <2>1. /\ binding' = binding /\ memo' = memo /\ tasks' = tasks /\ quiet' = quiet
        /\ wpc = "recheck" /\ wpc' = "waiting" /\ wgen' = wgen /\ WorkerKeeps
    BY <1>5 DEF Recheck
  <2>2. /\ \A g \in Generations : (WorkerHolds(g)' <=> WorkerHolds(g))
        /\ wgen # 0
    BY <1>1, <1>2, <2>1 DEF WorkerHolds
  <2>3. \A g \in Generations : WorkerHolds(g) => bound = g
    BY LeasedIsBound
  <2> QED  BY <1>1, <2>1, <2>2, <2>3, WorkerStep DEF WorkerLabels
<1>6. CASE OnTick \/ WaitReturns \/ (Recheck /\ ~(tasks = 0 /\ quiet))
  <2>1. /\ tasks' = tasks /\ quiet' \in BOOLEAN /\ WorkerKeeps /\ wgen' = 0
        /\ wpc \in {"tick", "recheck", "waiting"} /\ wgen \in Generations
        /\ wpc' \in {"run", "tickRead"} /\ (Unlease(wgen) \/ FailAndUnlease(wgen))
        /\ memo' \in [Generations -> BOOLEAN]
    BY <1>1, <1>6 DEF OnTick, WaitReturns, Recheck
  <2>2. \A g \in Generations : (WorkerHolds(g) <=> g = wgen) /\ ~WorkerHolds(g)'
    BY <2>1 DEF WorkerHolds
  <2> HIDE DEF WorkerTo, InTick, InWait
  <2>3. /\ binding' \in Bindings
        /\ \A h \in Generations :
              /\ binding'[h].inflight = binding[h].inflight - IF h = wgen THEN 1 ELSE 0
              /\ binding'[h].state = binding[h].state
                 \/ (binding[h].state = "Bound" /\ binding'[h].state = "Failed")
              /\ binding'[h].reserved = binding[h].reserved
              /\ binding'[h].detached = binding[h].detached
    BY <2>1, UnleaseEffect
  <2>4. \A h \in Generations :
           binding'[h].inflight = binding[h].inflight + (IF WorkerHolds(h)' THEN 1 ELSE 0)
                                                      - (IF WorkerHolds(h) THEN 1 ELSE 0)
    BY <1>1, <2>2, <2>3
  <2> QED  BY <1>1, <2>1, <2>2, <2>3, <2>4, WorkerStep DEF WorkerLabels
<1> QED  BY <1>3, <1>4, <1>5, <1>6 DEF Worker

-----------------------------------------------------------------------------
\* A step of one control thread.
OtherControls(t) == \A s \in Controls \ {t} : cpc'[s] = cpc[s] /\ cgen'[s] = cgen[s]

\* A control thread's step, from what it does to its own part.
LEMMA ControlStep ==
    ASSUME DriverInv, NEW t \in Controls, wpc' = wpc, wgen' = wgen, OtherControls(t),
           cpc' \in [Controls -> ControlLabels], cgen' \in [Controls -> 0 .. lastGen'],
           lastGen <= lastGen', cpc'[t] \in Handing => cgen'[t] # 0, bound' <= lastGen',
           tasks' <= given', DriverTypeOK', asked \subseteq asked', UnregisterShape(t)',
           \A g \in Generations :
              /\ LeaseCount(g)' /\ SlotShape(g)'
              /\ binding[g].reserved => binding'[g].reserved
              /\ g <= lastGen /\ bound # g => bound' # g
    PROVE  DriverInv'
<1>1. ASSUME NEW s \in Controls \ {t} PROVE UnregisterShape(s)'
  <2>1. cpc'[s] = cpc[s] /\ cgen'[s] = cgen[s] /\ UnregisterShape(s)
    BY DEF OtherControls, DriverInv
  <2>2. cpc[s] \in Leading => cgen[s] \in Generations /\ cgen[s] <= lastGen
    BY InHand, ProcesserDriverAssumption
       DEF DriverInv, DriverLabels, DriverTypeOK, Handing, Unregistering, ProcesserDriverAssumption
  <2> QED  BY <2>1, <2>2 DEF UnregisterShape, Leading, Unregistering
<1>2. DriverLabels'
  <2>1. wgen' \in 0 .. lastGen'
    BY ProcesserDriverAssumption DEF DriverInv, DriverLabels, DriverTypeOK, ProcesserDriverAssumption
  <2>2. \A s \in Controls : cpc'[s] \in Handing => cgen'[s] # 0
    BY DEF DriverInv, DriverLabels, OtherControls
  <2> QED  BY <2>1, <2>2 DEF DriverInv, DriverLabels
<1> QED  BY <1>1, <1>2 DEF DriverInv

\* What is known of a control thread.
LEMMA ControlFacts ==
    ASSUME DriverInv, NEW t \in Controls
    PROVE  /\ cpc[t] \in ControlLabels /\ cgen[t] \in 0 .. lastGen
           /\ cpc[t] \in Handing => cgen[t] \in Generations /\ cgen[t] <= lastGen
           /\ bound \in 0 .. lastGen /\ lastGen \in Nat /\ 0 \in 0 .. lastGen
           /\ lastGen <= lastGen /\ MaxGeneration \in Nat
           /\ DriverTypeOK /\ DriverLabels /\ UnregisterShape(t)
<1>1. DriverTypeOK /\ DriverLabels /\ UnregisterShape(t)
  BY DEF DriverInv
<1>2. lastGen \in Nat /\ bound \in 0 .. lastGen /\ MaxGeneration \in Nat
  BY <1>1, ProcesserDriverAssumption
     DEF DriverTypeOK, DriverLabels, ProcesserDriverAssumption, Generations
<1>3. cpc[t] \in Handing => cgen[t] \in Generations /\ cgen[t] <= lastGen
  BY <1>1, <1>2, InHand DEF DriverLabels
<1> QED  BY <1>1, <1>2, <1>3 DEF DriverLabels

\* A step that leaves the slot, the bindings and everybody's leases as they are.
LEMMA ControlTurn ==
    ASSUME DriverInv, NEW t \in Controls, UNCHANGED <<bound, lastGen, binding, asked, gone, wpc, wgen>>,
           NEW p \in ControlLabels, cpc' = [cpc EXCEPT ![t] = p],
           NEW h \in 0 .. lastGen, cgen' = [cgen EXCEPT ![t] = h],
           p \in Handing => h # 0,
           memo' \in [Generations -> BOOLEAN], quiet' \in BOOLEAN,
           pending' \in [Controls -> {"none", "guard", "due"}],
           tasks' \in 0 .. MaxTasks, given' \in 0 .. MaxTasks, tasks' <= given',
           \A g \in Generations : HoldsLease(t, g)' <=> HoldsLease(t, g),
           UnregisterShape(t)'
    PROVE  DriverInv'
<1>1. /\ bound' = bound /\ lastGen' = lastGen /\ binding' = binding /\ asked' = asked
      /\ gone' = gone /\ wpc' = wpc /\ wgen' = wgen
  OBVIOUS
<1>2. /\ OtherControls(t) /\ cpc'[t] = p /\ cgen'[t] = h
      /\ cpc' \in [Controls -> ControlLabels] /\ cgen' \in [Controls -> 0 .. lastGen]
  BY DEF DriverInv, DriverLabels, OtherControls
<1>3. ASSUME NEW g \in Generations PROVE LeaseCount(g)' /\ SlotShape(g)'
  <2>1. WorkerHolds(g)' <=> WorkerHolds(g)
    BY <1>1 DEF WorkerHolds
  <2>2. \A s \in Controls : HoldsLease(s, g)' <=> HoldsLease(s, g)
    BY <1>2 DEF HoldsLease, OtherControls
  <2>3. SlotShape(g)'
    BY <1>1 DEF DriverInv, SlotShape
  <2> QED  BY <1>1, <2>1, <2>2, <2>3, CountKept
<1>4. DriverTypeOK'
  BY <1>1 DEF DriverInv, DriverTypeOK
<1>5. bound <= lastGen /\ lastGen <= lastGen
  BY ControlFacts DEF DriverLabels
<1> QED  BY <1>1, <1>2, <1>3, <1>4, <1>5, ControlStep

\* The steps of a control thread that touch no lease.
LEMMA TurnInv ==
    ASSUME DriverInv, NEW t \in Controls,
           Enqueue(t) \/ Publish(t) \/ GuardEnter(t) \/ GuardExit(t) \/ WakeRead(t) \/ Wake(t)
    PROVE  DriverInv'
<1>1. /\ cpc[t] \in ControlLabels /\ cgen[t] \in 0 .. lastGen
      /\ cpc[t] \in Handing => cgen[t] \in Generations
      /\ bound \in 0 .. lastGen /\ DriverTypeOK /\ DriverLabels /\ UnregisterShape(t)
      /\ cpc = [cpc EXCEPT ![t] = cpc[t]] /\ cgen = [cgen EXCEPT ![t] = cgen[t]]
      /\ tasks \in Nat /\ given \in Nat
  BY ControlFacts, ProcesserDriverAssumption DEF DriverLabels, DriverTypeOK, ProcesserDriverAssumption
<1>2. UNCHANGED <<bound, lastGen, binding, asked, gone, wpc, wgen>>
  BY DEF Enqueue, Publish, GuardEnter, GuardExit, WakeRead, Wake, ControlKeeps
<1> USE DEF ControlTo, Hand, ControlLabels, Handing, Unregistering, Leading
<1>3. CASE Enqueue(t)
  <2>1. /\ cpc[t] = "out" /\ cpc' = [cpc EXCEPT ![t] = "publish"] /\ cgen' = cgen
        /\ memo' = memo /\ quiet' = quiet /\ pending' = pending
        /\ tasks' = tasks + 1 /\ given' = given + 1 /\ given < MaxTasks
    BY <1>3 DEF Enqueue
  <2>2. cpc'[t] = "publish"
    BY <1>1, <2>1 DEF DriverLabels
  <2>3. tasks' \in 0 .. MaxTasks /\ given' \in 0 .. MaxTasks /\ tasks' <= given'
    BY <1>1, <2>1, ProcesserDriverAssumption
       DEF DriverTypeOK, DriverLabels, ProcesserDriverAssumption
  <2>4. UnregisterShape(t)' /\ \A g \in Generations : HoldsLease(t, g)' <=> HoldsLease(t, g)
    BY <2>1, <2>2 DEF UnregisterShape, HoldsLease
  <2>5. cgen' = [cgen EXCEPT ![t] = cgen[t]] /\ "publish" \in ControlLabels
        /\ "publish" \notin Handing
    BY <1>1, <2>1
  <2> HIDE DEF ControlTo, Hand, ControlLabels, Handing, Unregistering, Leading
  <2> QED  BY <1>1, <1>2, <2>1, <2>3, <2>4, <2>5, ControlTurn DEF DriverTypeOK
<1>4. CASE Publish(t) \/ Wake(t)
  <2>1. PICK p \in {"wakeRead", "leaderDone", "woke", "leaderWoke"} :
           /\ cpc' = [cpc EXCEPT ![t] = p] /\ cgen' = cgen /\ pending' = pending
           /\ tasks' = tasks /\ given' = given /\ quiet' \in BOOLEAN
           /\ memo' \in [Generations -> BOOLEAN]
           /\ p = "wakeRead" => cpc[t] = "publish"
           /\ p = "leaderDone" => cpc[t] = "leaderPublish"
           /\ p = "woke" => cpc[t] = "wake"
           /\ p = "leaderWoke" => cpc[t] = "leaderWake"
    BY <1>1, <1>4 DEF Publish, Wake, DriverTypeOK
  <2>2. cpc'[t] = p /\ cgen'[t] = cgen[t]
    BY <1>1, <2>1 DEF DriverLabels
  <2>3. UnregisterShape(t)' /\ \A g \in Generations : HoldsLease(t, g)' <=> HoldsLease(t, g)
    BY <1>1, <1>2, <2>1, <2>2 DEF UnregisterShape, HoldsLease
  <2>4. p \in Handing => cgen[t] # 0
    BY <1>1, <2>1 DEF DriverLabels
  <2>5. cgen' = [cgen EXCEPT ![t] = cgen[t]] /\ p \in ControlLabels
    BY <1>1, <2>1
  <2> HIDE DEF ControlTo, Hand, ControlLabels, Handing, Unregistering, Leading
  <2> QED  BY <1>1, <1>2, <2>1, <2>3, <2>4, <2>5, ControlTurn DEF DriverTypeOK, DriverLabels
<1>5. CASE GuardEnter(t) \/ GuardExit(t) \/ WakeRead(t)
  <2>1. PICK p \in {"out", "wakeRead", "wakeLease"}, h \in 0 .. lastGen :
           /\ cpc' = [cpc EXCEPT ![t] = p] /\ cgen' = [cgen EXCEPT ![t] = h]
           /\ p = "wakeLease" => h # 0
           /\ pending' \in [Controls -> {"none", "guard", "due"}]
           /\ tasks' = tasks /\ given' = given /\ quiet' = quiet /\ memo' = memo
           /\ cpc[t] \in {"out", "wakeRead"}
    <3>1. CASE GuardEnter(t)
      BY <1>1, <3>1 DEF GuardEnter, DriverTypeOK
    <3>2. CASE GuardExit(t)
      BY <1>1, <3>2 DEF GuardExit, DriverTypeOK
    <3>3. CASE WakeRead(t)
      BY <1>1, <3>3 DEF WakeRead, DriverTypeOK
    <3> QED  BY <1>5, <3>1, <3>2, <3>3
  <2>2. cpc'[t] = p
    BY <1>1, <2>1 DEF DriverLabels
  <2>3. UnregisterShape(t)' /\ \A g \in Generations : HoldsLease(t, g)' <=> HoldsLease(t, g)
    BY <2>1, <2>2 DEF UnregisterShape, HoldsLease
  <2>4. p \in ControlLabels /\ (p \in Handing => h # 0)
    BY <2>1
  <2> HIDE DEF ControlTo, Hand, ControlLabels, Handing, Unregistering, Leading
  <2> QED  BY <1>1, <1>2, <2>1, <2>3, <2>4, ControlTurn DEF DriverTypeOK, DriverLabels
<1> QED  BY <1>3, <1>4, <1>5

\* A wake takes a lease, or finds the slot empty.
LEMMA WakeLeaseInv ==
    ASSUME DriverInv, NEW t \in Controls, WakeLease(t)
    PROVE  DriverInv'
<1> DEFINE g == cgen[t]
<1>1. /\ bound' = bound /\ lastGen' = lastGen /\ memo' = memo /\ tasks' = tasks /\ given' = given
      /\ quiet' = quiet /\ pending' = pending /\ asked' = asked /\ gone' = gone
      /\ wpc' = wpc /\ wgen' = wgen /\ cpc[t] = "wakeLease"
  BY DEF WakeLease, ControlKeeps
<1>2. /\ g \in Generations /\ g <= lastGen /\ DriverTypeOK /\ DriverLabels /\ UnregisterShape(t)
      /\ lastGen \in Nat /\ bound \in 0 .. lastGen /\ SlotShape(g)
  BY <1>1, ControlFacts DEF Handing, DriverInv
<1>3. CASE ~Granted(g)
  <2>1. /\ binding' = binding /\ cpc' = [cpc EXCEPT ![t] = "out"] /\ cgen' = [cgen EXCEPT ![t] = 0]
    BY <1>3 DEF WakeLease, ControlTo, Hand
  <2>2. cpc'[t] = "out"
    BY <1>2, <2>1 DEF DriverLabels
  <2>3. UnregisterShape(t)' /\ \A h \in Generations : HoldsLease(t, h)' <=> HoldsLease(t, h)
    BY <1>1, <2>2 DEF UnregisterShape, HoldsLease, Leading, Unregistering
  <2>4. "out" \in ControlLabels /\ "out" \notin Handing /\ 0 \in 0 .. lastGen
    BY <1>2 DEF ControlLabels, Handing, Unregistering, Leading
  <2> QED  BY <1>1, <1>2, <2>1, <2>3, <2>4, ControlTurn DEF DriverTypeOK, DriverLabels
<1>4. CASE Granted(g)
  <2>1. /\ Lease(g) /\ cpc' = [cpc EXCEPT ![t] = "wake"] /\ cgen' = cgen
    BY <1>4 DEF WakeLease, ControlTo
  <2>2. /\ cpc'[t] = "wake" /\ cgen'[t] = g /\ OtherControls(t) /\ g # 0
        /\ cpc' \in [Controls -> ControlLabels] /\ cgen' \in [Controls -> 0 .. lastGen]
    BY <1>2, <2>1 DEF DriverLabels, ControlLabels, Handing, OtherControls, Generations
  <2> HIDE DEF g
  <2>3. /\ binding' \in Bindings
        /\ \A h \in Generations :
              /\ binding'[h].inflight = binding[h].inflight + IF h = g THEN 1 ELSE 0
              /\ binding'[h].state = binding[h].state
              /\ binding'[h].reserved = binding[h].reserved
              /\ binding'[h].detached = binding[h].detached
    BY <1>2, <2>1, LeaseEffect
  <2>4. \A h \in Generations : binding[h].inflight \in Nat
    BY <1>2 DEF DriverTypeOK
  <2>5. DriverTypeOK'
    <3>1. binding' \in [Generations -> [state : States, inflight : Nat,
                                        reserved : BOOLEAN, detached : BOOLEAN]]
      BY <2>3, <2>4 DEF Bindings
    <3> QED  BY <1>1, <1>2, <3>1 DEF DriverTypeOK
  <2>6. UnregisterShape(t)'
    BY <2>2 DEF UnregisterShape, Leading, Unregistering
  <2>7. ASSUME NEW h \in Generations PROVE LeaseCount(h)' /\ SlotShape(h)'
    <3>1. WorkerHolds(h)' <=> WorkerHolds(h)
      BY <1>1 DEF WorkerHolds
    <3>2. \A s \in Controls \ {t} : HoldsLease(s, h)' <=> HoldsLease(s, h)
      BY <2>2 DEF HoldsLease, OtherControls
    <3>3. ~HoldsLease(t, h) /\ (HoldsLease(t, h)' <=> h = g)
      BY <1>1, <2>2 DEF HoldsLease, g
    <3>4. LeaseCount(h)'
      <4>1. CASE h = g
        BY <2>3, <3>1, <3>2, <3>3, <4>1, ControlJoins
      <4>2. CASE h # g
        BY <2>3, <2>4, <3>1, <3>2, <3>3, <4>2, CountKept
      <4> QED  BY <4>1, <4>2
    <3>5. bound = g /\ binding[g].state = "Bound"
      BY <1>2, <1>4 DEF SlotShape, Granted
    <3>6. SlotShape(h) /\ (h # g => binding'[h].inflight = binding[h].inflight)
      BY <2>3, <2>4 DEF DriverInv
    <3>7. SlotShape(h)'
      BY <1>1, <1>2, <2>3, <3>5, <3>6 DEF SlotShape, Generations
    <3> QED  BY <3>4, <3>7
  <2>8. cpc'[t] \in Handing => cgen'[t] # 0
    BY <2>2
  <2> QED  BY <1>1, <1>2, <2>2, <2>3, <2>5, <2>6, <2>7, <2>8, ControlStep DEF DriverLabels
<1> QED  BY <1>3, <1>4

\* The Wake callback returns and gives its lease back.
LEMMA WakeReturnsInv ==
    ASSUME DriverInv, NEW t \in Controls, WakeReturns(t)
    PROVE  DriverInv'
<1> DEFINE g == cgen[t]
<1>1. /\ bound' = bound /\ lastGen' = lastGen /\ memo' = memo /\ tasks' = tasks /\ given' = given
      /\ quiet' = quiet /\ pending' = pending /\ asked' = asked /\ gone' = gone
      /\ wpc' = wpc /\ wgen' = wgen /\ cpc[t] \in {"woke", "leaderWoke"} /\ Unlease(g)
  BY DEF WakeReturns, ControlKeeps
<1>2. /\ g \in Generations /\ g <= lastGen /\ DriverTypeOK /\ DriverLabels /\ UnregisterShape(t)
      /\ lastGen \in Nat /\ bound \in 0 .. lastGen /\ SlotShape(g)
  BY <1>1, ControlFacts DEF Handing, Unregistering, Leading, DriverInv
<1>3. PICK p \in {"out", "leaderWait"}, h \in {0, g} :
         /\ cpc' = [cpc EXCEPT ![t] = p] /\ cgen' = [cgen EXCEPT ![t] = h]
         /\ p = "leaderWait" => cpc[t] = "leaderWoke" /\ h = g
  <2>1. cgen = [cgen EXCEPT ![t] = g]
    BY <1>2 DEF DriverLabels
  <2> QED  BY <1>1, <2>1 DEF WakeReturns, ControlTo, Hand
<1>4. /\ cpc'[t] = p /\ cgen'[t] = h /\ OtherControls(t) /\ g # 0
      /\ cpc' \in [Controls -> ControlLabels] /\ cgen' \in [Controls -> 0 .. lastGen]
  <2>1. p \in ControlLabels /\ h \in 0 .. lastGen /\ g # 0
    BY <1>2 DEF ControlLabels, Handing, Unregistering, Leading, Generations
  <2> QED  BY <1>2, <1>3, <2>1 DEF DriverLabels, OtherControls
<1>5. HoldsLease(t, g) /\ \A k \in Generations : (HoldsLease(t, k) => k = g) /\ ~HoldsLease(t, k)'
  BY <1>1, <1>3, <1>4 DEF HoldsLease
<1>6. p = "leaderWait" => binding[g].reserved /\ g \in asked
  BY <1>2, <1>3 DEF UnregisterShape, Leading, Unregistering
<1> HIDE DEF g
<1>7. /\ binding' \in Bindings
      /\ \A k \in Generations :
            /\ binding'[k].inflight = binding[k].inflight - IF k = g THEN 1 ELSE 0
            /\ binding'[k].state = binding[k].state
            /\ binding'[k].reserved = binding[k].reserved
            /\ binding'[k].detached = binding[k].detached
  BY <1>1, <1>2, UnleaseEffect
<1>8. \A k \in Generations : binding[k].inflight \in Nat
  BY <1>2 DEF DriverTypeOK
<1>9. ASSUME NEW k \in Generations
      PROVE  LeaseCount(k)' /\ SlotShape(k)' /\ binding'[k].inflight \in Nat
  <2>1. WorkerHolds(k)' <=> WorkerHolds(k)
    BY <1>1 DEF WorkerHolds
  <2>2. \A s \in Controls \ {t} : HoldsLease(s, k)' <=> HoldsLease(s, k)
    BY <1>4 DEF HoldsLease, OtherControls
  <2>3. LeaseCount(k)' /\ binding'[k].inflight \in Nat
    <3>1. CASE k = g
      BY <1>2, <1>5, <1>7, <2>1, <2>2, <3>1, ControlLeaves
    <3>2. CASE k # g
      <4>1. binding'[k].inflight = binding[k].inflight
        BY <1>7, <1>8, <3>2
      <4>2. \A s \in Controls : HoldsLease(s, k)' <=> HoldsLease(s, k)
        BY <1>5, <2>2, <3>2
      <4> QED  BY <1>8, <2>1, <4>1, <4>2, CountKept
    <3> QED  BY <3>1, <3>2
  <2>4. bound = g
    BY <1>2, <1>5, LeasedIsBound
  <2>5. SlotShape(k) /\ (k # g => binding'[k].inflight = binding[k].inflight)
    BY <1>7, <1>8 DEF DriverInv
  <2>6. SlotShape(k)'
    BY <1>1, <1>2, <1>7, <2>4, <2>5 DEF SlotShape, Generations
  <2> QED  BY <2>3, <2>6
<1>10. DriverTypeOK'
  <2>1. binding' \in [Generations -> [state : States, inflight : Nat,
                                      reserved : BOOLEAN, detached : BOOLEAN]]
    BY <1>7, <1>9 DEF Bindings
  <2> QED  BY <1>1, <1>2, <2>1 DEF DriverTypeOK
<1>11. UnregisterShape(t)' /\ (cpc'[t] \in Handing => cgen'[t] # 0)
  BY <1>1, <1>2, <1>3, <1>4, <1>6, <1>7 DEF UnregisterShape, Leading, Unregistering, Handing
<1> QED  BY <1>1, <1>2, <1>4, <1>7, <1>9, <1>10, <1>11, ControlStep DEF DriverLabels

\* RegisterProcesserDriver: the next generation, of which nothing is known yet.
LEMMA RegisterInv ==
    ASSUME DriverInv, NEW t \in Controls, Register(t)
    PROVE  DriverInv'
<1> DEFINE g == lastGen + 1
<1>1. /\ bound = 0 /\ bound' = g /\ lastGen' = g /\ memo' = memo /\ tasks' = tasks /\ given' = given
      /\ quiet' = quiet /\ pending' = pending /\ asked' = asked /\ gone' = gone /\ cgen' = cgen
      /\ wpc' = wpc /\ wgen' = wgen /\ cpc[t] = "out" /\ lastGen < MaxGeneration
      /\ binding' = [binding EXCEPT ![g].state = "Bound"] /\ cpc' = [cpc EXCEPT ![t] = "publish"]
  BY DEF Register, ControlKeeps, ControlTo
<1>2. /\ DriverTypeOK /\ DriverLabels /\ UnregisterShape(t) /\ lastGen \in Nat
      /\ MaxGeneration \in Nat /\ g \in Generations
  BY <1>1, ControlFacts DEF Generations
<1>3. /\ cpc'[t] = "publish" /\ OtherControls(t)
      /\ cpc' \in [Controls -> ControlLabels] /\ cgen' \in [Controls -> 0 .. lastGen']
  BY <1>1, <1>2 DEF DriverLabels, ControlLabels, OtherControls
<1>4. DriverTypeOK'
  <2>1. binding' \in [Generations -> [state : States, inflight : Nat,
                                      reserved : BOOLEAN, detached : BOOLEAN]]
    <3> HIDE DEF g
    <3> QED  BY <1>1, <1>2 DEF DriverTypeOK, States
  <2>2. bound' \in Generations /\ lastGen' \in 0 .. MaxGeneration
    BY <1>1, <1>2
  <2> QED  BY <1>1, <1>2, <2>1, <2>2 DEF DriverTypeOK
<1>5. /\ binding'[g].state = "Bound" /\ binding'[g].inflight = binding[g].inflight
      /\ binding'[g].reserved = binding[g].reserved /\ binding'[g].detached = binding[g].detached
      /\ \A k \in Generations \ {g} : binding'[k] = binding[k]
  BY <1>1, <1>2 DEF DriverTypeOK
<1>6. ASSUME NEW k \in Generations PROVE LeaseCount(k)' /\ SlotShape(k)'
  <2>1. LeaseCount(k)'
    <3>1. \A s \in Controls : HoldsLease(s, k)' <=> HoldsLease(s, k)
      BY <1>1, <1>3 DEF HoldsLease, OtherControls
    <3>2. WorkerHolds(k)' <=> WorkerHolds(k)
      BY <1>1 DEF WorkerHolds
    <3> QED  BY <1>5, <3>1, <3>2, CountKept
  <2>2. SlotShape(k) /\ k \in Nat /\ SlotShape(g)
    BY <1>2 DEF DriverInv, Generations
  <2>3. SlotShape(k)'
    <3>1. CASE k = g
      <4>1. k > lastGen /\ ~(k > lastGen')
        BY <1>1, <1>2, <3>1
      <4>2. /\ binding[k].inflight = 0 /\ ~binding[k].reserved /\ ~binding[k].detached /\ k \notin gone
        BY <2>2, <4>1 DEF SlotShape
      <4> QED  BY <1>1, <1>5, <3>1, <4>1, <4>2 DEF SlotShape
    <3>2. CASE k # g
      <4>1. /\ binding'[k] = binding[k] /\ bound' # k /\ bound # k
            /\ ((k <= lastGen') <=> (k <= lastGen)) /\ ((k > lastGen') <=> (k > lastGen))
        BY <1>1, <1>2, <1>5, <2>2, <3>2 DEF Generations
      <4> QED  BY <1>1, <2>2, <4>1 DEF SlotShape
    <3> QED  BY <3>1, <3>2
  <2> QED  BY <2>1, <2>3
<1>7. \A k \in Generations : /\ binding[k].reserved => binding'[k].reserved
                             /\ k <= lastGen /\ bound # k => bound' # k
  BY <1>1, <1>2, <1>5 DEF Generations
<1>8. UnregisterShape(t)' /\ "publish" \notin Handing
  BY <1>3 DEF UnregisterShape, Leading, Unregistering, Handing
<1> QED  BY <1>1, <1>2, <1>3, <1>4, <1>6, <1>7, <1>8, ControlStep DEF DriverLabels

\* A step that gives and takes no lease: what is left to show is the slot's shape.
LEMMA NoLeaseMoves ==
    ASSUME DriverInv, NEW t \in Controls, wpc' = wpc, wgen' = wgen, OtherControls(t),
           \A g \in Generations : /\ HoldsLease(t, g)' <=> HoldsLease(t, g)
                                  /\ binding'[g].inflight = binding[g].inflight
    PROVE  \A g \in Generations : LeaseCount(g)'
<1> SUFFICES ASSUME NEW g \in Generations PROVE LeaseCount(g)'
  OBVIOUS
<1>1. WorkerHolds(g)' <=> WorkerHolds(g)
  BY DEF WorkerHolds
<1>2. \A s \in Controls : HoldsLease(s, g)' <=> HoldsLease(s, g)
  BY DEF HoldsLease, OtherControls
<1> QED  BY <1>1, <1>2, CountKept

\* _UnregisterDriver: a thread inside a callback of the generation in the slot is
\* refused, and a lease is held on no other.
LEMMA UnregisterInv ==
    ASSUME DriverInv, NEW t \in Controls, NEW g \in Generations, Unregister(t, g)
    PROVE  DriverInv'
<1>1. /\ bound' = bound /\ lastGen' = lastGen /\ binding' = binding /\ memo' = memo /\ tasks' = tasks
      /\ given' = given /\ quiet' = quiet /\ pending' = pending /\ gone' = gone
      /\ wpc' = wpc /\ wgen' = wgen /\ asked' = asked \cup {g} /\ bound = g /\ ~HoldsLease(t, g)
      /\ cpc[t] \in {"out", "wake", "woke", "leaderWoke"}
      /\ cpc' = [cpc EXCEPT ![t] = "unregister"] /\ cgen' = [cgen EXCEPT ![t] = g]
  BY DEF Unregister, ControlKeeps, ControlTo, Hand, TokenFits, SelfDetach
<1>2. /\ cgen[t] \in 0 .. lastGen /\ DriverTypeOK /\ DriverLabels /\ UnregisterShape(t)
      /\ cpc[t] \in Handing => cgen[t] \in Generations
      /\ lastGen \in Nat /\ lastGen <= lastGen /\ bound \in 0 .. lastGen /\ g # 0
  BY ControlFacts DEF Generations
<1>3. cpc[t] = "out"
  <2> SUFFICES ASSUME cpc[t] # "out" PROVE FALSE
    OBVIOUS
  <2>1. cgen[t] \in Generations /\ HoldsLease(t, cgen[t])
    BY <1>1, <1>2 DEF Handing, Unregistering, Leading, HoldsLease
  <2>2. cgen[t] = g
    BY <1>1, <2>1, LeasedIsBound
  <2> QED  BY <1>1, <2>1, <2>2
<1>4. /\ OtherControls(t) /\ cpc'[t] = "unregister" /\ cgen'[t] = g
      /\ cpc' \in [Controls -> ControlLabels] /\ cgen' \in [Controls -> 0 .. lastGen]
  <2>1. "unregister" \in ControlLabels /\ g \in 0 .. lastGen
    BY <1>1, <1>2 DEF ControlLabels, Handing, Unregistering
  <2> QED  BY <1>1, <1>2, <2>1 DEF DriverLabels, OtherControls
<1>5. \A k \in Generations : LeaseCount(k)'
  <2>1. \A k \in Generations : HoldsLease(t, k)' <=> HoldsLease(t, k)
    BY <1>3, <1>4 DEF HoldsLease
  <2> QED  BY <1>1, <1>4, <2>1, NoLeaseMoves
<1>6. \A k \in Generations : SlotShape(k)'
  BY <1>1 DEF DriverInv, SlotShape
<1>7. UnregisterShape(t)'
  BY <1>1, <1>4 DEF UnregisterShape, Leading
<1>8. DriverTypeOK'
  BY <1>1, <1>2 DEF DriverTypeOK
<1>9. bound <= lastGen /\ tasks <= given /\ asked \subseteq asked'
  BY <1>1, <1>2 DEF DriverLabels
<1> QED  BY <1>1, <1>2, <1>4, <1>5, <1>6, <1>7, <1>8, <1>9, ControlStep

\* The first to unregister leads, the others wait with it.
LEMMA LeadOrJoinInv ==
    ASSUME DriverInv, NEW t \in Controls, LeadOrJoin(t)
    PROVE  DriverInv'
<1> DEFINE g == cgen[t]
<1>1. /\ bound' = bound /\ lastGen' = lastGen /\ memo' = memo /\ tasks' = tasks /\ given' = given
      /\ quiet' = quiet /\ pending' = pending /\ asked' = asked /\ gone' = gone /\ cgen' = cgen
      /\ wpc' = wpc /\ wgen' = wgen /\ cpc[t] = "unregister"
  BY DEF LeadOrJoin, ControlKeeps
<1>2. /\ g \in Generations /\ g <= lastGen /\ DriverTypeOK /\ DriverLabels /\ UnregisterShape(t)
      /\ lastGen \in Nat /\ lastGen <= lastGen /\ bound \in 0 .. lastGen /\ SlotShape(g) /\ g # 0
      /\ g \in 0 .. lastGen
  BY <1>1, ControlFacts DEF Handing, Unregistering, DriverInv, Generations
<1>3. g \in asked
  BY <1>1, <1>2 DEF UnregisterShape, Unregistering
<1>4. CASE binding[g].reserved
  <2>1. binding' = binding /\ cpc' = [cpc EXCEPT ![t] = "join"]
    BY <1>4 DEF LeadOrJoin, ControlTo
  <2>2. cpc'[t] = "join" /\ cgen'[t] = g /\ cgen' = [cgen EXCEPT ![t] = g]
    BY <1>1, <1>2, <2>1 DEF DriverLabels
  <2>3. UnregisterShape(t)' /\ \A h \in Generations : HoldsLease(t, h)' <=> HoldsLease(t, h)
    BY <1>1, <1>3, <2>2 DEF UnregisterShape, HoldsLease, Leading
  <2>4. "join" \in ControlLabels
    BY DEF ControlLabels, Handing, Unregistering
  <2> HIDE DEF g
  <2> QED  BY <1>1, <1>2, <2>1, <2>2, <2>3, <2>4, ControlTurn DEF DriverTypeOK, DriverLabels
<1>5. CASE ~binding[g].reserved
  <2>1. /\ binding' = [binding EXCEPT ![g].state = "Detaching", ![g].reserved = TRUE,
                                     ![g].inflight = @ + 1]
        /\ cpc' = [cpc EXCEPT ![t] = "leaderWake"]
    BY <1>5 DEF LeadOrJoin, ControlTo
  <2>2. /\ OtherControls(t) /\ cpc'[t] = "leaderWake" /\ cgen'[t] = g
        /\ cpc' \in [Controls -> ControlLabels] /\ cgen' \in [Controls -> 0 .. lastGen]
    <3>1. "leaderWake" \in ControlLabels
      BY DEF ControlLabels, Handing, Unregistering, Leading
    <3> QED  BY <1>1, <1>2, <2>1, <3>1 DEF DriverLabels, OtherControls
  <2> HIDE DEF g
  <2>3. /\ binding'[g].inflight = binding[g].inflight + 1 /\ binding'[g].state = "Detaching"
        /\ binding'[g].reserved /\ binding'[g].detached = binding[g].detached
        /\ \A k \in Generations \ {g} : binding'[k] = binding[k]
    BY <1>2, <2>1 DEF DriverTypeOK
  <2>4. DriverTypeOK'
    BY <1>1, <1>2, <2>1 DEF DriverTypeOK, States
  <2>5. bound = g
    BY <1>2, <1>5 DEF SlotShape
  <2>6. ASSUME NEW k \in Generations PROVE LeaseCount(k)' /\ SlotShape(k)'
    <3>1. WorkerHolds(k)' <=> WorkerHolds(k)
      BY <1>1 DEF WorkerHolds
    <3>2. \A s \in Controls \ {t} : HoldsLease(s, k)' <=> HoldsLease(s, k)
      BY <2>2 DEF HoldsLease, OtherControls
    <3>3. ~HoldsLease(t, k) /\ (HoldsLease(t, k)' <=> k = g)
      BY <1>1, <2>2 DEF HoldsLease, g
    <3>4. SlotShape(k) /\ (k > lastGen => k # g)
      BY <1>2 DEF DriverInv, Generations
    <3>5. CASE k = g
      <4>1. LeaseCount(k)'
        BY <2>3, <3>1, <3>2, <3>3, <3>5, ControlJoins
      <4>2. SlotShape(k)'
        BY <1>1, <1>2, <1>3, <2>3, <2>5, <3>4, <3>5 DEF SlotShape
      <4> QED  BY <4>1, <4>2
    <3>6. CASE k # g
      <4>1. LeaseCount(k)'
        BY <2>3, <3>1, <3>2, <3>3, <3>6, CountKept
      <4>2. SlotShape(k)'
        BY <1>1, <2>3, <3>4, <3>6 DEF SlotShape
      <4> QED  BY <4>1, <4>2
    <3> QED  BY <3>5, <3>6
  <2>7. \A k \in Generations : binding[k].reserved => binding'[k].reserved
    BY <2>3
  <2>8. UnregisterShape(t)'
    BY <1>1, <1>3, <2>2, <2>3 DEF UnregisterShape, g
  <2>9. bound <= lastGen /\ tasks <= given /\ asked \subseteq asked'
    BY <1>1, <1>2 DEF DriverLabels
  <2> QED  BY <1>1, <1>2, <2>2, <2>4, <2>6, <2>7, <2>8, <2>9, ControlStep
<1> QED  BY <1>4, <1>5

\* The slot is cleared once no callback of the generation runs.
LEMMA LeaderClearInv ==
    ASSUME DriverInv, NEW t \in Controls, LeaderClear(t)
    PROVE  DriverInv'
<1> DEFINE g == cgen[t]
<1>1. /\ lastGen' = lastGen /\ binding' = binding /\ memo' = memo /\ tasks' = tasks
      /\ given' = given /\ quiet' = quiet /\ pending' = pending /\ asked' = asked /\ gone' = gone
      /\ wpc' = wpc /\ wgen' = wgen /\ cgen' = cgen /\ cpc[t] = "leaderWait"
      /\ binding[g].inflight = 0 /\ bound' = (IF bound = g THEN 0 ELSE bound)
      /\ cpc' = [cpc EXCEPT ![t] = "leaderDetach"]
  BY DEF LeaderClear, ControlKeeps, ControlTo
<1>2. /\ g \in Generations /\ g <= lastGen /\ DriverTypeOK /\ DriverLabels /\ UnregisterShape(t)
      /\ lastGen \in Nat /\ lastGen <= lastGen /\ bound \in 0 .. lastGen /\ g # 0
  BY <1>1, ControlFacts DEF Handing, Unregistering, Leading, Generations
<1>3. g \in asked /\ binding[g].reserved
  BY <1>1, <1>2 DEF UnregisterShape, Unregistering, Leading
<1>4. /\ OtherControls(t) /\ cpc'[t] = "leaderDetach" /\ cgen'[t] = g
      /\ cpc' \in [Controls -> ControlLabels] /\ cgen' \in [Controls -> 0 .. lastGen]
  <2>1. "leaderDetach" \in ControlLabels
    BY DEF ControlLabels, Handing, Unregistering, Leading
  <2> QED  BY <1>1, <1>2, <2>1 DEF DriverLabels, OtherControls
<1>5. \A k \in Generations : LeaseCount(k)'
  <2>1. \A k \in Generations : HoldsLease(t, k)' <=> HoldsLease(t, k)
    BY <1>1, <1>4 DEF HoldsLease
  <2> QED  BY <1>1, <1>4, <2>1, NoLeaseMoves
<1> HIDE DEF g
<1>6. bound' \in 0 .. lastGen /\ bound' # g /\ DriverTypeOK'
  <2>1. bound' \in 0 .. lastGen /\ bound' # g /\ bound' \in {0, bound}
    BY <1>1, <1>2
  <2> QED  BY <1>1, <1>2, <2>1 DEF DriverTypeOK
<1>7. ASSUME NEW k \in Generations
      PROVE  SlotShape(k)' /\ (k <= lastGen /\ bound # k => bound' # k)
  <2>1. SlotShape(k) /\ (bound' # k \/ bound = k) /\ (k # g => (bound' = k <=> bound = k))
    BY <1>1 DEF DriverInv, Generations
  <2> QED  BY <1>1, <1>3, <1>6, <2>1 DEF SlotShape
<1>8. UnregisterShape(t)'
  BY <1>1, <1>3, <1>4, <1>6 DEF UnregisterShape
<1>9. bound' <= lastGen /\ tasks <= given /\ asked \subseteq asked'
  BY <1>1, <1>2, <1>6 DEF DriverLabels
<1> QED  BY <1>1, <1>2, <1>4, <1>5, <1>6, <1>7, <1>8, <1>9, ControlStep

\* The leader detaches the slot once the leases are back.
LEMMA LeaderDetachInv ==
    ASSUME DriverInv, NEW t \in Controls, LeaderDetach(t)
    PROVE  DriverInv'
<1> DEFINE g == cgen[t]
<1>1. /\ bound' = bound /\ lastGen' = lastGen /\ memo' = memo /\ tasks' = tasks
      /\ given' = given /\ quiet' = quiet /\ pending' = pending /\ asked' = asked /\ gone' = gone
      /\ wpc' = wpc /\ wgen' = wgen /\ cgen' = cgen /\ cpc[t] = "leaderDetach"
      /\ binding' = [binding EXCEPT ![g].detached = TRUE]
      /\ cpc' = [cpc EXCEPT ![t] = "leaderPublish"]
  BY DEF LeaderDetach, ControlKeeps, ControlTo
<1>2. /\ g \in Generations /\ g <= lastGen /\ DriverTypeOK /\ DriverLabels /\ UnregisterShape(t)
      /\ lastGen \in Nat /\ lastGen <= lastGen /\ bound \in 0 .. lastGen /\ g # 0
  BY <1>1, ControlFacts DEF Handing, Unregistering, Leading, Generations
<1>3. g \in asked /\ binding[g].reserved /\ bound # g
  BY <1>1, <1>2 DEF UnregisterShape, Unregistering, Leading
<1>4. /\ OtherControls(t) /\ cpc'[t] = "leaderPublish" /\ cgen'[t] = g
      /\ cpc' \in [Controls -> ControlLabels] /\ cgen' \in [Controls -> 0 .. lastGen]
  <2>1. "leaderPublish" \in ControlLabels
    BY DEF ControlLabels, Handing, Unregistering, Leading
  <2> QED  BY <1>1, <1>2, <2>1 DEF DriverLabels, OtherControls
<1> HIDE DEF g
<1>5. \A k \in Generations : /\ binding'[k].inflight = binding[k].inflight
                             /\ binding'[k].state = binding[k].state
                             /\ binding'[k].reserved = binding[k].reserved
                             /\ k # g => binding'[k].detached = binding[k].detached
  BY <1>1, <1>2 DEF DriverTypeOK
<1>6. \A k \in Generations : LeaseCount(k)'
  <2>1. \A k \in Generations : HoldsLease(t, k)' <=> HoldsLease(t, k)
    BY <1>1, <1>4 DEF HoldsLease
  <2> QED  BY <1>1, <1>4, <1>5, <2>1, NoLeaseMoves
<1>7. DriverTypeOK'
  BY <1>1, <1>2 DEF DriverTypeOK
<1>8. ASSUME NEW k \in Generations PROVE SlotShape(k)'
  <2>1. SlotShape(k) /\ (k > lastGen => k # g)
    BY <1>2 DEF DriverInv, Generations
  <2> QED  BY <1>1, <1>3, <1>5, <2>1 DEF SlotShape
<1>9. UnregisterShape(t)'
  BY <1>1, <1>2, <1>3, <1>4, <1>5 DEF UnregisterShape
<1>10. bound <= lastGen /\ tasks <= given /\ asked \subseteq asked'
  BY <1>1, <1>2 DEF DriverLabels
<1> QED  BY <1>1, <1>2, <1>4, <1>5, <1>6, <1>7, <1>8, <1>9, <1>10, ControlStep

\* An unregistration returns.
LEMMA UnregisterReturnsInv ==
    ASSUME DriverInv, NEW t \in Controls, UnregisterReturns(t)
    PROVE  DriverInv'
<1> DEFINE g == cgen[t]
<1>1. /\ bound' = bound /\ lastGen' = lastGen /\ binding' = binding /\ memo' = memo /\ tasks' = tasks
      /\ given' = given /\ quiet' = quiet /\ pending' = pending /\ asked' = asked
      /\ wpc' = wpc /\ wgen' = wgen /\ gone' = gone \cup {g}
      /\ (cpc[t] = "join" /\ binding[g].detached) \/ cpc[t] = "leaderDone"
      /\ cpc' = [cpc EXCEPT ![t] = "out"] /\ cgen' = [cgen EXCEPT ![t] = 0]
  BY DEF UnregisterReturns, ControlKeeps, ControlTo, Hand
<1>2. /\ g \in Generations /\ g <= lastGen /\ DriverTypeOK /\ DriverLabels /\ UnregisterShape(t)
      /\ lastGen \in Nat /\ lastGen <= lastGen /\ bound \in 0 .. lastGen /\ SlotShape(g)
  BY <1>1, ControlFacts DEF Handing, Unregistering, Leading, DriverInv
<1>3. bound # g
  BY <1>1, <1>2 DEF UnregisterShape, SlotShape
<1>4. /\ OtherControls(t) /\ cpc'[t] = "out" /\ cgen'[t] = 0
      /\ cpc' \in [Controls -> ControlLabels] /\ cgen' \in [Controls -> 0 .. lastGen]
  <2>1. "out" \in ControlLabels /\ 0 \in 0 .. lastGen
    BY <1>2 DEF ControlLabels
  <2> QED  BY <1>1, <1>2, <2>1 DEF DriverLabels, OtherControls
<1>5. \A k \in Generations : LeaseCount(k)'
  <2>1. \A k \in Generations : HoldsLease(t, k)' <=> HoldsLease(t, k)
    BY <1>1, <1>4 DEF HoldsLease
  <2> QED  BY <1>1, <1>4, <2>1, NoLeaseMoves
<1>6. DriverTypeOK'
  BY <1>1, <1>2 DEF DriverTypeOK
<1> HIDE DEF g
<1>7. ASSUME NEW k \in Generations PROVE SlotShape(k)'
  <2>1. SlotShape(k) /\ (k > lastGen => k # g)
    BY <1>2 DEF DriverInv, Generations
  <2> QED  BY <1>1, <1>3, <2>1 DEF SlotShape
<1>8. UnregisterShape(t)' /\ "out" \notin Handing
  BY <1>4 DEF UnregisterShape, Leading, Unregistering, Handing
<1>9. bound <= lastGen /\ tasks <= given /\ asked \subseteq asked'
  BY <1>1, <1>2 DEF DriverLabels
<1> QED  BY <1>1, <1>2, <1>4, <1>5, <1>6, <1>7, <1>8, <1>9, ControlStep

\* The invariant holds at the start.
LEMMA DriverInitial == DriverInit => DriverInv
<1> SUFFICES ASSUME DriverInit PROVE DriverInv
  OBVIOUS
<1> USE DEF DriverInit
<1>1. DriverTypeOK /\ DriverLabels
  BY ProcesserDriverAssumption
     DEF DriverTypeOK, DriverLabels, States, WorkerLabels, ControlLabels, Handing, Unregistering,
         Leading, ProcesserDriverAssumption, Generations
<1>2. ASSUME NEW g \in Generations PROVE LeaseCount(g) /\ SlotShape(g)
  <2>1. ControlHolders(g) = {} /\ ~WorkerHolds(g)
    BY DEF ControlHolders, HoldsLease, WorkerHolds
  <2>2. Cardinality({}) = 0
    BY FS_EmptySet
  <2>3. LeaseCount(g)
    BY <2>1, <2>2 DEF LeaseCount
  <2>4. SlotShape(g)
    BY DEF SlotShape, Generations
  <2> QED  BY <2>3, <2>4
<1>3. \A t \in Controls : UnregisterShape(t)
  BY DEF UnregisterShape, Leading, Unregistering
<1> QED  BY <1>1, <1>2, <1>3 DEF DriverInv

\* A step of somebody else.
LEMMA DriverStuttering ==
    ASSUME DriverInv, UNCHANGED driverVars
    PROVE  DriverInv'
<1>1. \A g \in Generations : LeaseCount(g)' /\ SlotShape(g)'
  BY DEF DriverInv, driverVars, LeaseCount, ControlHolders, HoldsLease, WorkerHolds, SlotShape
<1>2. \A t \in Controls : UnregisterShape(t)'
  BY DEF DriverInv, driverVars, UnregisterShape
<1>3. DriverTypeOK' /\ DriverLabels'
  BY DEF DriverInv, driverVars, DriverTypeOK, DriverLabels
<1> QED  BY <1>1, <1>2, <1>3 DEF DriverInv

\* Leases counted, a slot cleared only by a leader after the last lease, every detached
\* generation asked for (Processer::_BindDriver, _UnregisterDriver, DriverCallbackLease):
\* the inductive invariant of the driver slot.
THEOREM DriverInvariance == DriverSpec => []DriverInv
<1>1. DriverInit => DriverInv
  BY DriverInitial
<1>2. DriverInv /\ [DriverNext]_driverVars => DriverInv'
  <2> SUFFICES ASSUME DriverInv, [DriverNext]_driverVars PROVE DriverInv'
    OBVIOUS
  <2>1. CASE Worker
    BY <2>1, WorkerInv
  <2>2. ASSUME NEW t \in Controls,
               ControlMoves(t) \/ Register(t) \/ Enqueue(t) \/ GuardEnter(t)
               \/ \E g \in Generations : Unregister(t, g)
        PROVE  DriverInv'
    BY <2>2, TurnInv, WakeLeaseInv, WakeReturnsInv, RegisterInv, UnregisterInv, LeadOrJoinInv,
       LeaderClearInv, LeaderDetachInv, UnregisterReturnsInv DEF ControlMoves
  <2>3. CASE UNCHANGED driverVars
    BY <2>3, DriverStuttering
  <2> QED  BY <2>1, <2>2, <2>3 DEF DriverNext
<1> QED  BY <1>1, <1>2, PTL DEF DriverSpec

\* After an Unregister of a generation has returned Ok no thread is inside a callback of
\* its driver, and no generation is detached that nobody asked to detach
\* (Processer::_UnregisterDriver), for any number of threads and generations.
THEOREM DriverSafeHolds == DriverSpec => []DriverSafe
<1>1. DriverInv => DriverSafe
  <2> SUFFICES ASSUME DriverInv PROVE DriverSafe
    OBVIOUS
  <2>1. DriverTypeOK /\ lastGen \in Nat
    BY ProcesserDriverAssumption DEF DriverInv, DriverTypeOK, ProcesserDriverAssumption
  <2>2. ASSUME NEW g \in gone
        PROVE  /\ bound # g
               /\ ~(wgen = g /\ wpc \in {InTick, "recheck", InWait})
               /\ \A t \in Controls : ~HoldsLease(t, g)
    <3>1. g \in Generations
      BY <2>1 DEF DriverTypeOK
    <3>2. SlotShape(g)
      BY <3>1 DEF DriverInv
    <3>3. bound # g
      BY <3>2 DEF SlotShape
    <3> QED  BY <3>1, <3>3, LeasedIsBound DEF WorkerHolds, InTick, InWait
  <2>3. ASSUME NEW g \in Generations, g <= lastGen, g \notin asked
        PROVE  bound = g /\ binding[g].state \in {"Bound", "Failed"}
    <3>1. SlotShape(g)
      BY DEF DriverInv
    <3>2. binding[g].state \in States
      BY <2>1 DEF DriverTypeOK
    <3> QED  BY <2>3, <3>1, <3>2 DEF SlotShape, States
  <2> QED  BY <2>1, <2>2, <2>3 DEF DriverSafe, QuietAfterUnregister, OnlyAskedDetach
<1> QED  BY <1>1, DriverInvariance, PTL

-----------------------------------------------------------------------------
(* Resizing.                                                                *)

ActorLabels == {"out", "tick", "decide", "prepare", "create", "cancel", "cancelStart", "reap", "join"}
Holding == {"prepare", "create", "decide"}

ScalingTypes ==
    /\ ScalingTypeOK
    /\ started \in BOOLEAN /\ initialized \in BOOLEAN
    /\ spc \in [Actors -> ActorLabels] /\ want \in [Actors -> 0 .. MaxNum]
    /\ manual \in 0 .. MaxNum

\* m_lifecycle_mutex is with the actor that is in a section under it.
LockHeld == \A a \in Actors : lifecycle = a <=> spc[a] \in Holding

\* The workers behind the gate belong to one request each; with the active ones they
\* make up what the request wants.
BatchOf(a) ==
    /\ batch[a] # {} => spc[a] \in {"prepare", "create", "cancel", "cancelStart"}
    /\ \A w \in batch[a] : life[w] = "Preparing"
    /\ spc[a] \in {"prepare", "cancel"} => Cardinality(batch[a]) <= MaxNum - MinNum
    /\ spc[a] = "prepare" => /\ want[a] = Cardinality(active) + Cardinality(batch[a])
                             /\ want[a] \in MinNum .. MaxNum
    /\ spc[a] = "create" => want[a] = InitialNum /\ Cardinality(batch[a]) = InitialNum
Gates ==
    /\ \A a \in Actors : BatchOf(a)
    /\ \A a, b \in Actors : a # b => batch[a] \cap batch[b] = {}
    /\ \A w \in Workers : life[w] = "Preparing" => \E a \in Actors : w \in batch[a]

\* Before the first batch is committed only the starter is at work.
Starting(a) == spc[a] \in {"create", "cancelStart"}
StartPhase ==
    /\ initialized => started /\ \A a \in Actors : ~Starting(a)
    /\ ~initialized =>
         /\ active = {} /\ manual = 0
         /\ \A a \in Actors : spc[a] # "out" =>
               Starting(a) /\ started /\ \A b \in Actors \ {a} : spc[b] = "out"

SizeIsActive == initialized => target = Cardinality(active) /\ target \in MinNum .. MaxNum

\* Active workers are the published ones; drivers are on those only.
Published == pinned \subseteq active /\ \A w \in Workers : life[w] = "Active" <=> w \in active

\* The loop changes the target in automatic mode only, and no manual size is in force then.
ModeInForce ==
    /\ manual # 0 => mode = "Manual"
    /\ spc[Loop] \in {"decide", "prepare"} => mode = "Auto"
    /\ ManualStands

\* A thread is joined by the one actor that has claimed it, after its end.
JoinOf(a) ==
    /\ spc[a] = "join" <=> joining[a] # None
    /\ joining[a] # None => joining[a] \in exited \cap claimed /\ life[joining[a]] = "Exited"
Joins ==
    /\ \A a \in Actors : JoinOf(a)
    /\ \A a, b \in Actors : joining[a] # None /\ a # b => joining[a] # joining[b]

ScalingInv ==
    /\ ScalingTypes /\ LockHeld /\ Gates /\ StartPhase /\ SizeIsActive /\ Published
    /\ RetireBounded /\ ModeInForce /\ Joins

-----------------------------------------------------------------------------
(* There is always a new worker to be had: the identities cover the largest *)
(* active set, the retired ones and a cancelled batch of everybody else.    *)

\* What the assumption on the constants gives.
LEMMA ScalingConstants ==
    /\ IsFiniteSet(Workers) /\ IsFiniteSet(Callers) /\ IsFiniteSet(Actors)
    /\ None \notin Workers /\ None \notin Actors /\ Loop \in Actors /\ Loop \notin Callers
    /\ Callers \subseteq Actors
    /\ MinNum \in Nat /\ MinNum > 0 /\ InitialNum \in Nat /\ MaxNum \in Nat /\ MaxNum - MinNum \in Nat
    /\ MinNum <= InitialNum /\ InitialNum <= MaxNum
    /\ Step \in Nat /\ Step > 0 /\ Samples \in Nat /\ Samples > 0 /\ kMaxOutstandingRetire \in Nat
<1>1. IsFiniteSet(Callers \cup {Loop})
  BY ProcesserScalingAssumption, FS_AddElement DEF ProcesserScalingAssumption
<1> QED  BY <1>1, ProcesserScalingAssumption DEF ProcesserScalingAssumption, Actors

\* A finite set has subsets of every size up to its own.
LEMMA SubsetOfSize ==
    ASSUME NEW S, IsFiniteSet(S), NEW n \in Nat, n <= Cardinality(S)
    PROVE  \E T \in SUBSET S : Cardinality(T) = n
<1>1. Cardinality(S) \in Nat /\ ExistsBijection(1 .. Cardinality(S), S)
  BY FS_CardinalityType
<1>2. PICK f : f \in Bijection(1 .. Cardinality(S), S)
  BY <1>1 DEF ExistsBijection
<1> DEFINE T == {f[i] : i \in 1 .. n}
           g == [i \in 1 .. n |-> f[i]]
<1>3. T \in SUBSET S
  BY <1>1, <1>2 DEF Bijection, Injection, Surjection, IsInjective
<1>4. g \in Bijection(1 .. n, T)
  <2>1. \A i \in 1 .. n : i \in 1 .. Cardinality(S)
    BY <1>1
  <2>2. g \in [1 .. n -> T] /\ \A t \in T : \E i \in 1 .. n : g[i] = t
    OBVIOUS
  <2>3. \A i, j \in 1 .. n : g[i] = g[j] => i = j
    BY <1>2, <2>1 DEF Bijection, Injection, IsInjective
  <2> HIDE DEF g, T
  <2> QED  BY <2>2, <2>3 DEF Bijection, Injection, Surjection, IsInjective
<1>5. IsFiniteSet(1 .. n) /\ Cardinality(1 .. n) = n
  BY FS_Interval
<1>6. Cardinality(T) = n
  BY <1>4, <1>5, FS_Bijection DEF ExistsBijection
<1> QED  BY <1>3, <1>6

\* Sets B[a], each of at most m elements, have together at most m for each a.
LEMMA UnionOfSmall ==
    ASSUME NEW A, IsFiniteSet(A), NEW B, NEW m \in Nat, NEW P,
           \A a \in A : IsFiniteSet(B[a]) /\ Cardinality(B[a]) <= m,
           \A w \in P : \E a \in A : w \in B[a]
    PROVE  IsFiniteSet(P) /\ Cardinality(P) <= Cardinality(A) * m
<1> DEFINE who(w) == CHOOSE a \in A : w \in B[a]
           num(a) == CHOOSE h : h \in Injection(B[a], 1 .. m)
           f == [w \in P |-> <<who(w), num(who(w))[w]>>]
<1>1. ASSUME NEW a \in A PROVE num(a) \in Injection(B[a], 1 .. m)
  <2>1. IsFiniteSet(B[a]) /\ Cardinality(B[a]) <= m /\ Cardinality(B[a]) \in Nat
    BY FS_CardinalityType
  <2>2. IsFiniteSet(1 .. Cardinality(B[a])) /\ Cardinality(1 .. Cardinality(B[a])) = Cardinality(B[a])
    <3>1. \A c \in Nat : IsFiniteSet(1 .. c) /\ Cardinality(1 .. c) = c
      BY FS_Interval
    <3> QED  BY <2>1, <3>1
  <2>3. PICK h : h \in Bijection(B[a], 1 .. Cardinality(B[a]))
    BY <2>1, <2>2, FS_SameCardinalityBij DEF ExistsBijection
  <2>4. h \in Injection(B[a], 1 .. m)
    BY <2>1, <2>3 DEF Bijection, Injection, Surjection, IsInjective
  <2> QED  BY <2>4
<1>2. \A w \in P : who(w) \in A /\ w \in B[who(w)]
  OBVIOUS
<1> HIDE DEF who, num
<1>3. f \in Injection(P, A \X (1 .. m))
  <2>1. ASSUME NEW w \in P PROVE f[w] = <<who(w), num(who(w))[w]>> /\ f[w] \in A \X (1 .. m)
    <3>1. who(w) \in A /\ num(who(w))[w] \in 1 .. m
      BY <1>1, <1>2 DEF Injection, IsInjective
    <3> QED  BY <3>1
  <2>2. ASSUME NEW v \in P, NEW w \in P, f[v] = f[w] PROVE v = w
    <3>1. who(v) = who(w) /\ num(who(v))[v] = num(who(w))[w]
      BY <2>1, <2>2
    <3>2. who(w) \in A /\ v \in B[who(w)] /\ w \in B[who(w)]
      BY <1>2, <3>1
    <3>3. num(who(w)) \in Injection(B[who(w)], 1 .. m)
      BY <1>1, <3>2
    <3> QED  BY <3>1, <3>2, <3>3 DEF Injection, IsInjective
  <2>3. f \in [P -> A \X (1 .. m)]
    BY <2>1
  <2> HIDE DEF f
  <2> QED  BY <2>2, <2>3 DEF Injection, IsInjective
<1>4. IsFiniteSet(1 .. m) /\ Cardinality(1 .. m) = m
  BY FS_Interval
<1>5. IsFiniteSet(A \X (1 .. m)) /\ Cardinality(A \X (1 .. m)) = Cardinality(A) * m
  BY <1>4, FS_Product
<1> HIDE DEF f
<1> QED  BY <1>3, <1>5, FS_Injection

\* The counted sets of workers are finite.
LEMMA SetsFinite ==
    ASSUME ScalingInv
    PROVE  /\ IsFiniteSet(active) /\ Cardinality(active) \in Nat
           /\ IsFiniteSet(Outstanding) /\ Cardinality(Outstanding) \in Nat
           /\ IsFiniteSet(Unused) /\ Cardinality(Unused) \in Nat
           /\ \A a \in Actors : IsFiniteSet(batch[a]) /\ Cardinality(batch[a]) \in Nat
<1>1. /\ active \subseteq Workers /\ Outstanding \subseteq Workers /\ Unused \subseteq Workers
      /\ \A a \in Actors : batch[a] \subseteq Workers
  BY DEF ScalingInv, ScalingTypes, ScalingTypeOK, Outstanding, Unused
<1> QED  BY <1>1, ScalingConstants, FS_Subset, FS_CardinalityType

\* A batch of the size asked for can be had.
LEMMA FreshExists ==
    ASSUME ScalingInv, NEW a \in Actors, spc[a] \in {"out", "decide"},
           initialized \/ (active = {} /\ \A b \in Actors : spc[b] = "out"),
           NEW n \in 0 .. MaxNum, n >= Cardinality(active)
    PROVE  LET ws == Fresh(n - Cardinality(active))
           IN  ws \in SUBSET Unused /\ Cardinality(ws) = n - Cardinality(active)
<1> DEFINE P == {w \in Workers : life[w] = "Preparing"}
           m == MaxNum - MinNum
<1>1. m \in Nat /\ n \in Nat
  BY ScalingConstants
<1>2. IsFiniteSet(Actors \ {a}) /\ Cardinality(Actors \ {a}) = Cardinality(Callers)
  <2>1. /\ IsFiniteSet(Actors \ {a}) /\ Cardinality(Actors \ {a}) = Cardinality(Actors) - 1
        /\ Cardinality(Callers) \in Nat
    BY ScalingConstants, FS_RemoveElement, FS_CardinalityType
  <2>2. Cardinality(Actors) = Cardinality(Callers) + 1
    BY ScalingConstants, FS_AddElement DEF Actors
  <2> QED  BY <2>1, <2>2
<1>3. \A b \in Actors \ {a} : IsFiniteSet(batch[b]) /\ Cardinality(batch[b]) <= m
  <2> SUFFICES ASSUME NEW b \in Actors \ {a}
               PROVE  IsFiniteSet(batch[b]) /\ Cardinality(batch[b]) <= m
    OBVIOUS
  <2>1. BatchOf(b) /\ StartPhase
    BY DEF ScalingInv, Gates
  <2>2. CASE batch[b] = {}
    BY <1>1, <2>2, FS_EmptySet
  <2>3. CASE batch[b] # {}
    BY <2>1, <2>3, SetsFinite DEF BatchOf, StartPhase, Starting
  <2> QED  BY <2>2, <2>3
<1>4. \A w \in P : \E b \in Actors \ {a} : w \in batch[b]
  <2>1. batch[a] = {}
    BY DEF ScalingInv, Gates, BatchOf
  <2> QED  BY <2>1 DEF ScalingInv, Gates
<1> HIDE DEF m
<1>5. IsFiniteSet(P) /\ Cardinality(P) <= Cardinality(Callers) * m /\ Cardinality(P) \in Nat
  <2>1. IsFiniteSet(P) /\ Cardinality(P) <= Cardinality(Actors \ {a}) * m
    <3> HIDE DEF P
    <3> QED  BY <1>1, <1>2, <1>3, <1>4, UnionOfSmall
  <2> QED  BY <1>2, <2>1, FS_CardinalityType
<1>6. Workers = (Unused \cup P) \cup (active \cup Outstanding)
  <2>1. \A w \in Workers : life[w] = "Active" <=> w \in active
    BY DEF ScalingInv, Published
  <2> QED  BY <2>1 DEF ScalingInv, ScalingTypes, ScalingTypeOK, Unused, Outstanding
<1>7. Cardinality(Workers) <= (Cardinality(Unused) + Cardinality(P))
                              + (Cardinality(active) + Cardinality(Outstanding))
  <2> HIDE DEF P
  <2>1. /\ IsFiniteSet(Unused \cup P) /\ IsFiniteSet(active \cup Outstanding)
        /\ Cardinality(Unused \cup P)
             = Cardinality(Unused) + Cardinality(P) - Cardinality(Unused \cap P)
        /\ Cardinality(active \cup Outstanding)
             = Cardinality(active) + Cardinality(Outstanding) - Cardinality(active \cap Outstanding)
    BY <1>5, SetsFinite, FS_Union
  <2> DEFINE X == Unused \cup P
             Y == active \cup Outstanding
  <2>2. Cardinality(X \cup Y) = Cardinality(X) + Cardinality(Y) - Cardinality(X \cap Y)
    BY <2>1, FS_Union
  <2>3. /\ Cardinality(Unused \cap P) \in Nat /\ Cardinality(active \cap Outstanding) \in Nat
        /\ Cardinality(X \cap Y) \in Nat
    BY <2>1, SetsFinite, FS_Intersection, FS_CardinalityType
  <2> QED  BY <1>5, <1>6, <2>1, <2>2, <2>3, SetsFinite
<1>8. n - Cardinality(active) \in Nat /\ n - Cardinality(active) <= Cardinality(Unused)
  <2>1. /\ Cardinality(Workers) >= MaxNum + kMaxOutstandingRetire + Cardinality(Callers) * m
        /\ Cardinality(Workers) \in Nat /\ MaxNum \in Nat /\ kMaxOutstandingRetire \in Nat
    BY ProcesserScalingAssumption, FS_CardinalityType DEF ProcesserScalingAssumption, m
  <2>2. Cardinality(Outstanding) <= kMaxOutstandingRetire
    BY DEF ScalingInv, RetireBounded
  <2>3. Cardinality(Callers) * m \in Nat
    BY <1>1, ScalingConstants, FS_CardinalityType
  <2> QED  BY <1>5, <1>7, <2>1, <2>2, <2>3, SetsFinite
<1>9. OneOf(Unused, n - Cardinality(active)) # {}
  <2>1. \E T \in SUBSET Unused : Cardinality(T) = n - Cardinality(active)
    BY <1>8, SetsFinite, SubsetOfSize
  <2> QED  BY <2>1 DEF OneOf
<1> QED  BY <1>9 DEF Fresh, OneOf

-----------------------------------------------------------------------------
(* One step of one actor, part by part.                                     *)

OtherActors(a) ==
    \A b \in Actors \ {a} : /\ spc'[b] = spc[b] /\ batch'[b] = batch[b]
                            /\ want'[b] = want[b] /\ joining'[b] = joining[b]

\* Whoever is past the entry of a request or of the tick runs on a started scheduler.
LEMMA Begun ==
    ASSUME ScalingInv, NEW a \in Actors, ~(spc[a] = "out" \/ Starting(a))
    PROVE  initialized = TRUE /\ started = TRUE
BY DEF ScalingInv, ScalingTypes, StartPhase

\* m_lifecycle_mutex changes hands only through the actor of the step.
LEMMA LockStep ==
    ASSUME ScalingInv, NEW a \in Actors, OtherActors(a),
           \/ lifecycle' = lifecycle /\ (spc'[a] \in Holding <=> spc[a] \in Holding)
           \/ lifecycle \in {None, a} /\ lifecycle' = IF spc'[a] \in Holding THEN a ELSE None
    PROVE  LockHeld'
<1>1. None \notin Actors /\ LockHeld
  BY ScalingConstants DEF ScalingInv
<1> QED  BY <1>1 DEF LockHeld, OtherActors

\* A worker is prepared in one batch only.
LEMMA GatesStep ==
    ASSUME ScalingInv, NEW a \in Actors, OtherActors(a), BatchOf(a)',
           active' = active \/ lifecycle \in {None, a},
           batch[a] \subseteq Workers, batch'[a] \subseteq Workers,
           \A w \in Workers : w \notin batch[a] /\ w \notin batch'[a]
                => (life'[w] = "Preparing" <=> life[w] = "Preparing"),
           \A w \in batch[a] : w \notin batch'[a] => life'[w] # "Preparing",
           \A w \in batch'[a] : w \notin batch[a] => life[w] = "none"
    PROVE  Gates'
<1>1. /\ LockHeld /\ None \notin Actors
      /\ \A b \in Actors : BatchOf(b)
      /\ \A b, c \in Actors : b # c => batch[b] \cap batch[c] = {}
      /\ \A w \in Workers : life[w] = "Preparing" => \E b \in Actors : w \in batch[b]
  BY ScalingConstants DEF ScalingInv, Gates
<1>2. ASSUME NEW b \in Actors \ {a} PROVE BatchOf(b)' /\ batch'[b] \cap batch'[a] = {}
  <2>1. /\ spc'[b] = spc[b] /\ batch'[b] = batch[b] /\ want'[b] = want[b] /\ BatchOf(b)
        /\ batch[b] \cap batch[a] = {} /\ batch[b] \subseteq Workers
    BY <1>1 DEF OtherActors, ScalingInv, ScalingTypes, ScalingTypeOK
  <2>2. ASSUME NEW w \in batch[b] PROVE w \notin batch'[a] /\ life'[w] = "Preparing"
    <3>1. life[w] = "Preparing" /\ w \in Workers /\ w \notin batch[a]
      BY <2>1 DEF BatchOf
    <3> QED  BY <3>1
  <2>3. spc[b] = "prepare" => active' = active
    BY <1>1 DEF LockHeld, Holding
  <2> QED  BY <2>1, <2>2, <2>3 DEF BatchOf
<1>3. ASSUME NEW w \in Workers, life'[w] = "Preparing"
      PROVE  \E b \in Actors : w \in batch'[b]
  <2>1. CASE w \in batch'[a]
    BY <2>1
  <2>2. CASE w \notin batch'[a]
    <3>1. w \notin batch[a] /\ life[w] = "Preparing"
      BY <1>3, <2>2
    <3>2. PICK b \in Actors : w \in batch[b]
      BY <1>1, <3>1
    <3> QED  BY <3>1, <3>2 DEF OtherActors
  <2> QED  BY <2>1, <2>2
<1>4. \A b, c \in Actors : b # c => batch'[b] \cap batch'[c] = {}
  <2> SUFFICES ASSUME NEW b \in Actors, NEW c \in Actors, b # c PROVE batch'[b] \cap batch'[c] = {}
    OBVIOUS
  <2>1. CASE b = a
    BY <1>2, <2>1
  <2>2. CASE c = a
    BY <1>2, <2>2
  <2>3. CASE b # a /\ c # a
    BY <1>1, <2>3 DEF OtherActors
  <2> QED  BY <2>1, <2>2, <2>3
<1> QED  BY <1>2, <1>3, <1>4 DEF Gates

\* A claim on a thread is not taken away.
LEMMA JoinsStep ==
    ASSUME ScalingInv, NEW a \in Actors, OtherActors(a), JoinOf(a)',
           \A w \in exited \cap claimed :
              life[w] = "Exited" /\ w # joining[a] => w \in exited' \cap claimed' /\ life'[w] = "Exited",
           joining'[a] \in {None, joining[a]} \/ joining'[a] \notin claimed
    PROVE  Joins'
<1>1. /\ \A b \in Actors : JoinOf(b)
      /\ \A b, c \in Actors : joining[b] # None /\ b # c => joining[b] # joining[c]
  BY DEF ScalingInv, Joins
<1>2. ASSUME NEW b \in Actors \ {a}
      PROVE  JoinOf(b)' /\ (joining'[b] # None => joining'[b] # joining'[a])
  <2>1. spc'[b] = spc[b] /\ joining'[b] = joining[b] /\ JoinOf(b)
        /\ (joining[b] # None => joining[b] # joining[a])
    BY <1>1 DEF OtherActors
  <2> QED  BY <2>1 DEF JoinOf
<1>3. \A b, c \in Actors : joining'[b] # None /\ b # c => joining'[b] # joining'[c]
  <2> SUFFICES ASSUME NEW b \in Actors, NEW c \in Actors, joining'[b] # None, b # c
               PROVE  joining'[b] # joining'[c]
    OBVIOUS
  <2>1. CASE b = a
    BY <1>2, <2>1
  <2>2. CASE c = a
    BY <1>2, <2>2
  <2>3. CASE b # a /\ c # a
    BY <1>1, <2>3 DEF OtherActors
  <2> QED  BY <2>1, <2>2, <2>3
<1> QED  BY <1>2, <1>3 DEF Joins

\* After the first commit nothing belongs to the start.
LEMMA StartStep ==
    ASSUME ScalingInv, NEW a \in Actors, OtherActors(a), initialized = TRUE, initialized' = TRUE,
           started' = started, ~Starting(a)'
    PROVE  StartPhase'
BY DEF ScalingInv, StartPhase, Starting, OtherActors

\* A step that leaves mode and target alone.
LEMMA ModeStep ==
    ASSUME ScalingInv, mode' = mode, manual' = manual, target' = target,
           spc'[Loop] \in {"decide", "prepare"} => spc[Loop] \in {"decide", "prepare"} \/ mode = "Auto"
    PROVE  ModeInForce'
BY DEF ScalingInv, ModeInForce, ManualStands

\* A step that retires nobody and publishes nobody.
LEMMA QuietStep ==
    ASSUME ScalingInv, ScalingTypes', active' = active, target' = target, initialized' = initialized,
           pinned' \subseteq active,
           \A w \in Workers : /\ life'[w] = "Active" <=> life[w] = "Active"
                              /\ life'[w] \in {"Retiring", "Exited"} => life[w] \in {"Retiring", "Exited"},
           LockHeld', Gates', StartPhase', ModeInForce', Joins'
    PROVE  ScalingInv'
<1>1. SizeIsActive' /\ Published'
  BY DEF ScalingInv, SizeIsActive, Published
<1>2. RetireBounded'
  <2>1. Outstanding' \in SUBSET Outstanding
    BY DEF Outstanding
  <2>2. /\ Cardinality(Outstanding') <= Cardinality(Outstanding) /\ Cardinality(Outstanding') \in Nat
        /\ Cardinality(Outstanding) \in Nat
    BY <2>1, SetsFinite, FS_Subset, FS_CardinalityType
  <2>3. Cardinality(Outstanding) <= kMaxOutstandingRetire /\ kMaxOutstandingRetire \in Nat
    BY ScalingConstants DEF ScalingInv, RetireBounded
  <2> QED  BY <2>2, <2>3 DEF RetireBounded
<1> QED  BY <1>1, <1>2 DEF ScalingInv

\* A step that only moves one actor: no worker, batch, join or size changes.
LEMMA MoveStep ==
    ASSUME ScalingInv, NEW a \in Actors, OtherActors(a), ScalingTypes',
           UNCHANGED <<initialized, life, active, target, exited, claimed>>, pinned' \subseteq active,
           batch'[a] = batch[a], want'[a] = want[a], joining'[a] = joining[a],
           batch[a] = {} \/ spc'[a] \in {"prepare", "create", "cancel", "cancelStart"},
           spc'[a] = "prepare" => spc[a] = "prepare", spc'[a] = "create" => spc[a] = "create",
           spc'[a] = "cancel" => spc[a] \in {"cancel", "prepare"},
           spc'[a] = "join" <=> spc[a] = "join",
           LockHeld', StartPhase', ModeInForce'
    PROVE  ScalingInv'
<1>1. BatchOf(a) /\ JoinOf(a) /\ batch[a] \subseteq Workers
  BY DEF ScalingInv, Gates, Joins, ScalingTypes, ScalingTypeOK
<1>2. BatchOf(a)' /\ JoinOf(a)'
  <2>1. BatchOf(a)'
    BY <1>1 DEF BatchOf
  <2>2. JoinOf(a)'
    BY <1>1 DEF JoinOf
  <2> QED  BY <2>1, <2>2
<1>3. Gates'
  BY <1>1, <1>2, GatesStep
<1>4. Joins'
  BY <1>2, JoinsStep
<1> QED  BY <1>3, <1>4, QuietStep

-----------------------------------------------------------------------------
(* The actions.                                                             *)

\* What is known of an actor.
LEMMA ScalingFacts ==
    ASSUME ScalingInv, NEW a \in Actors
    PROVE  /\ ScalingTypes /\ spc[a] \in ActorLabels /\ BatchOf(a) /\ JoinOf(a)
           /\ spc = [spc EXCEPT ![a] = spc[a]] /\ batch[a] \subseteq Workers
           /\ pinned \subseteq active /\ (lifecycle = a <=> spc[a] \in Holding)
           /\ upHits \in 0 .. Samples /\ downHits \in 0 .. Samples /\ lifecycle \in Actors \cup {None}
           /\ 0 \in 0 .. Samples
BY ScalingConstants DEF ScalingInv, ScalingTypes, ScalingTypeOK, Gates, Joins, LockHeld, Published

\* Only the label of a changes, and what no other part of the invariant looks at.
LEMMA LabelStep ==
    ASSUME ScalingInv, NEW a \in Actors, NEW p \in ActorLabels, spc' = [spc EXCEPT ![a] = p],
           UNCHANGED <<initialized, started, life, active, target, mode, exited, claimed, batch, want,
                       joining, manual>>,
           upHits' \in 0 .. Samples, downHits' \in 0 .. Samples, lifecycle' \in Actors \cup {None},
           pinned' \subseteq active,
           batch[a] = {} \/ p \in {"prepare", "create", "cancel", "cancelStart"},
           p = "prepare" => spc[a] = "prepare", p = "create" => spc[a] = "create",
           p = "cancel" => spc[a] \in {"cancel", "prepare"},
           p = "join" <=> spc[a] = "join",
           p = "decide" => mode = "Auto",
           \/ lifecycle' = lifecycle /\ (p \in Holding <=> spc[a] \in Holding)
           \/ lifecycle \in {None, a} /\ lifecycle' = IF p \in Holding THEN a ELSE None,
           StartPhase'
    PROVE  ScalingInv'
<1>1. ScalingTypes'
  BY DEF ScalingInv, ScalingTypes, ScalingTypeOK
<1>2. spc'[a] = p /\ OtherActors(a)
  BY ScalingFacts DEF ScalingTypes, OtherActors
<1>3. LockHeld'
  BY <1>2, LockStep
<1>4. ModeInForce'
  <2>1. spc'[Loop] = IF a = Loop THEN p ELSE spc[Loop]
    BY <1>2, ScalingConstants DEF OtherActors
  <2>2. mode' = mode /\ manual' = manual /\ target' = target
    OBVIOUS
  <2> QED  BY <2>1, <2>2, ModeStep
<1> QED  BY <1>1, <1>2, <1>3, <1>4, MoveStep

\* A batch fails and is cancelled outside the mutex.
LEMMA PrepareFailsInv ==
    ASSUME ScalingInv, NEW a \in Actors, PrepareFails(a)
    PROVE  ScalingInv'
<1>1. PICK p \in {"cancel", "cancelStart"} :
         /\ spc' = [spc EXCEPT ![a] = p]
         /\ p = "cancel" => spc[a] = "prepare"
         /\ p = "cancelStart" => spc[a] = "create"
  BY DEF PrepareFails, ActorTo
<1>2. /\ UNCHANGED <<initialized, started, life, active, target, mode, exited, claimed, batch, want,
                     joining, manual, upHits, downHits, pinned>>
      /\ lifecycle' = None
  BY DEF PrepareFails
<1>3. StartPhase'
  <2>1. spc'[a] = p /\ \A b \in Actors \ {a} : spc'[b] = spc[b]
    BY <1>1, ScalingFacts DEF ScalingTypes
  <2> QED  BY <1>1, <1>2, <2>1 DEF ScalingInv, StartPhase, Starting
<1>4. p \in ActorLabels /\ spc[a] \in Holding /\ p \notin Holding /\ p \notin {"join", "decide", "prepare", "create"}
      /\ spc[a] # "join"
  BY <1>1 DEF ActorLabels, Holding
<1> QED  BY <1>1, <1>2, <1>3, <1>4, ScalingFacts, LabelStep

\* A reaper has nothing more to join.
LEMMA ReapEndsInv ==
    ASSUME ScalingInv, NEW a \in Actors, ReapEnds(a)
    PROVE  ScalingInv'
<1>1. /\ UNCHANGED <<initialized, started, life, active, target, mode, exited, claimed, batch, want,
                     joining, manual, upHits, downHits, pinned, lifecycle>>
      /\ spc[a] = "reap" /\ spc' = [spc EXCEPT ![a] = "out"]
  BY DEF ReapEnds, ActorTo
<1>2. batch[a] = {} /\ "out" \in ActorLabels /\ "out" \notin Holding /\ spc[a] \notin Holding
  BY <1>1, ScalingFacts DEF BatchOf, ActorLabels, Holding
<1>3. StartPhase'
  <2>1. spc'[a] = "out" /\ OtherActors(a)
    BY <1>1, ScalingFacts DEF ScalingTypes, OtherActors
  <2>2. initialized = TRUE
    BY <1>1, Begun DEF Starting
  <2> QED  BY <1>1, <2>1, <2>2, StartStep DEF Starting
<1> QED  BY <1>1, <1>2, <1>3, ScalingFacts, LabelStep

\* _AutoScaleTick, but for a decision that changes the size.
LEMMA TickInv ==
    ASSUME ScalingInv,
           TickGate \/ TickSample
           \/ (spc[Loop] = "decide" /\ DecideNothing
               /\ UNCHANGED <<started, initialized, pinned, exited, claimed, joining, thrown>>)
    PROVE  ScalingInv'
<1>0. Loop \in Actors
  BY ScalingConstants
<1>1. PICK p \in {"tick", "decide", "reap"} :
         /\ spc' = [spc EXCEPT ![Loop] = p]
         /\ p = "tick" => spc[Loop] = "out" /\ lifecycle' = lifecycle
         /\ p = "decide" => spc[Loop] = "tick" /\ lifecycle = None /\ lifecycle' = Loop /\ mode = "Auto"
         /\ p = "reap" => \/ spc[Loop] \in {"out", "tick"} /\ lifecycle' = lifecycle
                          \/ spc[Loop] = "decide" /\ lifecycle' = None
  BY DEF TickGate, TickSample, DecideNothing, ActorTo, ClaimAutoSample
<1>2. UNCHANGED <<initialized, started, life, active, target, mode, exited, claimed, batch, want,
                  joining, manual, pinned>>
  BY DEF TickGate, TickSample, DecideNothing
<1>3. upHits' \in 0 .. Samples /\ downHits' \in 0 .. Samples
  <2>1. upHits \in 0 .. Samples /\ downHits \in 0 .. Samples /\ Samples \in Nat
    BY <1>0, ScalingFacts, ScalingConstants
  <2>2. \A h \in 0 .. Samples, q \in BOOLEAN : Advanced(h, q) \in 0 .. Samples
    BY <2>1 DEF Advanced
  <2>3. \/ upHits' = upHits /\ downHits' = downHits
        \/ \E up, down \in BOOLEAN :
              upHits' = Advanced(upHits, up) /\ downHits' = Advanced(downHits, down)
        \/ upHits' \in {0, upHits} /\ downHits' \in {0, downHits}
    BY DEF TickGate, TickSample, DecideNothing
  <2> QED  BY <2>1, <2>2, <2>3
<1>4. /\ batch[Loop] = {} /\ p \in ActorLabels /\ spc[Loop] # "join"
      /\ p # "prepare" /\ p # "create" /\ p # "cancel" /\ p # "join"
  BY <1>0, <1>1, ScalingFacts DEF BatchOf, ActorLabels
<1>5. \/ lifecycle' = lifecycle /\ (p \in Holding <=> spc[Loop] \in Holding)
      \/ lifecycle \in {None, Loop} /\ lifecycle' = IF p \in Holding THEN Loop ELSE None
  BY <1>0, <1>1, ScalingFacts DEF Holding
<1>6. StartPhase'
  <2>1. spc'[Loop] = p /\ OtherActors(Loop)
    BY <1>0, <1>1, <1>2, ScalingFacts DEF ScalingTypes, OtherActors
  <2>2. initialized = TRUE
    <3>1. CASE spc[Loop] = "out"
      BY <1>0, <3>1, ScalingFacts DEF TickGate, TickSample, ScalingTypes
    <3>2. CASE spc[Loop] # "out"
      BY <1>0, <1>1, <3>2, Begun DEF Starting
    <3> QED  BY <3>1, <3>2
  <2> QED  BY <1>0, <1>1, <1>2, <2>1, <2>2, StartStep DEF Starting
<1>7. lifecycle' \in Actors \cup {None} /\ pinned' \subseteq active
  BY <1>0, <1>1, <1>2, ScalingFacts
<1> QED  BY <1>0, <1>1, <1>2, <1>3, <1>4, <1>5, <1>6, <1>7, LabelStep

\* A driver is bound to a worker or unbound from it.
LEMMA DriverPinInv ==
    ASSUME ScalingInv, NEW w \in Workers, BindDriver(w) \/ UnbindDriver(w)
    PROVE  ScalingInv'
<1>0. Loop \in Actors
  BY ScalingConstants
<1>1. /\ UNCHANGED <<initialized, started, life, active, target, mode, exited, claimed, batch, want,
                     joining, manual, upHits, downHits, lifecycle, spc>>
      /\ pinned' \subseteq active
  BY <1>0, ScalingFacts DEF BindDriver, UnbindDriver
<1>2. ScalingTypes'
  BY <1>1 DEF ScalingInv, ScalingTypes, ScalingTypeOK
<1>3. OtherActors(Loop) /\ LockHeld' /\ StartPhase' /\ ModeInForce'
  BY <1>1 DEF OtherActors, ScalingInv, LockHeld, StartPhase, Starting, ModeInForce, ManualStands
<1> QED  BY <1>0, <1>1, <1>2, <1>3, ScalingFacts, MoveStep DEF BatchOf

\* SetProcesserAutoScale, under the lock: no manual size is in force after it.
LEMMA AutoScaleInv ==
    ASSUME ScalingInv, NEW a \in Callers, NEW m \in {"Auto", "Manual"}, SetProcesserAutoScale(a, m)
    PROVE  ScalingInv'
<1>0. Loop \in Actors /\ a \in Actors
  BY ScalingConstants
<1>1. /\ UNCHANGED <<initialized, started, life, active, target, exited, claimed, batch, want,
                     joining, lifecycle, spc, pinned>>
      /\ upHits' = 0 /\ downHits' = 0 /\ mode' = m /\ manual' = 0 /\ lifecycle = None
  BY DEF SetProcesserAutoScale
<1>2. ScalingTypes'
  BY <1>0, <1>1, ScalingFacts, ScalingConstants DEF ScalingInv, ScalingTypes, ScalingTypeOK
<1>3. OtherActors(Loop) /\ LockHeld' /\ StartPhase'
  BY <1>1 DEF OtherActors, ScalingInv, LockHeld, StartPhase, Starting
<1>4. ModeInForce'
  <2>1. spc[Loop] \notin Holding
    BY <1>0, <1>1, ScalingConstants DEF ScalingInv, LockHeld
  <2> QED  BY <1>1, <2>1 DEF ModeInForce, ManualStands, Holding
<1> QED  BY <1>0, <1>1, <1>2, <1>3, <1>4, ScalingFacts, MoveStep DEF BatchOf

\* A retiring worker exits and its thread ends.
LEMMA WorkerLeavesInv ==
    ASSUME ScalingInv, NEW w \in Workers, WorkerExits(w) \/ ThreadEnds(w)
    PROVE  ScalingInv'
<1>0. Loop \in Actors
  BY ScalingConstants
<1>1. /\ UNCHANGED <<initialized, started, active, target, mode, claimed, batch, want,
                     joining, manual, upHits, downHits, lifecycle, spc, pinned>>
      /\ exited \subseteq exited' /\ exited' \subseteq exited \cup {w}
  BY DEF WorkerExits, ThreadEnds
<1>2. /\ life' \in [Workers -> {"none", "Preparing", "Active", "Retiring", "Exited"}]
      /\ \A v \in Workers : /\ life'[v] = life[v] \/ (life[v] = "Retiring" /\ life'[v] = "Exited")
  BY DEF WorkerExits, ThreadEnds, Becomes, ScalingInv, ScalingTypes, ScalingTypeOK
<1>3. ScalingTypes'
  BY <1>1, <1>2 DEF ScalingInv, ScalingTypes, ScalingTypeOK
<1>4. OtherActors(Loop) /\ LockHeld' /\ StartPhase' /\ ModeInForce'
  BY <1>1 DEF OtherActors, ScalingInv, LockHeld, StartPhase, Starting, ModeInForce, ManualStands
<1>5. \A v \in Workers : life'[v] = "Preparing" <=> life[v] = "Preparing"
  BY <1>2
<1>6. BatchOf(Loop)' /\ JoinOf(Loop)' /\ batch[Loop] \subseteq Workers
  <2>1. BatchOf(Loop) /\ JoinOf(Loop) /\ batch[Loop] \subseteq Workers /\ joining[Loop] \in Workers \cup {None}
    BY <1>0, ScalingFacts DEF ScalingTypes, ScalingTypeOK
  <2>2. BatchOf(Loop)'
    BY <1>1, <1>5, <2>1 DEF BatchOf
  <2>3. JoinOf(Loop)'
    BY <1>1, <1>2, <2>1 DEF JoinOf
  <2> QED  BY <2>1, <2>2, <2>3
<1>7. Gates'
  BY <1>0, <1>1, <1>4, <1>5, <1>6, GatesStep
<1>8. Joins'
  <2>1. \A v \in exited \cap claimed : life[v] = "Exited" => v \in exited' \cap claimed' /\ life'[v] = "Exited"
    BY <1>1, <1>2 DEF ScalingInv, ScalingTypes, ScalingTypeOK
  <2> QED  BY <1>0, <1>1, <1>4, <1>6, <2>1, JoinsStep
<1>9. pinned' \subseteq active /\ active' = active /\ target' = target /\ initialized' = initialized
  BY <1>0, <1>1, ScalingFacts
<1> QED  BY <1>2, <1>3, <1>4, <1>7, <1>8, <1>9, QuietStep

\* _ReapRetiredWorkers: a record is claimed under the map lock, joined outside it.
LEMMA ReaperInv ==
    ASSUME ScalingInv, NEW a \in Actors,
           Reap(a) \/ JoinThrows(a) \/ \E w \in Workers : Claim(a, w)
    PROVE  ScalingInv'
<1>1. UNCHANGED <<initialized, started, active, target, mode, batch, want, manual, upHits, downHits,
                  lifecycle, pinned>>
  BY DEF Reap, JoinThrows, Claim
<1>2. PICK p \in {"out", "reap", "join"}, j \in Workers \cup {None} :
         /\ spc' = [spc EXCEPT ![a] = p] /\ joining' = [joining EXCEPT ![a] = j]
         /\ p = "join" <=> j # None
         /\ p = "join" => /\ spc[a] = "reap" /\ life[j] = "Exited" /\ j \in exited \ claimed
                          /\ claimed' = claimed \cup {j} /\ exited' = exited /\ life' = life
         /\ p # "join" => /\ spc[a] = "join" /\ claimed' = claimed \ {joining[a]}
                          /\ exited' \in {exited, exited \ {joining[a]}}
                          /\ life' = life \/ Becomes({joining[a]}, "none")
  BY ScalingConstants DEF Reap, JoinThrows, Claim, ActorTo
<1>3. /\ ScalingTypes /\ BatchOf(a) /\ JoinOf(a) /\ batch[a] \subseteq Workers
      /\ spc[a] \in {"reap", "join"} /\ pinned \subseteq active
  BY <1>2, ScalingFacts
<1>4. /\ spc[a] = "join" => joining[a] \in Workers /\ life[joining[a]] = "Exited"
      /\ spc[a] = "reap" => joining[a] = None
      /\ batch[a] = {}
  BY <1>3 DEF JoinOf, BatchOf, ScalingTypes, ScalingTypeOK
<1>5. /\ life' \in [Workers -> {"none", "Preparing", "Active", "Retiring", "Exited"}]
      /\ \A v \in Workers : /\ v # joining[a] => life'[v] = life[v]
                            /\ v = joining[a] => life[v] = "Exited" /\ life'[v] \in {"none", "Exited"}
  <2>1. life \in [Workers -> {"none", "Preparing", "Active", "Retiring", "Exited"}] /\ None \notin Workers
    BY <1>3, ScalingConstants DEF ScalingTypes, ScalingTypeOK
  <2>2. CASE p = "join"
    BY <1>2, <1>4, <2>1, <2>2
  <2>3. CASE p # "join"
    BY <1>2, <1>4, <2>1, <2>3 DEF Becomes
  <2> QED  BY <2>2, <2>3
<1>6. spc'[a] = p /\ joining'[a] = j /\ OtherActors(a) /\ ScalingTypes'
  <2>1. spc'[a] = p /\ joining'[a] = j /\ OtherActors(a)
    BY <1>1, <1>2, <1>3 DEF ScalingTypes, ScalingTypeOK, OtherActors
  <2>2. spc' \in [Actors -> ActorLabels] /\ joining' \in [Actors -> Workers \cup {None}]
    BY <1>2, <1>3 DEF ScalingTypes, ScalingTypeOK, ActorLabels
  <2>3. exited' \subseteq Workers /\ claimed' \subseteq Workers
    BY <1>2, <1>3 DEF ScalingTypes, ScalingTypeOK
  <2> QED  BY <1>1, <1>3, <1>5, <2>1, <2>2, <2>3 DEF ScalingTypes, ScalingTypeOK
<1>7. LockHeld'
  BY <1>1, <1>2, <1>3, <1>6, LockStep DEF Holding
<1>8. StartPhase'
  <2>1. initialized = TRUE
    BY <1>3, Begun DEF Starting
  <2> QED  BY <1>1, <1>2, <1>6, <2>1, StartStep DEF Starting
<1>9. ModeInForce'
  <2>1. spc'[Loop] = IF a = Loop THEN p ELSE spc[Loop]
    BY <1>6, ScalingConstants DEF OtherActors
  <2> QED  BY <1>1, <1>2, <2>1, ModeStep
<1>10. Gates'
  <2>1. BatchOf(a)'
    BY <1>1, <1>2, <1>4, <1>6 DEF BatchOf
  <2>2. \A v \in Workers : life'[v] = "Preparing" <=> life[v] = "Preparing"
    BY <1>5
  <2> QED  BY <1>1, <1>4, <1>6, <2>1, <2>2, GatesStep
<1>11. Joins'
  <2>1. JoinOf(a)'
    BY <1>2, <1>6 DEF JoinOf
  <2>2. ASSUME NEW v \in exited \cap claimed, life[v] = "Exited", v # joining[a]
        PROVE  v \in exited' \cap claimed' /\ life'[v] = "Exited"
    BY <1>2, <1>3, <1>5, <2>2 DEF ScalingTypes, ScalingTypeOK
  <2>3. j \in {None, joining[a]} \/ j \notin claimed
    BY <1>2
  <2> QED  BY <1>6, <2>1, <2>2, <2>3, JoinsStep
<1> QED  BY <1>1, <1>3, <1>5, <1>6, <1>7, <1>8, <1>9, <1>10, <1>11, QuietStep

\* A batch that could not be started leaves no trace.
LEMMA CancelBatchInv ==
    ASSUME ScalingInv, NEW a \in Actors, CancelBatch(a)
    PROVE  ScalingInv'
<1>1. /\ UNCHANGED <<initialized, active, target, mode, want, manual, lifecycle, pinned, exited, claimed,
                     joining>>
      /\ spc[a] \in {"cancel", "cancelStart"} /\ lifecycle = None
      /\ Becomes(batch[a], "none") /\ batch' = [batch EXCEPT ![a] = {}]
      /\ started' = (started /\ spc[a] = "cancel")
      /\ upHits' \in {0, upHits} /\ downHits' \in {0, downHits}
  BY DEF CancelBatch, TargetKept
<1>2. PICK p \in {"reap", "out"} : /\ spc' = [spc EXCEPT ![a] = p]
                                   /\ p = "reap" <=> spc[a] = "cancel"
  BY DEF CancelBatch, ActorTo
<1>3. /\ ScalingTypes /\ BatchOf(a) /\ JoinOf(a) /\ batch[a] \subseteq Workers /\ pinned \subseteq active
      /\ 0 \in 0 .. Samples
  BY ScalingFacts
<1>4. /\ life' \in [Workers -> {"none", "Preparing", "Active", "Retiring", "Exited"}]
      /\ \A w \in Workers : life'[w] = IF w \in batch[a] THEN "none" ELSE life[w]
      /\ \A w \in batch[a] : life[w] = "Preparing"
  BY <1>1, <1>3 DEF Becomes, ScalingTypes, ScalingTypeOK, BatchOf
<1>5. spc'[a] = p /\ batch'[a] = {} /\ OtherActors(a) /\ ScalingTypes'
  <2>1. spc'[a] = p /\ batch'[a] = {} /\ OtherActors(a)
    BY <1>1, <1>2, <1>3 DEF ScalingTypes, ScalingTypeOK, OtherActors
  <2>2. spc' \in [Actors -> ActorLabels] /\ batch' \in [Actors -> SUBSET Workers]
    BY <1>1, <1>2, <1>3 DEF ScalingTypes, ScalingTypeOK, ActorLabels
  <2> QED  BY <1>1, <1>3, <1>4, <2>1, <2>2 DEF ScalingTypes, ScalingTypeOK
<1>6. LockHeld'
  BY <1>1, <1>2, <1>5, LockStep DEF Holding
<1>7. StartPhase'
  <2>1. CASE spc[a] = "cancel"
    <3>1. initialized = TRUE /\ started' = started
      BY <1>1, <2>1, Begun DEF Starting
    <3> QED  BY <1>1, <1>2, <1>5, <3>1, StartStep DEF Starting
  <2>2. CASE spc[a] = "cancelStart"
    BY <1>1, <1>2, <1>5, <2>2 DEF ScalingInv, StartPhase, Starting, OtherActors
  <2> QED  BY <1>1, <2>1, <2>2
<1>8. ModeInForce'
  <2>1. spc'[Loop] = IF a = Loop THEN p ELSE spc[Loop]
    BY <1>5, ScalingConstants DEF OtherActors
  <2> QED  BY <1>1, <1>2, <2>1, ModeStep
<1>9. Gates'
  <2>1. BatchOf(a)'
    BY <1>2, <1>5 DEF BatchOf
  <2> QED  BY <1>1, <1>3, <1>4, <1>5, <2>1, GatesStep
<1>10. Joins'
  <2>1. JoinOf(a)'
    BY <1>1, <1>2, <1>3, <1>5 DEF JoinOf
  <2>2. \A v \in exited \cap claimed : life[v] = "Exited" => life'[v] = "Exited"
    BY <1>3, <1>4 DEF ScalingTypes, ScalingTypeOK
  <2> QED  BY <1>1, <1>5, <2>1, <2>2, JoinsStep
<1> QED  BY <1>1, <1>3, <1>4, <1>5, <1>6, <1>7, <1>8, <1>9, <1>10, QuietStep

\* New workers go behind the gate of a.
LEMMA PrepareStep ==
    ASSUME ScalingInv, NEW a \in Actors, NEW n \in 0 .. MaxNum, NEW ws \in SUBSET Unused,
           NEW p \in {"prepare", "create"}, spc[a] \in {"out", "decide"},
           spc' = [spc EXCEPT ![a] = p], lifecycle \in {None, a}, lifecycle' = a,
           want' = [want EXCEPT ![a] = n], batch' = [batch EXCEPT ![a] = ws],
           Becomes(ws, "Preparing"),
           UNCHANGED <<initialized, active, pinned, exited, claimed, joining>>,
           ScalingTypes', SizeIsActive', StartPhase', ModeInForce',
           p = "prepare" => /\ n \in MinNum .. MaxNum /\ n = Cardinality(active) + Cardinality(ws)
                            /\ Cardinality(ws) <= MaxNum - MinNum,
           p = "create" => n = InitialNum /\ Cardinality(ws) = InitialNum
    PROVE  ScalingInv'
<1>1. /\ ScalingTypes /\ BatchOf(a) /\ JoinOf(a) /\ batch[a] = {} /\ pinned \subseteq active
  BY ScalingFacts DEF BatchOf
<1>2. /\ spc'[a] = p /\ batch'[a] = ws /\ want'[a] = n /\ joining'[a] = joining[a] /\ OtherActors(a)
      /\ ws \subseteq Workers
  BY <1>1 DEF ScalingTypes, ScalingTypeOK, OtherActors, Unused
<1>3. /\ \A w \in Workers : life'[w] = IF w \in ws THEN "Preparing" ELSE life[w]
      /\ \A w \in ws : life[w] = "none" /\ w \in Workers
  BY DEF Becomes, Unused
<1>4. LockHeld'
  BY <1>2, LockStep DEF Holding
<1>5. Gates'
  <2>1. BatchOf(a)'
    BY <1>2, <1>3 DEF BatchOf
  <2> QED  BY <1>1, <1>2, <1>3, <2>1, GatesStep
<1>6. Joins'
  <2>1. JoinOf(a)'
    BY <1>1, <1>2 DEF JoinOf
  <2>2. \A v \in exited \cap claimed : life[v] = "Exited" => life'[v] = "Exited"
    BY <1>1, <1>3 DEF ScalingTypes, ScalingTypeOK
  <2> QED  BY <1>2, <2>1, <2>2, JoinsStep
<1>7. Published'
  BY <1>3 DEF ScalingInv, Published
<1>8. RetireBounded'
  <2>1. Outstanding' = Outstanding
    BY <1>3 DEF Outstanding
  <2> QED  BY <2>1 DEF ScalingInv, RetireBounded
<1> QED  BY <1>4, <1>5, <1>6, <1>7, <1>8 DEF ScalingInv

\* Start prepares the first batch.
LEMMA StartInv ==
    ASSUME ScalingInv, NEW a \in Actors, Start(a)
    PROVE  ScalingInv'
<1> DEFINE ws == Fresh(InitialNum)
<1>1. /\ spc[a] = "out" /\ ~started /\ lifecycle = None /\ started' = TRUE
      /\ mode' \in {"Auto", "Manual"} /\ upHits' = 0 /\ downHits' = 0 /\ target' = InitialNum
      /\ lifecycle' = a /\ want' = [want EXCEPT ![a] = InitialNum]
      /\ batch' = [batch EXCEPT ![a] = ws] /\ Becomes(ws, "Preparing")
      /\ spc' = [spc EXCEPT ![a] = "create"]
      /\ UNCHANGED <<initialized, active, pinned, exited, claimed, joining, manual>>
  BY DEF Start, ActorTo
<1>2. initialized = FALSE /\ active = {} /\ manual = 0 /\ \A b \in Actors : spc[b] = "out"
  BY <1>1 DEF ScalingInv, ScalingTypes, StartPhase
<1>3. ws \in SUBSET Unused /\ Cardinality(ws) = InitialNum
  <2>1. Cardinality(active) = 0 /\ InitialNum \in 0 .. MaxNum
    BY <1>2, ScalingConstants, FS_EmptySet
  <2>2. InitialNum - Cardinality(active) = InitialNum /\ InitialNum >= Cardinality(active)
    BY <2>1
  <2> QED  BY <1>1, <1>2, <2>1, <2>2, FreshExists
<1> HIDE DEF ws
<1>4. ScalingTypes /\ InitialNum \in 0 .. MaxNum /\ 0 \in 0 .. Samples
  BY ScalingConstants DEF ScalingInv
<1>5. ScalingTypes'
  <2>1. /\ spc' \in [Actors -> ActorLabels] /\ want' \in [Actors -> 0 .. MaxNum]
        /\ batch' \in [Actors -> SUBSET Workers]
    BY <1>1, <1>3, <1>4 DEF ScalingTypes, ScalingTypeOK, ActorLabels, Unused
  <2>2. life' \in [Workers -> {"none", "Preparing", "Active", "Retiring", "Exited"}]
    BY <1>1, <1>4 DEF ScalingTypes, ScalingTypeOK, Becomes
  <2> QED  BY <1>1, <1>4, <2>1, <2>2 DEF ScalingTypes, ScalingTypeOK
<1>6. spc'[a] = "create" /\ \A b \in Actors \ {a} : spc'[b] = "out"
  BY <1>1, <1>2, <1>4 DEF ScalingTypes
<1>7. SizeIsActive' /\ StartPhase'
  BY <1>1, <1>2, <1>6 DEF SizeIsActive, StartPhase, Starting
<1>8. ModeInForce'
  BY <1>1, <1>2, <1>6, ScalingConstants DEF ModeInForce, ManualStands
<1> QED  BY <1>1, <1>3, <1>4, <1>5, <1>7, <1>8, PrepareStep

\* The batch is published: the active workers are then as many as were wanted.
LEMMA CommitInv ==
    ASSUME ScalingInv, NEW a \in Actors, Commit(a)
    PROVE  ScalingInv'
<1>1. /\ spc[a] \in {"prepare", "create"} /\ Becomes(batch[a], "Active")
      /\ active' = active \cup batch[a] /\ batch' = [batch EXCEPT ![a] = {}]
      /\ target' = want[a] /\ initialized' = TRUE /\ lifecycle' = None
      /\ spc' = [spc EXCEPT ![a] = "reap"]
      /\ upHits' \in {0, upHits} /\ downHits' \in {0, downHits}
      /\ UNCHANGED <<started, pinned, exited, claimed, want, joining>>
      /\ spc[a] = "prepare" /\ a # Loop => mode' = "Manual" /\ manual' = want[a]
      /\ spc[a] = "create" \/ a = Loop => mode' = mode /\ manual' = manual
  BY DEF Commit, TargetSet, ActorTo
<1>2. /\ ScalingTypes /\ BatchOf(a) /\ JoinOf(a) /\ batch[a] \subseteq Workers /\ pinned \subseteq active
      /\ lifecycle = a /\ want[a] \in 0 .. MaxNum /\ 0 \in 0 .. Samples
  BY <1>1, ScalingFacts DEF ScalingTypes, Holding
<1>3. /\ life' \in [Workers -> {"none", "Preparing", "Active", "Retiring", "Exited"}]
      /\ \A w \in Workers : life'[w] = IF w \in batch[a] THEN "Active" ELSE life[w]
      /\ \A w \in batch[a] : life[w] = "Preparing"
  BY <1>1, <1>2 DEF Becomes, ScalingTypes, ScalingTypeOK, BatchOf
<1>4. spc'[a] = "reap" /\ batch'[a] = {} /\ joining'[a] = joining[a] /\ OtherActors(a) /\ ScalingTypes'
  <2>1. spc'[a] = "reap" /\ batch'[a] = {} /\ OtherActors(a)
    BY <1>1, <1>2 DEF ScalingTypes, ScalingTypeOK, OtherActors
  <2>2. spc' \in [Actors -> ActorLabels] /\ batch' \in [Actors -> SUBSET Workers]
    BY <1>1, <1>2 DEF ScalingTypes, ScalingTypeOK, ActorLabels
  <2> QED  BY <1>1, <1>2, <1>3, <2>1, <2>2 DEF ScalingTypes, ScalingTypeOK
<1>5. LockHeld'
  BY <1>1, <1>2, <1>4, LockStep DEF Holding
<1>6. Published /\ StartPhase /\ SizeIsActive /\ ModeInForce
  BY DEF ScalingInv
<1>7. StartPhase'
  <2>1. started = TRUE /\ \A b \in Actors \ {a} : ~Starting(b)
    BY <1>1, <1>2, <1>6 DEF StartPhase, Starting, ScalingTypes
  <2> QED  BY <1>1, <1>4, <2>1 DEF StartPhase, Starting, OtherActors
<1>8. SizeIsActive'
  <2>1. active \cap batch[a] = {}
    BY <1>2, <1>3, <1>6 DEF Published
  <2>2. Cardinality(active') = Cardinality(active) + Cardinality(batch[a])
    <3>1. /\ IsFiniteSet(active) /\ IsFiniteSet(batch[a])
          /\ Cardinality(active) \in Nat /\ Cardinality(batch[a]) \in Nat
      BY SetsFinite
    <3>2. Cardinality(active \cup batch[a])
            = Cardinality(active) + Cardinality(batch[a]) - Cardinality(active \cap batch[a])
      BY <3>1, FS_Union
    <3>3. Cardinality(active \cap batch[a]) = 0
      BY <2>1, FS_EmptySet
    <3> QED  BY <1>1, <3>1, <3>2, <3>3
  <2>3. CASE spc[a] = "prepare"
    BY <1>1, <1>2, <2>2, <2>3 DEF BatchOf, SizeIsActive
  <2>4. CASE spc[a] = "create"
    <3>1. active = {}
      BY <1>6, <2>4 DEF StartPhase, Starting
    <3>2. Cardinality(active) = 0 /\ InitialNum \in MinNum .. MaxNum
      BY <3>1, FS_EmptySet, ScalingConstants
    <3>3. want[a] = InitialNum /\ Cardinality(batch[a]) = InitialNum
      BY <1>2, <2>4 DEF BatchOf
    <3> QED  BY <1>1, <2>2, <3>2, <3>3 DEF SizeIsActive
  <2> QED  BY <1>1, <2>3, <2>4
<1>9. Published'
  BY <1>1, <1>2, <1>3, <1>6 DEF Published
<1>10. RetireBounded'
  <2>1. Outstanding' = Outstanding
    BY <1>3 DEF Outstanding
  <2> QED  BY <2>1 DEF ScalingInv, RetireBounded
<1>11. ModeInForce'
  <2>1. a # Loop => spc'[Loop] = spc[Loop] /\ spc[Loop] \notin Holding
    BY <1>2, <1>4, ScalingConstants DEF OtherActors, ScalingInv, LockHeld
  <2>2. spc'[Loop] \notin {"decide", "prepare"}
    BY <1>4, <2>1 DEF Holding
  <2>3. spc[a] = "create" \/ a = Loop => manual = 0
    BY <1>1, <1>6 DEF ModeInForce, StartPhase, Starting
  <2>4. CASE spc[a] = "create" \/ a = Loop
    BY <1>1, <2>2, <2>3, <2>4 DEF ModeInForce, ManualStands
  <2>5. CASE spc[a] = "prepare" /\ a # Loop
    BY <1>1, <2>2, <2>5 DEF ModeInForce, ManualStands
  <2> QED  BY <1>1, <2>4, <2>5
<1>12. Gates'
  <2>1. BatchOf(a)'
    BY <1>4 DEF BatchOf
  <2> QED  BY <1>2, <1>3, <1>4, <2>1, GatesStep
<1>13. Joins'
  <2>1. JoinOf(a)'
    BY <1>1, <1>2, <1>4 DEF JoinOf
  <2>2. \A v \in exited \cap claimed : life[v] = "Exited" => life'[v] = "Exited"
    BY <1>2, <1>3 DEF ScalingTypes, ScalingTypeOK
  <2> QED  BY <1>1, <1>4, <2>1, <2>2, JoinsStep
<1> QED  BY <1>4, <1>5, <1>7, <1>8, <1>9, <1>10, <1>11, <1>12, <1>13 DEF ScalingInv

\* _ApplyTargetLocked, entered by a request or by the loop's decision.
EnteredBy(a) == (spc[a] = "out" /\ a # Loop /\ lifecycle = None) \/ (spc[a] = "decide" /\ a = Loop)

\* A request for more workers prepares a batch.
LEMMA PrepareInv ==
    ASSUME ScalingInv, NEW a \in Actors, EnteredBy(a), initialized = TRUE, NEW n \in MinNum .. MaxNum,
           n > Cardinality(active), Prepare(a, n),
           UNCHANGED <<started, initialized, pinned, exited, claimed, joining>>
    PROVE  ScalingInv'
<1> DEFINE ws == Fresh(n - Cardinality(active))
<1>1. /\ lifecycle' = a /\ want' = [want EXCEPT ![a] = n] /\ batch' = [batch EXCEPT ![a] = ws]
      /\ Becomes(ws, "Preparing") /\ spc' = [spc EXCEPT ![a] = "prepare"]
      /\ UNCHANGED <<active, target, mode, upHits, downHits, manual>>
  BY DEF Prepare, ActorTo
<1>2. /\ spc[a] \in {"out", "decide"} /\ lifecycle \in {None, a} /\ ScalingTypes
  BY ScalingFacts DEF EnteredBy, Holding
<1>3. /\ Cardinality(active) \in Nat /\ Cardinality(active) >= MinNum /\ n \in 0 .. MaxNum
      /\ n \in Nat /\ MinNum \in Nat /\ MaxNum \in Nat
  <2>1. Cardinality(active) \in Nat /\ MinNum \in Nat /\ MaxNum \in Nat
    BY SetsFinite, ScalingConstants
  <2>2. Cardinality(active) \in MinNum .. MaxNum
    BY DEF ScalingInv, SizeIsActive
  <2> QED  BY <2>1, <2>2
<1>4. ws \in SUBSET Unused /\ Cardinality(ws) = n - Cardinality(active)
  <2>1. n >= Cardinality(active)
    BY <1>3
  <2> QED  BY <1>2, <1>3, <2>1, FreshExists
<1> HIDE DEF ws
<1>5. ScalingTypes'
  <2>1. /\ spc' \in [Actors -> ActorLabels] /\ want' \in [Actors -> 0 .. MaxNum]
        /\ batch' \in [Actors -> SUBSET Workers]
    BY <1>1, <1>2, <1>3, <1>4 DEF ScalingTypes, ScalingTypeOK, ActorLabels, Unused
  <2>2. life' \in [Workers -> {"none", "Preparing", "Active", "Retiring", "Exited"}]
    BY <1>1, <1>2 DEF ScalingTypes, ScalingTypeOK, Becomes
  <2> QED  BY <1>1, <1>2, <2>1, <2>2 DEF ScalingTypes, ScalingTypeOK
<1>6. spc'[a] = "prepare" /\ OtherActors(a)
  BY <1>1, <1>2 DEF ScalingTypes, ScalingTypeOK, OtherActors
<1>7. SizeIsActive' /\ StartPhase'
  <2>1. SizeIsActive'
    BY <1>1 DEF ScalingInv, SizeIsActive
  <2>2. StartPhase'
    BY <1>6, StartStep DEF Starting
  <2> QED  BY <2>1, <2>2
<1>8. ModeInForce'
  <2>1. a # Loop => spc'[Loop] = spc[Loop]
    BY <1>6, ScalingConstants DEF OtherActors
  <2>2. a = Loop => spc[Loop] = "decide"
    BY DEF EnteredBy
  <2> QED  BY <1>1, <2>1, <2>2, ModeStep
<1>9. n = Cardinality(active) + Cardinality(ws) /\ Cardinality(ws) <= MaxNum - MinNum
  BY <1>3, <1>4
<1> QED  BY <1>1, <1>2, <1>3, <1>4, <1>5, <1>7, <1>8, <1>9, PrepareStep

\* A request that ends under the lock, with the workers ws retired.
LEMMA TargetSetStep ==
    ASSUME ScalingInv, NEW a \in Actors, EnteredBy(a), initialized = TRUE, NEW n \in MinNum .. MaxNum,
           NEW ws \in SUBSET (active \ pinned), Cardinality(ws) = Cardinality(active) - n,
           Cardinality(Outstanding) + Cardinality(ws) <= kMaxOutstandingRetire,
           Becomes(ws, "Retiring"), active' = active \ ws, TargetSet(a, n),
           lifecycle' = None, ActorTo(a, "reap"), UNCHANGED <<batch, want>>,
           UNCHANGED <<started, initialized, pinned, exited, claimed, joining>>
    PROVE  ScalingInv'
<1>1. /\ spc' = [spc EXCEPT ![a] = "reap"] /\ target' = n /\ upHits' = 0 /\ downHits' = 0
      /\ a = Loop => mode' = mode /\ manual' = manual
      /\ a # Loop => mode' = "Manual" /\ manual' = n
  BY DEF ActorTo, TargetSet
<1>2. /\ ScalingTypes /\ BatchOf(a) /\ JoinOf(a) /\ batch[a] \subseteq Workers /\ pinned \subseteq active
      /\ lifecycle \in {None, a} /\ 0 \in 0 .. Samples /\ n \in 0 .. MaxNum /\ n \in Nat
      /\ spc[a] \in {"out", "decide"} /\ Published /\ ModeInForce
  <2>1. n \in 0 .. MaxNum /\ n \in Nat
    BY ScalingConstants
  <2> QED  BY <2>1, ScalingFacts DEF EnteredBy, Holding, ScalingInv
<1>3. /\ life' \in [Workers -> {"none", "Preparing", "Active", "Retiring", "Exited"}]
      /\ \A w \in Workers : life'[w] = IF w \in ws THEN "Retiring" ELSE life[w]
      /\ \A w \in ws : life[w] = "Active" /\ w \in Workers
  BY <1>2 DEF Becomes, ScalingTypes, ScalingTypeOK, Published
<1>4. spc'[a] = "reap" /\ batch'[a] = batch[a] /\ joining'[a] = joining[a] /\ OtherActors(a) /\ ScalingTypes'
  <2>1. spc'[a] = "reap" /\ OtherActors(a)
    BY <1>1, <1>2 DEF ScalingTypes, OtherActors
  <2>2. spc' \in [Actors -> ActorLabels] /\ active' \subseteq Workers
    BY <1>1, <1>2 DEF ScalingTypes, ScalingTypeOK, ActorLabels
  <2> QED  BY <1>1, <1>2, <1>3, <2>1, <2>2 DEF ScalingTypes, ScalingTypeOK
<1>5. LockHeld'
  BY <1>2, <1>4, LockStep DEF Holding
<1>6. StartPhase'
  BY <1>4, StartStep DEF Starting
<1>7. /\ IsFiniteSet(active) /\ Cardinality(active) \in Nat /\ IsFiniteSet(Outstanding)
      /\ Cardinality(Outstanding) \in Nat /\ IsFiniteSet(ws) /\ Cardinality(ws) \in Nat
  <2>1. ws \in SUBSET active
    OBVIOUS
  <2> QED  BY <2>1, SetsFinite, FS_Subset, FS_CardinalityType
<1>8. SizeIsActive'
  <2>1. active \cap ws = ws
    OBVIOUS
  <2>2. Cardinality(active \ ws) = Cardinality(active) - Cardinality(active \cap ws)
    BY <1>7, FS_Difference
  <2>3. Cardinality(active') = n
    <3>1. active' = active \ ws /\ Cardinality(active \ ws) = Cardinality(active) - Cardinality(ws)
      BY <2>1, <2>2
    <3>2. Cardinality(active \ ws) = n
      BY <1>2, <1>7, <3>1
    <3> QED  BY <3>1, <3>2
  <2> QED  BY <1>1, <2>3 DEF SizeIsActive
<1>9. Published'
  BY <1>2, <1>3 DEF Published
<1>10. RetireBounded'
  <2>1. Outstanding' = Outstanding \cup ws /\ Outstanding \cap ws = {}
    BY <1>3 DEF Outstanding
  <2>2. Cardinality(Outstanding \cup ws)
          = Cardinality(Outstanding) + Cardinality(ws) - Cardinality(Outstanding \cap ws)
    BY <1>7, FS_Union
  <2>3. Cardinality(Outstanding \cap ws) = 0
    BY <2>1, FS_EmptySet
  <2>4. Cardinality(Outstanding') = Cardinality(Outstanding) + Cardinality(ws)
    BY <1>7, <2>1, <2>2, <2>3
  <2> QED  BY <2>4 DEF RetireBounded
<1>11. ModeInForce'
  <2>1. a # Loop => spc'[Loop] = spc[Loop] /\ spc[Loop] \notin Holding
    BY <1>4, ScalingConstants DEF OtherActors, ScalingInv, LockHeld, EnteredBy
  <2>2. spc'[Loop] \notin {"decide", "prepare"}
    BY <1>4, <2>1 DEF Holding
  <2>3. CASE a = Loop
    <3>1. manual = 0
      BY <1>2, <2>3 DEF ModeInForce, EnteredBy
    <3> QED  BY <1>1, <2>2, <2>3, <3>1 DEF ModeInForce, ManualStands
  <2>4. CASE a # Loop
    BY <1>1, <2>2, <2>4 DEF ModeInForce, ManualStands
  <2> QED  BY <2>3, <2>4
<1>12. Gates'
  <2>1. BatchOf(a)'
    BY <1>2, <1>4 DEF BatchOf
  <2>2. \A w \in Workers : life'[w] = "Preparing" <=> life[w] = "Preparing"
    BY <1>3
  <2> QED  BY <1>2, <1>4, <2>1, <2>2, GatesStep
<1>13. Joins'
  <2>1. JoinOf(a)'
    BY <1>2, <1>4 DEF JoinOf
  <2>2. \A v \in exited \cap claimed : life[v] = "Exited" => life'[v] = "Exited"
    BY <1>2, <1>3 DEF ScalingTypes, ScalingTypeOK
  <2> QED  BY <1>4, <2>1, <2>2, JoinsStep
<1> QED  BY <1>4, <1>5, <1>6, <1>8, <1>9, <1>10, <1>11, <1>12, <1>13 DEF ScalingInv

\* A request for any number: more, fewer or the same.
LEMMA ApplyTargetInv ==
    ASSUME ScalingInv, NEW a \in Actors, EnteredBy(a), initialized = TRUE, NEW n \in MinNum .. MaxNum,
           NEW self, ApplyTarget(a, n, self),
           UNCHANGED <<started, initialized, pinned, exited, claimed, joining>>
    PROVE  ScalingInv'
<1>1. /\ Cardinality(active) \in Nat /\ n \in Nat /\ n \in 0 .. MaxNum
      /\ Cardinality(Outstanding) \in Nat /\ kMaxOutstandingRetire \in Nat
      /\ Cardinality(Outstanding) <= kMaxOutstandingRetire
  BY SetsFinite, ScalingConstants DEF ScalingInv, RetireBounded
<1>2. CASE n > Cardinality(active) /\ Prepare(a, n)
  BY <1>2, PrepareInv
<1>3. CASE n < Cardinality(active) /\ Shrink(a, n, self) /\ RetireSets(a, n, self) # {} /\ RetireFits(n)
  <2>1. PICK ws \in RetireSets(a, n, self) : Becomes(ws, "Retiring") /\ active' = active \ ws
    BY <1>3 DEF Shrink
  <2>2. ws \in SUBSET (active \ pinned) /\ Cardinality(ws) = Cardinality(active) - n
    BY <2>1 DEF RetireSets, OneOf
  <2>3. Cardinality(Outstanding) + Cardinality(ws) <= kMaxOutstandingRetire
    BY <1>1, <1>3, <2>2 DEF RetireFits
  <2>4. TargetSet(a, n) /\ lifecycle' = None /\ ActorTo(a, "reap") /\ UNCHANGED <<batch, want>>
    BY <1>3 DEF Shrink
  <2> QED  BY <2>1, <2>2, <2>3, <2>4, TargetSetStep
<1>4. CASE n = Cardinality(active) /\ TargetSet(a, n) /\ lifecycle' = None /\ ActorTo(a, "reap")
           /\ UNCHANGED <<life, active, batch, want>>
  <2> DEFINE ws == {}
  <2>1. /\ Cardinality(ws) = Cardinality(active) - n
        /\ Cardinality(Outstanding) + Cardinality(ws) <= kMaxOutstandingRetire
    BY <1>1, <1>4, FS_EmptySet
  <2>2. ws \in SUBSET (active \ pinned) /\ active' = active \ ws /\ Becomes(ws, "Retiring")
    BY <1>4 DEF Becomes, ScalingInv, ScalingTypes, ScalingTypeOK
  <2> HIDE DEF ws
  <2> QED  BY <1>4, <2>1, <2>2, TargetSetStep
<1>5. CASE n < Cardinality(active) /\ Shrink(a, n, self) /\ ~(RetireSets(a, n, self) # {} /\ RetireFits(n))
  <2>1. /\ spc' = [spc EXCEPT ![a] = "reap"] /\ lifecycle' = None
        /\ UNCHANGED <<life, active, batch, want, target, mode, manual>>
        /\ upHits' \in {0, upHits} /\ downHits' \in {0, downHits}
    BY <1>5 DEF Shrink, TargetKept, ActorTo
  <2>2. /\ batch[a] = {} /\ "reap" \in ActorLabels /\ "reap" \notin Holding
        /\ lifecycle \in {None, a} /\ spc[a] # "join"
        /\ upHits' \in 0 .. Samples /\ downHits' \in 0 .. Samples /\ pinned' \subseteq active
    BY <2>1, ScalingFacts DEF BatchOf, EnteredBy, ActorLabels, Holding
  <2>3. StartPhase'
    <3>1. spc'[a] = "reap" /\ OtherActors(a)
      BY <2>1, ScalingFacts DEF ScalingTypes, OtherActors
    <3> QED  BY <3>1, StartStep DEF Starting
  <2> QED  BY <2>1, <2>2, <2>3, LabelStep
<1> QED  BY <1>2, <1>3, <1>4, <1>5 DEF ApplyTarget

\* The tick of the loop decides on its samples.
LEMMA TickDecideInv ==
    ASSUME ScalingInv, TickDecide
    PROVE  ScalingInv'
<1>1. /\ spc[Loop] = "decide" /\ UNCHANGED <<started, initialized, pinned, exited, claimed, joining, thrown>>
      /\ DecideUp \/ DecideDown \/ DecideNothing
  BY DEF TickDecide
<1>2. /\ Loop \in Actors /\ EnteredBy(Loop) /\ initialized = TRUE
  BY <1>1, ScalingConstants, Begun DEF EnteredBy, Starting
<1>3. target \in MinNum .. MaxNum
  BY <1>2 DEF ScalingInv, SizeIsActive
<1>4. CASE DecideUp
  <2>1. Smallest(MaxNum, target + Step) \in MinNum .. MaxNum
    BY <1>3, ScalingConstants DEF Smallest
  <2>2. ApplyTarget(Loop, Smallest(MaxNum, target + Step), None)
    BY <1>4 DEF DecideUp
  <2> QED  BY <1>1, <1>2, <2>1, <2>2, ApplyTargetInv
<1>5. CASE DecideDown
  <2>1. Largest(MinNum, target - Step) \in MinNum .. MaxNum
    BY <1>3, ScalingConstants DEF Largest
  <2>2. ApplyTarget(Loop, Largest(MinNum, target - Step), None)
    BY <1>5 DEF DecideDown
  <2> QED  BY <1>1, <1>2, <2>1, <2>2, ApplyTargetInv
<1> QED  BY <1>1, <1>4, <1>5, TickInv

\* SetProcesserNum sets a manual size.
LEMMA SetProcesserNumInv ==
    ASSUME ScalingInv, NEW a \in Callers, NEW n \in MinNum .. MaxNum, NEW self, SetProcesserNum(a, n, self)
    PROVE  ScalingInv'
<1>1. /\ a \in Actors /\ EnteredBy(a) /\ ApplyTarget(a, n, self)
      /\ UNCHANGED <<started, initialized, pinned, exited, claimed, joining>>
  BY ScalingConstants DEF SetProcesserNum, EnteredBy
<1>2. initialized = TRUE
  BY DEF SetProcesserNum, ScalingInv, ScalingTypes
<1> QED  BY <1>1, <1>2, ApplyTargetInv

\* The invariant holds at the start.
LEMMA ScalingInitial == ScalingInit => ScalingInv
<1> SUFFICES ASSUME ScalingInit PROVE ScalingInv
  OBVIOUS
<1> USE DEF ScalingInit
<1>1. ScalingTypes
  <2>1. 0 \in 0 .. MaxNum /\ 0 \in 0 .. Samples
    BY ScalingConstants
  <2>2. ScalingTypeOK
    BY <2>1 DEF ScalingTypeOK
  <2>3. spc \in [Actors -> ActorLabels] /\ want \in [Actors -> 0 .. MaxNum]
    BY <2>1 DEF ActorLabels
  <2> QED  BY <2>1, <2>2, <2>3 DEF ScalingTypes
<1>2. LockHeld /\ StartPhase /\ SizeIsActive /\ Published
  BY ScalingConstants DEF LockHeld, Holding, StartPhase, SizeIsActive, Published
<1>3. Gates /\ Joins
  BY DEF Gates, BatchOf, Joins, JoinOf
<1>4. ModeInForce
  BY ScalingConstants DEF ModeInForce, ManualStands
<1>5. RetireBounded
  <2>1. Outstanding = {}
    BY DEF Outstanding
  <2> QED  BY <2>1, ScalingConstants, FS_EmptySet DEF RetireBounded
<1> QED  BY <1>1, <1>2, <1>3, <1>4, <1>5 DEF ScalingInv

\* A step of somebody else.
LEMMA ScalingStuttering ==
    ASSUME ScalingInv, UNCHANGED scalingVars
    PROVE  ScalingInv'
<1> USE DEF scalingVars
<1>1. ScalingTypes'
  BY DEF ScalingInv, ScalingTypes, ScalingTypeOK
<1>2. LockHeld' /\ StartPhase' /\ SizeIsActive' /\ Published'
  BY DEF ScalingInv, LockHeld, StartPhase, Starting, SizeIsActive, Published
<1>3. Gates' /\ Joins'
  BY DEF ScalingInv, Gates, BatchOf, Joins, JoinOf
<1>4. ModeInForce' /\ RetireBounded'
  BY DEF ScalingInv, ModeInForce, ManualStands, RetireBounded, Outstanding
<1> QED  BY <1>1, <1>2, <1>3, <1>4 DEF ScalingInv

\* Requests, the automatic tick and the reaper keep the books straight between them
\* (Scheduler::_ApplyTargetLocked, _PrepareExpansion, _CommitShrinkLocked,
\* _ReapRetiredWorkers): the inductive invariant of resizing.
THEOREM ScalingInvariance == ScalingSpec => []ScalingInv
<1>1. ScalingInit => ScalingInv
  BY ScalingInitial
<1>2. ScalingInv /\ [ScalingNext]_scalingVars => ScalingInv'
  <2> SUFFICES ASSUME ScalingInv, [ScalingNext]_scalingVars PROVE ScalingInv'
    OBVIOUS
  <2>1. ASSUME NEW a \in Actors, Proceeds(a) PROVE ScalingInv'
    BY <2>1, CommitInv, PrepareFailsInv, CancelBatchInv, ReapEndsInv, ReaperInv DEF Proceeds
  <2>2. CASE LoopTurn
    <3>1. CASE TickGate \/ TickSample
      BY <3>1, TickInv
    <3>2. CASE TickDecide
      BY <3>2, TickDecideInv
    <3>3. CASE Proceeds(Loop)
      BY <2>1, <3>3, ScalingConstants
    <3> QED  BY <2>2, <3>1, <3>2, <3>3 DEF LoopTurn
  <2>3. ASSUME NEW a \in Callers,
               Proceeds(a) \/ Start(a)
               \/ (\E n \in MinNum .. MaxNum, self \in active \cup {None} : SetProcesserNum(a, n, self))
               \/ (\E m \in {"Auto", "Manual"} : SetProcesserAutoScale(a, m))
        PROVE  ScalingInv'
    <3>1. a \in Actors
      BY ScalingConstants
    <3> QED  BY <2>1, <2>3, <3>1, StartInv, SetProcesserNumInv, AutoScaleInv
  <2>4. ASSUME NEW w \in Workers, BindDriver(w) \/ UnbindDriver(w) \/ WorkerLeaves(w) PROVE ScalingInv'
    BY <2>4, DriverPinInv, WorkerLeavesInv DEF WorkerLeaves
  <2>5. CASE UNCHANGED scalingVars
    BY <2>5, ScalingStuttering
  <2> QED  BY <2>2, <2>3, <2>4, <2>5 DEF ScalingNext
<1> QED  BY <1>1, <1>2, PTL DEF ScalingSpec

\* Resizing (Scheduler::SetProcesserNum, _AutoScaleTick, _ReapRetiredWorkers): the target is
\* what is active and within its bounds, pinned workers stay, retired threads are bounded,
\* each is joined once and none is lost, and a manual size stands, for any number of callers
\* and workers and any limits.
THEOREM ScalingSafeHolds == ScalingSpec => []ScalingSafe
<1>1. ScalingInv => ScalingSafe
  <2> SUFFICES ASSUME ScalingInv PROVE ScalingSafe
    OBVIOUS
  <2>1. ScalingTypeOK /\ TargetIsActive /\ DriverPinned /\ RetireBounded /\ ManualStands
    BY DEF ScalingInv, ScalingTypes, ScalingTypeOK, TargetIsActive, SizeIsActive, DriverPinned,
           Published, ModeInForce
  <2>2. EveryThreadAccounted
    BY DEF ScalingInv, EveryThreadAccounted, Joins, JoinOf, Gates, Published
  <2> QED  BY <2>1, <2>2 DEF ScalingSafe
<1> QED  BY <1>1, ScalingInvariance, PTL

-----------------------------------------------------------------------------
(* The run queues.                                                          *)

Queued(s, c) == \E i \in DOMAIN s : s[i] = c

\* A coroutine is in one queue, once, or on one processor, or away from both.
Away == {"new", "ready", "taken", "parked"}
CfsPlaces ==
    /\ \A p \in CfsProcs : \A i \in DOMAIN queue[p] : hand[queue[p][i]] = "queue"
    /\ \A p \in CfsProcs : onCpu[p] # NoTask => hand[onCpu[p]] = "cpu"
    /\ \A p, q \in CfsProcs : \A i \in DOMAIN queue[p], j \in DOMAIN queue[q] :
          queue[p][i] = queue[q][j] => p = q /\ i = j
    /\ \A p, q \in CfsProcs : onCpu[p] = onCpu[q] /\ onCpu[p] # NoTask => p = q

CfsSorted ==
    \A p \in CfsProcs : \A i, j \in DOMAIN queue[p] :
        i <= j => vruntime[queue[p][i]] <= vruntime[queue[p][j]]

\* Nobody is behind the floor: not in a queue, not while it runs, not away.
FloorHeld ==
    /\ \A p \in CfsProcs : \A c \in CfsCos : Queued(queue[p], c) \/ onCpu[p] = c => vruntime[c] >= floor[p]
    /\ \A c \in CfsCos : hand[c] \in Away => vruntime[c] >= 0

\* The least a run costs at a weight.
RunUnit(w) == Unit \div w

\* What d has run past a coroutine c in queue p moved d forward by as much,
\* wherever d is now: that is why c's own debt bounds it.
PassedPaid ==
    \A p \in CfsProcs : \A c, d \in CfsCos : Queued(queue[p], c) /\ c # d =>
        /\ vruntime[c] - allowed[c] <= floor[p]
        /\ Queued(queue[p], d) => passed[c][d] <= vruntime[d] - (vruntime[c] - allowed[c])
        /\ onCpu[p] = d => passed[c][d] <= vruntime[d] + RunUnit(weight[d]) - (vruntime[c] - allowed[c])
        /\ hand[d] \in Away => passed[c][d] <= floor[p] + vruntime[d] - (vruntime[c] - allowed[c])
        /\ \A q \in CfsProcs \ {p} : Queued(queue[q], d) \/ onCpu[q] = d => passed[c][d] = 0

CfsInv ==
    CfsTypeOK /\ CfsPlaces /\ CfsSorted /\ FloorHeld /\ PassedPaid /\ OvertakingBounded

\* The constants.
LEMMA CfsConstants ==
    ASSUME CfsAssumption
    PROVE  /\ NoTask \notin CfsCos /\ Unit \in Nat /\ Unit > 0 /\ Normal \in Weights
           /\ \A w \in Weights : Unit \div w \in Nat /\ 1 <= Unit \div w /\ Unit \div w <= Unit
<1>1. /\ NoTask \notin CfsCos /\ Unit \in Nat /\ Unit > 0 /\ Normal \in Weights
      /\ \A w \in Weights : w \in Nat /\ w > 0 /\ Unit % w = 0
  BY DEF CfsAssumption
<1>2. ASSUME NEW n \in Nat, NEW w \in Nat, n > 0, w > 0, n % w = 0
      PROVE  n \div w \in Nat /\ 1 <= n \div w /\ n \div w <= n
  <2>1. n = w * (n \div w) + (n % w) /\ n \div w \in Int
    BY <1>2
  <2> DEFINE q == n \div w
  <2>2. q \in Int /\ n = w * q
    BY <1>2, <2>1
  <2> HIDE DEF q
  <2>3. q >= 1
    BY <1>2, <2>2
  <2>4. q <= n
    BY <1>2, <2>2, <2>3
  <2> QED  BY <2>2, <2>3, <2>4 DEF q
<1> QED  BY <1>1, <1>2

\* A run costs at least its unit, however short it was by the clock.
LEMMA ChargeCosts ==
    ASSUME CfsAssumption, CfsTypeOK, NEW c \in CfsCos, NEW e \in Elapsed
    PROVE  Charge(c, e) \in Nat /\ Charge(c, e) >= RunUnit(weight[c]) /\ RunUnit(weight[c]) \in Nat
           /\ RunUnit(weight[c]) <= Unit
<1>1. RunUnit(weight[c]) \in Nat /\ RunUnit(weight[c]) <= Unit
  BY CfsConstants DEF RunUnit, CfsTypeOK
<1>2. CfsMax(1, e) \in Nat /\ CfsMax(1, e) >= 1
  BY DEF CfsMax, CfsAssumption
<1>3. \A a, u \in Nat : a >= 1 => a * u \in Nat /\ a * u >= u
  OBVIOUS
<1> QED  BY <1>1, <1>2, <1>3 DEF Charge, RunUnit

\* A nonempty set of positions of a queue has a least one.
LEMMA LeastPosition ==
    ASSUME NEW T \in SUBSET Nat, T # {}
    PROVE  \E x \in T : \A y \in T : x <= y
<1>1. \E x \in T : \A y \in T : <<y, x>> \notin OpToRel(<, Nat)
  BY NatLessThanWellFounded, WFMin
<1>2. \A x, y \in Nat : <<y, x>> \notin OpToRel(<, Nat) => x <= y
  BY DEF OpToRel
<1> QED  BY <1>1, <1>2

\* How many positions there are in a set that has with each all before it.
LEMMA Prefix ==
    ASSUME NEW n \in Nat, NEW T \in SUBSET (1 .. n), \A i, j \in 1 .. n : i <= j /\ j \in T => i \in T
    PROVE  Cardinality(T) \in 0 .. n /\ T = 1 .. Cardinality(T)
<1>1. CASE T = 1 .. n
  <2>1. Cardinality(1 .. n) = n
    BY FS_Interval
  <2> QED  BY <1>1, <2>1
<1>2. CASE T # 1 .. n
  <2> DEFINE C == {i \in 1 .. n : i \notin T}
  <2>d. \E i \in 1 .. n : i \notin T
    <3> SUFFICES ASSUME \A i \in 1 .. n : i \in T  PROVE FALSE
      OBVIOUS
    <3>1. \A i : i \in T <=> i \in 1 .. n
      OBVIOUS
    <3> QED  BY <1>2, <3>1
  <2>0. C \in SUBSET Nat /\ C # {}
    BY <2>d
  <2>1. PICK x \in C : \A y \in C : x <= y
    <3> HIDE DEF C
    <3> QED  BY <2>0, LeastPosition
  <2>a. x \in 1 .. n /\ x \notin T /\ \A y \in 1 .. n : y \notin T => x <= y
    BY <2>1
  <2> HIDE DEF C
  <2>b. \A i \in 1 .. n : i < x => i \in T
    BY <2>a
  <2>c. \A i \in T : i \in 1 .. n /\ i < x
    BY <2>a
  <2>2. T = 1 .. x - 1
    <3>0. x \in Nat /\ x <= n
      BY <2>a
    <3>1. ASSUME NEW y \in T  PROVE y \in 1 .. x - 1
      BY <2>c, <3>0
    <3>2. ASSUME NEW y \in 1 .. x - 1  PROVE y \in T
      BY <2>b, <3>0
    <3> QED  BY <3>1, <3>2
  <2>3. Cardinality(1 .. x - 1) = x - 1
    BY <2>a, FS_Interval
  <2> QED  BY <2>a, <2>2, <2>3
<1> QED  BY <1>1, <1>2

\* What InsertAt builds.
LEMMA InsertFacts ==
    ASSUME NEW s \in Seq(CfsCos), NEW k \in 1 .. Len(s) + 1, NEW e \in CfsCos
    PROVE  /\ InsertAt(s, k, e) \in Seq(CfsCos) /\ Len(InsertAt(s, k, e)) = Len(s) + 1
           /\ \A j \in 1 .. Len(s) + 1 : InsertAt(s, k, e)[j] =
                 IF j < k THEN s[j] ELSE IF j = k THEN e ELSE s[j - 1]
<1> DEFINE a == SubSeq(s, 1, k - 1)
           b == SubSeq(s, k, Len(s))
<1>0. Len(s) \in Nat /\ k \in Nat
  OBVIOUS
<1>1. /\ a \in Seq(CfsCos) /\ Len(a) = k - 1 /\ \A j \in 1 .. k - 1 : a[j] = s[j]
  <2>1. /\ a \in Seq(CfsCos) /\ Len(a) = IF 1 <= k - 1 THEN k - 1 - 1 + 1 ELSE 0
        /\ \A j \in 1 .. (k - 1) - 1 + 1 : a[j] = s[1 + j - 1]
    BY SubSeqProperties
  <2> HIDE DEF a
  <2> QED  BY <2>1
<1>2. /\ b \in Seq(CfsCos) /\ Len(b) = Len(s) + 1 - k /\ \A j \in 1 .. Len(s) + 1 - k : b[j] = s[k + j - 1]
  <2>1. /\ b \in Seq(CfsCos) /\ Len(b) = IF k <= Len(s) THEN Len(s) - k + 1 ELSE 0
        /\ \A j \in 1 .. Len(s) - k + 1 : b[j] = s[k + j - 1]
    BY SubSeqProperties
  <2> HIDE DEF b
  <2> QED  BY <2>1
<1> HIDE DEF a, b
<1>c. \A s1, s2 \in Seq(CfsCos) :
        /\ s1 \o s2 \in Seq(CfsCos) /\ Len(s1 \o s2) = Len(s1) + Len(s2)
        /\ \A i \in 1 .. Len(s1) + Len(s2) :
              (s1 \o s2)[i] = IF i <= Len(s1) THEN s1[i] ELSE s2[i - Len(s1)]
  BY ConcatProperties
<1>3. <<e>> \in Seq(CfsCos) /\ Len(<<e>>) = 1 /\ <<e>>[1] = e
  OBVIOUS
<1>4. /\ a \o <<e>> \in Seq(CfsCos) /\ Len(a \o <<e>>) = k
      /\ \A j \in 1 .. k : (a \o <<e>>)[j] = IF j < k THEN s[j] ELSE e
  <2> DEFINE u == <<e>>
  <2>1. u \in Seq(CfsCos) /\ Len(u) = 1 /\ u[1] = e
    BY <1>3
  <2> HIDE DEF u
  <2>2. a \o u \in Seq(CfsCos) /\ Len(a \o u) = k
    <3>1. a \o u \in Seq(CfsCos) /\ Len(a \o u) = Len(a) + Len(u)
      BY <1>1, <2>1, <1>c
    <3> QED  BY <1>0, <1>1, <2>1, <3>1
  <2>3. ASSUME NEW j \in 1 .. k  PROVE  (a \o u)[j] = IF j < k THEN s[j] ELSE e
    <3>1. (a \o u)[j] = IF j <= Len(a) THEN a[j] ELSE u[j - Len(a)]
      <4>1. j \in 1 .. Len(a) + Len(u)
        BY <1>0, <1>1, <2>1
      <4> QED  BY <1>1, <2>1, <4>1, <1>c
    <3> QED  BY <1>0, <1>1, <2>1, <3>1
  <2> QED  BY <2>2, <2>3 DEF u
<1> DEFINE w == a \o <<e>>
<1>5. /\ w \in Seq(CfsCos) /\ Len(w) = k /\ \A j \in 1 .. k : w[j] = IF j < k THEN s[j] ELSE e
  BY <1>4
<1>7. InsertAt(s, k, e) = w \o b
  BY DEF InsertAt, a, b
<1> HIDE DEF w
<1>6. w \o b \in Seq(CfsCos) /\ Len(w \o b) = Len(s) + 1
  <2>1. w \o b \in Seq(CfsCos) /\ Len(w \o b) = Len(w) + Len(b)
    BY <1>2, <1>5, <1>c
  <2> QED  BY <1>0, <1>2, <1>5, <2>1
<1>8. ASSUME NEW j \in 1 .. Len(s) + 1
      PROVE  (w \o b)[j] = IF j < k THEN s[j] ELSE IF j = k THEN e ELSE s[j - 1]
  <2>1. (w \o b)[j] = IF j <= Len(w) THEN w[j] ELSE b[j - Len(w)]
    <3>1. j \in 1 .. Len(w) + Len(b)
      BY <1>0, <1>2, <1>5
    <3> QED  BY <1>2, <1>5, <3>1, <1>c
  <2>2. j > k => b[j - k] = s[k + (j - k) - 1]
    BY <1>0, <1>2
  <2>3. j > k => k + (j - k) - 1 = j - 1
    BY <1>0
  <2> QED  BY <1>0, <1>5, <2>1, <2>2, <2>3
<1> QED  BY <1>6, <1>7, <1>8

\* What is in a queue is a coroutine, and a queued one neither runs nor is away.
LEMMA QueueFacts ==
    ASSUME CfsTypeOK, NEW p \in CfsProcs
    PROVE  /\ queue[p] \in Seq(CfsCos) /\ Len(queue[p]) \in Nat
           /\ DOMAIN queue[p] = 1 .. Len(queue[p])
           /\ \A i \in 1 .. Len(queue[p]) : queue[p][i] \in CfsCos /\ vruntime[queue[p][i]] \in Int
<1> DEFINE s == queue[p]
<1>1. s \in Seq(CfsCos) /\ \A c \in CfsCos : vruntime[c] \in Int
  BY DEF CfsTypeOK
<1> HIDE DEF s
<1>2. Len(s) \in Nat /\ DOMAIN s = 1 .. Len(s) /\ \A i \in 1 .. Len(s) : s[i] \in CfsCos
  BY <1>1
<1> QED  BY <1>1, <1>2 DEF s

\* Where Enqueue puts a coroutine: everybody before is not behind v, everybody
\* from there on is.
LEMMA BehindSplits ==
    ASSUME CfsTypeOK, CfsSorted, NEW p \in CfsProcs, NEW v \in Int
    PROVE  /\ Behind(p, v) \in 1 .. Len(queue[p]) + 1
           /\ \A i \in 1 .. Len(queue[p]) : IF i < Behind(p, v) THEN vruntime[queue[p][i]] <= v
                                                             ELSE vruntime[queue[p][i]] > v
<1> DEFINE n == Len(queue[p])
           V(i) == vruntime[queue[p][i]]
           T == {i \in DOMAIN queue[p] : V(i) <= v}
<1>1. n \in Nat /\ DOMAIN queue[p] = 1 .. n /\ \A i \in 1 .. n : V(i) \in Int
  BY QueueFacts
<1>2. \A i, j \in 1 .. n : i <= j => V(i) <= V(j)
  BY <1>1 DEF CfsSorted
<1>3. Behind(p, v) = Cardinality(T) + 1
  BY DEF Behind
<1>4. \A i \in 1 .. n : i \in T <=> V(i) <= v
  BY <1>1
<1>5. T \in SUBSET (1 .. n)
  BY <1>1
<1> HIDE DEF n, V, T
<1>6. \A i, j \in 1 .. n : i <= j /\ j \in T => i \in T
  BY <1>1, <1>2, <1>4
<1>7. Cardinality(T) \in 0 .. n /\ T = 1 .. Cardinality(T)
  BY <1>1, <1>5, <1>6, Prefix
<1>8. \A i \in 1 .. n : i \in T <=> i <= Cardinality(T)
  BY <1>1, <1>7
<1>9. \A i \in 1 .. n : IF i < Cardinality(T) + 1 THEN V(i) <= v ELSE V(i) > v
  BY <1>1, <1>4, <1>7, <1>8
<1> QED  BY <1>1, <1>3, <1>7, <1>9 DEF n, V

\* What Tail leaves.
LEMMA TailFacts ==
    ASSUME NEW S, NEW s \in Seq(S), s # <<>>
    PROVE  /\ Len(s) \in Nat /\ Len(s) >= 1 /\ Head(s) = s[1] /\ Head(s) \in S
           /\ Tail(s) \in Seq(S) /\ Len(Tail(s)) = Len(s) - 1
           /\ \A i \in 1 .. Len(s) - 1 : Tail(s)[i] = s[i + 1]
<1>1. Len(s) \in Nat /\ Len(s) >= 1
  BY EmptySeq
<1> QED  BY <1>1, HeadTailProperties


\* Leaving a queue at its head (Pick, Take): the first one is behind nobody, and
\* what is left is what was there, in the same order.
LEMMA HeadLeaves ==
    ASSUME CfsTypeOK, CfsPlaces, CfsSorted, NEW p \in CfsProcs, queue[p] # <<>>,
           NEW c, c = Head(queue[p]), queue' = [queue EXCEPT ![p] = Tail(@)]
    PROVE  /\ c \in CfsCos /\ Queued(queue[p], c) /\ hand[c] = "queue"
           /\ \A d : Queued(queue[p], d) => vruntime[c] <= vruntime[d]
           /\ queue' \in [CfsProcs -> Seq(CfsCos)]
           /\ \A q \in CfsProcs : \A d : Queued(queue'[q], d) <=> Queued(queue[q], d) /\ d # c
           /\ \A d : (\E i \in 2 .. Len(queue[p]) : queue[p][i] = d) <=> Queued(queue[p], d) /\ d # c
           /\ \A q, r \in CfsProcs : \A i \in DOMAIN queue'[q], j \in DOMAIN queue'[r] :
                 queue'[q][i] = queue'[r][j] => q = r /\ i = j
           /\ \A q \in CfsProcs : \A i, j \in DOMAIN queue'[q] :
                 i <= j => vruntime[queue'[q][i]] <= vruntime[queue'[q][j]]
<1> DEFINE s == queue[p]
           n == Len(queue[p])
<1>1. /\ s \in Seq(CfsCos) /\ n \in Nat /\ n >= 1 /\ c = s[1] /\ c \in CfsCos
      /\ Tail(s) \in Seq(CfsCos) /\ Len(Tail(s)) = n - 1
      /\ \A i \in 1 .. n - 1 : Tail(s)[i] = s[i + 1]
  BY QueueFacts, TailFacts
<1>2. DOMAIN s = 1 .. n /\ 1 \in DOMAIN s
  BY <1>1
<1>3. queue' \in [CfsProcs -> Seq(CfsCos)] /\ queue'[p] = Tail(s) /\ \A q \in CfsProcs \ {p} : queue'[q] = queue[q]
  BY <1>1 DEF CfsTypeOK
<1>4. DOMAIN queue'[p] = 1 .. n - 1 /\ \A i \in 1 .. n - 1 : queue'[p][i] = s[i + 1] /\ i + 1 \in 1 .. n
  BY <1>1, <1>3
<1>5. Queued(queue[p], c) /\ hand[c] = "queue"
  BY <1>1, <1>2 DEF Queued, CfsPlaces
<1>6. \A q, r \in CfsProcs : \A i \in DOMAIN queue[q], j \in DOMAIN queue[r] :
         queue[q][i] = queue[r][j] => q = r /\ i = j
  BY DEF CfsPlaces
<1>7. \A q \in CfsProcs : \A i, j \in DOMAIN queue[q] :
         i <= j => vruntime[queue[q][i]] <= vruntime[queue[q][j]]
  BY DEF CfsSorted
<1>8. \A q \in CfsProcs : \A i \in DOMAIN queue[q] : queue[q][i] = c <=> q = p /\ i = 1
  BY <1>1, <1>2, <1>6
<1>9. ASSUME NEW d  PROVE (\E i \in 2 .. n : s[i] = d) <=> Queued(queue[p], d) /\ d # c
  <2>1. ASSUME NEW i \in 2 .. n, s[i] = d  PROVE Queued(queue[p], d) /\ d # c
    <3>1. i \in DOMAIN queue[p] /\ i # 1
      BY <1>2, <2>1
    <3> QED  BY <1>8, <2>1, <3>1 DEF Queued
  <2>2. ASSUME NEW i \in DOMAIN queue[p], queue[p][i] = d, d # c  PROVE \E j \in 2 .. n : s[j] = d
    <3>1. i # 1 /\ i \in 1 .. n
      BY <1>1, <1>2, <2>2
    <3>2. i \in 2 .. n
      BY <1>1, <3>1
    <3> QED  BY <2>2, <3>2
  <2> QED  BY <2>1, <2>2 DEF Queued
<1>10. ASSUME NEW d  PROVE Queued(queue'[p], d) <=> Queued(queue[p], d) /\ d # c
  <2>1. ASSUME NEW i \in 1 .. n - 1, queue'[p][i] = d  PROVE \E j \in 2 .. n : s[j] = d
    <3>1. i + 1 \in 2 .. n /\ s[i + 1] = d
      BY <1>1, <1>4, <2>1
    <3> QED  BY <3>1
  <2>2. ASSUME NEW j \in 2 .. n, s[j] = d  PROVE \E i \in 1 .. n - 1 : queue'[p][i] = d
    <3>1. j - 1 \in 1 .. n - 1 /\ queue'[p][j - 1] = s[(j - 1) + 1] /\ (j - 1) + 1 = j
      BY <1>1, <1>4
    <3>2. queue'[p][j - 1] = d
      BY <2>2, <3>1
    <3> QED  BY <3>1, <3>2
  <2>3. Queued(queue'[p], d) <=> \E i \in 1 .. n - 1 : queue'[p][i] = d
    BY <1>4 DEF Queued
  <2> QED  BY <1>9, <2>1, <2>2, <2>3
<1>11. ASSUME NEW q \in CfsProcs, NEW d  PROVE Queued(queue'[q], d) <=> Queued(queue[q], d) /\ d # c
  <2>1. CASE q = p  BY <1>10, <2>1
  <2>2. CASE q # p
    <3>1. Queued(queue'[q], d) <=> Queued(queue[q], d)
      BY <1>3, <2>2 DEF Queued
    <3>2. Queued(queue[q], d) => d # c
      BY <1>8, <2>2 DEF Queued
    <3> QED  BY <3>1, <3>2
  <2> QED  BY <2>1, <2>2
<1>12. \A d : Queued(queue[p], d) => vruntime[c] <= vruntime[d]
  <2>1. \A i \in 1 .. n : vruntime[s[1]] <= vruntime[s[i]]
    BY <1>1, <1>2, <1>7
  <2> QED  BY <1>1, <1>2, <2>1 DEF Queued
\* A position of queue'[q] stands for one of queue[q].
<1>13. \A q \in CfsProcs : \A i \in DOMAIN queue'[q] :
          LET m == IF q = p THEN i + 1 ELSE i IN m \in DOMAIN queue[q] /\ queue'[q][i] = queue[q][m]
  BY <1>2, <1>3, <1>4
<1>14. \A q \in CfsProcs : \A i \in DOMAIN queue'[q] : i \in Int
  <2>1. \A q \in CfsProcs : queue'[q] \in Seq(CfsCos)
    BY <1>3
  <2> QED  BY <2>1
<1>15. ASSUME NEW q \in CfsProcs, NEW r \in CfsProcs, NEW i \in DOMAIN queue'[q], NEW j \in DOMAIN queue'[r],
             queue'[q][i] = queue'[r][j]
       PROVE  q = r /\ i = j
  <2>1. i \in Int /\ j \in Int
    BY <1>14
  <2> QED  BY <1>6, <1>13, <1>15, <2>1
<1>16. ASSUME NEW q \in CfsProcs, NEW i \in DOMAIN queue'[q], NEW j \in DOMAIN queue'[q], i <= j
       PROVE  vruntime[queue'[q][i]] <= vruntime[queue'[q][j]]
  <2>1. i \in Int /\ j \in Int
    BY <1>14
  <2>2. CASE q = p
    <3>1. i + 1 \in DOMAIN queue[q] /\ j + 1 \in DOMAIN queue[q] /\ i + 1 <= j + 1
      BY <1>13, <1>16, <2>1, <2>2
    <3> QED  BY <1>7, <1>13, <2>2, <3>1
  <2>3. CASE q # p
    BY <1>7, <1>13, <1>16, <2>3
  <2> QED  BY <2>2, <2>3
<1> QED  BY <1>1, <1>3, <1>5, <1>9, <1>11, <1>12, <1>15, <1>16


\* The parts of the invariant, where the proofs start from.
LEMMA CfsParts ==
    ASSUME CfsAssumption, CfsInv
    PROVE  /\ floor \in [CfsProcs -> Nat] /\ vruntime \in [CfsCos -> Int]
           /\ allowed \in [CfsCos -> Int] /\ passed \in [CfsCos -> [CfsCos -> Nat]]
           /\ \A p \in CfsProcs : \A c : Queued(queue[p], c) => c \in CfsCos /\ hand[c] = "queue" /\ vruntime[c] >= floor[p]
           /\ \A p, q \in CfsProcs : \A c : Queued(queue[p], c) /\ Queued(queue[q], c) => p = q
           /\ \A p \in CfsProcs : onCpu[p] # NoTask =>
                 onCpu[p] \in CfsCos /\ hand[onCpu[p]] = "cpu" /\ vruntime[onCpu[p]] >= floor[p]
           /\ \A c \in CfsCos : hand[c] \in Away => vruntime[c] >= 0
           /\ \A c \in CfsCos : RunUnit(weight[c]) \in Nat /\ RunUnit(weight[c]) >= 1 /\ RunUnit(weight[c]) <= Unit
           /\ \A c \in CfsCos : \A p \in CfsProcs : onCpu[p] = c => onCpu[p] # NoTask
<1>1. /\ floor \in [CfsProcs -> Nat] /\ vruntime \in [CfsCos -> Int]
      /\ allowed \in [CfsCos -> Int] /\ passed \in [CfsCos -> [CfsCos -> Nat]]
  BY DEF CfsInv, CfsTypeOK
<1>2. \A p \in CfsProcs : \A c : Queued(queue[p], c) => c \in CfsCos /\ hand[c] = "queue" /\ vruntime[c] >= floor[p]
  <2>1. \A p \in CfsProcs : \A c : Queued(queue[p], c) => c \in CfsCos /\ hand[c] = "queue"
    BY QueueFacts DEF CfsInv, CfsPlaces, Queued
  <2> QED  BY <2>1 DEF CfsInv, FloorHeld
<1>3. \A p, q \in CfsProcs : \A c : Queued(queue[p], c) /\ Queued(queue[q], c) => p = q
  BY DEF CfsInv, CfsPlaces, Queued
<1>4. \A p \in CfsProcs : onCpu[p] # NoTask =>
         onCpu[p] \in CfsCos /\ hand[onCpu[p]] = "cpu" /\ vruntime[onCpu[p]] >= floor[p]
  BY DEF CfsInv, CfsTypeOK, CfsPlaces, FloorHeld
<1>5. \A c \in CfsCos : hand[c] \in Away => vruntime[c] >= 0
  BY DEF CfsInv, FloorHeld
<1>6. \A c \in CfsCos : RunUnit(weight[c]) \in Nat /\ RunUnit(weight[c]) >= 1 /\ RunUnit(weight[c]) <= Unit
  BY CfsConstants DEF CfsInv, CfsTypeOK, RunUnit
<1>7. \A c \in CfsCos : \A p \in CfsProcs : onCpu[p] = c => onCpu[p] # NoTask
  BY CfsConstants
<1> QED  BY <1>1, <1>2, <1>3, <1>4, <1>5, <1>6, <1>7

\* Pick: the one it takes stands behind everybody left, so that what it has run
\* past each of them is within that one's debt; the run it starts is the one
\* that may exceed it.
LEMMA PickKeepsShares ==
    ASSUME CfsAssumption, CfsInv, NEW p \in CfsProcs, CfsPick(p)
    PROVE  CfsInv'
<1> DEFINE c == Head(queue[p])
<1>0. CfsTypeOK /\ CfsPlaces /\ CfsSorted
  BY DEF CfsInv
<1>1. /\ c \in CfsCos /\ Queued(queue[p], c) /\ hand[c] = "queue"
      /\ \A d : Queued(queue[p], d) => vruntime[c] <= vruntime[d]
      /\ queue' \in [CfsProcs -> Seq(CfsCos)]
      /\ \A q \in CfsProcs : \A d : Queued(queue'[q], d) <=> Queued(queue[q], d) /\ d # c
      /\ \A d : (\E i \in 2 .. Len(queue[p]) : queue[p][i] = d) <=> Queued(queue[p], d) /\ d # c
      /\ \A q, r \in CfsProcs : \A i \in DOMAIN queue'[q], j \in DOMAIN queue'[r] :
            queue'[q][i] = queue'[r][j] => q = r /\ i = j
      /\ \A q \in CfsProcs : \A i, j \in DOMAIN queue'[q] :
            i <= j => vruntime[queue'[q][i]] <= vruntime[queue'[q][j]]
  BY <1>0, HeadLeaves DEF CfsPick
<1>2. /\ onCpu[p] = NoTask /\ served < MaxServed
      /\ onCpu' = [onCpu EXCEPT ![p] = c] /\ hand' = [hand EXCEPT ![c] = "cpu"]
      /\ passed' = [d \in CfsCos |->
            IF \E i \in 2 .. Len(queue[p]) : queue[p][i] = d
            THEN [passed[d] EXCEPT ![c] = @ + Unit \div weight[c]]
            ELSE IF d = c THEN NotPassed ELSE passed[d]]
      /\ allowed' = [allowed EXCEPT ![c] = 0]
      /\ served' = served + 1 /\ floor' = floor /\ vruntime' = vruntime /\ weight' = weight
      /\ waiting' = waiting /\ migrated' = migrated
  BY DEF CfsPick
<1> HIDE DEF c
<1>3. passed' = [d \in CfsCos |->
            IF Queued(queue[p], d) /\ d # c THEN [passed[d] EXCEPT ![c] = @ + RunUnit(weight[c])]
            ELSE IF d = c THEN NotPassed ELSE passed[d]]
  BY <1>1, <1>2 DEF RunUnit
<1>4. passed' \in [CfsCos -> [CfsCos -> Nat]]
  <2>1. NotPassed \in [CfsCos -> Nat]
    BY DEF NotPassed
  <2>2. \A d \in CfsCos : passed[d] \in [CfsCos -> Nat] /\ [passed[d] EXCEPT ![c] = @ + RunUnit(weight[c])] \in [CfsCos -> Nat]
    <3>1. RunUnit(weight[c]) \in Nat /\ c \in CfsCos /\ \A d \in CfsCos : passed[d] \in [CfsCos -> Nat]
      BY <1>1, CfsParts
    <3>2. \A r \in Nat : \A f \in [CfsCos -> Nat] : [f EXCEPT ![c] = @ + r] \in [CfsCos -> Nat]
      BY <3>1
    <3> QED  BY <3>1, <3>2
  <2> QED  BY <1>3, <2>1, <2>2
<1>5. CfsTypeOK'
  <2>1. /\ onCpu' \in [CfsProcs -> CfsCos \cup {NoTask}] /\ hand' \in [CfsCos -> Hands]
        /\ allowed' \in [CfsCos -> Int]
    BY <1>0, <1>1, <1>2 DEF CfsTypeOK, Hands
  <2>2. served' \in 0 .. MaxServed
    BY <1>0, <1>2, CfsAssumption DEF CfsTypeOK, CfsAssumption
  <2> QED  BY <1>0, <1>1, <1>2, <1>4, <2>1, <2>2 DEF CfsTypeOK
<1>6. CfsPlaces'
  <2>1. ASSUME NEW q \in CfsProcs, NEW i \in DOMAIN queue'[q]  PROVE hand'[queue'[q][i]] = "queue"
    <3>1. Queued(queue'[q], queue'[q][i])
      BY <2>1 DEF Queued
    <3>2. Queued(queue[q], queue'[q][i]) /\ queue'[q][i] # c
      BY <1>1, <3>1
    <3>3. hand[queue'[q][i]] = "queue" /\ queue'[q][i] \in CfsCos
      BY <3>2, CfsParts
    <3> QED  BY <1>2, <3>2, <3>3
  <2>2. ASSUME NEW q \in CfsProcs, onCpu'[q] # NoTask  PROVE hand'[onCpu'[q]] = "cpu"
    <3>1. CASE q = p
      BY <1>0, <1>1, <1>2, <3>1 DEF CfsTypeOK
    <3>2. CASE q # p
      <4>1. onCpu'[q] = onCpu[q] /\ onCpu[q] # NoTask
        BY <1>0, <1>2, <2>2, <3>2 DEF CfsTypeOK
      <4>2. onCpu[q] \in CfsCos /\ hand[onCpu[q]] = "cpu"
        BY <4>1, CfsParts
      <4> QED  BY <1>0, <1>1, <1>2, <4>1, <4>2 DEF CfsTypeOK
    <3> QED  BY <3>1, <3>2
  <2>3. ASSUME NEW q \in CfsProcs, NEW r \in CfsProcs, onCpu'[q] = onCpu'[r], onCpu'[q] # NoTask  PROVE q = r
    <3>1. \A t \in CfsProcs : onCpu[t] # c
      BY <1>1, CfsParts
    <3>2. \A t, u \in CfsProcs : onCpu[t] = onCpu[u] /\ onCpu[t] # NoTask => t = u
      BY <1>0 DEF CfsPlaces
    <3> QED  BY <1>0, <1>2, <2>3, <3>1, <3>2 DEF CfsTypeOK
  <2> QED  BY <1>1, <2>1, <2>2, <2>3 DEF CfsPlaces
<1>7. CfsSorted'
  BY <1>1, <1>2 DEF CfsSorted
<1>8. \A d \in CfsCos : d # c => hand'[d] = hand[d] /\ allowed'[d] = allowed[d] /\ vruntime'[d] = vruntime[d]
  BY <1>0, <1>2 DEF CfsTypeOK
<1>9. \A q \in CfsProcs : \A d : onCpu'[q] = d <=> (q = p /\ d = c) \/ (q # p /\ onCpu[q] = d)
  BY <1>0, <1>2 DEF CfsTypeOK
<1>10. hand'[c] = "cpu" /\ \A q \in CfsProcs : ~Queued(queue'[q], c)
  BY <1>0, <1>1, <1>2 DEF CfsTypeOK
<1>11. FloorHeld'
  <2>1. ASSUME NEW q \in CfsProcs, NEW d \in CfsCos, Queued(queue'[q], d) \/ onCpu'[q] = d  PROVE vruntime'[d] >= floor'[q]
    <3>1. CASE q = p /\ d = c
      BY <1>1, <1>2, <3>1, CfsParts
    <3>2. CASE ~(q = p /\ d = c)
      <4>1. Queued(queue[q], d) \/ onCpu[q] = d
        BY <1>1, <1>9, <2>1, <3>2
      <4> QED  BY <1>2, <4>1 DEF CfsInv, FloorHeld
    <3> QED  BY <3>1, <3>2
  <2>2. ASSUME NEW d \in CfsCos, hand'[d] \in Away  PROVE vruntime'[d] >= 0
    BY <1>2, <1>8, <1>10, <2>2, CfsParts DEF Away
  <2> QED  BY <2>1, <2>2 DEF FloorHeld
\* A coroutine still queued has been passed as before, but by c.
<1>12. ASSUME NEW q \in CfsProcs, NEW a \in CfsCos, Queued(queue[q], a), a # c, NEW d \in CfsCos
       PROVE  passed'[a][d] = IF q = p /\ d = c THEN passed[a][d] + RunUnit(weight[c]) ELSE passed[a][d]
  <2>1. passed[a] \in [CfsCos -> Nat]
    BY CfsParts
  <2>2. Queued(queue[p], a) <=> q = p
    BY <1>1, <1>12, CfsParts
  <2> QED  BY <1>3, <1>12, <2>1, <2>2
<1>13. PassedPaid'
  <2> SUFFICES ASSUME NEW q \in CfsProcs, NEW a \in CfsCos, NEW d \in CfsCos, Queued(queue'[q], a), a # d
               PROVE  /\ vruntime'[a] - allowed'[a] <= floor'[q]
                      /\ Queued(queue'[q], d) => passed'[a][d] <= vruntime'[d] - (vruntime'[a] - allowed'[a])
                      /\ onCpu'[q] = d => passed'[a][d] <= vruntime'[d] + RunUnit(weight'[d]) - (vruntime'[a] - allowed'[a])
                      /\ hand'[d] \in Away => passed'[a][d] <= floor'[q] + vruntime'[d] - (vruntime'[a] - allowed'[a])
                      /\ \A r \in CfsProcs \ {q} : Queued(queue'[r], d) \/ onCpu'[r] = d => passed'[a][d] = 0
    BY DEF PassedPaid
  <2>1. Queued(queue[q], a) /\ a # c
    BY <1>1
  <2>2. /\ vruntime[a] - allowed[a] <= floor[q]
        /\ Queued(queue[q], d) => passed[a][d] <= vruntime[d] - (vruntime[a] - allowed[a])
        /\ onCpu[q] = d => passed[a][d] <= vruntime[d] + RunUnit(weight[d]) - (vruntime[a] - allowed[a])
        /\ hand[d] \in Away => passed[a][d] <= floor[q] + vruntime[d] - (vruntime[a] - allowed[a])
        /\ \A r \in CfsProcs \ {q} : Queued(queue[r], d) \/ onCpu[r] = d => passed[a][d] = 0
    BY <2>1 DEF CfsInv, PassedPaid
  <2>3. RunUnit(weight'[d]) = RunUnit(weight[d]) /\ allowed'[a] = allowed[a] /\ floor' = floor /\ vruntime' = vruntime
    BY <1>2, <1>8, <2>1 DEF RunUnit
  <2>4. /\ floor[q] \in Nat /\ vruntime[d] \in Int /\ vruntime[c] \in Int /\ allowed[a] \in Int /\ vruntime[a] \in Int /\ RunUnit(weight[c]) \in Nat
        /\ passed[a][d] \in Nat /\ RunUnit(weight[d]) \in Nat
    BY <1>1, CfsParts
  <2>8. ASSUME d = c
        PROVE  ~Queued(queue'[q], d) /\ hand'[d] \notin Away /\ (\A r \in CfsProcs : onCpu'[r] = d => r = p)
    <3>1. ~Queued(queue'[q], c) /\ hand'[c] \notin Away
      BY <1>10 DEF Away
    <3>2. \A r \in CfsProcs : onCpu'[r] = c => r = p
      <4>1. \A r \in CfsProcs : onCpu[r] # c
        BY <1>1, CfsParts
      <4> QED  BY <1>9, <4>1
    <3> QED  BY <2>8, <3>1, <3>2
  <2>5. CASE d = c /\ q = p
    <3>1. passed'[a][d] = passed[a][d] + RunUnit(weight[d])
      BY <1>12, <2>1, <2>5
    <3>2. passed[a][d] <= vruntime[d] - (vruntime[a] - allowed[a])
      BY <1>1, <2>2, <2>5
    <3>3. passed'[a][d] <= vruntime[d] + RunUnit(weight[d]) - (vruntime[a] - allowed[a])
      BY <2>4, <3>1, <3>2
    <3> QED  BY <1>10, <2>2, <2>3, <2>5, <2>8, <3>3
  <2>6. CASE d = c /\ q # p
    <3>1. passed'[a][d] = passed[a][d]
      BY <1>12, <2>1, <2>6
    <3>2. passed[a][d] = 0
      BY <1>1, <2>2, <2>6
    <3> QED  BY <2>2, <2>3, <2>6, <2>8, <3>1, <3>2
  <2>7. CASE d # c
    <3>1. passed'[a][d] = passed[a][d] /\ hand'[d] = hand[d]
      BY <1>8, <1>12, <2>1, <2>7
    <3>2. \A r \in CfsProcs : (Queued(queue'[r], d) <=> Queued(queue[r], d)) /\ (onCpu'[r] = d => onCpu[r] = d)
      BY <1>1, <1>9, <2>7
    <3> QED  BY <2>2, <2>3, <3>1, <3>2
  <2> QED  BY <2>5, <2>6, <2>7
<1>14. OvertakingBounded'
  <2> SUFFICES ASSUME NEW a \in CfsCos, NEW d \in CfsCos, hand'[a] = "queue"
               PROVE  passed'[a][d] <= allowed'[a] + Unit
    BY DEF OvertakingBounded
  <2>1. a # c /\ hand[a] = "queue" /\ allowed'[a] = allowed[a]
    BY <1>8, <1>10
  <2>2. passed[a][d] <= allowed[a] + Unit
    BY <2>1 DEF CfsInv, OvertakingBounded
  <2>3. CASE Queued(queue[p], a) /\ d = c
    <3>1. passed[a][c] <= vruntime[c] - (vruntime[a] - allowed[a])
      BY <1>1, <2>1, <2>3 DEF CfsInv, PassedPaid
    <3>2. vruntime[c] <= vruntime[a]
      BY <1>1, <2>3
    <3>3. passed'[a][c] = passed[a][c] + RunUnit(weight[c])
      BY <1>1, <1>12, <2>1, <2>3
    <3>4. /\ RunUnit(weight[c]) \in Nat /\ RunUnit(weight[c]) <= Unit /\ vruntime[c] \in Int /\ vruntime[a] \in Int
          /\ allowed[a] \in Int /\ passed[a][c] \in Nat /\ Unit \in Nat
      BY <1>1, CfsParts, CfsConstants
    <3> QED  BY <2>1, <2>3, <3>1, <3>2, <3>3, <3>4
  <2>4. CASE ~Queued(queue[p], a)
    <3>1. passed'[a][d] = passed[a][d]
      BY <1>3, <2>1, <2>4
    <3> QED  BY <2>1, <2>2, <3>1
  <2>5. CASE Queued(queue[p], a) /\ d # c
    BY <1>12, <2>1, <2>2, <2>5
  <2> QED  BY <2>3, <2>4, <2>5
<1> QED  BY <1>5, <1>6, <1>7, <1>11, <1>13, <1>14 DEF CfsInv


\* Take: what the one taken away has run past the others stays paid for by the
\* distance to the floor that it carries.
LEMMA TakeKeepsShares ==
    ASSUME CfsAssumption, CfsInv, NEW p \in CfsProcs, CfsTake(p)
    PROVE  CfsInv'
<1> DEFINE c == Head(queue[p])
<1>0. CfsTypeOK /\ CfsPlaces /\ CfsSorted
  BY DEF CfsInv
<1>1. /\ c \in CfsCos /\ Queued(queue[p], c) /\ hand[c] = "queue"
      /\ queue' \in [CfsProcs -> Seq(CfsCos)]
      /\ \A q \in CfsProcs : \A d : Queued(queue'[q], d) <=> Queued(queue[q], d) /\ d # c
      /\ \A q, r \in CfsProcs : \A i \in DOMAIN queue'[q], j \in DOMAIN queue'[r] :
            queue'[q][i] = queue'[r][j] => q = r /\ i = j
      /\ \A q \in CfsProcs : \A i, j \in DOMAIN queue'[q] :
            i <= j => vruntime[queue'[q][i]] <= vruntime[queue'[q][j]]
  BY <1>0, HeadLeaves DEF CfsTake
<1>2. /\ migrated < MaxTaken /\ migrated' = migrated + 1
      /\ vruntime' = [vruntime EXCEPT ![c] = @ - floor[p]]
      /\ passed' = [passed EXCEPT ![c] = NotPassed]
      /\ allowed' = [allowed EXCEPT ![c] = 0]
      /\ hand' = [hand EXCEPT ![c] = "taken"]
      /\ floor' = floor /\ onCpu' = onCpu /\ weight' = weight
      /\ waiting' = waiting /\ served' = served
  BY DEF CfsTake
<1> HIDE DEF c
<1>3. /\ vruntime[c] \in Int /\ floor[p] \in Nat /\ vruntime[c] >= floor[p]
      /\ \A q \in CfsProcs : onCpu[q] # c /\ (Queued(queue[q], c) => q = p)
  BY <1>1, CfsParts
<1>4. CfsTypeOK'
  <2>1. vruntime' \in [CfsCos -> Int] /\ hand' \in [CfsCos -> Hands] /\ allowed' \in [CfsCos -> Int]
    BY <1>0, <1>1, <1>2, <1>3 DEF CfsTypeOK, Hands
  <2>2. passed' \in [CfsCos -> [CfsCos -> Nat]]
    BY <1>0, <1>1, <1>2 DEF CfsTypeOK, NotPassed
  <2>3. migrated' \in 0 .. MaxTaken
    BY <1>0, <1>2, CfsAssumption DEF CfsTypeOK, CfsAssumption
  <2> QED  BY <1>0, <1>1, <1>2, <2>1, <2>2, <2>3 DEF CfsTypeOK
<1>5. /\ vruntime'[c] = vruntime[c] - floor[p] /\ hand'[c] = "taken"
      /\ \A d \in CfsCos : d # c => /\ hand'[d] = hand[d] /\ allowed'[d] = allowed[d]
                                    /\ vruntime'[d] = vruntime[d] /\ passed'[d] = passed[d]
  BY <1>0, <1>1, <1>2 DEF CfsTypeOK
<1>6. CfsPlaces'
  <2>1. ASSUME NEW q \in CfsProcs, NEW i \in DOMAIN queue'[q]  PROVE hand'[queue'[q][i]] = "queue"
    <3>1. Queued(queue'[q], queue'[q][i])
      BY <2>1 DEF Queued
    <3>2. Queued(queue[q], queue'[q][i]) /\ queue'[q][i] # c
      BY <1>1, <3>1
    <3>3. hand[queue'[q][i]] = "queue" /\ queue'[q][i] \in CfsCos
      BY <3>2, CfsParts
    <3> QED  BY <1>5, <3>2, <3>3
  <2>2. ASSUME NEW q \in CfsProcs, onCpu'[q] # NoTask  PROVE hand'[onCpu'[q]] = "cpu"
    BY <1>2, <1>3, <1>5, <2>2, CfsParts
  <2>3. \A q, r \in CfsProcs : onCpu'[q] = onCpu'[r] /\ onCpu'[q] # NoTask => q = r
    BY <1>0, <1>2 DEF CfsPlaces
  <2> QED  BY <1>1, <2>1, <2>2, <2>3 DEF CfsPlaces
<1>7. CfsSorted'
  <2>1. ASSUME NEW q \in CfsProcs, NEW i \in DOMAIN queue'[q]
        PROVE  vruntime'[queue'[q][i]] = vruntime[queue'[q][i]]
    <3>1. Queued(queue'[q], queue'[q][i])
      BY <2>1 DEF Queued
    <3>2. Queued(queue[q], queue'[q][i]) /\ queue'[q][i] # c
      BY <1>1, <3>1
    <3> QED  BY <1>5, <3>2, CfsParts
  <2> QED  BY <1>1, <2>1 DEF CfsSorted
<1>8. FloorHeld'
  <2>1. ASSUME NEW q \in CfsProcs, NEW d \in CfsCos, Queued(queue'[q], d) \/ onCpu'[q] = d
        PROVE  vruntime'[d] >= floor'[q]
    <3>1. d # c /\ (Queued(queue[q], d) \/ onCpu[q] = d)
      BY <1>1, <1>2, <1>3, <2>1
    <3> QED  BY <1>2, <1>5, <3>1 DEF CfsInv, FloorHeld
  <2>2. ASSUME NEW d \in CfsCos, hand'[d] \in Away  PROVE vruntime'[d] >= 0
    <3>1. CASE d = c
      BY <1>3, <1>5, <3>1
    <3>2. CASE d # c
      BY <1>5, <2>2, <3>2, CfsParts
    <3> QED  BY <3>1, <3>2
  <2> QED  BY <2>1, <2>2 DEF FloorHeld
<1>9. PassedPaid'
  <2> SUFFICES ASSUME NEW q \in CfsProcs, NEW a \in CfsCos, NEW d \in CfsCos, Queued(queue'[q], a), a # d
               PROVE  /\ vruntime'[a] - allowed'[a] <= floor'[q]
                      /\ Queued(queue'[q], d) => passed'[a][d] <= vruntime'[d] - (vruntime'[a] - allowed'[a])
                      /\ onCpu'[q] = d =>
                            passed'[a][d] <= vruntime'[d] + RunUnit(weight'[d]) - (vruntime'[a] - allowed'[a])
                      /\ hand'[d] \in Away =>
                            passed'[a][d] <= floor'[q] + vruntime'[d] - (vruntime'[a] - allowed'[a])
                      /\ \A r \in CfsProcs \ {q} : Queued(queue'[r], d) \/ onCpu'[r] = d => passed'[a][d] = 0
    BY DEF PassedPaid
  <2>1. /\ Queued(queue[q], a) /\ a # c
        /\ vruntime'[a] = vruntime[a] /\ allowed'[a] = allowed[a] /\ passed'[a] = passed[a]
    BY <1>1, <1>5
  <2>2. /\ vruntime[a] - allowed[a] <= floor[q]
        /\ Queued(queue[q], d) => passed[a][d] <= vruntime[d] - (vruntime[a] - allowed[a])
        /\ onCpu[q] = d => passed[a][d] <= vruntime[d] + RunUnit(weight[d]) - (vruntime[a] - allowed[a])
        /\ hand[d] \in Away => passed[a][d] <= floor[q] + vruntime[d] - (vruntime[a] - allowed[a])
        /\ \A r \in CfsProcs \ {q} : Queued(queue[r], d) \/ onCpu[r] = d => passed[a][d] = 0
    BY <2>1 DEF CfsInv, PassedPaid
  <2>3. /\ floor[q] \in Nat /\ vruntime[d] \in Int /\ vruntime[a] \in Int /\ allowed[a] \in Int
        /\ passed[a][d] \in Nat
    BY CfsParts
  <2>4. \A r \in CfsProcs : Queued(queue'[r], d) => Queued(queue[r], d) /\ d # c
    BY <1>1
  <2>5. CASE d = c /\ q = p
    <3>1. passed[a][d] <= vruntime[d] - (vruntime[a] - allowed[a])
      BY <1>1, <2>2, <2>5
    <3>2. passed[a][d] <= floor[q] + vruntime'[d] - (vruntime[a] - allowed[a])
      BY <1>3, <1>5, <2>3, <2>5, <3>1
    <3> QED  BY <1>2, <1>3, <2>1, <2>2, <2>4, <2>5, <3>2
  <2>6. CASE d = c /\ q # p
    <3>1. passed[a][d] = 0
      BY <1>1, <2>2, <2>6
    <3>2. passed[a][d] <= floor[q] + vruntime'[d] - (vruntime[a] - allowed[a])
      BY <1>3, <1>5, <2>2, <2>3, <2>6, <3>1
    <3> QED  BY <1>2, <1>3, <2>1, <2>2, <2>4, <2>6, <3>1, <3>2
  <2>7. CASE d # c
    BY <1>2, <1>5, <2>1, <2>2, <2>4, <2>7
  <2> QED  BY <2>5, <2>6, <2>7
<1>10. OvertakingBounded'
  <2> SUFFICES ASSUME NEW a \in CfsCos, NEW d \in CfsCos, hand'[a] = "queue"
               PROVE  passed'[a][d] <= allowed'[a] + Unit
    BY DEF OvertakingBounded
  <2>1. a # c
    BY <1>5
  <2> QED  BY <1>5, <2>1 DEF CfsInv, OvertakingBounded
<1> QED  BY <1>4, <1>6, <1>7, <1>8, <1>9, <1>10 DEF CfsInv

\* Account: the run costs its unit at least, and the floor never rises above
\* anybody in the queue or above the one accounted for.
LEMMA AccountKeepsShares ==
    ASSUME CfsAssumption, CfsInv, NEW p \in CfsProcs, NEW e \in Elapsed,
           NEW next \in {"ready", "parked", "final"}, Account(p, e, next)
    PROVE  CfsInv'
<1> DEFINE c == onCpu[p]
           v == vruntime[c] + Charge(c, e)
           f == CfsMax(floor[p], Progress(p, v))
<1>0. CfsTypeOK /\ CfsPlaces /\ CfsSorted
  BY DEF CfsInv
<1>1. /\ c # NoTask
      /\ floor' = [floor EXCEPT ![p] = f]
      /\ vruntime' = [vruntime EXCEPT ![c] = IF next = "final" THEN 0 ELSE v - f]
      /\ waiting' = [waiting EXCEPT ![c] = next = "parked"]
      /\ hand' = [hand EXCEPT ![c] = next]
      /\ onCpu' = [onCpu EXCEPT ![p] = NoTask]
      /\ queue' = queue /\ weight' = weight /\ served' = served /\ migrated' = migrated
      /\ passed' = passed /\ allowed' = allowed
  BY DEF Account
<1>2. /\ c \in CfsCos /\ hand[c] = "cpu" /\ vruntime[c] \in Int /\ vruntime[c] >= floor[p]
      /\ \A q \in CfsProcs : floor[q] \in Nat /\ ~Queued(queue[q], c) /\ (onCpu[q] = c => q = p)
  <2>1. c \in CfsCos /\ hand[c] = "cpu" /\ vruntime[c] \in Int /\ vruntime[c] >= floor[p]
    BY <1>1, CfsParts
  <2>2. \A q \in CfsProcs : floor[q] \in Nat /\ ~Queued(queue[q], c)
    BY <2>1, CfsParts
  <2>3. \A q \in CfsProcs : onCpu[q] = c => q = p
    BY <1>0, <1>1 DEF CfsPlaces
  <2> QED  BY <2>1, <2>2, <2>3
<1>3. v \in Int /\ v >= vruntime[c] + RunUnit(weight[c]) /\ RunUnit(weight[c]) \in Nat
  <2>1. /\ Charge(c, e) \in Nat /\ Charge(c, e) >= RunUnit(weight[c])
        /\ RunUnit(weight[c]) \in Nat /\ vruntime[c] \in Int
    <3> HIDE DEF c
    <3> QED  BY <1>0, <1>2, ChargeCosts
  <2> HIDE DEF c
  <2> QED  BY <2>1
<1> HIDE DEF v
<1>4. /\ f \in Nat /\ floor[p] <= f /\ f <= v
      /\ \A d : Queued(queue[p], d) => f <= vruntime[d]
  <2>1. CASE queue[p] = <<>>
    <3>1. \A d : ~Queued(queue[p], d)
      BY <2>1 DEF Queued
    <3> QED  BY <1>2, <1>3, <2>1, <3>1 DEF Progress, CfsMax
  <2>2. CASE queue[p] # <<>>
    <3> DEFINE h == Head(queue[p])
    <3>1. h = queue[p][1] /\ 1 \in DOMAIN queue[p] /\ h \in CfsCos /\ \A i \in DOMAIN queue[p] : 1 <= i
      BY <1>0, <2>2, QueueFacts, TailFacts
    <3>2. Queued(queue[p], h) /\ \A d : Queued(queue[p], d) => vruntime[h] <= vruntime[d]
      BY <1>0, <3>1 DEF Queued, CfsSorted
    <3>3. Progress(p, v) = CfsMin(v, vruntime[h])
      BY <2>2 DEF Progress
    <3> HIDE DEF h
    <3>4. vruntime[h] \in Int /\ floor[p] <= vruntime[h]
      BY <3>1, <3>2, CfsParts
    <3>5. f \in Nat /\ floor[p] <= f /\ f <= v /\ f <= vruntime[h]
      BY <1>2, <1>3, <3>3, <3>4 DEF CfsMin, CfsMax
    <3>6. \A d : Queued(queue[p], d) => vruntime[d] \in Int
      BY CfsParts
    <3> HIDE DEF f
    <3> QED  BY <3>2, <3>4, <3>5, <3>6
  <2> QED  BY <2>1, <2>2
<1> HIDE DEF c, f
<1>5. /\ floor' \in [CfsProcs -> Nat] /\ floor'[p] = f /\ \A q \in CfsProcs : floor[q] <= floor'[q]
      /\ \A q \in CfsProcs : q # p => floor'[q] = floor[q]
  BY <1>0, <1>1, <1>2, <1>4 DEF CfsTypeOK
<1>6. /\ hand'[c] = next /\ vruntime'[c] \in Int /\ vruntime'[c] >= 0
      /\ next # "final" => vruntime'[c] = v - f
      /\ \A d \in CfsCos : d # c => hand'[d] = hand[d] /\ vruntime'[d] = vruntime[d]
  BY <1>0, <1>1, <1>2, <1>3, <1>4 DEF CfsTypeOK
<1>7. CfsTypeOK'
  <2>1. vruntime' \in [CfsCos -> Int] /\ hand' \in [CfsCos -> Hands]
    BY <1>0, <1>1, <1>2, <1>3, <1>4 DEF CfsTypeOK, Hands
  <2>2. onCpu' \in [CfsProcs -> CfsCos \cup {NoTask}] /\ waiting' \in [CfsCos -> BOOLEAN]
    BY <1>0, <1>1 DEF CfsTypeOK
  <2> QED  BY <1>0, <1>1, <1>5, <2>1, <2>2 DEF CfsTypeOK
<1>8. CfsPlaces'
  <2>1. ASSUME NEW q \in CfsProcs, NEW i \in DOMAIN queue'[q]  PROVE hand'[queue'[q][i]] = "queue"
    <3>1. Queued(queue[q], queue[q][i])
      BY <1>1, <2>1 DEF Queued
    <3> QED  BY <1>1, <1>2, <1>6, <3>1, CfsParts
  <2>2. ASSUME NEW q \in CfsProcs, onCpu'[q] # NoTask
        PROVE  onCpu'[q] = onCpu[q] /\ q # p /\ hand'[onCpu'[q]] = "cpu"
    <3>1. onCpu'[q] = onCpu[q] /\ q # p
      BY <1>0, <1>1, <2>2 DEF CfsTypeOK
    <3> QED  BY <1>2, <1>6, <2>2, <3>1, CfsParts
  <2>3. ASSUME NEW q \in CfsProcs, NEW r \in CfsProcs, onCpu'[q] = onCpu'[r], onCpu'[q] # NoTask  PROVE q = r
    BY <1>0, <2>2, <2>3 DEF CfsPlaces
  <2> QED  BY <1>0, <1>1, <2>1, <2>2, <2>3 DEF CfsPlaces
<1>9. CfsSorted'
  <2>1. ASSUME NEW q \in CfsProcs, NEW i \in DOMAIN queue[q]
        PROVE  vruntime'[queue[q][i]] = vruntime[queue[q][i]]
    <3>1. Queued(queue[q], queue[q][i])
      BY <2>1 DEF Queued
    <3> QED  BY <1>2, <1>6, <3>1, CfsParts
  <2> QED  BY <1>0, <1>1, <2>1 DEF CfsSorted
<1>10. FloorHeld'
  <2>1. ASSUME NEW q \in CfsProcs, NEW d \in CfsCos, Queued(queue'[q], d) \/ onCpu'[q] = d
        PROVE  vruntime'[d] >= floor'[q]
    <3>1. CASE Queued(queue'[q], d)
      <4>1. Queued(queue[q], d) /\ d # c /\ vruntime'[d] = vruntime[d]
        BY <1>1, <1>2, <1>6, <3>1
      <4> QED  BY <1>4, <1>5, <4>1, CfsParts
    <3>2. CASE onCpu'[q] = d
      <4>1. q # p /\ onCpu[q] = d /\ d # c
        BY <1>0, <1>1, <1>2, <3>2, CfsConstants DEF CfsTypeOK
      <4> QED  BY <1>5, <1>6, <4>1 DEF CfsInv, FloorHeld
    <3> QED  BY <2>1, <3>1, <3>2
  <2>2. ASSUME NEW d \in CfsCos, hand'[d] \in Away  PROVE vruntime'[d] >= 0
    BY <1>6, <2>2, CfsParts
  <2> QED  BY <2>1, <2>2 DEF FloorHeld
<1>11. PassedPaid'
  <2> SUFFICES ASSUME NEW q \in CfsProcs, NEW a \in CfsCos, NEW d \in CfsCos, Queued(queue'[q], a), a # d
               PROVE  /\ vruntime'[a] - allowed'[a] <= floor'[q]
                      /\ Queued(queue'[q], d) => passed'[a][d] <= vruntime'[d] - (vruntime'[a] - allowed'[a])
                      /\ onCpu'[q] = d =>
                            passed'[a][d] <= vruntime'[d] + RunUnit(weight'[d]) - (vruntime'[a] - allowed'[a])
                      /\ hand'[d] \in Away =>
                            passed'[a][d] <= floor'[q] + vruntime'[d] - (vruntime'[a] - allowed'[a])
                      /\ \A r \in CfsProcs \ {q} : Queued(queue'[r], d) \/ onCpu'[r] = d => passed'[a][d] = 0
    BY DEF PassedPaid
  <2>1. Queued(queue[q], a) /\ a # c /\ vruntime'[a] = vruntime[a]
    BY <1>1, <1>2, <1>6
  <2>2. /\ vruntime[a] - allowed[a] <= floor[q]
        /\ Queued(queue[q], d) => passed[a][d] <= vruntime[d] - (vruntime[a] - allowed[a])
        /\ onCpu[q] = d => passed[a][d] <= vruntime[d] + RunUnit(weight[d]) - (vruntime[a] - allowed[a])
        /\ hand[d] \in Away => passed[a][d] <= floor[q] + vruntime[d] - (vruntime[a] - allowed[a])
        /\ \A r \in CfsProcs \ {q} : Queued(queue[r], d) \/ onCpu[r] = d => passed[a][d] = 0
    BY <2>1 DEF CfsInv, PassedPaid
  <2>3. /\ floor[q] \in Nat /\ floor'[q] \in Nat /\ floor[q] <= floor'[q]
        /\ vruntime[d] \in Int /\ vruntime[a] \in Int /\ allowed[a] \in Int
        /\ passed[a][d] \in Nat
    BY <1>5, CfsParts
  <2>4. vruntime'[a] - allowed'[a] <= floor'[q]
    BY <1>1, <2>1, <2>2, <2>3
  <2>5. \A r \in CfsProcs : onCpu'[r] = d => onCpu[r] = d /\ r # p
    BY <1>0, <1>1, CfsConstants DEF CfsTypeOK
  <2>6. CASE d = c
    <3>1. \A r \in CfsProcs : ~Queued(queue'[r], d) /\ onCpu'[r] # d
      BY <1>1, <1>2, <2>5, <2>6
    <3>2. ASSUME hand'[d] \in Away
          PROVE  passed[a][d] <= floor'[q] + vruntime'[d] - (vruntime[a] - allowed[a])
      <4>1. vruntime'[d] = v - f
        BY <1>6, <2>6, <3>2 DEF Away
      <4>2. CASE q = p
        <5>1. passed[a][d] <= vruntime[d] + RunUnit(weight[d]) - (vruntime[a] - allowed[a])
          BY <2>2, <2>6, <4>2 DEF c
        <5> QED  BY <1>3, <1>4, <1>5, <2>3, <2>6, <4>1, <4>2, <5>1
      <4>3. CASE q # p
        <5>1. passed[a][d] = 0
          BY <2>2, <2>6, <4>3 DEF c
        <5>2. vruntime'[d] \in Int /\ vruntime'[d] >= 0
          BY <1>6, <2>6
        <5> QED  BY <2>2, <2>3, <5>1, <5>2
      <4> QED  BY <4>2, <4>3
    <3> QED  BY <1>1, <2>1, <2>4, <3>1, <3>2
  <2>7. CASE d # c
    <3>1. vruntime'[d] = vruntime[d] /\ hand'[d] = hand[d]
      BY <1>6, <2>7
    <3>2. hand'[d] \in Away => passed[a][d] <= floor'[q] + vruntime'[d] - (vruntime[a] - allowed[a])
      BY <2>2, <2>3, <3>1
    <3> QED  BY <1>1, <2>1, <2>2, <2>4, <2>5, <3>1, <3>2
  <2> QED  BY <2>6, <2>7
<1>12. OvertakingBounded'
  <2> SUFFICES ASSUME NEW a \in CfsCos, NEW d \in CfsCos, hand'[a] = "queue"
               PROVE  passed'[a][d] <= allowed'[a] + Unit
    BY DEF OvertakingBounded
  <2>1. a # c
    BY <1>6
  <2> QED  BY <1>1, <1>6, <2>1 DEF CfsInv, OvertakingBounded
<1> QED  BY <1>7, <1>8, <1>9, <1>10, <1>11, <1>12 DEF CfsInv


\* Enqueue: nobody has run past the one that joins, and what it has run past
\* the others there is behind it.
LEMMA EnqueueKeepsShares ==
    ASSUME CfsAssumption, CfsInv, NEW p \in CfsProcs, NEW c \in CfsCos, CfsEnqueue(p, c)
    PROVE  CfsInv'
<1> DEFINE v == JoinAt(p, c)
           k == Behind(p, v)
           s == queue[p]
           t == InsertAt(s, k, c)
<1>0. CfsTypeOK /\ CfsPlaces /\ CfsSorted
  BY DEF CfsInv
<1>1. /\ hand[c] \in {"new", "parked", "ready", "taken"}
      /\ vruntime' = [vruntime EXCEPT ![c] = v]
      /\ queue' = [queue EXCEPT ![p] = t]
      /\ allowed' = [allowed EXCEPT ![c] = v - floor[p]]
      /\ weight' \in {[weight EXCEPT ![c] = w] : w \in NextWeights(c)}
      /\ waiting' = [waiting EXCEPT ![c] = FALSE]
      /\ hand' = [hand EXCEPT ![c] = "queue"]
      /\ passed' = [d \in CfsCos |->
            IF d = c THEN NotPassed
            ELSE IF Queued(s, d) THEN passed[d] ELSE [passed[d] EXCEPT ![c] = 0]]
      /\ floor' = floor /\ onCpu' = onCpu /\ served' = served /\ migrated' = migrated
  BY DEF CfsEnqueue, Queued
<1>2. /\ hand[c] \in Away /\ vruntime[c] \in Int /\ vruntime[c] >= 0 /\ floor[p] \in Nat
      /\ \A q \in CfsProcs : ~Queued(queue[q], c) /\ onCpu[q] # c
  BY <1>1, CfsParts DEF Away
<1>3. v = floor[p] + vruntime[c] /\ v \in Int /\ v >= floor[p]
  <2>1. Debt(c) = vruntime[c]
    BY <1>2 DEF Debt, CfsMax
  <2> QED  BY <1>2, <2>1 DEF JoinAt
<1> HIDE DEF v
<1>4. /\ s \in Seq(CfsCos) /\ Len(s) \in Nat /\ k \in 1 .. Len(s) + 1
      /\ \A i \in 1 .. Len(s) : IF i < k THEN vruntime[s[i]] <= v ELSE vruntime[s[i]] > v
  BY <1>0, <1>3, QueueFacts, BehindSplits
<1> HIDE DEF k
<1>5. /\ t \in Seq(CfsCos) /\ Len(t) = Len(s) + 1
      /\ \A j \in 1 .. Len(s) + 1 : t[j] = IF j < k THEN s[j] ELSE IF j = k THEN c ELSE s[j - 1]
  <2> HIDE DEF s
  <2>1. s \in Seq(CfsCos) /\ k \in 1 .. Len(s) + 1
    BY <1>4
  <2>2. /\ InsertAt(s, k, c) \in Seq(CfsCos) /\ Len(InsertAt(s, k, c)) = Len(s) + 1
        /\ \A j \in 1 .. Len(s) + 1 :
              InsertAt(s, k, c)[j] = IF j < k THEN s[j] ELSE IF j = k THEN c ELSE s[j - 1]
    BY <2>1, InsertFacts
  <2> QED  BY <2>2
<1> HIDE DEF t
<1>6. /\ queue' \in [CfsProcs -> Seq(CfsCos)] /\ queue'[p] = t
      /\ \A q \in CfsProcs : q # p => queue'[q] = queue[q]
  BY <1>0, <1>1, <1>5 DEF CfsTypeOK
<1>7. DOMAIN s = 1 .. Len(s) /\ DOMAIN t = 1 .. Len(s) + 1
  BY <1>4, <1>5
\* Where a position of the longer queue comes from.
<1>8. \A j \in DOMAIN t : /\ j \in Int
                          /\ j = k => t[j] = c
                          /\ j < k => j \in DOMAIN s /\ t[j] = s[j]
                          /\ j > k => j - 1 \in DOMAIN s /\ t[j] = s[j - 1]
  BY <1>4, <1>5, <1>7
<1>9. /\ \A d : Queued(t, d) <=> Queued(s, d) \/ d = c
      /\ \A q \in CfsProcs : \A d : Queued(queue'[q], d) <=> Queued(queue[q], d) \/ (q = p /\ d = c)
  <2>1. ASSUME NEW d, Queued(t, d)  PROVE Queued(s, d) \/ d = c
    <3>1. PICK j \in DOMAIN t : t[j] = d
      BY <2>1 DEF Queued
    <3> QED  BY <1>4, <1>8, <3>1 DEF Queued
  <2>2. ASSUME NEW d, Queued(s, d)  PROVE Queued(t, d)
    <3>1. PICK i \in 1 .. Len(s) : s[i] = d
      BY <1>7, <2>2 DEF Queued
    <3>2. i < k => i \in DOMAIN t /\ t[i] = d
      BY <1>4, <1>5, <1>7, <3>1
    <3>3. i >= k => i + 1 \in DOMAIN t /\ t[i + 1] = d
      BY <1>4, <1>5, <1>7, <3>1
    <3> QED  BY <1>4, <3>1, <3>2, <3>3 DEF Queued
  <2>3. Queued(t, c)
    BY <1>4, <1>5, <1>7 DEF Queued
  <2>4. \A d : Queued(t, d) <=> Queued(s, d) \/ d = c
    BY <2>1, <2>2, <2>3
  <2> QED  BY <1>6, <2>4
<1>10. /\ hand'[c] = "queue" /\ vruntime'[c] = v /\ allowed'[c] = v - floor[p]
       /\ \A d \in CfsCos : d # c => /\ hand'[d] = hand[d] /\ allowed'[d] = allowed[d]
                                     /\ vruntime'[d] = vruntime[d] /\ weight'[d] = weight[d]
  BY <1>0, <1>1 DEF CfsTypeOK
<1>11. /\ passed' \in [CfsCos -> [CfsCos -> Nat]]
       /\ \A d \in CfsCos : passed'[c][d] = 0
       /\ \A a, d \in CfsCos : a # c => passed'[a][d] = IF d = c /\ ~Queued(s, a) THEN 0 ELSE passed[a][d]
  <2>1. NotPassed \in [CfsCos -> Nat] /\ \A d \in CfsCos : NotPassed[d] = 0
    BY DEF NotPassed
  <2>2. \A a \in CfsCos : passed[a] \in [CfsCos -> Nat]
    BY CfsParts
  <2>3. \A a \in CfsCos : [passed[a] EXCEPT ![c] = 0] \in [CfsCos -> Nat]
    BY <2>2
  <2>4. passed' \in [CfsCos -> [CfsCos -> Nat]]
    BY <1>1, <2>1, <2>2, <2>3
  <2>5. \A d \in CfsCos : passed'[c][d] = 0
    BY <1>1, <2>1
  <2>6. \A a, d \in CfsCos : a # c => passed'[a][d] = IF d = c /\ ~Queued(s, a) THEN 0 ELSE passed[a][d]
    BY <1>1, <2>2
  <2> QED  BY <2>4, <2>5, <2>6
<1>12. CfsTypeOK'
  <2>1. vruntime' \in [CfsCos -> Int] /\ hand' \in [CfsCos -> Hands] /\ allowed' \in [CfsCos -> Int]
    BY <1>0, <1>1, <1>2, <1>3 DEF CfsTypeOK, Hands
  <2>2. NextWeights(c) \subseteq Weights
    BY <1>0, <1>1, CfsConstants DEF CfsTypeOK, NextWeights
  <2>3. weight' \in [CfsCos -> Weights] /\ waiting' \in [CfsCos -> BOOLEAN]
    <3>1. PICK w \in Weights : weight' = [weight EXCEPT ![c] = w]
      BY <1>1, <2>2
    <3> QED  BY <1>0, <1>1, <3>1 DEF CfsTypeOK
  <2> QED  BY <1>0, <1>1, <1>6, <1>11, <2>1, <2>3 DEF CfsTypeOK
<1>13. CfsPlaces'
  <2>1. ASSUME NEW q \in CfsProcs, NEW i \in DOMAIN queue'[q]  PROVE hand'[queue'[q][i]] = "queue"
    <3>1. Queued(queue'[q], queue'[q][i])
      BY <2>1 DEF Queued
    <3>2. CASE queue'[q][i] = c
      BY <1>10, <3>2
    <3>3. CASE queue'[q][i] # c
      <4>1. Queued(queue[q], queue'[q][i])
        BY <1>9, <3>1, <3>3
      <4>2. hand[queue'[q][i]] = "queue" /\ queue'[q][i] \in CfsCos
        BY <4>1, CfsParts
      <4> QED  BY <1>10, <3>3, <4>2
    <3> QED  BY <3>2, <3>3
  <2>2. ASSUME NEW q \in CfsProcs, onCpu'[q] # NoTask  PROVE hand'[onCpu'[q]] = "cpu"
    BY <1>1, <1>2, <1>10, <2>2, CfsParts
  <2>3. \A q, r \in CfsProcs : onCpu'[q] = onCpu'[r] /\ onCpu'[q] # NoTask => q = r
    BY <1>0, <1>1 DEF CfsPlaces
  <2>4. \A q, r \in CfsProcs : \A i \in DOMAIN queue[q], j \in DOMAIN queue[r] :
           queue[q][i] = queue[r][j] => q = r /\ i = j
    BY <1>0 DEF CfsPlaces
  <2>5. ASSUME NEW i \in DOMAIN t, NEW j \in DOMAIN t, t[i] = t[j]  PROVE i = j
    <3>1. \A m \in DOMAIN s : s[m] # c
      BY <1>2 DEF Queued
    <3>2. \A m, n \in DOMAIN s : s[m] = s[n] => m = n
      BY <2>4
    <3>3. i \in Int /\ j \in Int /\ k \in Int
      BY <1>4, <1>8
    <3>4. (i = k <=> t[i] = c) /\ (j = k <=> t[j] = c)
      BY <1>8, <3>1, <3>3
    <3>5. CASE i = k \/ j = k
      BY <2>5, <3>4, <3>5
    <3>6. CASE i < k /\ j < k
      BY <1>8, <2>5, <3>2, <3>6
    <3>7. CASE i > k /\ j > k
      <4>1. i - 1 = j - 1
        BY <1>8, <2>5, <3>2, <3>7
      <4> QED  BY <3>3, <4>1
    <3>8. ASSUME NEW x \in DOMAIN t, NEW y \in DOMAIN t, x < k, y > k, t[x] = t[y]  PROVE FALSE
      <4>1. x = y - 1
        BY <1>8, <3>2, <3>8
      <4>2. x \in Int /\ y \in Int
        BY <1>8
      <4> QED  BY <3>3, <3>8, <4>1, <4>2
    <3> QED  BY <2>5, <3>3, <3>5, <3>6, <3>7, <3>8
  <2>6. ASSUME NEW q \in CfsProcs, NEW r \in CfsProcs, NEW i \in DOMAIN queue'[q], NEW j \in DOMAIN queue'[r],
               queue'[q][i] = queue'[r][j]
        PROVE  q = r /\ i = j
    <3>1. Queued(queue'[q], queue'[q][i]) /\ Queued(queue'[r], queue'[q][i])
      BY <2>6 DEF Queued
    <3>2. q = r
      <4>1. CASE queue'[q][i] = c
        BY <1>2, <1>9, <3>1, <4>1
      <4>2. CASE queue'[q][i] # c
        <5>1. Queued(queue[q], queue'[q][i]) /\ Queued(queue[r], queue'[q][i])
          BY <1>9, <3>1, <4>2
        <5> QED  BY <5>1, CfsParts
      <4> QED  BY <4>1, <4>2
    <3>3. CASE q = p
      BY <1>6, <2>5, <2>6, <3>2, <3>3
    <3>4. CASE q # p
      BY <1>6, <2>4, <2>6, <3>2, <3>4
    <3> QED  BY <3>2, <3>3, <3>4
  <2> QED  BY <2>1, <2>2, <2>3, <2>6 DEF CfsPlaces
<1>14. CfsSorted'
  <2>1. ASSUME NEW q \in CfsProcs, NEW i \in DOMAIN queue[q]
        PROVE  vruntime'[queue[q][i]] = vruntime[queue[q][i]] /\ vruntime[queue[q][i]] \in Int
    <3>1. Queued(queue[q], queue[q][i])
      BY <2>1 DEF Queued
    <3> QED  BY <1>2, <1>10, <3>1, CfsParts
  <2>2. \A q \in CfsProcs : \A i, j \in DOMAIN queue[q] :
           i <= j => vruntime'[queue[q][i]] <= vruntime'[queue[q][j]]
    BY <1>0, <2>1 DEF CfsSorted
  <2>3. /\ \A i \in DOMAIN s : vruntime'[s[i]] \in Int
        /\ \A i \in DOMAIN s : IF i < k THEN vruntime'[s[i]] <= v ELSE vruntime'[s[i]] > v
    BY <1>4, <1>7, <2>1
  <2>4. ASSUME NEW i \in DOMAIN t, NEW j \in DOMAIN t, i <= j
        PROVE  vruntime'[t[i]] <= vruntime'[t[j]]
    <3>1. i \in Int /\ j \in Int /\ k \in Int
      BY <1>4, <1>8
    <3>2. CASE i < k /\ j < k
      BY <1>8, <2>2, <2>4, <3>2
    <3>3. CASE i < k /\ j = k
      BY <1>8, <1>10, <2>3, <3>3
    <3>4. CASE i < k /\ j > k
      <4>1. i \in DOMAIN s /\ j - 1 \in DOMAIN s /\ i <= j - 1 /\ t[i] = s[i] /\ t[j] = s[j - 1]
        BY <1>8, <3>1, <3>4
      <4> QED  BY <2>2, <4>1
    <3>5. CASE i = k /\ j = k
      <4>1. t[i] = c /\ t[j] = c
        BY <1>8, <3>5
      <4> QED  BY <1>3, <1>10, <4>1
    <3>6. CASE i = k /\ j > k
      <4>1. j - 1 \in DOMAIN s /\ ~(j - 1 < k) /\ t[i] = c /\ t[j] = s[j - 1]
        BY <1>8, <3>1, <3>6
      <4> QED  BY <1>3, <1>10, <2>3, <4>1
    <3>7. CASE i > k /\ j > k
      <4>1. i - 1 \in DOMAIN s /\ j - 1 \in DOMAIN s /\ i - 1 <= j - 1 /\ t[i] = s[i - 1] /\ t[j] = s[j - 1]
        BY <1>8, <2>4, <3>1, <3>7
      <4> QED  BY <2>2, <4>1
    <3> QED  BY <2>4, <3>1, <3>2, <3>3, <3>4, <3>5, <3>6, <3>7
  <2>5. ASSUME NEW q \in CfsProcs, NEW i \in DOMAIN queue'[q], NEW j \in DOMAIN queue'[q], i <= j
        PROVE  vruntime'[queue'[q][i]] <= vruntime'[queue'[q][j]]
    <3>1. CASE q = p
      BY <1>6, <2>4, <2>5, <3>1
    <3>2. CASE q # p
      BY <1>6, <2>2, <2>5, <3>2
    <3> QED  BY <3>1, <3>2
  <2> QED  BY <2>5 DEF CfsSorted
<1>15. FloorHeld'
  <2>1. ASSUME NEW q \in CfsProcs, NEW d \in CfsCos, Queued(queue'[q], d) \/ onCpu'[q] = d
        PROVE  vruntime'[d] >= floor'[q]
    <3>1. CASE q = p /\ d = c
      BY <1>1, <1>3, <1>10, <3>1
    <3>2. CASE ~(q = p /\ d = c)
      <4>1. d # c /\ (Queued(queue[q], d) \/ onCpu[q] = d)
        BY <1>1, <1>2, <1>9, <2>1, <3>2
      <4> QED  BY <1>1, <1>10, <4>1 DEF CfsInv, FloorHeld
    <3> QED  BY <3>1, <3>2
  <2>2. ASSUME NEW d \in CfsCos, hand'[d] \in Away  PROVE vruntime'[d] >= 0
    <3>1. d # c
      BY <1>10, <2>2 DEF Away
    <3> QED  BY <1>10, <2>2, <3>1, CfsParts
  <2> QED  BY <2>1, <2>2 DEF FloorHeld
<1>16. PassedPaid'
  <2> SUFFICES ASSUME NEW q \in CfsProcs, NEW a \in CfsCos, NEW d \in CfsCos, Queued(queue'[q], a), a # d
               PROVE  /\ vruntime'[a] - allowed'[a] <= floor'[q]
                      /\ Queued(queue'[q], d) => passed'[a][d] <= vruntime'[d] - (vruntime'[a] - allowed'[a])
                      /\ onCpu'[q] = d =>
                            passed'[a][d] <= vruntime'[d] + RunUnit(weight'[d]) - (vruntime'[a] - allowed'[a])
                      /\ hand'[d] \in Away =>
                            passed'[a][d] <= floor'[q] + vruntime'[d] - (vruntime'[a] - allowed'[a])
                      /\ \A r \in CfsProcs \ {q} : Queued(queue'[r], d) \/ onCpu'[r] = d => passed'[a][d] = 0
    BY DEF PassedPaid
  <2>1. CASE a = c
    <3>1. q = p
      BY <1>2, <1>9, <2>1
    <3>2. vruntime'[a] - allowed'[a] = floor[p] /\ passed'[a][d] = 0 /\ floor' = floor /\ floor[p] \in Nat
      BY <1>1, <1>2, <1>3, <1>10, <1>11, <2>1
    <3>3. d # c /\ vruntime'[d] = vruntime[d] /\ weight'[d] = weight[d] /\ hand'[d] = hand[d]
      BY <1>10, <2>1
    <3>4. vruntime[d] \in Int /\ RunUnit(weight[d]) \in Nat
      BY CfsParts
    <3>5. Queued(queue'[q], d) => vruntime[d] >= floor[p]
      BY <1>9, <3>1, <3>3, CfsParts
    <3>6. onCpu'[q] = d => vruntime[d] >= floor[p]
      BY <1>1, <3>1, CfsParts
    <3>7. hand'[d] \in Away => vruntime[d] >= 0
      BY <3>3, CfsParts
    <3> QED  BY <3>1, <3>2, <3>3, <3>4, <3>5, <3>6, <3>7
  <2>2. CASE a # c
    <3>1. /\ Queued(queue[q], a) /\ vruntime'[a] = vruntime[a] /\ allowed'[a] = allowed[a]
          /\ passed'[a][d] = IF d = c /\ ~Queued(s, a) THEN 0 ELSE passed[a][d]
      BY <1>9, <1>10, <1>11, <2>2
    <3>2. /\ vruntime[a] - allowed[a] <= floor[q]
          /\ Queued(queue[q], d) => passed[a][d] <= vruntime[d] - (vruntime[a] - allowed[a])
          /\ onCpu[q] = d => passed[a][d] <= vruntime[d] + RunUnit(weight[d]) - (vruntime[a] - allowed[a])
          /\ hand[d] \in Away => passed[a][d] <= floor[q] + vruntime[d] - (vruntime[a] - allowed[a])
          /\ \A r \in CfsProcs \ {q} : Queued(queue[r], d) \/ onCpu[r] = d => passed[a][d] = 0
      BY <3>1 DEF CfsInv, PassedPaid
    <3>3. Queued(s, a) <=> q = p
      BY <3>1, CfsParts
    <3>4. CASE d # c
      <4>1. /\ vruntime'[d] = vruntime[d] /\ weight'[d] = weight[d] /\ hand'[d] = hand[d]
            /\ passed'[a][d] = passed[a][d] /\ \A r \in CfsProcs : Queued(queue'[r], d) <=> Queued(queue[r], d)
        BY <1>9, <1>10, <3>1, <3>4
      <4> QED  BY <1>1, <3>1, <3>2, <4>1
    <3>5. CASE d = c
      <4>1. /\ hand'[d] \notin Away /\ \A r \in CfsProcs : onCpu'[r] # d /\ (Queued(queue'[r], d) => r = p)
        BY <1>1, <1>2, <1>9, <1>10, <3>5 DEF Away
      <4>2. CASE q = p
        <5>1. passed'[a][d] <= floor[q] + vruntime[d] - (vruntime[a] - allowed[a])
          BY <1>2, <3>1, <3>2, <3>3, <3>5, <4>2
        <5>2. vruntime'[d] = floor[q] + vruntime[d] /\ floor[q] \in Int /\ vruntime[d] \in Int
              /\ vruntime[a] \in Int /\ allowed[a] \in Int /\ passed'[a][d] \in Int
          BY <1>2, <1>3, <1>10, <1>11, <3>5, <4>2, CfsParts
        <5>3. passed'[a][d] <= vruntime'[d] - (vruntime[a] - allowed[a])
          BY <5>1, <5>2
        <5> QED  BY <1>1, <3>1, <3>2, <4>1, <4>2, <5>3
      <4>3. CASE q # p
        <5>1. passed'[a][d] = 0
          BY <3>1, <3>3, <3>5, <4>3
        <5> QED  BY <1>1, <3>1, <3>2, <4>1, <4>3, <5>1
      <4> QED  BY <4>2, <4>3
    <3> QED  BY <3>4, <3>5
  <2> QED  BY <2>1, <2>2
<1>17. OvertakingBounded'
  <2> SUFFICES ASSUME NEW a \in CfsCos, NEW d \in CfsCos, hand'[a] = "queue"
               PROVE  passed'[a][d] <= allowed'[a] + Unit
    BY DEF OvertakingBounded
  <2>1. Unit \in Nat /\ passed[a][d] \in Nat /\ allowed[a] \in Int
    BY CfsParts, CfsConstants
  <2>2. CASE a = c
    BY <1>2, <1>3, <1>10, <1>11, <2>1, <2>2
  <2>3. CASE a # c
    <3>1. passed[a][d] <= allowed[a] + Unit /\ allowed'[a] = allowed[a]
      BY <1>10, <2>3 DEF CfsInv, OvertakingBounded
    <3>2. passed'[a][d] = 0 \/ passed'[a][d] = passed[a][d]
      BY <1>11, <2>3
    <3> QED  BY <2>1, <3>1, <3>2
  <2> QED  BY <2>2, <2>3
<1> QED  BY <1>12, <1>13, <1>14, <1>15, <1>16, <1>17 DEF CfsInv

\* Every behaviour of the run queues keeps the strengthened invariant.
LEMMA CfsInvariance ==
    CfsInit /\ [][CfsNext]_cfsVars => []CfsInv
<1>1. CfsInit => CfsInv
  <2> SUFFICES ASSUME CfsInit  PROVE CfsInv
    OBVIOUS
  <2>1. CfsTypeOK
    BY CfsAssumption, EmptySeq DEF CfsAssumption, CfsTypeOK, CfsInit, NotPassed, Hands
  <2>2. \A p \in CfsProcs : queue[p] = <<>> /\ DOMAIN queue[p] = {} /\ onCpu[p] = NoTask /\ \A c : ~Queued(queue[p], c)
    BY DEF CfsInit, Queued
  <2>3. \A c \in CfsCos : hand[c] = "new" /\ vruntime[c] = 0
    BY DEF CfsInit
  <2>4. CfsPlaces /\ CfsSorted /\ PassedPaid /\ OvertakingBounded
    BY <2>2, <2>3 DEF CfsPlaces, CfsSorted, PassedPaid, OvertakingBounded
  <2>5. FloorHeld
    BY <2>2, <2>3, CfsConstants, CfsAssumption DEF FloorHeld
  <2> QED  BY <2>1, <2>4, <2>5 DEF CfsInv
<1>2. CfsInv /\ [CfsNext]_cfsVars => CfsInv'
  <2> SUFFICES ASSUME CfsInv, [CfsNext]_cfsVars  PROVE CfsInv'
    OBVIOUS
  <2>1. ASSUME NEW p \in CfsProcs, NEW c \in CfsCos, CfsEnqueue(p, c)  PROVE CfsInv'
    BY <2>1, CfsAssumption, EnqueueKeepsShares
  <2>2. ASSUME NEW p \in CfsProcs, CfsPick(p)  PROVE CfsInv'
    BY <2>2, CfsAssumption, PickKeepsShares
  <2>3. ASSUME NEW p \in CfsProcs, NEW e \in Elapsed, NEW n \in {"ready", "parked", "final"}, Account(p, e, n)
        PROVE  CfsInv'
    BY <2>3, CfsAssumption, AccountKeepsShares
  <2>4. ASSUME NEW p \in CfsProcs, CfsTake(p)  PROVE CfsInv'
    BY <2>4, CfsAssumption, TakeKeepsShares
  <2>5. CASE UNCHANGED cfsVars
    BY <2>5 DEF CfsInv, CfsTypeOK, CfsPlaces, CfsSorted, FloorHeld, PassedPaid, OvertakingBounded, Queued, cfsVars
  <2> QED  BY <2>1, <2>2, <2>3, <2>4, <2>5 DEF CfsNext
<1> QED  BY <1>1, <1>2, PTL

\* The run queue is fair (CfsRunQueue::Enqueue, Pick, Account, Take): whoever is
\* queued is passed by each other one only as long as its own debt lasts, and
\* nobody carries credit, for every number of coroutines and processors, every
\* set of weights and every length of a run.
THEOREM FairShareHolds ==
    CfsInit /\ [][CfsNext]_cfsVars => []FairShare
<1>1. CfsInv => FairShare
  <2> SUFFICES ASSUME CfsInv  PROVE FairShare
    OBVIOUS
  <2>1. \A p \in CfsProcs : \A i \in DOMAIN queue[p] : vruntime[queue[p][i]] >= floor[p]
    BY CfsAssumption, CfsParts DEF Queued
  <2>2. \A c \in CfsCos : hand[c] \in {"ready", "taken", "parked"} => vruntime[c] >= 0
    BY CfsAssumption, CfsParts DEF Away
  <2> QED  BY <2>1, <2>2 DEF FairShare, CfsInv, NoCredit
<1> QED  BY <1>1, CfsInvariance, PTL
=============================================================================
