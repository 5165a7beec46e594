------------------------------- MODULE IoProofs -------------------------------
(***************************************************************************)
(* The safety of the event loop's events, of the hooked system calls and   *)
(* their timeouts, of poll, of the name resolver, of the stall report and  *)
(* of the stack pool, for any number of coroutines, descriptors, rounds,   *)
(* calls and stacks.                                                       *)
(***************************************************************************)
EXTENDS Event, HookIo, HookPoll, HookTime, DnsResolver, WorkerStall, StackPool, FiniteSetTheorems,
        FunctionTheorems, SequenceTheorems, WellFoundedInduction, TLAPS

-----------------------------------------------------------------------------
(* Event.                                                                   *)

Listens == [fd : SUBSET {"read", "write"}, timer : BOOLEAN, persist : BOOLEAN]
Handlers == [at : {"idle", "checked", "copied", "ran"}, source : WaitKinds \cup {"custom"},
             round : 0 .. MaxRounds]

EventTypes ==
    /\ EventTypeOK /\ listens \in Listens /\ handler \in Handlers
    /\ dupFd \in BOOLEAN /\ objects \in BOOLEAN /\ registered \in BOOLEAN
    /\ ended \in BOOLEAN /\ late \in BOOLEAN
    /\ handler.at # "idle" /\ handler.source # "custom" => handler.round # 0

\* Nothing happens to an event that has not been constructed.
Unborn ==
    life \in {"new", "failed"} =>
        /\ round = 0 /\ armed = {} /\ completed = {} /\ handler.at = "idle"
        /\ \A r \in 0 .. MaxRounds : posts[r] = 0

\* A handler of an older round was past its check when the round ended, or will
\* find no callback to copy.
StaleExcused ==
    /\ handler.at = "copied" /\ handler.round # round => excused
    /\ handler.at = "checked" /\ handler.round # round => excused \/ ~registered

EventInv == EventTypes /\ Unborn /\ StaleExcused /\ NoLateDelivery /\ DupAccounted /\ PersistKeepsWaiting

\* What the assumption on the constants gives.
LEMMA EventConstants == MaxRounds \in Nat /\ MaxRounds > 0 /\ MaxPosts \in Nat /\ 0 \in 0 .. MaxRounds
BY EventAssumption DEF EventAssumption

\* Every step keeps the types.
LEMMA EventTypesStep ==
    ASSUME EventInv, EventNext
    PROVE  EventTypes'
<1> USE EventConstants
<1>1. /\ EventTypes /\ EventTypeOK /\ round \in 0 .. MaxRounds
      /\ listens.fd \in SUBSET {"read", "write"} /\ handler \in Handlers
  BY DEF EventInv, EventTypes, EventTypeOK, Listens
<1> USE DEF evVars, asioVars, evHist
<1>2. CASE ConstructEvent
  BY <1>1, <1>2 DEF ConstructEvent, DupAfterFailure, EventTypes, EventTypeOK
<1>3. ASSUME NEW timed \in BOOLEAN, StartListen(timed) PROVE EventTypes'
  <2>1. round' \in 0 .. MaxRounds /\ round + 1 \in 1 .. MaxRounds
    BY <1>1, <1>3 DEF StartListen
  <2>2. armed' \subseteq WaitKinds \X (1 .. MaxRounds)
    BY <1>1, <1>3, <2>1 DEF StartListen, Arming, WaitKinds
  <2>3. ended' \in BOOLEAN
    BY <1>3 DEF StartListen
  <2>4. UNCHANGED <<listens, life, dupFd, objects, registered, completed, posts, inPoll, handler, late>>
    BY <1>3 DEF StartListen
  <2> QED  BY <1>1, <2>1, <2>2, <2>3, <2>4 DEF EventTypes, EventTypeOK
<1>4. CASE TriggerEvent
  <2>1. posts' \in [0 .. MaxRounds -> 0 .. MaxPosts]
    BY <1>1, <1>4 DEF TriggerEvent, EventTypeOK
  <2> QED  BY <1>1, <1>4, <2>1 DEF TriggerEvent, EventTypes, EventTypeOK
<1>5. CASE UserCancels \/ FlushDeferredEvents
  <2>1. CancelListen /\ life' \in {"held", "destroyed"}
    BY <1>5 DEF UserCancels, FlushDeferredEvents
  <2>2. armed' = {} /\ objects' = FALSE /\ dupFd' = FALSE /\ ended' = TRUE
    BY <2>1 DEF CancelListen
  <2>4. round' \in 0 .. MaxRounds
    BY <1>1, <2>1 DEF CancelListen
  <2>3. UNCHANGED <<listens, registered, completed, posts, inPoll, handler, late>>
    BY <2>1 DEF CancelListen
  <2> QED  BY <1>1, <2>1, <2>2, <2>3, <2>4 DEF EventTypes, EventTypeOK
<1>6. CASE TakeEventCallback
  BY <1>1, <1>6 DEF TakeEventCallback, EventTypes, EventTypeOK
<1>7. ASSUME NEW w \in WaitKinds \X (1 .. MaxRounds), Completes(w) PROVE EventTypes'
  BY <1>1, <1>7 DEF Completes, EventTypes, EventTypeOK
<1>8. ASSUME NEW w \in WaitKinds \X (1 .. MaxRounds), OnWaitCompleted(w) PROVE EventTypes'
  <2>1. w[1] \in WaitKinds /\ w[2] \in 1 .. MaxRounds /\ w[2] # 0 /\ w[2] \in 0 .. MaxRounds
    OBVIOUS
  <2>2. handler' \in Handlers /\ (handler'.at # "idle" => inPoll /\ handler'.round # 0)
    BY <1>1, <1>8, <2>1 DEF OnWaitCompleted, Handlers
  <2>3. armed' \subseteq armed /\ completed' \subseteq completed
    BY <1>8 DEF OnWaitCompleted, EndsOther
  <2>4. ended' \in BOOLEAN
    BY <1>1, <1>8 DEF OnWaitCompleted, EventTypes
  <2>5. /\ UNCHANGED <<listens, life, dupFd, objects, registered, round, posts, inPoll, late>>
        /\ inPoll
    BY <1>8 DEF OnWaitCompleted
  <2>6. handler'.at \in {"idle", "checked", "copied", "ran"}
    BY <2>2 DEF Handlers
  <2> QED  BY <1>1, <2>2, <2>3, <2>4, <2>5, <2>6 DEF EventTypes, EventTypeOK
<1>9. ASSUME NEW r \in 0 .. MaxRounds, OnCustomTriggered(r) PROVE EventTypes'
  <2>1. posts' \in [0 .. MaxRounds -> 0 .. MaxPosts]
    BY <1>1, <1>9 DEF OnCustomTriggered, EventTypeOK
  <2>2. handler' \in Handlers /\ (handler'.at # "idle" => handler'.source = "custom")
    BY <1>1, <1>9 DEF OnCustomTriggered, Handlers
  <2>3. handler'.at \in {"idle", "checked", "copied", "ran"}
    BY <2>2 DEF Handlers
  <2> QED  BY <1>1, <1>9, <2>1, <2>2, <2>3 DEF OnCustomTriggered, EventTypes, EventTypeOK
<1>10. CASE CopyCallback \/ RunCallback
  <2>1. /\ handler' \in Handlers /\ handler'.source = handler.source /\ handler'.round = handler.round
        /\ handler'.at \in {"copied", "ran"} /\ handler.at # "idle"
    BY <1>1, <1>10 DEF CopyCallback, RunCallback, Handlers
  <2>2. UNCHANGED <<listens, life, asioVars, round, taking, inPoll, ended, excused>> /\ late' \in BOOLEAN
    BY <1>1, <1>10 DEF CopyCallback, RunCallback, EventTypes
  <2> QED  BY <1>1, <2>1, <2>2 DEF EventTypes, EventTypeOK
<1>11. CASE HandlerEnds
  <2>1. handler' = Idle /\ Idle \in Handlers /\ Idle.at = "idle"
    BY <1>11 DEF HandlerEnds, Idle, Handlers, WaitKinds
  <2>2. Again => handler.source \in {"read", "write"} /\ round \in 1 .. MaxRounds
    BY <1>1, <1>11 DEF Again, EventTypes, HandlerEnds
  <2>3. armed' \subseteq WaitKinds \X (1 .. MaxRounds)
    BY <1>1, <1>11, <2>2 DEF HandlerEnds, EventTypeOK, WaitKinds
  <2> QED  BY <1>1, <1>11, <2>1, <2>3 DEF HandlerEnds, EventTypes, EventTypeOK
<1>12. CASE DeferDestroyEvent \/ PollOnce \/ PollEnds
  BY <1>1, <1>12 DEF DeferDestroyEvent, PollOnce, PollEnds, EventTypes, EventTypeOK
<1> QED  BY <1>2, <1>3, <1>4, <1>5, <1>6, <1>7, <1>8, <1>9, <1>10, <1>11, <1>12 DEF EventNext

\* A handler of an ended round stays excused, and duplicates stay accounted for.
LEMMA EventStaleStep ==
    ASSUME EventInv, EventNext
    PROVE  StaleExcused' /\ NoLateDelivery' /\ Unborn' /\ DupAccounted'
<1> USE EventConstants DEF evVars, asioVars, evHist, StaleExcused, NoLateDelivery, Unborn, DupAccounted
<1>1. /\ EventTypes /\ StaleExcused /\ NoLateDelivery /\ Unborn /\ DupAccounted
      /\ round \in 0 .. MaxRounds /\ handler \in Handlers /\ posts \in [0 .. MaxRounds -> 0 .. MaxPosts]
  BY DEF EventInv, EventTypes, EventTypeOK
<1>2. CASE ConstructEvent
  BY <1>1, <1>2 DEF ConstructEvent, DupAfterFailure
<1>3. ASSUME NEW timed \in BOOLEAN, StartListen(timed)
      PROVE StaleExcused' /\ NoLateDelivery' /\ Unborn' /\ DupAccounted'
  BY <1>1, <1>3 DEF StartListen
<1>4. CASE TriggerEvent
  BY <1>1, <1>4 DEF TriggerEvent
<1>5. CASE UserCancels \/ FlushDeferredEvents
  <2>1. CancelListen /\ life' \in {"held", "destroyed"}
    BY <1>5 DEF UserCancels, FlushDeferredEvents
  <2>2. StaleExcused' /\ NoLateDelivery'
    BY <1>1, <2>1 DEF CancelListen
  <2>3. Unborn' /\ DupAccounted'
    BY <2>1 DEF CancelListen
  <2> QED  BY <2>2, <2>3
<1>6. CASE TakeEventCallback
  BY <1>1, <1>6 DEF TakeEventCallback
<1>7. ASSUME NEW w \in WaitKinds \X (1 .. MaxRounds), Completes(w)
      PROVE StaleExcused' /\ NoLateDelivery' /\ Unborn' /\ DupAccounted'
  BY <1>1, <1>7 DEF Completes
<1>8. ASSUME NEW w \in WaitKinds \X (1 .. MaxRounds), OnWaitCompleted(w)
      PROVE StaleExcused' /\ NoLateDelivery' /\ Unborn' /\ DupAccounted'
  BY <1>1, <1>8 DEF OnWaitCompleted, Current
<1>9. ASSUME NEW r \in 0 .. MaxRounds, OnCustomTriggered(r)
      PROVE StaleExcused' /\ NoLateDelivery' /\ Unborn' /\ DupAccounted'
  BY <1>1, <1>9 DEF OnCustomTriggered
<1>10. CASE CopyCallback
  <2>1. /\ handler'.round = handler.round /\ handler.at = "checked"
        /\ handler'.at = IF registered THEN "copied" ELSE "ran"
    BY <1>1, <1>10 DEF CopyCallback, Handlers
  <2> QED  BY <1>1, <1>10, <2>1 DEF CopyCallback
<1>11. CASE RunCallback
  <2>1. handler'.at = "ran" /\ handler.at = "copied"
    BY <1>1, <1>11 DEF RunCallback, Handlers
  <2> QED  BY <1>1, <1>11, <2>1 DEF RunCallback
<1>12. CASE HandlerEnds
  BY <1>1, <1>12 DEF HandlerEnds, Idle
<1>13. CASE DeferDestroyEvent \/ PollOnce \/ PollEnds
  BY <1>1, <1>13 DEF DeferDestroyEvent, PollOnce, PollEnds
<1> QED  BY <1>2, <1>3, <1>4, <1>5, <1>6, <1>7, <1>8, <1>9, <1>10, <1>11, <1>12, <1>13 DEF EventNext

\* A persistent event is armed again before its handler is gone.
LEMMA EventPersistStep ==
    ASSUME EventInv, EventNext
    PROVE  PersistKeepsWaiting'
<1> USE EventConstants DEF evVars, asioVars, evHist, PersistKeepsWaiting
<1>1. /\ EventTypes /\ PersistKeepsWaiting /\ Unborn /\ handler \in Handlers
      /\ listens.fd \in SUBSET {"read", "write"} /\ round \in 0 .. MaxRounds
  BY DEF EventInv, EventTypes, EventTypeOK, Listens
<1>2. CASE ConstructEvent
  BY <1>1, <1>2 DEF ConstructEvent, Unborn
<1>3. ASSUME NEW timed \in BOOLEAN, StartListen(timed) PROVE PersistKeepsWaiting'
  BY <1>1, <1>3 DEF StartListen, Arming
<1>4. CASE TriggerEvent
  BY <1>1, <1>4 DEF TriggerEvent
<1>5. CASE UserCancels \/ FlushDeferredEvents
  BY <1>1, <1>5 DEF UserCancels, FlushDeferredEvents, CancelListen
<1>6. CASE TakeEventCallback
  BY <1>1, <1>6 DEF TakeEventCallback
<1>7. ASSUME NEW w \in WaitKinds \X (1 .. MaxRounds), Completes(w) PROVE PersistKeepsWaiting'
  BY <1>1, <1>7 DEF Completes
<1>8. ASSUME NEW w \in WaitKinds \X (1 .. MaxRounds), OnWaitCompleted(w) PROVE PersistKeepsWaiting'
  <2>1. CASE Current(w) /\ life # "destroyed"
    <3>1. /\ handler' = [at |-> "checked", source |-> w[1], round |-> w[2]] /\ w[2] = round
          /\ completed' = completed \ {w} /\ handler.at = "idle"
          /\ armed' = EndsOther(w) /\ ended' = (ended \/ w[1] = "timer")
          /\ UNCHANGED <<listens, life, objects, round>>
      BY <1>8, <2>1 DEF OnWaitCompleted, Current
    <3>2. CASE w[1] = "timer"
      BY <3>1, <3>2
    <3>3. CASE w[1] # "timer"
      <4> SUFFICES ASSUME life = "held", listens.persist, objects, round > 0, ~ended, NEW s \in listens.fd
                   PROVE  \/ <<s, round>> \in armed' \cup completed'
                          \/ handler'.at # "idle" /\ handler'.source = s /\ handler'.round = round
        BY <3>1, <3>3
      <4>1. <<s, round>> \in armed \cup completed /\ s # "timer"
        BY <1>1, <3>1
      <4>2. CASE <<s, round>> \in armed
        BY <3>1, <3>3, <4>1, <4>2 DEF EndsOther
      <4>3. CASE <<s, round>> \in completed
        <5>1. CASE <<s, round>> = w
          BY <3>1, <5>1
        <5>2. CASE <<s, round>> # w
          BY <3>1, <4>3, <5>2
        <5> QED  BY <5>1, <5>2
      <4> QED  BY <4>1, <4>2, <4>3
    <3> QED  BY <3>2, <3>3
  <2>2. CASE ~(Current(w) /\ life # "destroyed")
    <3>1. /\ completed' = completed \ {w}
          /\ UNCHANGED <<listens, life, objects, round, handler, armed, ended>>
      BY <1>8, <2>2 DEF OnWaitCompleted
    <3>2. life = "held" /\ objects => \A s \in listens.fd : w # <<s, round>>
      BY <2>2 DEF Current
    <3> QED  BY <1>1, <3>1, <3>2
  <2> QED  BY <2>1, <2>2
<1>9. ASSUME NEW r \in 0 .. MaxRounds, OnCustomTriggered(r) PROVE PersistKeepsWaiting'
  BY <1>1, <1>9 DEF OnCustomTriggered
<1>10. CASE CopyCallback \/ RunCallback
  <2>1. /\ handler'.source = handler.source /\ handler'.round = handler.round
        /\ handler'.at # "idle" /\ handler.at # "idle"
    BY <1>1, <1>10 DEF CopyCallback, RunCallback, Handlers
  <2>2. UNCHANGED <<listens, life, objects, round, armed, completed, ended>>
    BY <1>10 DEF CopyCallback, RunCallback
  <2> QED  BY <1>1, <2>1, <2>2
<1>11. CASE HandlerEnds
  BY <1>1, <1>11 DEF HandlerEnds, Again
<1>12. CASE DeferDestroyEvent \/ PollOnce \/ PollEnds
  BY <1>1, <1>12 DEF DeferDestroyEvent, PollOnce, PollEnds
<1> QED  BY <1>2, <1>3, <1>4, <1>5, <1>6, <1>7, <1>8, <1>9, <1>10, <1>11, <1>12 DEF EventNext

\* Callbacks of ended rounds are not delivered, no duplicate of a descriptor is left behind
\* and a persistent event goes on waiting (Event::StartListen, CancelListen,
\* OnFdWaitCompleted), for any number of rounds and triggers.
THEOREM EventSoundHolds == EventSpec => []EventSound
<1>1. EventInit => EventInv
  <2> SUFFICES ASSUME EventInit PROVE EventInv
    OBVIOUS
  <2>1. EventTypes
    <3>1. handler \in Handlers /\ handler.at = "idle"
      BY EventConstants DEF EventInit, Idle, Handlers, WaitKinds
    <3>2. posts \in [0 .. MaxRounds -> 0 .. MaxPosts]
      BY EventConstants DEF EventInit
    <3> QED  BY EventConstants, <3>1, <3>2 DEF EventInit, EventTypes, EventTypeOK, Listens
  <2>2. Unborn /\ StaleExcused /\ NoLateDelivery /\ DupAccounted /\ PersistKeepsWaiting
    BY EventConstants
       DEF EventInit, Unborn, StaleExcused, NoLateDelivery, DupAccounted, PersistKeepsWaiting, Idle
  <2> QED  BY <2>1, <2>2 DEF EventInv
<1>2. EventInv /\ [EventNext]_evVars => EventInv'
  <2>1. EventInv /\ EventNext => EventInv'
    BY EventTypesStep, EventStaleStep, EventPersistStep DEF EventInv
  <2>2. EventInv /\ UNCHANGED evVars => EventInv'
    BY DEF EventInv, evVars, asioVars, evHist, EventTypes, EventTypeOK, Unborn, StaleExcused,
           NoLateDelivery, DupAccounted, PersistKeepsWaiting
  <2> QED  BY <2>1, <2>2
<1>3. EventInv => EventSound
  BY DEF EventInv, EventTypes, EventSound
<1> QED  BY <1>1, <1>2, <1>3, PTL DEF EventSpec

-----------------------------------------------------------------------------
(* HookPoll.                                                                *)

\* What a sleeping call gathers is what it is interested in.
Watching ==
    /\ pollPc \in {"begin", "watch"} => watched = {}
    /\ pollPc = "wait" => watched = Gathered

\* A call that was woken has its reason, or had it taken away.
WokenFor ==
    pollPc = "woken" =>
        timedOut \/ pollCancelled \/ NothingToWaitFor \/ taken \/ Ready # {}

PollInv ==
    /\ PollTypeOK /\ pollArgs \in {"poll", "select"} \X {"zero", "some", "none"}
    /\ Watching /\ WokenFor /\ PollNotEarly

\* The sets poll counts are finite.
LEMMA EntriesFinite == IsFiniteSet(PollFds) /\ IsFiniteSet(Entries) /\ IsFiniteSet(Ready)
<1>1. Entries \subseteq PollFds /\ Ready \subseteq PollFds
  BY DEF Entries, Ready
<1> QED  BY <1>1, HookPollAssumption, FS_Subset DEF HookPollAssumption

\* What the call would report counts as something.
LEMMA ZeroReported ==
    ASSUME PollTypeOK, Reported = 0
    PROVE  Ready = {}
<1> DEFINE Reads == {f \in Entries : Revents(f) \cap {"IN", "HUP"} # {}}
           Writes == {f \in Entries : Revents(f) \cap {"OUT", "HUP"} # {}}
<1>1. IsFiniteSet(Reads) /\ IsFiniteSet(Writes) /\ IsFiniteSet(Ready)
  BY EntriesFinite, FS_Subset
<1>2. Cardinality(Reads) \in Nat /\ Cardinality(Writes) \in Nat
  BY <1>1, FS_CardinalityType
<1>3. CASE pollArgs[1] = "poll"
  BY <1>1, <1>3, FS_EmptySet DEF Reported
<1>4. CASE pollArgs[1] # "poll"
  <2>1. Cardinality(Reads) = 0 /\ Cardinality(Writes) = 0
    <3>1. Cardinality(Reads) + Cardinality(Writes) = 0
      BY <1>4 DEF Reported
    <3> HIDE DEF Reads, Writes
    <3> QED  BY <1>2, <3>1
  <2>2. Reads = {} /\ Writes = {}
    BY <1>1, <2>1, FS_EmptySet
  <2>3. \A f \in Entries : Revents(f) \subseteq {"IN", "OUT", "HUP"}
    BY DEF PollTypeOK, Revents, Entries
  <2> QED  BY <2>2, <2>3 DEF Ready
<1> QED  BY <1>3, <1>4

\* Whatever somebody is interested in and epoll takes is gathered.
LEMMA GatheredHas ==
    ASSUME NEW f \in Entries \ Unwatchable, interest[f] # {}, NEW e \in interest[f] \cup {"HUP"},
           PollTypeOK
    PROVE  <<f, e>> \in Gathered
<1>1. f \in PollFds /\ e \in {"IN", "OUT", "HUP"}
  BY DEF PollTypeOK, Entries
<1> QED  BY <1>1 DEF Gathered

\* When nothing is gathered there is nothing epoll could wake the call for.
LEMMA NothingGathered ==
    ASSUME PollTypeOK, Gathered = {}
    PROVE  NothingToWaitFor
<1> SUFFICES ASSUME NEW f \in Entries, interest[f] # {}, f \notin Unwatchable
             PROVE  FALSE
  BY DEF NothingToWaitFor
<1> QED  BY GatheredHas

\* An epoll descriptor is readable for something that would be reported.
LEMMA ReadableReady ==
    ASSUME PollTypeOK, watched = Gathered, EpReadable
    PROVE  Ready # {}
<1>1. PICK w \in Gathered : w[2] \in events[w[1]]
  BY DEF EpReadable
<1>2. w[1] \in Entries /\ w[2] \in interest[w[1]] \cup {"HUP"}
  BY DEF Gathered
<1>3. w[2] \in Revents(w[1])
  BY <1>1, <1>2 DEF Revents
<1> QED  BY <1>2, <1>3 DEF Ready

\* The invariant says that a sleeping call sleeps through nothing.
LEMMA PollAwakeHolds ==
    ASSUME PollInv
    PROVE  PollAwake
<1> SUFFICES ASSUME pollPc = "wait", NEW f \in Entries \ Unwatchable, interest[f] # {}, Revents(f) # {}
             PROVE  EpReadable
  BY DEF PollAwake
<1>1. PICK e \in events[f] : e \in interest[f] \cup {"HUP"}
  BY DEF Revents
<1>2. <<f, e>> \in watched
  BY <1>1, GatheredHas DEF PollInv, Watching
<1>3. <<f, e>>[2] \in events[<<f, e>>[1]]
  BY <1>1
<1> QED  BY <1>2, <1>3 DEF EpReadable

\* The entries, what is gathered and what it means do not change during a call.
LEMMA PollFrame ==
    ASSUME UNCHANGED <<interest, pollArgs>>
    PROVE  /\ Entries' = Entries /\ Gathered' = Gathered /\ NothingToWaitFor' = NothingToWaitFor
           /\ (UNCHANGED events => Ready' = Ready /\ Reported' = Reported)
<1>1. Entries' = Entries
  BY DEF Entries
<1>2. Gathered' = Gathered /\ NothingToWaitFor' = NothingToWaitFor
  BY <1>1 DEF Gathered, NothingToWaitFor
<1>3. ASSUME UNCHANGED events PROVE Ready' = Ready /\ Reported' = Reported
  <2>1. \A f : Revents(f)' = Revents(f)
    BY <1>3 DEF Revents
  <2>2. Ready' = Ready
    BY <1>1, <2>1 DEF Ready
  <2> QED  BY <1>1, <1>3, <2>2 DEF Reported, Revents
<1> QED  BY <1>1, <1>2, <1>3

\* Every step of poll and select, and of the descriptors they watch.
LEMMA PollStep ==
    ASSUME PollInv, PollNext
    PROVE  PollInv'
<1>1. /\ PollTypeOK /\ Watching /\ WokenFor /\ PollNotEarly
      /\ pollArgs[2] \in {"zero", "some", "none"}
  BY DEF PollInv
<1>2. UNCHANGED <<interest, pollArgs>>
  BY DEF PollNext, FirstLook, BeginSleep, BeginWatch, Watch, Wake, SecondLook, Happen, Withdraw,
         PollTimer, PollCancel
<1>3. Entries' = Entries /\ Gathered' = Gathered /\ NothingToWaitFor' = NothingToWaitFor
  BY <1>2, PollFrame
<1>4. Gathered \subseteq PollFds \X {"IN", "OUT", "HUP"}
  BY DEF Gathered, Entries
<1>5. CASE FirstLook
  <2>1. /\ pollPc' = "returned" /\ watched' = {} /\ UNCHANGED <<events, interest, timedOut, pollCancelled, taken>>
        /\ Ready # {} \/ pollArgs[2] = "zero" \/ Entries = {}
        /\ pollResult' = IF Ready = {} /\ pollArgs[2] = "some" THEN -1 ELSE Reported
    BY <1>5 DEF FirstLook, PollReturn
  <2>2. PollNotEarly'
    <3> SUFFICES ASSUME pollResult' = 0 PROVE pollArgs[2] = "zero" \/ NothingToWaitFor
      BY <1>2, <1>3, <2>1 DEF PollNotEarly
    <3>1. Reported = 0
      BY <2>1
    <3>2. Ready = {}
      BY <1>1, <3>1, ZeroReported
    <3> QED  BY <2>1, <3>2 DEF NothingToWaitFor
  <2> QED  BY <1>1, <1>2, <2>1, <2>2 DEF PollInv, PollTypeOK, Watching, WokenFor
<1>6. CASE BeginSleep
  <2>1. pollPc = "begin" /\ Entries = {} /\ pollPc' = "wait" /\ UNCHANGED <<events, interest, watched>>
    BY <1>6 DEF BeginSleep
  <2>2. Gathered = {}
    BY <2>1 DEF Gathered
  <2> QED  BY <1>1, <1>2, <1>3, <2>1, <2>2 DEF PollInv, PollTypeOK, Watching, WokenFor, PollNotEarly
<1>7. CASE BeginWatch
  BY <1>1, <1>2, <1>7 DEF BeginWatch, PollInv, PollTypeOK, Watching, WokenFor, PollNotEarly
<1>8. CASE Watch
  <2>0. UNCHANGED <<events, interest, timedOut, pollCancelled, taken>>
    BY <1>8 DEF Watch
  <2>1. CASE pollPc' = "wait" /\ watched' = Gathered
    BY <1>1, <1>2, <1>3, <1>4, <2>0, <2>1 DEF PollInv, PollTypeOK, Watching, WokenFor, PollNotEarly
  <2>2. CASE PollReturn(-1)
    BY <1>1, <1>2, <2>0, <2>2 DEF PollReturn, PollInv, PollTypeOK, Watching, WokenFor, PollNotEarly
  <2>3. CASE Gathered = {} /\ pollPc' = "woken" /\ UNCHANGED watched
    <3>1. NothingToWaitFor'
      BY <1>1, <1>3, <2>3, NothingGathered
    <3> QED  BY <1>1, <1>2, <2>0, <2>3, <3>1 DEF PollInv, PollTypeOK, Watching, WokenFor, PollNotEarly
  <2> QED  BY <1>8, <2>1, <2>2, <2>3 DEF Watch
<1>9. CASE Wake
  <2>1. /\ pollPc = "wait" /\ pollPc' = "woken" /\ (EpReadable \/ timedOut \/ pollCancelled)
        /\ UNCHANGED <<events, watched, timedOut, pollCancelled>>
    BY <1>9 DEF Wake
  <2>2. timedOut \/ pollCancelled \/ Ready # {}
    BY <1>1, <2>1, ReadableReady DEF Watching
  <2>3. Ready' = Ready
    BY <1>2, <2>1, PollFrame
  <2> QED  BY <1>1, <1>2, <2>1, <2>2, <2>3 DEF PollInv, PollTypeOK, Watching, WokenFor, PollNotEarly
<1>10. CASE SecondLook
  <2>1. /\ pollPc = "woken" /\ pollPc' = "returned" /\ pollResult' = Reported /\ watched' = {}
        /\ UNCHANGED <<events, timedOut, pollCancelled, taken>>
    BY <1>10 DEF SecondLook, PollReturn
  <2>2. pollResult' = 0 => Ready = {}
    BY <1>1, <2>1, ZeroReported
  <2> QED  BY <1>1, <1>2, <1>3, <2>1, <2>2 DEF PollInv, PollTypeOK, Watching, WokenFor, PollNotEarly
<1>11. ASSUME NEW f \in PollFds, NEW e \in {"IN", "OUT", "HUP"}, Happen(f, e) PROVE PollInv'
  <2>1. /\ events' = [events EXCEPT ![f] = @ \cup {e}] /\ pollPc # "returned"
        /\ UNCHANGED <<interest, pollPc, watched, timedOut, pollCancelled, pollResult, taken>>
    BY <1>11 DEF Happen
  <2>2. events' \in [PollFds -> SUBSET {"IN", "OUT", "HUP"}]
    BY <1>1, <2>1 DEF PollTypeOK
  <2>3. Ready # {} => Ready' # {}
    <3>1. \A g \in PollFds : events[g] \subseteq events'[g]
      BY <1>1, <2>1 DEF PollTypeOK
    <3>2. \A g \in PollFds : Revents(g) \subseteq Revents(g)'
      BY <2>1, <3>1 DEF Revents
    <3>3. Entries \subseteq PollFds
      BY DEF Entries
    <3> QED  BY <1>3, <3>2, <3>3 DEF Ready
  <2> QED  BY <1>1, <1>2, <1>3, <2>1, <2>2, <2>3 DEF PollInv, PollTypeOK, Watching, WokenFor, PollNotEarly
<1>12. ASSUME NEW f \in PollFds, NEW e \in {"IN", "OUT", "HUP"}, Withdraw(f, e) PROVE PollInv'
  <2>1. /\ events' = [events EXCEPT ![f] = @ \ {e}] /\ pollPc # "returned" /\ e # "HUP"
        /\ (taken' <=> taken \/ e \in interest[f])
        /\ UNCHANGED <<interest, pollPc, watched, timedOut, pollCancelled, pollResult>>
    BY <1>12 DEF Withdraw
  <2>2. events' \in [PollFds -> SUBSET {"IN", "OUT", "HUP"}]
    BY <1>1, <2>1 DEF PollTypeOK
  <2>3. Ready # {} => taken' \/ Ready' # {}
    <3>1. SUFFICES ASSUME e \notin interest[f] PROVE Ready # {} => Ready' # {}
      BY <2>1
    <3>2. \A g \in PollFds : Revents(g)' = Revents(g)
      <4> SUFFICES ASSUME NEW g \in PollFds PROVE Revents(g)' = Revents(g)
        OBVIOUS
      <4>1. CASE g = f
        BY <1>1, <2>1, <3>1, <4>1 DEF PollTypeOK, Revents
      <4>2. CASE g # f
        BY <1>1, <2>1, <4>2 DEF PollTypeOK, Revents
      <4> QED  BY <4>1, <4>2
    <3>3. Entries \subseteq PollFds
      BY DEF Entries
    <3> QED  BY <1>3, <3>2, <3>3 DEF Ready
  <2> QED  BY <1>1, <1>2, <1>3, <2>1, <2>2, <2>3 DEF PollInv, PollTypeOK, Watching, WokenFor, PollNotEarly
<1>13. CASE PollTimer
  <2>1. pollPc = "wait" /\ UNCHANGED <<events, pollPc, watched>>
    BY <1>13 DEF PollTimer
  <2> QED  BY <1>1, <1>2, <1>3, <2>1 DEF PollInv, PollTypeOK, Watching, WokenFor, PollNotEarly
<1>14. CASE PollCancel
  <2>1. pollPc # "returned" /\ pollCancelled' /\ UNCHANGED <<events, pollPc, watched>>
    BY <1>14 DEF PollCancel
  <2> QED  BY <1>1, <1>2, <1>3, <2>1 DEF PollInv, PollTypeOK, Watching, WokenFor, PollNotEarly
<1> QED  BY <1>5, <1>6, <1>7, <1>8, <1>9, <1>10, <1>11, <1>12, <1>13, <1>14 DEF PollNext

\* poll and select (PollCore, SelectCore) sleep through nothing they would report and do
\* not return empty-handed before their time, for any descriptors, interests and events.
THEOREM PollReportsHolds == PollSpec => []PollReports
<1>1. PollInit => PollInv
  BY DEF PollInit, PollInv, PollTypeOK, Watching, WokenFor, PollNotEarly
<1>2. PollInv /\ [PollNext]_pollVars => PollInv'
  <2>1. PollInv /\ UNCHANGED pollVars => PollInv'
    <3> SUFFICES ASSUME PollInv, UNCHANGED pollVars PROVE PollInv'
      OBVIOUS
    <3>1. UNCHANGED <<Entries, Gathered, NothingToWaitFor, Ready>>
      BY PollFrame DEF pollVars
    <3> QED  BY <3>1 DEF PollInv, pollVars, PollTypeOK, Watching, WokenFor, PollNotEarly
  <2> QED  BY <2>1, PollStep
<1>3. PollInv => PollReports
  BY PollAwakeHolds DEF PollInv, PollReports
<1> QED  BY <1>1, <1>2, <1>3, PTL DEF PollSpec

-----------------------------------------------------------------------------
(* DnsResolver.                                                             *)

NoneTwice(s) == \A i, j \in 1 .. Len(s) : s[i] = s[j] => i = j
AtWork(k) == job # <<>> /\ job[1] = k

\* A call has one job at most, and its work is under way while it is queued or run.
OneJob == NoneTwice(jobs) /\ \A k \in DnsCalls : AtWork(k) => ~Contains(jobs, k)
JobPhase == \A k \in DnsCalls : Contains(jobs, k) \/ AtWork(k) =>
    enqueued[k] = "yes" /\ (k \in Await => dnsPc[k] = "waiting" /\ k \notin dnsWoken)

\* What a call has seen of the resolver.
CallPhase == \A k \in DnsCalls :
    /\ dnsPc[k] \in {"idle", "asking"} => enqueued[k] = "none"
    /\ k \in dnsWoken => enqueued[k] # "none"
    /\ dnsResult[k] = "written" => enqueued[k] = "yes"

DnsInv ==
    /\ DnsTypeOK /\ OneJob /\ JobPhase /\ CallPhase
    /\ (jobs # <<>> => hasThread) /\ DnsNotStranded /\ WorkInScope

\* A job at the end of the queue.
LEMMA AppendJob ==
    ASSUME NEW S, NEW s \in Seq(S), NEW x \in S
    PROVE  /\ Append(s, x) \in Seq(S) /\ Len(Append(s, x)) = Len(s) + 1 /\ Append(s, x) # <<>>
           /\ \A k : Contains(Append(s, x), k) <=> Contains(s, k) \/ k = x
           /\ NoneTwice(s) /\ ~Contains(s, x) => NoneTwice(Append(s, x))
<1>1. /\ Append(s, x) \in Seq(S) /\ Len(Append(s, x)) = Len(s) + 1 /\ Len(s) \in Nat
      /\ \A i \in 1 .. Len(s) : Append(s, x)[i] = s[i]
      /\ Append(s, x)[Len(s) + 1] = x
  OBVIOUS
<1>2. 1 .. (Len(s) + 1) = 1 .. Len(s) \cup {Len(s) + 1} /\ Len(s) + 1 \notin 1 .. Len(s)
  BY <1>1
<1>3. \A k : Contains(Append(s, x), k) <=> Contains(s, k) \/ k = x
  BY <1>1, <1>2 DEF Contains
<1>4. ASSUME NoneTwice(s), ~Contains(s, x) PROVE NoneTwice(Append(s, x))
  <2> SUFFICES ASSUME NEW i \in 1 .. (Len(s) + 1), NEW j \in 1 .. (Len(s) + 1),
                      Append(s, x)[i] = Append(s, x)[j]
               PROVE  i = j
    BY <1>1 DEF NoneTwice
  <2>1. \A m \in 1 .. Len(s) : s[m] # x
    BY <1>4 DEF Contains
  <2> QED  BY <1>1, <1>2, <1>4, <2>1 DEF NoneTwice
<1>5. Append(s, x) # <<>>
  BY <1>1
<1> QED  BY <1>1, <1>3, <1>4, <1>5

\* The job the resolver takes, and those that stay.
LEMMA TailJob ==
    ASSUME NEW S, NEW s \in Seq(S), s # <<>>
    PROVE  /\ Head(s) \in S /\ Tail(s) \in Seq(S) /\ Len(Tail(s)) = Len(s) - 1 /\ Contains(s, Head(s))
           /\ \A k : Contains(Tail(s), k) => Contains(s, k)
           /\ \A k : Contains(s, k) => k = Head(s) \/ Contains(Tail(s), k)
           /\ NoneTwice(s) => NoneTwice(Tail(s)) /\ ~Contains(Tail(s), Head(s))
<1>1. /\ Len(s) \in Nat /\ Len(s) > 0 /\ Head(s) = s[1] /\ Tail(s) \in Seq(S) /\ Head(s) \in S
      /\ Len(Tail(s)) = Len(s) - 1 /\ \A i \in 1 .. (Len(s) - 1) : Tail(s)[i] = s[i + 1]
  OBVIOUS
<1>2. \A i \in 1 .. (Len(s) - 1) : i + 1 \in 1 .. Len(s) /\ i + 1 # 1
  BY <1>1
<1>3. \A i \in 1 .. Len(s) : i = 1 \/ (i - 1 \in 1 .. (Len(s) - 1) /\ s[i] = Tail(s)[i - 1])
  BY <1>1
<1>4. Contains(s, Head(s)) /\ \A k : Contains(Tail(s), k) => Contains(s, k)
  BY <1>1, <1>2 DEF Contains
<1>5. \A k : Contains(s, k) => k = Head(s) \/ Contains(Tail(s), k)
  BY <1>1, <1>3 DEF Contains
<1>6. ASSUME NoneTwice(s) PROVE NoneTwice(Tail(s))
  <2> SUFFICES ASSUME NEW i \in 1 .. (Len(s) - 1), NEW j \in 1 .. (Len(s) - 1), Tail(s)[i] = Tail(s)[j]
               PROVE  i = j
    BY <1>1 DEF NoneTwice
  <2>1. s[i + 1] = s[j + 1] /\ i + 1 \in 1 .. Len(s) /\ j + 1 \in 1 .. Len(s)
    BY <1>1, <1>2
  <2>2. i + 1 = j + 1
    BY <1>6, <2>1 DEF NoneTwice
  <2> QED  BY <2>2
<1>7. ASSUME NoneTwice(s) PROVE ~Contains(Tail(s), Head(s))
  <2> SUFFICES ASSUME NEW i \in 1 .. (Len(s) - 1), Tail(s)[i] = s[1] PROVE FALSE
    BY <1>1 DEF Contains
  <2>1. s[i + 1] = s[1] /\ i + 1 \in 1 .. Len(s) /\ 1 \in 1 .. Len(s)
    BY <1>1, <1>2
  <2>2. i + 1 = 1
    BY <1>7, <2>1 DEF NoneTwice
  <2> QED  BY <2>2
<1> QED  BY <1>1, <1>4, <1>5, <1>6, <1>7

\* Every step of the calls and of the resolver thread, if no Await is cancelled.
LEMMA DnsStep ==
    ASSUME CancelledCalls \cap Await = {}, DnsInv, DnsNext
    PROVE  DnsInv'
<1>1. /\ DnsTypeOK /\ OneJob /\ JobPhase /\ CallPhase /\ DnsNotStranded /\ WorkInScope
      /\ (jobs # <<>> => hasThread)
  BY DEF DnsInv
<1>2. /\ dnsPc \in [DnsCalls -> {"idle", "asking", "waiting", "back", "returned"}]
      /\ enqueued \in [DnsCalls -> {"none", "yes", "no"}] /\ dnsWoken \subseteq DnsCalls
      /\ dnsResult \in [DnsCalls -> {"EAI_FAIL", "written"}]
      /\ jobs \in Seq(DnsCalls) /\ Len(jobs) <= MaxPendingJobs
      /\ job \in {<<>>} \cup (DnsCalls \X {"run", "notify"}) /\ hasThread \in BOOLEAN
      /\ dangling \subseteq DnsCalls
  BY <1>1 DEF DnsTypeOK
<1>3. MaxPendingJobs \in Nat /\ Len(jobs) \in Nat /\ Await \cap AwaitBounded = {}
  BY <1>2, DnsAssumption DEF DnsAssumption
<1> USE DEF DnsInv, DnsTypeOK, OneJob, JobPhase, CallPhase, DnsNotStranded, WorkInScope, AtWork
\* A call moves between its own steps: the resolver is not concerned.
<1>4. ASSUME NEW k \in DnsCalls, Ask(k) PROVE DnsInv'
  <2>1. PICK l \in {"asking", "back"} : dnsPc' = [dnsPc EXCEPT ![k] = l]
    BY <1>4 DEF Ask
  <2>2. dnsPc[k] = "idle" /\ UNCHANGED <<enqueued, dnsWoken, dnsResult, jobs, hasThread, job, dangling>>
    BY <1>4 DEF Ask
  <2>3. /\ dnsPc' \in [DnsCalls -> {"idle", "asking", "waiting", "back", "returned"}]
        /\ dnsPc'[k] = l /\ \A x \in DnsCalls \ {k} : dnsPc'[x] = dnsPc[x]
    BY <1>2, <2>1
  <2> QED  BY <1>1, <2>2, <2>3
<1>5. ASSUME NEW k \in DnsCalls, Enqueue(k), jobs' = Append(jobs, k), hasThread' = TRUE,
             enqueued' = [enqueued EXCEPT ![k] = "yes"], UNCHANGED dnsWoken, Len(jobs) < MaxPendingJobs
      PROVE  DnsInv'
  <2>1. /\ dnsPc[k] = "asking" /\ dnsPc' = [dnsPc EXCEPT ![k] = "waiting"]
        /\ UNCHANGED <<dnsWoken, dnsResult, job, dangling>>
    BY <1>5 DEF Enqueue
  <2>2. /\ dnsPc' \in [DnsCalls -> {"idle", "asking", "waiting", "back", "returned"}]
        /\ dnsPc'[k] = "waiting" /\ \A x \in DnsCalls \ {k} : dnsPc'[x] = dnsPc[x]
        /\ enqueued' \in [DnsCalls -> {"none", "yes", "no"}]
        /\ enqueued'[k] = "yes" /\ \A x \in DnsCalls \ {k} : enqueued'[x] = enqueued[x]
    BY <1>2, <1>5, <2>1
  <2>3. enqueued[k] = "none" /\ ~Contains(jobs, k) /\ ~AtWork(k) /\ k \notin dnsWoken
    BY <1>1, <2>1
  <2>4. /\ jobs' \in Seq(DnsCalls) /\ Len(jobs') <= MaxPendingJobs /\ jobs' # <<>> /\ NoneTwice(jobs')
        /\ \A x : Contains(jobs', x) <=> Contains(jobs, x) \/ x = k
    BY <1>1, <1>2, <1>3, <1>5, <2>3, AppendJob
  <2> QED  BY <1>1, <1>2, <1>5, <2>1, <2>2, <2>3, <2>4
<1>6. ASSUME NEW k \in DnsCalls, Enqueue(k), UNCHANGED <<jobs, hasThread>>,
             enqueued' = [enqueued EXCEPT ![k] = "no"], dnsWoken' = dnsWoken \cup {k}
      PROVE  DnsInv'
  <2>1. /\ dnsPc[k] = "asking" /\ dnsPc' = [dnsPc EXCEPT ![k] = "waiting"]
        /\ UNCHANGED <<dnsResult, job, dangling>>
    BY <1>6 DEF Enqueue
  <2>2. /\ dnsPc' \in [DnsCalls -> {"idle", "asking", "waiting", "back", "returned"}]
        /\ dnsPc'[k] = "waiting" /\ \A x \in DnsCalls \ {k} : dnsPc'[x] = dnsPc[x]
        /\ enqueued' \in [DnsCalls -> {"none", "yes", "no"}]
        /\ enqueued'[k] = "no" /\ \A x \in DnsCalls \ {k} : enqueued'[x] = enqueued[x]
    BY <1>2, <1>6, <2>1
  <2>3. enqueued[k] = "none" /\ ~Contains(jobs, k) /\ ~AtWork(k) /\ dnsResult[k] # "written"
    BY <1>1, <2>1
  <2> QED  BY <1>1, <1>2, <1>6, <2>1, <2>2, <2>3
<1>7. ASSUME NEW k \in DnsCalls, Enqueue(k) PROVE DnsInv'
  <2>1. CASE ~QueueFull /\ jobs' = Append(jobs, k) /\ hasThread' = TRUE
             /\ enqueued' = [enqueued EXCEPT ![k] = "yes"] /\ UNCHANGED dnsWoken
    <3>1. Len(jobs) < MaxPendingJobs
      BY <1>2, <1>3, <2>1 DEF QueueFull
    <3> QED  BY <1>5, <1>7, <2>1, <3>1
  <2>2. CASE /\ enqueued' = [enqueued EXCEPT ![k] = "no"] /\ UNCHANGED hasThread
             /\ dnsWoken' = dnsWoken \cup SelfNotified(k) /\ jobs' = Withdrawn(k)
    BY <1>6, <1>7, <2>2 DEF SelfNotified, Withdrawn
  <2>3. \/ ~QueueFull /\ jobs' = Append(jobs, k) /\ hasThread' = TRUE
           /\ enqueued' = [enqueued EXCEPT ![k] = "yes"] /\ UNCHANGED dnsWoken
        \/ enqueued' = [enqueued EXCEPT ![k] = "no"] /\ UNCHANGED hasThread
           /\ dnsWoken' = dnsWoken \cup SelfNotified(k) /\ jobs' = Withdrawn(k)
    BY <1>7 DEF Enqueue
  <2> QED  BY <2>1, <2>2, <2>3
<1>8. ASSUME NEW k \in DnsCalls, WaitOver(k) \/ DnsReturn(k) PROVE DnsInv'
  <2>1. PICK l \in {"back", "returned"} : dnsPc' = [dnsPc EXCEPT ![k] = l]
    BY <1>8 DEF WaitOver, DnsReturn
  <2>2. /\ dnsPc[k] \in {"waiting", "back"}
        /\ UNCHANGED <<enqueued, dnsWoken, dnsResult, jobs, hasThread, job, dangling>>
    BY <1>8 DEF WaitOver, DnsReturn
  <2>3. /\ dnsPc' \in [DnsCalls -> {"idle", "asking", "waiting", "back", "returned"}]
        /\ dnsPc'[k] = l /\ \A x \in DnsCalls \ {k} : dnsPc'[x] = dnsPc[x]
    BY <1>2, <2>1
  \* A call of Await is over only when it was notified, and then its job is done.
  <2>4. k \in Await => ~Contains(jobs, k) /\ ~AtWork(k)
    BY <1>1, <1>3, <1>8 DEF WaitOver, DnsReturn
  <2> QED  BY <1>1, <2>2, <2>3, <2>4
<1>9. CASE TakeJob
  <2>1. /\ hasThread /\ job = <<>> /\ jobs # <<>> /\ job' = <<Head(jobs), "run">> /\ jobs' = Tail(jobs)
        /\ UNCHANGED <<dnsPc, enqueued, dnsWoken, dnsResult, hasThread, dangling>>
    BY <1>9 DEF TakeJob
  <2>2. /\ Head(jobs) \in DnsCalls /\ jobs' \in Seq(DnsCalls) /\ Len(jobs') = Len(jobs) - 1
        /\ Contains(jobs, Head(jobs)) /\ NoneTwice(jobs') /\ ~Contains(jobs', Head(jobs))
        /\ \A x : Contains(jobs', x) => Contains(jobs, x)
        /\ \A x : Contains(jobs, x) => x = Head(jobs) \/ Contains(jobs', x)
    BY <1>1, <1>2, <2>1, TailJob
  <2>3. /\ job' \in DnsCalls \X {"run", "notify"} /\ job' # <<>> /\ job'[1] = Head(jobs)
        /\ Len(jobs') <= MaxPendingJobs
    BY <1>2, <1>3, <2>1, <2>2
  <2>4. DnsTypeOK' /\ OneJob' /\ CallPhase' /\ WorkInScope'
    BY <1>1, <2>1, <2>2, <2>3
  <2>5. JobPhase'
    BY <1>1, <2>1, <2>2, <2>3
  <2>6. DnsNotStranded'
    BY <1>1, <2>1, <2>2, <2>3
  <2> QED  BY <2>1, <2>4, <2>5, <2>6
<1>10. CASE RunWork
  <2>1. PICK k \in DnsCalls : job = <<k, "run">>
    BY <1>2, <1>10 DEF RunWork
  <2>2. job[1] = k /\ AtWork(k) /\ job' = <<k, "notify">>
        /\ UNCHANGED <<dnsPc, enqueued, dnsWoken, jobs, hasThread>>
    BY <1>10, <2>1 DEF RunWork
  <2>3. enqueued[k] = "yes" /\ (k \in Await => dnsPc[k] # "returned")
    BY <1>1, <2>2
  <2>4. dnsResult' = [dnsResult EXCEPT ![k] = "written"] /\ UNCHANGED dangling
    BY <1>10, <2>2, <2>3 DEF RunWork
  <2>5. /\ dnsResult' \in [DnsCalls -> {"EAI_FAIL", "written"}]
        /\ \A x \in DnsCalls \ {k} : dnsResult'[x] = dnsResult[x]
    BY <1>2, <2>4
  <2>6. job' \in DnsCalls \X {"run", "notify"} /\ job' # <<>> /\ job'[1] = k
    BY <2>2
  <2> QED  BY <1>1, <2>2, <2>3, <2>4, <2>5, <2>6
<1>11. CASE NotifyCaller
  <2>1. PICK k \in DnsCalls : job = <<k, "notify">>
    BY <1>2, <1>11 DEF NotifyCaller
  <2>2. /\ job[1] = k /\ AtWork(k) /\ job' = <<>> /\ dnsWoken' = dnsWoken \cup {k}
        /\ UNCHANGED <<dnsPc, enqueued, dnsResult, jobs, hasThread, dangling>>
    BY <1>11, <2>1 DEF NotifyCaller
  <2>3. ~Contains(jobs, k) /\ enqueued[k] = "yes"
    BY <1>1, <2>2
  <2> QED  BY <1>1, <1>2, <2>2, <2>3
<1> QED  BY <1>4, <1>7, <1>8, <1>9, <1>10, <1>11 DEF DnsNext

\* The resolver thread (DnsResolver::_Worker) writes only into calls that are still there,
\* leaves none asleep and never runs what was refused, for any number of calls and any
\* length of its queue.  The calls of Await must not be cancelled: they are the ones whose
\* frame the work refers to, and with a cancel they return before it (the run
\* dns_cancelled).
THEOREM DnsSoundHolds ==
    ASSUME CancelledCalls \cap Await = {}
    PROVE  DnsSpec => []DnsSound
<1>1. DnsInit => DnsInv
  <2> SUFFICES ASSUME DnsInit PROVE DnsInv
    OBVIOUS
  <2>1. jobs = <<>> /\ Len(jobs) = 0 /\ jobs \in Seq(DnsCalls) /\ job = <<>> /\ MaxPendingJobs \in Nat
    BY DnsAssumption DEF DnsInit, DnsAssumption
  <2>2. DnsTypeOK
    <3>1. Len(jobs) <= MaxPendingJobs
      BY <2>1
    <3>2. job \in {<<>>} \cup (DnsCalls \X {"run", "notify"})
      BY <2>1
    <3> QED  BY <2>1, <3>1, <3>2 DEF DnsInit, DnsTypeOK
  <2> QED  BY <2>1, <2>2
         DEF DnsInit, DnsInv, OneJob, JobPhase, CallPhase, DnsNotStranded, WorkInScope, AtWork,
             NoneTwice, Contains
<1>2. DnsInv /\ [DnsNext]_dnsVars => DnsInv'
  <2>1. DnsInv /\ UNCHANGED dnsVars => DnsInv'
    BY DEF DnsInv, dnsVars, DnsTypeOK, OneJob, JobPhase, CallPhase, DnsNotStranded, WorkInScope, AtWork
  <2> QED  BY <2>1, DnsStep
<1>3. DnsInv => DnsSound
  BY DEF DnsInv, DnsSound, JobPhase, CallPhase, RefusedNeverRuns, AtWork, DnsTypeOK
<1> QED  BY <1>1, <1>2, <1>3, PTL DEF DnsSpec

-----------------------------------------------------------------------------
(* WorkerStall.                                                             *)

StallTypes ==
    /\ now \in Times /\ now >= 1
    /\ turn \in [StallWorkers -> {"between", "begun", "resumed"}]
    /\ begun \in [StallWorkers -> Times] /\ group \in [StallWorkers -> Groups]
    /\ lastReport \in [StallWorkers -> Times]
    /\ scan \in [on : BOOLEAN, at : Times, left : SUBSET StallWorkers] /\ scan.at <= now
    /\ overdue \subseteq [w : StallWorkers, begin : Times]

\* What a worker says of itself: its times only grow, and a group is that of the run.
TurnOf(w) ==
    /\ group[w].begin <= begun[w] /\ begun[w] <= now
    /\ turn[w] # "between" => begun[w] >= 1
    /\ turn[w] = "resumed" <=> group[w].executing
    /\ group[w].executing => group[w].begin = begun[w] /\ group[w].co \in StallCos

\* The last run reported is no later than the current one, and was reported.
ReportedRun(w, b) == \E r \in pending \cup reports : r.w = w /\ r.begin = b
LastOf(w) ==
    /\ lastReport[w] <= group[w].begin
    /\ lastReport[w] # 0 => ReportedRun(w, lastReport[w])

ReportOf(r) ==
    /\ r.w \in StallWorkers /\ r.co \in StallCos /\ r.begin <= lastReport[r.w] /\ r.begin \in Times
    /\ WarnUs <= r.ran /\ r.ran <= r.age /\ ~r.again

\* A run that begins during a scan is younger than those the scan is after.
OverdueOf(o) ==
    /\ scan.at - o.begin >= WarnUs
    /\ turn[o.w] = "begun" => begun[o.w] >= scan.at

\* What the scan has passed and was overdue has been reported.
Passed(w) ==
    scan.on /\ w \notin scan.left /\ group[w].executing /\ Run(w) \in overdue =>
        ReportedRun(w, group[w].begin)

StallInv ==
    /\ StallTypes
    /\ \A w \in StallWorkers : TurnOf(w) /\ LastOf(w) /\ Passed(w)
    /\ \A r \in pending \cup reports : ReportOf(r)
    /\ \A o \in overdue : OverdueOf(o)

\* What the assumption on the constants gives.
LEMMA StallConstants ==
    WarnUs \in Nat /\ WarnUs >= 1 /\ MaxNow \in Nat /\ MaxNow >= 1 /\ \A t \in Times : t \in Nat
BY StallAssumption DEF StallAssumption, Times

\* A run is named by its worker and its beginning.
LEMMA RunIs ==
    \A w : Run(w).w = w /\ Run(w).begin = group[w].begin
BY DEF Run

\* A worker takes a step: the scan and its reports are as they were.
LEMMA WorkerTurn ==
    ASSUME StallInv, NEW w \in StallWorkers,
           UNCHANGED <<now, lastReport, scan, pending, reports, overdue>>,
           \A x \in StallWorkers \ {w} : turn'[x] = turn[x] /\ begun'[x] = begun[x] /\ group'[x] = group[x],
           StallTypes', TurnOf(w)', group'[w].begin >= group[w].begin,
           Passed(w)', turn'[w] = "begun" => begun'[w] = now
    PROVE  StallInv'
<1>1. /\ StallTypes /\ \A x \in StallWorkers : TurnOf(x) /\ LastOf(x) /\ Passed(x)
      /\ (\A r \in pending \cup reports : ReportOf(r)) /\ \A o \in overdue : OverdueOf(o)
  BY DEF StallInv
<1>2. \A x \in StallWorkers : TurnOf(x)'
  BY <1>1 DEF TurnOf
<1>3. \A x \in StallWorkers : LastOf(x)'
  <2>1. \A x \in StallWorkers : lastReport[x] \in Nat /\ group[x].begin \in Nat /\ group'[x].begin \in Nat
    BY <1>1, StallConstants DEF StallTypes, Groups
  <2> QED  BY <1>1, <2>1 DEF LastOf, ReportedRun
<1>4. \A x \in StallWorkers : Passed(x)'
  BY <1>1 DEF Passed, ReportedRun, Run
<1>5. \A r \in (pending \cup reports)' : ReportOf(r)'
  BY <1>1 DEF ReportOf
<1>6. \A o \in overdue' : OverdueOf(o)'
  <2> SUFFICES ASSUME NEW o \in overdue PROVE OverdueOf(o)'
    OBVIOUS
  <2>1. o.w \in StallWorkers /\ OverdueOf(o) /\ scan.at <= now
    BY <1>1 DEF StallTypes
  <2> QED  BY <2>1 DEF OverdueOf
<1> QED  BY <1>2, <1>3, <1>4, <1>5, <1>6 DEF StallInv

\* Every step of the workers, of the clock and of the scan.
LEMMA StallStep ==
    ASSUME StallInv, StallNext
    PROVE  StallInv'
<1> USE StallConstants
<1>1. /\ StallTypes /\ \A w \in StallWorkers : TurnOf(w) /\ LastOf(w) /\ Passed(w)
      /\ (\A r \in pending \cup reports : ReportOf(r)) /\ \A o \in overdue : OverdueOf(o)
  BY DEF StallInv
<1>2. /\ now \in Nat /\ scan.at \in Nat /\ scan.left \subseteq StallWorkers
      /\ \A w \in StallWorkers : /\ begun[w] \in Nat /\ lastReport[w] \in Nat /\ lastReport[w] \in Times
                                 /\ group[w].begin \in Nat /\ group[w].begin \in Times /\ begun[w] \in Times
  BY <1>1 DEF StallTypes, Groups
<1>3. CASE Ticks
  <2>1. now' = now + 1 /\ now' \in Times
        /\ UNCHANGED <<turn, begun, group, lastReport, scan, pending, reports, overdue>>
    BY <1>1, <1>2, <1>3 DEF Ticks, Times, StallTypes
  <2>2. StallTypes'
    BY <1>1, <1>2, <2>1 DEF StallTypes
  <2>3. \A w \in StallWorkers : TurnOf(w)' /\ LastOf(w)' /\ Passed(w)'
    BY <1>1, <1>2, <2>1 DEF TurnOf, LastOf, Passed, ReportedRun, Run
  <2>4. \A r \in (pending \cup reports)' : ReportOf(r)'
    BY <1>1, <2>1 DEF ReportOf
  <2>5. \A o \in overdue' : OverdueOf(o)'
    BY <1>1, <2>1 DEF OverdueOf
  <2> QED  BY <2>2, <2>3, <2>4, <2>5 DEF StallInv
<1>4. ASSUME NEW w \in StallWorkers, ReadsClock(w) PROVE StallInv'
  <2>1. /\ turn[w] = "between" /\ turn' = [turn EXCEPT ![w] = "begun"] /\ begun' = [begun EXCEPT ![w] = now]
        /\ UNCHANGED <<now, group, lastReport, scan, pending, reports, overdue>>
    BY <1>4 DEF ReadsClock
  <2>2. /\ turn' \in [StallWorkers -> {"between", "begun", "resumed"}] /\ begun' \in [StallWorkers -> Times]
        /\ turn'[w] = "begun" /\ begun'[w] = now
        /\ \A x \in StallWorkers \ {w} : turn'[x] = turn[x] /\ begun'[x] = begun[x]
    BY <1>1, <2>1 DEF StallTypes
  <2>3. StallTypes'
    BY <1>1, <2>1, <2>2 DEF StallTypes
  <2>4. ~group[w].executing /\ TurnOf(w)'
    BY <1>1, <1>2, <2>1, <2>2 DEF TurnOf, StallTypes
  <2>5. Passed(w)'
    BY <2>1, <2>4 DEF Passed
  <2> QED  BY <1>2, <2>1, <2>2, <2>3, <2>4, <2>5, WorkerTurn
<1>5. ASSUME NEW w \in StallWorkers, NEW c \in StallCos, Publishes(w, c) PROVE StallInv'
  <2>1. /\ turn[w] = "begun" /\ turn' = [turn EXCEPT ![w] = "resumed"]
        /\ group' = [group EXCEPT ![w] = [begin |-> begun[w], co |-> c, executing |-> TRUE]]
        /\ UNCHANGED <<now, begun, lastReport, scan, pending, reports, overdue>>
    BY <1>5 DEF Publishes
  <2>2. /\ turn' \in [StallWorkers -> {"between", "begun", "resumed"}] /\ group' \in [StallWorkers -> Groups]
        /\ turn'[w] = "resumed" /\ group'[w] = [begin |-> begun[w], co |-> c, executing |-> TRUE]
        /\ \A x \in StallWorkers \ {w} : turn'[x] = turn[x] /\ group'[x] = group[x]
    BY <1>1, <1>2, <2>1 DEF StallTypes, Groups
  <2>3. StallTypes'
    BY <1>1, <2>1, <2>2 DEF StallTypes
  <2>4. TurnOf(w)' /\ group'[w].begin >= group[w].begin
    BY <1>1, <1>2, <2>1, <2>2 DEF TurnOf
  <2>5. Run(w)' \notin overdue
    <3> SUFFICES ASSUME NEW o \in overdue, o = Run(w)' PROVE FALSE
      OBVIOUS
    <3>1. o.w = w /\ o.begin = begun[w]
      BY <2>2 DEF Run
    <3>2. scan.at - o.begin >= WarnUs /\ begun[w] >= scan.at
      BY <1>1, <2>1, <3>1 DEF OverdueOf
    <3> QED  BY <1>2, <3>1, <3>2
  <2>6. Passed(w)'
    BY <2>1, <2>5 DEF Passed
  <2> QED  BY <2>1, <2>2, <2>3, <2>4, <2>6, WorkerTurn
<1>6. ASSUME NEW w \in StallWorkers, YieldsBack(w) PROVE StallInv'
  <2>1. /\ turn[w] = "resumed" /\ turn' = [turn EXCEPT ![w] = "between"]
        /\ group' = [group EXCEPT ![w].executing = FALSE]
        /\ UNCHANGED <<now, begun, lastReport, scan, pending, reports, overdue>>
    BY <1>6 DEF YieldsBack
  <2>2. /\ turn' \in [StallWorkers -> {"between", "begun", "resumed"}] /\ group' \in [StallWorkers -> Groups]
        /\ turn'[w] = "between" /\ group'[w].executing = FALSE /\ group'[w].begin = group[w].begin
        /\ \A x \in StallWorkers \ {w} : turn'[x] = turn[x] /\ group'[x] = group[x]
    BY <1>1, <2>1 DEF StallTypes, Groups
  <2>3. StallTypes'
    BY <1>1, <2>1, <2>2 DEF StallTypes
  <2>4. TurnOf(w)' /\ group'[w].begin >= group[w].begin
    BY <1>1, <1>2, <2>1, <2>2 DEF TurnOf
  <2>5. Passed(w)'
    BY <2>2 DEF Passed
  <2> QED  BY <2>1, <2>2, <2>3, <2>4, <2>5, WorkerTurn
<1>7. CASE ScanBegins
  <2>1. /\ scan' = [on |-> TRUE, at |-> now, left |-> StallWorkers]
        /\ overdue' = {Run(w) : w \in {x \in StallWorkers :
                           group[x].executing /\ now - group[x].begin >= WarnUs}}
        /\ UNCHANGED <<now, turn, begun, group, lastReport, pending, reports>>
    BY <1>7 DEF ScanBegins
  <2>2. overdue' \subseteq [w : StallWorkers, begin : Times]
    BY <1>2, <2>1 DEF Run
  <2>3. StallTypes'
    BY <1>1, <1>2, <2>1, <2>2 DEF StallTypes
  <2>4. \A w \in StallWorkers : TurnOf(w)' /\ LastOf(w)' /\ Passed(w)'
    BY <1>1, <2>1 DEF TurnOf, LastOf, Passed, ReportedRun
  <2>5. \A r \in (pending \cup reports)' : ReportOf(r)'
    BY <1>1, <2>1 DEF ReportOf
  <2>6. \A o \in overdue' : OverdueOf(o)'
    <3> SUFFICES ASSUME NEW o \in overdue' PROVE OverdueOf(o)'
      OBVIOUS
    <3>1. PICK w \in StallWorkers : o = Run(w) /\ group[w].executing /\ now - group[w].begin >= WarnUs
      BY <2>1
    <3>2. turn[w] = "resumed" /\ o.w = w /\ o.begin = group[w].begin
      BY <1>1, <3>1, RunIs DEF TurnOf
    <3> QED  BY <2>1, <3>1, <3>2 DEF OverdueOf
  <2> QED  BY <2>3, <2>4, <2>5, <2>6 DEF StallInv
<1>8. CASE ScanEnds
  <2>1. /\ scan' = NoScan /\ reports' = reports \cup pending /\ pending' = {} /\ overdue' = {}
        /\ UNCHANGED <<now, turn, begun, group, lastReport>>
    BY <1>8 DEF ScanEnds
  <2>2. (pending \cup reports)' = pending \cup reports /\ NoScan.at = 0 /\ NoScan.on = FALSE
        /\ 0 \in Times /\ NoScan \in [on : BOOLEAN, at : Times, left : SUBSET StallWorkers]
    BY <2>1 DEF NoScan, Times
  <2>3. StallTypes'
    BY <1>1, <1>2, <2>1, <2>2 DEF StallTypes
  <2>4. \A w \in StallWorkers : TurnOf(w)' /\ LastOf(w)' /\ Passed(w)'
    BY <1>1, <2>1, <2>2 DEF TurnOf, LastOf, Passed, ReportedRun
  <2>5. \A r \in (pending \cup reports)' : ReportOf(r)'
    BY <1>1, <2>1, <2>2 DEF ReportOf
  <2> QED  BY <2>1, <2>3, <2>4, <2>5 DEF StallInv
<1>9. ASSUME NEW w \in StallWorkers, Looks(w) PROVE StallInv'
  <2> DEFINE b == group[w].begin
             found == group[w].executing /\ Overdue(scan.at, b) /\ NewReport(w)
             rep == [w |-> w, co |-> group[w].co, begin |-> b, ran |-> scan.at - b, age |-> now - b,
                     again |-> \E r \in reports : r.w = w /\ r.begin = b]
  <2>1. /\ scan' = [scan EXCEPT !.left = @ \ {w}]
        /\ UNCHANGED <<now, turn, begun, group, reports, overdue>>
        /\ \/ found /\ lastReport' = [lastReport EXCEPT ![w] = b] /\ pending' = pending \cup {rep}
           \/ ~found /\ UNCHANGED <<lastReport, pending>>
    BY <1>9 DEF Looks
  <2>2. /\ scan' \in [on : BOOLEAN, at : Times, left : SUBSET StallWorkers] /\ scan'.at = scan.at
        /\ scan'.on = scan.on /\ scan'.left = scan.left \ {w}
    BY <1>1, <2>1 DEF StallTypes
  <2>3. /\ lastReport' \in [StallWorkers -> Times] /\ lastReport'[w] \in {b, lastReport[w]}
        /\ \A x \in StallWorkers \ {w} : lastReport'[x] = lastReport[x]
    BY <1>1, <1>2, <2>1 DEF StallTypes
  <2>4. StallTypes'
    BY <1>1, <2>1, <2>2, <2>3 DEF StallTypes
  <2>5. pending \subseteq pending'
    BY <2>1
  <2>6. \A o \in overdue' : OverdueOf(o)'
    BY <1>1, <2>1, <2>2 DEF OverdueOf
  <2>7. \A x \in StallWorkers : TurnOf(x)'
    BY <1>1, <2>1 DEF TurnOf
  <2>8. \A x \in StallWorkers \ {w} : LastOf(x)' /\ Passed(x)'
    BY <1>1, <2>1, <2>2, <2>3, <2>5 DEF LastOf, Passed, ReportedRun, Run
  <2>9. rep.w = w /\ rep.co = group[w].co /\ rep.begin = b /\ rep.ran = scan.at - b /\ rep.age = now - b
        /\ (rep.again <=> \E r \in reports : r.w = w /\ r.begin = b)
    OBVIOUS
  <2>10. scan.at <= now /\ lastReport[w] <= b
    BY <1>1 DEF StallTypes, LastOf
  <2>13. PICK q : q = rep
    OBVIOUS
  <2>14. /\ q.w = w /\ q.co = group[w].co /\ q.begin = b /\ q.ran = scan.at - b /\ q.age = now - b
         /\ (q.again <=> \E r \in reports : r.w = w /\ r.begin = b)
    BY <2>9, <2>13
  <2>11. CASE found
    <3>1. /\ lastReport' = [lastReport EXCEPT ![w] = b] /\ pending' = pending \cup {q}
          /\ group[w].executing /\ Overdue(scan.at, b) /\ lastReport[w] # b
      BY <2>1, <2>11, <2>13 DEF NewReport
    <3>2. lastReport'[w] = b
      BY <1>1, <3>1 DEF StallTypes
    <3>3. ~q.again
      <4> SUFFICES ASSUME NEW r \in reports, r.w = w, r.begin = b PROVE FALSE
        BY <2>14
      <4>1. b <= lastReport[w]
        BY <1>1 DEF ReportOf
      <4> QED  BY <1>2, <2>10, <3>1, <4>1
    <3>4. WarnUs <= q.ran /\ q.ran <= q.age /\ q.co \in StallCos
      BY <1>1, <1>2, <2>14, <2>10, <3>1 DEF Overdue, TurnOf
    <3>5. ReportOf(q)'
      BY <1>2, <2>1, <2>14, <3>2, <3>3, <3>4 DEF ReportOf
    <3>6. \A r \in pending \cup reports : ReportOf(r)'
      <4> SUFFICES ASSUME NEW r \in pending \cup reports PROVE ReportOf(r)'
        OBVIOUS
      <4>1. ReportOf(r) /\ r.w \in StallWorkers
        BY <1>1 DEF ReportOf
      <4>2. r.begin <= lastReport'[r.w]
        <5>1. CASE r.w = w
          BY <1>2, <2>10, <3>2, <4>1, <5>1 DEF ReportOf
        <5>2. CASE r.w # w
          BY <2>3, <4>1, <5>2 DEF ReportOf
        <5> QED  BY <5>1, <5>2
      <4> QED  BY <4>1, <4>2 DEF ReportOf
    <3>7. \A r \in (pending \cup reports)' : ReportOf(r)'
      BY <2>1, <3>1, <3>5, <3>6
    <3>8. ReportedRun(w, b)'
      BY <2>1, <2>14, <3>1 DEF ReportedRun
    <3>9. LastOf(w)' /\ Passed(w)'
      BY <1>2, <2>1, <3>2, <3>8 DEF LastOf, Passed, ReportedRun
    <3> QED  BY <2>4, <2>6, <2>7, <2>8, <3>7, <3>9 DEF StallInv
  <2>12. CASE ~found
    <3>1. UNCHANGED <<lastReport, pending, reports, group, overdue>>
      BY <2>1, <2>12
    <3>2. LastOf(w)' /\ \A r \in (pending \cup reports)' : ReportOf(r)'
      BY <1>1, <3>1 DEF LastOf, ReportOf, ReportedRun
    <3>3. ASSUME group[w].executing, Run(w) \in overdue PROVE ReportedRun(w, b)
      <4>1. scan.at - b >= WarnUs /\ b >= 1
        BY <1>1, <1>2, <3>3, RunIs DEF OverdueOf, TurnOf
      <4>2. Overdue(scan.at, b)
        BY <1>2, <4>1 DEF Overdue
      <4>3. lastReport[w] = b
        BY <2>12, <3>3, <4>2 DEF NewReport
      <4> QED  BY <1>1, <1>2, <4>1, <4>3 DEF LastOf
    <3>4. Passed(w)'
      BY <3>1, <3>3 DEF Passed, ReportedRun, Run
    <3> QED  BY <2>4, <2>6, <2>7, <2>8, <3>2, <3>4 DEF StallInv
  <2> QED  BY <2>11, <2>12
<1> QED  BY <1>3, <1>4, <1>5, <1>6, <1>7, <1>8, <1>9 DEF StallNext

\* What the stall scan (Scheduler::_FixTimingScan) reports is a stall, none is reported twice
\* and none that lasts through the scan is left out, for any number of workers and
\* however their turns fall between the clock of the scan and its looks.
THEOREM StallReportsHolds == StallSpec => []StallReports
<1>1. StallInit => StallInv
  <2> SUFFICES ASSUME StallInit PROVE StallInv
    OBVIOUS
  <2>1. /\ now = 1 /\ scan = NoScan /\ NoScan.at = 0 /\ NoScan.on = FALSE /\ pending = {} /\ reports = {}
        /\ overdue = {} /\ 0 \in Times /\ 1 \in Times
        /\ NoScan \in [on : BOOLEAN, at : Times, left : SUBSET StallWorkers]
    BY StallConstants DEF StallInit, NoScan, Times
  <2>2. \A w \in StallWorkers : /\ turn[w] = "between" /\ begun[w] = 0 /\ lastReport[w] = 0
                                /\ group[w].begin = 0 /\ group[w].executing = FALSE
    BY DEF StallInit
  <2>3. group \in [StallWorkers -> Groups]
    BY <2>1 DEF StallInit, Groups
  <2>4. StallTypes
    <3>1. /\ turn \in [StallWorkers -> {"between", "begun", "resumed"}]
          /\ begun \in [StallWorkers -> Times] /\ lastReport \in [StallWorkers -> Times]
      BY <2>1 DEF StallInit
    <3> QED  BY <2>1, <2>3, <3>1 DEF StallTypes
  <2> QED  BY <2>1, <2>2, <2>4 DEF StallInv, TurnOf, LastOf, Passed
<1>2. StallInv /\ [StallNext]_stallVars => StallInv'
  <2>1. StallInv /\ UNCHANGED stallVars => StallInv'
    BY DEF StallInv, stallVars, StallTypes, TurnOf, LastOf, Passed, ReportOf, OverdueOf, ReportedRun, Run
  <2> QED  BY <2>1, StallStep
<1>3. StallInv => StallReports
  <2> SUFFICES ASSUME StallInv PROVE StallReports
    OBVIOUS
  <2>1. StallTypeOK
    BY DEF StallInv, StallTypes, StallTypeOK, ReportOf
  <2>2. StallIsReal
    BY DEF StallInv, StallIsReal, ReportOf
  <2>3. StallReportedOnce
    BY DEF StallInv, StallReportedOnce, ReportOf, Passed, ReportedRun
  <2> QED  BY <2>1, <2>2, <2>3 DEF StallReports
<1> QED  BY <1>1, <1>2, <1>3, PTL DEF StallSpec

-----------------------------------------------------------------------------
(* HookIo.                                                                  *)

\* Every object is closed once: the generation follows the objects.
Numbered ==
    /\ fdObj \in {0, opened} /\ (fdClosing = "begun" => fdObj # 0)
    /\ fdEpoch = IF fdObj = 0 \/ fdClosing = "begun" THEN opened ELSE opened - 1
    /\ \A o \in Objects : o > opened => nonblock[o] = owned[o]

Busy == {"set", "call", "again", "leave"}

\* A call at c that raced with no close works on its own object.
OwnObject(c) ==
    LET f == ioCall[c] IN
    /\ f.mine <= opened /\ f.waitEpoch <= fdEpoch /\ (ioPc[c] # "out" => f.mine # 0)
    /\ ioPc[c] \in Busy /\ ~f.raced => fdObj = f.mine
    /\ ioPc[c] \in {"wait", "back"} /\ ~f.raced /\ ~f.closedWake /\ f.waitEpoch = fdEpoch =>
           fdObj = f.mine /\ fdClosing = "no"
    /\ ~f.stained

\* Whoever will give the flags back gives back a blocking descriptor.
WillRestore(c) ==
    LET f == ioCall[c] IN
    /\ ioPc[c] = "set" => ~f.restore
    /\ ioPc[c] # "out" /\ (ioPc[c] = "set" \/ f.restore) =>
           ~f.saved /\ (f.mine = fdObj /\ fdObj \notin spoilt => ~owned[fdObj])

\* A call that met no other is alone, and found or made its object non-blocking.
AloneNonblocking(c) ==
    LET f == ioCall[c] IN
    /\ f.stuck => ioPc[c] # "out" /\ (f.overlapped \/ f.raced)
    /\ ioPc[c] # "out" /\ ~f.overlapped => \A d \in IoCos \ {c} : ioPc[d] = "out"
    /\ ioPc[c] \notin {"out", "set"} /\ ~f.overlapped /\ ~f.raced /\ f.kind # "dontwait" =>
           nonblock[f.mine]

FrameOf(c) == OwnObject(c) /\ WillRestore(c) /\ AloneNonblocking(c)

\* The flags of the descriptor differ from the owner's only while somebody is
\* about to give them back.
FlagsDue ==
    fdObj # 0 /\ fdObj \notin spoilt =>
        /\ owned[fdObj] => nonblock[fdObj]
        /\ nonblock[fdObj] /\ ~owned[fdObj] =>
               \E c \in IoCos : ioPc[c] # "out" /\ ioCall[c].mine = fdObj /\ ioCall[c].restore

IoInv == IoTypeOK /\ Numbered /\ FlagsDue /\ \A c \in IoCos : FrameOf(c)

\* What the assumption on the constants gives.
LEMMA IoConstants == MaxObjects \in Nat /\ MaxObjects > 0 /\ 1 \in Objects /\ \A o \in Objects : o \in Nat /\ o # 0
BY HookIoAssumption DEF HookIoAssumption, Objects

\* The fields of what a hooked call keeps on its stack.
LEMMA FrameFields ==
    ASSUME NEW f \in Frame
    PROVE  /\ f.kind \in {"io", "connect", "dontwait"} /\ f.saved \in BOOLEAN /\ f.restore \in BOOLEAN
           /\ f.waitEpoch \in 0 .. MaxObjects /\ f.closedWake \in BOOLEAN /\ f.mine \in 0 .. MaxObjects
           /\ f.raced \in BOOLEAN /\ f.overlapped \in BOOLEAN /\ f.stained \in BOOLEAN /\ f.stuck \in BOOLEAN
BY DEF Frame

\* A step of a call that is under way: the others are not concerned, for if one of
\* them is, it knows that it is not alone.
LEMMA IoCallStep ==
    ASSUME IoInv, NEW c \in IoCos, ioPc[c] # "out",
           UNCHANGED <<fdObj, opened, owned, fdEpoch, fdClosing>>,
           NEW l \in {"out", "call", "again", "wait", "back", "leave"}, ioPc' = [ioPc EXCEPT ![c] = l],
           NEW g \in Frame, ioCall' = [ioCall EXCEPT ![c] = g],
           spoilt \subseteq spoilt', spoilt' \subseteq Objects,
           nonblock' \in [Objects -> BOOLEAN],
           \A o \in Objects : o > opened => nonblock'[o] = nonblock[o],
           \* the frame
           g.mine <= opened, g.waitEpoch <= fdEpoch, l # "out" => g.mine # 0,
           l \in Busy /\ ~g.raced => fdObj = g.mine,
           l \in {"wait", "back"} /\ ~g.raced /\ ~g.closedWake /\ g.waitEpoch = fdEpoch =>
               fdObj = g.mine /\ fdClosing = "no",
           ~g.stained,
           l # "out" /\ g.restore => ~g.saved /\ (g.mine = fdObj /\ fdObj \notin spoilt => ~owned[fdObj]),
           g.stuck => l # "out" /\ (g.overlapped \/ g.raced),
           l # "out" => g.overlapped = ioCall[c].overlapped,
           l # "out" /\ ~g.overlapped /\ ~g.raced /\ g.kind # "dontwait" => nonblock'[g.mine],
           \* the flags
           FlagsDue'
    PROVE  IoInv'
<1>1. /\ IoTypeOK /\ Numbered /\ \A d \in IoCos : FrameOf(d)
      /\ ioPc \in [IoCos -> {"out", "set", "call", "again", "wait", "back", "leave"}]
      /\ ioCall \in [IoCos -> Frame]
  BY DEF IoInv, IoTypeOK
<1>2. /\ ioPc'[c] = l /\ ioCall'[c] = g /\ ioPc' \in [IoCos -> {"out", "set", "call", "again", "wait", "back", "leave"}]
      /\ ioCall' \in [IoCos -> Frame]
      /\ \A d \in IoCos \ {c} : ioPc'[d] = ioPc[d] /\ ioCall'[d] = ioCall[d]
  BY <1>1
<1>3. IoTypeOK'
  BY <1>1, <1>2 DEF IoTypeOK
<1>4. Numbered'
  BY <1>1 DEF Numbered
<1>5. FrameOf(c)'
  <2>1. OwnObject(c)'
    BY <1>2 DEF OwnObject
  <2>2. WillRestore(c)'
    BY <1>2 DEF WillRestore
  <2>3. AloneNonblocking(c)'
    <3>1. l # "out" /\ ~g.overlapped => \A d \in IoCos \ {c} : ioPc[d] = "out"
      BY <1>1 DEF FrameOf, AloneNonblocking
    <3> QED  BY <1>2, <3>1 DEF AloneNonblocking
  <2> QED  BY <2>1, <2>2, <2>3 DEF FrameOf
<1>6. ASSUME NEW d \in IoCos \ {c} PROVE FrameOf(d)'
  <2>1. FrameOf(d) /\ ioPc'[d] = ioPc[d] /\ ioCall'[d] = ioCall[d]
    BY <1>1, <1>2
  <2>2. ioPc[d] # "out" => ioCall[d].overlapped
    BY <2>1 DEF FrameOf, AloneNonblocking
  <2>3. OwnObject(d)'
    BY <2>1 DEF FrameOf, OwnObject
  <2>4. WillRestore(d)'
    BY <2>1 DEF FrameOf, WillRestore
  <2>5. AloneNonblocking(d)'
    BY <2>1, <2>2 DEF FrameOf, AloneNonblocking
  <2> QED  BY <2>3, <2>4, <2>5 DEF FrameOf
<1> QED  BY <1>3, <1>4, <1>5, <1>6 DEF IoInv

\* While the flags stay as they are, they are still due to whoever owed them.
LEMMA FlagsStillDue ==
    ASSUME IoInv, NEW c \in IoCos, UNCHANGED <<fdObj, owned, nonblock>>, spoilt \subseteq spoilt',
           \A d \in IoCos \ {c} : ioPc'[d] = ioPc[d] /\ ioCall'[d] = ioCall[d],
           \/ ioPc'[c] # "out" /\ ioCall'[c].mine = ioCall[c].mine /\ ioCall'[c].restore = ioCall[c].restore
           \/ ~ioCall[c].restore \/ ioPc[c] = "out" \/ ioCall[c].mine \in spoilt' \/ fdObj = 0
    PROVE  FlagsDue'
<1> SUFFICES ASSUME fdObj # 0, fdObj \notin spoilt'
             PROVE  /\ owned[fdObj] => nonblock[fdObj]
                    /\ nonblock[fdObj] /\ ~owned[fdObj] =>
                           \E d \in IoCos : ioPc'[d] # "out" /\ ioCall'[d].mine = fdObj /\ ioCall'[d].restore
  BY DEF FlagsDue
<1>1. FlagsDue
  BY DEF IoInv
<1>2. owned[fdObj] => nonblock[fdObj]
  BY <1>1 DEF FlagsDue
<1>3. ASSUME nonblock[fdObj], ~owned[fdObj]
      PROVE  \E d \in IoCos : ioPc'[d] # "out" /\ ioCall'[d].mine = fdObj /\ ioCall'[d].restore
  <2>1. PICK d \in IoCos : ioPc[d] # "out" /\ ioCall[d].mine = fdObj /\ ioCall[d].restore
    BY <1>1, <1>3 DEF FlagsDue
  <2> QED  BY <2>1
<1> QED  BY <1>2, <1>3

\* A call from its entry to its return, descriptor flags included.
LEMMA IoCallActions ==
    ASSUME IoInv, NEW c \in IoCos,
           \/ SetNonblock(c) \/ SysCall(c) \/ IoGiveUp(c) \/ WaitBegin(c) \/ WaitEnds(c)
           \/ IoResume(c) \/ IoLeave(c)
    PROVE  IoInv'
<1> USE IoConstants
<1> DEFINE f == ioCall[c]
           alien == fdObj \notin {0, f.mine}
<1>1. /\ IoTypeOK /\ Numbered /\ FlagsDue /\ FrameOf(c)
      /\ ioPc \in [IoCos -> {"out", "set", "call", "again", "wait", "back", "leave"}]
      /\ ioCall \in [IoCos -> Frame] /\ f \in Frame /\ spoilt \subseteq Objects
      /\ nonblock \in [Objects -> BOOLEAN]
  BY DEF IoInv, IoTypeOK
<1>2. /\ f.mine \in 0 .. MaxObjects /\ f.waitEpoch \in 0 .. MaxObjects /\ fdObj \in {0, opened}
      /\ opened \in Objects /\ fdEpoch \in 0 .. MaxObjects /\ f.mine <= opened /\ f.waitEpoch <= fdEpoch
      /\ ~f.stained /\ (fdObj # 0 => fdObj \in Objects)
  BY <1>1, FrameFields DEF IoTypeOK, Numbered, FrameOf, OwnObject
<1>3. /\ ioPc[c] \in Busy /\ ~f.raced => fdObj = f.mine
      /\ ioPc[c] # "out" => f.mine # 0 /\ f.mine \in Objects
  BY <1>1, <1>2 DEF FrameOf, OwnObject, Objects
<1>4. /\ ioPc[c] = "set" => ~f.restore
      /\ ioPc[c] # "out" /\ (ioPc[c] = "set" \/ f.restore) =>
             ~f.saved /\ (f.mine = fdObj /\ fdObj \notin spoilt => ~owned[fdObj])
  BY <1>1 DEF FrameOf, WillRestore
<1>5. /\ f.stuck => f.overlapped \/ f.raced
      /\ ioPc[c] \notin {"out", "set"} /\ ~f.overlapped /\ ~f.raced /\ f.kind # "dontwait" =>
             nonblock[f.mine]
  BY <1>1 DEF FrameOf, AloneNonblocking
\* What is left of a frame says nothing.
<1>6. /\ Left(f) \in Frame /\ Left(f).mine = 0 /\ Left(f).waitEpoch = 0 /\ ~Left(f).stained /\ ~Left(f).stuck
      /\ ~Left(f).restore /\ ~Left(f).raced
  <2>1. NoFrame \in Frame
    BY DEF NoFrame, Frame
  <2> QED  BY <1>1, <1>2, <2>1, FrameFields DEF Left, NoFrame, Frame
\* A call that touches what the number names now, raced if that is not its own.
<1>7. ASSUME NEW l \in {"call", "again", "leave", "out"}, NEW e \in Frame, Touching(c, l, e), ioPc[c] \in Busy,
             e.stained = f.stained
      PROVE  \E g \in Frame :
               /\ ioPc' = [ioPc EXCEPT ![c] = l] /\ ioCall' = [ioCall EXCEPT ![c] = g] /\ ~g.stained
               /\ g.kind = e.kind /\ g.saved = e.saved /\ g.restore = e.restore /\ g.waitEpoch = e.waitEpoch
               /\ g.closedWake = e.closedWake /\ g.mine = e.mine /\ g.raced = e.raced
               /\ g.overlapped = e.overlapped /\ g.stuck = e.stuck
               /\ spoilt' = (IF alien THEN spoilt \cup {fdObj} ELSE spoilt)
               /\ spoilt \subseteq spoilt' /\ spoilt' \subseteq Objects
  <2> DEFINE g == [e EXCEPT !.stained = @ \/ (alien /\ ~f.raced)]
  <2>1. ~(alien /\ ~f.raced)
    BY <1>3, <1>7
  <2>2. g \in Frame /\ ~g.stained
    BY <1>2, <1>7, <2>1 DEF Frame
  <2>3. /\ g.kind = e.kind /\ g.saved = e.saved /\ g.restore = e.restore /\ g.waitEpoch = e.waitEpoch
        /\ g.closedWake = e.closedWake /\ g.mine = e.mine /\ g.raced = e.raced
        /\ g.overlapped = e.overlapped /\ g.stuck = e.stuck
    BY DEF Frame
  <2>4. /\ ioPc' = [ioPc EXCEPT ![c] = l] /\ ioCall' = [ioCall EXCEPT ![c] = g]
        /\ spoilt' = (IF alien THEN spoilt \cup {fdObj} ELSE spoilt)
    BY <1>7 DEF Touching
  <2>5. spoilt \subseteq spoilt' /\ spoilt' \subseteq Objects
    BY <1>1, <1>2, <2>4
  <2> HIDE DEF g
  <2> QED  BY <2>2, <2>3, <2>4, <2>5
\* The others, and what the step leaves at c.
<1>8. ASSUME NEW l \in {"out", "call", "again", "wait", "back", "leave"}, NEW g,
             ioPc' = [ioPc EXCEPT ![c] = l], ioCall' = [ioCall EXCEPT ![c] = g]
      PROVE  /\ ioPc'[c] = l /\ ioCall'[c] = g
             /\ \A d \in IoCos \ {c} : ioPc'[d] = ioPc[d] /\ ioCall'[d] = ioCall[d]
  BY <1>1, <1>8
<1> HIDE DEF f, alien
\* A call that returns.
<1>16. ASSUME NEW g \in Frame, g.mine = 0, g.waitEpoch = 0, ~g.stained, ~g.stuck, ioPc[c] # "out",
              ioPc' = [ioPc EXCEPT ![c] = "out"], ioCall' = [ioCall EXCEPT ![c] = g],
              UNCHANGED <<fdObj, opened, owned, fdEpoch, fdClosing>>,
              spoilt \subseteq spoilt', spoilt' \subseteq Objects, nonblock' \in [Objects -> BOOLEAN],
              \A o \in Objects : o > opened => nonblock'[o] = nonblock[o], FlagsDue'
       PROVE  IoInv'
  <2>1. g.mine <= opened /\ g.waitEpoch <= fdEpoch
    BY <1>2, <1>16
  <2>2. "out" \in {"out", "call", "again", "wait", "back", "leave"} /\ "out" \notin Busy
        /\ "out" \notin {"wait", "back"}
    BY DEF Busy
  <2> QED  BY <1>16, <2>1, <2>2, IoCallStep
<1>9. CASE SetNonblock(c)
  <2>1. ioPc[c] = "set" /\ ioPc[c] # "out" /\ ioPc[c] \in Busy /\ UNCHANGED <<fdObj, opened, owned, fdEpoch, fdClosing>>
    BY <1>9 DEF SetNonblock, Busy
  <2>2. CASE fdObj # 0 /\ nonblock' = [nonblock EXCEPT ![fdObj] = TRUE]
             /\ Touching(c, "call", [f EXCEPT !.restore = TRUE])
    <3> DEFINE e == [f EXCEPT !.restore = TRUE]
    <3>1. /\ e \in Frame /\ e.stained = f.stained /\ e.mine = f.mine /\ e.raced = f.raced /\ e.restore
          /\ e.saved = f.saved /\ e.waitEpoch = f.waitEpoch /\ e.stuck = f.stuck /\ e.overlapped = f.overlapped
          /\ e.kind = f.kind
      BY <1>1 DEF Frame
    <3> HIDE DEF e
    <3>2. Touching(c, "call", e)
      BY <2>2 DEF e
    <3>3. PICK g \in Frame :
               /\ ioPc' = [ioPc EXCEPT ![c] = "call"] /\ ioCall' = [ioCall EXCEPT ![c] = g] /\ ~g.stained
               /\ g.kind = f.kind /\ g.saved = f.saved /\ g.restore /\ g.waitEpoch = f.waitEpoch
               /\ g.mine = f.mine /\ g.raced = f.raced
               /\ g.overlapped = f.overlapped /\ g.stuck = f.stuck
               /\ spoilt' = (IF alien THEN spoilt \cup {fdObj} ELSE spoilt)
               /\ spoilt \subseteq spoilt' /\ spoilt' \subseteq Objects
      BY <1>7, <2>1, <3>1, <3>2
    <3>4. /\ nonblock' \in [Objects -> BOOLEAN] /\ nonblock'[fdObj] = TRUE
          /\ \A o \in Objects \ {fdObj} : nonblock'[o] = nonblock[o]
      BY <1>1, <1>2, <2>2
    <3>5. ioPc'[c] = "call" /\ ioCall'[c] = g
      BY <1>8, <3>3
    <3>6. FlagsDue'
      BY <2>1, <2>2, <3>3, <3>4, <3>5 DEF FlagsDue, alien
    <3>7. \A o \in Objects : o > opened => nonblock'[o] = nonblock[o]
      BY <1>2, <3>4
    <3>8. ~g.overlapped /\ ~g.raced /\ g.kind # "dontwait" => nonblock'[g.mine]
      BY <1>3, <2>1, <2>2, <3>3, <3>4
    <3>9. g.restore => ~g.saved /\ (g.mine = fdObj /\ fdObj \notin spoilt => ~owned[fdObj])
      BY <1>4, <2>1, <3>3
    <3> QED  BY <1>2, <1>3, <1>5, <2>1, <3>3, <3>4, <3>6, <3>7, <3>8, <3>9, IoCallStep DEF Busy, f
  <2>3. CASE Going(c, "out", Left(f)) /\ UNCHANGED <<nonblock, spoilt>>
    <3>1. ioPc' = [ioPc EXCEPT ![c] = "out"] /\ ioCall' = [ioCall EXCEPT ![c] = Left(f)]
      BY <2>3 DEF Going
    <3>2. FlagsDue'
      BY <1>4, <1>8, <2>1, <2>3, <3>1, FlagsStillDue DEF f
    <3> QED  BY <1>1, <1>6, <1>16, <2>1, <2>3, <3>1, <3>2
  <2> QED  BY <1>9, <2>2, <2>3 DEF SetNonblock, f
<1>10. CASE SysCall(c)
  <2>1. ioPc[c] = "call" /\ ioPc[c] # "out" /\ ioPc[c] \in Busy
        /\ UNCHANGED <<fdObj, opened, nonblock, owned, fdEpoch, fdClosing>>
    BY <1>10 DEF SysCall, Busy, fdVars
  <2>2. ASSUME NEW l \in {"again", "leave"}, NEW e \in Frame, Touching(c, l, e), e.stained = f.stained,
               e.mine = f.mine, e.raced = f.raced, e.restore = f.restore, e.saved = f.saved,
               e.waitEpoch = f.waitEpoch, e.overlapped = f.overlapped, e.kind = f.kind,
               e.stuck => e.overlapped \/ e.raced
        PROVE  IoInv'
    <3>1. PICK g \in Frame :
               /\ ioPc' = [ioPc EXCEPT ![c] = l] /\ ioCall' = [ioCall EXCEPT ![c] = g] /\ ~g.stained
               /\ g.kind = f.kind /\ g.saved = f.saved /\ g.restore = f.restore /\ g.waitEpoch = f.waitEpoch
               /\ g.mine = f.mine /\ g.raced = f.raced
               /\ g.overlapped = f.overlapped /\ (g.stuck => g.overlapped \/ g.raced)
               /\ spoilt \subseteq spoilt' /\ spoilt' \subseteq Objects
      BY <1>7, <2>1, <2>2
    <3>2. ioPc'[c] = l /\ ioCall'[c] = g /\ \A d \in IoCos \ {c} : ioPc'[d] = ioPc[d] /\ ioCall'[d] = ioCall[d]
      BY <1>8, <3>1
    <3>3. FlagsDue'
      BY <2>1, <3>1, <3>2, FlagsStillDue DEF f
    <3> QED  BY <1>1, <1>2, <1>3, <1>4, <1>5, <2>1, <3>1, <3>3, IoCallStep DEF Busy, f
  <2>3. CASE Touching(c, "leave", f)
    BY <1>1, <1>5, <2>2, <2>3
  <2>4. CASE fdObj # 0 /\ f.kind # "dontwait" /\ Touching(c, "again", [f EXCEPT !.stuck = @ \/ ~nonblock[fdObj]])
    <3> DEFINE e == [f EXCEPT !.stuck = @ \/ ~nonblock[fdObj]]
    <3>1. /\ e \in Frame /\ e.stained = f.stained /\ e.mine = f.mine /\ e.raced = f.raced /\ e.restore = f.restore
          /\ e.saved = f.saved /\ e.waitEpoch = f.waitEpoch /\ e.overlapped = f.overlapped
          /\ e.kind = f.kind /\ (e.stuck <=> f.stuck \/ ~nonblock[fdObj])
      BY <1>1, FrameFields DEF Frame
    <3> HIDE DEF e
    <3>2. e.stuck => e.overlapped \/ e.raced
      BY <1>3, <1>5, <2>1, <2>4, <3>1
    <3>3. Touching(c, "again", e)
      BY <2>4 DEF e
    <3> QED  BY <2>2, <3>1, <3>2, <3>3
  <2> QED  BY <1>10, <2>3, <2>4 DEF SysCall, f
<1>11. CASE IoGiveUp(c)
  <2>1. ioPc[c] = "again" /\ ioPc[c] # "out" /\ ioPc[c] \in Busy
        /\ UNCHANGED <<fdObj, opened, nonblock, owned, fdEpoch, fdClosing>>
    BY <1>11 DEF IoGiveUp, Busy, fdVars
  <2>2. \E g \in Frame :
               /\ ioPc' = [ioPc EXCEPT ![c] = "leave"] /\ ioCall' = [ioCall EXCEPT ![c] = g] /\ ~g.stained
               /\ g.kind = f.kind /\ g.saved = f.saved /\ g.restore = f.restore /\ g.waitEpoch = f.waitEpoch
               /\ g.mine = f.mine /\ g.raced = f.raced
               /\ g.overlapped = f.overlapped /\ g.stuck = f.stuck
               /\ spoilt \subseteq spoilt' /\ spoilt' \subseteq Objects
    <3>1. CASE Touching(c, "leave", f)
      BY <1>1, <1>7, <2>1, <3>1
    <3>2. CASE Going(c, "leave", f) /\ UNCHANGED spoilt
      BY <1>1, <1>2, <3>2 DEF Going
    <3> QED  BY <1>11, <3>1, <3>2 DEF IoGiveUp, f
  <2>3. PICK g \in Frame :
               /\ ioPc' = [ioPc EXCEPT ![c] = "leave"] /\ ioCall' = [ioCall EXCEPT ![c] = g] /\ ~g.stained
               /\ g.kind = f.kind /\ g.saved = f.saved /\ g.restore = f.restore /\ g.waitEpoch = f.waitEpoch
               /\ g.mine = f.mine /\ g.raced = f.raced
               /\ g.overlapped = f.overlapped /\ g.stuck = f.stuck
               /\ spoilt \subseteq spoilt' /\ spoilt' \subseteq Objects
    BY <2>2
  <2>4. ioPc'[c] = "leave" /\ ioCall'[c] = g /\ \A d \in IoCos \ {c} : ioPc'[d] = ioPc[d] /\ ioCall'[d] = ioCall[d]
    BY <1>8, <2>3
  <2>5. FlagsDue'
    BY <2>1, <2>3, <2>4, FlagsStillDue DEF f
  <2> QED  BY <1>1, <1>2, <1>3, <1>4, <1>5, <2>1, <2>3, <2>5, IoCallStep DEF Busy, f
<1>12. CASE WaitBegin(c)
  <2> DEFINE g == [f EXCEPT !.waitEpoch = fdEpoch, !.closedWake = fdClosing # "no"]
             l == IF fdClosing = "no" THEN "wait" ELSE "back"
  <2>1. /\ ioPc[c] = "again" /\ ioPc[c] # "out" /\ ioPc[c] \in Busy
        /\ UNCHANGED <<fdObj, opened, nonblock, owned, fdEpoch, fdClosing, spoilt>>
        /\ ioPc' = [ioPc EXCEPT ![c] = l] /\ ioCall' = [ioCall EXCEPT ![c] = g]
    BY <1>12 DEF WaitBegin, Busy, fdVars, Going, f
  <2>2. /\ g \in Frame /\ g.stained = f.stained /\ g.mine = f.mine /\ g.raced = f.raced /\ g.restore = f.restore
        /\ g.saved = f.saved /\ g.waitEpoch = fdEpoch /\ g.overlapped = f.overlapped
        /\ g.kind = f.kind /\ g.stuck = f.stuck /\ (g.closedWake <=> fdClosing # "no")
    BY <1>1, <1>2, FrameFields DEF Frame
  <2>3. l \in {"wait", "back"}
    OBVIOUS
  <2> HIDE DEF g, l
  <2>4. ioPc'[c] = l /\ ioCall'[c] = g /\ \A d \in IoCos \ {c} : ioPc'[d] = ioPc[d] /\ ioCall'[d] = ioCall[d]
    BY <1>8, <2>1, <2>3
  <2>5. FlagsDue'
    BY <2>1, <2>2, <2>3, <2>4, FlagsStillDue DEF f
  <2>6. /\ ~g.raced /\ ~g.closedWake => fdObj = g.mine /\ fdClosing = "no"
        /\ g.waitEpoch <= fdEpoch /\ g.mine <= opened /\ g.mine # 0 /\ ~g.stained
    BY <1>2, <1>3, <2>1, <2>2
  <2>7. l \notin Busy /\ l # "out" /\ l \in {"out", "call", "again", "wait", "back", "leave"}
    BY <2>3 DEF Busy
  <2>8. /\ g.restore => ~g.saved /\ (g.mine = fdObj /\ fdObj \notin spoilt => ~owned[fdObj])
        /\ g.stuck => g.overlapped \/ g.raced
        /\ g.overlapped = ioCall[c].overlapped
        /\ ~g.overlapped /\ ~g.raced /\ g.kind # "dontwait" => nonblock[g.mine]
    BY <1>4, <1>5, <2>1, <2>2 DEF f
  <2> QED  BY <1>1, <2>1, <2>2, <2>5, <2>6, <2>7, <2>8, IoCallStep
<1>13. CASE WaitEnds(c)
  <2>1. /\ ioPc[c] = "wait" /\ ioPc[c] # "out"
        /\ UNCHANGED <<fdObj, opened, nonblock, owned, fdEpoch, fdClosing, spoilt>>
        /\ ioPc' = [ioPc EXCEPT ![c] = "back"] /\ ioCall' = [ioCall EXCEPT ![c] = f]
    BY <1>13 DEF WaitEnds, fdVars, Going, f
  <2>2. FlagsDue'
    BY <1>8, <2>1, FlagsStillDue DEF f
  <2>3. ~f.raced /\ ~f.closedWake /\ f.waitEpoch = fdEpoch => fdObj = f.mine /\ fdClosing = "no"
    BY <1>1, <2>1 DEF FrameOf, OwnObject, f
  <2> QED  BY <1>1, <1>2, <1>3, <1>4, <1>5, <2>1, <2>2, <2>3, IoCallStep DEF Busy, f
<1>14. CASE IoResume(c)
  <2>1. /\ ioPc[c] = "back" /\ ioPc[c] # "out"
        /\ UNCHANGED <<fdObj, opened, nonblock, owned, fdEpoch, fdClosing>>
    BY <1>14 DEF IoResume, fdVars
  <2>2. CASE WaitEpochValid(f)
    <3>1. ioPc' = [ioPc EXCEPT ![c] = "call"] /\ ioCall' = [ioCall EXCEPT ![c] = f] /\ UNCHANGED spoilt
      BY <1>14, <2>2 DEF IoResume, Going, f
    <3>2. ~f.raced => fdObj = f.mine
      BY <1>1, <2>1, <2>2 DEF FrameOf, OwnObject, f, WaitEpochValid
    <3>3. FlagsDue'
      BY <1>8, <2>1, <3>1, FlagsStillDue DEF f
    <3> QED  BY <1>1, <1>2, <1>3, <1>4, <1>5, <2>1, <3>1, <3>2, <3>3, IoCallStep DEF Busy, f
  <2>3. CASE ~WaitEpochValid(f)
    <3>1. ioPc' = [ioPc EXCEPT ![c] = "out"] /\ ioCall' = [ioCall EXCEPT ![c] = Left(f)]
          /\ spoilt' = spoilt \cup {f.mine}
      BY <1>14, <2>3 DEF IoResume, Going, f
    <3>2. spoilt \subseteq spoilt' /\ spoilt' \subseteq Objects /\ f.mine \in spoilt'
      BY <1>1, <1>3, <2>1, <3>1
    <3>3. FlagsDue'
      BY <1>8, <2>1, <3>1, <3>2, FlagsStillDue DEF f
    <3> QED  BY <1>1, <1>6, <1>16, <2>1, <3>1, <3>2, <3>3
  <2> QED  BY <2>2, <2>3
<1>15. CASE IoLeave(c)
  <2>1. ioPc[c] = "leave" /\ ioPc[c] # "out" /\ ioPc[c] \in Busy /\ UNCHANGED <<fdObj, opened, owned, fdEpoch, fdClosing>>
    BY <1>15 DEF IoLeave, Busy
  <2>2. CASE f.restore /\ fdObj # 0
    <3>1. nonblock' = [nonblock EXCEPT ![fdObj] = f.saved] /\ Touching(c, "out", Left(f))
      BY <1>15, <2>2 DEF IoLeave, GivesBack, f
    <3>2. Left(f).stained = f.stained
      BY <1>1 DEF Left, NoFrame
    <3>3. PICK g \in Frame :
               /\ ioPc' = [ioPc EXCEPT ![c] = "out"] /\ ioCall' = [ioCall EXCEPT ![c] = g] /\ ~g.stained
               /\ g.waitEpoch = Left(f).waitEpoch /\ g.mine = Left(f).mine /\ g.stuck = Left(f).stuck
               /\ spoilt' = (IF alien THEN spoilt \cup {fdObj} ELSE spoilt)
               /\ spoilt \subseteq spoilt' /\ spoilt' \subseteq Objects
      BY <1>6, <1>7, <2>1, <3>1, <3>2
    <3>4. ~f.saved /\ (f.mine = fdObj /\ fdObj \notin spoilt => ~owned[fdObj])
      BY <1>4, <2>1, <2>2
    <3>5. /\ nonblock' \in [Objects -> BOOLEAN] /\ ~nonblock'[fdObj]
          /\ \A o \in Objects \ {fdObj} : nonblock'[o] = nonblock[o]
      BY <1>1, <1>2, <2>2, <3>1, <3>4, FrameFields
    <3>6. FlagsDue'
      BY <2>1, <2>2, <3>3, <3>4, <3>5 DEF FlagsDue, alien
    <3>7. \A o \in Objects : o > opened => nonblock'[o] = nonblock[o]
      BY <1>2, <3>5
    <3> QED  BY <1>6, <1>16, <2>1, <3>3, <3>5, <3>6, <3>7
  <2>3. CASE ~(f.restore /\ fdObj # 0)
    <3>1. ioPc' = [ioPc EXCEPT ![c] = "out"] /\ ioCall' = [ioCall EXCEPT ![c] = Left(f)]
          /\ UNCHANGED <<nonblock, spoilt>>
      BY <1>15, <2>3 DEF IoLeave, GivesBack, Going, f
    <3>2. FlagsDue'
      BY <1>8, <2>1, <2>3, <3>1, FlagsStillDue DEF f
    <3> QED  BY <1>1, <1>6, <1>16, <2>1, <3>1, <3>2
  <2> QED  BY <2>2, <2>3
<1> QED  BY <1>9, <1>10, <1>11, <1>12, <1>13, <1>14, <1>15

\* Marking a call as overlapped changes nothing else of it.
LEMMA OverlapField ==
    ASSUME NEW r \in Frame, NEW b \in BOOLEAN, NEW q, q = [r EXCEPT !.overlapped = b]
    PROVE  /\ q \in Frame /\ q.overlapped = b /\ q.kind = r.kind /\ q.saved = r.saved
           /\ q.restore = r.restore /\ q.waitEpoch = r.waitEpoch /\ q.closedWake = r.closedWake
           /\ q.mine = r.mine /\ q.raced = r.raced /\ q.stained = r.stained /\ q.stuck = r.stuck
BY DEF Frame

\* A call that enters marks those it meets.
LEMMA IoEnterStep ==
    ASSUME IoInv, NEW c \in IoCos, NEW k \in {"io", "connect", "dontwait"}, IoEnter(c, k)
    PROVE  IoInv'
<1> USE IoConstants
<1> DEFINE f == [NoFrame EXCEPT !.kind = k, !.mine = fdObj, !.saved = nonblock[fdObj],
                                !.overlapped = Inside # {}]
<1>1. /\ IoTypeOK /\ Numbered /\ FlagsDue /\ \A d \in IoCos : FrameOf(d)
      /\ ioPc \in [IoCos -> {"out", "set", "call", "again", "wait", "back", "leave"}]
      /\ ioCall \in [IoCos -> Frame] /\ nonblock \in [Objects -> BOOLEAN] /\ fdObj \in 0 .. MaxObjects
      /\ fdObj \in {0, opened} /\ opened \in Objects /\ fdEpoch \in 0 .. MaxObjects
  BY DEF IoInv, IoTypeOK, Numbered
<1>2. /\ ioPc[c] = "out" /\ fdObj # 0 /\ UNCHANGED <<fdObj, opened, nonblock, owned, fdEpoch, fdClosing, spoilt>>
      /\ ioPc' = [ioPc EXCEPT ![c] = IF k = "dontwait" \/ nonblock[fdObj] THEN "call" ELSE "set"]
      /\ ioCall' = [d \in IoCos |-> IF d = c THEN f
                                  ELSE [ioCall[d] EXCEPT !.overlapped = d \in Inside]]
  BY DEF IoEnter, fdVars
<1>3. /\ f \in Frame /\ f.kind = k /\ f.mine = fdObj /\ f.saved = nonblock[fdObj] /\ ~f.restore /\ f.waitEpoch = 0
      /\ ~f.closedWake /\ ~f.raced /\ ~f.stained /\ ~f.stuck /\ (f.overlapped <=> Inside # {})
  <2>1. NoFrame \in Frame
    BY DEF NoFrame, Frame
  <2>2. nonblock[fdObj] \in BOOLEAN
    BY <1>1, <1>2
  <2> QED  BY <1>1, <2>1, <2>2 DEF NoFrame, Frame
<1> HIDE DEF f
<1>4. ASSUME NEW d \in IoCos \ {c}
      PROVE  /\ ioPc'[d] = ioPc[d] /\ ioCall'[d] \in Frame
             /\ ioCall'[d].kind = ioCall[d].kind /\ ioCall'[d].saved = ioCall[d].saved
             /\ ioCall'[d].restore = ioCall[d].restore /\ ioCall'[d].waitEpoch = ioCall[d].waitEpoch
             /\ ioCall'[d].closedWake = ioCall[d].closedWake /\ ioCall'[d].mine = ioCall[d].mine
             /\ ioCall'[d].raced = ioCall[d].raced /\ ioCall'[d].stained = ioCall[d].stained
             /\ ioCall'[d].stuck = ioCall[d].stuck /\ (ioCall'[d].overlapped <=> ioPc[d] # "out")
  <2>1. ioCall'[d] = [ioCall[d] EXCEPT !.overlapped = d \in Inside] /\ ioCall[d] \in Frame
    BY <1>1, <1>2
  <2>2. d \in Inside <=> ioPc[d] # "out"
    BY DEF Inside
  <2>3. ioPc'[d] = ioPc[d]
    BY <1>1, <1>2
  <2>4. PICK b \in BOOLEAN : b <=> d \in Inside
    OBVIOUS
  <2>5. ioCall'[d] = [ioCall[d] EXCEPT !.overlapped = b]
    BY <2>1, <2>4
  <2> QED  BY <2>1, <2>2, <2>3, <2>4, <2>5, OverlapField
<1>5. /\ ioCall'[c] = f /\ ioPc'[c] \in {"call", "set"}
      /\ (ioPc'[c] = "call" => k = "dontwait" \/ nonblock[fdObj]) /\ (ioPc'[c] = "set" => ~nonblock[fdObj])
  BY <1>1, <1>2
<1>6. ioPc' \in [IoCos -> {"out", "set", "call", "again", "wait", "back", "leave"}] /\ ioCall' \in [IoCos -> Frame]
  <2>1. ioCall' \in [IoCos -> Frame]
    <3>1. \A d \in IoCos : ioCall'[d] \in Frame
      BY <1>3, <1>4, <1>5
    <3>2. ioCall' = [d \in IoCos |-> ioCall'[d]]
      BY <1>2
    <3> QED  BY <3>1, <3>2
  <2> QED  BY <1>1, <1>2, <2>1
<1>7. IoTypeOK' /\ Numbered'
  BY <1>1, <1>2, <1>6 DEF IoTypeOK, Numbered
<1>8. FrameOf(c)'
  <2>1. OwnObject(c)'
    BY <1>1, <1>2, <1>3, <1>5 DEF OwnObject, Busy
  <2>2. WillRestore(c)'
    BY <1>1, <1>2, <1>3, <1>5 DEF WillRestore, FlagsDue
  <2>3. AloneNonblocking(c)'
    <3>1. ~f.overlapped => \A d \in IoCos \ {c} : ioPc'[d] = "out"
      BY <1>3, <1>4 DEF Inside
    <3> QED  BY <1>2, <1>3, <1>5, <3>1 DEF AloneNonblocking
  <2> QED  BY <2>1, <2>2, <2>3 DEF FrameOf
<1>9. ASSUME NEW d \in IoCos \ {c} PROVE FrameOf(d)'
  <2>1. FrameOf(d)
    BY <1>1
  <2>2. OwnObject(d)'
    <3>1. OwnObject(d) /\ UNCHANGED <<fdObj, opened, fdEpoch, fdClosing>>
      BY <1>2, <2>1 DEF FrameOf
    <3> QED  BY <1>4, <1>9, <3>1 DEF OwnObject
  <2>3. WillRestore(d)'
    BY <1>2, <1>4, <1>9, <2>1 DEF FrameOf, WillRestore
  <2>4. AloneNonblocking(d)'
    <3>1. AloneNonblocking(d) /\ UNCHANGED <<fdObj, nonblock>>
      BY <1>2, <2>1 DEF FrameOf
    <3>2. ioCall'[d].overlapped <=> ioPc'[d] # "out"
      BY <1>4, <1>9
    <3> QED  BY <1>4, <1>9, <3>1, <3>2 DEF AloneNonblocking
  <2> QED  BY <2>2, <2>3, <2>4 DEF FrameOf
<1>10. FlagsDue'
  <2> SUFFICES ASSUME fdObj \notin spoilt
               PROVE  /\ owned[fdObj] => nonblock[fdObj]
                      /\ nonblock[fdObj] /\ ~owned[fdObj] =>
                           \E d \in IoCos : ioPc'[d] # "out" /\ ioCall'[d].mine = fdObj /\ ioCall'[d].restore
    BY <1>2 DEF FlagsDue
  <2>1. owned[fdObj] => nonblock[fdObj]
    BY <1>1, <1>2 DEF FlagsDue
  <2>2. ASSUME nonblock[fdObj], ~owned[fdObj]
        PROVE  \E d \in IoCos : ioPc'[d] # "out" /\ ioCall'[d].mine = fdObj /\ ioCall'[d].restore
    <3>1. PICK d \in IoCos : ioPc[d] # "out" /\ ioCall[d].mine = fdObj /\ ioCall[d].restore
      BY <1>1, <1>2, <2>2 DEF FlagsDue
    <3>2. d # c
      BY <1>2, <3>1
    <3> QED  BY <1>4, <3>1, <3>2
  <2> QED  BY <2>1, <2>2
<1> QED  BY <1>7, <1>8, <1>9, <1>10 DEF IoInv

\* What a close does to the frames: nobody enters or leaves, and who was busy raced.
LEMMA MeetsFrames ==
    ASSUME IoInv, NEW c \in IoCos
    PROVE  /\ Meets[c] \in Frame /\ Meets[c].kind = ioCall[c].kind /\ Meets[c].saved = ioCall[c].saved
           /\ Meets[c].restore = ioCall[c].restore /\ Meets[c].waitEpoch = ioCall[c].waitEpoch
           /\ (Meets[c].closedWake <=> ioCall[c].closedWake \/ ioPc[c] = "wait")
           /\ Meets[c].mine = ioCall[c].mine
           /\ (Meets[c].raced <=> ioCall[c].raced \/ ioPc[c] \notin {"out", "wait", "back"})
           /\ Meets[c].overlapped = ioCall[c].overlapped /\ Meets[c].stained = ioCall[c].stained
           /\ Meets[c].stuck = ioCall[c].stuck
<1>1. ioCall[c] \in Frame
  BY DEF IoInv, IoTypeOK
<1>2. Meets[c] = [ioCall[c] EXCEPT !.closedWake = @ \/ ioPc[c] = "wait",
                                   !.raced = @ \/ ioPc[c] \notin {"out", "wait", "back"}]
  BY DEF Meets
<1> QED  BY <1>1, <1>2 DEF Frame

\* A step of a close or of the number: no call moves, but for waits that end.
LEMMA IoFdStep ==
    ASSUME IoInv, CloseBegin \/ CloseCall \/ CloseEnd \/ Reopen
    PROVE  IoInv'
<1> USE IoConstants
<1>1. /\ IoTypeOK /\ Numbered /\ FlagsDue /\ \A d \in IoCos : FrameOf(d)
      /\ ioPc \in [IoCos -> {"out", "set", "call", "again", "wait", "back", "leave"}]
      /\ ioCall \in [IoCos -> Frame] /\ nonblock \in [Objects -> BOOLEAN]
      /\ fdObj \in {0, opened} /\ opened \in 1 .. MaxObjects /\ fdEpoch \in 0 .. MaxObjects
  BY DEF IoInv, IoTypeOK, Numbered, Objects
<1>2. /\ fdEpoch = IF fdObj = 0 \/ fdClosing = "begun" THEN opened ELSE opened - 1
      /\ (fdClosing = "begun" => fdObj # 0) /\ \A o \in Objects : o > opened => nonblock[o] = owned[o]
  BY <1>1 DEF Numbered
<1>3. CASE CloseBegin
  <2>1. /\ fdObj # 0 /\ fdClosing = "no" /\ fdEpoch' = fdEpoch + 1 /\ fdClosing' = "begun" /\ ioCall' = Meets
        /\ ioPc' = [c \in IoCos |-> IF ioPc[c] = "wait" THEN "back" ELSE ioPc[c]]
        /\ UNCHANGED <<fdObj, opened, nonblock, owned, spoilt>>
    BY <1>3 DEF CloseBegin
  <2>2. \A c \in IoCos : ioPc'[c] = IF ioPc[c] = "wait" THEN "back" ELSE ioPc[c]
    BY <2>1
  <2>3. ioPc' \in [IoCos -> {"out", "set", "call", "again", "wait", "back", "leave"}] /\ ioCall' \in [IoCos -> Frame]
    <3>1. Meets = [c \in IoCos |-> Meets[c]]
      BY DEF Meets
    <3> QED  BY <1>1, <2>1, <3>1, MeetsFrames
  <2>4. fdEpoch' \in 0 .. MaxObjects
    BY <1>1, <1>2, <2>1
  <2>5. IoTypeOK'
    BY <1>1, <2>1, <2>3, <2>4 DEF IoTypeOK
  <2>6. Numbered'
    BY <1>1, <1>2, <2>1 DEF Numbered
  <2>7. FlagsDue'
    <3>1. \A c \in IoCos : /\ ioPc[c] # "out" => ioPc'[c] # "out"
                           /\ ioCall'[c].mine = ioCall[c].mine /\ ioCall'[c].restore = ioCall[c].restore
      BY <2>1, <2>2, MeetsFrames
    <3> QED  BY <1>1, <2>1, <3>1 DEF FlagsDue
  <2>8. ASSUME NEW c \in IoCos PROVE FrameOf(c)'
    <3>1. FrameOf(c) /\ ioCall[c] \in Frame /\ ioPc[c] \in {"out", "set", "call", "again", "wait", "back", "leave"}
      BY <1>1
    <3>2. ioCall'[c].waitEpoch \in 0 .. MaxObjects /\ ioCall'[c].waitEpoch <= fdEpoch
      BY <2>1, <3>1, MeetsFrames, FrameFields DEF FrameOf, OwnObject
    <3>3. ioCall'[c].waitEpoch <= fdEpoch' /\ ioCall'[c].waitEpoch # fdEpoch'
      BY <1>1, <2>1, <3>2
    <3>4. OwnObject(c)'
      BY <2>1, <2>2, <3>1, <3>3, MeetsFrames DEF FrameOf, OwnObject, Busy
    <3>5. WillRestore(c)'
      BY <2>1, <2>2, <3>1, MeetsFrames DEF FrameOf, WillRestore
    <3>6. AloneNonblocking(c)'
      BY <2>1, <2>2, <3>1, MeetsFrames DEF FrameOf, AloneNonblocking
    <3> QED  BY <3>4, <3>5, <3>6 DEF FrameOf
  <2> QED  BY <2>5, <2>6, <2>7, <2>8 DEF IoInv
<1>4. CASE CloseCall
  <2>1. /\ fdClosing = "begun" /\ fdObj' = 0 /\ fdClosing' = "called" /\ ioCall' = Meets
        /\ UNCHANGED <<opened, nonblock, owned, fdEpoch, ioPc, spoilt>>
    BY <1>4 DEF CloseCall
  <2>2. ioCall' \in [IoCos -> Frame]
    <3>1. Meets = [c \in IoCos |-> Meets[c]]
      BY DEF Meets
    <3> QED  BY <2>1, <3>1, MeetsFrames
  <2>3. IoTypeOK'
    BY <1>1, <2>1, <2>2 DEF IoTypeOK
  <2>4. Numbered' /\ FlagsDue'
    BY <1>1, <1>2, <2>1 DEF Numbered, FlagsDue
  <2>5. ASSUME NEW c \in IoCos PROVE FrameOf(c)'
    <3>1. FrameOf(c) /\ ioCall[c] \in Frame
      BY <1>1
    <3>2. OwnObject(c)'
      BY <2>1, <3>1, MeetsFrames DEF FrameOf, OwnObject, Busy
    <3>3. WillRestore(c)'
      BY <2>1, <3>1, MeetsFrames DEF FrameOf, WillRestore, OwnObject
    <3>4. AloneNonblocking(c)'
      BY <2>1, <3>1, MeetsFrames DEF FrameOf, AloneNonblocking
    <3> QED  BY <3>2, <3>3, <3>4 DEF FrameOf
  <2> QED  BY <2>3, <2>4, <2>5 DEF IoInv
<1>5. CASE CloseEnd
  <2>1. /\ fdClosing = "called" /\ fdClosing' = "no"
        /\ UNCHANGED <<fdObj, opened, nonblock, owned, fdEpoch, ioPc, ioCall, spoilt>>
    BY <1>5 DEF CloseEnd
  <2>2. IoTypeOK' /\ Numbered' /\ FlagsDue'
    BY <1>1, <1>2, <2>1 DEF IoTypeOK, Numbered, FlagsDue
  <2>3. \A c \in IoCos : FrameOf(c)'
    BY <1>1, <2>1 DEF FrameOf, OwnObject, WillRestore, AloneNonblocking
  <2> QED  BY <2>2, <2>3 DEF IoInv
<1>6. CASE Reopen
  <2>1. /\ fdObj = 0 /\ opened' = opened + 1 /\ fdObj' = opened + 1 /\ opened < MaxObjects
        /\ UNCHANGED <<nonblock, owned, fdEpoch, fdClosing, ioPc, ioCall, spoilt>>
    BY <1>6 DEF Reopen
  <2>2. opened' \in Objects /\ opened' \in Nat /\ fdObj' # 0 /\ fdObj' = opened' /\ opened' > opened
    BY <1>1, <2>1 DEF Objects
  <2>3. IoTypeOK'
    BY <1>1, <2>1, <2>2 DEF IoTypeOK, Objects
  <2>4. Numbered'
    BY <1>1, <1>2, <2>1, <2>2 DEF Numbered
  <2>5. FlagsDue'
    BY <1>2, <2>1, <2>2 DEF FlagsDue
  <2>6. ASSUME NEW c \in IoCos PROVE FrameOf(c)'
    <3>1. /\ FrameOf(c) /\ ioCall[c].mine \in Nat /\ ioCall[c].mine <= opened /\ ioCall[c].mine # fdObj'
      BY <1>1, <2>1, FrameFields DEF FrameOf, OwnObject
    <3>2. OwnObject(c)'
      BY <1>1, <2>1, <2>2, <3>1 DEF FrameOf, OwnObject, Busy
    <3>3. WillRestore(c)' /\ AloneNonblocking(c)'
      BY <2>1, <3>1 DEF FrameOf, WillRestore, AloneNonblocking
    <3> QED  BY <3>2, <3>3 DEF FrameOf
  <2> QED  BY <2>3, <2>4, <2>5, <2>6 DEF IoInv
<1> QED  BY <1>3, <1>4, <1>5, <1>6

\* A hooked system call (Hook.cc, CoIoNonblockGuard and CoWaitFdReady) does nothing to an
\* object that took the number of its own, gives the flags back as their owner set
\* them and does not block its worker, for any number of coroutines on the descriptor and
\* any number of objects behind it.
THEOREM DescriptorKeptHolds == IoSpec => []DescriptorKept
<1>1. IoInit => IoInv
  <2> SUFFICES ASSUME IoInit PROVE IoInv
    OBVIOUS
  <2> USE IoConstants
  <2>1. NoFrame \in Frame /\ NoFrame.mine = 0 /\ NoFrame.waitEpoch = 0 /\ ~NoFrame.stained /\ ~NoFrame.stuck
        /\ ~NoFrame.restore
    BY DEF NoFrame, Frame
  <2>2. owned \in [Objects -> BOOLEAN] /\ nonblock = owned
    BY DEF IoInit
  <2>3. IoTypeOK
    BY <2>1, <2>2 DEF IoInit, IoTypeOK
  <2>4. Numbered /\ FlagsDue
    BY <2>2 DEF IoInit, Numbered, FlagsDue
  <2>5. \A c \in IoCos : ioPc[c] = "out" /\ ioCall[c] = NoFrame
    BY DEF IoInit
  <2>6. opened = 1 /\ fdEpoch = 0
    BY DEF IoInit
  <2>7. \A c \in IoCos : FrameOf(c)
    BY <2>1, <2>5, <2>6 DEF FrameOf, OwnObject, WillRestore, AloneNonblocking, Busy
  <2> QED  BY <2>3, <2>4, <2>7 DEF IoInv
<1>2. IoInv /\ [IoNext]_ioVars => IoInv'
  <2>1. IoInv /\ IoNext => IoInv'
    BY IoCallActions, IoEnterStep, IoFdStep DEF IoNext
  <2>2. IoInv /\ UNCHANGED ioVars => IoInv'
    BY DEF IoInv, ioVars, fdVars, IoTypeOK, Numbered, FlagsDue, FrameOf, OwnObject, WillRestore,
           AloneNonblocking
  <2> QED  BY <2>1, <2>2
<1>3. IoInv => DescriptorKept
  <2> SUFFICES ASSUME IoInv PROVE DescriptorKept
    OBVIOUS
  <2>1. IoTypeOK /\ StaleUntouched
    BY DEF IoInv, StaleUntouched, FrameOf, OwnObject
  <2>2. NeverBlocks
    BY DEF IoInv, NeverBlocks, FrameOf, AloneNonblocking
  <2>3. FlagsKept
    <3> SUFFICES ASSUME fdObj # 0, Inside = {}, fdObj \notin spoilt PROVE nonblock[fdObj] = owned[fdObj]
      BY DEF FlagsKept
    <3>1. \A c \in IoCos : ioPc[c] = "out"
      BY DEF Inside
    <3>2. nonblock[fdObj] <=> owned[fdObj]
      BY <3>1 DEF IoInv, FlagsDue
    <3>3. fdObj \in Objects
      BY DEF IoInv, IoTypeOK, Objects
    <3>4. nonblock[fdObj] \in BOOLEAN /\ owned[fdObj] \in BOOLEAN
      BY <3>3 DEF IoInv, IoTypeOK
    <3> QED  BY <3>2, <3>4
  <2> QED  BY <2>1, <2>2, <2>3 DEF DescriptorKept
<1> QED  BY <1>1, <1>2, <1>3, PTL DEF IoSpec

-----------------------------------------------------------------------------
(* HookTime.                                                                *)

\* A call that was made has the outcome of its function.
CallOf(r, spent) ==
    CASE r.kind = "sleep" -> HookSleep(r)
      [] r.kind = "usleep" -> HookUSleep(r)
      [] r.kind = "nanosleep" -> HookNanosleep(r)
      [] r.kind = "clock_abstime" -> HookClockNanosleep(r)
      [] r.kind = "so_timeo" -> HookIoTimeout(r, spent)
      [] r.kind = "select" -> HookSelect(r)
      [] r.kind = "pselect" -> HookPSelect(r)
TimeInv ==
    /\ request \in Requests /\ elapsed \in Nat
    /\ outcome # Returns(1) => outcome = CallOf(request, elapsed)

\* What the assumption on the constants gives.
LEMMA TimeConstants ==
    /\ IntMax \in Nat /\ UIntMax \in Nat /\ UIntMax + 1 \in Nat /\ IntMax < UIntMax + 1
    /\ Now[1] \in Nat /\ Now[2] \in Nat /\ Now[2] <= 999999999
BY SMT, HookTimeAssumption DEF HookTimeAssumption, UIntMax

\* A number that fits an int goes through the narrowing unchanged.
LEMMA ToIntKeeps ==
    ASSUME NEW n \in Nat, n <= IntMax
    PROVE  ToInt(n) = n
<1>1. IntMax \in Nat /\ UIntMax + 1 \in Nat /\ n < UIntMax + 1
  BY SMT, TimeConstants
<1>2. n % (UIntMax + 1) = n
  <2> HIDE DEF UIntMax
  <2> QED  BY <1>1
<1> QED  BY <1>1, <1>2 DEF ToInt, Unsigned

\* What a request is made of.
LEMMA RequestParts ==
    ASSUME NEW r \in Requests
    PROVE  /\ r.kind \in TimeKinds /\ r.sec \in Nat /\ r.frac \in Nat
           /\ r.frac <= FracMax(r.kind) /\ IntMax \in Nat
           /\ Now[1] \in Nat /\ Now[2] \in Nat /\ Now[2] <= 999999999
BY SMT, TimeConstants, HookTimeAssumption DEF HookTimeAssumption, Requests

\* A timer for a positive time, and nothing else, is a timer of that time.
LEMMA TimerPositive ==
    ASSUME NEW ms \in Nat, ms > 0
    PROVE  Timer(ms) = [how |-> "timer", n |-> ms]
BY DEF Timer

\* Each function, on a request inside the limits, asks for the time.
LastsRight(r, out) ==
    IF Asked(r) > 0 THEN out = Timer(Asked(r)) ELSE out.how = "returns"

LEMMA SleepLasts ==
    ASSUME NEW r \in Requests, r.kind = "sleep", Fits(r)
    PROVE  LastsRight(r, HookSleep(r))
<1>1. Asked(r) = r.sec * 1000 /\ Asked(r) \in Nat /\ Asked(r) <= IntMax
  BY SMT, RequestParts DEF Asked, Fits
<1>2. ToInt(r.sec * 1000) = Asked(r)
  BY <1>1, ToIntKeeps
<1> QED  BY <1>1, <1>2 DEF LastsRight, HookSleep, Returns

LEMMA USleepLasts ==
    ASSUME NEW r \in Requests, r.kind = "usleep", Fits(r)
    PROVE  LastsRight(r, HookUSleep(r))
<1>1. Asked(r) = CeilDiv(r.frac, 1000) /\ r.frac + 999 <= UIntMax /\ r.frac \in Nat
  BY SMT, RequestParts DEF Asked, Fits
<1>2. UIntMax \in Nat
  BY SMT, TimeConstants
<1>3. Unsigned(r.frac + 999) = r.frac + 999
  BY <1>1, <1>2 DEF Unsigned
<1>4. CeilDiv(r.frac, 1000) = (r.frac + 999) \div 1000
  BY SMT, <1>1 DEF CeilDiv
<1>5. r.frac = 0 => Asked(r) = 0
  BY <1>1, <1>4
<1>6. r.frac # 0 => Asked(r) > 0
  BY <1>1, <1>4
<1>7. HookUSleep(r) = IF r.frac = 0 THEN Returns(0) ELSE Timer(Asked(r))
  BY <1>1, <1>3, <1>4 DEF HookUSleep
<1> QED  BY <1>1, <1>5, <1>6, <1>7 DEF LastsRight, Returns

LEMMA NanosleepLasts ==
    ASSUME NEW r \in Requests, r.kind = "nanosleep", Fits(r)
    PROVE  LastsRight(r, HookNanosleep(r))
<1>1. /\ Asked(r) = r.sec * 1000 + CeilDiv(r.frac, 1000000) /\ Asked(r) <= IntMax
      /\ r.sec \in Nat /\ r.frac \in Nat
  BY SMT, RequestParts DEF Asked, Fits
<1>2. CeilDiv(r.frac, 1000000) \in Nat
  BY SMT, <1>1 DEF CeilDiv
<1>3. Asked(r) \in Nat /\ ToInt(Asked(r)) = Asked(r)
  BY SMT, <1>1, <1>2, ToIntKeeps
<1>4. HookNanosleep(r) = IF Asked(r) <= 0 THEN Returns(0) ELSE Timer(ToInt(Asked(r)))
  BY SMT, <1>1 DEF HookNanosleep
<1> QED  BY <1>1, <1>3, <1>4 DEF LastsRight, Returns

\* An absolute time is past exactly if nothing is left of it.
LEMMA ClockLasts ==
    ASSUME NEW r \in Requests, r.kind = "clock_abstime", Fits(r)
    PROVE  LastsRight(r, HookClockNanosleep(r))
<1> DEFINE sec == r.sec - Now[1]
           nsec == r.frac - Now[2]
           left == CeilDiv(nsec, 1000000)
           past == sec < 0 \/ (sec = 0 /\ nsec <= 0)
<1>1. Asked(r) = sec * 1000 + left /\ Asked(r) <= IntMax
  BY SMT DEF Asked, Fits
<1>2. sec \in Int /\ nsec \in Int /\ -999999999 <= nsec /\ nsec <= 999999999
  BY SMT, RequestParts DEF FracMax
<1>3. left \in Int /\ -999 <= left /\ left <= 1000 /\ (nsec <= 0 => left <= 0) /\ (nsec > 0 => left > 0)
  BY SMT, <1>2 DEF CeilDiv
<1>4. past <=> Asked(r) <= 0
  <2> HIDE DEF sec, nsec, left
  <2> QED  BY SMT, <1>1, <1>2, <1>3
<1>5. Asked(r) \in Int
  <2> HIDE DEF sec, nsec, left
  <2> QED  BY SMT, <1>1, <1>2, <1>3
<1>6. CASE past
  <2>1. HookClockNanosleep(r) = Returns(0)
    BY SMT, <1>6 DEF HookClockNanosleep
  <2> HIDE DEF past
  <2> QED  BY <1>4, <1>5, <1>6, <2>1 DEF LastsRight, Returns
<1>7. CASE ~past
  <2>1. Asked(r) \in Nat /\ Asked(r) > 0
    <3> HIDE DEF past
    <3> QED  BY <1>4, <1>5, <1>7
  <2>2. ToInt(sec * 1000 + left) = Asked(r)
    <3> HIDE DEF sec, left
    <3> QED  BY <1>1, <2>1, ToIntKeeps
  <2>3. HookClockNanosleep(r) =
            IF Timer(Asked(r)).how = "returns" THEN Returns(22) ELSE Timer(Asked(r))
    BY SMT, <1>7, <2>2 DEF HookClockNanosleep
  <2>4. Timer(Asked(r)).how = "timer"
    BY <2>1, TimerPositive
  <2> QED  BY <2>1, <2>3, <2>4 DEF LastsRight
<1> QED  BY <1>6, <1>7

\* Seconds that are narrowed before they are scaled: they fit, if the sum does.
LEMMA NarrowedSum ==
    ASSUME NEW s \in Nat, NEW f \in Nat, s * 1000 + f <= IntMax
    PROVE  ToInt(ToInt(s) * 1000 + f) = s * 1000 + f
<1>1. s <= IntMax /\ s * 1000 + f \in Nat
  BY SMT, TimeConstants
<1>2. ToInt(s) = s
  BY <1>1, ToIntKeeps
<1> QED  BY SMT, <1>1, <1>2, ToIntKeeps

LEMMA IoTimeoutLasts ==
    ASSUME NEW r \in Requests, r.kind \in {"so_timeo", "select"}, Fits(r)
    PROVE  /\ Asked(r) \in Nat /\ IoTimeoutMs(r) = Asked(r)
           /\ Asked(r) > 0 => r.sec > 0 \/ r.frac > 0
<1>1. /\ Asked(r) = r.sec * 1000 + CeilDiv(r.frac, 1000) /\ Asked(r) <= IntMax
      /\ r.sec \in Nat /\ r.frac \in Nat
  BY SMT, RequestParts DEF Asked, Fits
<1>2. CeilDiv(r.frac, 1000) \in Nat /\ (r.frac = 0 => CeilDiv(r.frac, 1000) = 0)
  BY SMT, <1>1 DEF CeilDiv
<1>3. IoTimeoutMs(r) = Asked(r)
  BY SMT, <1>1, <1>2, NarrowedSum DEF IoTimeoutMs
<1> QED  BY SMT, <1>1, <1>2, <1>3

\* What is left of a deadline, in whole milliseconds.
WholeRest(ms, spent, left) ==
    /\ left \in Nat
    /\ ms * 1000 - 1000 < spent + left * 1000
    /\ left > 0 => spent + left * 1000 <= ms * 1000

LEMMA RemainLasts ==
    ASSUME NEW ms \in Nat, NEW spent \in Nat
    PROVE  WholeRest(ms, spent, RemainMs(ms, spent))
<1>1. CASE spent < ms * 1000
  <2> DEFINE left == ms * 1000 - spent
  <2>1. left \in Nat /\ RemainMs(ms, spent) = left \div 1000
    BY <1>1 DEF RemainMs
  <2> HIDE DEF left
  <2>2. /\ left \div 1000 \in Nat /\ (left \div 1000) * 1000 <= left
        /\ left - 1000 < (left \div 1000) * 1000
    BY <2>1
  <2>3. left = ms * 1000 - spent
    BY DEF left
  <2> QED  BY <2>1, <2>2, <2>3 DEF WholeRest
<1>2. CASE ~(spent < ms * 1000)
  BY <1>2 DEF RemainMs, WholeRest
<1> QED  BY <1>1, <1>2

LEMMA SocketTimeoutLasts ==
    ASSUME NEW r \in Requests, r.kind = "so_timeo", Fits(r), NEW spent \in Nat
    PROVE  IF Asked(r) > 0 THEN WithinDeadline(Asked(r), spent, HookIoTimeout(r, spent))
           ELSE HookIoTimeout(r, spent) = Forever
<1>1. /\ Asked(r) \in Nat /\ IoTimeoutMs(r) = Asked(r)
      /\ Asked(r) > 0 => r.sec > 0 \/ r.frac > 0
  BY IoTimeoutLasts
<1>2. CASE Asked(r) > 0
  <2> DEFINE left == RemainMs(Asked(r), spent)
  <2>1. WholeRest(Asked(r), spent, left)
    BY <1>1, RemainLasts
  <2>2. ~(r.sec = 0 /\ r.frac = 0)
    <3>1. r.sec \in Nat /\ r.frac \in Nat
      BY RequestParts
    <3> QED  BY <1>1, <1>2, <3>1
  <2>3. HookIoTimeout(r, spent) = IF left <= 0 THEN Returns(-1) ELSE Timer(left)
    BY <1>1, <1>2, <2>2 DEF HookIoTimeout
  <2> HIDE DEF left
  <2>4. left \in Nat
    BY <2>1 DEF WholeRest
  <2>5. CASE left > 0
    <3>1. HookIoTimeout(r, spent) = [how |-> "timer", n |-> left]
      BY <2>3, <2>4, <2>5, TimerPositive
    <3> QED  BY <1>2, <2>1, <2>5, <3>1 DEF WithinDeadline, WholeRest
  <2>6. CASE ~(left > 0)
    <3>1. left = 0 /\ HookIoTimeout(r, spent) = Returns(-1)
      BY <2>3, <2>4, <2>6
    <3>2. Returns(-1).how # "timer"
      BY DEF Returns
    <3>3. Asked(r) * 1000 - 1000 < spent + 0
      BY <1>1, <2>1, <3>1 DEF WholeRest
    <3> QED  BY <1>2, <3>1, <3>2, <3>3 DEF WithinDeadline
  <2> QED  BY <2>5, <2>6
<1>3. CASE ~(Asked(r) > 0)
  BY <1>1, <1>3 DEF HookIoTimeout
<1> QED  BY <1>2, <1>3

LEMMA SelectLasts ==
    ASSUME NEW r \in Requests, r.kind = "select", Fits(r)
    PROVE  LastsRight(r, HookSelect(r))
BY IoTimeoutLasts DEF LastsRight, HookSelect, PollTimeout, Returns

LEMMA PSelectLasts ==
    ASSUME NEW r \in Requests, r.kind = "pselect", Fits(r)
    PROVE  LastsRight(r, HookPSelect(r))
<1>1. /\ Asked(r) = r.sec * 1000 + CeilDiv(r.frac, 1000000) /\ Asked(r) <= IntMax
      /\ r.sec \in Nat /\ r.frac \in Nat
  BY SMT, RequestParts DEF Asked, Fits
<1>2. CeilDiv(r.frac, 1000000) \in Nat
  BY SMT, <1>1 DEF CeilDiv
<1>3. Asked(r) \in Nat /\ ToInt(ToInt(r.sec) * 1000 + CeilDiv(r.frac, 1000000)) = Asked(r)
  BY SMT, <1>1, <1>2, NarrowedSum
<1> QED  BY SMT, <1>3 DEF LastsRight, HookPSelect, PollTimeout, Returns

\* The functions together.
LEMMA CallLasts ==
    ASSUME NEW r \in Requests, Fits(r), r.kind # "so_timeo", NEW spent \in Nat
    PROVE  LastsRight(r, CallOf(r, spent))
<1>1. r.kind \in TimeKinds
  BY RequestParts
<1> QED  BY <1>1, SleepLasts, USleepLasts, NanosleepLasts, ClockLasts,
            SelectLasts, PSelectLasts DEF CallOf, TimeKinds

\* A hooked call inside the limits of int lasts exactly the time asked for, rounded
\* up to a millisecond, whatever those limits are (Hook.cc: sleep, usleep,
\* nanosleep, clock_nanosleep, select, pselect); under a socket timeout its waits,
\* however many, end with the deadline of the call or up to a millisecond before
\* (IoTimeout, CoWaitFdReady).
THEOREM LastsAsAskedHolds == TimeInit /\ [][TimeNext]_timeVars => []LastsAsAsked
<1>1. TimeInit => TimeInv
  BY DEF TimeInit, TimeInv
<1>2. TimeInv /\ [TimeNext]_timeVars => TimeInv'
  <2> SUFFICES ASSUME TimeInv, [TimeNext]_timeVars PROVE TimeInv'
    OBVIOUS
  <2>1. CASE Settle
    <3>1. /\ request \in Requests /\ request' = request /\ elapsed' = elapsed
          /\ elapsed \in Nat /\ request.kind \in TimeKinds \ {"so_timeo"}
      BY <2>1, RequestParts DEF TimeInv, Settle
    <3>2. outcome' = CallOf(request, elapsed)
      <4>1. CASE request.kind = "sleep"
        BY <2>1, <4>1 DEF Settle, CallOf
      <4>2. CASE request.kind = "usleep"
        BY <2>1, <4>2 DEF Settle, CallOf
      <4>3. CASE request.kind = "nanosleep"
        BY <2>1, <4>3 DEF Settle, CallOf
      <4>4. CASE request.kind = "clock_abstime"
        BY <2>1, <4>4 DEF Settle, CallOf
      <4>5. CASE request.kind = "select"
        BY <2>1, <4>5 DEF Settle, CallOf
      <4>6. CASE request.kind = "pselect"
        BY <2>1, <4>6 DEF Settle, CallOf
      <4> QED  BY <3>1, <4>1, <4>2, <4>3, <4>4, <4>5, <4>6 DEF TimeKinds
    <3> QED  BY <3>1, <3>2 DEF TimeInv
  <2>2. CASE IoWaits
    <3>1. /\ request' = request /\ request.kind = "so_timeo" /\ elapsed' \in Nat
          /\ outcome' = HookIoTimeout(request, elapsed')
      BY <2>2, HookTimeAssumption DEF HookTimeAssumption, IoWaits
    <3> QED  BY <3>1 DEF TimeInv, CallOf
  <2>3. CASE UNCHANGED timeVars
    BY <2>3 DEF TimeInv, timeVars
  <2> QED  BY <2>1, <2>2, <2>3 DEF TimeNext
<1>3. TimeInv => LastsAsAsked
  <2> SUFFICES ASSUME TimeInv, outcome # Returns(1), Fits(request)
               PROVE  LastsAsAsked
    BY DEF LastsAsAsked
  <2>1. request \in Requests /\ elapsed \in Nat /\ outcome = CallOf(request, elapsed)
    BY DEF TimeInv
  <2>2. CASE request.kind = "so_timeo"
    <3>1. outcome = HookIoTimeout(request, elapsed)
      BY <2>1, <2>2 DEF CallOf
    <3> QED  BY <2>1, <2>2, <3>1, SocketTimeoutLasts DEF LastsAsAsked
  <2>3. CASE request.kind # "so_timeo"
    <3>1. LastsRight(request, outcome)
      BY <2>1, <2>3, CallLasts
    <3> QED  BY <2>3, <3>1 DEF LastsAsAsked, LastsRight
  <2> QED  BY <2>2, <2>3
<1> QED  BY <1>1, <1>2, <1>3, PTL

-----------------------------------------------------------------------------
(* StackPool.                                                               *)

KeyFor(ask) == <<NormalizeSize(ask[1]), ask[2]>>
StackKeys == {KeyFor(ask) : ask \in {a \in Asks : NormalizeSize(a[1]) # Refused}}
Bucket == [live : Nat, idle : Nat, borrowed : Nat, pending : Nat, pool : Seq(Nat)]
FrameRecord == [at : {"none", "allocating", "made"}, ask : Asks, stack : Nat]
StackRecord == [useable : Nat, protect : BOOLEAN, chunk : Nat]

\* The stacks there are with the properties of a key.
StacksOf(key) == {s \in DOMAIN memory : KeyOf(s) = key}

StackTypes ==
    /\ DOMAIN buckets \subseteq StackKeys
    /\ \A key \in StackKeys : GetBucket(key) \in Bucket
    /\ buckets = [key \in DOMAIN buckets |-> buckets[key]]
    /\ frame \in [Contexts -> FrameRecord]
    /\ IsFiniteSet(DOMAIN memory) /\ DOMAIN memory \subseteq Nat \ {0}
    /\ memory \in [DOMAIN memory -> StackRecord]
    /\ total \in [live : Nat, borrowed : Nat, pending : Nat]
    /\ coAvg \in Nat /\ trim \in [keep : Nat, left : Int]
    /\ trim.left \in -1 .. Cardinality(Asks) * MaxAlloc + Preload

\* The counts of a bucket; a bucket that is not in the map counts nothing.
BucketCounts(key) ==
    LET b == GetBucket(key)
    IN  /\ b.idle = Len(b.pool)
        /\ b.live = b.idle + b.borrowed
        /\ b.borrowed = Cardinality(At("made", key))
        /\ b.pending = Cardinality(At("allocating", key))
        /\ b.live = Cardinality(StacksOf(key))
        /\ b.live + b.pending <= MaxAlloc

\* The stacks in the vector of a bucket are its own, different, and in no use.
PoolRight(key) ==
    LET pool == GetBucket(key).pool
    IN  \A i \in 1 .. Len(pool) :
          /\ pool[i] \in DOMAIN memory /\ KeyOf(pool[i]) = key
          /\ \A x \in Contexts : frame[x].stack # pool[i]
          /\ \A j \in 1 .. Len(pool) : pool[i] = pool[j] => i = j

\* What a Context holds.
FrameRight(x) ==
    /\ frame[x].at = "made" => frame[x].stack \in DOMAIN memory /\ KeyOf(frame[x].stack) = AskedKey(x)
    /\ frame[x].at # "made" => frame[x].stack = NoStack
    /\ frame[x].at # "none" => AskedKey(x) \in StackKeys
    /\ \A y \in Contexts : frame[x].stack = frame[y].stack /\ x # y => frame[x].stack = NoStack

\* Every stack was made by the constructor, for some key.
MemoryRight(s) == KeyOf(s) \in StackKeys /\ GuardFits(KeyOf(s)) /\ memory[s] = NewStack(KeyOf(s))

InPlace(place) == {x \in Contexts : frame[x].at = place}
TotalsRight ==
    /\ total.live = Cardinality(DOMAIN memory)
    /\ total.borrowed = Cardinality(InPlace("made"))
    /\ total.pending = Cardinality(InPlace("allocating"))
    /\ total.borrowed + total.pending <= MaxAlloc

StackInv ==
    /\ StackTypes /\ TotalsRight
    /\ \A key \in StackKeys : BucketCounts(key) /\ PoolRight(key)
    /\ \A x \in Contexts : FrameRight(x)
    /\ \A s \in DOMAIN memory : MemoryRight(s)

\* What the assumption on the constants gives.
LEMMA StackConstants ==
    /\ IsFiniteSet(Contexts) /\ IsFiniteSet(Asks) /\ Asks \subseteq Nat \X BOOLEAN /\ Default \in Asks
    /\ PageSize \in Nat \ {0} /\ PointerDiffLimit \in Nat /\ SizeMax \in Nat
    /\ MaxAlloc \in Nat /\ MinAlloc \in Nat /\ Preload \in Nat /\ Cardinality(Asks) \in Nat
BY StackPoolAssumption, FS_CardinalityType DEF StackPoolAssumption, SizeMax

\* Stack::NormalizeSize: the next multiple of the page size, inside of the limit.
LEMMA NormalizedSize ==
    ASSUME NEW n \in Nat, NormalizeSize(n) # Refused
    PROVE  /\ NormalizeSize(n) \in Nat
           /\ n <= NormalizeSize(n) /\ NormalizeSize(n) < n + PageSize
           /\ NormalizeSize(n) % PageSize = 0
           /\ NormalizeSize(n) <= PointerDiffLimit
<1> DEFINE r == n % PageSize
           q == n \div PageSize
<1>1. PageSize \in Nat /\ PageSize > 0 /\ PointerDiffLimit \in Nat /\ SizeMax \in Nat
  BY StackConstants
<1>2. r \in 0 .. PageSize - 1 /\ q \in Nat /\ n = PageSize * q + r
  BY <1>1
<1>3. Padding(n) = IF r = 0 THEN 0 ELSE PageSize - r
  BY DEF Padding
<1>4. NormalizeSize(n) = n + Padding(n) /\ n + Padding(n) <= PointerDiffLimit
  BY <1>1, <1>2, <1>3 DEF NormalizeSize
<1>5. (n + Padding(n)) % PageSize = 0
  <2>1. CASE r = 0
    BY <1>2, <1>3, <2>1, <1>1
  <2>2. CASE r # 0
    <3>1. n + Padding(n) = PageSize * (q + 1)
      <4> HIDE DEF r, q
      <4> QED  BY <1>1, <1>2, <1>3, <2>2
    <3>2. (PageSize * (q + 1)) % PageSize = 0
      <4> HIDE DEF q
      <4> QED  BY <1>1, <1>2
    <3> QED  BY <3>1, <3>2
  <2> QED  BY <2>1, <2>2
<1>6. Padding(n) \in Nat /\ Padding(n) < PageSize
  <2> HIDE DEF r, q
  <2> QED  BY <1>1, <1>2, <1>3
<1> HIDE DEF r, q
<1> QED  BY <1>1, <1>4, <1>5, <1>6

\* A key is a normalised size and a protection.
LEMMA KeyShape ==
    ASSUME NEW key \in StackKeys
    PROVE  /\ key = <<key[1], key[2]>> /\ key[1] \in Nat /\ key[2] \in BOOLEAN
           /\ key[1] <= PointerDiffLimit
<1>1. PICK a \in Asks : NormalizeSize(a[1]) # Refused /\ key = KeyFor(a)
  BY DEF StackKeys
<1>2. a[1] \in Nat /\ a[2] \in BOOLEAN
  BY StackConstants
<1> QED  BY <1>1, <1>2, NormalizedSize DEF KeyFor

\* A stack made for a key has that key, if the guard page fits.
LEMMA NewStackShape ==
    ASSUME NEW key \in StackKeys
    PROVE  /\ NewStack(key) \in StackRecord
           /\ <<NewStack(key).useable, NewStack(key).protect>> = key
BY KeyShape, StackConstants DEF NewStack, StackRecord

-----------------------------------------------------------------------------
\* Finite sets of Contexts.
LEMMA ContextSets ==
    ASSUME NEW S \in SUBSET Contexts, NEW x \in Contexts
    PROVE  /\ IsFiniteSet(S) /\ Cardinality(S) \in Nat
           /\ x \in S => Cardinality(S \ {x}) = Cardinality(S) - 1 /\ Cardinality(S) > 0
           /\ x \notin S => Cardinality(S \cup {x}) = Cardinality(S) + 1
<1>1. IsFiniteSet(S)
  BY StackConstants, FS_Subset
<1>2. Cardinality(S) \in Nat
  BY <1>1, FS_CardinalityType
<1>3. x \in S => Cardinality(S \ {x}) = Cardinality(S) - 1 /\ Cardinality(S) > 0
  BY <1>1, <1>2, FS_RemoveElement, FS_EmptySet
<1>4. x \notin S => Cardinality(S \cup {x}) = Cardinality(S) + 1
  BY <1>1, FS_AddElement
<1> QED  BY <1>1, <1>2, <1>3, <1>4

\* The Contexts at a place change by the one that moves.
One(b) == IF b THEN 1 ELSE 0
LEMMA PlaceMoves ==
    ASSUME NEW x \in Contexts, NEW S \in SUBSET Contexts, NEW T \in SUBSET Contexts, S \ {x} = T \ {x}
    PROVE  Cardinality(T) = Cardinality(S) - (IF x \in S THEN 1 ELSE 0) + (IF x \in T THEN 1 ELSE 0)
<1>1. /\ Cardinality(S) \in Nat /\ Cardinality(T) \in Nat
      /\ x \in S => Cardinality(S \ {x}) = Cardinality(S) - 1
      /\ x \in T => Cardinality(T \ {x}) = Cardinality(T) - 1
  BY ContextSets
<1>2. x \notin S => S \ {x} = S
  OBVIOUS
<1>3. x \notin T => T \ {x} = T
  OBVIOUS
<1> QED  BY <1>1, <1>2, <1>3

\* A step in which only the frame of x changes, between places under one key.
OnlyFrame(x) == \A y \in Contexts \ {x} : frame'[y] = frame[y]
LEMMA FramesMove ==
    ASSUME NEW x \in Contexts, NEW key, OnlyFrame(x),
           frame[x].at # "none" => AskedKey(x) = key,
           frame'[x].at # "none" => <<NormalizeSize(frame'[x].ask[1]), frame'[x].ask[2]>> = key,
           NEW place \in {"made", "allocating"}
    PROVE  /\ Cardinality(At(place, key)') =
                 Cardinality(At(place, key)) - One(frame[x].at = place) + One(frame'[x].at = place)
           /\ Cardinality(InPlace(place)') =
                 Cardinality(InPlace(place)) - One(frame[x].at = place) + One(frame'[x].at = place)
           /\ \A k \in StackKeys \ {key} : At(place, k)' = At(place, k)
<1>0. x \in Contexts
  OBVIOUS
<1>1. /\ At(place, key) \in SUBSET Contexts /\ At(place, key)' \in SUBSET Contexts
      /\ x \in At(place, key) <=> frame[x].at = place
      /\ x \in At(place, key)' <=> frame'[x].at = place
      /\ At(place, key) \ {x} = At(place, key)' \ {x}
  BY DEF At, AskedKey, OnlyFrame
<1>2. /\ InPlace(place) \in SUBSET Contexts /\ InPlace(place)' \in SUBSET Contexts
      /\ x \in InPlace(place) <=> frame[x].at = place
      /\ x \in InPlace(place)' <=> frame'[x].at = place
      /\ InPlace(place) \ {x} = InPlace(place)' \ {x}
  BY DEF InPlace, OnlyFrame
<1>3. \A k \in StackKeys \ {key} : At(place, k)' = At(place, k)
  BY DEF At, AskedKey, OnlyFrame
<1>5. Cardinality(At(place, key)') =
          Cardinality(At(place, key)) - One(frame[x].at = place) + One(frame'[x].at = place)
  <2>1. Cardinality(At(place, key)') = Cardinality(At(place, key))
            - (IF x \in At(place, key) THEN 1 ELSE 0) + (IF x \in At(place, key)' THEN 1 ELSE 0)
    BY ONLY <1>0, <1>1, PlaceMoves
  <2> QED  BY ONLY <1>1, <2>1 DEF One
<1>6. Cardinality(InPlace(place)') =
          Cardinality(InPlace(place)) - One(frame[x].at = place) + One(frame'[x].at = place)
  <2>1. Cardinality(InPlace(place)') = Cardinality(InPlace(place))
            - (IF x \in InPlace(place) THEN 1 ELSE 0) + (IF x \in InPlace(place)' THEN 1 ELSE 0)
    BY ONLY <1>0, <1>2, PlaceMoves
  <2> QED  BY ONLY <1>2, <2>1 DEF One
<1> QED  BY <1>3, <1>5, <1>6

-----------------------------------------------------------------------------
\* The bucket of a key after Put, and after the erasure of an empty one: b, and the
\* others as they were.
BucketBecomes(key, b) ==
    /\ DOMAIN buckets' \subseteq StackKeys
    /\ buckets' = [k \in DOMAIN buckets' |-> buckets'[k]]
    /\ (IF key \in DOMAIN buckets' THEN buckets'[key] ELSE NewBucket) = b
    /\ \A k \in StackKeys \ {key} :
          (IF k \in DOMAIN buckets' THEN buckets'[k] ELSE NewBucket) = GetBucket(k)
LEMMA PutBecomes ==
    ASSUME StackTypes, NEW key \in StackKeys, NEW b, buckets' = Put(key, b)
    PROVE  BucketBecomes(key, b)
BY DEF BucketBecomes, Put, GetBucket, StackTypes
LEMMA EraseBecomes ==
    ASSUME StackTypes, NEW key \in StackKeys, NEW b \in Bucket,
           b.idle = Len(b.pool), b.live = b.idle + b.borrowed,
           buckets' = EraseBucketIfEmpty(key, b)
    PROVE  BucketBecomes(key, b)
<1>1. CASE Pinned(b)
  BY <1>1, PutBecomes DEF EraseBucketIfEmpty
<1>2. CASE ~Pinned(b)
  <2>1. buckets' = [k \in DOMAIN buckets \ {key} |-> buckets[k]]
    BY <1>2 DEF EraseBucketIfEmpty, Without
  <2>2. b.pool \in Seq(Nat) /\ Len(b.pool) = 0 /\ b.live = 0 /\ b.idle = 0 /\ b.borrowed = 0
        /\ b.pending = 0
    BY <1>2 DEF Pinned, Bucket
  <2>3. b.pool = <<>>
    BY <2>2, EmptySeq
  <2>4. b = NewBucket
    BY <2>2, <2>3 DEF Bucket, NewBucket
  <2> QED  BY <2>1, <2>4 DEF BucketBecomes, GetBucket, StackTypes
<1> QED  BY <1>1, <1>2

\* What a step that changes one bucket has to show of it.
LEMMA BucketKept ==
    ASSUME StackInv, NEW k \in StackKeys,
           (IF k \in DOMAIN buckets' THEN buckets'[k] ELSE NewBucket) = GetBucket(k),
           At("made", k)' = At("made", k), At("allocating", k)' = At("allocating", k),
           StacksOf(k)' = StacksOf(k),
           \A x \in Contexts : frame'[x].stack \in StacksOf(k) => frame'[x].stack = frame[x].stack
    PROVE  GetBucket(k)' \in Bucket /\ BucketCounts(k)' /\ PoolRight(k)'
<1>1. GetBucket(k)' = GetBucket(k)
  BY DEF GetBucket
<1>2. GetBucket(k) \in Bucket /\ BucketCounts(k) /\ PoolRight(k)
  BY DEF StackInv, StackTypes
<1>3. BucketCounts(k)'
  BY <1>1, <1>2 DEF BucketCounts
<1>4. PoolRight(k)'
  <2> DEFINE pool == GetBucket(k).pool
  <2>1. \A i \in 1 .. Len(pool) : pool[i] \in StacksOf(k)
    BY <1>2 DEF PoolRight, StacksOf
  <2>2. \A i \in 1 .. Len(pool) : 
            pool[i] \in DOMAIN memory' /\ <<memory'[pool[i]].useable, memory'[pool[i]].protect>> = k
    <3>1. \A t \in StacksOf(k)' : t \in DOMAIN memory' /\ <<memory'[t].useable, memory'[t].protect>> = k
      BY DEF StacksOf, KeyOf
    <3> QED  BY <2>1, <3>1
  <2>3. \A i \in 1 .. Len(pool) : \A x \in Contexts : frame'[x].stack # pool[i]
    BY <1>2, <2>1 DEF PoolRight
  <2>4. \A i, j \in 1 .. Len(pool) : pool[i] = pool[j] => i = j
    BY <1>2 DEF PoolRight
  <2> HIDE DEF pool
  <2> QED  BY <1>1, <2>2, <2>3, <2>4 DEF PoolRight, pool, KeyOf
<1> QED  BY <1>1, <1>2, <1>3, <1>4

-----------------------------------------------------------------------------
\* The stacks there are.
LEMMA StackSets ==
    ASSUME StackInv, NEW key
    PROVE  /\ IsFiniteSet(DOMAIN memory) /\ Cardinality(DOMAIN memory) \in Nat
           /\ IsFiniteSet(StacksOf(key)) /\ Cardinality(StacksOf(key)) \in Nat
           /\ NoStack \notin DOMAIN memory
<1>1. IsFiniteSet(DOMAIN memory) /\ NoStack \notin DOMAIN memory
  BY DEF StackInv, StackTypes, NoStack
<1>2. StacksOf(key) \in SUBSET DOMAIN memory
  BY DEF StacksOf
<1>3. IsFiniteSet(StacksOf(key))
  BY <1>1, <1>2, FS_Subset
<1> QED  BY <1>1, <1>3, FS_CardinalityType

\* There is always a free place for a new stack.
LEMMA FreshStack ==
    ASSUME StackInv
    PROVE  Fresh \in Nat \ {0} /\ Fresh \notin DOMAIN memory
<1> DEFINE n == Cardinality(DOMAIN memory)
<1>1. IsFiniteSet(DOMAIN memory) /\ n \in Nat
  BY StackSets
<1>2. IsFiniteSet(1 .. n + 1) /\ Cardinality(1 .. n + 1) = n + 1
  <2> HIDE DEF n
  <2>1. Cardinality(1 .. n + 1) = IF 1 > n + 1 THEN 0 ELSE n + 1 - 1 + 1
    BY <1>1, FS_Interval
  <2> QED  BY <1>1, <2>1, FS_Interval
<1>3. ~(1 .. n + 1 \subseteq DOMAIN memory)
  <2>1. SUFFICES ASSUME 1 .. n + 1 \subseteq DOMAIN memory PROVE FALSE
    OBVIOUS
  <2>2. Cardinality(1 .. n + 1) <= n
    BY <1>1, <2>1, FS_Subset
  <2> HIDE DEF n
  <2> QED  BY <1>1, <1>2, <2>2
<1>4. Fresh \in 1 .. n + 1 /\ Fresh \notin DOMAIN memory
  BY <1>3 DEF Fresh
<1> HIDE DEF n
<1> QED  BY <1>1, <1>4

\* A stack is made.
LEMMA MemoryAdds ==
    ASSUME StackInv, NEW key \in StackKeys, GuardFits(key), NEW s \in Nat \ {0}, s \notin DOMAIN memory,
           memory' = [t \in DOMAIN memory \cup {s} |-> IF t = s THEN NewStack(key) ELSE memory[t]]
    PROVE  /\ IsFiniteSet(DOMAIN memory') /\ DOMAIN memory' \subseteq Nat \ {0}
           /\ memory' \in [DOMAIN memory' -> StackRecord]
           /\ \A t \in DOMAIN memory : t \in DOMAIN memory' /\ memory'[t] = memory[t]
           /\ Cardinality(DOMAIN memory') = Cardinality(DOMAIN memory) + 1
           /\ s \in StacksOf(key)' /\ Cardinality(StacksOf(key)') = Cardinality(StacksOf(key)) + 1
           /\ \A k \in StackKeys \ {key} : StacksOf(k)' = StacksOf(k)
           /\ \A t \in DOMAIN memory' : MemoryRight(t)'
<1>1. /\ DOMAIN memory' = DOMAIN memory \cup {s} /\ memory'[s] = NewStack(key)
      /\ \A t \in DOMAIN memory : t # s /\ memory'[t] = memory[t]
      /\ \A t \in DOMAIN memory : memory[t] \in StackRecord /\ MemoryRight(t)
      /\ DOMAIN memory \subseteq Nat \ {0}
  BY DEF StackInv, StackTypes
<1>2. IsFiniteSet(DOMAIN memory') /\ Cardinality(DOMAIN memory') = Cardinality(DOMAIN memory) + 1
  BY <1>1, StackSets, FS_AddElement
<1>3. NewStack(key) \in StackRecord /\ <<NewStack(key).useable, NewStack(key).protect>> = key
  BY NewStackShape
<1>4. memory' \in [DOMAIN memory' -> StackRecord]
  BY <1>1, <1>3
<1>5. StacksOf(key)' = StacksOf(key) \cup {s} /\ s \notin StacksOf(key)
  BY <1>1, <1>3 DEF StacksOf, KeyOf
<1>6. Cardinality(StacksOf(key)') = Cardinality(StacksOf(key)) + 1
  BY <1>5, StackSets, FS_AddElement
<1>7. \A k \in StackKeys \ {key} : StacksOf(k)' = StacksOf(k)
  BY <1>1, <1>3 DEF StacksOf, KeyOf
<1>8. ASSUME NEW t \in DOMAIN memory' PROVE MemoryRight(t)'
  <2>1. CASE t = s
    <3>1. KeyOf(t)' = key
      BY <1>1, <1>3, <2>1 DEF KeyOf
    <3> QED  BY <1>1, <2>1, <3>1 DEF MemoryRight, GuardFits, NewStack
  <2>2. CASE t \in DOMAIN memory
    <3>1. KeyOf(t)' = KeyOf(t) /\ memory'[t] = memory[t] /\ MemoryRight(t)
      BY <1>1, <2>2 DEF KeyOf
    <3> QED  BY <3>1 DEF MemoryRight, GuardFits, NewStack
  <2> QED  BY <1>1, <2>1, <2>2
<1> QED  BY <1>1, <1>2, <1>4, <1>5, <1>6, <1>7, <1>8

\* A stack is freed.
LEMMA MemoryRemoves ==
    ASSUME StackInv, NEW key \in StackKeys, NEW s \in StacksOf(key), memory' = Without(memory, s)
    PROVE  /\ IsFiniteSet(DOMAIN memory') /\ DOMAIN memory' \subseteq Nat \ {0}
           /\ memory' \in [DOMAIN memory' -> StackRecord]
           /\ \A t \in DOMAIN memory \ {s} : t \in DOMAIN memory' /\ memory'[t] = memory[t]
           /\ Cardinality(DOMAIN memory') = Cardinality(DOMAIN memory) - 1
           /\ Cardinality(StacksOf(key)') = Cardinality(StacksOf(key)) - 1
           /\ Cardinality(DOMAIN memory) > 0 /\ Cardinality(StacksOf(key)) > 0
           /\ \A k \in StackKeys \ {key} : StacksOf(k)' = StacksOf(k)
           /\ \A t \in DOMAIN memory' : MemoryRight(t)'
<1>1. /\ DOMAIN memory' = DOMAIN memory \ {s} /\ s \in DOMAIN memory /\ KeyOf(s) = key
      /\ \A t \in DOMAIN memory \ {s} : memory'[t] = memory[t]
      /\ \A t \in DOMAIN memory : memory[t] \in StackRecord /\ MemoryRight(t)
      /\ DOMAIN memory \subseteq Nat \ {0}
  BY DEF StackInv, StackTypes, StacksOf, Without
<1>2. IsFiniteSet(DOMAIN memory') /\ Cardinality(DOMAIN memory') = Cardinality(DOMAIN memory) - 1
      /\ Cardinality(DOMAIN memory) > 0
  BY <1>1, StackSets, FS_RemoveElement, FS_EmptySet
<1>4. memory' \in [DOMAIN memory' -> StackRecord]
  BY <1>1 DEF Without
<1>5. StacksOf(key)' = StacksOf(key) \ {s}
  BY <1>1 DEF StacksOf, KeyOf
<1>6. Cardinality(StacksOf(key)') = Cardinality(StacksOf(key)) - 1 /\ Cardinality(StacksOf(key)) > 0
  <2>1. IsFiniteSet(StacksOf(key)) /\ Cardinality(StacksOf(key)) \in Nat /\ s \in StacksOf(key)
    BY StackSets
  <2>2. Cardinality(StacksOf(key) \ {s}) = Cardinality(StacksOf(key)) - 1
    BY <2>1, FS_RemoveElement
  <2>3. Cardinality(StacksOf(key)) # 0
    BY <2>1, FS_EmptySet
  <2> QED  BY <1>5, <2>1, <2>2, <2>3
<1>7. \A k \in StackKeys \ {key} : StacksOf(k)' = StacksOf(k)
  BY <1>1 DEF StacksOf, KeyOf
<1>8. ASSUME NEW t \in DOMAIN memory' PROVE MemoryRight(t)'
  <2>1. KeyOf(t)' = KeyOf(t) /\ memory'[t] = memory[t] /\ MemoryRight(t)
    BY <1>1 DEF KeyOf
  <2> QED  BY <2>1 DEF MemoryRight, GuardFits, NewStack
<1> QED  BY <1>1, <1>2, <1>4, <1>5, <1>6, <1>7, <1>8

\* No stack is made or freed.
LEMMA MemoryStays ==
    ASSUME StackInv, memory' = memory
    PROVE  /\ \A k : StacksOf(k)' = StacksOf(k)
           /\ \A t \in DOMAIN memory' : MemoryRight(t)'
           /\ IsFiniteSet(DOMAIN memory') /\ DOMAIN memory' \subseteq Nat \ {0}
           /\ memory' \in [DOMAIN memory' -> StackRecord]
<1>1. \A k : StacksOf(k)' = StacksOf(k)
  BY DEF StacksOf, KeyOf
<1>2. ASSUME NEW t \in DOMAIN memory' PROVE MemoryRight(t)'
  BY DEF StackInv, MemoryRight, KeyOf, GuardFits, NewStack
<1> QED  BY <1>1, <1>2 DEF StackInv, StackTypes

\* The last stack of a vector.
LEMMA LastOut ==
    ASSUME NEW p \in Seq(Nat), p # <<>>
    PROVE  /\ Front(p) \in Seq(Nat) /\ Len(Front(p)) = Len(p) - 1 /\ Len(p) \in Nat /\ Len(p) > 0
           /\ Last(p) = p[Len(p)] /\ \A i \in 1 .. Len(p) - 1 : Front(p)[i] = p[i]
<1> DEFINE n == Len(p) - 1
<1>1. Len(p) \in Nat /\ Len(p) > 0
  BY EmptySeq
<1>2. n \in Int /\ 1 \in Int /\ \A i \in 1 .. n : p[i] \in Nat
  BY <1>1, ElementOfSeq
<1>3. /\ SubSeq(p, 1, n) \in Seq(Nat)
      /\ Len(SubSeq(p, 1, n)) = IF 1 <= n THEN n - 1 + 1 ELSE 0
      /\ \A i \in 1 .. n - 1 + 1 : SubSeq(p, 1, n)[i] = p[1 + i - 1]
  <2> HIDE DEF n
  <2> QED  BY <1>2, SubSeqProperties
<1>4. Front(p) = SubSeq(p, 1, n) /\ Last(p) = p[Len(p)]
  BY DEF Front, Last
<1>5. Len(SubSeq(p, 1, n)) = Len(p) - 1
  <2>1. n \in Nat /\ Len(p) - 1 = n
    BY <1>1
  <2> HIDE DEF n
  <2> QED  BY <1>3, <2>1
<1>6. ASSUME NEW i \in 1 .. Len(p) - 1 PROVE SubSeq(p, 1, n)[i] = p[i]
  <2>1. i \in 1 .. n - 1 + 1 /\ 1 + i - 1 = i
    BY <1>1
  <2> QED  BY <1>3, <2>1
<1> HIDE DEF n
<1> QED  BY <1>1, <1>3, <1>4, <1>5, <1>6

-----------------------------------------------------------------------------
\* A step that moves one Context, under one key: the other buckets do not notice.
LEMMA OthersKept ==
    ASSUME StackInv, NEW x \in Contexts, NEW key \in StackKeys, NEW b, BucketBecomes(key, b),
           OnlyFrame(x), frame[x].at # "none" => AskedKey(x) = key,
           frame'[x].at # "none" => <<NormalizeSize(frame'[x].ask[1]), frame'[x].ask[2]>> = key,
           frame'[x].stack = NoStack \/ frame'[x].stack \in StacksOf(key)',
           \A k \in StackKeys \ {key} : StacksOf(k)' = StacksOf(k)
    PROVE  /\ GetBucket(key)' = b
           /\ \A k \in StackKeys \ {key} : GetBucket(k)' \in Bucket /\ BucketCounts(k)' /\ PoolRight(k)'
<1>1. GetBucket(key)' = b
  BY DEF GetBucket, BucketBecomes
<1>2. ASSUME NEW k \in StackKeys \ {key}
      PROVE  GetBucket(k)' \in Bucket /\ BucketCounts(k)' /\ PoolRight(k)'
  <2>1. (IF k \in DOMAIN buckets' THEN buckets'[k] ELSE NewBucket) = GetBucket(k)
    BY DEF BucketBecomes
  <2>2. At("made", k)' = At("made", k) /\ At("allocating", k)' = At("allocating", k)
    BY FramesMove
  <2>3. StacksOf(k)' = StacksOf(k)
    OBVIOUS
  <2>4. frame'[x].stack \notin StacksOf(k)
    <3>1. NoStack \notin StacksOf(k)
      BY StackSets DEF StacksOf
    <3>2. \A t \in StacksOf(key)' : t \notin StacksOf(k)'
      BY DEF StacksOf
    <3> QED  BY <2>3, <3>1, <3>2
  <2>5. \A y \in Contexts : frame'[y].stack \in StacksOf(k) => frame'[y].stack = frame[y].stack
    BY <2>4 DEF OnlyFrame
  <2> QED  BY <2>1, <2>2, <2>3, <2>5, BucketKept
<1> QED  BY <1>1, <1>2

\* The frames of the other Contexts stay right.
LEMMA FramesKept ==
    ASSUME StackInv, NEW x \in Contexts, OnlyFrame(x),
           \A y \in Contexts \ {x} : frame[y].stack # NoStack =>
              frame[y].stack \in DOMAIN memory' /\ memory'[frame[y].stack] = memory[frame[y].stack],
           FrameRight(x)'
    PROVE  \A y \in Contexts : FrameRight(y)'
<1> SUFFICES ASSUME NEW y \in Contexts \ {x} PROVE FrameRight(y)'
  OBVIOUS
<1>1. FrameRight(y) /\ frame'[y] = frame[y] /\ AskedKey(y)' = AskedKey(y)
  BY DEF StackInv, OnlyFrame, AskedKey
<1>2. frame[y].at = "made" => frame[y].stack # NoStack
  BY <1>1, StackSets DEF FrameRight
<1>3. frame'[y].at = "made" => frame'[y].stack \in DOMAIN memory' /\ KeyOf(frame[y].stack) = AskedKey(y)
  BY <1>1, <1>2 DEF FrameRight
<1>4. frame'[y].at = "made" =>
          <<memory'[frame'[y].stack].useable, memory'[frame'[y].stack].protect>> = AskedKey(y)
  BY <1>1, <1>2, <1>3 DEF KeyOf
<1>5. \A z \in Contexts : frame'[y].stack = frame'[z].stack /\ y # z => frame'[y].stack = NoStack
  <2> TAKE z \in Contexts
  <2>1. CASE z = x
    BY <2>1 DEF FrameRight
  <2>2. CASE z # x
    BY <1>1, <2>2 DEF FrameRight, OnlyFrame
  <2> QED  BY <2>1, <2>2
<1>6. (frame'[y].at # "made" => frame'[y].stack = NoStack) /\ (frame'[y].at # "none" => AskedKey(y)' \in StackKeys)
  BY <1>1 DEF FrameRight
<1> QED  BY <1>1, <1>3, <1>4, <1>5, <1>6 DEF FrameRight, KeyOf, StackKeys, KeyFor

-----------------------------------------------------------------------------
\* What a step leaves to show: the types, the key of the bucket it changes, the
\* frames and the stacks, the totals.
LEMMA StackInvBecomes ==
    ASSUME StackInv, NEW x \in Contexts, NEW key \in StackKeys, NEW b \in Bucket, BucketBecomes(key, b),
           OnlyFrame(x), frame' \in [Contexts -> FrameRecord], frame[x].at # "none" => AskedKey(x) = key,
           frame'[x].at # "none" => <<NormalizeSize(frame'[x].ask[1]), frame'[x].ask[2]>> = key,
           frame'[x].stack = NoStack \/ frame'[x].stack \in StacksOf(key)',
           \A k \in StackKeys \ {key} : StacksOf(k)' = StacksOf(k),
           IsFiniteSet(DOMAIN memory'), DOMAIN memory' \subseteq Nat \ {0},
           memory' \in [DOMAIN memory' -> StackRecord],
           \A t \in DOMAIN memory' : MemoryRight(t)',
           \A y \in Contexts \ {x} : frame[y].stack # NoStack =>
              frame[y].stack \in DOMAIN memory' /\ memory'[frame[y].stack] = memory[frame[y].stack],
           FrameRight(x)', PoolRight(key)', total' \in [live : Nat, borrowed : Nat, pending : Nat],
           UNCHANGED <<coAvg, trim>>,
           total'.live = Cardinality(DOMAIN memory'), b.idle = Len(b.pool), b.live = b.idle + b.borrowed,
           b.live = Cardinality(StacksOf(key)'), b.live + b.pending <= MaxAlloc,
           b.borrowed = GetBucket(key).borrowed - One(frame[x].at = "made") + One(frame'[x].at = "made"),
           b.pending = GetBucket(key).pending - One(frame[x].at = "allocating")
                       + One(frame'[x].at = "allocating"),
           total'.borrowed = total.borrowed - One(frame[x].at = "made") + One(frame'[x].at = "made"),
           total'.pending = total.pending - One(frame[x].at = "allocating")
                            + One(frame'[x].at = "allocating"),
           total'.borrowed + total'.pending <= MaxAlloc
    PROVE  StackInv'
<1>1. /\ GetBucket(key)' = b
      /\ \A k \in StackKeys \ {key} : GetBucket(k)' \in Bucket /\ BucketCounts(k)' /\ PoolRight(k)'
  BY OthersKept
<1>2. \A y \in Contexts : FrameRight(y)'
  BY FramesKept
<1>3. /\ Cardinality(At("made", key)') =
             Cardinality(At("made", key)) - One(frame[x].at = "made") + One(frame'[x].at = "made")
      /\ Cardinality(InPlace("made")') =
             Cardinality(InPlace("made")) - One(frame[x].at = "made") + One(frame'[x].at = "made")
  BY FramesMove
<1>4. /\ Cardinality(At("allocating", key)') = Cardinality(At("allocating", key))
             - One(frame[x].at = "allocating") + One(frame'[x].at = "allocating")
      /\ Cardinality(InPlace("allocating")') = Cardinality(InPlace("allocating"))
             - One(frame[x].at = "allocating") + One(frame'[x].at = "allocating")
  BY FramesMove
<1>5. BucketCounts(key) /\ TotalsRight /\ StackTypes
  BY DEF StackInv
<1>6. BucketCounts(key)'
  BY <1>1, <1>3, <1>4, <1>5 DEF BucketCounts
<1>7. TotalsRight'
  BY <1>3, <1>4, <1>5 DEF TotalsRight
<1>8. \A k \in StackKeys : GetBucket(k)' \in Bucket /\ BucketCounts(k)' /\ PoolRight(k)'
  BY <1>1, <1>6
<1>9. StackTypes'
  <2>1. DOMAIN buckets' \subseteq StackKeys /\ buckets' = [k \in DOMAIN buckets' |-> buckets'[k]]
    BY DEF BucketBecomes
  <2>2. \A k \in StackKeys : GetBucket(k)' \in Bucket
    BY <1>8
  <2> QED  BY <1>5, <2>1, <2>2 DEF StackTypes
<1> QED  BY <1>2, <1>7, <1>8, <1>9 DEF StackInv

\* A step that leaves the Contexts alone and takes a stack out of a bucket.
LEMMA StackInvWithout ==
    ASSUME StackInv, NEW key \in StackKeys, NEW b \in Bucket, BucketBecomes(key, b),
           frame' = frame, NEW s \in StacksOf(key), memory' = Without(memory, s),
           \A x \in Contexts : frame[x].stack # s,
           PoolRight(key)', b.idle = Len(b.pool), b.live = b.idle + b.borrowed,
           b.live = GetBucket(key).live - 1, b.borrowed = GetBucket(key).borrowed,
           b.pending = GetBucket(key).pending, total' = [total EXCEPT !.live = @ - 1],
           coAvg' = coAvg, trim' \in [keep : Nat, left : Int],
           trim'.left \in -1 .. Cardinality(Asks) * MaxAlloc + Preload
    PROVE  StackInv'
<1>1. BucketCounts(key) /\ TotalsRight /\ StackTypes
  BY DEF StackInv
<1>2. /\ IsFiniteSet(DOMAIN memory') /\ DOMAIN memory' \subseteq Nat \ {0}
      /\ memory' \in [DOMAIN memory' -> StackRecord]
      /\ \A t \in DOMAIN memory \ {s} : t \in DOMAIN memory' /\ memory'[t] = memory[t]
      /\ Cardinality(DOMAIN memory') = Cardinality(DOMAIN memory) - 1
      /\ Cardinality(StacksOf(key)') = Cardinality(StacksOf(key)) - 1
      /\ Cardinality(DOMAIN memory) > 0
      /\ \A k \in StackKeys \ {key} : StacksOf(k)' = StacksOf(k)
      /\ \A t \in DOMAIN memory' : MemoryRight(t)'
  BY MemoryRemoves
<1>3. \A place, k : At(place, k)' = At(place, k)
  BY DEF At, AskedKey
<1>4. \A place : InPlace(place)' = InPlace(place)
  BY DEF InPlace
<1>5. GetBucket(key)' = b
  BY DEF GetBucket, BucketBecomes
<1>6. ASSUME NEW k \in StackKeys \ {key}
      PROVE  GetBucket(k)' \in Bucket /\ BucketCounts(k)' /\ PoolRight(k)'
  <2>1. (IF k \in DOMAIN buckets' THEN buckets'[k] ELSE NewBucket) = GetBucket(k)
    BY DEF BucketBecomes
  <2>2. \A x \in Contexts : frame'[x].stack \in StacksOf(k) => frame'[x].stack = frame[x].stack
    OBVIOUS
  <2>3. At("made", k)' = At("made", k) /\ At("allocating", k)' = At("allocating", k)
        /\ StacksOf(k)' = StacksOf(k)
    BY <1>2, <1>3
  <2> QED  BY <2>1, <2>2, <2>3, BucketKept
<1>7. BucketCounts(key)'
  <2>1. At("made", key)' = At("made", key) /\ At("allocating", key)' = At("allocating", key)
    BY <1>3
  <2>2. GetBucket(key) \in Bucket
    BY <1>1 DEF StackTypes
  <2>3. b.idle = Len(b.pool) /\ b.borrowed = Cardinality(At("made", key))
        /\ b.pending = Cardinality(At("allocating", key)) /\ b.live = Cardinality(StacksOf(key)')
    BY <1>1, <1>2 DEF BucketCounts
  <2>4. b.live + b.pending <= MaxAlloc
    <3>1. GetBucket(key).live \in Nat /\ GetBucket(key).pending \in Nat
      BY <2>2 DEF Bucket
    <3>2. GetBucket(key).live + GetBucket(key).pending <= MaxAlloc
      BY <1>1 DEF BucketCounts
    <3>3. b.live = GetBucket(key).live - 1 /\ b.pending = GetBucket(key).pending /\ MaxAlloc \in Nat
      BY StackConstants
    <3> QED  BY ONLY <3>1, <3>2, <3>3
  <2> QED  BY <1>5, <2>1, <2>3, <2>4 DEF BucketCounts
<1>8. \A k \in StackKeys : GetBucket(k)' \in Bucket /\ BucketCounts(k)' /\ PoolRight(k)'
  BY <1>5, <1>6, <1>7
<1>9. ASSUME NEW x \in Contexts PROVE FrameRight(x)'
  <2>1. FrameRight(x) /\ AskedKey(x)' = AskedKey(x) /\ frame[x].stack # s
    BY DEF StackInv, AskedKey
  <2>2. frame[x].at = "made" => frame[x].stack \in DOMAIN memory'
            /\ <<memory'[frame[x].stack].useable, memory'[frame[x].stack].protect>> = AskedKey(x)
    BY <1>2, <2>1 DEF FrameRight, KeyOf
  <2> QED  BY <2>1, <2>2 DEF FrameRight, KeyOf, StackKeys, KeyFor
<1>10. total \in [live : Nat, borrowed : Nat, pending : Nat]
  BY <1>1 DEF StackTypes
<1>11. TotalsRight' /\ total' \in [live : Nat, borrowed : Nat, pending : Nat]
  <2>1. InPlace("made")' = InPlace("made") /\ InPlace("allocating")' = InPlace("allocating")
    BY <1>4
  <2>2. Cardinality(DOMAIN memory) \in Nat
    BY StackSets
  <2> QED  BY <1>1, <1>2, <1>10, <2>1, <2>2 DEF TotalsRight
<1>12. StackTypes'
  <2>1. DOMAIN buckets' \subseteq StackKeys /\ buckets' = [k \in DOMAIN buckets' |-> buckets'[k]]
    BY DEF BucketBecomes
  <2>2. \A k \in StackKeys : GetBucket(k)' \in Bucket
    BY <1>8
  <2>3. frame' \in [Contexts -> FrameRecord] /\ coAvg' \in Nat
    BY <1>1 DEF StackTypes
  <2> QED  BY <1>2, <1>11, <2>1, <2>2, <2>3 DEF StackTypes
<1> QED  BY <1>2, <1>8, <1>9, <1>11, <1>12 DEF StackInv

-----------------------------------------------------------------------------
\* What the invariant says of one bucket and one Context.
LEMMA BucketFacts ==
    ASSUME StackInv, NEW key \in StackKeys
    PROVE  /\ GetBucket(key) \in Bucket /\ BucketCounts(key) /\ PoolRight(key)
           /\ GetBucket(key).live \in Nat /\ GetBucket(key).idle \in Nat
           /\ GetBucket(key).borrowed \in Nat /\ GetBucket(key).pending \in Nat
           /\ GetBucket(key).pool \in Seq(Nat)
           /\ GetBucket(key).idle = Len(GetBucket(key).pool)
           /\ GetBucket(key).live = GetBucket(key).idle + GetBucket(key).borrowed
           /\ GetBucket(key).live = Cardinality(StacksOf(key))
           /\ GetBucket(key).live + GetBucket(key).pending <= MaxAlloc
           /\ \A i \in 1 .. Len(GetBucket(key).pool) :
                 GetBucket(key).pool[i] \in StacksOf(key) /\ GetBucket(key).pool[i] \in Nat \ {0}
<1>1. GetBucket(key) \in Bucket /\ BucketCounts(key) /\ PoolRight(key)
  BY DEF StackInv, StackTypes
<1>2. \A i \in 1 .. Len(GetBucket(key).pool) :
         GetBucket(key).pool[i] \in StacksOf(key) /\ GetBucket(key).pool[i] \in Nat \ {0}
  BY <1>1 DEF PoolRight, StacksOf, StackInv, StackTypes
<1> QED  BY <1>1, <1>2 DEF BucketCounts, Bucket

\* Where a Context is under a key, that key counts it.
LEMMA FrameFacts ==
    ASSUME StackInv, NEW x \in Contexts
    PROVE  /\ frame[x] \in FrameRecord /\ FrameRight(x) /\ frame \in [Contexts -> FrameRecord]
           /\ frame[x].at = "made" => /\ AskedKey(x) \in StackKeys
                                      /\ frame[x].stack \in StacksOf(AskedKey(x))
                                      /\ frame[x].stack \in Nat \ {0}
                                      /\ GetBucket(AskedKey(x)).borrowed > 0 /\ total.borrowed > 0
           /\ frame[x].at = "allocating" => /\ AskedKey(x) \in StackKeys
                                            /\ GetBucket(AskedKey(x)).pending > 0 /\ total.pending > 0
           /\ total \in [live : Nat, borrowed : Nat, pending : Nat]
<1>1. frame[x] \in FrameRecord /\ FrameRight(x) /\ frame \in [Contexts -> FrameRecord] /\ TotalsRight
      /\ total \in [live : Nat, borrowed : Nat, pending : Nat]
  BY DEF StackInv, StackTypes
<1>2. ASSUME NEW place \in {"made", "allocating"}, frame[x].at = place
      PROVE  /\ AskedKey(x) \in StackKeys
             /\ Cardinality(At(place, AskedKey(x))) > 0 /\ Cardinality(InPlace(place)) > 0
  <2>1. AskedKey(x) \in StackKeys
    BY <1>1, <1>2 DEF FrameRight
  <2>2. x \in At(place, AskedKey(x)) /\ At(place, AskedKey(x)) \in SUBSET Contexts
        /\ x \in InPlace(place) /\ InPlace(place) \in SUBSET Contexts
    BY <1>2 DEF At, InPlace
  <2> QED  BY <2>1, <2>2, ContextSets
<1>3. CASE frame[x].at = "made"
  <2>1. AskedKey(x) \in StackKeys /\ Cardinality(At("made", AskedKey(x))) > 0
        /\ Cardinality(InPlace("made")) > 0
    BY <1>2, <1>3
  <2>2. BucketCounts(AskedKey(x))
    BY <2>1, BucketFacts
  <2>3. frame[x].stack \in StacksOf(AskedKey(x)) /\ frame[x].stack \in Nat \ {0}
    BY <1>1, <1>3 DEF FrameRight, StacksOf, StackInv, StackTypes
  <2> QED  BY <1>1, <1>3, <2>1, <2>2, <2>3 DEF BucketCounts, TotalsRight
<1>4. CASE frame[x].at = "allocating"
  <2>1. AskedKey(x) \in StackKeys /\ Cardinality(At("allocating", AskedKey(x))) > 0
        /\ Cardinality(InPlace("allocating")) > 0
    BY <1>2, <1>4
  <2>2. BucketCounts(AskedKey(x))
    BY <2>1, BucketFacts
  <2> QED  BY <1>1, <1>4, <2>1, <2>2 DEF BucketCounts, TotalsRight
<1> QED  BY <1>1, <1>3, <1>4

\* Below the capacity there is room for one more under every key.
LEMMA RoomForOne ==
    ASSUME StackInv, NEW key \in StackKeys, ~AtCapacity
    PROVE  /\ total.borrowed + total.pending + 1 <= MaxAlloc
           /\ GetBucket(key).borrowed + GetBucket(key).pending + 1 <= MaxAlloc
<1>1. TotalsRight /\ total \in [live : Nat, borrowed : Nat, pending : Nat] /\ BucketCounts(key)
  BY DEF StackInv, StackTypes
<1>2. total.borrowed + total.pending + 1 <= MaxAlloc
  BY <1>1, StackConstants DEF AtCapacity
<1>3. ASSUME NEW place \in {"made", "allocating"}
      PROVE  Cardinality(At(place, key)) <= Cardinality(InPlace(place))
             /\ Cardinality(At(place, key)) \in Nat /\ Cardinality(InPlace(place)) \in Nat
  <2>1. At(place, key) \in SUBSET InPlace(place) /\ InPlace(place) \in SUBSET Contexts
    BY DEF At, InPlace
  <2>2. IsFiniteSet(InPlace(place))
    BY <2>1, StackConstants, FS_Subset
  <2> QED  BY <2>1, <2>2, FS_Subset, FS_CardinalityType
<1>4. Cardinality(At("made", key)) <= Cardinality(InPlace("made"))
      /\ Cardinality(At("made", key)) \in Nat /\ Cardinality(InPlace("made")) \in Nat
  BY <1>3
<1>5. Cardinality(At("allocating", key)) <= Cardinality(InPlace("allocating"))
      /\ Cardinality(At("allocating", key)) \in Nat /\ Cardinality(InPlace("allocating")) \in Nat
  BY <1>3
<1>6. /\ GetBucket(key).borrowed = Cardinality(At("made", key))
      /\ GetBucket(key).pending = Cardinality(At("allocating", key))
  BY <1>1 DEF BucketCounts
<1>7. /\ total.borrowed = Cardinality(InPlace("made"))
      /\ total.pending = Cardinality(InPlace("allocating"))
  BY <1>1 DEF TotalsRight
<1>8. GetBucket(key).borrowed <= total.borrowed /\ GetBucket(key).pending <= total.pending
  BY <1>4, <1>5, <1>6, <1>7
<1>9. /\ total.borrowed \in Nat /\ total.pending \in Nat /\ MaxAlloc \in Nat
      /\ GetBucket(key).borrowed \in Nat /\ GetBucket(key).pending \in Nat
  BY <1>1, <1>4, <1>5, <1>6, StackConstants
<1>10. GetBucket(key).borrowed + GetBucket(key).pending + 1 <= MaxAlloc
  <2> DEFINE b == GetBucket(key).borrowed  p == GetBucket(key).pending
             tb == total.borrowed  tp == total.pending
  <2>1. /\ b <= tb /\ p <= tp /\ tb + tp + 1 <= MaxAlloc
        /\ b \in Nat /\ p \in Nat /\ tb \in Nat /\ tp \in Nat /\ MaxAlloc \in Nat
    BY <1>2, <1>8, <1>9
  <2> HIDE DEF b, p, tb, tp
  <2>2. b + p + 1 <= MaxAlloc
    BY <2>1
  <2> QED  BY <2>2 DEF b, p
<1> QED  BY <1>2, <1>10

-----------------------------------------------------------------------------
(* The actions.                                                             *)

\* An idle stack goes to a Context.
LEMMA ApplyIdle ==
    ASSUME StackInv, NEW x \in Contexts, NEW ask \in Asks, NEW key, key = KeyFor(ask),
           frame[x].at = "none", key[1] # Refused, ~AtCapacity, NEW b, b = GetBucket(key),
           b.pool # <<>>,
           buckets' = Put(key, [b EXCEPT !.pool = Front(@), !.idle = @ - 1, !.borrowed = @ + 1]),
           total' = [total EXCEPT !.borrowed = @ + 1],
           frame' = [frame EXCEPT ![x] = [at |-> "made", ask |-> ask, stack |-> Last(b.pool)]],
           UNCHANGED <<coAvg, trim, memory>>
    PROVE  StackInv'
<1> DEFINE c == [b EXCEPT !.pool = Front(@), !.idle = @ - 1, !.borrowed = @ + 1]
           s == Last(b.pool)
           n == Len(b.pool)
<1>1. key \in StackKeys
  BY DEF StackKeys, KeyFor
<1>2. /\ b \in Bucket /\ PoolRight(key)
      /\ b.live \in Nat /\ b.idle \in Nat /\ b.borrowed \in Nat /\ b.pending \in Nat
      /\ b.pool \in Seq(Nat) /\ b.idle = Len(b.pool) /\ b.live = b.idle + b.borrowed
      /\ b.live = Cardinality(StacksOf(key)) /\ b.live + b.pending <= MaxAlloc
      /\ \A i \in 1 .. n : b.pool[i] \in StacksOf(key) /\ b.pool[i] \in Nat \ {0}
  BY <1>1, BucketFacts
<1>3. /\ Front(b.pool) \in Seq(Nat) /\ Len(Front(b.pool)) = n - 1 /\ n \in Nat /\ n > 0
      /\ s = b.pool[n] /\ \A i \in 1 .. n - 1 : Front(b.pool)[i] = b.pool[i]
  BY <1>2, LastOut
<1>4. /\ c \in Bucket /\ c.idle = b.idle - 1 /\ c.borrowed = b.borrowed + 1 /\ c.live = b.live
      /\ c.pending = b.pending /\ c.pool = Front(b.pool)
  <2>1. b.idle - 1 \in Nat /\ b.borrowed + 1 \in Nat /\ Front(b.pool) \in Seq(Nat)
    BY <1>2, <1>3
  <2>2. /\ c.idle = b.idle - 1 /\ c.borrowed = b.borrowed + 1 /\ c.live = b.live
        /\ c.pending = b.pending /\ c.pool = Front(b.pool)
    BY <1>2 DEF Bucket
  <2> QED  BY <1>2, <2>1, <2>2 DEF Bucket
<1>5. StackTypes /\ BucketBecomes(key, c)
  BY <1>1, PutBecomes DEF StackInv
<1>6. frame[x] \in FrameRecord /\ FrameRight(x) /\ frame \in [Contexts -> FrameRecord]
      /\ total \in [live : Nat, borrowed : Nat, pending : Nat]
  BY FrameFacts
<1>7. s \in StacksOf(key) /\ s \in Nat \ {0} /\ \A y \in Contexts : frame[y].stack # s
  <2>1. n \in 1 .. n
    BY <1>3
  <2>2. s = b.pool[n]
    BY <1>3
  <2>3. b.pool[n] \in StacksOf(key) /\ b.pool[n] \in Nat \ {0}
        /\ \A y \in Contexts : frame[y].stack # b.pool[n]
    BY <1>2, <2>1 DEF PoolRight
  <2> HIDE DEF s, n
  <2> QED  BY <2>2, <2>3
<1>8. /\ frame'[x] = [at |-> "made", ask |-> ask, stack |-> s] /\ OnlyFrame(x)
      /\ frame' \in [Contexts -> FrameRecord]
  <2>1. [at |-> "made", ask |-> ask, stack |-> s] \in FrameRecord
    BY <1>7 DEF FrameRecord
  <2> HIDE DEF s
  <2> QED  BY <1>6, <2>1 DEF OnlyFrame, s
<1>9. frame'[x].at = "made" /\ frame'[x].ask = ask /\ frame'[x].stack = s
  BY <1>8
<1>10. <<NormalizeSize(frame'[x].ask[1]), frame'[x].ask[2]>> = key
  BY <1>9 DEF KeyFor
<1>11. memory' = memory /\ coAvg' = coAvg /\ trim' = trim
  OBVIOUS
<1>12. /\ \A k : StacksOf(k)' = StacksOf(k)
       /\ \A t \in DOMAIN memory' : MemoryRight(t)'
       /\ IsFiniteSet(DOMAIN memory') /\ DOMAIN memory' \subseteq Nat \ {0}
       /\ memory' \in [DOMAIN memory' -> StackRecord]
  BY <1>11, MemoryStays
<1>13. \A y \in Contexts : frame[y].stack # s
  BY <1>7
<1>14. FrameRight(x)'
  <2>1. s \in DOMAIN memory' /\ <<memory'[s].useable, memory'[s].protect>> = key
    BY <1>7, <1>11 DEF StacksOf, KeyOf
  <2>2. \A y \in Contexts \ {x} : frame'[y].stack # s
    BY <1>8, <1>13 DEF OnlyFrame
  <2>3. AskedKey(x)' = key
    BY <1>10 DEF AskedKey
  <2> HIDE DEF s
  <2> QED  BY <1>1, <1>9, <2>1, <2>2, <2>3 DEF FrameRight, KeyOf, StackKeys, KeyFor
<1>15. GetBucket(key)' = c
  BY <1>5 DEF BucketBecomes, GetBucket
<1>16. PoolRight(key)'
  <2>1. ASSUME NEW i \in 1 .. n - 1
        PROVE  /\ Front(b.pool)[i] = b.pool[i] /\ i \in 1 .. n
               /\ b.pool[i] \in DOMAIN memory'
               /\ <<memory'[b.pool[i]].useable, memory'[b.pool[i]].protect>> = key
               /\ b.pool[i] # s
               /\ \A y \in Contexts : frame'[y].stack # b.pool[i]
    <3>1. Front(b.pool)[i] = b.pool[i] /\ i \in 1 .. n /\ n \in 1 .. n /\ i # n
      BY <1>3
    <3>2. b.pool[i] \in StacksOf(key) /\ b.pool[i] # b.pool[n]
          /\ \A y \in Contexts : frame[y].stack # b.pool[i]
      BY <1>2, <3>1 DEF PoolRight
    <3>3. b.pool[i] # s
      BY <1>3, <3>2
    <3>4. \A y \in Contexts : frame'[y].stack # b.pool[i]
      BY <1>8, <1>9, <3>2, <3>3 DEF OnlyFrame
    <3> QED  BY <1>11, <3>1, <3>2, <3>3, <3>4 DEF StacksOf, KeyOf
  <2>2. \A i, j \in 1 .. n : b.pool[i] = b.pool[j] => i = j
    BY <1>2 DEF PoolRight
  <2>3. Len(c.pool) = n - 1
    BY <1>3, <1>4
  <2> HIDE DEF c, s, n
  <2> QED  BY <1>4, <1>15, <2>1, <2>2, <2>3 DEF PoolRight, KeyOf
<1>17. total.borrowed + total.pending + 1 <= MaxAlloc
  BY <1>1, RoomForOne
<1>18. total' \in [live : Nat, borrowed : Nat, pending : Nat] /\ total'.live = total.live
       /\ total'.borrowed = total.borrowed + 1 /\ total'.pending = total.pending
  BY <1>6
<1>19. total'.live = Cardinality(DOMAIN memory')
  BY <1>11, <1>18 DEF StackInv, TotalsRight
<1>20. /\ One(frame[x].at = "made") = 0 /\ One(frame[x].at = "allocating") = 0
       /\ One(frame'[x].at = "made") = 1 /\ One(frame'[x].at = "allocating") = 0
  BY <1>9 DEF One
<1>21. c.idle = Len(c.pool) /\ c.live = c.idle + c.borrowed /\ c.live = Cardinality(StacksOf(key)')
       /\ c.live + c.pending <= MaxAlloc
  <2>1. StacksOf(key)' = StacksOf(key)
    BY <1>12
  <2>2. c.live = c.idle + c.borrowed
    <3> HIDE DEF c
    <3>1. /\ b.live \in Nat /\ b.idle \in Nat /\ b.borrowed \in Nat /\ b.live = b.idle + b.borrowed
          /\ c.idle = b.idle - 1 /\ c.borrowed = b.borrowed + 1 /\ c.live = b.live
      BY <1>2, <1>4
    <3> QED  BY ONLY <3>1
  <2>3. c.idle = Len(c.pool)
    <3> HIDE DEF c
    <3> QED  BY <1>2, <1>3, <1>4
  <2> HIDE DEF c
  <2> QED  BY <1>2, <1>4, <2>1, <2>2, <2>3
<1>22. total'.borrowed + total'.pending <= MaxAlloc
  BY <1>6, <1>17, <1>18
<1>23. /\ c.borrowed = GetBucket(key).borrowed - One(frame[x].at = "made") + One(frame'[x].at = "made")
       /\ c.pending = GetBucket(key).pending - One(frame[x].at = "allocating")
                      + One(frame'[x].at = "allocating")
       /\ total'.borrowed = total.borrowed - One(frame[x].at = "made") + One(frame'[x].at = "made")
       /\ total'.pending = total.pending - One(frame[x].at = "allocating")
                           + One(frame'[x].at = "allocating")
  <2>1. /\ GetBucket(key).borrowed \in Nat /\ GetBucket(key).pending \in Nat
        /\ total.borrowed \in Nat /\ total.pending \in Nat
        /\ c.borrowed = GetBucket(key).borrowed + 1 /\ c.pending = GetBucket(key).pending
        /\ total'.borrowed = total.borrowed + 1 /\ total'.pending = total.pending
    <3> HIDE DEF c
    <3> QED  BY <1>2, <1>4, <1>6, <1>18
  <2> HIDE DEF c
  <2> QED  BY ONLY <1>20, <2>1
<1>24. \A y \in Contexts \ {x} : frame[y].stack # NoStack =>
          frame[y].stack \in DOMAIN memory' /\ memory'[frame[y].stack] = memory[frame[y].stack]
  BY <1>11 DEF StackInv, FrameRight
<1>25. frame'[x].stack \in StacksOf(key)'
  BY <1>7, <1>9, <1>12
<1>26. \A k \in StackKeys \ {key} : StacksOf(k)' = StacksOf(k)
  BY <1>12
<1> HIDE DEF c, s, n
<1>27. /\ StackInv /\ x \in Contexts /\ key \in StackKeys /\ c \in Bucket
       /\ frame[x].at # "none" => AskedKey(x) = key
       /\ UNCHANGED <<coAvg, trim>>
  BY <1>1, <1>4
<1> QED  BY ONLY <1>5, <1>8, <1>10, <1>12, <1>14, <1>16, <1>18, <1>19, <1>21, <1>22, <1>23, <1>24,
                 <1>25, <1>26,
                 <1>27, StackInvBecomes

\* A bucket keeps its vector.
LEMMA PoolSame ==
    ASSUME StackInv, NEW x \in Contexts, OnlyFrame(x), NEW key \in StackKeys, NEW b, BucketBecomes(key, b),
           b.pool = GetBucket(key).pool,
           \A i \in 1 .. Len(b.pool) :
              /\ b.pool[i] \in DOMAIN memory' /\ memory'[b.pool[i]] = memory[b.pool[i]]
              /\ frame'[x].stack # b.pool[i]
    PROVE  PoolRight(key)'
<1>1. GetBucket(key)' = b
  BY DEF BucketBecomes, GetBucket
<1>2. PoolRight(key)
  BY BucketFacts
<1>3. ASSUME NEW i \in 1 .. Len(b.pool)
      PROVE  /\ <<memory'[b.pool[i]].useable, memory'[b.pool[i]].protect>> = key
             /\ \A y \in Contexts : frame'[y].stack # b.pool[i]
             /\ \A j \in 1 .. Len(b.pool) : b.pool[i] = b.pool[j] => i = j
  BY <1>2 DEF PoolRight, KeyOf, OnlyFrame
<1> QED  BY <1>1, <1>3 DEF PoolRight, KeyOf

\* A place is reserved.
LEMMA ApplyReserves ==
    ASSUME StackInv, NEW x \in Contexts, NEW ask \in Asks, NEW key, key = KeyFor(ask),
           frame[x].at = "none", key[1] # Refused, ~AtCapacity, NEW b, b = GetBucket(key),
           b.pool = <<>>,
           buckets' = Put(key, [b EXCEPT !.pending = @ + 1]),
           total' = [total EXCEPT !.pending = @ + 1],
           frame' = [frame EXCEPT ![x] = [at |-> "allocating", ask |-> ask, stack |-> NoStack]],
           UNCHANGED <<coAvg, trim, memory>>
    PROVE  StackInv'
<1> DEFINE c == [b EXCEPT !.pending = @ + 1]
<1>1. key \in StackKeys
  BY DEF StackKeys, KeyFor
<1>2. /\ b \in Bucket /\ b.live \in Nat /\ b.idle \in Nat /\ b.borrowed \in Nat /\ b.pending \in Nat
      /\ b.pool \in Seq(Nat) /\ b.idle = Len(b.pool) /\ b.live = b.idle + b.borrowed
      /\ b.live = Cardinality(StacksOf(key)) /\ Len(b.pool) = 0
  BY <1>1, BucketFacts
<1>4. /\ c \in Bucket /\ c.idle = b.idle /\ c.borrowed = b.borrowed /\ c.live = b.live
      /\ c.pending = b.pending + 1 /\ c.pool = b.pool
  BY <1>2 DEF Bucket
<1>5. BucketBecomes(key, c)
  BY <1>1, PutBecomes DEF StackInv
<1>6. frame[x] \in FrameRecord /\ FrameRight(x) /\ frame \in [Contexts -> FrameRecord]
      /\ total \in [live : Nat, borrowed : Nat, pending : Nat]
  BY FrameFacts
<1>8. /\ frame'[x] = [at |-> "allocating", ask |-> ask, stack |-> NoStack] /\ OnlyFrame(x)
      /\ frame' \in [Contexts -> FrameRecord]
  BY <1>6 DEF OnlyFrame, FrameRecord, NoStack
<1>9. frame'[x].at = "allocating" /\ frame'[x].ask = ask /\ frame'[x].stack = NoStack
  BY <1>8
<1>10. <<NormalizeSize(frame'[x].ask[1]), frame'[x].ask[2]>> = key
  BY <1>9 DEF KeyFor
<1>11. memory' = memory /\ coAvg' = coAvg /\ trim' = trim
  OBVIOUS
<1>12. /\ \A k : StacksOf(k)' = StacksOf(k)
       /\ \A t \in DOMAIN memory' : MemoryRight(t)'
       /\ IsFiniteSet(DOMAIN memory') /\ DOMAIN memory' \subseteq Nat \ {0}
       /\ memory' \in [DOMAIN memory' -> StackRecord]
  BY <1>11, MemoryStays
<1>14. FrameRight(x)'
  BY <1>1, <1>9, <1>10 DEF FrameRight, AskedKey, StackKeys, KeyFor
<1>16. PoolRight(key)'
  <2> HIDE DEF c
  <2> QED  BY <1>1, <1>2, <1>4, <1>5, <1>8, PoolSame
<1>17. total.borrowed + total.pending + 1 <= MaxAlloc /\ b.borrowed + b.pending + 1 <= MaxAlloc
  BY <1>1, RoomForOne
<1>18. total' \in [live : Nat, borrowed : Nat, pending : Nat] /\ total'.live = total.live
       /\ total'.borrowed = total.borrowed /\ total'.pending = total.pending + 1
  BY <1>6
<1>19. total'.live = Cardinality(DOMAIN memory')
  BY <1>11, <1>18 DEF StackInv, TotalsRight
<1>20. /\ One(frame[x].at = "made") = 0 /\ One(frame[x].at = "allocating") = 0
       /\ One(frame'[x].at = "made") = 0 /\ One(frame'[x].at = "allocating") = 1
  BY <1>9 DEF One
<1>21. c.live + c.pending <= MaxAlloc
  <2> HIDE DEF c
  <2> QED  BY <1>2, <1>4, <1>17
<1>22. c.idle = Len(c.pool) /\ c.live = c.idle + c.borrowed /\ c.live = Cardinality(StacksOf(key)')
  <2>1. StacksOf(key)' = StacksOf(key)
    BY <1>12
  <2> HIDE DEF c
  <2> QED  BY <1>2, <1>4, <2>1
<1>23. total'.borrowed + total'.pending <= MaxAlloc
  BY <1>6, <1>17, <1>18
<1>27. /\ c.borrowed = GetBucket(key).borrowed - One(frame[x].at = "made") + One(frame'[x].at = "made")
       /\ c.pending = GetBucket(key).pending - One(frame[x].at = "allocating")
                      + One(frame'[x].at = "allocating")
       /\ total'.borrowed = total.borrowed - One(frame[x].at = "made") + One(frame'[x].at = "made")
       /\ total'.pending = total.pending - One(frame[x].at = "allocating")
                           + One(frame'[x].at = "allocating")
  <2> HIDE DEF c
  <2> QED  BY <1>2, <1>4, <1>6, <1>18, <1>20
<1>24. \A y \in Contexts \ {x} : frame[y].stack # NoStack =>
          frame[y].stack \in DOMAIN memory' /\ memory'[frame[y].stack] = memory[frame[y].stack]
  BY <1>11 DEF StackInv, FrameRight
<1>26. \A k \in StackKeys \ {key} : StacksOf(k)' = StacksOf(k)
  BY <1>12
<1> HIDE DEF c
<1>28. frame'[x].stack = NoStack
  BY <1>9
<1>29. /\ StackInv /\ x \in Contexts /\ key \in StackKeys /\ c \in Bucket
       /\ frame[x].at # "none" => AskedKey(x) = key
       /\ UNCHANGED <<coAvg, trim>>
  BY <1>1, <1>4
<1> QED  BY ONLY <1>5, <1>8, <1>10, <1>12, <1>14, <1>16, <1>18, <1>19, <1>21, <1>22, <1>23, <1>24,
                 <1>26, <1>27, <1>28,
                 <1>29, StackInvBecomes

LEMMA ApplyInv ==
    ASSUME StackInv, NEW x \in Contexts, NEW ask \in Asks, Apply(x, ask)
    PROVE  StackInv'
<1> DEFINE key == KeyFor(ask)
<1>1. frame[x].at = "none" /\ key[1] # Refused /\ ~AtCapacity /\ UNCHANGED <<coAvg, trim, memory>>
  BY DEF Apply, KeyFor
<1>2. CASE GetBucket(key).pool # <<>>
  <2>1. /\ buckets' = Put(key, [GetBucket(key) EXCEPT !.pool = Front(@), !.idle = @ - 1,
                                                     !.borrowed = @ + 1])
        /\ total' = [total EXCEPT !.borrowed = @ + 1]
        /\ frame' = [frame EXCEPT ![x] = [at |-> "made", ask |-> ask,
                                          stack |-> Last(GetBucket(key).pool)]]
    BY <1>2 DEF Apply, KeyFor
  <2> HIDE DEF key
  <2> QED  BY <1>1, <1>2, <2>1, ApplyIdle DEF key
<1>3. CASE GetBucket(key).pool = <<>>
  <2>1. /\ buckets' = Put(key, [GetBucket(key) EXCEPT !.pending = @ + 1])
        /\ total' = [total EXCEPT !.pending = @ + 1]
        /\ frame' = [frame EXCEPT ![x] = [at |-> "allocating", ask |-> ask, stack |-> NoStack]]
    BY <1>3 DEF Apply, KeyFor
  <2> HIDE DEF key
  <2> QED  BY <1>1, <1>3, <2>1, ApplyReserves DEF key
<1> QED  BY <1>2, <1>3

\* The reserved place gets its stack.
LEMMA CommitStep ==
    ASSUME StackInv, NEW x \in Contexts, NEW key, key = AskedKey(x), NEW s, s = Fresh,
           NEW b, b = GetBucket(key), NEW c,
           c = [b EXCEPT !.pending = @ - 1, !.live = @ + 1, !.borrowed = @ + 1],
           frame[x].at = "allocating", GuardFits(key),
           memory' = [t \in DOMAIN memory \cup {s} |-> IF t = s THEN NewStack(key) ELSE memory[t]],
           buckets' = Put(key, c),
           total' = [live |-> total.live + 1, borrowed |-> total.borrowed + 1,
                     pending |-> total.pending - 1],
           frame' = [frame EXCEPT ![x].at = "made", ![x].stack = s],
           UNCHANGED <<coAvg, trim>>
    PROVE  StackInv'
<1>2. /\ frame[x] \in FrameRecord /\ FrameRight(x) /\ frame \in [Contexts -> FrameRecord]
      /\ key \in StackKeys /\ b.pending > 0 /\ total.pending > 0
      /\ total \in [live : Nat, borrowed : Nat, pending : Nat]
  BY FrameFacts
<1>3. /\ b \in Bucket /\ b.live \in Nat /\ b.idle \in Nat /\ b.borrowed \in Nat /\ b.pending \in Nat
      /\ b.pool \in Seq(Nat) /\ b.idle = Len(b.pool) /\ b.live = b.idle + b.borrowed
      /\ b.live = Cardinality(StacksOf(key)) /\ b.live + b.pending <= MaxAlloc
      /\ \A i \in 1 .. Len(b.pool) : b.pool[i] \in StacksOf(key) /\ b.pool[i] \in Nat \ {0}
  BY <1>2, BucketFacts
<1>4. /\ c \in Bucket /\ c.idle = b.idle /\ c.borrowed = b.borrowed + 1 /\ c.live = b.live + 1
      /\ c.pending = b.pending - 1 /\ c.pool = b.pool
  <2>0. b.pending \in Nat /\ b.live \in Nat /\ b.borrowed \in Nat /\ b.pending > 0
    BY <1>2, <1>3
  <2>1. b.pending - 1 \in Nat /\ b.live + 1 \in Nat /\ b.borrowed + 1 \in Nat
    BY ONLY <2>0
  <2> QED  BY <1>3, <2>1 DEF Bucket
<1>5. BucketBecomes(key, c)
  BY <1>2, PutBecomes DEF StackInv
<1>6. s \in Nat \ {0} /\ s \notin DOMAIN memory
  BY FreshStack
<1>7. /\ IsFiniteSet(DOMAIN memory') /\ DOMAIN memory' \subseteq Nat \ {0}
      /\ memory' \in [DOMAIN memory' -> StackRecord]
      /\ \A t \in DOMAIN memory : t \in DOMAIN memory' /\ memory'[t] = memory[t]
      /\ Cardinality(DOMAIN memory') = Cardinality(DOMAIN memory) + 1
      /\ s \in StacksOf(key)' /\ Cardinality(StacksOf(key)') = Cardinality(StacksOf(key)) + 1
      /\ \A k \in StackKeys \ {key} : StacksOf(k)' = StacksOf(k)
      /\ \A t \in DOMAIN memory' : MemoryRight(t)'
  BY <1>2, <1>6, MemoryAdds
<1>8. /\ frame'[x] = [frame[x] EXCEPT !.at = "made", !.stack = s] /\ OnlyFrame(x)
      /\ frame' \in [Contexts -> FrameRecord]
  <2>1. [frame[x] EXCEPT !.at = "made", !.stack = s] \in FrameRecord
    BY <1>2, <1>6 DEF FrameRecord
  <2>2. frame' = [frame EXCEPT ![x] = [frame[x] EXCEPT !.at = "made", !.stack = s]]
    BY <1>2
  <2> QED  BY <1>2, <2>1, <2>2 DEF OnlyFrame
<1>9. frame'[x].at = "made" /\ frame'[x].ask = frame[x].ask /\ frame'[x].stack = s
  BY <1>2, <1>8 DEF FrameRecord
<1>10. <<NormalizeSize(frame'[x].ask[1]), frame'[x].ask[2]>> = key
  BY <1>9 DEF AskedKey
<1>13. \A y \in Contexts : frame[y].stack # NoStack => frame[y].stack \in DOMAIN memory
  BY DEF StackInv, FrameRight
<1>14. FrameRight(x)'
  <2>1. s \in DOMAIN memory' /\ <<memory'[s].useable, memory'[s].protect>> = key
    BY <1>7 DEF StacksOf, KeyOf
  <2>2. \A y \in Contexts \ {x} : frame'[y].stack # s
    BY <1>6, <1>8, <1>13 DEF OnlyFrame, NoStack
  <2>3. AskedKey(x)' = key
    BY <1>10 DEF AskedKey
  <2> QED  BY <1>2, <1>9, <2>1, <2>2, <2>3 DEF FrameRight, KeyOf, StackKeys, KeyFor
<1>16. PoolRight(key)'
  <2>1. \A i \in 1 .. Len(c.pool) :
              /\ c.pool[i] \in DOMAIN memory' /\ memory'[c.pool[i]] = memory[c.pool[i]]
              /\ frame'[x].stack # c.pool[i]
    <3>1. ASSUME NEW i \in 1 .. Len(c.pool)
          PROVE  c.pool[i] \in DOMAIN memory /\ c.pool[i] # s
      BY <1>3, <1>4, <1>6 DEF StacksOf
    <3> QED  BY <1>7, <1>9, <3>1
  <2>2. c.pool = GetBucket(key).pool /\ OnlyFrame(x)
    BY <1>4, <1>8
  <2>3. StackInv /\ x \in Contexts /\ key \in StackKeys
    BY <1>2
  <2> QED  BY ONLY <1>5, <2>1, <2>2, <2>3, PoolSame
<1>18. total' \in [live : Nat, borrowed : Nat, pending : Nat] /\ total'.live = total.live + 1
       /\ total'.borrowed = total.borrowed + 1 /\ total'.pending = total.pending - 1
  BY <1>2
<1>19. total'.live = Cardinality(DOMAIN memory')
  BY <1>7, <1>18 DEF StackInv, TotalsRight
<1>20. /\ One(frame[x].at = "made") = 0 /\ One(frame[x].at = "allocating") = 1
       /\ One(frame'[x].at = "made") = 1 /\ One(frame'[x].at = "allocating") = 0
  BY <1>9 DEF One
<1>21. c.live + c.pending <= MaxAlloc
  <2>1. /\ b.live \in Nat /\ b.pending \in Nat /\ b.live + b.pending <= MaxAlloc /\ MaxAlloc \in Nat
        /\ c.live = b.live + 1 /\ c.pending = b.pending - 1
    BY <1>3, <1>4, StackConstants
  <2> QED  BY ONLY <2>1
<1>22. c.idle = Len(c.pool) /\ c.live = c.idle + c.borrowed /\ c.live = Cardinality(StacksOf(key)')
  <2>1. c.idle = Len(c.pool) /\ c.live = Cardinality(StacksOf(key)')
    BY <1>3, <1>4, <1>7
  <2>2. c.live = c.idle + c.borrowed
    BY <1>3, <1>4
  <2> QED  BY <2>1, <2>2
<1>23. /\ c.borrowed = GetBucket(key).borrowed - One(frame[x].at = "made") + One(frame'[x].at = "made")
       /\ c.pending = GetBucket(key).pending - One(frame[x].at = "allocating")
                      + One(frame'[x].at = "allocating")
       /\ total'.borrowed = total.borrowed - One(frame[x].at = "made") + One(frame'[x].at = "made")
       /\ total'.pending = total.pending - One(frame[x].at = "allocating")
                           + One(frame'[x].at = "allocating")
  <2>1. /\ GetBucket(key).borrowed \in Nat /\ GetBucket(key).pending \in Nat
        /\ total.borrowed \in Nat /\ total.pending \in Nat
        /\ c.borrowed = GetBucket(key).borrowed + 1 /\ c.pending = GetBucket(key).pending - 1
        /\ total'.borrowed = total.borrowed + 1 /\ total'.pending = total.pending - 1
    BY <1>2, <1>3, <1>4, <1>18
  <2> QED  BY ONLY <1>20, <2>1
<1>25. total'.borrowed + total'.pending <= MaxAlloc
  <2>1. total.borrowed + total.pending <= MaxAlloc
    BY DEF StackInv, TotalsRight
  <2> QED  BY <1>2, <1>18, <2>1, StackConstants
<1>24. \A y \in Contexts \ {x} : frame[y].stack # NoStack =>
          frame[y].stack \in DOMAIN memory' /\ memory'[frame[y].stack] = memory[frame[y].stack]
  BY <1>7, <1>13
<1>26. frame'[x].stack \in StacksOf(key)' /\ coAvg' = coAvg /\ trim' = trim
  BY <1>7, <1>9
<1>28. /\ StackInv /\ x \in Contexts /\ key \in StackKeys /\ c \in Bucket
       /\ frame[x].at # "none" => AskedKey(x) = key
       /\ UNCHANGED <<coAvg, trim>>
  BY <1>2, <1>4
<1> QED  BY ONLY <1>5, <1>7, <1>8, <1>10, <1>14, <1>16, <1>18, <1>19, <1>21, <1>22, <1>23, <1>24,
                 <1>25, <1>26,
                 <1>28, StackInvBecomes
LEMMA CommitInv ==
    ASSUME StackInv, NEW x \in Contexts, Commit(x)
    PROVE  StackInv'
BY CommitStep DEF Commit

\* The allocation has failed.
LEMMA RollBackStep ==
    ASSUME StackInv, NEW x \in Contexts, NEW key, key = AskedKey(x),
           NEW b, b = GetBucket(key), NEW c, c = [b EXCEPT !.pending = @ - 1],
           frame[x].at = "allocating", buckets' = EraseBucketIfEmpty(key, c),
           total' = [total EXCEPT !.pending = @ - 1],
           frame' = [frame EXCEPT ![x] = NoFrameOf],
           UNCHANGED <<coAvg, trim, memory>>
    PROVE  StackInv'
<1>2. /\ frame[x] \in FrameRecord /\ FrameRight(x) /\ frame \in [Contexts -> FrameRecord]
      /\ key \in StackKeys /\ b.pending > 0 /\ total.pending > 0
      /\ total \in [live : Nat, borrowed : Nat, pending : Nat]
  BY FrameFacts
<1>3. /\ b \in Bucket /\ b.live \in Nat /\ b.idle \in Nat /\ b.borrowed \in Nat /\ b.pending \in Nat
      /\ b.pool \in Seq(Nat) /\ b.idle = Len(b.pool) /\ b.live = b.idle + b.borrowed
      /\ b.live = Cardinality(StacksOf(key)) /\ b.live + b.pending <= MaxAlloc
      /\ \A i \in 1 .. Len(b.pool) : b.pool[i] \in StacksOf(key) /\ b.pool[i] \in Nat \ {0}
  BY <1>2, BucketFacts
<1>4. /\ c \in Bucket /\ c.idle = b.idle /\ c.borrowed = b.borrowed /\ c.live = b.live
      /\ c.pending = b.pending - 1 /\ c.pool = b.pool
  <2>1. b.pending - 1 \in Nat
    BY <1>2, <1>3
  <2> QED  BY <1>3, <2>1 DEF Bucket
<1>5. BucketBecomes(key, c)
  BY <1>2, <1>3, <1>4, EraseBecomes DEF StackInv
<1>8. /\ frame'[x] = NoFrameOf /\ OnlyFrame(x) /\ frame' \in [Contexts -> FrameRecord]
  <2>1. NoFrameOf \in FrameRecord
    BY StackConstants DEF NoFrameOf, FrameRecord, NoStack
  <2> QED  BY <1>2, <2>1 DEF OnlyFrame
<1>9. frame'[x].at = "none" /\ frame'[x].stack = NoStack
  BY <1>8 DEF NoFrameOf
<1>12. /\ \A k : StacksOf(k)' = StacksOf(k)
       /\ \A t \in DOMAIN memory' : MemoryRight(t)'
       /\ IsFiniteSet(DOMAIN memory') /\ DOMAIN memory' \subseteq Nat \ {0}
       /\ memory' \in [DOMAIN memory' -> StackRecord]
  BY MemoryStays
<1>14. FrameRight(x)'
  BY <1>9 DEF FrameRight
<1>16. PoolRight(key)'
  <2>1. \A i \in 1 .. Len(c.pool) :
              /\ c.pool[i] \in DOMAIN memory' /\ memory'[c.pool[i]] = memory[c.pool[i]]
              /\ frame'[x].stack # c.pool[i]
    BY <1>3, <1>4, <1>9 DEF StacksOf, NoStack
  <2>2. c.pool = GetBucket(key).pool /\ OnlyFrame(x)
    BY <1>4, <1>8
  <2>3. StackInv /\ x \in Contexts /\ key \in StackKeys
    BY <1>2
  <2> QED  BY ONLY <1>5, <2>1, <2>2, <2>3, PoolSame
<1>18. total' \in [live : Nat, borrowed : Nat, pending : Nat] /\ total'.live = total.live
       /\ total'.borrowed = total.borrowed /\ total'.pending = total.pending - 1
  BY <1>2
<1>19. total'.live = Cardinality(DOMAIN memory')
  BY <1>18 DEF StackInv, TotalsRight
<1>20. /\ One(frame[x].at = "made") = 0 /\ One(frame[x].at = "allocating") = 1
       /\ One(frame'[x].at = "made") = 0 /\ One(frame'[x].at = "allocating") = 0
  BY <1>9 DEF One
<1>21. c.live + c.pending <= MaxAlloc
  <2>1. /\ b.live \in Nat /\ b.pending \in Nat /\ b.live + b.pending <= MaxAlloc /\ MaxAlloc \in Nat
        /\ c.live = b.live /\ c.pending = b.pending - 1
    BY <1>3, <1>4, StackConstants
  <2> QED  BY ONLY <2>1
<1>22. c.idle = Len(c.pool) /\ c.live = c.idle + c.borrowed /\ c.live = Cardinality(StacksOf(key)')
  <2>1. StacksOf(key)' = StacksOf(key)
    BY <1>12
  <2> QED  BY <1>3, <1>4, <2>1
<1>23. /\ c.borrowed = GetBucket(key).borrowed - One(frame[x].at = "made") + One(frame'[x].at = "made")
       /\ c.pending = GetBucket(key).pending - One(frame[x].at = "allocating")
                      + One(frame'[x].at = "allocating")
       /\ total'.borrowed = total.borrowed - One(frame[x].at = "made") + One(frame'[x].at = "made")
       /\ total'.pending = total.pending - One(frame[x].at = "allocating")
                           + One(frame'[x].at = "allocating")
  <2>1. /\ GetBucket(key).borrowed \in Nat /\ GetBucket(key).pending \in Nat
        /\ total.borrowed \in Nat /\ total.pending \in Nat
        /\ c.borrowed = GetBucket(key).borrowed /\ c.pending = GetBucket(key).pending - 1
        /\ total'.borrowed = total.borrowed /\ total'.pending = total.pending - 1
    BY <1>2, <1>3, <1>4, <1>18
  <2> QED  BY ONLY <1>20, <2>1
<1>25. total'.borrowed + total'.pending <= MaxAlloc
  <2>1. total.borrowed + total.pending <= MaxAlloc
    BY DEF StackInv, TotalsRight
  <2> QED  BY <1>2, <1>18, <2>1, StackConstants
<1>24. \A y \in Contexts \ {x} : frame[y].stack # NoStack =>
          frame[y].stack \in DOMAIN memory' /\ memory'[frame[y].stack] = memory[frame[y].stack]
  BY DEF StackInv, FrameRight
<1>26. \A k \in StackKeys \ {key} : StacksOf(k)' = StacksOf(k)
  BY <1>12
<1>27. frame'[x].stack = NoStack /\ frame'[x].at = "none" /\ coAvg' = coAvg /\ trim' = trim
  BY <1>9
<1>28. /\ StackInv /\ x \in Contexts /\ key \in StackKeys /\ c \in Bucket
       /\ frame[x].at # "none" => AskedKey(x) = key
       /\ UNCHANGED <<coAvg, trim>>
  BY <1>2, <1>4
<1> QED  BY ONLY <1>5, <1>8, <1>12, <1>14, <1>16, <1>18, <1>19, <1>21, <1>22, <1>23, <1>24, <1>25,
                 <1>26, <1>27,
                 <1>28, StackInvBecomes
LEMMA RollBackInv ==
    ASSUME StackInv, NEW x \in Contexts, RollBack(x)
    PROVE  StackInv'
BY RollBackStep DEF RollBack

\* A stack goes back into the vector of its bucket.
LEMMA ReleaseKeeps ==
    ASSUME StackInv, NEW x \in Contexts, NEW key, key = AskedKey(x), NEW s, s = frame[x].stack,
           NEW b, b = GetBucket(key), NEW c,
           c = [b EXCEPT !.pool = Append(@, s), !.borrowed = @ - 1, !.idle = @ + 1],
           frame[x].at = "made", buckets' = Put(key, c),
           total' = [total EXCEPT !.borrowed = @ - 1],
           frame' = [frame EXCEPT ![x] = NoFrameOf],
           UNCHANGED <<coAvg, trim, memory>>
    PROVE  StackInv'
<1>2. /\ frame[x] \in FrameRecord /\ FrameRight(x) /\ frame \in [Contexts -> FrameRecord]
      /\ key \in StackKeys /\ b.borrowed > 0 /\ total.borrowed > 0
      /\ s \in StacksOf(key) /\ s \in Nat \ {0}
      /\ total \in [live : Nat, borrowed : Nat, pending : Nat]
  BY FrameFacts
<1>3. /\ b \in Bucket /\ PoolRight(key)
      /\ b.live \in Nat /\ b.idle \in Nat /\ b.borrowed \in Nat /\ b.pending \in Nat
      /\ b.pool \in Seq(Nat) /\ b.idle = Len(b.pool) /\ b.live = b.idle + b.borrowed
      /\ b.live = Cardinality(StacksOf(key)) /\ b.live + b.pending <= MaxAlloc
      /\ \A i \in 1 .. Len(b.pool) : b.pool[i] \in StacksOf(key) /\ b.pool[i] \in Nat \ {0}
  BY <1>2, BucketFacts
<1>0. /\ Append(b.pool, s) \in Seq(Nat) /\ Len(Append(b.pool, s)) = Len(b.pool) + 1
      /\ Append(b.pool, s)[Len(b.pool) + 1] = s /\ Len(b.pool) \in Nat
      /\ \A i \in 1 .. Len(b.pool) : Append(b.pool, s)[i] = b.pool[i]
  <2>1. b.pool \in Seq(Nat) /\ s \in Nat
    BY <1>2, <1>3
  <2> QED  BY ONLY <2>1, AppendProperties
<1>4. /\ c \in Bucket /\ c.idle = b.idle + 1 /\ c.borrowed = b.borrowed - 1 /\ c.live = b.live
      /\ c.pending = b.pending /\ c.pool = Append(b.pool, s)
  <2>0. b.borrowed \in Nat /\ b.borrowed > 0 /\ b.idle \in Nat
    BY <1>2, <1>3
  <2>1. b.borrowed - 1 \in Nat /\ b.idle + 1 \in Nat
    BY ONLY <2>0
  <2> QED  BY <1>0, <1>3, <2>1 DEF Bucket
<1>5. BucketBecomes(key, c)
  BY <1>2, PutBecomes DEF StackInv
<1>8. /\ frame'[x] = NoFrameOf /\ OnlyFrame(x) /\ frame' \in [Contexts -> FrameRecord]
  <2>1. NoFrameOf \in FrameRecord
    BY StackConstants DEF NoFrameOf, FrameRecord, NoStack
  <2> QED  BY <1>2, <2>1 DEF OnlyFrame
<1>9. frame'[x].at = "none" /\ frame'[x].stack = NoStack
  BY <1>8 DEF NoFrameOf
<1>11. memory' = memory
  OBVIOUS
<1>12. /\ \A k : StacksOf(k)' = StacksOf(k)
       /\ \A t \in DOMAIN memory' : MemoryRight(t)'
       /\ IsFiniteSet(DOMAIN memory') /\ DOMAIN memory' \subseteq Nat \ {0}
       /\ memory' \in [DOMAIN memory' -> StackRecord]
  BY <1>11, MemoryStays
<1>14. FrameRight(x)'
  BY <1>9 DEF FrameRight
<1>15. GetBucket(key)' = c
  BY <1>5 DEF BucketBecomes, GetBucket
<1>16. PoolRight(key)'
  <2> DEFINE p == Append(b.pool, s)
             n == Len(b.pool)
  <2>1. ASSUME NEW i \in 1 .. n
        PROVE  /\ p[i] = b.pool[i] /\ b.pool[i] \in StacksOf(key) /\ b.pool[i] # s /\ b.pool[i] # NoStack
               /\ \A y \in Contexts : frame[y].stack # b.pool[i]
    <3>1. p[i] = b.pool[i] /\ b.pool[i] \in StacksOf(key) /\ b.pool[i] \in Nat \ {0}
      BY <1>0, <1>3
    <3>2. \A y \in Contexts : frame[y].stack # b.pool[i]
      BY <1>3 DEF PoolRight
    <3> QED  BY <3>1, <3>2 DEF NoStack
  <2>2. \A y \in Contexts : frame'[y].stack # s
    <3>1. s # NoStack
      BY <1>2 DEF NoStack
    <3>2. \A y \in Contexts \ {x} : frame[y].stack # s
      BY <1>2, <3>1 DEF FrameRight
    <3> QED  BY <1>8, <1>9, <3>1, <3>2 DEF OnlyFrame
  <2>3. ASSUME NEW i \in 1 .. n + 1
        PROVE  p[i] \in StacksOf(key) /\ \A y \in Contexts : frame'[y].stack # p[i]
    <3>1. CASE i = n + 1
      BY <1>0, <1>2, <2>2, <3>1
    <3>2. CASE i # n + 1
      <4>1. i \in 1 .. n
        <5>1. n \in Nat /\ i \in 1 .. n + 1 /\ i # n + 1
          BY <1>0, <3>2
        <5> QED  BY ONLY <5>1
      <4>2. \A y \in Contexts : frame'[y].stack = frame[y].stack \/ frame'[y].stack = NoStack
        BY <1>8, <1>9 DEF OnlyFrame
      <4> HIDE DEF p, n
      <4> QED  BY <2>1, <4>1, <4>2
    <3> QED  BY <3>1, <3>2
  <2>4. ASSUME NEW i \in 1 .. n + 1, NEW j \in 1 .. n + 1, p[i] = p[j] PROVE i = j
    <3>1. \A m \in 1 .. n + 1 : m = n + 1 \/ m \in 1 .. n
      BY <1>0
    <3>2. p[n + 1] = s
      BY <1>0
    <3>3. CASE i \in 1 .. n /\ j \in 1 .. n
      <4>1. b.pool[i] = b.pool[j]
        BY <2>1, <2>4, <3>3
      <4> QED  BY <1>3, <3>3, <4>1 DEF PoolRight
    <3> HIDE DEF p, n
    <3> QED  BY <2>1, <2>4, <3>1, <3>2, <3>3
  <2>5. c.pool = p /\ Len(p) = n + 1
    BY <1>0, <1>4
  <2> HIDE DEF p, n
  <2> QED  BY <1>11, <1>15, <2>3, <2>4, <2>5 DEF PoolRight, StacksOf, KeyOf
<1>18. total' \in [live : Nat, borrowed : Nat, pending : Nat] /\ total'.live = total.live
       /\ total'.borrowed = total.borrowed - 1 /\ total'.pending = total.pending
  BY <1>2
<1>19. total'.live = Cardinality(DOMAIN memory')
  BY <1>11, <1>18 DEF StackInv, TotalsRight
<1>20. /\ One(frame[x].at = "made") = 1 /\ One(frame[x].at = "allocating") = 0
       /\ One(frame'[x].at = "made") = 0 /\ One(frame'[x].at = "allocating") = 0
  BY <1>9 DEF One
<1>21. c.live + c.pending <= MaxAlloc
  BY <1>3, <1>4
<1>22. c.idle = Len(c.pool) /\ c.live = c.idle + c.borrowed /\ c.live = Cardinality(StacksOf(key)')
  <2>1. StacksOf(key)' = StacksOf(key)
    BY <1>12
  <2>2. c.idle = Len(c.pool)
    BY <1>0, <1>3, <1>4
  <2>3. c.live = c.idle + c.borrowed
    <3>1. /\ b.live \in Nat /\ b.idle \in Nat /\ b.borrowed \in Nat /\ b.live = b.idle + b.borrowed
          /\ c.idle = b.idle + 1 /\ c.borrowed = b.borrowed - 1 /\ c.live = b.live
      BY <1>3, <1>4
    <3> QED  BY ONLY <3>1
  <2> QED  BY <1>3, <1>4, <2>1, <2>2, <2>3
<1>23. /\ c.borrowed = GetBucket(key).borrowed - One(frame[x].at = "made") + One(frame'[x].at = "made")
       /\ c.pending = GetBucket(key).pending - One(frame[x].at = "allocating")
                      + One(frame'[x].at = "allocating")
       /\ total'.borrowed = total.borrowed - One(frame[x].at = "made") + One(frame'[x].at = "made")
       /\ total'.pending = total.pending - One(frame[x].at = "allocating")
                           + One(frame'[x].at = "allocating")
  <2>1. /\ GetBucket(key).borrowed \in Nat /\ GetBucket(key).pending \in Nat
        /\ total.borrowed \in Nat /\ total.pending \in Nat
        /\ c.borrowed = GetBucket(key).borrowed - 1 /\ c.pending = GetBucket(key).pending
        /\ total'.borrowed = total.borrowed - 1 /\ total'.pending = total.pending
    BY <1>2, <1>3, <1>4, <1>18
  <2> QED  BY ONLY <1>20, <2>1
<1>25. total'.borrowed + total'.pending <= MaxAlloc
  <2>1. total.borrowed + total.pending <= MaxAlloc
    BY DEF StackInv, TotalsRight
  <2> QED  BY <1>2, <1>18, <2>1, StackConstants
<1>24. \A y \in Contexts \ {x} : frame[y].stack # NoStack =>
          frame[y].stack \in DOMAIN memory' /\ memory'[frame[y].stack] = memory[frame[y].stack]
  BY DEF StackInv, FrameRight
<1>26. \A k \in StackKeys \ {key} : StacksOf(k)' = StacksOf(k)
  BY <1>12
<1>27. frame'[x].stack = NoStack /\ frame'[x].at = "none" /\ coAvg' = coAvg /\ trim' = trim
  BY <1>9
<1>28. /\ StackInv /\ x \in Contexts /\ key \in StackKeys /\ c \in Bucket
       /\ frame[x].at # "none" => AskedKey(x) = key
       /\ UNCHANGED <<coAvg, trim>>
  BY <1>2, <1>4
<1> QED  BY ONLY <1>5, <1>8, <1>12, <1>14, <1>16, <1>18, <1>19, <1>21, <1>22, <1>23, <1>24, <1>25,
                 <1>26, <1>27,
                 <1>28, StackInvBecomes

\* A stack that its bucket cannot hold is freed.
LEMMA ReleaseFrees ==
    ASSUME StackInv, NEW x \in Contexts, NEW key, key = AskedKey(x), NEW s, s = frame[x].stack,
           NEW b, b = GetBucket(key), NEW c,
           c = [b EXCEPT !.borrowed = @ - 1, !.live = @ - 1],
           frame[x].at = "made", buckets' = EraseBucketIfEmpty(key, c),
           total' = [total EXCEPT !.borrowed = @ - 1, !.live = @ - 1],
           frame' = [frame EXCEPT ![x] = NoFrameOf], memory' = Without(memory, s),
           UNCHANGED <<coAvg, trim>>
    PROVE  StackInv'
<1>2. /\ frame[x] \in FrameRecord /\ FrameRight(x) /\ frame \in [Contexts -> FrameRecord]
      /\ key \in StackKeys /\ b.borrowed > 0 /\ total.borrowed > 0
      /\ s \in StacksOf(key) /\ s \in Nat \ {0}
      /\ total \in [live : Nat, borrowed : Nat, pending : Nat]
  BY FrameFacts
<1>3. /\ b \in Bucket /\ PoolRight(key)
      /\ b.live \in Nat /\ b.idle \in Nat /\ b.borrowed \in Nat /\ b.pending \in Nat
      /\ b.pool \in Seq(Nat) /\ b.idle = Len(b.pool) /\ b.live = b.idle + b.borrowed
      /\ b.live = Cardinality(StacksOf(key)) /\ b.live + b.pending <= MaxAlloc
      /\ \A i \in 1 .. Len(b.pool) : b.pool[i] \in StacksOf(key) /\ b.pool[i] \in Nat \ {0}
  BY <1>2, BucketFacts
<1>4. /\ c \in Bucket /\ c.idle = b.idle /\ c.borrowed = b.borrowed - 1 /\ c.live = b.live - 1
      /\ c.pending = b.pending /\ c.pool = b.pool
  <2>0. b.borrowed \in Nat /\ b.borrowed > 0 /\ b.idle \in Nat /\ b.live = b.idle + b.borrowed
    BY <1>2, <1>3
  <2>1. b.borrowed - 1 \in Nat /\ b.live - 1 \in Nat
    BY ONLY <2>0
  <2> QED  BY <1>3, <2>1 DEF Bucket
<1>22. c.idle = Len(c.pool) /\ c.live = c.idle + c.borrowed
  <2>1. c.idle = Len(c.pool)
    BY <1>3, <1>4
  <2>2. c.live = c.idle + c.borrowed
    <3>1. /\ b.live \in Nat /\ b.idle \in Nat /\ b.borrowed \in Nat /\ b.live = b.idle + b.borrowed
          /\ c.idle = b.idle /\ c.borrowed = b.borrowed - 1 /\ c.live = b.live - 1
      BY <1>3, <1>4
    <3> QED  BY ONLY <3>1
  <2> QED  BY <2>1, <2>2
<1>5. BucketBecomes(key, c)
  BY <1>2, <1>4, <1>22, EraseBecomes DEF StackInv
<1>8. /\ frame'[x] = NoFrameOf /\ OnlyFrame(x) /\ frame' \in [Contexts -> FrameRecord]
  <2>1. NoFrameOf \in FrameRecord
    BY StackConstants DEF NoFrameOf, FrameRecord, NoStack
  <2> QED  BY <1>2, <2>1 DEF OnlyFrame
<1>9. frame'[x].at = "none" /\ frame'[x].stack = NoStack
  BY <1>8 DEF NoFrameOf
<1>12. /\ IsFiniteSet(DOMAIN memory') /\ DOMAIN memory' \subseteq Nat \ {0}
       /\ memory' \in [DOMAIN memory' -> StackRecord]
       /\ \A t \in DOMAIN memory \ {s} : t \in DOMAIN memory' /\ memory'[t] = memory[t]
       /\ Cardinality(DOMAIN memory') = Cardinality(DOMAIN memory) - 1
       /\ Cardinality(StacksOf(key)') = Cardinality(StacksOf(key)) - 1
       /\ Cardinality(DOMAIN memory) > 0
       /\ \A k \in StackKeys \ {key} : StacksOf(k)' = StacksOf(k)
       /\ \A t \in DOMAIN memory' : MemoryRight(t)'
  BY <1>2, MemoryRemoves
<1>14. FrameRight(x)'
  BY <1>9 DEF FrameRight
<1>16. PoolRight(key)'
  <2>1. \A i \in 1 .. Len(c.pool) :
              /\ c.pool[i] \in DOMAIN memory' /\ memory'[c.pool[i]] = memory[c.pool[i]]
              /\ frame'[x].stack # c.pool[i]
    <3>1. ASSUME NEW i \in 1 .. Len(c.pool)
          PROVE  c.pool[i] \in DOMAIN memory \ {s} /\ c.pool[i] # NoStack
      <4>1. c.pool[i] = b.pool[i] /\ i \in 1 .. Len(b.pool)
        BY <1>4
      <4>2. b.pool[i] # s
        BY <1>3, <4>1 DEF PoolRight
      <4> QED  BY <1>3, <4>1, <4>2 DEF StacksOf, NoStack
    <3> QED  BY <1>9, <1>12, <3>1
  <2>2. c.pool = GetBucket(key).pool /\ OnlyFrame(x)
    BY <1>4, <1>8
  <2>3. StackInv /\ x \in Contexts /\ key \in StackKeys
    BY <1>2
  <2> QED  BY ONLY <1>5, <2>1, <2>2, <2>3, PoolSame
<1>19. /\ total' \in [live : Nat, borrowed : Nat, pending : Nat]
       /\ total'.live = total.live - 1 /\ total'.live = Cardinality(DOMAIN memory')
       /\ total'.borrowed = total.borrowed - 1 /\ total'.pending = total.pending
  <2>1. total.live = Cardinality(DOMAIN memory)
    BY DEF StackInv, TotalsRight
  <2>2. total.live - 1 \in Nat /\ total.borrowed - 1 \in Nat
    BY <1>2, <1>12, <2>1
  <2> QED  BY <1>2, <1>12, <2>1, <2>2
<1>20. /\ One(frame[x].at = "made") = 1 /\ One(frame[x].at = "allocating") = 0
       /\ One(frame'[x].at = "made") = 0 /\ One(frame'[x].at = "allocating") = 0
  BY <1>9 DEF One
<1>21. c.live + c.pending <= MaxAlloc /\ c.live = Cardinality(StacksOf(key)')
  <2>1. /\ b.live \in Nat /\ b.pending \in Nat /\ b.live + b.pending <= MaxAlloc /\ MaxAlloc \in Nat
        /\ c.live = b.live - 1 /\ c.pending = b.pending /\ b.live = Cardinality(StacksOf(key))
        /\ Cardinality(StacksOf(key)') = Cardinality(StacksOf(key)) - 1
    BY <1>3, <1>4, <1>12, StackConstants
  <2> QED  BY ONLY <2>1
<1>23. /\ c.borrowed = GetBucket(key).borrowed - One(frame[x].at = "made") + One(frame'[x].at = "made")
       /\ c.pending = GetBucket(key).pending - One(frame[x].at = "allocating")
                      + One(frame'[x].at = "allocating")
       /\ total'.borrowed = total.borrowed - One(frame[x].at = "made") + One(frame'[x].at = "made")
       /\ total'.pending = total.pending - One(frame[x].at = "allocating")
                           + One(frame'[x].at = "allocating")
  <2>1. /\ GetBucket(key).borrowed \in Nat /\ GetBucket(key).pending \in Nat
        /\ total.borrowed \in Nat /\ total.pending \in Nat
        /\ c.borrowed = GetBucket(key).borrowed - 1 /\ c.pending = GetBucket(key).pending
        /\ total'.borrowed = total.borrowed - 1 /\ total'.pending = total.pending
    BY <1>2, <1>3, <1>4, <1>19
  <2> QED  BY ONLY <1>20, <2>1
<1>25. total'.borrowed + total'.pending <= MaxAlloc
  <2>1. total.borrowed + total.pending <= MaxAlloc
    BY DEF StackInv, TotalsRight
  <2> QED  BY <1>2, <1>19, <2>1, StackConstants
<1>24. \A y \in Contexts \ {x} : frame[y].stack # NoStack =>
          frame[y].stack \in DOMAIN memory' /\ memory'[frame[y].stack] = memory[frame[y].stack]
  <2>1. \A y \in Contexts \ {x} : frame[y].stack # s
    BY <1>2 DEF FrameRight, NoStack
  <2>2. \A y \in Contexts : frame[y].stack # NoStack => frame[y].stack \in DOMAIN memory
    BY DEF StackInv, FrameRight
  <2> QED  BY <1>12, <2>1, <2>2
<1>27. frame'[x].stack = NoStack /\ frame'[x].at = "none" /\ coAvg' = coAvg /\ trim' = trim
  BY <1>9
<1>28. /\ StackInv /\ x \in Contexts /\ key \in StackKeys /\ c \in Bucket
       /\ frame[x].at # "none" => AskedKey(x) = key
       /\ UNCHANGED <<coAvg, trim>>
  BY <1>2, <1>4
<1> QED  BY ONLY <1>5, <1>8, <1>12, <1>14, <1>16, <1>19, <1>21, <1>22, <1>23, <1>24, <1>25, <1>27,
                 <1>28, StackInvBecomes

\* The two ways of Release; a bucket of a borrowed stack always knows of it.
ReleaseKept(x) ==
    LET key == AskedKey(x)
        b == GetBucket(key)
    IN  /\ frame[x].at = "made" /\ frame' = [frame EXCEPT ![x] = NoFrameOf]
        /\ buckets' = Put(key, [b EXCEPT !.pool = Append(@, frame[x].stack), !.borrowed = @ - 1,
                                         !.idle = @ + 1])
        /\ total' = [total EXCEPT !.borrowed = @ - 1]
        /\ UNCHANGED <<coAvg, trim, memory>>
ReleaseFreed(x) ==
    LET key == AskedKey(x)
        b == GetBucket(key)
    IN  /\ frame[x].at = "made" /\ frame' = [frame EXCEPT ![x] = NoFrameOf]
        /\ buckets' = EraseBucketIfEmpty(key, [b EXCEPT !.borrowed = @ - 1, !.live = @ - 1])
        /\ total' = [total EXCEPT !.borrowed = @ - 1, !.live = @ - 1]
        /\ memory' = Without(memory, frame[x].stack)
        /\ UNCHANGED <<coAvg, trim>>
LEMMA ReleaseInv ==
    ASSUME StackInv, NEW x \in Contexts, Release(x)
    PROVE  StackInv'
<1>1. frame[x].at = "made" /\ ReturnKey(frame[x].stack) = AskedKey(x)
  BY FrameFacts DEF Release, ReturnKey, FrameRight
<1>2. GetBucket(AskedKey(x)).borrowed # 0
  BY <1>1, FrameFacts
<1>3. CASE ReleaseKept(x)
  BY <1>1, <1>3, ReleaseKeeps DEF ReleaseKept
<1>4. CASE ReleaseFreed(x)
  BY <1>1, <1>4, ReleaseFrees DEF ReleaseFreed
<1>5. ReleaseKept(x) \/ ReleaseFreed(x)
  BY <1>1, <1>2 DEF Release, ReleaseKept, ReleaseFreed
<1> QED  BY <1>3, <1>4, <1>5

-----------------------------------------------------------------------------
\* There are at most MaxAlloc stacks for each of the asks.
LEMMA LiveBound ==
    ASSUME StackInv
    PROVE  total.live \in Nat /\ total.live <= Cardinality(Asks) * MaxAlloc
<1> DEFINE AskFor(k) == CHOOSE a \in Asks : KeyFor(a) = k
           Number(k) == CHOOSE f \in [StacksOf(k) -> 1 .. MaxAlloc] :
                           \A s, t \in StacksOf(k) : f[s] = f[t] => s = t
<1>1. ASSUME NEW k \in StackKeys PROVE AskFor(k) \in Asks /\ KeyFor(AskFor(k)) = k
  BY DEF StackKeys
<1>2. ASSUME NEW k \in StackKeys
      PROVE  \E f \in [StacksOf(k) -> 1 .. MaxAlloc] :
                \A s, t \in StacksOf(k) : f[s] = f[t] => s = t
  <2> DEFINE n == Cardinality(StacksOf(k))
  <2>1. n \in Nat /\ IsFiniteSet(StacksOf(k)) /\ n <= MaxAlloc
    <3>1. IsFiniteSet(StacksOf(k)) /\ n \in Nat
      BY StackSets
    <3>2. GetBucket(k).live = n /\ GetBucket(k).live + GetBucket(k).pending <= MaxAlloc
          /\ GetBucket(k).pending \in Nat
      BY BucketFacts
    <3> QED  BY <3>1, <3>2, StackConstants
  <2>2. ExistsBijection(StacksOf(k), 1 .. n)
    BY <2>1, FS_CardinalityType, Fun_ExistsBijSymmetric
  <2>3. PICK f \in Bijection(StacksOf(k), 1 .. n) : TRUE
    BY <2>2 DEF ExistsBijection
  <2>4. f \in [StacksOf(k) -> 1 .. n] /\ \A s, t \in StacksOf(k) : f[s] = f[t] => s = t
    <3>1. f \in Injection(StacksOf(k), 1 .. n)
      BY <2>3 DEF Bijection
    <3> QED  BY ONLY <3>1 DEF Injection, IsInjective
  <2>5. 1 .. n \subseteq 1 .. MaxAlloc
    BY <2>1, StackConstants
  <2> HIDE DEF n
  <2> QED  BY <2>4, <2>5
<1>3. ASSUME NEW k \in StackKeys
      PROVE  /\ Number(k) \in [StacksOf(k) -> 1 .. MaxAlloc]
             /\ \A s, t \in StacksOf(k) : Number(k)[s] = Number(k)[t] => s = t
  BY <1>2
<1> DEFINE h == [s \in DOMAIN memory |-> <<AskFor(KeyOf(s)), Number(KeyOf(s))[s]>>]
<1> HIDE DEF AskFor, Number
<1>4. ASSUME NEW s \in DOMAIN memory
      PROVE  KeyOf(s) \in StackKeys /\ s \in StacksOf(KeyOf(s))
  BY DEF StackInv, MemoryRight, StacksOf
<1>5. h \in [DOMAIN memory -> Asks \X (1 .. MaxAlloc)]
  BY <1>1, <1>3, <1>4
<1>6. ASSUME NEW s \in DOMAIN memory, NEW t \in DOMAIN memory, h[s] = h[t] PROVE s = t
  <2>1. AskFor(KeyOf(s)) = AskFor(KeyOf(t)) /\ Number(KeyOf(s))[s] = Number(KeyOf(t))[t]
    BY <1>6
  <2>2. KeyOf(s) = KeyOf(t)
    BY <1>1, <1>4, <2>1
  <2> QED  BY <1>3, <1>4, <2>1, <2>2
<1>7. h \in Injection(DOMAIN memory, Asks \X (1 .. MaxAlloc))
  <2> HIDE DEF h
  <2> QED  BY <1>5, <1>6, Fun_IsInj
<1>8. IsFiniteSet(1 .. MaxAlloc) /\ Cardinality(1 .. MaxAlloc) = MaxAlloc
  <2>1. /\ IsFiniteSet(1 .. MaxAlloc)
        /\ Cardinality(1 .. MaxAlloc) = IF 1 > MaxAlloc THEN 0 ELSE MaxAlloc - 1 + 1
    <3>1. 1 \in Int /\ MaxAlloc \in Int
      BY StackConstants
    <3> QED  BY ONLY <3>1, FS_Interval
  <2> QED  BY <2>1, StackConstants
<1>9. IsFiniteSet(Asks \X (1 .. MaxAlloc))
      /\ Cardinality(Asks \X (1 .. MaxAlloc)) = Cardinality(Asks) * MaxAlloc
  BY <1>8, StackConstants, FS_Product
<1>10. Cardinality(DOMAIN memory) <= Cardinality(Asks \X (1 .. MaxAlloc))
  <2> HIDE DEF h
  <2> QED  BY <1>7, <1>9, FS_Injection
<1> HIDE DEF h
<1> QED  BY <1>9, <1>10, StackSets DEF StackInv, TotalsRight

\* A step that touches no bucket, no Context and no stack.
LEMMA StackInvQuiet ==
    ASSUME StackInv, UNCHANGED <<buckets, total, frame, memory>>, coAvg' \in Nat,
           trim' \in [keep : Nat, left : Int],
           trim'.left \in -1 .. Cardinality(Asks) * MaxAlloc + Preload
    PROVE  StackInv'
<1>1. StackTypes'
  BY DEF StackInv, StackTypes, GetBucket
<1>2. TotalsRight'
  BY DEF StackInv, TotalsRight, InPlace
<1>3. ASSUME NEW key \in StackKeys PROVE BucketCounts(key)' /\ PoolRight(key)'
  <2>1. (IF key \in DOMAIN buckets' THEN buckets'[key] ELSE NewBucket) = GetBucket(key)
    BY DEF GetBucket
  <2>2. /\ At("made", key)' = At("made", key) /\ At("allocating", key)' = At("allocating", key)
        /\ StacksOf(key)' = StacksOf(key)
    BY DEF At, AskedKey, StacksOf, KeyOf
  <2> QED  BY <2>1, <2>2, BucketKept
<1>4. ASSUME NEW x \in Contexts PROVE FrameRight(x)'
  BY DEF StackInv, FrameRight, AskedKey, KeyOf, StackKeys, KeyFor
<1>5. ASSUME NEW s \in DOMAIN memory' PROVE MemoryRight(s)'
  BY DEF StackInv, MemoryRight, KeyOf, GuardFits, NewStack
<1> QED  BY <1>1, <1>2, <1>3, <1>4, <1>5 DEF StackInv

\* The tick decides how much to keep.
LEMMA OnUpdateInv ==
    ASSUME StackInv, NEW sample \in BOOLEAN, NEW adjust \in BOOLEAN, OnUpdate(sample, adjust)
    PROVE  StackInv'
<1> DEFINE first == IF coAvg = 0 THEN InUse ELSE coAvg
           avg == IF sample THEN (7 * first + InUse) \div 8 ELSE first
           keep == IF MinAlloc > avg THEN MinAlloc ELSE avg
<1>1. /\ total \in [live : Nat, borrowed : Nat, pending : Nat] /\ coAvg \in Nat
      /\ trim \in [keep : Nat, left : Int]
      /\ trim.left \in -1 .. Cardinality(Asks) * MaxAlloc + Preload
  BY DEF StackInv, StackTypes
<1>2. InUse \in Nat
  BY <1>1 DEF InUse
<1>3. first \in Nat
  BY <1>1, <1>2
<1>4. avg \in Nat
  <2> HIDE DEF first
  <2> QED  BY <1>2, <1>3
<1>5. keep \in Nat
  <2> HIDE DEF avg
  <2> QED  BY <1>4, StackConstants
<1>6. coAvg' = avg /\ UNCHANGED <<buckets, total, frame, memory>>
  BY DEF OnUpdate
<1>7. trim' = IF adjust THEN [keep |-> keep, left |-> IF total.live > keep
                                                      THEN total.live - keep ELSE 0] ELSE trim
  BY DEF OnUpdate
<1> HIDE DEF keep, avg
<1>8. total.live \in Nat /\ total.live <= Cardinality(Asks) * MaxAlloc
      /\ Cardinality(Asks) * MaxAlloc \in Nat /\ Preload \in Nat
  BY LiveBound, StackConstants
<1>9. trim' \in [keep : Nat, left : Int] /\ trim'.left \in -1 .. Cardinality(Asks) * MaxAlloc + Preload
  <2> DEFINE c == Cardinality(Asks) * MaxAlloc
  <2>1. c \in Nat /\ total.live <= c
    BY <1>8
  <2> HIDE DEF c
  <2>2. (IF total.live > keep THEN total.live - keep ELSE 0) \in -1 .. c + Preload
    BY <1>5, <1>8, <2>1
  <2>3. CASE adjust
    BY <1>5, <1>7, <2>2, <2>3 DEF c
  <2>4. CASE ~adjust
    BY <1>1, <1>7, <2>4
  <2> QED  BY <2>3, <2>4
<1> QED  BY <1>4, <1>6, <1>9, StackInvQuiet

\* A nonempty set of numbers has a least one.
LEMMA LeastSize ==
    ASSUME NEW T \in SUBSET Nat, T # {}
    PROVE  \E n \in T : \A m \in T : n <= m
<1>1. \E n \in T : \A m \in T : <<m, n>> \notin OpToRel(<, Nat)
  BY NatLessThanWellFounded, WFMin
<1>2. \A n, m \in Nat : <<m, n>> \notin OpToRel(<, Nat) => n <= m
  BY DEF OpToRel
<1> QED  BY <1>1, <1>2

\* The map has a first bucket with an idle stack, if it has one.
LEMMA FirstBucket ==
    ASSUME NEW W \in SUBSET StackKeys, W # {}
    PROVE  \E k \in W : \A j \in W \ {k} : Before(k, j)
<1>1. \A k \in W : k = <<k[1], k[2]>> /\ k[1] \in Nat /\ k[2] \in BOOLEAN
  BY KeyShape
<1>2. PICK n \in {k[1] : k \in W} : \A m \in {k[1] : k \in W} : n <= m
  <2>1. {k[1] : k \in W} \in SUBSET Nat /\ {k[1] : k \in W} # {}
    BY <1>1
  <2> QED  BY <2>1, LeastSize
<1>3. n \in Nat /\ \A k \in W : n <= k[1]
  BY <1>1, <1>2
<1>4. CASE \E k \in W : k[1] = n /\ k[2] = FALSE
  <2>1. PICK k \in W : k[1] = n /\ k[2] = FALSE
    BY <1>4
  <2>2. ASSUME NEW j \in W \ {k} PROVE Before(k, j)
    <3>1. j = <<j[1], j[2]>> /\ j[1] \in Nat /\ j[2] \in BOOLEAN /\ n <= j[1] /\ k = <<k[1], k[2]>>
      BY <1>1, <1>3
    <3>2. CASE j[1] = n
      <4>1. j[2] = TRUE
        BY <2>1, <2>2, <3>1, <3>2
      <4> QED  BY <2>1, <3>2, <4>1 DEF Before
    <3>3. CASE j[1] # n
      <4>1. n < j[1]
        BY <1>3, <3>1, <3>3
      <4> QED  BY <2>1, <4>1 DEF Before
    <3> QED  BY <3>2, <3>3
  <2> QED  BY <2>2
<1>5. CASE \A k \in W : k[1] = n => k[2] = TRUE
  <2>1. PICK k \in W : k[1] = n
    BY <1>2
  <2>2. ASSUME NEW j \in W \ {k} PROVE Before(k, j)
    <3>1. j = <<j[1], j[2]>> /\ j[1] \in Nat /\ n <= j[1] /\ k = <<k[1], k[2]>>
      BY <1>1, <1>3
    <3>2. j[1] # n
      BY <1>5, <2>1, <2>2, <3>1
    <3>3. n < j[1]
      BY <1>3, <3>1, <3>2
    <3> QED  BY <2>1, <3>3 DEF Before
  <2> QED  BY <2>2
<1> QED  BY <1>1, <1>4, <1>5

\* An idle stack is taken out of a bucket and freed.
LEMMA TakeStep ==
    ASSUME StackInv, NEW key \in WithIdle, NEW b, b = buckets[key], NEW s, s = Last(b.pool), NEW c,
           c = [b EXCEPT !.pool = Front(@), !.idle = @ - 1, !.live = @ - 1],
           buckets' = EraseBucketIfEmpty(key, c), total' = [total EXCEPT !.live = @ - 1],
           memory' = Without(memory, s), frame' = frame, coAvg' = coAvg,
           trim' \in [keep : Nat, left : Int],
           trim'.left \in -1 .. Cardinality(Asks) * MaxAlloc + Preload
    PROVE  StackInv'
<1> DEFINE n == Len(b.pool)
<1>1. key \in StackKeys /\ b = GetBucket(key) /\ b.idle # 0
  BY DEF WithIdle, GetBucket, StackInv, StackTypes
<1>2. /\ b \in Bucket /\ PoolRight(key)
      /\ b.live \in Nat /\ b.idle \in Nat /\ b.borrowed \in Nat /\ b.pending \in Nat
      /\ b.pool \in Seq(Nat) /\ b.idle = n /\ b.live = b.idle + b.borrowed
      /\ \A i \in 1 .. n : b.pool[i] \in StacksOf(key) /\ b.pool[i] \in Nat \ {0}
  BY <1>1, BucketFacts
<1>3. /\ Front(b.pool) \in Seq(Nat) /\ Len(Front(b.pool)) = n - 1 /\ n \in Nat /\ n > 0
      /\ s = b.pool[n] /\ \A i \in 1 .. n - 1 : Front(b.pool)[i] = b.pool[i]
  <2>1. b.pool # <<>>
    BY <1>1, <1>2
  <2> QED  BY <1>2, <2>1, LastOut
<1>4. /\ c \in Bucket /\ c.idle = b.idle - 1 /\ c.live = b.live - 1 /\ c.borrowed = b.borrowed
      /\ c.pending = b.pending /\ c.pool = Front(b.pool)
  <2>1. /\ b.idle \in Nat /\ b.idle # 0 /\ b.borrowed \in Nat /\ b.live = b.idle + b.borrowed
    BY <1>1, <1>2
  <2>2. b.idle - 1 \in Nat /\ b.live - 1 \in Nat
    BY ONLY <2>1
  <2> QED  BY <1>2, <1>3, <2>2 DEF Bucket
<1>5. c.idle = Len(c.pool) /\ c.live = c.idle + c.borrowed
  <2>1. /\ b.idle \in Nat /\ b.borrowed \in Nat /\ b.live = b.idle + b.borrowed
        /\ c.idle = b.idle - 1 /\ c.live = b.live - 1 /\ c.borrowed = b.borrowed
    BY <1>2, <1>4
  <2>2. c.live = c.idle + c.borrowed
    BY ONLY <2>1
  <2> QED  BY <1>2, <1>3, <1>4, <2>2
<1>6. BucketBecomes(key, c)
  BY <1>1, <1>4, <1>5, EraseBecomes DEF StackInv
<1>12. /\ \A i \in 1 .. n : \A x \in Contexts : frame[x].stack # b.pool[i]
       /\ \A i, j \in 1 .. n : b.pool[i] = b.pool[j] => i = j
  BY <1>1, <1>2 DEF PoolRight
<1>7. s \in StacksOf(key) /\ \A x \in Contexts : frame[x].stack # s
  <2>1. n \in 1 .. n /\ s = b.pool[n]
    BY <1>3
  <2>2. b.pool[n] \in StacksOf(key)
    BY <1>2, <2>1
  <2> HIDE DEF n
  <2> QED  BY <1>12, <2>1, <2>2
<1>8. GetBucket(key)' = c
  BY <1>6 DEF BucketBecomes, GetBucket
<1>9. \A t \in DOMAIN memory \ {s} : t \in DOMAIN memory' /\ memory'[t] = memory[t]
  BY DEF Without
<1>10. PoolRight(key)'
  <2>1. ASSUME NEW i \in 1 .. n - 1
        PROVE  /\ Front(b.pool)[i] = b.pool[i] /\ i \in 1 .. n
               /\ b.pool[i] \in DOMAIN memory'
               /\ <<memory'[b.pool[i]].useable, memory'[b.pool[i]].protect>> = key
               /\ \A y \in Contexts : frame'[y].stack # b.pool[i]
    <3>1. Front(b.pool)[i] = b.pool[i] /\ i \in 1 .. n /\ n \in 1 .. n /\ i # n
      <4>1. n \in Nat /\ n > 0 /\ i \in 1 .. n - 1
        BY <1>3
      <4>2. i \in 1 .. n /\ n \in 1 .. n /\ i # n
        BY ONLY <4>1
      <4> HIDE DEF n
      <4> QED  BY <1>3, <4>2
    <3>2. b.pool[i] \in StacksOf(key) /\ b.pool[i] # s
          /\ \A y \in Contexts : frame[y].stack # b.pool[i]
      <4>1. b.pool[i] \in StacksOf(key)
        BY <1>2, <3>1
      <4>2. s = b.pool[n]
        BY <1>3
      <4> HIDE DEF n
      <4> QED  BY <1>12, <3>1, <4>1, <4>2
    <3> QED  BY <1>9, <3>1, <3>2 DEF StacksOf, KeyOf
  <2>2. \A i, j \in 1 .. n : b.pool[i] = b.pool[j] => i = j
    BY <1>12
  <2>3. Len(c.pool) = n - 1
    BY <1>3, <1>4
  <2>4. \A i \in 1 .. n - 1 :
           /\ c.pool[i] \in DOMAIN memory'
           /\ <<memory'[c.pool[i]].useable, memory'[c.pool[i]].protect>> = key
           /\ \A y \in Contexts : frame'[y].stack # c.pool[i]
    <3>1. c.pool = Front(b.pool)
      BY <1>4
    <3> HIDE DEF n
    <3> QED  BY ONLY <2>1, <3>1
  <2>5. \A i, j \in 1 .. n - 1 : c.pool[i] = c.pool[j] => i = j
    <3>1. \A i \in 1 .. n - 1 : c.pool[i] = b.pool[i] /\ i \in 1 .. n
      BY <1>4, <2>1
    <3> HIDE DEF n
    <3> QED  BY <2>2, <3>1
  <2> HIDE DEF n
  <2> QED  BY ONLY <1>8, <2>3, <2>4, <2>5 DEF PoolRight, KeyOf
<1> HIDE DEF n
<1>11. /\ StackInv /\ key \in StackKeys /\ c \in Bucket /\ frame' = frame
       /\ memory' = Without(memory, s) /\ total' = [total EXCEPT !.live = @ - 1] /\ coAvg' = coAvg
       /\ trim' \in [keep : Nat, left : Int]
       /\ trim'.left \in -1 .. Cardinality(Asks) * MaxAlloc + Preload
       /\ c.live = GetBucket(key).live - 1 /\ c.borrowed = GetBucket(key).borrowed
       /\ c.pending = GetBucket(key).pending
  BY <1>1, <1>4
<1> QED  BY ONLY <1>5, <1>6, <1>7, <1>10, <1>11, StackInvWithout
LEMMA TakeIdleInv ==
    ASSUME StackInv, WithIdle # {}, TakeIdle, frame' = frame, coAvg' = coAvg,
           trim' \in [keep : Nat, left : Int],
           trim'.left \in -1 .. Cardinality(Asks) * MaxAlloc + Preload
    PROVE  StackInv'
<1> DEFINE key == CHOOSE k \in WithIdle : \A j \in WithIdle \ {k} : Before(k, j)
<1>1. WithIdle \in SUBSET StackKeys
  BY DEF WithIdle, StackInv, StackTypes
<1>2. key \in WithIdle
  BY <1>1, FirstBucket
<1>3. /\ buckets' = EraseBucketIfEmpty(key,
                      [buckets[key] EXCEPT !.pool = Front(@), !.idle = @ - 1, !.live = @ - 1])
      /\ total' = [total EXCEPT !.live = @ - 1]
      /\ memory' = Without(memory, Last(buckets[key].pool))
  BY DEF TakeIdle
<1> HIDE DEF key
<1> QED  BY <1>2, <1>3, TakeStep

\* The loop of the tick, and the user's release.
LEMMA TrimTypes ==
    ASSUME StackInv
    PROVE  /\ trim \in [keep : Nat, left : Int] /\ coAvg \in Nat
           /\ trim.left \in -1 .. Cardinality(Asks) * MaxAlloc + Preload
           /\ Cardinality(Asks) * MaxAlloc + Preload \in Nat
BY StackConstants DEF StackInv, StackTypes
LEMMA TrimOneInv ==
    ASSUME StackInv, TrimOne
    PROVE  StackInv'
<1> DEFINE top == Cardinality(Asks) * MaxAlloc + Preload
<1>1. trim \in [keep : Nat, left : Int] /\ coAvg \in Nat /\ trim.left \in -1 .. top /\ top \in Nat
  BY TrimTypes
<1>2. CASE trim.left > 0 /\ AboveKeep /\ WithIdle # {}
  <2>1. /\ TakeIdle /\ trim' = [trim EXCEPT !.left = @ - 1] /\ frame' = frame /\ coAvg' = coAvg
    BY <1>2 DEF TrimOne
  <2>2. trim' \in [keep : Nat, left : Int] /\ trim'.left \in -1 .. top
    <3> HIDE DEF top
    <3> QED  BY <1>1, <1>2, <2>1
  <2> QED  BY <1>2, <2>1, <2>2, TakeIdleInv
<1>3. CASE ~(trim.left > 0 /\ AboveKeep /\ WithIdle # {})
  <2>1. trim' = TrimDone /\ UNCHANGED <<buckets, total, memory, coAvg, frame>>
    BY <1>3 DEF TrimOne
  <2>2. trim' \in [keep : Nat, left : Int] /\ trim'.left \in -1 .. top
    <3> HIDE DEF top
    <3> QED  BY <1>1, <2>1 DEF TrimDone
  <2> QED  BY <1>1, <2>1, <2>2, StackInvQuiet
<1> QED  BY <1>2, <1>3
LEMMA ReleaseUnusedInv ==
    ASSUME StackInv, ReleaseUnused
    PROVE  StackInv'
BY TrimTypes, TakeIdleInv DEF ReleaseUnused

\* Every step keeps the invariant.
LEMMA StackInvNext ==
    ASSUME StackInv, [StackPoolNext]_stackVars
    PROVE  StackInv'
<1>1. ASSUME NEW x \in Contexts, NEW ask \in Asks, Apply(x, ask) PROVE StackInv'
  BY <1>1, ApplyInv
<1>2. ASSUME NEW x \in Contexts, Commit(x) \/ RollBack(x) \/ Release(x) PROVE StackInv'
  BY <1>2, CommitInv, RollBackInv, ReleaseInv
<1>3. ASSUME NEW sample \in BOOLEAN, NEW adjust \in BOOLEAN, OnUpdate(sample, adjust) PROVE StackInv'
  BY <1>3, OnUpdateInv
<1>4. CASE UNCHANGED stackVars
  BY <1>4, TrimTypes, StackInvQuiet DEF stackVars
<1> QED  BY <1>1, <1>2, <1>3, <1>4, TrimOneInv, ReleaseUnusedInv DEF StackPoolNext

\* The pool as its constructor leaves it.
LEMMA StackInvInit ==
    ASSUME StackPoolInit
    PROVE  StackInv
<1> DEFINE key == KeyFor(Default)
           full(m) == [live |-> m, idle |-> m, borrowed |-> 0, pending |-> 0,
                       pool |-> [s \in 1 .. m |-> s]]
<1>1. PICK n \in 0 .. IF Preload < MaxAlloc THEN Preload ELSE MaxAlloc :
         /\ Preload > 0 => key[1] # Refused /\ (MaxAlloc > 0 => GuardFits(key))
         /\ memory = [s \in 1 .. n |-> NewStack(key)]
         /\ buckets = IF n = 0 THEN [k \in {} |-> NewBucket] ELSE [k \in {key} |-> full(n)]
         /\ total = [live |-> n, borrowed |-> 0, pending |-> 0]
         /\ coAvg = 0 /\ trim = TrimDone
         /\ frame = [x \in Contexts |-> NoFrameOf]
  BY DEF StackPoolInit, KeyFor
<1>2. n \in Nat /\ n <= Preload /\ n <= MaxAlloc /\ Preload \in Nat /\ MaxAlloc \in Nat
  BY StackConstants
<1>3. n # 0 => key \in StackKeys /\ GuardFits(key)
  <2>1. n # 0 => key[1] # Refused /\ GuardFits(key)
    BY <1>1, <1>2
  <2> QED  BY <2>1, StackConstants DEF StackKeys, KeyFor
<1>4. /\ full(n).live = n /\ full(n).idle = n /\ full(n).borrowed = 0 /\ full(n).pending = 0
      /\ full(n).pool = [s \in 1 .. n |-> s]
  OBVIOUS
<1>5. [s \in 1 .. n |-> s] \in Seq(Nat) /\ Len([s \in 1 .. n |-> s]) = n
  <2>1. [s \in 1 .. n |-> s] \in [1 .. n -> Nat]
    OBVIOUS
  <2>2. [s \in 1 .. n |-> s] \in Seq(Nat)
    BY <1>2, <2>1, SeqDef
  <2>3. DOMAIN [s \in 1 .. n |-> s] = 1 .. n
    OBVIOUS
  <2> QED  BY <1>2, <2>2, <2>3, LenProperties
<1>6. full(n) \in Bucket /\ NewBucket \in Bucket
  <2>1. <<>> \in Seq(Nat)
    OBVIOUS
  <2> HIDE DEF full
  <2>2. NewBucket \in Bucket
    BY <2>1 DEF Bucket, NewBucket
  <2> QED  BY <1>2, <1>5, <2>2 DEF Bucket, full
<1>7. ASSUME NEW k \in StackKeys
      PROVE  GetBucket(k) = IF n # 0 /\ k = key THEN full(n) ELSE NewBucket
  <2> HIDE DEF full, key
  <2> QED  BY <1>1 DEF GetBucket
<1>8. /\ DOMAIN memory = 1 .. n /\ IsFiniteSet(DOMAIN memory) /\ Cardinality(DOMAIN memory) = n
      /\ DOMAIN memory \subseteq Nat \ {0}
  <2>1. DOMAIN memory = 1 .. n
    BY <1>1
  <2>2. 1 \in Int /\ n \in Int
    BY <1>2
  <2>3. IsFiniteSet(1 .. n) /\ Cardinality(1 .. n) = IF 1 > n THEN 0 ELSE n - 1 + 1
    BY ONLY <2>2, FS_Interval
  <2> QED  BY <1>2, <2>1, <2>3
<1>9. ASSUME NEW s \in DOMAIN memory
      PROVE  /\ n # 0 /\ key \in StackKeys /\ memory[s] = NewStack(key) /\ memory[s] \in StackRecord
             /\ KeyOf(s) = key /\ MemoryRight(s)
  <2>1. n # 0 /\ key \in StackKeys /\ GuardFits(key) /\ memory[s] = NewStack(key)
    BY <1>1, <1>2, <1>3, <1>8
  <2>2. NewStack(key) \in StackRecord /\ <<NewStack(key).useable, NewStack(key).protect>> = key
    BY <2>1, NewStackShape
  <2>3. KeyOf(s) = key
    BY <2>1, <2>2 DEF KeyOf
  <2> HIDE DEF key
  <2> QED  BY <2>1, <2>2, <2>3 DEF MemoryRight
<1>10. ASSUME NEW k \in StackKeys
       PROVE  Cardinality(StacksOf(k)) = IF n # 0 /\ k = key THEN n ELSE 0
  <2> HIDE DEF key
  <2>1. CASE n # 0 /\ k = key
    <3>1. StacksOf(k) = DOMAIN memory
      BY <1>9, <2>1 DEF StacksOf
    <3> QED  BY <1>8, <2>1, <3>1
  <2>2. CASE ~(n # 0 /\ k = key)
    <3>1. StacksOf(k) = {}
      BY <1>9, <2>2 DEF StacksOf
    <3> QED  BY <2>2, <3>1, FS_EmptySet
  <2> QED  BY <2>1, <2>2
<1>11. ASSUME NEW x \in Contexts
       PROVE  frame[x] = NoFrameOf /\ frame[x].at = "none" /\ frame[x].stack = NoStack /\ NoFrameOf \in FrameRecord
  BY <1>1, StackConstants DEF NoFrameOf, FrameRecord, NoStack
<1>12. /\ \A k : Cardinality(At("made", k)) = 0 /\ Cardinality(At("allocating", k)) = 0
       /\ Cardinality(InPlace("made")) = 0 /\ Cardinality(InPlace("allocating")) = 0
  <2>1. /\ \A k : At("made", k) = {} /\ At("allocating", k) = {}
        /\ InPlace("made") = {} /\ InPlace("allocating") = {}
    BY <1>11 DEF At, InPlace
  <2> QED  BY <2>1, FS_EmptySet
<1> HIDE DEF full, key
<1>13. StackTypes
  <2>1. DOMAIN buckets \subseteq StackKeys /\ buckets = [k \in DOMAIN buckets |-> buckets[k]]
    BY <1>1, <1>3
  <2>2. \A k \in StackKeys : GetBucket(k) \in Bucket
    BY <1>6, <1>7
  <2>3. frame \in [Contexts -> FrameRecord]
    BY <1>1, <1>11
  <2>4. memory \in [DOMAIN memory -> StackRecord]
    BY <1>1, <1>9
  <2>5. /\ total \in [live : Nat, borrowed : Nat, pending : Nat]
        /\ coAvg \in Nat /\ trim \in [keep : Nat, left : Int]
    BY <1>1, <1>2 DEF TrimDone
  <2>6. trim.left \in -1 .. Cardinality(Asks) * MaxAlloc + Preload
    <3>1. Cardinality(Asks) * MaxAlloc + Preload \in Nat /\ trim.left = -1
      <4>1. trim.left = -1
        BY <1>1 DEF TrimDone
      <4>2. Cardinality(Asks) \in Nat /\ MaxAlloc \in Nat /\ Preload \in Nat
        BY StackConstants
      <4>3. Cardinality(Asks) * MaxAlloc \in Nat
        BY ONLY <4>2
      <4> QED  BY ONLY <4>1, <4>2, <4>3
    <3> QED  BY ONLY <3>1
  <2> QED  BY <1>8, <2>1, <2>2, <2>3, <2>4, <2>5, <2>6 DEF StackTypes
<1>14. TotalsRight
  BY <1>1, <1>2, <1>8, <1>12 DEF TotalsRight
<1>15. ASSUME NEW k \in StackKeys PROVE BucketCounts(k) /\ PoolRight(k)
  <2>1. CASE n # 0 /\ k = key
    <3>1. GetBucket(k) = full(n) /\ Cardinality(StacksOf(k)) = n
      BY <1>7, <1>10, <2>1
    <3>2. BucketCounts(k)
      BY <1>2, <1>4, <1>5, <1>12, <3>1 DEF BucketCounts
    <3>3. \A i \in 1 .. n : [s \in 1 .. n |-> s][i] = i /\ i # 0
      BY <1>2
    <3>4. PoolRight(k)
      BY <1>4, <1>5, <1>8, <1>9, <1>11, <2>1, <3>1, <3>3 DEF PoolRight, NoStack
    <3> QED  BY <3>2, <3>4
  <2>2. CASE ~(n # 0 /\ k = key)
    <3>1. GetBucket(k) = NewBucket /\ Cardinality(StacksOf(k)) = 0
      BY <1>7, <1>10, <2>2
    <3>2. Len(<<>>) = 0
      OBVIOUS
    <3> QED  BY <1>2, <1>12, <3>1, <3>2 DEF BucketCounts, PoolRight, NewBucket
  <2> QED  BY <2>1, <2>2
<1>16. \A x \in Contexts : FrameRight(x)
  BY <1>11 DEF FrameRight
<1> QED  BY <1>9, <1>13, <1>14, <1>15, <1>16 DEF StackInv

\* The counts, the capacity and the stacks asked for.
LEMMA StackInvSound ==
    ASSUME StackInv
    PROVE  StackSound
<1>1. StackPoolTypeOK
  BY DEF StackInv, StackTypes, StackPoolTypeOK, FrameRecord, FrameRight
<1>2. ASSUME NEW x \in Contexts, frame[x].at # "none" PROVE AskedKey(x) \in DOMAIN buckets
  <2>1. frame[x].at \in {"made", "allocating"}
    BY <1>2, FrameFacts DEF FrameRecord
  <2>2. GetBucket(AskedKey(x)).borrowed > 0 \/ GetBucket(AskedKey(x)).pending > 0
    BY <2>1, FrameFacts
  <2> QED  BY <2>2 DEF GetBucket, NewBucket
<1>3. CountsTrue
  <2>1. ASSUME NEW key \in DOMAIN buckets
        PROVE  /\ buckets[key].idle = Len(buckets[key].pool)
               /\ buckets[key].live = buckets[key].idle + buckets[key].borrowed
               /\ buckets[key].borrowed = Cardinality(At("made", key))
               /\ buckets[key].pending = Cardinality(At("allocating", key))
               /\ \A i \in 1 .. Len(buckets[key].pool) : KeyOf(buckets[key].pool[i]) = key
    <3>1. key \in StackKeys /\ GetBucket(key) = buckets[key]
      BY DEF StackInv, StackTypes, GetBucket
    <3>2. BucketCounts(key) /\ PoolRight(key)
      BY <3>1, BucketFacts
    <3> QED  BY <3>1, <3>2 DEF BucketCounts, PoolRight
  <2>2. /\ total.live = Cardinality(DOMAIN memory)
        /\ total.borrowed = Cardinality({x \in Contexts : frame[x].at = "made"})
        /\ total.pending = Cardinality({x \in Contexts : frame[x].at = "allocating"})
    BY DEF StackInv, TotalsRight, InPlace
  <2>3. \A x, y \in Contexts : frame[x].stack = frame[y].stack /\ x # y => frame[x].stack = NoStack
    BY DEF StackInv, FrameRight
  <2> QED  BY <1>2, <2>1, <2>2, <2>3 DEF CountsTrue
<1>4. CapacityHeld
  <2>1. {x \in Contexts : frame[x].at # "none"} = InPlace("made") \cup InPlace("allocating")
    BY FrameFacts DEF InPlace, FrameRecord
  <2>2. InPlace("made") \cap InPlace("allocating") = {}
    BY DEF InPlace
  <2>3. IsFiniteSet(InPlace("made")) /\ IsFiniteSet(InPlace("allocating"))
    <3>1. InPlace("made") \in SUBSET Contexts /\ InPlace("allocating") \in SUBSET Contexts
      BY DEF InPlace
    <3> QED  BY <3>1, StackConstants, FS_Subset
  <2>4. /\ Cardinality(InPlace("made") \cup InPlace("allocating")) =
             Cardinality(InPlace("made")) + Cardinality(InPlace("allocating"))
               - Cardinality(InPlace("made") \cap InPlace("allocating"))
        /\ Cardinality(InPlace("made")) \in Nat /\ Cardinality(InPlace("allocating")) \in Nat
    BY <2>3, FS_Union, FS_CardinalityType
  <2>5. Cardinality(InPlace("made") \cap InPlace("allocating")) = 0
    BY <2>2, FS_EmptySet
  <2>6. Cardinality(InPlace("made")) + Cardinality(InPlace("allocating")) <= MaxAlloc
    BY DEF StackInv, TotalsRight
  <2>7. Cardinality(InPlace("made") \cup InPlace("allocating")) <= MaxAlloc
    BY <2>4, <2>5, <2>6
  <2> QED  BY <2>1, <2>7 DEF CapacityHeld
<1>5. StackAsAsked
  <2> SUFFICES ASSUME NEW x \in Contexts, frame[x].at = "made"
               PROVE  /\ memory[frame[x].stack].useable >= frame[x].ask[1]
                      /\ memory[frame[x].stack].useable < frame[x].ask[1] + PageSize
                      /\ memory[frame[x].stack].protect = frame[x].ask[2]
                      /\ memory[frame[x].stack].useable % PageSize = 0
                      /\ memory[frame[x].stack].chunk <= PointerDiffLimit
    BY DEF StackAsAsked
  <2> DEFINE s == frame[x].stack
             size == frame[x].ask[1]
  <2>1. /\ s \in DOMAIN memory /\ KeyOf(s) = AskedKey(x) /\ AskedKey(x) \in StackKeys
        /\ frame[x].ask \in Asks /\ size \in Nat
    BY FrameFacts, StackConstants DEF FrameRight, FrameRecord
  <2>2. memory[s].useable = NormalizeSize(size) /\ memory[s].protect = frame[x].ask[2]
    BY <2>1 DEF KeyOf, AskedKey
  <2>3. NormalizeSize(size) # Refused
    <3>1. AskedKey(x)[1] \in Nat /\ AskedKey(x)[1] = NormalizeSize(size)
      BY <2>1, KeyShape DEF AskedKey
    <3> QED  BY <3>1 DEF Refused
  <2>4. /\ NormalizeSize(size) \in Nat
        /\ size <= NormalizeSize(size) /\ NormalizeSize(size) < size + PageSize
        /\ NormalizeSize(size) % PageSize = 0
        /\ NormalizeSize(size) <= PointerDiffLimit
    BY <2>1, <2>3, NormalizedSize
  <2>5. memory[s].chunk <= PointerDiffLimit
    <3>1. MemoryRight(s)
      BY <2>1 DEF StackInv
    <3>2. memory[s].chunk = NewStack(KeyOf(s)).chunk /\ GuardFits(KeyOf(s))
      BY <3>1 DEF MemoryRight
    <3>3. KeyOf(s)[1] = NormalizeSize(size)
      BY <2>1 DEF AskedKey
    <3>4. NewStack(KeyOf(s)).chunk = IF KeyOf(s)[2] THEN KeyOf(s)[1] + PageSize ELSE KeyOf(s)[1]
      BY DEF NewStack
    <3>5. CASE KeyOf(s)[2]
      <4>1. KeyOf(s)[1] <= PointerDiffLimit - PageSize
        BY <3>2, <3>5 DEF GuardFits
      <4> HIDE DEF s, size
      <4> QED  BY <2>4, <3>2, <3>3, <3>4, <3>5, <4>1, StackConstants
    <3>6. CASE ~KeyOf(s)[2]
      <4> HIDE DEF s, size
      <4> QED  BY <2>4, <3>2, <3>3, <3>4, <3>6
    <3> QED  BY <3>5, <3>6
  <2> HIDE DEF s, size
  <2>6. NormalizeSize(size) >= size
    BY <2>1, <2>4
  <2> QED  BY <2>1, <2>2, <2>4, <2>5, <2>6 DEF s, size
<1> QED  BY <1>1, <1>3, <1>4, <1>5 DEF StackSound

\* At every point between two locked sections the counts of the buckets and the
\* totals are those of the stacks in the vectors, of the Contexts that hold one
\* and of those that wait for one; no stack is in two places; at most the
\* configured number of Contexts has a place; each runs on a stack of the size
\* and protection it asked for, however creations, destructions, failures, the
\* tick and ReleaseUnused interleave (StackPool::Apply, Release, OnUpdate,
\* ReleaseUnused, Stack::Stack).
THEOREM StackSoundHolds == StackPoolInit /\ [][StackPoolNext]_stackVars => []StackSound
<1>1. StackPoolInit => StackInv
  BY StackInvInit
<1>2. StackInv /\ [StackPoolNext]_stackVars => StackInv'
  BY StackInvNext
<1>3. StackInv => StackSound
  BY StackInvSound
<1> QED  BY <1>1, <1>2, <1>3, PTL
=============================================================================
