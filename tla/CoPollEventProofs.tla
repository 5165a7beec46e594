-------------------------- MODULE CoPollEventProofs --------------------------
(***************************************************************************)
(* Proofs about CoPollEvent for any number of coroutines, events, closers  *)
(* and descriptors.                                                        *)
(***************************************************************************)
EXTENDS CoPollEvent, TLAPS

-----------------------------------------------------------------------------
(* The inductive invariant.                                                 *)

\* The event a coroutine awaits is its own and is its latest one; a cancel
\* about to Trigger holds an event.
AwaitOwn ==
    /\ \A c \in Coroutines : await[c] # NoEvent =>
          owner[await[c]] = c /\ cur[c] = await[c]
    /\ \A c \in Coroutines : cpc[c] = "trigger" => cref[c] # NoEvent

\* The phase of the awaited event follows the worker's progress.
WaitingAt(c, pcs, phs) ==
    pc[c] \in pcs =>
        await[c] # NoEvent /\ queued[c] = 0 /\ phase[await[c]] \in phs

PcPhase ==
    \A c \in Coroutines :
        /\ pc[c] \in {"run", "done"} => await[c] = NoEvent /\ queued[c] = 0
        /\ WaitingAt(c, {"init", "create", "yield", "arm"}, {"INITED", "PENDING"})
        /\ WaitingAt(c, {"listen", "armed"}, {"ARMING", "PENDING"})
        /\ WaitingAt(c, {"track", "commit"}, {"ARMED", "PENDING"})
        /\ pc[c] = "parked" =>
              \/ /\ await[c] # NoEvent /\ queued[c] = 0
                 /\ phase[await[c]] \in {"PARKED", "TRIGGERING", "FINAL"}
              \/ await[c] = NoEvent /\ queued[c] = 1

\* An event that can still complete is awaited by its owner.
LiveAwaited ==
    \A e \in Events : phase[e] \in {"ARMING", "ARMED", "PARKED", "TRIGGERING"} =>
        owner[e] \in Coroutines /\ await[owner[e]] = e

\* A thread inside _Complete works on an awaited event, and alone.
TasksAlone ==
    /\ \A t \in tasks :
        /\ owner[t.ev] \in Coroutines
        /\ await[owner[t.ev]] = t.ev
        /\ t.mask = mask[t.ev]
        /\ t.step \in {"cancelfd", "final"} => phase[t.ev] = "TRIGGERING"
        /\ t.step = "callback" => phase[t.ev] = "FINAL"
    /\ \A t, u \in tasks : t.ev = u.ev => t = u

\* The flags in the phase word are the first accepted mask.
MaskWon ==
    \A e \in Events :
        /\ phase[e] \in {"PENDING", "TRIGGERING", "FINAL"} =>
              mask[e] = won[e] /\ won[e] \in Flags
        /\ phase[e] \in {"FREE", "INITED", "ARMING", "ARMED", "PARKED"} =>
              won[e] = NoFlag

\* A queued or resumed coroutine holds the mask of its finished wait.
Delivered ==
    \A c \in Coroutines :
        \/ queued[c] > 0
        \/ pc[c] = "run" /\ ret[c] = "zero" /\ cur[c] # NoEvent
        => /\ cur[c] \in Events
           /\ phase[cur[c]] = "FINAL"
           /\ lastMask[c] = won[cur[c]]

IInv ==
    TypeOK /\ AwaitOwn /\ PcPhase /\ LiveAwaited /\ TasksAlone /\ MaskWon /\ Delivered

-----------------------------------------------------------------------------
(* One lemma per action: it preserves the inductive invariant.              *)

USE CoPollEventAssumption
USE DEF wordVars, eventVars, slotVars, lastVars, cancelVars, closeVars, histVars

\* Trigger of any thread keeps the phase word well typed.
LEMMA TriggerTypes ==
    ASSUME WordTypes, NEW e \in Events, NEW f \in Flags, Trigger(e, f)
    PROVE  WordTypes'
BY DEF WordTypes, Trigger, Phases, Task, TaskSteps

\* A coroutine whose wait is being established awaits an event.
LEMMA AwaitsEvent ==
    ASSUME CoTypes, PcPhase, NEW c \in Coroutines,
           pc[c] \in {"init", "create", "yield", "arm", "listen", "armed",
                       "track", "commit"}
    PROVE  await[c] \in Events
BY DEF CoTypes, PcPhase, WaitingAt

\* PreCancelled preserves the inductive invariant.
LEMMA PreCancelledInv ==
    ASSUME IInv, NEW c \in Coroutines, PreCancelled(c)
    PROVE  IInv'
<1>1. TypeOK'
  <2>1. CoTypes'
    BY DEF IInv, TypeOK, CoTypes, PreCancelled, PC
  <2> QED  BY <2>1 DEF IInv, TypeOK, WordTypes, EventTypes, SlotTypes,
         LastTypes, CallerTypes, PreCancelled
<1>2. AwaitOwn' /\ PcPhase' /\ LiveAwaited' /\ TasksAlone' /\ MaskWon' /\ Delivered'
  BY DEF IInv, AwaitOwn, PcPhase, LiveAwaited, TasksAlone, MaskWon, Delivered,
         WaitingAt, PreCancelled
<1> QED  BY <1>1, <1>2 DEF IInv

\* StartWait preserves the inductive invariant.
LEMMA StartWaitInv ==
    ASSUME IInv, NEW c \in Coroutines, NEW e \in Events, NEW w \in Waits, StartWait(c, e, w)
    PROVE  IInv'
<1>1. TypeOK'
  <2>1. WordTypes'
    BY DEF IInv, TypeOK, WordTypes, StartWait, Phases, Flags, NoFlag, Task,
         TaskSteps
  <2>2. EventTypes'
    BY DEF IInv, TypeOK, EventTypes, SlotTypes, StartWait, Sources
  <2>3. CoTypes'
    BY DEF IInv, TypeOK, CoTypes, StartWait, PC
  <2> QED  BY <2>1, <2>2, <2>3 DEF IInv, TypeOK, SlotTypes, LastTypes,
         CallerTypes, StartWait
<1>2. AwaitOwn'
  <2>1. \A d \in Coroutines : await[d] # NoEvent => await[d] # e
    BY DEF IInv, TypeOK, CoTypes, PC, PcPhase, WaitingAt, StartWait
  <2> QED
    BY <2>1 DEF IInv, TypeOK, EventTypes, CoTypes, AwaitOwn, StartWait
<1>3. PcPhase'
  BY DEF IInv, TypeOK, WordTypes, CoTypes, CallerTypes, PcPhase, WaitingAt,
         StartWait
<1>4. LiveAwaited'
  BY DEF IInv, TypeOK, WordTypes, EventTypes, CoTypes, LiveAwaited, PcPhase,
         WaitingAt, StartWait
<1>5. TasksAlone'
  BY DEF IInv, TypeOK, WordTypes, EventTypes, CoTypes, TasksAlone, PcPhase,
         WaitingAt, Task, TaskSteps, StartWait
<1>6. MaskWon'
  BY DEF IInv, MaskWon, StartWait
<1>7. Delivered'
  BY DEF IInv, TypeOK, WordTypes, CoTypes, LastTypes, Delivered, PcPhase,
         WaitingAt, StartWait
<1> QED  BY <1>1, <1>2, <1>3, <1>4, <1>5, <1>6, <1>7 DEF IInv

\* InitFdEvent preserves the inductive invariant.
LEMMA InitFdEventInv ==
    ASSUME IInv, NEW c \in Coroutines, InitFdEvent(c)
    PROVE  IInv'
<1>0. await[c] \in Events
  BY AwaitsEvent DEF IInv, TypeOK, InitFdEvent
<1>1. TypeOK'
  <2>1. WordTypes'
    BY <1>0, TriggerTypes DEF IInv, TypeOK, WordTypes, InitFdEvent, Abandon,
         Flags
  <2>2. EventTypes'
    BY <1>0 DEF IInv, TypeOK, EventTypes, SlotTypes, InitFdEvent, Abandon
  <2>3. CoTypes'
    BY <1>0 DEF IInv, TypeOK, CoTypes, InitFdEvent, Abandon, PC
  <2>4. LastTypes'
    BY <1>0 DEF IInv, TypeOK, LastTypes, EventTypes, CallerTypes, InitFdEvent,
         Abandon, Flags, NoFlag
  <2> QED  BY <2>1, <2>2, <2>3, <2>4 DEF IInv, TypeOK, SlotTypes, CallerTypes,
         InitFdEvent, Abandon
<1>2. AwaitOwn'
  BY <1>0 DEF IInv, TypeOK, EventTypes, CoTypes, CallerTypes, AwaitOwn,
         InitFdEvent, Abandon, Trigger, LatchPhases, CompletePhases
<1>3. PcPhase'
  BY <1>0 DEF IInv, TypeOK, WordTypes, CoTypes, CallerTypes, PcPhase,
         WaitingAt, InitFdEvent, Abandon, Trigger, LatchPhases, CompletePhases
<1>4. LiveAwaited'
  BY <1>0 DEF IInv, TypeOK, WordTypes, EventTypes, CoTypes, LiveAwaited,
         PcPhase, WaitingAt, InitFdEvent, Abandon, Trigger, LatchPhases,
         CompletePhases
<1>5. TasksAlone'
  BY <1>0 DEF IInv, TypeOK, WordTypes, EventTypes, CoTypes, TasksAlone,
         PcPhase, WaitingAt, Task, TaskSteps, InitFdEvent, Abandon, Trigger,
         LatchPhases, CompletePhases
<1>6. MaskWon'
  BY <1>0 DEF IInv, TypeOK, WordTypes, CoTypes, CallerTypes, MaskWon, Flags,
         NoFlag, Task, InitFdEvent, Abandon, Trigger, LatchPhases,
         CompletePhases
<1>7. Delivered'
  BY <1>0 DEF IInv, TypeOK, WordTypes, CoTypes, LastTypes, Delivered,
         InitFdEvent, Abandon, Trigger, LatchPhases, CompletePhases
<1> QED  BY <1>1, <1>2, <1>3, <1>4, <1>5, <1>6, <1>7 DEF IInv

\* CreateEvent preserves the inductive invariant.
LEMMA CreateEventInv ==
    ASSUME IInv, NEW c \in Coroutines, CreateEvent(c)
    PROVE  IInv'
<1>0. await[c] \in Events
  BY AwaitsEvent DEF IInv, TypeOK, CreateEvent
<1>1. TypeOK'
  <2>1. EventTypes'
    BY <1>0 DEF IInv, TypeOK, EventTypes, SlotTypes, CreateEvent, Abandon
  <2>2. CoTypes'
    BY <1>0 DEF IInv, TypeOK, CoTypes, CreateEvent, Abandon, PC
  <2> QED  BY <2>1, <2>2 DEF IInv, TypeOK, WordTypes, SlotTypes, LastTypes,
         CallerTypes, CreateEvent, Abandon
<1>2. AwaitOwn'
  BY <1>0 DEF IInv, TypeOK, EventTypes, CoTypes, CallerTypes, AwaitOwn,
         CreateEvent, Abandon
<1>3. PcPhase'
  BY <1>0 DEF IInv, TypeOK, WordTypes, CoTypes, CallerTypes, PcPhase,
         WaitingAt, CreateEvent, Abandon
<1>4. LiveAwaited'
  BY <1>0 DEF IInv, TypeOK, WordTypes, EventTypes, CoTypes, LiveAwaited,
         PcPhase, WaitingAt, CreateEvent, Abandon
<1>5. TasksAlone'
  <2>1. \A t \in tasks : owner[t.ev] # c
    BY DEF IInv, TypeOK, WordTypes, Task, TaskSteps, PcPhase, WaitingAt, TasksAlone,
           CreateEvent
  <2> QED
    BY <2>1 DEF IInv, TypeOK, CoTypes, TasksAlone, CreateEvent, Abandon
<1>6. MaskWon'
  BY DEF IInv, MaskWon, CreateEvent, Abandon
<1>7. Delivered'
  BY <1>0 DEF IInv, TypeOK, WordTypes, CoTypes, LastTypes, Delivered,
         CreateEvent, Abandon
<1> QED  BY <1>1, <1>2, <1>3, <1>4, <1>5, <1>6, <1>7 DEF IInv

\* RegistAwaitEvent preserves the inductive invariant.
LEMMA RegistAwaitEventInv ==
    ASSUME IInv, NEW c \in Coroutines, RegistAwaitEvent(c)
    PROVE  IInv'
<1>0. await[c] \in Events
  BY AwaitsEvent DEF IInv, TypeOK, RegistAwaitEvent
<1>1. TypeOK'
  <2>1. WordTypes'
    BY <1>0, TriggerTypes DEF IInv, TypeOK, WordTypes, RegistAwaitEvent,
         CancelRecheck, Flags
  <2>2. CoTypes'
    BY <1>0 DEF IInv, TypeOK, CoTypes, RegistAwaitEvent, CancelRecheck, PC
  <2> QED  BY <2>1, <2>2 DEF IInv, TypeOK, EventTypes, SlotTypes, LastTypes,
         CallerTypes, RegistAwaitEvent, CancelRecheck
<1>2. AwaitOwn'
  BY DEF IInv, AwaitOwn, RegistAwaitEvent, CancelRecheck, Trigger, LatchPhases,
         CompletePhases
<1>3. PcPhase'
  BY <1>0 DEF IInv, TypeOK, WordTypes, CoTypes, CallerTypes, PcPhase,
         WaitingAt, RegistAwaitEvent, CancelRecheck, Trigger, LatchPhases,
         CompletePhases
<1>4. LiveAwaited'
  BY <1>0 DEF IInv, TypeOK, WordTypes, EventTypes, CoTypes, LiveAwaited,
         RegistAwaitEvent, CancelRecheck, Trigger, LatchPhases, CompletePhases
<1>5. TasksAlone'
  BY <1>0 DEF IInv, TypeOK, WordTypes, EventTypes, CoTypes, TasksAlone,
         AwaitOwn, Task, TaskSteps, RegistAwaitEvent, CancelRecheck, Trigger,
         LatchPhases, CompletePhases
<1>6. MaskWon'
  BY <1>0 DEF IInv, TypeOK, WordTypes, CoTypes, CallerTypes, MaskWon, Flags,
         NoFlag, Task, RegistAwaitEvent, CancelRecheck, Trigger, LatchPhases,
         CompletePhases
<1>7. Delivered'
  BY <1>0 DEF IInv, TypeOK, WordTypes, CoTypes, LastTypes, Delivered,
         RegistAwaitEvent, CancelRecheck, Trigger, LatchPhases, CompletePhases
<1> QED  BY <1>1, <1>2, <1>3, <1>4, <1>5, <1>6, <1>7 DEF IInv

\* RegistArming preserves the inductive invariant.
LEMMA RegistArmingInv ==
    ASSUME IInv, NEW c \in Coroutines, RegistArming(c)
    PROVE  IInv'
<1>0. await[c] \in Events
  BY AwaitsEvent DEF IInv, TypeOK, RegistArming
<1>1. TypeOK'
  <2>1. WordTypes'
    BY <1>0 DEF IInv, TypeOK, WordTypes, RegistArming, Phases, Flags, NoFlag,
         Task, TaskSteps
  <2>2. CoTypes'
    BY <1>0 DEF IInv, TypeOK, CoTypes, RegistArming, PC
  <2> QED  BY <2>1, <2>2 DEF IInv, TypeOK, EventTypes, SlotTypes, LastTypes,
         CallerTypes, RegistArming
<1>2. AwaitOwn'
  BY DEF IInv, AwaitOwn, RegistArming
<1>3. PcPhase'
  BY <1>0 DEF IInv, TypeOK, WordTypes, CoTypes, CallerTypes, PcPhase, AwaitOwn,
         TasksAlone, WaitingAt, RegistArming
<1>4. LiveAwaited'
  BY <1>0 DEF IInv, TypeOK, WordTypes, EventTypes, CoTypes, LiveAwaited,
         AwaitOwn, TasksAlone, RegistArming
<1>5. TasksAlone'
  BY <1>0 DEF IInv, TypeOK, WordTypes, EventTypes, CoTypes, TasksAlone, Task,
         TaskSteps, RegistArming
<1>6. MaskWon'
  BY <1>0 DEF IInv, TypeOK, WordTypes, CoTypes, CallerTypes, MaskWon, Flags,
         NoFlag, Task, RegistArming
<1>7. Delivered'
  BY <1>0 DEF IInv, TypeOK, WordTypes, CoTypes, LastTypes, Delivered,
         RegistArming
<1> QED  BY <1>1, <1>2, <1>3, <1>4, <1>5, <1>6, <1>7 DEF IInv

\* RegistListen preserves the inductive invariant.
LEMMA RegistListenInv ==
    ASSUME IInv, NEW c \in Coroutines, RegistListen(c)
    PROVE  IInv'
<1>0. await[c] \in Events
  BY AwaitsEvent DEF IInv, TypeOK, RegistListen
<1>1. TypeOK'
  <2>1. WordTypes'
    BY <1>0 DEF IInv, TypeOK, WordTypes, RegistListen, Abandon,
         CannelAllFdEvent, UntrackedWaiters, SlotEpochAfterErase, Phases,
         Flags, NoFlag, Task, TaskSteps
  <2>2. EventTypes'
    BY <1>0 DEF IInv, TypeOK, EventTypes, SlotTypes, RegistListen, Abandon,
         CannelAllFdEvent, UntrackedWaiters, SlotEpochAfterErase
  <2>3. SlotTypes'
    BY <1>0 DEF IInv, TypeOK, SlotTypes, EventTypes, RegistListen, Abandon,
         CannelAllFdEvent, UntrackedWaiters, SlotEpochAfterErase
  <2>4. CoTypes'
    BY <1>0 DEF IInv, TypeOK, CoTypes, RegistListen, Abandon, CannelAllFdEvent,
         UntrackedWaiters, SlotEpochAfterErase, PC
  <2> QED  BY <2>1, <2>2, <2>3, <2>4 DEF IInv, TypeOK, LastTypes, CallerTypes,
         RegistListen, Abandon, CannelAllFdEvent, UntrackedWaiters,
         SlotEpochAfterErase
<1>2. AwaitOwn'
  BY <1>0 DEF IInv, TypeOK, EventTypes, CoTypes, CallerTypes, AwaitOwn,
         RegistListen, Abandon, CannelAllFdEvent, UntrackedWaiters,
         SlotEpochAfterErase
<1>3. PcPhase'
  BY <1>0 DEF IInv, TypeOK, WordTypes, CoTypes, CallerTypes, PcPhase, AwaitOwn,
         TasksAlone, WaitingAt, RegistListen, Abandon, CannelAllFdEvent,
         UntrackedWaiters, SlotEpochAfterErase
<1>4. LiveAwaited'
  BY <1>0 DEF IInv, TypeOK, WordTypes, EventTypes, CoTypes, LiveAwaited,
         RegistListen, Abandon, CannelAllFdEvent, UntrackedWaiters,
         SlotEpochAfterErase
<1>5. TasksAlone'
  <2>1. \A t \in tasks : owner[t.ev] # c /\ t.ev # await[c]
    BY DEF IInv, TypeOK, WordTypes, Task, TaskSteps, AwaitOwn, PcPhase, WaitingAt,
           TasksAlone, RegistListen
  <2>2. UNCHANGED <<tasks, owner, mask>> /\ \A e \in Events \ {await[c]} : phase'[e] = phase[e]
    BY <1>0 DEF IInv, TypeOK, WordTypes, RegistListen
  <2>3. \A d \in Coroutines \ {c} : await'[d] = await[d]
    BY DEF IInv, TypeOK, CoTypes, RegistListen, Abandon
  <2> QED
    BY <2>1, <2>2, <2>3 DEF IInv, TypeOK, WordTypes, Task, TasksAlone
<1>6. MaskWon'
  BY <1>0 DEF IInv, TypeOK, WordTypes, CoTypes, CallerTypes, MaskWon, Flags,
         NoFlag, Task, RegistListen, Abandon, CannelAllFdEvent,
         UntrackedWaiters, SlotEpochAfterErase
<1>7. Delivered'
  BY <1>0 DEF IInv, TypeOK, WordTypes, CoTypes, LastTypes, Delivered,
         RegistListen, Abandon, CannelAllFdEvent, UntrackedWaiters,
         SlotEpochAfterErase
<1> QED  BY <1>1, <1>2, <1>3, <1>4, <1>5, <1>6, <1>7 DEF IInv

\* RegistArmed preserves the inductive invariant.
LEMMA RegistArmedInv ==
    ASSUME IInv, NEW c \in Coroutines, RegistArmed(c)
    PROVE  IInv'
<1>0. await[c] \in Events
  BY AwaitsEvent DEF IInv, TypeOK, RegistArmed
<1>1. TypeOK'
  <2>1. WordTypes'
    BY <1>0 DEF IInv, TypeOK, WordTypes, RegistArmed, CannelAllFdEvent,
         UntrackedWaiters, SlotEpochAfterErase, Phases, Flags, NoFlag, Task,
         TaskSteps
  <2>2. EventTypes'
    BY <1>0 DEF IInv, TypeOK, EventTypes, SlotTypes, RegistArmed,
         CannelAllFdEvent, UntrackedWaiters, SlotEpochAfterErase
  <2>3. SlotTypes'
    BY <1>0 DEF IInv, TypeOK, SlotTypes, EventTypes, RegistArmed,
         CannelAllFdEvent, UntrackedWaiters, SlotEpochAfterErase
  <2>4. CoTypes'
    BY <1>0 DEF IInv, TypeOK, CoTypes, RegistArmed, CannelAllFdEvent,
         UntrackedWaiters, SlotEpochAfterErase, PC
  <2> QED  BY <2>1, <2>2, <2>3, <2>4 DEF IInv, TypeOK, LastTypes, CallerTypes,
         RegistArmed, CannelAllFdEvent, UntrackedWaiters, SlotEpochAfterErase
<1>2. AwaitOwn'
  BY DEF IInv, AwaitOwn, RegistArmed, CannelAllFdEvent, UntrackedWaiters,
         SlotEpochAfterErase
<1>3. PcPhase'
  BY <1>0 DEF IInv, TypeOK, WordTypes, CoTypes, CallerTypes, PcPhase, AwaitOwn,
         TasksAlone, WaitingAt, RegistArmed, CannelAllFdEvent,
         UntrackedWaiters, SlotEpochAfterErase
<1>4. LiveAwaited'
  BY <1>0 DEF IInv, TypeOK, WordTypes, EventTypes, CoTypes, LiveAwaited,
         RegistArmed, CannelAllFdEvent, UntrackedWaiters, SlotEpochAfterErase
<1>5. TasksAlone'
  BY <1>0 DEF IInv, TypeOK, WordTypes, EventTypes, CoTypes, TasksAlone, Task,
         TaskSteps, RegistArmed, CannelAllFdEvent, UntrackedWaiters,
         SlotEpochAfterErase
<1>6. MaskWon'
  BY <1>0 DEF IInv, TypeOK, WordTypes, CoTypes, CallerTypes, MaskWon, Flags,
         NoFlag, Task, RegistArmed, CannelAllFdEvent, UntrackedWaiters,
         SlotEpochAfterErase
<1>7. Delivered'
  BY <1>0 DEF IInv, TypeOK, WordTypes, CoTypes, LastTypes, Delivered,
         RegistArmed, CannelAllFdEvent, UntrackedWaiters, SlotEpochAfterErase
<1> QED  BY <1>1, <1>2, <1>3, <1>4, <1>5, <1>6, <1>7 DEF IInv

\* TrackWaiter preserves the inductive invariant.
LEMMA TrackWaiterInv ==
    ASSUME IInv, NEW c \in Coroutines, TrackWaiter(c)
    PROVE  IInv'
<1>0. await[c] \in Events
  BY AwaitsEvent DEF IInv, TypeOK, TrackWaiter
<1>1. TypeOK'
  <2>1. WordTypes'
    BY <1>0, TriggerTypes DEF IInv, TypeOK, WordTypes, TrackWaiter,
         ClosedSinceInit, Flags
  <2>2. SlotTypes'
    BY <1>0 DEF IInv, TypeOK, SlotTypes, EventTypes, TrackWaiter,
         ClosedSinceInit
  <2>3. CoTypes'
    BY <1>0 DEF IInv, TypeOK, CoTypes, TrackWaiter, ClosedSinceInit, PC
  <2> QED  BY <2>1, <2>2, <2>3 DEF IInv, TypeOK, EventTypes, LastTypes,
         CallerTypes, TrackWaiter, ClosedSinceInit
<1>2. AwaitOwn'
  BY DEF IInv, AwaitOwn, TrackWaiter, ClosedSinceInit, Trigger, LatchPhases,
         CompletePhases
<1>3. PcPhase'
  BY <1>0 DEF IInv, TypeOK, WordTypes, CoTypes, CallerTypes, PcPhase,
         WaitingAt, TrackWaiter, ClosedSinceInit, Trigger, LatchPhases,
         CompletePhases
<1>4. LiveAwaited'
  BY <1>0 DEF IInv, TypeOK, WordTypes, EventTypes, CoTypes, LiveAwaited,
         TrackWaiter, ClosedSinceInit, Trigger, LatchPhases, CompletePhases
<1>5. TasksAlone'
  BY <1>0 DEF IInv, TypeOK, WordTypes, EventTypes, CoTypes, TasksAlone,
         AwaitOwn, Task, TaskSteps, TrackWaiter, ClosedSinceInit, Trigger,
         LatchPhases, CompletePhases
<1>6. MaskWon'
  BY <1>0 DEF IInv, TypeOK, WordTypes, CoTypes, CallerTypes, MaskWon, Flags,
         NoFlag, Task, TrackWaiter, ClosedSinceInit, Trigger, LatchPhases,
         CompletePhases
<1>7. Delivered'
  BY <1>0 DEF IInv, TypeOK, WordTypes, CoTypes, LastTypes, Delivered,
         TrackWaiter, ClosedSinceInit, Trigger, LatchPhases, CompletePhases
<1> QED  BY <1>1, <1>2, <1>3, <1>4, <1>5, <1>6, <1>7 DEF IInv

\* CommitPark preserves the inductive invariant.
LEMMA CommitParkInv ==
    ASSUME IInv, NEW c \in Coroutines, CommitPark(c)
    PROVE  IInv'
<1>0. await[c] \in Events
  BY AwaitsEvent DEF IInv, TypeOK, CommitPark
<1>1. TypeOK'
  <2>1. WordTypes'
    BY <1>0 DEF IInv, TypeOK, WordTypes, CommitPark, PendingFlags, Phases,
         Flags, NoFlag, Task, TaskSteps, MaskWon
  <2>2. CoTypes'
    BY <1>0 DEF IInv, TypeOK, CoTypes, CommitPark, PendingFlags, PC
  <2> QED  BY <2>1, <2>2 DEF IInv, TypeOK, EventTypes, SlotTypes, LastTypes,
         CallerTypes, CommitPark, PendingFlags
<1>2. AwaitOwn'
  BY DEF IInv, AwaitOwn, CommitPark, PendingFlags
<1>3. PcPhase'
  BY <1>0 DEF IInv, TypeOK, WordTypes, CoTypes, CallerTypes, PcPhase, AwaitOwn,
         TasksAlone, WaitingAt, CommitPark, PendingFlags
<1>4. LiveAwaited'
  BY <1>0 DEF IInv, TypeOK, WordTypes, EventTypes, CoTypes, LiveAwaited,
         AwaitOwn, TasksAlone, CommitPark, PendingFlags
<1>5. TasksAlone'
  BY <1>0 DEF IInv, TypeOK, WordTypes, EventTypes, CoTypes, TasksAlone,
         AwaitOwn, Task, TaskSteps, CommitPark, PendingFlags
<1>6. MaskWon'
  BY <1>0 DEF IInv, TypeOK, WordTypes, CoTypes, CallerTypes, MaskWon, Flags,
         NoFlag, Task, CommitPark, PendingFlags
<1>7. Delivered'
  BY <1>0 DEF IInv, TypeOK, WordTypes, CoTypes, LastTypes, Delivered,
         CommitPark, PendingFlags
<1> QED  BY <1>1, <1>2, <1>3, <1>4, <1>5, <1>6, <1>7 DEF IInv

\* OnException preserves the inductive invariant.
LEMMA OnExceptionInv ==
    ASSUME IInv, NEW c \in Coroutines, OnException(c)
    PROVE  IInv'
<1>0. await[c] \in Events
  BY AwaitsEvent DEF IInv, TypeOK, OnException
<1>1. TypeOK'
  <2>1. WordTypes'
    BY <1>0 DEF IInv, TypeOK, WordTypes, OnException, Phases, Flags, NoFlag,
         Task, TaskSteps
  <2>2. CoTypes'
    BY <1>0 DEF IInv, TypeOK, CoTypes, OnException, PC
  <2> QED  BY <2>1, <2>2 DEF IInv, TypeOK, EventTypes, SlotTypes, LastTypes,
         CallerTypes, OnException
<1>2. AwaitOwn' /\ MaskWon' /\ Delivered'
  BY DEF IInv, AwaitOwn, MaskWon, Delivered, OnException
<1>3. PcPhase'
  BY <1>0 DEF IInv, TypeOK, WordTypes, CoTypes, CallerTypes, PcPhase, AwaitOwn,
         TasksAlone, WaitingAt, OnException
<1>4. LiveAwaited'
  BY <1>0 DEF IInv, TypeOK, WordTypes, EventTypes, CoTypes, LiveAwaited,
         PcPhase, WaitingAt, OnException
<1>5. TasksAlone'
  <2>1. \A t \in tasks : owner[t.ev] # c /\ t.ev # await[c]
    BY DEF IInv, TypeOK, WordTypes, Task, TaskSteps, AwaitOwn, PcPhase, WaitingAt,
           TasksAlone, OnException
  <2> QED
    BY <1>0, <2>1 DEF IInv, TypeOK, CoTypes, WordTypes, Task, TasksAlone, OnException
<1> QED  BY <1>1, <1>2, <1>3, <1>4, <1>5 DEF IInv

\* Resume preserves the inductive invariant.
LEMMA ResumeInv ==
    ASSUME IInv, NEW c \in Coroutines, Resume(c)
    PROVE  IInv'
<1>1. TypeOK'
  <2>1. CoTypes'
    BY DEF IInv, TypeOK, CoTypes, Resume, PC
  <2> QED  BY <2>1 DEF IInv, TypeOK, WordTypes, EventTypes, SlotTypes,
         LastTypes, CallerTypes, Resume
<1>2. AwaitOwn' /\ LiveAwaited' /\ TasksAlone' /\ MaskWon' /\ Delivered'
  BY DEF IInv, AwaitOwn, LiveAwaited, TasksAlone, MaskWon, Delivered, Resume
<1>3. PcPhase'
  <2>1. pc[c] = "parked" /\ await[c] = NoEvent /\ queued[c] = 1
    BY DEF IInv, TypeOK, CoTypes, PC, PcPhase, WaitingAt, Resume
  <2> QED
    BY <2>1 DEF IInv, TypeOK, CoTypes, PcPhase, WaitingAt, Resume
<1> QED  BY <1>1, <1>2, <1>3 DEF IInv

\* RequestCancelSet preserves the inductive invariant.
LEMMA RequestCancelSetInv ==
    ASSUME IInv, NEW c \in Coroutines, RequestCancelSet(c)
    PROVE  IInv'
<1>1. TypeOK'
  <2>1. CoTypes'
    BY DEF IInv, TypeOK, CoTypes, RequestCancelSet, PC
  <2>2. CallerTypes'
    BY DEF IInv, TypeOK, CallerTypes, SlotTypes, RequestCancelSet
  <2> QED  BY <2>1, <2>2 DEF IInv, TypeOK, WordTypes, EventTypes, SlotTypes,
         LastTypes, RequestCancelSet
<1>2. AwaitOwn' /\ PcPhase' /\ LiveAwaited' /\ TasksAlone' /\ MaskWon' /\ Delivered'
  BY DEF IInv, AwaitOwn, PcPhase, LiveAwaited, TasksAlone, MaskWon, Delivered,
         WaitingAt, RequestCancelSet
<1> QED  BY <1>1, <1>2 DEF IInv

\* RequestCancelRead preserves the inductive invariant.
LEMMA RequestCancelReadInv ==
    ASSUME IInv, NEW c \in Coroutines, RequestCancelRead(c)
    PROVE  IInv'
<1>1. TypeOK'
  <2>1. CallerTypes'
    BY DEF IInv, TypeOK, CallerTypes, CoTypes, RequestCancelRead
  <2> QED  BY <2>1 DEF IInv, TypeOK, WordTypes, EventTypes, SlotTypes, CoTypes,
         LastTypes, RequestCancelRead
<1>2. PcPhase' /\ LiveAwaited' /\ TasksAlone' /\ MaskWon' /\ Delivered'
  BY DEF IInv, PcPhase, LiveAwaited, TasksAlone, MaskWon, Delivered, WaitingAt,
         RequestCancelRead
<1>3. AwaitOwn'
  BY DEF IInv, TypeOK, EventTypes, CoTypes, CallerTypes, AwaitOwn,
         RequestCancelRead
<1> QED  BY <1>1, <1>2, <1>3 DEF IInv

\* RequestCancelTrigger preserves the inductive invariant.
LEMMA RequestCancelTriggerInv ==
    ASSUME IInv, NEW c \in Coroutines, RequestCancelTrigger(c)
    PROVE  IInv'
<1>0. cref[c] \in Events
  BY DEF IInv, TypeOK, CallerTypes, AwaitOwn, RequestCancelTrigger
<1>1. TypeOK'
  <2>1. WordTypes'
    BY <1>0, TriggerTypes DEF IInv, TypeOK, WordTypes, RequestCancelTrigger,
         Flags
  <2>2. CallerTypes'
    BY <1>0 DEF IInv, TypeOK, CallerTypes, SlotTypes, RequestCancelTrigger
  <2> QED  BY <2>1, <2>2 DEF IInv, TypeOK, EventTypes, SlotTypes, CoTypes,
         LastTypes, RequestCancelTrigger
<1>2. AwaitOwn'
  BY <1>0 DEF IInv, TypeOK, EventTypes, CoTypes, CallerTypes, AwaitOwn,
         RequestCancelTrigger, Trigger, LatchPhases, CompletePhases
<1>3. PcPhase'
  BY <1>0 DEF IInv, TypeOK, WordTypes, CoTypes, CallerTypes, PcPhase,
         WaitingAt, RequestCancelTrigger, Trigger, LatchPhases, CompletePhases
<1>4. LiveAwaited'
  BY <1>0 DEF IInv, TypeOK, WordTypes, EventTypes, CoTypes, LiveAwaited,
         RequestCancelTrigger, Trigger, LatchPhases, CompletePhases
<1>5. TasksAlone'
  BY <1>0 DEF IInv, TypeOK, WordTypes, EventTypes, CoTypes, AwaitOwn, PcPhase,
         WaitingAt, LiveAwaited, TasksAlone, Task, RequestCancelTrigger,
         Trigger, LatchPhases, CompletePhases, Flags, NoFlag, TaskSteps
<1>6. MaskWon'
  BY <1>0 DEF IInv, TypeOK, WordTypes, CoTypes, CallerTypes, MaskWon, Flags,
         NoFlag, Task, RequestCancelTrigger, Trigger, LatchPhases,
         CompletePhases
<1>7. Delivered'
  BY <1>0 DEF IInv, TypeOK, WordTypes, CoTypes, LastTypes, Delivered,
         RequestCancelTrigger, Trigger, LatchPhases, CompletePhases
<1> QED  BY <1>1, <1>2, <1>3, <1>4, <1>5, <1>6, <1>7 DEF IInv

\* CompleteCancelFd preserves the inductive invariant.
LEMMA CompleteCancelFdInv ==
    ASSUME IInv, NEW t \in tasks, CompleteCancelFd(t)
    PROVE  IInv'
<1>0. t \in Task /\ t.ev \in Events /\ t.mask \in Flags /\ t.step \in TaskSteps
  BY DEF IInv, TypeOK, WordTypes, Task
<1>1. TypeOK'
  <2>1. WordTypes'
    BY <1>0 DEF IInv, TypeOK, WordTypes, CompleteCancelFd, StepTo,
         CannelAllFdEvent, UntrackedWaiters, SlotEpochAfterErase, Phases,
         Flags, NoFlag, Task, TaskSteps
  <2>2. EventTypes'
    BY <1>0 DEF IInv, TypeOK, EventTypes, SlotTypes, CompleteCancelFd, StepTo,
         CannelAllFdEvent, UntrackedWaiters, SlotEpochAfterErase
  <2>3. SlotTypes'
    BY <1>0 DEF IInv, TypeOK, SlotTypes, EventTypes, CompleteCancelFd, StepTo,
         CannelAllFdEvent, UntrackedWaiters, SlotEpochAfterErase
  <2> QED  BY <2>1, <2>2, <2>3 DEF IInv, TypeOK, CoTypes, LastTypes,
         CallerTypes, CompleteCancelFd, StepTo, CannelAllFdEvent,
         UntrackedWaiters, SlotEpochAfterErase
<1>2. AwaitOwn' /\ PcPhase' /\ LiveAwaited' /\ MaskWon' /\ Delivered'
  BY DEF IInv, AwaitOwn, PcPhase, LiveAwaited, MaskWon, Delivered, WaitingAt,
         CompleteCancelFd, StepTo, CannelAllFdEvent, UntrackedWaiters,
         SlotEpochAfterErase
<1>3. TasksAlone'
  BY <1>0 DEF IInv, TypeOK, WordTypes, EventTypes, CoTypes, TasksAlone, Task,
         TaskSteps, CompleteCancelFd, StepTo, CannelAllFdEvent,
         UntrackedWaiters, SlotEpochAfterErase
<1> QED  BY <1>1, <1>2, <1>3 DEF IInv

\* CompleteFinal preserves the inductive invariant.
LEMMA CompleteFinalInv ==
    ASSUME IInv, NEW t \in tasks, CompleteFinal(t)
    PROVE  IInv'
<1>0. t \in Task /\ t.ev \in Events /\ t.mask \in Flags /\ t.step \in TaskSteps
  BY DEF IInv, TypeOK, WordTypes, Task
<1>1. TypeOK'
  <2>1. WordTypes'
    BY <1>0 DEF IInv, TypeOK, WordTypes, CompleteFinal, StepTo, Phases, Flags,
         NoFlag, Task, TaskSteps
  <2> QED  BY <2>1 DEF IInv, TypeOK, EventTypes, SlotTypes, CoTypes, LastTypes,
         CallerTypes, CompleteFinal, StepTo
<1>2. AwaitOwn' /\ LiveAwaited' /\ Delivered'
  BY DEF IInv, AwaitOwn, LiveAwaited, Delivered, CompleteFinal, StepTo
<1>3. PcPhase'
  BY <1>0 DEF IInv, TypeOK, WordTypes, CoTypes, CallerTypes, PcPhase, AwaitOwn,
         TasksAlone, Task, TaskSteps, WaitingAt, CompleteFinal, StepTo
<1>4. TasksAlone'
  BY <1>0 DEF IInv, TypeOK, WordTypes, EventTypes, CoTypes, TasksAlone, Task,
         TaskSteps, CompleteFinal, StepTo
<1>5. MaskWon'
  BY <1>0 DEF IInv, TypeOK, WordTypes, CoTypes, CallerTypes, MaskWon, AwaitOwn,
         TasksAlone, Flags, NoFlag, Task, TaskSteps, CompleteFinal, StepTo
<1> QED  BY <1>1, <1>2, <1>3, <1>4, <1>5 DEF IInv

\* OnCoPollEvent preserves the inductive invariant.
LEMMA OnCoPollEventInv ==
    ASSUME IInv, NEW t \in tasks, OnCoPollEvent(t)
    PROVE  IInv'
<1>0. t \in Task /\ t.ev \in Events /\ t.mask \in Flags /\ t.step \in TaskSteps
  BY DEF IInv, TypeOK, WordTypes, Task
<1>1. TypeOK'
  <2>1. WordTypes'
    BY <1>0 DEF IInv, TypeOK, WordTypes, OnCoPollEvent, Phases, Flags, NoFlag,
         Task, TaskSteps
  <2>2. CoTypes'
    BY <1>0 DEF IInv, TypeOK, CoTypes, TasksAlone, OnCoPollEvent, PC
  <2>3. LastTypes'
    BY <1>0 DEF IInv, TypeOK, LastTypes, EventTypes, CallerTypes,
         OnCoPollEvent, Flags, NoFlag
  <2> QED  BY <2>1, <2>2, <2>3 DEF IInv, TypeOK, EventTypes, SlotTypes,
         CallerTypes, OnCoPollEvent
<1>2. AwaitOwn' /\ TasksAlone' /\ MaskWon'
  BY DEF IInv, AwaitOwn, TasksAlone, MaskWon, OnCoPollEvent
<1>3. PcPhase'
  BY <1>0 DEF IInv, TypeOK, WordTypes, CoTypes, CallerTypes, PcPhase, AwaitOwn,
         TasksAlone, Task, TaskSteps, WaitingAt, OnCoPollEvent
<1>4. LiveAwaited'
  BY <1>0 DEF IInv, TypeOK, WordTypes, EventTypes, CoTypes, LiveAwaited,
         AwaitOwn, TasksAlone, Task, TaskSteps, OnCoPollEvent
<1>5. Delivered'
  BY <1>0 DEF IInv, TypeOK, WordTypes, CoTypes, LastTypes, AwaitOwn, PcPhase,
         WaitingAt, LiveAwaited, TasksAlone, MaskWon, Delivered, OnCoPollEvent,
         Task, TaskSteps
<1> QED  BY <1>1, <1>2, <1>3, <1>4, <1>5 DEF IInv

\* LoopTrigger preserves the inductive invariant.
LEMMA LoopTriggerInv ==
    ASSUME IInv, NEW e \in Events, LoopTrigger(e)
    PROVE  IInv'
<1>1. TypeOK'
  <2>1. WordTypes'
    BY TriggerTypes DEF IInv, TypeOK, WordTypes, LoopTrigger, Flags,
         EventTypes, Sources
  <2> QED  BY <2>1 DEF IInv, TypeOK, EventTypes, SlotTypes, CoTypes, LastTypes,
         CallerTypes, LoopTrigger
<1>2. AwaitOwn'
  BY DEF IInv, AwaitOwn, LoopTrigger, Trigger, LatchPhases, CompletePhases
<1>3. PcPhase'
  BY DEF IInv, TypeOK, WordTypes, CoTypes, CallerTypes, PcPhase, WaitingAt,
         LoopTrigger, Trigger, LatchPhases, CompletePhases
<1>4. LiveAwaited'
  BY DEF IInv, TypeOK, WordTypes, EventTypes, CoTypes, LiveAwaited,
         LoopTrigger, Trigger, LatchPhases, CompletePhases
<1>5. TasksAlone'
  BY DEF IInv, TypeOK, WordTypes, EventTypes, CoTypes, AwaitOwn, PcPhase,
         WaitingAt, LiveAwaited, TasksAlone, Task, LoopTrigger, Sources,
         Trigger, LatchPhases, CompletePhases, Flags, NoFlag, TaskSteps
<1>6. MaskWon'
  <2>1. PICK f \in Flags : Trigger(e, f)
    BY DEF IInv, TypeOK, EventTypes, Sources, Flags, LoopTrigger
  <2> QED
    BY <2>1 DEF IInv, TypeOK, WordTypes, MaskWon, Trigger, LatchPhases,
           CompletePhases, Flags, NoFlag
<1>7. Delivered'
  BY DEF IInv, TypeOK, WordTypes, CoTypes, LastTypes, Delivered, LoopTrigger,
         Trigger, LatchPhases, CompletePhases
<1> QED  BY <1>1, <1>2, <1>3, <1>4, <1>5, <1>6, <1>7 DEF IInv

\* NotifyCustomEvent preserves the inductive invariant.
LEMMA NotifyCustomEventInv ==
    ASSUME IInv, NEW e \in Events, NotifyCustomEvent(e)
    PROVE  IInv'
<1>1. TypeOK'
  <2>1. WordTypes'
    BY TriggerTypes DEF IInv, TypeOK, WordTypes, NotifyCustomEvent, Flags
  <2> QED  BY <2>1 DEF IInv, TypeOK, EventTypes, SlotTypes, CoTypes, LastTypes,
         CallerTypes, NotifyCustomEvent
<1>2. AwaitOwn'
  BY DEF IInv, AwaitOwn, NotifyCustomEvent, Trigger, LatchPhases,
         CompletePhases
<1>3. PcPhase'
  BY DEF IInv, TypeOK, WordTypes, CoTypes, CallerTypes, PcPhase, WaitingAt,
         NotifyCustomEvent, Trigger, LatchPhases, CompletePhases
<1>4. LiveAwaited'
  BY DEF IInv, TypeOK, WordTypes, EventTypes, CoTypes, LiveAwaited,
         NotifyCustomEvent, Trigger, LatchPhases, CompletePhases
<1>5. TasksAlone'
  BY DEF IInv, TypeOK, WordTypes, EventTypes, CoTypes, AwaitOwn, PcPhase,
         WaitingAt, LiveAwaited, TasksAlone, Task, NotifyCustomEvent, Trigger,
         LatchPhases, CompletePhases, Flags, NoFlag, TaskSteps
<1>6. MaskWon'
  BY DEF IInv, TypeOK, WordTypes, CoTypes, CallerTypes, MaskWon, Flags, NoFlag,
         Task, NotifyCustomEvent, Trigger, LatchPhases, CompletePhases
<1>7. Delivered'
  BY DEF IInv, TypeOK, WordTypes, CoTypes, LastTypes, Delivered,
         NotifyCustomEvent, Trigger, LatchPhases, CompletePhases
<1> QED  BY <1>1, <1>2, <1>3, <1>4, <1>5, <1>6, <1>7 DEF IInv

\* BeginFdClose preserves the inductive invariant.
LEMMA BeginFdCloseInv ==
    ASSUME IInv, NEW k \in Closers, NEW f \in Fds, BeginFdClose(k, f)
    PROVE  IInv'
<1>1. TypeOK'
  <2>1. SlotTypes'
    <3>1. CASE UNCHANGED slotVars
      BY <3>1 DEF IInv, TypeOK, SlotTypes
    <3>2. CASE /\ epoch' = [epoch EXCEPT ![f] = @ + 1]
               /\ closing' = [closing EXCEPT ![f] = TRUE]
               /\ waiters' = [waiters EXCEPT ![f] = {}]
      BY <3>2 DEF IInv, TypeOK, SlotTypes
    <3> QED  BY <3>1, <3>2 DEF BeginFdClose
  <2>2. CallerTypes'
    BY DEF IInv, TypeOK, CallerTypes, SlotTypes, BeginFdClose, CloseClaimed
  <2> QED  BY <2>1, <2>2 DEF IInv, TypeOK, WordTypes, EventTypes, CoTypes,
         LastTypes, BeginFdClose, CloseClaimed
<1>2. AwaitOwn' /\ PcPhase' /\ LiveAwaited' /\ TasksAlone' /\ MaskWon' /\ Delivered'
  BY DEF IInv, AwaitOwn, PcPhase, LiveAwaited, TasksAlone, MaskWon, Delivered,
         WaitingAt, BeginFdClose, CloseClaimed
<1> QED  BY <1>1, <1>2 DEF IInv

\* CloseWake preserves the inductive invariant.
LEMMA CloseWakeInv ==
    ASSUME IInv, NEW k \in Closers, CloseWake(k)
    PROVE  IInv'
<1>1. TypeOK'
  <2>1. WordTypes'
    BY TriggerTypes DEF IInv, TypeOK, WordTypes, CloseWake, Flags, CallerTypes
  <2>2. CallerTypes'
    BY DEF IInv, TypeOK, CallerTypes, SlotTypes, CloseWake
  <2> QED  BY <2>1, <2>2 DEF IInv, TypeOK, EventTypes, SlotTypes, CoTypes,
         LastTypes, CloseWake
<1>2. AwaitOwn'
  BY DEF IInv, AwaitOwn, CloseWake, Trigger, LatchPhases, CompletePhases
<1>3. PcPhase'
  BY DEF IInv, TypeOK, WordTypes, CoTypes, CallerTypes, PcPhase, WaitingAt,
         CloseWake, Trigger, LatchPhases, CompletePhases
<1>4. LiveAwaited'
  BY DEF IInv, TypeOK, WordTypes, EventTypes, CoTypes, LiveAwaited, CloseWake,
         Trigger, LatchPhases, CompletePhases
<1>5. TasksAlone'
  <2>1. CASE ksnap[k] = {}
    BY <2>1 DEF IInv, TasksAlone, CloseWake
  <2>2. CASE ksnap[k] # {}
    <3>1. PICK e \in Events : Trigger(e, "CLOSED")
      BY <2>2 DEF IInv, TypeOK, CallerTypes, CloseWake
    <3>2. UNCHANGED <<owner, await>>
      BY DEF CloseWake
    <3> QED
      BY <3>1, <3>2 DEF IInv, TypeOK, WordTypes, EventTypes, Task, LiveAwaited,
                        TasksAlone, TaskSteps, Trigger, LatchPhases, CompletePhases
  <2> QED  BY <2>1, <2>2
<1>6. MaskWon'
  BY DEF IInv, TypeOK, WordTypes, CoTypes, CallerTypes, MaskWon, Flags, NoFlag,
         Task, CloseWake, Trigger, LatchPhases, CompletePhases
<1>7. Delivered'
  BY DEF IInv, TypeOK, WordTypes, CoTypes, LastTypes, Delivered, CloseWake,
         Trigger, LatchPhases, CompletePhases
<1> QED  BY <1>1, <1>2, <1>3, <1>4, <1>5, <1>6, <1>7 DEF IInv

\* SysClose preserves the inductive invariant.
LEMMA SysCloseInv ==
    ASSUME IInv, NEW k \in Closers, SysClose(k)
    PROVE  IInv'
<1>1. TypeOK'
  <2>1. CallerTypes'
    <3>1. obj' \in [Fds -> Nat]
      <4>1. obj' = [obj EXCEPT ![kfd[k]] = obj[kfd[k]] + 1] /\ obj \in [Fds -> Nat]
        BY DEF IInv, TypeOK, CallerTypes, SysClose
      <4>2. CASE kfd[k] \in Fds  BY <4>1, <4>2
      <4>3. CASE kfd[k] \notin Fds  BY <4>1, <4>3
      <4> QED  BY <4>2, <4>3
    <3>2. kpc' \in [Closers -> {"idle", "wait", "wake", "close", "end"}] /\ claimObj' \in [Closers -> Nat]
      BY DEF IInv, TypeOK, CallerTypes, SysClose
    <3> QED  BY <3>1, <3>2 DEF IInv, TypeOK, CallerTypes, SysClose
  <2> QED  BY <2>1 DEF IInv, TypeOK, WordTypes, EventTypes, SlotTypes, CoTypes,
         LastTypes, SysClose
<1>2. AwaitOwn' /\ PcPhase' /\ LiveAwaited' /\ TasksAlone' /\ MaskWon' /\ Delivered'
  BY DEF IInv, AwaitOwn, PcPhase, LiveAwaited, TasksAlone, MaskWon, Delivered,
         WaitingAt, SysClose
<1> QED  BY <1>1, <1>2 DEF IInv

\* EndFdClose preserves the inductive invariant.
LEMMA EndFdCloseInv ==
    ASSUME IInv, NEW k \in Closers, EndFdClose(k)
    PROVE  IInv'
<1>1. TypeOK'
  <2>1. SlotTypes'
    BY DEF IInv, TypeOK, SlotTypes, EventTypes, EndFdClose
  <2>2. CallerTypes'
    BY DEF IInv, TypeOK, CallerTypes, SlotTypes, EndFdClose
  <2> QED  BY <2>1, <2>2 DEF IInv, TypeOK, WordTypes, EventTypes, CoTypes,
         LastTypes, EndFdClose
<1>2. AwaitOwn' /\ PcPhase' /\ LiveAwaited' /\ TasksAlone' /\ MaskWon' /\ Delivered'
  BY DEF IInv, AwaitOwn, PcPhase, LiveAwaited, TasksAlone, MaskWon, Delivered,
         WaitingAt, EndFdClose
<1> QED  BY <1>1, <1>2 DEF IInv

\* WaitFdCloseReady preserves the inductive invariant.
LEMMA WaitFdCloseReadyInv ==
    ASSUME IInv, NEW k \in Closers, WaitFdCloseReady(k)
    PROVE  IInv'
<1>1. TypeOK'
  <2>1. CallerTypes'
    BY DEF IInv, TypeOK, CallerTypes, SlotTypes, WaitFdCloseReady
  <2> QED  BY <2>1 DEF IInv, TypeOK, WordTypes, EventTypes, SlotTypes, CoTypes,
         LastTypes, WaitFdCloseReady
<1>2. AwaitOwn' /\ PcPhase' /\ LiveAwaited' /\ TasksAlone' /\ MaskWon' /\ Delivered'
  BY DEF IInv, AwaitOwn, PcPhase, LiveAwaited, TasksAlone, MaskWon, Delivered,
         WaitingAt, WaitFdCloseReady
<1> QED  BY <1>1, <1>2 DEF IInv

-----------------------------------------------------------------------------
(* Theorems.                                                                *)

\* The initial state satisfies the inductive invariant.
LEMMA InitInv == Init => IInv
<1> SUFFICES ASSUME Init PROVE IInv
  OBVIOUS
<1>1. TypeOK
  BY DEF Init, TypeOK, WordTypes, EventTypes, SlotTypes, CoTypes, LastTypes,
         CallerTypes, Phases, NoFlag, PC
<1>2. AwaitOwn /\ PcPhase /\ LiveAwaited /\ TasksAlone /\ MaskWon
  BY DEF Init, AwaitOwn, PcPhase, WaitingAt, LiveAwaited, TasksAlone, MaskWon
<1>3. Delivered
  BY DEF Init, Delivered
<1> QED  BY <1>1, <1>2, <1>3 DEF IInv

\* Every step, and a stuttering step, preserves the inductive invariant.
LEMMA NextInv == IInv /\ [Next]_vars => IInv'
<1> SUFFICES ASSUME IInv, [Next]_vars PROVE IInv'
  OBVIOUS
<1>1. CASE UNCHANGED vars
  BY <1>1 DEF IInv, TypeOK, WordTypes, EventTypes, SlotTypes, CoTypes, LastTypes,
              CallerTypes, AwaitOwn, PcPhase, WaitingAt, LiveAwaited, TasksAlone,
              MaskWon, Delivered, vars
<1>2. ASSUME NEW c \in Coroutines, PreCancelled(c) PROVE IInv'
  BY <1>2, PreCancelledInv
<1>3. ASSUME NEW c \in Coroutines, NEW e \in Events, NEW w \in Waits,
             StartWait(c, e, w)
      PROVE  IInv'
  BY <1>3, StartWaitInv
<1>4. ASSUME NEW c \in Coroutines, WaitStep(c) PROVE IInv'
  BY <1>4, InitFdEventInv, CreateEventInv, RegistAwaitEventInv, RegistArmingInv,
     RegistListenInv, RegistArmedInv, TrackWaiterInv, CommitParkInv DEF WaitStep
<1>5. ASSUME NEW c \in Coroutines, OnException(c) PROVE IInv'
  BY <1>5, OnExceptionInv
<1>6. ASSUME NEW c \in Coroutines, Resume(c) PROVE IInv'
  BY <1>6, ResumeInv
<1>7. ASSUME NEW c \in Coroutines, RequestCancelSet(c) \/ CancelStep(c) PROVE IInv'
  BY <1>7, RequestCancelSetInv, RequestCancelReadInv, RequestCancelTriggerInv
     DEF CancelStep
<1>8. ASSUME NEW t \in tasks, CompleteStep(t) PROVE IInv'
  BY <1>8, CompleteCancelFdInv, CompleteFinalInv, OnCoPollEventInv DEF CompleteStep
<1>9. ASSUME NEW e \in Events, LoopTrigger(e) \/ NotifyCustomEvent(e) PROVE IInv'
  BY <1>9, LoopTriggerInv, NotifyCustomEventInv
<1>10. ASSUME NEW k \in Closers, NEW f \in Fds, BeginFdClose(k, f) PROVE IInv'
  BY <1>10, BeginFdCloseInv
<1>11. ASSUME NEW k \in Closers, CloseStep(k) \/ WaitFdCloseReady(k) PROVE IInv'
  BY <1>11, CloseWakeInv, SysCloseInv, EndFdCloseInv, WaitFdCloseReadyInv DEF CloseStep
<1> QED
  BY <1>1, <1>2, <1>3, <1>4, <1>5, <1>6, <1>7, <1>8, <1>9, <1>10, <1>11 DEF Next

\* The inductive invariant holds in every reachable state.
THEOREM Invariance == Spec => []IInv
BY InitInv, NextInv, PTL DEF Spec

\* Type correctness of the wait machinery: in particular every completion that
\* _Complete runs carries a real trigger mask.
THEOREM TypeCorrect == Spec => []TypeOK
<1>1. IInv => TypeOK
  BY DEF IInv
<1> QED  BY Invariance, <1>1, PTL

\* Mutual exclusion on a coroutine: at most one run-queue entry, and none while
\* its worker still runs CommitYield or a thread is inside _Complete.
THEOREM ExclusiveCoroutineHolds == Spec => []ExclusiveCoroutine
<1>1. IInv => ExclusiveCoroutine
  <2> SUFFICES ASSUME IInv, NEW c \in Coroutines
               PROVE  /\ queued[c] <= 1
                      /\ queued[c] = 1 => pc[c] = "parked" /\ await[c] = NoEvent
                      /\ \A t \in tasks : owner[t.ev] = c =>
                            pc[c] = "parked" /\ await[c] = t.ev /\ queued[c] = 0
    BY DEF ExclusiveCoroutine
  <2>1. queued[c] <= 1 /\ (queued[c] = 1 => pc[c] = "parked" /\ await[c] = NoEvent)
    BY DEF IInv, TypeOK, CoTypes, PC, PcPhase, WaitingAt
  <2>2. ASSUME NEW t \in tasks, owner[t.ev] = c
        PROVE  pc[c] = "parked" /\ await[c] = t.ev /\ queued[c] = 0
    <3>1. /\ await[c] = t.ev /\ t.ev \in Events
          /\ phase[t.ev] \in {"TRIGGERING", "FINAL"}
      BY <2>2 DEF IInv, TypeOK, WordTypes, Task, TaskSteps, TasksAlone
    <3> QED  BY <3>1 DEF IInv, TypeOK, CoTypes, PC, PcPhase, WaitingAt
  <2> QED  BY <2>1, <2>2
<1> QED  BY Invariance, <1>1, PTL

\* First win: whatever races, a coroutine that returns from a wait reports the
\* mask of the first Trigger the phase word accepted.
THEOREM FirstWinHolds == Spec => []FirstWin
<1>1. IInv => FirstWin
  BY DEF IInv, MaskWon, Delivered, FirstWin, Flags, NoFlag
<1> QED  BY Invariance, <1>1, PTL

-----------------------------------------------------------------------------
(* Concurrent closers.                                                      *)

\* A closer past its claim keeps the slot closing, is alone on its descriptor,
\* and until its close(2) the descriptor names the object it claimed.
ClaimAlone ==
    /\ \A k \in Closers : kpc[k] \in {"wake", "close", "end"} =>
          kfd[k] \in Fds /\ closing[kfd[k]]
    /\ \A k, l \in Closers :
          /\ kpc[k] \in {"wake", "close", "end"}
          /\ kpc[l] \in {"wake", "close", "end"}
          /\ kfd[k] = kfd[l]
          => k = l
    /\ CloseOwnObject

\* ClaimAlone is inductive: only Hook_Close touches the claim, and the table
\* lock makes BeginFdClose claim a descriptor that nobody is closing.
LEMMA ClaimAloneInv ==
    ASSUME TypeOK, ClaimAlone, [Next]_vars
    PROVE  ClaimAlone'
<1>1. CASE UNCHANGED <<closing, kpc, kfd, obj, claimObj>>
  BY <1>1 DEF ClaimAlone, CloseOwnObject
<1>2. ASSUME NEW k \in Closers, NEW f \in Fds, BeginFdClose(k, f)
      PROVE  ClaimAlone'
  <2>1. CASE closing[f]
    BY <1>2, <2>1 DEF TypeOK, CallerTypes, ClaimAlone, CloseOwnObject, BeginFdClose,
                      CloseClaimed
  <2>2. CASE ~closing[f]
    BY <1>2, <2>2 DEF TypeOK, CallerTypes, SlotTypes, ClaimAlone, CloseOwnObject,
                      BeginFdClose, CloseClaimed
  <2> QED  BY <2>1, <2>2
<1>3. ASSUME NEW k \in Closers, CloseWake(k)
      PROVE  ClaimAlone'
  BY <1>3 DEF TypeOK, CallerTypes, ClaimAlone, CloseOwnObject, CloseWake
<1>4. ASSUME NEW k \in Closers, SysClose(k)
      PROVE  ClaimAlone'
  BY <1>4 DEF TypeOK, CallerTypes, ClaimAlone, CloseOwnObject, SysClose
<1>5. ASSUME NEW k \in Closers, EndFdClose(k)
      PROVE  ClaimAlone'
  BY <1>5 DEF TypeOK, CallerTypes, SlotTypes, ClaimAlone, CloseOwnObject, EndFdClose
<1>6. ASSUME NEW k \in Closers, WaitFdCloseReady(k)
      PROVE  ClaimAlone'
  BY <1>6 DEF TypeOK, CallerTypes, ClaimAlone, CloseOwnObject, WaitFdCloseReady
<1>7. ASSUME NEW c \in Coroutines,
             \/ PreCancelled(c) \/ OnException(c) \/ Resume(c) \/ RequestCancelSet(c)
             \/ \E e \in Events, w \in Waits : StartWait(c, e, w)
      PROVE  UNCHANGED <<closing, kpc, kfd, obj, claimObj>>
  BY <1>7 DEF PreCancelled, OnException, Resume, RequestCancelSet, StartWait
<1>8. ASSUME NEW c \in Coroutines, WaitStep(c)
      PROVE  UNCHANGED <<closing, kpc, kfd, obj, claimObj>>
  BY <1>8 DEF WaitStep, InitFdEvent, CreateEvent, RegistAwaitEvent, RegistArming,
              RegistListen, RegistArmed, TrackWaiter, CommitPark
<1>9. ASSUME NEW c \in Coroutines, CancelStep(c)
      PROVE  UNCHANGED <<closing, kpc, kfd, obj, claimObj>>
  BY <1>9 DEF CancelStep, RequestCancelRead, RequestCancelTrigger
<1>10. ASSUME NEW t \in tasks, CompleteStep(t)
       PROVE  UNCHANGED <<closing, kpc, kfd, obj, claimObj>>
  BY <1>10 DEF CompleteStep, CompleteCancelFd, CompleteFinal, OnCoPollEvent
<1>11. ASSUME NEW e \in Events, LoopTrigger(e) \/ NotifyCustomEvent(e)
       PROVE  UNCHANGED <<closing, kpc, kfd, obj, claimObj>>
  BY <1>11 DEF LoopTrigger, NotifyCustomEvent
<1>12. CASE UNCHANGED vars
  BY <1>1, <1>12 DEF vars
<1> QED
  BY <1>1, <1>2, <1>3, <1>4, <1>5, <1>6, <1>7, <1>8, <1>9, <1>10, <1>11, <1>12
     DEF Next, CloseStep

\* Mutual exclusion of closers: however many threads close one number, each
\* close(2) hits the object that was open when its caller claimed the close.
THEOREM CloseOwnObjectHolds == Spec => []CloseOwnObject
<1>1. Init => ClaimAlone
  BY DEF Init, ClaimAlone, CloseOwnObject
<1>2. TypeOK /\ ClaimAlone /\ [Next]_vars => ClaimAlone'
  BY ClaimAloneInv
<1>3. ClaimAlone => CloseOwnObject
  BY DEF ClaimAlone
<1> QED  BY TypeCorrect, <1>1, <1>2, <1>3, PTL DEF Spec

-----------------------------------------------------------------------------
(* Nothing outlives its descriptor.                                         *)

\* Neither in the fd table nor listening below.
Quiet(e) ==
    /\ under[e] \in {"none", "deferred"}
    /\ \A f \in Fds : e \notin waiters[f]

\* The fd table files an event under its own descriptor, the latest event of a
\* coroutine is its own, and an event with a descriptor listens to it.
FiledOwn ==
    /\ \A f \in Fds : \A e \in waiters[f] : efd[e] = f
    /\ \A c \in Coroutines : cur[c] # NoEvent =>
          owner[cur[c]] = c /\ phase[cur[c]] # "FREE"
    /\ \A e \in Events : efd[e] # NoFd => "READY" \in sources[e]

\* An event is quiet before InitFdEvent and once _Complete has passed
\* _CannelAllFdEvent; only the worker that registers it changes that.
Over == {"FREE", "FINAL", "CANCELLED"}
QuietOutside ==
    /\ \A e \in Events : phase[e] \in Over => Quiet(e)
    /\ \A c \in Coroutines : pc[c] = "init" => Quiet(await[c])
    /\ \A t \in tasks : t.step \in {"final", "callback"} => Quiet(t.ev)

\* A descriptor wait past InitFdEvent, up to the next one.
Established(c) ==
    /\ cur[c] # NoEvent
    /\ efd[cur[c]] # NoFd
    /\ \/ pc[c] \notin {"init", "run", "done"}
       \/ pc[c] = "run" /\ ret[c] = "zero"

\* As long as the generation is the one InitFdEvent sampled and no close has
\* won, nobody is closing the descriptor and it names the same object.
SameSince(c) ==
    /\ waitEpoch[cur[c]] <= epoch[efd[cur[c]]]
    /\ won[cur[c]] # "CLOSED" /\ epoch[efd[cur[c]]] = waitEpoch[cur[c]] =>
          ~closing[efd[cur[c]]] /\ obj[efd[cur[c]]] = estObj[c]

EpochSince == \A c \in Coroutines : Established(c) => SameSince(c)

\* A queued or resumed coroutine remembers the descriptor and the generation
\* of the wait it returns from.
Answered(c) == queued[c] > 0 \/ (pc[c] = "run" /\ ret[c] = "zero" /\ cur[c] # NoEvent)
EpochDelivered ==
    \A c \in Coroutines : Answered(c) =>
        lastFd[c] = efd[cur[c]] /\ lastEpoch[c] = waitEpoch[cur[c]]

StaleInv == FiledOwn /\ QuietOutside /\ EpochSince /\ EpochDelivered

\* What no step but StartWait does: give an event to somebody else, free it,
\* file it under a foreign descriptor, change the object behind a descriptor
\* without having advanced its generation, or take back a close that has won.
Orderly ==
    /\ UNCHANGED <<owner, efd, sources, cur>>
    /\ \A e \in Events : phase'[e] = "FREE" => phase[e] = "FREE"
    /\ \A f \in Fds : \A e \in waiters'[f] : e \in waiters[f] \/ efd[e] = f
    /\ \A f \in Fds :
        \/ epoch'[f] = epoch[f] /\ obj'[f] = obj[f] /\ (closing'[f] => closing[f])
        \/ epoch'[f] = epoch[f] /\ closing[f]
        \/ epoch'[f] = epoch[f] + 1
    /\ \A e \in Events : won[e] = "CLOSED" => won'[e] = "CLOSED"

\* FiledOwn survives every orderly step.
LEMMA FiledStep ==
    ASSUME IInv, IInv', FiledOwn, Orderly
    PROVE  FiledOwn'
<1>1. \A f \in Fds : \A e \in waiters'[f] : efd'[e] = f
  BY DEF FiledOwn, Orderly
<1>2. ASSUME NEW c \in Coroutines, cur'[c] # NoEvent
      PROVE  owner'[cur'[c]] = c /\ phase'[cur'[c]] # "FREE"
  <2>1. cur'[c] = cur[c] /\ cur[c] \in Events /\ owner' = owner
    BY <1>2 DEF IInv, TypeOK, CoTypes, Orderly
  <2> QED  BY <1>2, <2>1 DEF FiledOwn, Orderly
<1>3. \A e \in Events : efd'[e] # NoFd => "READY" \in sources'[e]
  BY DEF FiledOwn, Orderly
<1> QED  BY <1>1, <1>2, <1>3 DEF FiledOwn

\* QuietOutside survives a step that only ends quiet events.
LEMMA QuietStep ==
    ASSUME IInv, IInv', QuietOutside,
           \A e \in Events : Quiet(e) => Quiet(e)',
           \A e \in Events : phase'[e] \in Over => phase[e] \in Over \/ Quiet(e)',
           \A c \in Coroutines : pc'[c] = "init" => pc[c] = "init" /\ await'[c] = await[c],
           \A t \in tasks' : t \in tasks \/ t.step = "cancelfd" \/ Quiet(t.ev)'
    PROVE  QuietOutside'
<1>1. \A e \in Events : phase'[e] \in Over => Quiet(e)'
  BY DEF QuietOutside
<1>2. ASSUME NEW c \in Coroutines, pc'[c] = "init" PROVE Quiet(await[c])'
  <2>1. pc[c] = "init" /\ await'[c] = await[c]
    BY <1>2
  <2>2. PICK e \in Events : e = await[c]
    BY <2>1, AwaitsEvent DEF IInv, TypeOK
  <2>3. Quiet(e)
    BY <2>1, <2>2 DEF QuietOutside
  <2>4. Quiet(e)' /\ await'[c] = e
    BY <2>1, <2>2, <2>3
  <2> QED  BY <2>4 DEF Quiet
<1>3. ASSUME NEW t \in tasks', t.step \in {"final", "callback"} PROVE Quiet(t.ev)'
  <2>1. t.ev \in Events
    BY DEF IInv, TypeOK, WordTypes, Task
  <2>2. t \in tasks => Quiet(t.ev)
    BY <1>3 DEF QuietOutside
  <2> QED  BY <1>3, <2>1, <2>2
<1> QED  BY <1>1, <1>2, <1>3 DEF QuietOutside

\* EpochSince survives an orderly step for the waits it does not establish.
LEMMA SinceStep ==
    ASSUME IInv, IInv', StaleInv, Orderly, NEW c \in Coroutines,
           Established(c), waitEpoch'[cur[c]] = waitEpoch[cur[c]], estObj'[c] = estObj[c]
    PROVE  SameSince(c)'
<1> DEFINE e == cur[c]
           f == efd[e]
<1>1. e \in Events /\ f \in Fds /\ epoch[f] \in Nat /\ waitEpoch[e] \in Nat
  BY DEF Established, IInv, TypeOK, CoTypes, EventTypes, SlotTypes
<1>2. cur'[c] = e /\ efd'[e] = f /\ waitEpoch'[e] = waitEpoch[e] /\ estObj'[c] = estObj[c]
  BY DEF Orderly
<1>3. /\ waitEpoch[e] <= epoch[f]
      /\ won[e] # "CLOSED" /\ epoch[f] = waitEpoch[e] => ~closing[f] /\ obj[f] = estObj[c]
  BY DEF StaleInv, EpochSince, SameSince
<1>4. won[e] = "CLOSED" => won'[e] = "CLOSED"
  BY <1>1 DEF Orderly
<1>5. \/ epoch'[f] = epoch[f] /\ obj'[f] = obj[f] /\ (closing'[f] => closing[f])
      \/ epoch'[f] = epoch[f] /\ closing[f]
      \/ epoch'[f] = epoch[f] + 1
  BY <1>1 DEF Orderly
<1> HIDE DEF e, f
<1>6. /\ waitEpoch'[e] <= epoch'[f]
      /\ won'[e] # "CLOSED" /\ epoch'[f] = waitEpoch'[e] =>
            ~closing'[f] /\ obj'[f] = estObj'[c]
  BY <1>1, <1>2, <1>3, <1>4, <1>5
<1> QED  BY <1>2, <1>6 DEF SameSince, e, f

\* EpochSince and EpochDelivered survive an orderly step that establishes and
\* answers no wait.
LEMMA EpochStep ==
    ASSUME IInv, IInv', StaleInv, Orderly,
           \A c \in Coroutines : Established(c)' =>
              Established(c) /\ waitEpoch'[cur[c]] = waitEpoch[cur[c]] /\ estObj'[c] = estObj[c],
           \A c \in Coroutines : Answered(c)' =>
              Answered(c) /\ waitEpoch'[cur[c]] = waitEpoch[cur[c]]
              /\ lastFd'[c] = lastFd[c] /\ lastEpoch'[c] = lastEpoch[c]
    PROVE  EpochSince' /\ EpochDelivered'
<1>1. EpochSince'
  <2> SUFFICES ASSUME NEW c \in Coroutines, Established(c)' PROVE SameSince(c)'
    BY DEF EpochSince
  <2> QED  BY SinceStep
<1>2. EpochDelivered'
  BY DEF StaleInv, EpochDelivered, Orderly
<1> QED  BY <1>1, <1>2

\* Trigger by any thread ends no event, starts _Complete at its beginning and
\* never takes back the mask that has won.
LEMMA TriggerFrame ==
    ASSUME WordTypes, NEW e \in Events, NEW f \in Flags, Trigger(e, f)
    PROVE  /\ \A x \in Events : phase'[x] = phase[x] \/ phase'[x] \in {"PENDING", "TRIGGERING"}
           /\ \A x \in Events : won[x] = "CLOSED" => won'[x] = "CLOSED"
           /\ \A t \in tasks' : t \in tasks \/ t.step = "cancelfd"
<1>1. \A x \in Events : phase'[x] = phase[x] \/ phase'[x] \in {"PENDING", "TRIGGERING"}
  BY DEF WordTypes, Trigger
<1>2. \A x \in Events : won[x] = "CLOSED" => won'[x] = "CLOSED"
  BY DEF WordTypes, Trigger, NoFlag
<1>3. \A t \in tasks' : t \in tasks \/ t.step = "cancelfd"
  BY DEF Trigger
<1> QED  BY <1>1, <1>2, <1>3

\* A generation is never reset: the slot that is dropped had generation 0.
LEMMA CannelEpoch ==
    ASSUME SlotTypes, EventTypes, NEW e \in Events, CannelAllFdEvent(e)
    PROVE  epoch' = epoch
BY DEF SlotTypes, EventTypes, CannelAllFdEvent, SlotEpochAfterErase

\* _CannelAllFdEvent silences its event and disturbs no other.
LEMMA CannelQuiet ==
    ASSUME SlotTypes, EventTypes, FiledOwn, NEW e \in Events, CannelAllFdEvent(e)
    PROVE  /\ Quiet(e)'
           /\ \A x \in Events : Quiet(x) => Quiet(x)'
           /\ \A f \in Fds : waiters'[f] \subseteq waiters[f]
<1>1. under'[e] \in {"none", "deferred"}
  BY DEF EventTypes, CannelAllFdEvent
<1>2. \A x \in Events : under[x] \in {"none", "deferred"} => under'[x] \in {"none", "deferred"}
  BY DEF EventTypes, CannelAllFdEvent
<1>3. \A f \in Fds : waiters'[f] \subseteq waiters[f]
  BY DEF SlotTypes, EventTypes, CannelAllFdEvent, UntrackedWaiters
<1>4. \A f \in Fds : e \notin waiters'[f]
  BY DEF SlotTypes, EventTypes, CannelAllFdEvent, UntrackedWaiters, FiledOwn
<1> QED  BY <1>1, <1>2, <1>3, <1>4 DEF Quiet

\* A step that leaves the fd table, the events below and the closers alone and
\* touches the phase word at most as Trigger does.
Plain ==
    /\ UNCHANGED <<owner, efd, sources, cur, waitEpoch, under, waiters, epoch,
                   closing, obj, estObj, lastFd, lastEpoch>>
    /\ \A e \in Events : phase'[e] \in Over => phase'[e] = phase[e]
    /\ \A e \in Events : won[e] = "CLOSED" => won'[e] = "CLOSED"
    /\ \A t \in tasks' : t \in tasks \/ t.step = "cancelfd"
    /\ \A c \in Coroutines : pc'[c] = "init" => pc[c] = "init" /\ await'[c] = await[c]
    /\ \A c \in Coroutines :
        (pc'[c] \notin {"init", "run", "done"} => pc[c] \notin {"init", "run", "done"})
    /\ \A c \in Coroutines : pc'[c] = "run" /\ ret'[c] = "zero" =>
        queued[c] > 0 \/ (pc[c] = "run" /\ ret[c] = "zero")
    /\ \A c \in Coroutines : queued'[c] > 0 => queued[c] > 0

\* A plain step keeps everything.
LEMMA PlainStep ==
    ASSUME IInv, IInv', StaleInv, Plain
    PROVE  StaleInv'
<1>1. Orderly
  BY DEF Plain, Orderly, Over
<1>2. FiledOwn'
  BY <1>1, FiledStep DEF StaleInv
<1>3. \A e \in Events : Quiet(e) => Quiet(e)'
  BY DEF Quiet, Plain
<1>4. QuietOutside'
  <2>1. \A e \in Events : phase'[e] \in Over => phase[e] \in Over \/ Quiet(e)'
    BY DEF Plain
  <2>2. \A c \in Coroutines : pc'[c] = "init" => pc[c] = "init" /\ await'[c] = await[c]
    BY DEF Plain
  <2>3. \A t \in tasks' : t \in tasks \/ t.step = "cancelfd" \/ Quiet(t.ev)'
    BY DEF Plain
  <2> QED  BY <1>3, <2>1, <2>2, <2>3, QuietStep DEF StaleInv
<1>5. \A c \in Coroutines : queued[c] > 0 => pc[c] \notin {"init", "run", "done"}
  BY DEF IInv, TypeOK, CoTypes, PC, PcPhase, WaitingAt
<1>6. EpochSince' /\ EpochDelivered'
  <2>1. \A c \in Coroutines : Established(c)' =>
          Established(c) /\ waitEpoch'[cur[c]] = waitEpoch[cur[c]] /\ estObj'[c] = estObj[c]
    BY <1>5 DEF Plain, Established
  <2>2. \A c \in Coroutines : Answered(c)' =>
          Answered(c) /\ waitEpoch'[cur[c]] = waitEpoch[cur[c]]
          /\ lastFd'[c] = lastFd[c] /\ lastEpoch'[c] = lastEpoch[c]
    BY DEF Plain, Answered
  <2> QED  BY <1>1, <2>1, <2>2, EpochStep
<1> QED  BY <1>2, <1>4, <1>6 DEF StaleInv

\* The steps that are plain: those of the phase word alone, and of the callers.
LEMMA PlainSteps ==
    ASSUME IInv, IInv',
           \/ \E c \in Coroutines :
                \/ PreCancelled(c) \/ RegistAwaitEvent(c) \/ RegistArming(c)
                \/ CommitPark(c) \/ Resume(c) \/ RequestCancelSet(c) \/ CancelStep(c)
           \/ \E e \in Events : LoopTrigger(e) \/ NotifyCustomEvent(e)
           \/ \E k \in Closers : CloseWake(k) \/ WaitFdCloseReady(k)
    PROVE  Plain
<1> USE DEF IInv, TypeOK
<1>t. WordTypes
  OBVIOUS
<1>1. ASSUME NEW c \in Coroutines,
             PreCancelled(c) \/ Resume(c) \/ RequestCancelSet(c) \/ RequestCancelRead(c)
      PROVE  Plain
  BY <1>1 DEF PreCancelled, Resume, RequestCancelSet, RequestCancelRead, Plain, CoTypes
<1>2. ASSUME NEW c \in Coroutines, RegistAwaitEvent(c) PROVE Plain
  <2>1. await[c] \in Events
    BY <1>2, AwaitsEvent DEF RegistAwaitEvent
  <2>2. CASE UNCHANGED wordVars
    BY <1>2, <2>2 DEF RegistAwaitEvent, Plain, CoTypes
  <2>3. CASE Trigger(await[c], "CANCELLED")
    BY <1>t, <1>2, <2>1, <2>3, TriggerFrame DEF RegistAwaitEvent, Plain, CoTypes, Flags, Over
  <2> QED  BY <1>2, <2>2, <2>3 DEF RegistAwaitEvent
<1>3. ASSUME NEW c \in Coroutines, RegistArming(c) PROVE Plain
  <2>1. await[c] \in Events
    BY <1>3, AwaitsEvent DEF RegistArming
  <2> QED  BY <1>3, <2>1 DEF RegistArming, Plain, CoTypes, WordTypes, Over
<1>4. ASSUME NEW c \in Coroutines, CommitPark(c) PROVE Plain
  <2>1. await[c] \in Events
    BY <1>4, AwaitsEvent DEF CommitPark
  <2> QED  BY <1>4, <2>1 DEF CommitPark, Plain, CoTypes, WordTypes, Over
<1>5. ASSUME NEW c \in Coroutines, RequestCancelTrigger(c) PROVE Plain
  <2>1. cref[c] \in Events
    BY <1>5 DEF CallerTypes, AwaitOwn, RequestCancelTrigger
  <2> QED
    BY <1>t, <1>5, <2>1, TriggerFrame DEF RequestCancelTrigger, Plain, Flags, Over
<1>6. ASSUME NEW e \in Events, LoopTrigger(e) \/ NotifyCustomEvent(e) PROVE Plain
  <2>1. PICK f \in Flags : Trigger(e, f)
    BY <1>6 DEF EventTypes, Sources, Flags, LoopTrigger, NotifyCustomEvent
  <2> QED
    BY <1>t, <1>6, <2>1, TriggerFrame DEF LoopTrigger, NotifyCustomEvent, Plain, Over
<1>7. ASSUME NEW k \in Closers, CloseWake(k) PROVE Plain
  <2>1. CASE UNCHANGED wordVars
    BY <1>7, <2>1 DEF CloseWake, Plain
  <2>2. ASSUME NEW e \in ksnap[k], Trigger(e, "CLOSED") PROVE Plain
    <3>1. e \in Events /\ "CLOSED" \in Flags
      BY DEF CallerTypes, Flags
    <3> QED  BY <1>t, <1>7, <2>2, <3>1, TriggerFrame DEF CloseWake, Plain, Over
  <2> QED  BY <1>7, <2>1, <2>2 DEF CloseWake
<1>8. ASSUME NEW k \in Closers, WaitFdCloseReady(k) PROVE Plain
  BY <1>8 DEF WaitFdCloseReady, Plain
<1> QED
  BY <1>1, <1>2, <1>3, <1>4, <1>5, <1>6, <1>7, <1>8 DEF CancelStep

\* QuietOutside survives the worker's own steps: the event that it registers is
\* awaited by nobody else, is not over and has no thread inside _Complete.
LEMMA WorkerStep ==
    ASSUME IInv, IInv', QuietOutside, NEW c \in Coroutines,
           pc[c] \in {"create", "listen", "armed", "track"},
           \A e \in Events \ {await[c]} : Quiet(e) => Quiet(e)',
           \A e \in Events : phase'[e] \in Over => phase[e] \in Over,
           \A d \in Coroutines : pc'[d] = "init" => pc[d] = "init" /\ await'[d] = await[d],
           \A t \in tasks' : t \in tasks \/ t.step = "cancelfd"
    PROVE  QuietOutside'
<1>0. await[c] \in Events /\ phase[await[c]] \in {"INITED", "PENDING", "ARMING", "ARMED"}
  BY DEF IInv, TypeOK, CoTypes, PcPhase, WaitingAt
<1>1. \A e \in Events : phase'[e] \in Over => Quiet(e)'
  <2>1. phase[await[c]] \notin Over
    BY <1>0 DEF Over
  <2> QED  BY <2>1 DEF QuietOutside
<1>2. ASSUME NEW d \in Coroutines, pc'[d] = "init" PROVE Quiet(await[d])'
  <2>1. pc[d] = "init" /\ await'[d] = await[d]
    BY <1>2
  <2>2. PICK e \in Events : e = await[d]
    BY <2>1, AwaitsEvent DEF IInv, TypeOK
  <2>3. e # await[c]
    BY <1>0, <2>1, <2>2 DEF IInv, AwaitOwn
  <2>4. Quiet(e)
    BY <2>1, <2>2 DEF QuietOutside
  <2>5. Quiet(e)' /\ await'[d] = e
    BY <2>1, <2>2, <2>3, <2>4
  <2> QED  BY <2>5 DEF Quiet
<1>3. ASSUME NEW t \in tasks', t.step \in {"final", "callback"} PROVE Quiet(t.ev)'
  <2>1. t \in tasks /\ t.ev \in Events
    BY <1>3 DEF IInv, TypeOK, WordTypes, Task
  <2>2. phase[t.ev] \in {"TRIGGERING", "FINAL"}
    BY <1>3, <2>1 DEF IInv, TasksAlone
  <2>3. t.ev # await[c]
    BY <1>0, <2>2
  <2>4. Quiet(t.ev)
    BY <1>3, <2>1 DEF QuietOutside
  <2> QED  BY <2>1, <2>3, <2>4
<1> QED  BY <1>1, <1>2, <1>3 DEF QuietOutside

\* CreateEvent, RegistListen, RegistArmed and TrackWaiter neither establish nor
\* answer a wait.
WorkerFrame(c) ==
    /\ UNCHANGED <<owner, efd, sources, cur, waitEpoch, epoch, closing, obj, estObj,
                   lastFd, lastEpoch, queued>>
    /\ \A d \in Coroutines \ {c} :
          pc'[d] = pc[d] /\ await'[d] = await[d] /\ ret'[d] = ret[d]
    /\ pc'[c] # "init"
    /\ pc'[c] = "run" => ret'[c] = "error"

\* The worker's steps leave generations and answers alone.
LEMMA WorkerEpochs ==
    ASSUME IInv, IInv', StaleInv, Orderly, NEW c \in Coroutines, WorkerFrame(c),
           pc[c] \in {"create", "listen", "armed", "track"}
    PROVE  EpochSince' /\ EpochDelivered'
<1>1. \A d \in Coroutines : Established(d)' =>
        Established(d) /\ waitEpoch'[cur[d]] = waitEpoch[cur[d]] /\ estObj'[d] = estObj[d]
  BY DEF WorkerFrame, Established
<1>2. \A d \in Coroutines : Answered(d)' =>
        Answered(d) /\ waitEpoch'[cur[d]] = waitEpoch[cur[d]]
        /\ lastFd'[d] = lastFd[d] /\ lastEpoch'[d] = lastEpoch[d]
  BY DEF WorkerFrame, Answered
<1> QED  BY <1>1, <1>2, EpochStep

\* CreateEvent keeps StaleInv.
LEMMA CreateEventStale ==
    ASSUME IInv, IInv', StaleInv, NEW c \in Coroutines, CreateEvent(c)
    PROVE  StaleInv'
<1>0. await[c] \in Events /\ pc[c] = "create"
  BY AwaitsEvent DEF IInv, TypeOK, CreateEvent
<1>1. WorkerFrame(c)
  BY DEF IInv, TypeOK, CoTypes, CreateEvent, Abandon, WorkerFrame
<1>2. UNCHANGED <<phase, won, tasks, waiters>>
  BY DEF CreateEvent
<1>3. Orderly
  BY <1>1, <1>2 DEF WorkerFrame, Orderly
<1>4. QuietOutside'
  <2>1. \A e \in Events \ {await[c]} : under'[e] = under[e]
    BY DEF IInv, TypeOK, EventTypes, CreateEvent
  <2>2. \A e \in Events \ {await[c]} : Quiet(e) => Quiet(e)'
    BY <1>2, <2>1 DEF Quiet
  <2>3. \A d \in Coroutines : pc'[d] = "init" => pc[d] = "init" /\ await'[d] = await[d]
    BY <1>1 DEF WorkerFrame
  <2> QED  BY <1>0, <1>2, <2>2, <2>3, WorkerStep DEF StaleInv
<1> QED  BY <1>0, <1>1, <1>3, <1>4, FiledStep, WorkerEpochs DEF StaleInv

\* TrackWaiter keeps StaleInv: it files the event under its own descriptor.
LEMMA TrackWaiterStale ==
    ASSUME IInv, IInv', StaleInv, NEW c \in Coroutines, TrackWaiter(c)
    PROVE  StaleInv'
<1>0. await[c] \in Events /\ pc[c] = "track"
  BY AwaitsEvent DEF IInv, TypeOK, TrackWaiter
<1>1. WorkerFrame(c) /\ under' = under
  BY DEF IInv, TypeOK, CoTypes, TrackWaiter, WorkerFrame
<1>2. /\ \A x \in Events : phase'[x] = phase[x] \/ phase'[x] \in {"PENDING", "TRIGGERING"}
      /\ \A x \in Events : won[x] = "CLOSED" => won'[x] = "CLOSED"
      /\ \A t \in tasks' : t \in tasks \/ t.step = "cancelfd"
  <2>1. CASE UNCHANGED wordVars
    BY <2>1
  <2>2. CASE Trigger(await[c], "CLOSED")
    <3>1. WordTypes /\ "CLOSED" \in Flags
      BY DEF IInv, TypeOK, Flags
    <3> QED  BY <1>0, <2>2, <3>1, TriggerFrame
  <2> QED  BY <2>1, <2>2 DEF TrackWaiter
<1>3. \A f \in Fds : \A e \in waiters'[f] : e \in waiters[f] \/ (e = await[c] /\ efd[e] = f)
  BY <1>0 DEF IInv, TypeOK, SlotTypes, EventTypes, TrackWaiter
<1>4. Orderly
  BY <1>1, <1>2, <1>3 DEF WorkerFrame, Orderly
<1>5. QuietOutside'
  <2>1. \A e \in Events \ {await[c]} : Quiet(e) => Quiet(e)'
    BY <1>1, <1>3 DEF Quiet
  <2>2. \A d \in Coroutines : pc'[d] = "init" => pc[d] = "init" /\ await'[d] = await[d]
    BY <1>1 DEF WorkerFrame
  <2>3. \A e \in Events : phase'[e] \in Over => phase[e] \in Over
    BY <1>2 DEF Over
  <2> QED  BY <1>0, <1>2, <2>1, <2>2, <2>3, WorkerStep DEF StaleInv
<1> QED  BY <1>0, <1>1, <1>4, <1>5, FiledStep, WorkerEpochs DEF StaleInv

\* RegistListen keeps StaleInv: a registration that fails silences its event
\* before it becomes CANCELLED.
LEMMA RegistListenStale ==
    ASSUME IInv, IInv', StaleInv, NEW c \in Coroutines, RegistListen(c)
    PROVE  StaleInv'
<1>0. await[c] \in Events /\ pc[c] = "listen"
  BY AwaitsEvent DEF IInv, TypeOK, RegistListen
<1>t. SlotTypes /\ EventTypes /\ FiledOwn
  BY DEF IInv, TypeOK, StaleInv
<1>1. CASE UNCHANGED <<phase, await, ret, slotVars>>
  <2>1. UNCHANGED <<won, tasks, waiters>> /\ WorkerFrame(c)
    BY <1>0, <1>1 DEF IInv, TypeOK, CoTypes, RegistListen, Abandon, WorkerFrame
  <2>2. Orderly
    BY <1>1, <2>1 DEF WorkerFrame, Orderly
  <2>3. \A e \in Events \ {await[c]} : under'[e] = under[e]
    BY <1>0 DEF IInv, TypeOK, EventTypes, RegistListen, CannelAllFdEvent
  <2>4. \A e \in Events \ {await[c]} : Quiet(e) => Quiet(e)'
    BY <2>1, <2>3 DEF Quiet
  <2>5. \A d \in Coroutines : pc'[d] = "init" => pc[d] = "init" /\ await'[d] = await[d]
    BY <2>1 DEF WorkerFrame
  <2>6. QuietOutside'
    BY <1>0, <1>1, <2>1, <2>4, <2>5, WorkerStep DEF StaleInv
  <2> QED  BY <1>0, <2>1, <2>2, <2>6, FiledStep, WorkerEpochs DEF StaleInv
<1>2. CASE CannelAllFdEvent(await[c])
  <2>1. epoch' = epoch
    BY <1>0, <1>2, <1>t, CannelEpoch
  <2>2. UNCHANGED <<won, tasks>> /\ WorkerFrame(c)
    BY <1>0, <2>1 DEF IInv, TypeOK, CoTypes, RegistListen, Abandon, WorkerFrame
  <2>3. /\ \A x \in Events : Quiet(x) => Quiet(x)'
        /\ \A f \in Fds : waiters'[f] \subseteq waiters[f]
        /\ \A x \in Events : x = await[c] => Quiet(x)'
    <3>1. PICK e \in Events : e = await[c]
      BY <1>0
    <3>2. CannelAllFdEvent(e)
      BY <1>2, <3>1
    <3>3. /\ Quiet(e)'
          /\ \A x \in Events : Quiet(x) => Quiet(x)'
          /\ \A f \in Fds : waiters'[f] \subseteq waiters[f]
      BY <1>t, <3>2, CannelQuiet
    <3> QED  BY <3>1, <3>3 DEF Quiet
  <2>4. \A x \in Events \ {await[c]} : phase'[x] = phase[x]
    BY DEF IInv, TypeOK, WordTypes, RegistListen
  <2>5. phase'[await[c]] # "FREE"
    BY <1>0 DEF IInv, TypeOK, WordTypes, RegistListen, PcPhase, WaitingAt
  <2>6. Orderly
    BY <2>2, <2>3, <2>4, <2>5 DEF WorkerFrame, Orderly
  <2>7. QuietOutside'
    <3>1. \A e \in Events : phase'[e] \in Over => phase[e] \in Over \/ Quiet(e)'
      BY <2>3, <2>4
    <3>2. \A d \in Coroutines : pc'[d] = "init" => pc[d] = "init" /\ await'[d] = await[d]
      BY <2>2 DEF WorkerFrame
    <3> QED  BY <2>2, <2>3, <3>1, <3>2, QuietStep DEF StaleInv
  <2> QED  BY <1>0, <2>2, <2>6, <2>7, FiledStep, WorkerEpochs DEF StaleInv
<1> QED  BY <1>1, <1>2 DEF RegistListen

\* RegistArmed keeps StaleInv.
LEMMA RegistArmedStale ==
    ASSUME IInv, IInv', StaleInv, NEW c \in Coroutines, RegistArmed(c)
    PROVE  StaleInv'
<1>0. await[c] \in Events /\ pc[c] = "armed"
  BY AwaitsEvent DEF IInv, TypeOK, RegistArmed
<1>1. /\ epoch' = epoch
      /\ \A x \in Events : Quiet(x) => Quiet(x)'
      /\ \A f \in Fds : waiters'[f] \subseteq waiters[f]
  <2>1. CASE UNCHANGED <<under, slotVars>>
    BY <2>1 DEF Quiet
  <2>2. CASE CannelAllFdEvent(await[c])
    <3>1. SlotTypes /\ EventTypes /\ FiledOwn
      BY DEF IInv, TypeOK, StaleInv
    <3> QED  BY <1>0, <2>2, <3>1, CannelEpoch, CannelQuiet
  <2> QED  BY <2>1, <2>2 DEF RegistArmed
<1>2. UNCHANGED <<won, tasks>> /\ WorkerFrame(c)
  BY <1>0, <1>1 DEF IInv, TypeOK, CoTypes, RegistArmed, WorkerFrame
<1>3. \A x \in Events : phase'[x] \in Over => phase[x] \in Over /\ phase'[x] = phase[x]
  BY <1>0 DEF IInv, TypeOK, WordTypes, RegistArmed, Over
<1>4. Orderly
  BY <1>1, <1>2, <1>3 DEF WorkerFrame, Orderly, Over
<1>5. QuietOutside'
  <2>1. \A d \in Coroutines : pc'[d] = "init" => pc[d] = "init" /\ await'[d] = await[d]
    BY <1>2 DEF WorkerFrame
  <2> QED  BY <1>1, <1>2, <1>3, <2>1, QuietStep DEF StaleInv
<1> QED  BY <1>0, <1>2, <1>4, <1>5, FiledStep, WorkerEpochs DEF StaleInv

\* StartWait keeps StaleInv: the event it takes is quiet and nobody's.
LEMMA StartWaitStale ==
    ASSUME IInv, IInv', StaleInv, NEW c \in Coroutines, NEW e \in Events,
           NEW w \in Waits, StartWait(c, e, w)
    PROVE  StaleInv'
<1>1. /\ pc[c] = "run" /\ phase[e] = "FREE"
      /\ phase' = [phase EXCEPT ![e] = "INITED"] /\ owner' = [owner EXCEPT ![e] = c]
      /\ efd' = [efd EXCEPT ![e] = w[1]] /\ sources' = [sources EXCEPT ![e] = w[2]]
      /\ await' = [await EXCEPT ![c] = e]
      /\ cur' = [cur EXCEPT ![c] = e] /\ pc' = [pc EXCEPT ![c] = "init"]
      /\ UNCHANGED <<won, tasks, waitEpoch, under, waiters, epoch, closing, obj, estObj,
                     lastFd, lastEpoch, ret, queued>>
  BY DEF StartWait
<1>2. /\ \A x \in Events \ {e} : phase'[x] = phase[x] /\ owner'[x] = owner[x] /\ efd'[x] = efd[x]
      /\ phase'[e] = "INITED" /\ owner'[e] = c
      /\ \A d \in Coroutines \ {c} : cur'[d] = cur[d] /\ pc'[d] = pc[d] /\ await'[d] = await[d]
      /\ cur'[c] = e /\ pc'[c] = "init" /\ await'[c] = e
  BY <1>1 DEF IInv, TypeOK, WordTypes, EventTypes, CoTypes
<1>3. Quiet(e)
  BY <1>1 DEF StaleInv, QuietOutside, Over
<1>4. \A d \in Coroutines : cur[d] # NoEvent => cur[d] \in Events \ {e}
  BY <1>1 DEF StaleInv, FiledOwn, IInv, TypeOK, CoTypes
<1>5. FiledOwn'
  <2>1. \A f \in Fds : \A x \in waiters'[f] : efd'[x] = f
    <3>1. \A f \in Fds : \A x \in waiters[f] : x \in Events \ {e} /\ efd[x] = f
      BY <1>3 DEF Quiet, StaleInv, FiledOwn, IInv, TypeOK, SlotTypes
    <3> QED  BY <1>1, <1>2, <3>1
  <2>2. \A d \in Coroutines : cur'[d] # NoEvent =>
          owner'[cur'[d]] = d /\ phase'[cur'[d]] # "FREE"
    BY <1>2, <1>4 DEF StaleInv, FiledOwn
  <2>3. \A x \in Events : efd'[x] # NoFd => "READY" \in sources'[x]
    BY <1>1 DEF StaleInv, FiledOwn, IInv, TypeOK, EventTypes
  <2> QED  BY <2>1, <2>2, <2>3 DEF FiledOwn
<1>6. QuietOutside'
  <2>1. \A x \in Events : Quiet(x) => Quiet(x)'
    BY <1>1 DEF Quiet
  <2>2. \A x \in Events : phase'[x] \in Over => Quiet(x)'
    BY <1>2, <2>1 DEF StaleInv, QuietOutside, Over
  <2>3. ASSUME NEW d \in Coroutines, pc'[d] = "init" PROVE Quiet(await[d])'
    <3>1. CASE d = c
      BY <1>2, <1>3, <2>1, <3>1 DEF Quiet
    <3>2. CASE d # c
      <4>1. pc[d] = "init" /\ await'[d] = await[d] /\ Quiet(await[d])
        BY <1>2, <2>3, <3>2 DEF StaleInv, QuietOutside
      <4> QED  BY <1>1, <4>1 DEF Quiet
    <3> QED  BY <3>1, <3>2
  <2>4. \A t \in tasks' : t.step \in {"final", "callback"} => Quiet(t.ev)'
    BY <1>1, <2>1 DEF StaleInv, QuietOutside, Quiet
  <2> QED  BY <2>2, <2>3, <2>4 DEF QuietOutside
<1>7. EpochSince'
  <2> SUFFICES ASSUME NEW d \in Coroutines, Established(d)' PROVE SameSince(d)'
    BY DEF EpochSince
  <2>1. d # c
    BY <1>2 DEF Established
  <2>2. cur'[d] = cur[d] /\ cur[d] \in Events \ {e} /\ efd'[cur[d]] = efd[cur[d]]
    BY <1>2, <1>4, <2>1 DEF Established
  <2>3. Established(d)
    BY <1>1, <1>2, <2>1, <2>2 DEF Established
  <2>4. SameSince(d)
    BY <2>3 DEF StaleInv, EpochSince
  <2> QED  BY <1>1, <2>2, <2>4 DEF SameSince
<1>8. EpochDelivered'
  <2> SUFFICES ASSUME NEW d \in Coroutines, Answered(d)'
               PROVE  lastFd'[d] = efd'[cur'[d]] /\ lastEpoch'[d] = waitEpoch'[cur'[d]]
    BY DEF EpochDelivered
  <2>1. queued[c] = 0
    BY <1>1 DEF IInv, PcPhase
  <2>2. d # c
    BY <1>1, <1>2, <2>1 DEF Answered
  <2>3. Answered(d)
    BY <1>1, <1>2, <2>2 DEF Answered
  <2>4. cur[d] # NoEvent
    BY <2>3 DEF Answered, IInv, Delivered
  <2> QED  BY <1>1, <1>2, <1>4, <2>2, <2>3, <2>4 DEF StaleInv, EpochDelivered
<1> QED  BY <1>5, <1>6, <1>7, <1>8 DEF StaleInv

\* InitFdEvent keeps StaleInv: the generation and the object are sampled
\* together, and on a closing descriptor the wait is latched CLOSED.
LEMMA InitFdEventStale ==
    ASSUME IInv, IInv', StaleInv, NEW c \in Coroutines, InitFdEvent(c)
    PROVE  StaleInv'
<1>0. PICK e \in Events : e = await[c]
  BY AwaitsEvent DEF IInv, TypeOK, InitFdEvent
<1>1. pc[c] = "init" /\ cur[c] = e /\ owner[e] = c /\ queued[c] = 0
  BY <1>0 DEF InitFdEvent, IInv, AwaitOwn, PcPhase, WaitingAt
<1>2. UNCHANGED <<owner, efd, sources, cur, under, waiters, epoch, closing, obj, lastFd,
                  lastEpoch, queued>>
  BY DEF InitFdEvent
<1>3. /\ \A x \in Events : phase'[x] = phase[x] \/ phase'[x] \in {"PENDING", "TRIGGERING"}
      /\ \A x \in Events : won[x] = "CLOSED" => won'[x] = "CLOSED"
      /\ \A t \in tasks' : t \in tasks \/ t.step = "cancelfd"
  <2>1. CASE UNCHANGED wordVars
    BY <2>1
  <2>2. CASE Trigger(e, "CLOSED")
    <3>1. WordTypes /\ "CLOSED" \in Flags
      BY DEF IInv, TypeOK, Flags
    <3> QED  BY <2>2, <3>1, TriggerFrame
  <2> QED  BY <1>0, <2>1, <2>2 DEF InitFdEvent
<1>4. /\ \A d \in Coroutines \ {c} : pc'[d] = pc[d] /\ await'[d] = await[d] /\ ret'[d] = ret[d]
                                     /\ estObj'[d] = estObj[d]
      /\ \A x \in Events \ {e} : waitEpoch'[x] = waitEpoch[x]
      /\ pc'[c] \in {"run", "yield", "create"}
      /\ pc'[c] = "run" => ret'[c] = "error"
  BY <1>0 DEF IInv, TypeOK, CoTypes, EventTypes, LastTypes, InitFdEvent, Abandon
<1>5. Orderly
  BY <1>2, <1>3 DEF Orderly
<1>6. FiledOwn'
  BY <1>5, FiledStep DEF StaleInv
<1>7. QuietOutside'
  <2>1. \A x \in Events : Quiet(x) => Quiet(x)'
    BY <1>2 DEF Quiet
  <2>2. \A x \in Events : phase'[x] \in Over => phase[x] \in Over
    BY <1>3 DEF Over
  <2>3. \A d \in Coroutines : pc'[d] = "init" => pc[d] = "init" /\ await'[d] = await[d]
    BY <1>4
  <2> QED  BY <1>3, <2>1, <2>2, <2>3, QuietStep DEF StaleInv
<1>8. \A d \in Coroutines \ {c} : cur[d] # NoEvent => cur[d] \in Events \ {e}
  BY <1>1 DEF StaleInv, FiledOwn, IInv, TypeOK, CoTypes
<1>9. EpochSince'
  <2> SUFFICES ASSUME NEW d \in Coroutines, Established(d)' PROVE SameSince(d)'
    BY DEF EpochSince
  <2>1. CASE d # c
    <3>1. Established(d) /\ cur[d] \in Events \ {e}
      BY <1>2, <1>4, <1>8, <2>1 DEF Established
    <3> QED  BY <1>4, <1>5, <2>1, <3>1, SinceStep
  <2>2. CASE d = c
    <3>1. efd[e] # NoFd /\ pc'[c] \in {"yield", "create"}
      BY <1>1, <1>2, <1>4, <2>2 DEF Established
    <3>2. efd[e] \in Fds /\ sources[e] # {"CUSTOM"}
      BY <3>1 DEF StaleInv, FiledOwn, IInv, TypeOK, EventTypes
    <3>3. /\ phase[e] = "INITED"
          /\ waitEpoch' = [waitEpoch EXCEPT ![e] = epoch[efd[e]]]
          /\ estObj' = [estObj EXCEPT ![c] = obj[efd[e]]]
          /\ closing[efd[e]] => Trigger(e, "CLOSED")
      BY <1>0, <3>1, <3>2 DEF InitFdEvent, Abandon, IInv, TypeOK, CoTypes
    <3>4. waitEpoch'[e] = epoch[efd[e]] /\ estObj'[c] = obj[efd[e]] /\ epoch[efd[e]] \in Nat
      BY <3>2, <3>3 DEF IInv, TypeOK, EventTypes, LastTypes, SlotTypes
    <3>5. closing[efd[e]] => won'[e] = "CLOSED"
      BY <3>3 DEF IInv, TypeOK, WordTypes, MaskWon, Trigger, LatchPhases, CompletePhases
    <3> QED  BY <1>1, <1>2, <2>2, <3>4, <3>5 DEF SameSince
  <2> QED  BY <2>1, <2>2
<1>10. EpochDelivered'
  <2> SUFFICES ASSUME NEW d \in Coroutines, Answered(d)'
               PROVE  lastFd'[d] = efd'[cur'[d]] /\ lastEpoch'[d] = waitEpoch'[cur'[d]]
    BY DEF EpochDelivered
  <2>1. d # c
    BY <1>1, <1>2, <1>4 DEF Answered, IInv, TypeOK, CoTypes
  <2>2. Answered(d)
    BY <1>2, <1>4, <2>1 DEF Answered
  <2>3. cur[d] \in Events \ {e}
    BY <1>8, <2>1, <2>2 DEF Answered, IInv, Delivered
  <2> QED  BY <1>2, <1>4, <2>2, <2>3 DEF StaleInv, EpochDelivered
<1> QED  BY <1>6, <1>7, <1>9, <1>10 DEF StaleInv

\* OnException keeps StaleInv: what it withdraws has not been set up yet.
LEMMA OnExceptionStale ==
    ASSUME IInv, IInv', StaleInv, NEW c \in Coroutines, OnException(c)
    PROVE  StaleInv'
<1>0. PICK e \in Events : e = await[c]
  BY AwaitsEvent DEF IInv, TypeOK, OnException
<1>1. UNCHANGED <<owner, efd, sources, cur, waitEpoch, under, waiters, epoch, closing, obj,
                  estObj, lastFd, lastEpoch, won, tasks, ret, queued>>
  BY DEF OnException
<1>2. /\ \A d \in Coroutines \ {c} : pc'[d] = pc[d] /\ await'[d] = await[d]
      /\ pc[c] = "init" /\ pc'[c] = "done"
      /\ \A x \in Events \ {e} : phase'[x] = phase[x]
      /\ phase'[e] # "FREE"
  BY <1>0 DEF OnException, IInv, TypeOK, CoTypes, WordTypes, PcPhase, WaitingAt
<1>3. Orderly
  BY <1>1, <1>2 DEF Orderly
<1>4. QuietOutside'
  <2>1. \A x \in Events : Quiet(x) => Quiet(x)'
    BY <1>1 DEF Quiet
  <2>2. Quiet(e)
    BY <1>0, <1>2 DEF StaleInv, QuietOutside
  <2>3. \A x \in Events : phase'[x] \in Over => phase[x] \in Over \/ Quiet(x)'
    BY <1>2, <2>1, <2>2
  <2>4. \A d \in Coroutines : pc'[d] = "init" => pc[d] = "init" /\ await'[d] = await[d]
    BY <1>2
  <2> QED  BY <1>1, <2>1, <2>3, <2>4, QuietStep DEF StaleInv
<1>5. \A d \in Coroutines : Established(d)' =>
        Established(d) /\ waitEpoch'[cur[d]] = waitEpoch[cur[d]] /\ estObj'[d] = estObj[d]
  BY <1>1, <1>2 DEF Established
<1>6. \A d \in Coroutines : Answered(d)' =>
        Answered(d) /\ waitEpoch'[cur[d]] = waitEpoch[cur[d]]
        /\ lastFd'[d] = lastFd[d] /\ lastEpoch'[d] = lastEpoch[d]
  BY <1>1, <1>2 DEF Answered
<1> QED  BY <1>3, <1>4, <1>5, <1>6, FiledStep, EpochStep DEF StaleInv

\* A thread inside _Complete keeps StaleInv up to its callback: it silences the
\* event before it publishes FINAL.
LEMMA CompleteStale ==
    ASSUME IInv, IInv', StaleInv, NEW t \in tasks, CompleteCancelFd(t) \/ CompleteFinal(t)
    PROVE  StaleInv'
<1>0. t \in Task /\ t.ev \in Events
  BY DEF IInv, TypeOK, WordTypes, Task
<1>1. UNCHANGED <<owner, efd, sources, cur, waitEpoch, closing, obj, estObj, lastFd, lastEpoch,
                  won, ret, queued, pc, await>>
  BY DEF CompleteCancelFd, CompleteFinal
<1>t. SlotTypes /\ EventTypes /\ FiledOwn
  BY DEF IInv, TypeOK, StaleInv
<1>2. /\ epoch' = epoch
      /\ \A x \in Events : Quiet(x) => Quiet(x)'
      /\ \A f \in Fds : waiters'[f] \subseteq waiters[f]
      /\ Quiet(t.ev)'
  <2>1. CASE CompleteCancelFd(t)
    <3>1. CannelAllFdEvent(t.ev)
      BY <2>1 DEF CompleteCancelFd
    <3> QED  BY <1>0, <1>t, <3>1, CannelEpoch, CannelQuiet
  <2>2. CASE CompleteFinal(t)
    <3>1. UNCHANGED <<epoch, under, waiters>> /\ t.step = "final"
      BY <2>2 DEF CompleteFinal
    <3>2. Quiet(t.ev)
      BY <3>1 DEF StaleInv, QuietOutside
    <3> QED  BY <3>1, <3>2 DEF Quiet
  <2> QED  BY <2>1, <2>2
<1>3. \A x \in Events : phase'[x] = phase[x] \/ (x = t.ev /\ phase'[x] = "FINAL")
  BY <1>0 DEF CompleteCancelFd, CompleteFinal, IInv, TypeOK, WordTypes
<1>4. \A u \in tasks' : u \in tasks \/ u.ev = t.ev
  BY <1>0 DEF CompleteCancelFd, CompleteFinal, StepTo, Task
<1>5. Orderly
  BY <1>1, <1>2, <1>3 DEF Orderly
<1>6. QuietOutside'
  <2>1. \A x \in Events : phase'[x] \in Over => phase[x] \in Over \/ Quiet(x)'
    BY <1>2, <1>3
  <2>2. \A d \in Coroutines : pc'[d] = "init" => pc[d] = "init" /\ await'[d] = await[d]
    BY <1>1
  <2>3. \A u \in tasks' : u \in tasks \/ u.step = "cancelfd" \/ Quiet(u.ev)'
    BY <1>2, <1>4
  <2> QED  BY <1>2, <2>1, <2>2, <2>3, QuietStep DEF StaleInv
<1>7. \A d \in Coroutines : Established(d)' =>
        Established(d) /\ waitEpoch'[cur[d]] = waitEpoch[cur[d]] /\ estObj'[d] = estObj[d]
  BY <1>1 DEF Established
<1>8. \A d \in Coroutines : Answered(d)' =>
        Answered(d) /\ waitEpoch'[cur[d]] = waitEpoch[cur[d]]
        /\ lastFd'[d] = lastFd[d] /\ lastEpoch'[d] = lastEpoch[d]
  BY <1>1 DEF Answered
<1> QED  BY <1>5, <1>6, <1>7, <1>8, FiledStep, EpochStep DEF StaleInv

\* OnCoPollEvent keeps StaleInv: it hands over descriptor and generation of the
\* wait that has just ended.
LEMMA OnCoPollEventStale ==
    ASSUME IInv, IInv', StaleInv, NEW t \in tasks, OnCoPollEvent(t)
    PROVE  StaleInv'
<1> DEFINE c == owner[t.ev]
<1>0. t.ev \in Events /\ c \in Coroutines /\ cur[c] = t.ev /\ await[c] = t.ev
  BY DEF IInv, TypeOK, WordTypes, Task, TasksAlone, AwaitOwn
<1>1. UNCHANGED <<owner, efd, sources, cur, waitEpoch, under, waiters, epoch, closing, obj,
                  estObj, won, ret, pc, phase>> /\ tasks' \subseteq tasks
  BY DEF OnCoPollEvent
<1>2. /\ \A d \in Coroutines \ {c} : lastFd'[d] = lastFd[d] /\ lastEpoch'[d] = lastEpoch[d]
                                     /\ queued'[d] = queued[d] /\ await'[d] = await[d]
      /\ lastFd'[c] = efd[t.ev] /\ lastEpoch'[c] = waitEpoch[t.ev]
  BY <1>0 DEF OnCoPollEvent, IInv, TypeOK, CoTypes, LastTypes
<1>3. pc[c] # "init"
  BY <1>0 DEF IInv, TasksAlone, TypeOK, WordTypes, Task, TaskSteps, PcPhase, WaitingAt
<1> HIDE DEF c
<1>4. Orderly
  BY <1>1 DEF Orderly
<1>5. QuietOutside'
  <2>1. \A x \in Events : Quiet(x) => Quiet(x)'
    BY <1>1 DEF Quiet
  <2>2. \A d \in Coroutines : pc'[d] = "init" => pc[d] = "init" /\ await'[d] = await[d]
    BY <1>1, <1>2, <1>3
  <2> QED  BY <1>1, <2>1, <2>2, QuietStep DEF StaleInv
<1>6. EpochSince'
  <2> SUFFICES ASSUME NEW d \in Coroutines, Established(d)' PROVE SameSince(d)'
    BY DEF EpochSince
  <2>1. Established(d)
    BY <1>1 DEF Established
  <2> QED  BY <1>1, <1>4, <2>1, SinceStep
<1>7. EpochDelivered'
  <2> SUFFICES ASSUME NEW d \in Coroutines, Answered(d)'
               PROVE  lastFd'[d] = efd'[cur'[d]] /\ lastEpoch'[d] = waitEpoch'[cur'[d]]
    BY DEF EpochDelivered
  <2>1. CASE d = c
    BY <1>0, <1>1, <1>2, <2>1
  <2>2. CASE d # c
    <3>1. Answered(d)
      BY <1>1, <1>2, <2>2 DEF Answered
    <3> QED  BY <1>1, <1>2, <2>2, <3>1 DEF StaleInv, EpochDelivered
  <2> QED  BY <2>1, <2>2
<1> QED  BY <1>4, <1>5, <1>6, <1>7, FiledStep DEF StaleInv

\* Hook_Close keeps StaleInv: the object changes only while the slot is closing,
\* after its generation has been advanced.
LEMMA CloseStale ==
    ASSUME IInv, IInv', ClaimAlone, StaleInv, NEW k \in Closers,
           \/ \E f \in Fds : BeginFdClose(k, f)
           \/ SysClose(k)
           \/ EndFdClose(k)
    PROVE  StaleInv'
<1>1. UNCHANGED <<owner, efd, sources, cur, waitEpoch, under, estObj, lastFd, lastEpoch,
                  won, ret, queued, pc, await, phase, tasks>>
  BY DEF BeginFdClose, SysClose, EndFdClose
<1>2. \A f \in Fds : waiters'[f] \subseteq waiters[f]
  BY DEF BeginFdClose, SysClose, EndFdClose, IInv, TypeOK, SlotTypes
<1>3. ASSUME NEW g \in Fds
      PROVE  \/ epoch'[g] = epoch[g] /\ obj'[g] = obj[g] /\ (closing'[g] => closing[g])
             \/ epoch'[g] = epoch[g] /\ closing[g]
             \/ epoch'[g] = epoch[g] + 1
  <2>1. CASE \E f \in Fds : BeginFdClose(k, f)
    BY <2>1 DEF BeginFdClose, IInv, TypeOK, SlotTypes
  <2>2. CASE SysClose(k)
    BY <2>2 DEF SysClose, ClaimAlone, IInv, TypeOK, SlotTypes, CallerTypes
  <2>3. CASE EndFdClose(k)
    BY <2>3 DEF EndFdClose, ClaimAlone, IInv, TypeOK, SlotTypes, CallerTypes
  <2> QED  BY <2>1, <2>2, <2>3
<1>4. Orderly
  BY <1>1, <1>2, <1>3 DEF Orderly
<1>5. QuietOutside'
  <2>1. \A x \in Events : Quiet(x) => Quiet(x)'
    BY <1>1, <1>2 DEF Quiet
  <2> QED  BY <1>1, <2>1, QuietStep DEF StaleInv
<1>6. \A d \in Coroutines : Established(d)' =>
        Established(d) /\ waitEpoch'[cur[d]] = waitEpoch[cur[d]] /\ estObj'[d] = estObj[d]
  BY <1>1 DEF Established
<1>7. \A d \in Coroutines : Answered(d)' =>
        Answered(d) /\ waitEpoch'[cur[d]] = waitEpoch[cur[d]]
        /\ lastFd'[d] = lastFd[d] /\ lastEpoch'[d] = lastEpoch[d]
  BY <1>1 DEF Answered
<1> QED  BY <1>4, <1>5, <1>6, <1>7, FiledStep, EpochStep DEF StaleInv

\* Every step, and a stuttering step, keeps StaleInv.
LEMMA StaleNext == IInv /\ IInv' /\ ClaimAlone /\ StaleInv /\ [Next]_vars => StaleInv'
<1> SUFFICES ASSUME IInv, IInv', ClaimAlone, StaleInv, [Next]_vars PROVE StaleInv'
  OBVIOUS
<1>1. CASE UNCHANGED vars
  <2>1. Plain
    BY <1>1 DEF vars, Plain
  <2> QED  BY <2>1, PlainStep
<1>2. ASSUME NEW c \in Coroutines,
             \/ PreCancelled(c) \/ RegistAwaitEvent(c) \/ RegistArming(c)
             \/ CommitPark(c) \/ Resume(c) \/ RequestCancelSet(c) \/ CancelStep(c)
      PROVE  StaleInv'
  BY <1>2, PlainSteps, PlainStep
<1>3. ASSUME NEW e \in Events, LoopTrigger(e) \/ NotifyCustomEvent(e) PROVE StaleInv'
  BY <1>3, PlainSteps, PlainStep
<1>4. ASSUME NEW k \in Closers, CloseWake(k) \/ WaitFdCloseReady(k) PROVE StaleInv'
  BY <1>4, PlainSteps, PlainStep
<1>5. ASSUME NEW c \in Coroutines, NEW e \in Events, NEW w \in Waits, StartWait(c, e, w)
      PROVE  StaleInv'
  BY <1>5, StartWaitStale
<1>6. ASSUME NEW c \in Coroutines,
             \/ InitFdEvent(c) \/ CreateEvent(c) \/ RegistListen(c) \/ RegistArmed(c)
             \/ TrackWaiter(c) \/ OnException(c)
      PROVE  StaleInv'
  BY <1>6, InitFdEventStale, CreateEventStale, RegistListenStale, RegistArmedStale,
     TrackWaiterStale, OnExceptionStale
<1>7. ASSUME NEW t \in tasks, CompleteStep(t) PROVE StaleInv'
  BY <1>7, CompleteStale, OnCoPollEventStale DEF CompleteStep
<1>8. ASSUME NEW k \in Closers,
             (\E f \in Fds : BeginFdClose(k, f)) \/ SysClose(k) \/ EndFdClose(k)
      PROVE  StaleInv'
  BY <1>8, CloseStale
<1> QED
  BY <1>1, <1>2, <1>3, <1>4, <1>5, <1>6, <1>7, <1>8 DEF Next, WaitStep, CloseStep

\* Hook_Close keeps a claim of its own, and nothing outlives its descriptor, in
\* every reachable state.
THEOREM Staleness == Spec => [](ClaimAlone /\ StaleInv)
<1>1. Init => ClaimAlone
  BY DEF Init, ClaimAlone, CloseOwnObject
<1>2. Init => StaleInv
  BY DEF Init, StaleInv, FiledOwn, QuietOutside, Quiet, EpochSince, Established,
         EpochDelivered, Answered
<1>3. IInv /\ ClaimAlone /\ [Next]_vars => ClaimAlone'
  BY ClaimAloneInv DEF IInv
<1>4. IInv /\ IInv' /\ ClaimAlone /\ StaleInv /\ [Next]_vars => StaleInv'
  BY StaleNext
<1> QED  BY Invariance, <1>1, <1>2, <1>3, <1>4, PTL DEF Spec

\* Nothing stale: a Hook that FdWaitEpochValid lets retry its system call finds
\* the object it waited on, and an event that is over is in no slot.
THEOREM NothingStaleHolds == Spec => []NothingStale
<1>1. IInv /\ StaleInv => NothingStale
  <2> SUFFICES ASSUME IInv, StaleInv PROVE NothingStale
    OBVIOUS
  <2>1. NoLeakedWaiter
    BY DEF StaleInv, QuietOutside, Quiet, Over, NoLeakedWaiter
  <2>2. RetrySameObject
    <3> SUFFICES ASSUME NEW c \in Coroutines, pc[c] = "run", ret[c] = "zero",
                        cur[c] # NoEvent, efd[cur[c]] # NoFd,
                        FdWaitEpochValid(c, efd[cur[c]])
                 PROVE  obj[efd[cur[c]]] = estObj[c]
      BY DEF RetrySameObject
    <3>1. lastMask[c] = won[cur[c]]
      BY DEF IInv, Delivered
    <3>2. lastFd[c] = efd[cur[c]] /\ lastEpoch[c] = waitEpoch[cur[c]]
      BY DEF StaleInv, EpochDelivered, Answered
    <3>3. SameSince(c)
      BY DEF StaleInv, EpochSince, Established
    <3> QED  BY <3>1, <3>2, <3>3 DEF SameSince, FdWaitEpochValid
  <2> QED  BY <2>1, <2>2 DEF NothingStale
<1> QED  BY Invariance, Staleness, <1>1, PTL

-----------------------------------------------------------------------------
(* The refinement of OneShotWait.                                           *)

\* The abstract state of one coroutine.
StOf(c) ==
    IF pc[c] = "run" THEN "running"
    ELSE IF pc[c] = "done" THEN "ended"
    ELSE IF queued[c] > 0 THEN "ready" ELSE "waiting"
CauseOf(c) == IF pc[c] \in {"run", "done"} THEN NoFlag ELSE won[cur[c]]

\* The refinement mapping, coroutine by coroutine, in a state and in the next.
LEMMA Mapping ==
    /\ absSt = [c \in Coroutines |-> StOf(c)]
    /\ absCause = [c \in Coroutines |-> CauseOf(c)]
    /\ absSt' = [c \in Coroutines |-> StOf(c)']
    /\ absCause' = [c \in Coroutines |-> CauseOf(c)']
<1>1. absSt = [c \in Coroutines |-> StOf(c)]
  BY DEF absSt, StOf
<1>2. absSt' = [c \in Coroutines |-> StOf(c)']
  BY DEF absSt, StOf
<1> QED  BY <1>1, <1>2 DEF absCause, CauseOf

\* What one coroutine does in the abstract specification: nothing, or one of
\* Begin, Decide, Wake, Resume, Fail and End.
AbsMove(c) ==
    \/ StOf(c)' = StOf(c) /\ CauseOf(c)' = CauseOf(c) /\ lastMask'[c] = lastMask[c]
    \/ /\ StOf(c) = "running" /\ StOf(c)' = "waiting"
       /\ CauseOf(c)' = CauseOf(c) /\ lastMask'[c] = lastMask[c]
    \/ /\ StOf(c) = "waiting" /\ StOf(c)' = StOf(c)
       /\ CauseOf(c) = NoFlag /\ CauseOf(c)' \in Flags /\ lastMask'[c] = lastMask[c]
    \/ /\ StOf(c) = "waiting" /\ StOf(c)' = "ready" /\ CauseOf(c) # NoFlag
       /\ CauseOf(c)' = CauseOf(c) /\ lastMask'[c] = CauseOf(c)
    \/ /\ StOf(c) \in {"ready", "waiting"} /\ StOf(c)' = "running"
       /\ CauseOf(c)' = NoFlag /\ lastMask'[c] = lastMask[c]
    \/ /\ StOf(c) = "waiting" /\ StOf(c)' = "ended"
       /\ CauseOf(c)' = NoFlag /\ lastMask'[c] = lastMask[c]

AbsStill(c) ==
    StOf(c)' = StOf(c) /\ CauseOf(c)' = CauseOf(c) /\ lastMask'[c] = lastMask[c]

\* If one coroutine moves and the others are still, the step is one of the
\* abstract specification.
LEMMA AbsStep ==
    ASSUME IInv, IInv', NEW c \in Coroutines, AbsMove(c),
           \A d \in Coroutines \ {c} : AbsStill(d)
    PROVE  [OneShot!Next]_(OneShot!absVars)
<1> DEFINE s == StOf(c)'
           m == CauseOf(c)'
           o == lastMask'[c]
<1>1. /\ absSt = [d \in Coroutines |-> StOf(d)]
      /\ absCause = [d \in Coroutines |-> CauseOf(d)]
  BY Mapping
<1>2. /\ absSt' = [d \in Coroutines |-> StOf(d)']
      /\ absCause' = [d \in Coroutines |-> CauseOf(d)']
  BY Mapping
<1>3. absSt[c] = StOf(c) /\ absCause[c] = CauseOf(c)
  BY <1>1
<1>4. /\ absSt' = [absSt EXCEPT ![c] = s]
      /\ absCause' = [absCause EXCEPT ![c] = m]
  BY <1>1, <1>2 DEF AbsStill
<1>5. lastMask' = [lastMask EXCEPT ![c] = o]
  BY DEF AbsStill, IInv, TypeOK, LastTypes
<1>6. /\ s = StOf(c) => absSt' = absSt
      /\ m = CauseOf(c) => absCause' = absCause
      /\ o = lastMask[c] => lastMask' = lastMask
  <2>1. [absSt EXCEPT ![c] = absSt[c]] = absSt /\ [absCause EXCEPT ![c] = absCause[c]] = absCause
    BY <1>1
  <2>2. [lastMask EXCEPT ![c] = lastMask[c]] = lastMask
    BY DEF IInv, TypeOK, LastTypes
  <2> QED  BY <1>3, <1>4, <1>5, <2>1, <2>2
<1>7. \/ s = StOf(c) /\ m = CauseOf(c) /\ o = lastMask[c]
      \/ StOf(c) = "running" /\ s = "waiting" /\ m = CauseOf(c) /\ o = lastMask[c]
      \/ /\ StOf(c) = "waiting" /\ s = StOf(c) /\ CauseOf(c) = NoFlag /\ m \in Flags
         /\ o = lastMask[c]
      \/ /\ StOf(c) = "waiting" /\ s = "ready" /\ CauseOf(c) # NoFlag /\ m = CauseOf(c)
         /\ o = CauseOf(c)
      \/ StOf(c) \in {"ready", "waiting"} /\ s = "running" /\ m = NoFlag /\ o = lastMask[c]
      \/ StOf(c) = "waiting" /\ s = "ended" /\ m = NoFlag /\ o = lastMask[c]
  BY DEF AbsMove
<1> HIDE DEF s, m, o
<1>8. CASE s = StOf(c) /\ m = CauseOf(c) /\ o = lastMask[c]
  BY <1>6, <1>8 DEF OneShot!absVars
<1>9. CASE StOf(c) = "running" /\ s = "waiting" /\ m = CauseOf(c) /\ o = lastMask[c]
  BY <1>3, <1>4, <1>6, <1>9 DEF OneShot!Next, OneShot!Begin
<1>10. CASE /\ StOf(c) = "waiting" /\ s = StOf(c) /\ CauseOf(c) = NoFlag /\ m \in Flags
            /\ o = lastMask[c]
  BY <1>3, <1>4, <1>6, <1>10 DEF OneShot!Next, OneShot!Decide
<1>11. CASE /\ StOf(c) = "waiting" /\ s = "ready" /\ CauseOf(c) # NoFlag /\ m = CauseOf(c)
            /\ o = CauseOf(c)
  BY <1>3, <1>4, <1>5, <1>6, <1>11 DEF OneShot!Next, OneShot!Wake
<1>12. CASE StOf(c) \in {"ready", "waiting"} /\ s = "running" /\ m = NoFlag /\ o = lastMask[c]
  BY <1>3, <1>4, <1>6, <1>12 DEF OneShot!Next, OneShot!Resume, OneShot!Fail
<1>13. CASE StOf(c) = "waiting" /\ s = "ended" /\ m = NoFlag /\ o = lastMask[c]
  BY <1>3, <1>4, <1>6, <1>13 DEF OneShot!Next, OneShot!End
<1> QED  BY <1>7, <1>8, <1>9, <1>10, <1>11, <1>12, <1>13

\* If every coroutine is still, the step stutters.
LEMMA AbsStutter ==
    ASSUME IInv, IInv', \A d \in Coroutines : AbsStill(d)
    PROVE  [OneShot!Next]_(OneShot!absVars)
<1>1. absSt' = absSt /\ absCause' = absCause
  BY Mapping DEF AbsStill
<1>2. lastMask' = lastMask
  BY DEF AbsStill, IInv, TypeOK, LastTypes
<1> QED  BY <1>1, <1>2 DEF OneShot!absVars

\* Steps that neither begin, deliver, resume nor give up a wait.
SameState ==
    /\ UNCHANGED <<queued, cur, lastMask>>
    /\ \A d \in Coroutines :
        (pc'[d] = "run" <=> pc[d] = "run") /\ (pc'[d] = "done" <=> pc[d] = "done")

\* A coroutine that is not running has a current event.
LEMMA HasEvent ==
    ASSUME IInv, NEW d \in Coroutines, pc[d] \notin {"run", "done"}
    PROVE  cur[d] \in Events
<1>1. await[d] # NoEvent \/ queued[d] = 1
  BY DEF IInv, TypeOK, CoTypes, PC, PcPhase, WaitingAt
<1> QED  BY <1>1 DEF IInv, TypeOK, CoTypes, AwaitOwn, Delivered

\* Without a Trigger such a step stutters.
LEMMA QuietAbs ==
    ASSUME IInv, IInv', SameState, UNCHANGED won
    PROVE  [OneShot!Next]_(OneShot!absVars)
<1>1. \A d \in Coroutines : AbsStill(d)
  BY DEF SameState, AbsStill, StOf, CauseOf
<1> QED  BY <1>1, AbsStutter

\* A Trigger decides the wait in progress of its event's owner, or stutters.
LEMMA TriggerAbs ==
    ASSUME IInv, IInv', FiledOwn, SameState, NEW e \in Events, NEW f \in Flags, Trigger(e, f)
    PROVE  [OneShot!Next]_(OneShot!absVars)
<1>1. \A d \in Coroutines : StOf(d)' = StOf(d) /\ lastMask'[d] = lastMask[d]
  BY DEF SameState, StOf
<1>2. \A x \in Events \ {e} : won'[x] = won[x]
  BY DEF Trigger, IInv, TypeOK, WordTypes
<1>3. ASSUME NEW d \in Coroutines, pc[d] \in {"run", "done"} \/ cur[d] # e
      PROVE  AbsStill(d)
  <2>1. CASE pc[d] \in {"run", "done"}
    BY <1>1, <2>1 DEF SameState, CauseOf, AbsStill
  <2>2. CASE pc[d] \notin {"run", "done"}
    <3>1. cur[d] \in Events \ {e} /\ cur'[d] = cur[d]
      BY <1>3, <2>2, HasEvent DEF SameState
    <3> QED  BY <1>1, <1>2, <2>2, <3>1 DEF SameState, CauseOf, AbsStill
  <2> QED  BY <2>1, <2>2
<1>4. CASE \A d \in Coroutines : pc[d] \in {"run", "done"} \/ cur[d] # e
  BY <1>3, <1>4, AbsStutter
<1>5. CASE \E c \in Coroutines : pc[c] \notin {"run", "done"} /\ cur[c] = e
  <2>1. PICK c \in Coroutines : pc[c] \notin {"run", "done"} /\ cur[c] = e
    BY <1>5
  <2>2. \A d \in Coroutines \ {c} : AbsStill(d)
    <3>1. \A d \in Coroutines \ {c} : cur[d] # e
      BY <2>1 DEF FiledOwn
    <3> QED  BY <1>3, <3>1
  <2>3. CauseOf(c) = won[e] /\ CauseOf(c)' = won'[e]
    BY <2>1 DEF SameState, CauseOf
  <2>4. CASE phase[e] \in LatchPhases \cup CompletePhases
    <3>1. won[e] = NoFlag
      BY <2>4 DEF IInv, MaskWon, LatchPhases, CompletePhases
    <3>2. won'[e] = f
      BY <2>4, <3>1 DEF Trigger, IInv, TypeOK, WordTypes
    <3>3. queued[c] = 0
      BY <2>1, <2>4 DEF IInv, TypeOK, CoTypes, Delivered, LatchPhases, CompletePhases
    <3>4. StOf(c) = "waiting"
      BY <2>1, <3>3 DEF StOf
    <3>5. AbsMove(c)
      BY <1>1, <2>3, <3>1, <3>2, <3>4 DEF AbsMove
    <3> QED  BY <2>2, <3>5, AbsStep
  <2>5. CASE phase[e] \notin LatchPhases \cup CompletePhases
    <3>1. won' = won
      BY <2>5 DEF Trigger
    <3>2. AbsMove(c)
      BY <1>1, <2>3, <3>1 DEF AbsMove
    <3> QED  BY <2>2, <3>2, AbsStep
  <2> QED  BY <2>4, <2>5
<1> QED  BY <1>4, <1>5

\* The steps inside a wait: they decide it or stutter.
LEMMA InsideAbs ==
    ASSUME IInv, IInv', FiledOwn,
           \/ \E c \in Coroutines :
                \/ PreCancelled(c) \/ RegistAwaitEvent(c) \/ RegistArming(c) \/ RegistArmed(c)
                \/ TrackWaiter(c) \/ CommitPark(c) \/ RequestCancelSet(c) \/ CancelStep(c)
           \/ \E t \in tasks : CompleteCancelFd(t) \/ CompleteFinal(t)
           \/ \E e \in Events : LoopTrigger(e) \/ NotifyCustomEvent(e)
           \/ \E k \in Closers :
                \/ \E f \in Fds : BeginFdClose(k, f)
                \/ CloseStep(k)
                \/ WaitFdCloseReady(k)
    PROVE  [OneShot!Next]_(OneShot!absVars)
<1>1. ASSUME NEW c \in Coroutines,
             \/ PreCancelled(c) \/ RegistArming(c) \/ RegistArmed(c) \/ CommitPark(c)
             \/ RequestCancelSet(c) \/ RequestCancelRead(c)
      PROVE  SameState /\ UNCHANGED won
  BY <1>1 DEF PreCancelled, RegistArming, RegistArmed, CommitPark, RequestCancelSet,
              RequestCancelRead, SameState, IInv, TypeOK, CoTypes
<1>2. ASSUME NEW c \in Coroutines, RegistAwaitEvent(c) \/ TrackWaiter(c)
      PROVE  /\ SameState
             /\ UNCHANGED won \/ \E f \in Flags : Trigger(await[c], f)
             /\ await[c] \in Events
  <2>1. pc[c] \in {"yield", "track"} /\ await[c] \in Events
    BY <1>2, AwaitsEvent DEF RegistAwaitEvent, TrackWaiter, IInv, TypeOK
  <2>2. SameState
    BY <1>2 DEF RegistAwaitEvent, TrackWaiter, SameState, IInv, TypeOK, CoTypes
  <2>3. UNCHANGED won \/ \E f \in Flags : Trigger(await[c], f)
    BY <1>2 DEF RegistAwaitEvent, TrackWaiter, Flags
  <2> QED  BY <2>1, <2>2, <2>3
<1>3. ASSUME NEW c \in Coroutines, RequestCancelTrigger(c)
      PROVE  SameState /\ cref[c] \in Events /\ Trigger(cref[c], "CANCELLED")
  BY <1>3 DEF RequestCancelTrigger, SameState, IInv, TypeOK, CallerTypes, AwaitOwn
<1>4. ASSUME NEW t \in tasks, CompleteCancelFd(t) \/ CompleteFinal(t)
      PROVE  SameState /\ UNCHANGED won
  BY <1>4 DEF CompleteCancelFd, CompleteFinal, SameState
<1>5. ASSUME NEW e \in Events, LoopTrigger(e) \/ NotifyCustomEvent(e)
      PROVE  SameState /\ \E f \in Flags : Trigger(e, f)
  BY <1>5 DEF LoopTrigger, NotifyCustomEvent, SameState, IInv, TypeOK, EventTypes, Sources, Flags
<1>6. ASSUME NEW k \in Closers,
             \/ \E f \in Fds : BeginFdClose(k, f)
             \/ SysClose(k) \/ EndFdClose(k) \/ WaitFdCloseReady(k)
      PROVE  SameState /\ UNCHANGED won
  BY <1>6 DEF BeginFdClose, SysClose, EndFdClose, WaitFdCloseReady, SameState
<1>7. ASSUME NEW k \in Closers, CloseWake(k)
      PROVE  SameState /\ (UNCHANGED won \/ \E e \in Events : Trigger(e, "CLOSED"))
  BY <1>7 DEF CloseWake, SameState, IInv, TypeOK, CallerTypes
<1>8. "CANCELLED" \in Flags /\ "CLOSED" \in Flags
  BY DEF Flags
<1> QED
  BY <1>1, <1>2, <1>3, <1>4, <1>5, <1>6, <1>7, <1>8, QuietAbs, TriggerAbs
     DEF CancelStep, CloseStep

\* StartWait begins a wait that nothing has decided.
LEMMA StartWaitAbs ==
    ASSUME IInv, IInv', FiledOwn, NEW c \in Coroutines, NEW e \in Events,
           NEW w \in Waits, StartWait(c, e, w)
    PROVE  [OneShot!Next]_(OneShot!absVars)
<1>1. /\ pc[c] = "run" /\ phase[e] = "FREE" /\ queued[c] = 0 /\ won[e] = NoFlag
      /\ pc'[c] = "init" /\ cur'[c] = e
      /\ \A d \in Coroutines \ {c} : pc'[d] = pc[d] /\ cur'[d] = cur[d]
      /\ UNCHANGED <<won, queued, lastMask>>
  BY DEF StartWait, IInv, TypeOK, CoTypes, PcPhase, MaskWon
<1>2. \A d \in Coroutines \ {c} : AbsStill(d)
  BY <1>1 DEF AbsStill, StOf, CauseOf
<1>3. StOf(c) = "running" /\ StOf(c)' = "waiting" /\ CauseOf(c) = NoFlag /\ CauseOf(c)' = NoFlag
  BY <1>1 DEF StOf, CauseOf
<1>4. AbsMove(c)
  BY <1>1, <1>3 DEF AbsMove
<1> QED  BY <1>2, <1>4, AbsStep

\* A wait that cannot be established fails, one that throws ends the coroutine;
\* the last outcome is left alone.
LEMMA GiveUpAbs ==
    ASSUME IInv, IInv', NEW c \in Coroutines,
           pc[c] \in {"init", "create", "listen"}, pc' = [pc EXCEPT ![c] = pc'[c]],
           pc'[c] \in {"run", "done"}, UNCHANGED <<won, queued, cur, lastMask>>
    PROVE  [OneShot!Next]_(OneShot!absVars)
<1>1. queued[c] = 0 /\ \A d \in Coroutines \ {c} : pc'[d] = pc[d]
  BY DEF IInv, TypeOK, CoTypes, PcPhase, WaitingAt
<1>2. \A d \in Coroutines \ {c} : AbsStill(d)
  BY <1>1 DEF AbsStill, StOf, CauseOf
<1>3. StOf(c) = "waiting" /\ StOf(c)' \in {"running", "ended"} /\ CauseOf(c)' = NoFlag
  BY <1>1 DEF StOf, CauseOf
<1>4. AbsMove(c)
  BY <1>3 DEF AbsMove
<1> QED  BY <1>2, <1>4, AbsStep

\* Establishing and registering a wait decides it, gives it up or stutters.
LEMMA EstablishAbs ==
    ASSUME IInv, IInv', FiledOwn, NEW c \in Coroutines,
           InitFdEvent(c) \/ CreateEvent(c) \/ RegistListen(c) \/ OnException(c)
    PROVE  [OneShot!Next]_(OneShot!absVars)
<1>0. await[c] \in Events /\ pc[c] \in {"init", "create", "listen"}
  BY AwaitsEvent DEF InitFdEvent, CreateEvent, RegistListen, OnException, IInv, TypeOK
<1>1. UNCHANGED <<queued, cur, lastMask>>
  BY DEF InitFdEvent, CreateEvent, RegistListen, OnException
<1>2. CASE pc'[c] \in {"run", "done"}
  <2>1. pc' = [pc EXCEPT ![c] = pc'[c]] /\ UNCHANGED won
    BY <1>2 DEF InitFdEvent, CreateEvent, RegistListen, OnException, Abandon, IInv, TypeOK,
                CoTypes
  <2> QED  BY <1>0, <1>1, <1>2, <2>1, GiveUpAbs
<1>3. CASE pc'[c] \notin {"run", "done"}
  <2>1. \A d \in Coroutines \ {c} : pc'[d] = pc[d]
    BY DEF InitFdEvent, CreateEvent, RegistListen, OnException, Abandon, IInv, TypeOK, CoTypes
  <2>2. SameState
    BY <1>0, <1>1, <1>3, <2>1 DEF SameState
  <2>3. UNCHANGED won \/ Trigger(await[c], "CLOSED")
    BY DEF InitFdEvent, CreateEvent, RegistListen, OnException
  <2>4. "CLOSED" \in Flags
    BY DEF Flags
  <2> QED  BY <1>0, <2>2, <2>3, <2>4, QuietAbs, TriggerAbs
<1> QED  BY <1>2, <1>3

\* OnCoPollEvent wakes the waiter, with the cause that decided the wait.
LEMMA DeliverAbs ==
    ASSUME IInv, IInv', NEW t \in tasks, OnCoPollEvent(t)
    PROVE  [OneShot!Next]_(OneShot!absVars)
<1>1. PICK c \in Coroutines : c = owner[t.ev]
  BY DEF IInv, TasksAlone
<1>2. /\ t.ev \in Events /\ phase[t.ev] = "FINAL" /\ t.mask = mask[t.ev]
      /\ await[c] = t.ev /\ cur[c] = t.ev
  BY <1>1 DEF OnCoPollEvent, IInv, TypeOK, WordTypes, Task, TasksAlone, AwaitOwn
<1>3. pc[c] = "parked" /\ queued[c] = 0
  BY <1>2 DEF IInv, TypeOK, CoTypes, PC, PcPhase, WaitingAt
<1>4. won[t.ev] = t.mask /\ won[t.ev] \in Flags
  BY <1>2 DEF IInv, MaskWon
<1>5. /\ UNCHANGED <<pc, cur, won>>
      /\ queued'[c] = 1 /\ lastMask'[c] = t.mask
      /\ \A d \in Coroutines \ {c} : queued'[d] = queued[d] /\ lastMask'[d] = lastMask[d]
  BY <1>1, <1>3 DEF OnCoPollEvent, IInv, TypeOK, CoTypes, LastTypes
<1>6. \A d \in Coroutines \ {c} : AbsStill(d)
  BY <1>5 DEF AbsStill, StOf, CauseOf
<1>7. StOf(c) = "waiting" /\ StOf(c)' = "ready" /\ CauseOf(c) = t.mask /\ CauseOf(c)' = t.mask
  BY <1>2, <1>3, <1>4, <1>5 DEF StOf, CauseOf
<1>8. CauseOf(c) # NoFlag
  BY <1>4, <1>7 DEF Flags, NoFlag
<1>9. AbsMove(c)
  BY <1>5, <1>7, <1>8 DEF AbsMove
<1> QED  BY <1>6, <1>9, AbsStep

\* Resume lets a ready waiter run.
LEMMA ResumeAbs ==
    ASSUME IInv, IInv', NEW c \in Coroutines, Resume(c)
    PROVE  [OneShot!Next]_(OneShot!absVars)
<1>1. pc[c] = "parked" /\ queued[c] = 1
  BY DEF Resume, IInv, TypeOK, CoTypes, PC, PcPhase, WaitingAt
<1>2. /\ pc'[c] = "run" /\ UNCHANGED <<won, cur, lastMask>>
      /\ \A d \in Coroutines \ {c} : pc'[d] = pc[d] /\ queued'[d] = queued[d]
  BY DEF Resume, IInv, TypeOK, CoTypes
<1>3. \A d \in Coroutines \ {c} : AbsStill(d)
  BY <1>2 DEF AbsStill, StOf, CauseOf
<1>4. StOf(c) = "ready" /\ StOf(c)' = "running" /\ CauseOf(c)' = NoFlag
  BY <1>1, <1>2 DEF StOf, CauseOf
<1>5. AbsMove(c)
  BY <1>2, <1>4 DEF AbsMove
<1> QED  BY <1>3, <1>5, AbsStep

\* CoPollEvent implements the one-shot wait: it is decided once, by the first
\* accepted Trigger, delivered once with that mask, and resumed once.
THEOREM OneShotSafety == Spec => OneShot!Spec
<1>1. Init => OneShot!Init
  <2> SUFFICES ASSUME Init PROVE OneShot!Init
    OBVIOUS
  <2>1. \A c \in Coroutines : StOf(c) = "running" /\ CauseOf(c) = NoFlag
    BY DEF Init, StOf, CauseOf
  <2>2. /\ absSt = [c \in Coroutines |-> "running"]
        /\ absCause = [c \in Coroutines |-> NoFlag]
    BY <2>1, Mapping
  <2> QED  BY <2>2 DEF Init, OneShot!Init
<1>2. /\ IInv /\ IInv' /\ ClaimAlone /\ StaleInv /\ [Next]_vars
      => [OneShot!Next]_(OneShot!absVars)
  <2> SUFFICES ASSUME IInv, IInv', StaleInv, [Next]_vars
               PROVE  [OneShot!Next]_(OneShot!absVars)
    OBVIOUS
  <2>0. FiledOwn
    BY DEF StaleInv
  <2>1. CASE UNCHANGED vars
    BY <2>1, QuietAbs DEF vars, SameState
  <2>2. ASSUME NEW c \in Coroutines, NEW e \in Events, NEW w \in Waits, StartWait(c, e, w)
        PROVE  [OneShot!Next]_(OneShot!absVars)
    BY <2>0, <2>2, StartWaitAbs
  <2>3. ASSUME NEW c \in Coroutines,
               InitFdEvent(c) \/ CreateEvent(c) \/ RegistListen(c) \/ OnException(c)
        PROVE  [OneShot!Next]_(OneShot!absVars)
    BY <2>0, <2>3, EstablishAbs
  <2>4. ASSUME NEW c \in Coroutines, Resume(c)
        PROVE  [OneShot!Next]_(OneShot!absVars)
    BY <2>4, ResumeAbs
  <2>5. ASSUME NEW t \in tasks, OnCoPollEvent(t)
        PROVE  [OneShot!Next]_(OneShot!absVars)
    BY <2>5, DeliverAbs
  <2>6. CASE \/ \E c \in Coroutines :
                  \/ PreCancelled(c) \/ RegistAwaitEvent(c) \/ RegistArming(c)
                  \/ RegistArmed(c) \/ TrackWaiter(c) \/ CommitPark(c)
                  \/ RequestCancelSet(c) \/ CancelStep(c)
             \/ \E t \in tasks : CompleteCancelFd(t) \/ CompleteFinal(t)
             \/ \E e \in Events : LoopTrigger(e) \/ NotifyCustomEvent(e)
             \/ \E k \in Closers :
                  \/ \E f \in Fds : BeginFdClose(k, f)
                  \/ CloseStep(k)
                  \/ WaitFdCloseReady(k)
    BY <2>0, <2>6, InsideAbs
  <2> QED
    BY <2>1, <2>2, <2>3, <2>4, <2>5, <2>6 DEF Next, WaitStep, CompleteStep
<1> QED  BY Invariance, Staleness, <1>1, <1>2, PTL DEF Spec, OneShot!Spec
=============================================================================
