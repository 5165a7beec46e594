-------------------------------- MODULE Event --------------------------------
(***************************************************************************)
(* pollevent/Event and detail/CoPoller: one Event on the event loop.  Any  *)
(* thread may start it, trigger it or cancel it; completions are queued in *)
(* the io_context and run by the thread that drives it.  A completion      *)
(* checks under the lock that its round is still the current one, and      *)
(* calls the user's callback without the lock.                             *)
(*                                                                         *)
(* External, from how the code uses it: io_context.  A wait ends by moving *)
(* to the queue; cancel() drops what still waits and leaves what is        *)
(* queued.                                                                 *)
(***************************************************************************)
EXTENDS Integers, FiniteSets

CONSTANTS MaxRounds, MaxPosts  \* bounds: StartListen/CancelListen; triggers under way

ASSUME EventAssumption == MaxRounds \in Nat \ {0} /\ MaxPosts \in Nat

VARIABLES
    listens,    \* listen_events: [fd : subset of read, write; timer, persist : BOOLEAN]
    life,       \* new, failed, held, deferred (CoPoller's list), destroyed
    dupFd,      \* m_internal_fd is open
    objects,    \* m_sd and m_timer exist
    registered, \* the callback is in the registry
    round,      \* m_round
    armed,      \* waits in the io_context: <<source, round>>
    completed,  \* completed waits, queued: <<source, round>>
    posts,      \* triggers under way, by round
    taking,     \* CancelListen between its lock and TakeEventCallback
    inPoll,     \* m_in_poll: the driver is inside of StartLoop
    handler     \* the completion it runs: idle, or [at, source, round]

\* History: a trigger or the timer has ended the waits of the round; the handler
\* was past its check when the event was restarted or cancelled; a callback ran
\* for an older round without that excuse.
VARIABLES ended, excused, late

asioVars == <<dupFd, objects, registered, armed, completed, posts>>
evHist == <<ended, excused, late>>
evVars == <<listens, life, asioVars, round, taking, inPoll, handler, evHist>>

WaitKinds == {"read", "write", "timer"}
Idle == [at |-> "idle", source |-> "timer", round |-> 0]

EventTypeOK ==
    /\ life \in {"new", "failed", "held", "deferred", "destroyed"}
    /\ round \in 0 .. MaxRounds
    /\ armed \subseteq WaitKinds \X (1 .. MaxRounds)
    /\ completed \subseteq WaitKinds \X (1 .. MaxRounds)
    /\ posts \in [0 .. MaxRounds -> 0 .. MaxPosts]
    /\ handler.at \in {"idle", "checked", "copied", "ran"}
    /\ handler.at # "idle" => inPoll

EventInit ==
    /\ listens \in [fd : SUBSET {"read", "write"}, timer : BOOLEAN, persist : BOOLEAN]
    /\ life = "new" /\ dupFd = FALSE /\ objects = FALSE /\ registered = FALSE
    /\ round = 0 /\ armed = {} /\ completed = {}
    /\ posts = [r \in 0 .. MaxRounds |-> 0]
    /\ taking = FALSE /\ inPoll = FALSE /\ handler = Idle
    /\ ended = FALSE /\ excused = FALSE /\ late = FALSE

-----------------------------------------------------------------------------
\* The constructor: dup, descriptor, timer, then the callback; what fails gives
\* back what was made.
KeepsDup(stage) == stage \in {"descriptor", "timer"} /\ listens.fd # {}  \* mutant
DupAfterFailure(stage) == FALSE
ConstructEvent ==
    /\ life = "new"
    /\ \/ /\ life' = "held" /\ dupFd' = (listens.fd # {})
          /\ objects' = TRUE /\ registered' = TRUE
       \/ /\ life' = "failed"
          /\ \E stage \in {"dup", "descriptor", "timer"} : dupFd' = DupAfterFailure(stage)
          /\ UNCHANGED <<objects, registered>>
    /\ UNCHANGED <<listens, round, armed, completed, posts, taking, inPoll, handler, evHist>>

\* StartListen: a new round; the waits of the old one are withdrawn, and those
\* of the new one armed.  An event without descriptor gets its timer here.
Arming(r, timed) ==
    (IF objects THEN listens.fd \X {r} ELSE {})
    \cup (IF timed /\ ((objects /\ listens.timer) \/ listens.fd = {}) THEN {<<"timer", r>>} ELSE {})
StartListen(timed) ==
    /\ life = "held" /\ round < MaxRounds
    /\ round' = round + 1
    /\ armed' = Arming(round + 1, timed)
    /\ ended' = FALSE
    /\ excused' = (handler.at \in {"checked", "copied"})
    /\ UNCHANGED <<listens, life, dupFd, objects, registered, completed, posts, taking, inPoll,
                   handler, late>>

\* TriggerEvent: ends the waits, keeps the round, and posts.
TriggerEvent ==
    /\ life = "held" /\ posts[round] < MaxPosts
    /\ armed' = {} /\ ended' = TRUE
    /\ posts' = [posts EXCEPT ![round] = @ + 1]
    /\ UNCHANGED <<listens, life, dupFd, objects, registered, round, completed, taking, inPoll,
                   handler, excused, late>>

\* CancelListen, in its two halves.
CancelListen ==
    /\ round < MaxRounds /\ ~taking
    /\ round' = round + 1
    /\ armed' = {} /\ objects' = FALSE /\ dupFd' = FALSE
    /\ taking' = TRUE
    /\ ended' = TRUE
    /\ excused' = (handler.at \in {"checked", "copied"})
    /\ UNCHANGED <<listens, registered, completed, posts, inPoll, handler, late>>
UserCancels == life = "held" /\ CancelListen /\ UNCHANGED life
\* Once the callback is out of the registry only one already copied can run.
TakeEventCallback ==
    /\ taking
    /\ taking' = FALSE /\ registered' = FALSE
    /\ excused' = (handler.at = "copied")
    /\ UNCHANGED <<listens, life, dupFd, objects, round, armed, completed, posts, inPoll,
                   handler, ended, late>>

-----------------------------------------------------------------------------
(* The io_context and the thread that drives it.                            *)

Completes(w) ==
    /\ w \in armed
    /\ armed' = armed \ {w} /\ completed' = completed \cup {w}
    /\ UNCHANGED <<listens, life, dupFd, objects, registered, round, posts, taking, inPoll,
                   handler, evHist>>

\* The completion takes the lock: outdated, or released, it ends; otherwise it
\* withdraws the other kind of wait (and may meet it in the queue: both are then
\* delivered, and CoPollEvent takes the first).
AnyRound(w) == objects \/ listens.fd = {}  \* mutant
Current(w) == w[2] = round /\ (objects \/ listens.fd = {})
EndsOther(w) ==
    IF w[1] = "timer" THEN {v \in armed : v[1] = "timer"} ELSE {v \in armed : v[1] # "timer"}
OnWaitCompleted(w) ==
    /\ inPoll /\ handler.at = "idle" /\ w \in completed
    /\ completed' = completed \ {w}
    /\ IF Current(w) /\ life # "destroyed"
       THEN /\ handler' = [at |-> "checked", source |-> w[1], round |-> w[2]]
            /\ armed' = EndsOther(w)
            /\ ended' = (ended \/ w[1] = "timer")
            /\ excused' = FALSE
       ELSE UNCHANGED <<handler, armed, ended, excused>>
    /\ UNCHANGED <<listens, life, dupFd, objects, registered, round, posts, taking, inPoll, late>>
OnCustomTriggered(r) ==
    /\ inPoll /\ handler.at = "idle" /\ posts[r] > 0
    /\ posts' = [posts EXCEPT ![r] = @ - 1]
    /\ IF r = round /\ life # "destroyed"
       THEN handler' = [at |-> "checked", source |-> "custom", round |-> r] /\ excused' = FALSE
       ELSE UNCHANGED <<handler, excused>>
    /\ UNCHANGED <<listens, life, dupFd, objects, registered, round, armed, completed, taking,
                   inPoll, ended, late>>

\* CallEventCallback: copy it under the lock of the registry, call it without.
CopyCallback ==
    /\ handler.at = "checked"
    /\ handler' = [handler EXCEPT !.at = IF registered THEN "copied" ELSE "ran"]
    /\ UNCHANGED <<listens, life, asioVars, round, taking, inPoll, evHist>>
RunCallback ==
    /\ handler.at = "copied"
    /\ handler' = [handler EXCEPT !.at = "ran"]
    /\ late' = (late \/ (handler.round # round /\ ~excused))
    /\ UNCHANGED <<listens, life, asioVars, round, taking, inPoll, ended, excused>>
\* A persistent descriptor waits again, unless its round is over.
NeverAgain == FALSE  \* mutant
Again == listens.persist /\ handler.source \in listens.fd /\ handler.round = round /\ objects
HandlerEnds ==
    /\ handler.at = "ran"
    /\ armed' = IF Again THEN armed \cup {<<handler.source, round>>} ELSE armed
    /\ handler' = Idle
    /\ UNCHANGED <<listens, life, dupFd, objects, registered, round, completed, posts, taking,
                   inPoll, ended, excused, late>>

\* CoPoller: the owner hands the event over; the driver destroys it, before it
\* polls (_BeginDrive) or between (FlushDeferredEvents, which does nothing in
\* another thread or inside of a poll).
DeferDestroyEvent ==
    /\ life = "held" /\ ~taking
    /\ life' = "deferred"
    /\ UNCHANGED <<listens, asioVars, round, taking, inPoll, handler, evHist>>
FlushDeferredEvents ==
    /\ life = "deferred" /\ ~inPoll
    /\ CancelListen
    /\ life' = "destroyed"
PollOnce ==
    /\ ~inPoll /\ ~taking /\ life # "deferred"
    /\ inPoll' = TRUE
    /\ UNCHANGED <<listens, life, asioVars, round, taking, handler, evHist>>
PollEnds ==
    /\ inPoll /\ handler.at = "idle"
    /\ inPoll' = FALSE
    /\ UNCHANGED <<listens, life, asioVars, round, taking, handler, evHist>>

EventNext ==
    \/ ConstructEvent \/ (\E timed \in BOOLEAN : StartListen(timed)) \/ TriggerEvent
    \/ UserCancels \/ TakeEventCallback
    \/ \E w \in WaitKinds \X (1 .. MaxRounds) : Completes(w) \/ OnWaitCompleted(w)
    \/ \E r \in 0 .. MaxRounds : OnCustomTriggered(r)
    \/ CopyCallback \/ RunCallback \/ HandlerEnds
    \/ DeferDestroyEvent \/ FlushDeferredEvents \/ PollOnce \/ PollEnds

EventSpec == EventInit /\ [][EventNext]_evVars

-----------------------------------------------------------------------------
(* Properties.                                                              *)

\* Once an event is cancelled, destroyed or started again, completions queued
\* before do not reach the callback; only one that was already past its check
\* may, and after a cancel has returned only one that was already being called.
NoLateDelivery == ~late

\* A constructor that throws, a cancel and the destructor leave no duplicate of
\* the descriptor behind; a live event has one.
DupAccounted == dupFd <=> life \in {"held", "deferred"} /\ objects /\ listens.fd # {}

\* A persistent descriptor event keeps waiting: in its round each source waits,
\* is queued or is being delivered, until the timer or a trigger ends the round.
PersistKeepsWaiting ==
    life = "held" /\ listens.persist /\ objects /\ round > 0 /\ ~ended =>
        \A s \in listens.fd :
            \/ <<s, round>> \in armed \cup completed
            \/ handler.at # "idle" /\ handler.source = s /\ handler.round = round

\* An Event delivers in its own round only, keeps no descriptor it should have
\* closed, and when persistent goes on waiting (Event::OnFdWaitCompleted).
EventSound == EventTypeOK /\ NoLateDelivery /\ DupAccounted /\ PersistKeepsWaiting
=============================================================================
