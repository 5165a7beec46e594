------------------------------ MODULE CoSelect ------------------------------
(***************************************************************************)
(* sync/CoSelect over buffered channels: Run tries its cases in order; if  *)
(* none is ready it suspends with a callback that registers a watcher with *)
(* every channel and tries again, tries once more after the wakeup, and    *)
(* removes the watchers.  Each watch, try and unwatch is a section of its  *)
(* own under the channel's lock.                                           *)
(***************************************************************************)
EXTENDS Chan

CONSTANT Cases  \* m_cases of each coroutine that selects: <<"read" | "write", channel>>

\* Run refuses to start without a case (Assert(!m_cases.empty())).
ASSUME CasesAssumption ==
    /\ \A c \in DOMAIN Cases :
         /\ Cases[c] \in Seq({"read", "write"} \X Chans) /\ Len(Cases[c]) > 0
         /\ \A i \in DOMAIN Cases[c] : Max[Cases[c][i][2]] > 0
    /\ \A U \in Scenarios : \A u \in U : u[2] \in Selects => u[1] \in DOMAIN Cases

VARIABLES
    round,  \* the _TryAll under way: first, callback, again
    at,     \* index of the case being watched, tried or unwatched
    hit,    \* index of the case found ready (cb_index, index), 0 for none
    done    \* history: channel operations this Run has performed

selVars == <<round, at, hit, done>>
selectAll == <<chanAll, selVars>>

SelectInit ==
    /\ ChanInit
    /\ round = [c \in ChanCos |-> "first"]
    /\ at = [c \in ChanCos |-> 1]
    /\ hit = [c \in ChanCos |-> 0]
    /\ done = [c \in ChanCos |-> 0]

SelectTypeOK ==
    /\ ChanTypeOK
    /\ chanPc \in [ChanCos -> {"idle", "lock", "relock", "bind", "callback", "parked", "release",
                               "try", "take", "drop", "tried", "unwatch"}]
    /\ round \in [ChanCos -> {"first", "callback", "again"}]
    /\ at \in [ChanCos -> Nat \ {0}] /\ hit \in [ChanCos -> Nat]
    /\ done \in [ChanCos -> Nat]

Case(c) == Cases[c][at[c]]

-----------------------------------------------------------------------------
\* Run is called with a timeout, with a default or with neither.
Run(c, o) ==
    /\ \E ch \in Chans : <<c, o, ch>> \in uses /\ o \in Selects
    /\ chanPc[c] = "idle"
    /\ call' = [call EXCEPT ![c].op = o]
    /\ Goto(c, "try")
    /\ UNCHANGED <<chanVars, selVars, wake, ahead, chanCancel>>

\* The case at[c] is ready (result 0 or -1): _TryAll ends.
Ready(c) ==
    /\ hit' = [hit EXCEPT ![c] = at[c]]
    /\ Goto(c, "tried")
    /\ UNCHANGED at

\* It is not (result -2): the next one, or the end.
NotReady(c) ==
    /\ IF at[c] < Len(Cases[c])
       THEN at' = [at EXCEPT ![c] = @ + 1] /\ Goto(c, "try")
       ELSE Goto(c, "tried") /\ UNCHANGED at
    /\ UNCHANGED hit

\* A read case: TryRead up to the flag.  A flag held by somebody else makes the
\* case not ready, whatever is in the queue.
TryReadCase(c) ==
    LET ch == Case(c)[2]
    IN  /\ chanPc[c] = "try" /\ Case(c)[1] = "read"
        /\ \/ closed[ch] /\ Ready(c) /\ UNCHANGED reading
           \/ ~closed[ch] /\ reading[ch] /\ NotReady(c) /\ UNCHANGED reading
           \/ /\ ~closed[ch] /\ ~reading[ch]
              /\ reading' = [reading EXCEPT ![ch] = TRUE]
              /\ Goto(c, "take")
              /\ UNCHANGED <<at, hit>>
        /\ UNCHANGED <<items, refs, closed, conds, rwatch, wwatch,
                       call, wake, ahead, chanCancel, round, done>>

\* The rest of TryRead: the element, under the lock.
TakeCase(c) ==
    LET ch == Case(c)[2]
    IN  /\ chanPc[c] = "take"
        /\ IF items[ch] > 0
           THEN /\ Take(ch, "TryRead", 1)
                /\ hit' = [hit EXCEPT ![c] = at[c]]
                /\ done' = [done EXCEPT ![c] = @ + 1]
           ELSE UNCHANGED <<items, refs, closed, conds, rwatch, wwatch, wake, ahead, hit, done>>
        /\ Goto(c, "drop")
        /\ UNCHANGED <<reading, call, chanCancel, round, at>>

\* ... and the reset of the flag.
DropCase(c) ==
    /\ chanPc[c] = "drop"
    /\ reading' = [reading EXCEPT ![Case(c)[2]] = FALSE]
    /\ IF hit[c] = at[c] THEN Ready(c) ELSE NotReady(c)
    /\ UNCHANGED <<items, refs, closed, conds, rwatch, wwatch,
                   call, wake, ahead, chanCancel, round, done>>

\* A write case: TryWrite.
TryWriteCase(c) ==
    LET ch == Case(c)[2]
    IN  /\ chanPc[c] = "try" /\ Case(c)[1] = "write"
        /\ IF ~closed[ch] /\ ~Full(ch)
           THEN /\ items' = [items EXCEPT ![ch] = @ + 1]
                /\ wake' = IF reading[ch] \/ rwatch[ch] # {}
                           THEN Decided(EnableRead(ch), "notify") ELSE wake
                /\ done' = [done EXCEPT ![c] = @ + 1]
           ELSE UNCHANGED <<items, wake, done>>
        /\ IF closed[ch] \/ ~Full(ch) THEN Ready(c) ELSE NotReady(c)
        /\ UNCHANGED <<refs, closed, reading, conds, rwatch, wwatch,
                       call, ahead, chanCancel, round>>

\* A _TryAll has ended.  The one in the callback notifies its own waiter if it
\* found something; a cancel requested before the suspension decides it too.
Tried(c) ==
    /\ chanPc[c] = "tried"
    /\ CASE round[c] = "callback" ->
              /\ wake' = IF hit[c] > 0 /\ Open(c) THEN [wake EXCEPT ![c] = "notify"] ELSE wake
              /\ Goto(c, "parked")
              /\ UNCHANGED at
         [] OTHER ->
              /\ IF round[c] = "first" /\ hit[c] = 0 /\ call[c].op # "Select(default)"
                 THEN Goto(c, "bind") ELSE Goto(c, "unwatch")
              /\ at' = [at EXCEPT ![c] = 1]
              /\ UNCHANGED wake
    /\ UNCHANGED <<chanVars, call, ahead, chanCancel, round, hit, done>>

\* The wait could not be registered: Run ignores that and tries again.
SelectBindFails(c) ==
    /\ chanPc[c] = "bind" /\ call[c].op \in Selects
    /\ round' = [round EXCEPT ![c] = "again"]
    /\ Goto(c, "try")
    /\ UNCHANGED <<chanVars, call, wake, ahead, chanCancel, at, hit, done>>

\* The callback registers the watchers one by one, then tries all cases.
Watch(c) ==
    LET ch == Case(c)[2]
        last == at[c] = Len(Cases[c])
    IN  /\ chanPc[c] = "callback" /\ call[c].op \in Selects
        /\ IF Case(c)[1] = "read"
           THEN rwatch' = [rwatch EXCEPT ![ch] = @ \cup {c}] /\ UNCHANGED wwatch
           ELSE wwatch' = [wwatch EXCEPT ![ch] = @ \cup {c}] /\ UNCHANGED rwatch
        /\ wake' = IF Open(c) /\ chanCancel[c] THEN [wake EXCEPT ![c] = "cancel"] ELSE wake
        /\ at' = [at EXCEPT ![c] = IF last THEN 1 ELSE @ + 1]
        /\ round' = [round EXCEPT ![c] = "callback"]
        /\ IF last THEN Goto(c, "try") ELSE UNCHANGED chanPc
        /\ UNCHANGED <<items, refs, closed, reading, conds, call, ahead, chanCancel, hit, done>>

\* The coroutine goes on: what the callback found counts, otherwise the cases
\* are tried a last time.
ResumeForgetsHit(c) ==  \* mutant
    /\ chanPc[c] = "parked" /\ ~Open(c) /\ call[c].op \in Selects
    /\ wake' = [wake EXCEPT ![c] = "unbound"]
    /\ round' = [round EXCEPT ![c] = "again"]
    /\ at' = [at EXCEPT ![c] = 1]
    /\ Goto(c, "try")
    /\ UNCHANGED <<chanVars, call, ahead, chanCancel, hit, done>>
ResumeSelect(c) ==
    /\ chanPc[c] = "parked" /\ ~Open(c) /\ call[c].op \in Selects
    /\ wake' = [wake EXCEPT ![c] = "unbound"]
    /\ round' = [round EXCEPT ![c] = "again"]
    /\ at' = [at EXCEPT ![c] = 1]
    /\ Goto(c, IF hit[c] > 0 THEN "unwatch" ELSE "try")
    /\ UNCHANGED <<chanVars, call, ahead, chanCancel, hit, done>>

\* The watchers are removed one by one; Run returns.
Unwatch(c) ==
    LET ch == Case(c)[2]
        last == at[c] = Len(Cases[c])
    IN  /\ chanPc[c] = "unwatch"
        /\ IF Case(c)[1] = "read"
           THEN rwatch' = [rwatch EXCEPT ![ch] = @ \ {c}] /\ UNCHANGED wwatch
           ELSE wwatch' = [wwatch EXCEPT ![ch] = @ \ {c}] /\ UNCHANGED rwatch
        /\ IF last
           THEN /\ Return(c)
                /\ at' = [at EXCEPT ![c] = 1] /\ round' = [round EXCEPT ![c] = "first"]
                /\ hit' = [hit EXCEPT ![c] = 0] /\ done' = [done EXCEPT ![c] = 0]
           ELSE at' = [at EXCEPT ![c] = @ + 1] /\ UNCHANGED <<chanPc, call, round, hit, done>>
        /\ UNCHANGED <<items, refs, closed, reading, conds, wake, ahead, chanCancel>>

-----------------------------------------------------------------------------
SelectStep(c) ==
    \/ TryReadCase(c) \/ TakeCase(c) \/ DropCase(c) \/ TryWriteCase(c)
    \/ Tried(c) \/ SelectBindFails(c) \/ Watch(c) \/ ResumeSelect(c) \/ Unwatch(c)

Progress(c) == (ChanStep(c) /\ UNCHANGED selVars) \/ SelectStep(c)

SelectNext ==
    /\ \E c \in ChanCos :
        \/ Progress(c)
        \/ Environment(c) /\ UNCHANGED selVars
        \/ \E o \in Selects : Run(c, o)
    /\ UNCHANGED uses

SelectSpec == SelectInit /\ [][SelectNext]_selectAll

\* A coroutine that is not suspended, and one whose wait is decided, is run.
SelectFairness == \A c \in ChanCos : WF_selectAll(Progress(c) /\ UNCHANGED uses)

-----------------------------------------------------------------------------
(* Properties.                                                              *)

\* The call u of the scenario reads ch, or selects with a read case on it.
MayRead(u, ch) ==
    \/ u[2] \in Reads /\ u[3] = ch
    \/ u[2] \in Selects /\ \E i \in DOMAIN Cases[u[1]] : Cases[u[1]][i] = <<"read", ch>>

SoleReader(c, ch) == \A u \in uses : MayRead(u, ch) => u[1] = c

\* A case that a suspended select has nothing to expect of.
Blocked(c, case) ==
    LET ch == case[2]
    IN  /\ ~closed[ch]
        /\ case[1] = "write" => Full(ch)
        /\ case[1] = "read" /\ SoleReader(c, ch) => items[ch] = 0

\* A select that is suspended and that nobody has woken has no ready case, on a
\* channel that nobody else reads.  (With a second reader this is not so: the
\* try in the callback fails on m_is_reading while that reader, which found the
\* queue empty before the element came, has yet to reset the flag; the reset
\* notifies nobody, and the select sleeps on the element.)
SelectNotStranded ==
    \A c \in ChanCos :
        call[c].op \in Selects /\ chanPc[c] = "parked" /\ Open(c)
            => \A i \in DOMAIN Cases[c] : Blocked(c, Cases[c][i])

\* One Run performs at most one channel operation, and reports its case if it
\* has performed one, also when the operation happened in the callback and the
\* wait ended by a timeout, a cancel or somebody else's notify.
SelectOnce ==
    \A c \in ChanCos :
        /\ done[c] <= 1
        /\ call[c].op \in Selects /\ chanPc[c] = "unwatch" /\ done[c] = 1 => hit[c] > 0

Involved(c, ch) ==
    \/ call[c].op \in Reads \cup Writes /\ call[c].ch = ch
    \/ call[c].op \in Selects /\ \E i \in DOMAIN Cases[c] : Cases[c][i][2] = ch

\* Closing a channel ends every call on it, and every select with a case on it:
\* readers that find it empty, writers that wait for room or for a reader, and
\* selects, wherever they were when the close happened.  (Involved stays true until
\* the call returns, so "again and again not involved" says that it returns.)
CloseEndsCalls ==
    \A c \in ChanCos :
        []<>(\A ch \in Chans : closed[ch] => ~Involved(c, ch))

\* Channels and select (__TChan.hpp, CoSelect.hpp): no reader, writer or select
\* is left suspended although it could go on, and a select performs at most one
\* of its operations.
ChanSound ==
    /\ SelectTypeOK
    /\ ReaderNotStranded /\ WriterNotStranded /\ SelectNotStranded
    /\ SelectOnce
=============================================================================
