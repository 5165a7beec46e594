-------------------------------- MODULE Chan --------------------------------
(***************************************************************************)
(* sync/__TChan: the buffered channel Chan<T, Max> and the unbuffered      *)
(* Chan<T, 0>, which inherits from Chan<T, 1> and keeps a second queue.    *)
(*                                                                         *)
(* One step is one section under m_item_queue_mutex or one access to an    *)
(* atomic outside it (m_run_status, m_is_reading).  A wait is a CoWaiter   *)
(* in three steps: the slot is bound, the callback runs once the coroutine *)
(* is switched out, the coroutine is resumed when the wait is decided.     *)
(* From the binding on a Notify, the timer or a cancel may decide it.      *)
(* Elements carry no data: a queue is its length.                          *)
(***************************************************************************)
EXTENDS Integers, Sequences, FiniteSets

CONSTANTS ChanCos, Chans, Dead,
          Max,       \* capacity of each channel, 0 for Chan<T, 0>
          Scenarios, \* sets of calls in use: <<coroutine, operation, channel>>;
                     \* a behaviour keeps to one of them
          MaxQueue,  \* bound on m_enable_write_conds
          MaxRefs    \* bound on the queue of an unbuffered channel

ASSUME ChanAssumption ==
    /\ Dead \notin ChanCos
    /\ IsFiniteSet(ChanCos) /\ Chans # {}
    /\ Max \in [Chans -> Nat]
    /\ \A U \in Scenarios : \A u \in U : u[3] \in Chans
    /\ MaxQueue \in Nat /\ MaxRefs \in Nat

VARIABLES
    uses,            \* the scenario: chosen once
    items,           \* length of m_item_queue
    refs,            \* length of m_item_cache_ref: m_write_idx - m_read_idx
    closed, reading, \* m_run_status = CHAN_CLOSE, m_is_reading
    conds,           \* m_enable_write_conds: a waiting coroutine, or Dead
    rwatch, wwatch,  \* owners of the waiters in m_read_watchers, m_write_watchers
    chanPc, call,        \* program point, and operation and channel, of a coroutine
    wake,            \* what decided the current wait, "none" before that and
                     \* "unbound" outside a wait
    ahead,           \* is_writing_idx - m_read_idx of an unbuffered Write
    chanCancel        \* Coroutine::m_cancel_requested

chanVars == <<items, refs, closed, reading, conds, rwatch, wwatch>>
coVars == <<chanPc, call, wake, ahead, chanCancel>>
chanAll == <<uses, chanVars, coVars>>

Writes == {"Write", "TryWrite", "TryWrite(ms)"}
Reads == {"Read", "TryRead", "TryRead(ms)", "ReadAll"}
Selects == {"Select", "Select(ms)", "Select(default)"}
Unbuffered(ch) == Max[ch] = 0
Size(ch) == IF Unbuffered(ch) THEN 1 ELSE Max[ch]  \* m_max_size

\* Write and Read of Chan<T, 0> work on m_item_cache_ref, everything else on
\* m_item_queue.
OnRefs(o, ch) == Unbuffered(ch) /\ o \in {"Write", "Read"}

\* TryRead(ms), TryWrite(ms) and select have a timer; so has the unbuffered
\* Read, which waits 500 ms at a time.
Timed(c) == \/ call[c].op \in {"TryWrite(ms)", "TryRead(ms)", "Select(ms)"}
            \/ call[c].op = "Read" /\ Unbuffered(call[c].ch)

ChanTypeOK ==
    /\ uses \in Scenarios
    /\ items \in [Chans -> Nat] /\ \A ch \in Chans : items[ch] <= Size(ch)
    /\ refs \in [Chans -> Nat]
    /\ closed \in [Chans -> BOOLEAN] /\ reading \in [Chans -> BOOLEAN]
    /\ conds \in [Chans -> Seq(ChanCos \cup {Dead})]
    /\ rwatch \in [Chans -> SUBSET ChanCos]
    /\ wwatch \in [Chans -> SUBSET ChanCos]
    /\ call \in [ChanCos -> [op : {"none", "Close"} \cup Writes \cup Reads \cup Selects,
                                ch : Chans]]
    /\ wake \in [ChanCos -> {"unbound", "none", "notify", "timeout", "cancel"}]
    /\ ahead \in [ChanCos -> Int]
    /\ chanCancel \in [ChanCos -> BOOLEAN]

NoCall == [op |-> "none", ch |-> CHOOSE ch \in Chans : TRUE]

ChanInit ==
    /\ uses \in Scenarios
    /\ items = [ch \in Chans |-> 0] /\ refs = [ch \in Chans |-> 0]
    /\ closed = [ch \in Chans |-> FALSE]
    /\ reading = [ch \in Chans |-> FALSE]
    /\ conds = [ch \in Chans |-> <<>>]
    /\ rwatch = [ch \in Chans |-> {}] /\ wwatch = [ch \in Chans |-> {}]
    /\ chanPc = [c \in ChanCos |-> "idle"]
    /\ call = [c \in ChanCos |-> NoCall]
    /\ wake = [c \in ChanCos |-> "unbound"]
    /\ ahead = [c \in ChanCos |-> -1]
    /\ chanCancel = [c \in ChanCos |-> FALSE]

-----------------------------------------------------------------------------
(* Waiters.                                                                 *)

\* The slot of c is bound and its wait undecided: a Notify succeeds.
Open(c) == wake[c] = "none"

Decided(cs, by) == [c \in ChanCos |-> IF c \in cs THEN by ELSE wake[c]]

Goto(c, label) == chanPc' = [chanPc EXCEPT ![c] = label]

\* The call returns.
Return(c) ==
    /\ Goto(c, "idle")
    /\ call' = [call EXCEPT ![c] = NoCall]

FullTooLate(ch) == items[ch] > Size(ch)  \* mutant
Full(ch) == items[ch] >= Size(ch)
Empty(o, ch) == IF OnRefs(o, ch) THEN refs[ch] = 0 ELSE items[ch] = 0

\* The coroutines woken by _OnEnableRead: who waits on m_enable_read_cond and
\* the read watchers.
ReadersOf(ch) == {c \in ChanCos : call[c].op \in Reads /\ call[c].ch = ch}
EnableRead(ch) == {c \in ReadersOf(ch) \cup rwatch[ch] : Open(c)}

\* _OnEnableWrite, k times: each pops m_enable_write_conds until one Notify
\* succeeds, then notifies the write watchers.
Live(q) == {i \in DOMAIN q : q[i] # Dead}
NthLive(q, k) == CHOOSE i \in Live(q) : Cardinality({j \in Live(q) : j <= i}) = k
PopOnlyHead(q, k) == IF q = <<>> THEN q ELSE Tail(q)  \* mutant
PopConds(q, k) == IF Cardinality(Live(q)) < k THEN <<>>
                  ELSE SubSeq(q, NthLive(q, k) + 1, Len(q))
Popped(q, k) == {q[i] : i \in {j \in Live(q) : j <= Len(q) - Len(PopConds(q, k))}}
EnableWrite(ch, k) ==
    Popped(conds[ch], k) \cup {c \in wwatch[ch] : Open(c)}

\* The entry of a wait that ended otherwise stays in the queue; its Notify
\* returns -1.
Bury(c) == [ch \in Chans |->
              [i \in DOMAIN conds[ch] |-> IF conds[ch][i] = c THEN Dead ELSE conds[ch][i]]]

-----------------------------------------------------------------------------
(* Calls, from the entry to the lock.                                       *)

\* A write, a TryRead or a Close of a closed channel returns at once; so does
\* a read while another one holds m_is_reading.
Enter(c, o, ch) ==
    /\ <<c, o, ch>> \in uses /\ o \in Writes \cup Reads \cup {"Close"}
    /\ chanPc[c] = "idle"
    /\ o \in Writes \cup {"TryRead", "TryRead(ms)", "Close"} => ~closed[ch]
    /\ o \in Reads => ~reading[ch]
    /\ OnRefs(o, ch) /\ o = "Write" =>
         refs[ch] + Cardinality({w \in ChanCos : chanPc[w] = "lock" /\ call[w].op = "Write"}) < MaxRefs
    /\ reading' = [reading EXCEPT ![ch] = @ \/ o \in Reads]
    /\ call' = [call EXCEPT ![c] = [op |-> o, ch |-> ch]]
    /\ ahead' = [ahead EXCEPT ![c] = -1]
    /\ Goto(c, "lock")
    /\ UNCHANGED <<items, refs, closed, conds, rwatch, wwatch, wake, chanCancel>>

PushForgetsWatchers(c, ch) ==  \* mutant
    /\ items' = [items EXCEPT ![ch] = @ + 1]
    /\ wake' = IF reading[ch] THEN Decided(EnableRead(ch), "notify") ELSE wake
    /\ Return(c)
    /\ UNCHANGED <<refs, closed, reading, conds, rwatch, wwatch, ahead, chanCancel>>

\* Insert into m_item_queue; the reader is only notified if there is one.
PushItem(c, ch) ==
    /\ items' = [items EXCEPT ![ch] = @ + 1]
    /\ wake' = IF reading[ch] \/ rwatch[ch] # {}
               THEN Decided(EnableRead(ch), "notify") ELSE wake
    /\ Return(c)
    /\ UNCHANGED <<refs, closed, reading, conds, rwatch, wwatch, ahead, chanCancel>>

\* Write, TryWrite and TryWrite(ms) of a buffered channel (and the two tries
\* of an unbuffered one) under the lock.  The state of the channel is looked
\* at again the first time only ("lock"), not after a wait ("relock").
WriteLocked(c) ==
    LET ch == call[c].ch
    IN  /\ call[c].op \in Writes /\ ~OnRefs(call[c].op, ch)
        /\ chanPc[c] \in {"lock", "relock"}
        /\ \/ /\ chanPc[c] = "lock" /\ closed[ch]
              /\ Return(c)
              /\ UNCHANGED <<chanVars, wake, ahead, chanCancel>>
           \/ /\ ~(chanPc[c] = "lock" /\ closed[ch])
              /\ ~Full(ch)
              /\ PushItem(c, ch)
           \/ /\ ~(chanPc[c] = "lock" /\ closed[ch])
              /\ Full(ch)
              /\ \/ call[c].op \in {"TryWrite", "TryWrite(ms)"} /\ Return(c)
                 \/ call[c].op # "TryWrite" /\ Goto(c, "bind") /\ UNCHANGED call
              /\ UNCHANGED <<chanVars, wake, ahead, chanCancel>>

\* Write of an unbuffered channel: the element is queued whatever the state of
\* the channel, and handed over if a reader is there and it is the first.
WriteRefLocked(c) ==
    LET ch == call[c].ch
        handed == reading[ch] /\ refs[ch] = 0
    IN  /\ call[c].op = "Write" /\ OnRefs("Write", ch) /\ chanPc[c] = "lock"
        /\ refs' = [refs EXCEPT ![ch] = @ + 1]
        /\ ahead' = [ahead EXCEPT ![c] = refs[ch]]
        /\ IF handed
           THEN wake' = Decided(EnableRead(ch), "notify") /\ Return(c)
           ELSE Goto(c, "bind") /\ UNCHANGED <<wake, call>>
        /\ UNCHANGED <<items, closed, reading, conds, rwatch, wwatch, chanCancel>>

\* Take k elements and wake a writer for each.
Take(ch, o, k) ==
    /\ IF OnRefs(o, ch)
       THEN /\ refs' = [refs EXCEPT ![ch] = @ - k]
            /\ ahead' = [c \in ChanCos |->
                           IF call[c].ch = ch /\ ahead[c] >= 0 THEN ahead[c] - k ELSE ahead[c]]
            /\ UNCHANGED items
       ELSE /\ items' = [items EXCEPT ![ch] = @ - k]
            /\ UNCHANGED <<refs, ahead>>
    /\ conds' = [conds EXCEPT ![ch] = PopConds(@, k)]
    /\ wake' = Decided(EnableWrite(ch, k), "notify")
    /\ UNCHANGED <<closed, rwatch, wwatch>>

\* Read, ReadAll, TryRead and TryRead(ms) under the lock.  Every way out goes
\* through "release", the destructor that resets m_is_reading.
ReadLocked(c) ==
    LET ch == call[c].ch
        o == call[c].op
        k == IF o = "ReadAll" THEN items[ch] ELSE 1
    IN  /\ o \in Reads /\ chanPc[c] = "lock"
        /\ \/ /\ ~Empty(o, ch)
              /\ Take(ch, o, k)
              /\ Goto(c, "release")
              /\ UNCHANGED <<reading, call, chanCancel>>
           \/ /\ Empty(o, ch)
              /\ \/ (closed[ch] \/ o \in {"TryRead", "TryRead(ms)"}) /\ Goto(c, "release")
                 \/ ~closed[ch] /\ o # "TryRead" /\ Goto(c, "bind")
              /\ UNCHANGED <<chanVars, call, wake, ahead, chanCancel>>

Release(c) ==
    /\ chanPc[c] = "release"
    /\ reading' = [reading EXCEPT ![call[c].ch] = FALSE]
    /\ Return(c)
    /\ UNCHANGED <<items, refs, closed, conds, rwatch, wwatch, wake, ahead, chanCancel>>

CloseForgetsWatchers(c) ==  \* mutant
    LET ch == call[c].ch
    IN  /\ call[c].op = "Close" /\ chanPc[c] = "lock"
        /\ closed' = [closed EXCEPT ![ch] = TRUE]
        /\ conds' = [conds EXCEPT ![ch] = <<>>]
        /\ wake' = Decided((IF reading[ch] THEN EnableRead(ch) ELSE {})
                             \cup {conds[ch][i] : i \in Live(conds[ch])}, "notify")
        /\ Return(c)
        /\ UNCHANGED <<items, refs, reading, rwatch, wwatch, ahead, chanCancel>>

\* Close under the lock: the reader if there is one, every waiting writer and
\* every watcher are notified; elements stay for the reader.  The unbuffered
\* Close does not look at watchers, of which it has none.
CloseLocked(c) ==
    LET ch == call[c].ch
        readers == IF reading[ch] THEN EnableRead(ch) ELSE {}
        writers == {conds[ch][i] : i \in Live(conds[ch])}
        watchers == {w \in rwatch[ch] \cup wwatch[ch] : Open(w)}
    IN  /\ call[c].op = "Close" /\ chanPc[c] = "lock"
        /\ closed' = [closed EXCEPT ![ch] = TRUE]
        /\ conds' = [conds EXCEPT ![ch] = <<>>]
        /\ wake' = Decided(readers \cup writers \cup watchers, "notify")
        /\ Return(c)
        /\ UNCHANGED <<items, refs, reading, rwatch, wwatch, ahead, chanCancel>>

-----------------------------------------------------------------------------
(* Waits: _WaitUntilEnableRead, _WaitUntilEnableWrite and their timed forms.*)

\* The slot is bound; from here on the wait can be decided.
Bind(c) ==
    /\ chanPc[c] = "bind"
    /\ wake' = [wake EXCEPT ![c] = "none"]
    /\ Goto(c, "callback")
    /\ UNCHANGED <<chanVars, call, ahead, chanCancel>>

\* No event could be created or registered: the callback has not run and the
\* call fails.
BindFails(c) ==
    /\ chanPc[c] = "bind" /\ call[c].op \notin Selects
    /\ IF call[c].op \in Reads THEN Goto(c, "release") /\ UNCHANGED call ELSE Return(c)
    /\ UNCHANGED <<chanVars, wake, ahead, chanCancel>>

\* need_wait of a writer: still no room, or the element is not yet consumed.
NeedWait(c) ==
    LET ch == call[c].ch
    IN  ~closed[ch] /\ IF OnRefs(call[c].op, ch) THEN ahead[c] >= 0 ELSE Full(ch)

\* _RegisterEnableWriteCond and _RecheckEnableRead, run after the switch-out
\* under the lock.  A cancel requested before has decided the wait by then.
CallbackWithoutRecheck(c) ==  \* mutant
    LET ch == call[c].ch
        writing == call[c].op \in Writes
    IN  /\ chanPc[c] = "callback" /\ call[c].op \notin Selects
        /\ Len(conds[ch]) < MaxQueue
        /\ conds' = IF writing THEN [conds EXCEPT ![ch] = Append(@, IF Open(c) THEN c ELSE Dead)]
                    ELSE conds
        /\ Goto(c, "parked")
        /\ UNCHANGED <<items, refs, closed, reading, rwatch, wwatch, call, wake, ahead, chanCancel>>
Callback(c) ==
    LET ch == call[c].ch
        writing == call[c].op \in Writes
        waits == IF writing THEN NeedWait(c) ELSE Empty(call[c].op, ch) /\ ~closed[ch]
        early == Open(c) /\ chanCancel[c]
    IN  /\ chanPc[c] = "callback" /\ call[c].op \notin Selects
        /\ IF writing /\ waits
           THEN /\ Len(conds[ch]) < MaxQueue
                /\ conds' = [conds EXCEPT ![ch] =
                               Append(@, IF Open(c) /\ ~early THEN c ELSE Dead)]
           ELSE UNCHANGED conds
        /\ wake' = [wake EXCEPT ![c] = IF early THEN "cancel"
                                      ELSE IF Open(c) /\ ~waits THEN "notify" ELSE @]
        /\ Goto(c, "parked")
        /\ UNCHANGED <<items, refs, closed, reading, rwatch, wwatch, call, ahead, chanCancel>>

\* The timer of a wait fires.
Timeout(c) ==
    /\ Open(c) /\ Timed(c)
    /\ wake' = [wake EXCEPT ![c] = "timeout"]
    /\ conds' = Bury(c)
    /\ UNCHANGED <<items, refs, closed, reading, rwatch, wwatch, chanPc, call, ahead, chanCancel>>

\* RequestCancel of a coroutine, waiting or not.
RequestCancel(c) ==
    /\ \E ch \in Chans : <<c, "RequestCancel", ch>> \in uses
    /\ ~chanCancel[c]
    /\ chanCancel' = [chanCancel EXCEPT ![c] = TRUE]
    /\ wake' = IF Open(c) THEN [wake EXCEPT ![c] = "cancel"] ELSE wake
    /\ conds' = IF Open(c) THEN Bury(c) ELSE conds
    /\ UNCHANGED <<items, refs, closed, reading, rwatch, wwatch, chanPc, call, ahead>>

\* The coroutine goes on.  A timed wait reports a timeout and a cancel as 1; an
\* untimed one reports a cancel as success.  A writer looks at the state of
\* the channel before it takes the lock again.
ResumeWait(c) ==
    LET ch == call[c].ch
        late == Timed(c) /\ wake[c] # "notify"
    IN  /\ chanPc[c] = "parked" /\ ~Open(c) /\ call[c].op \notin Selects
        /\ wake' = [wake EXCEPT ![c] = "unbound"]
        /\ IF call[c].op \in Reads THEN Goto(c, "lock") /\ UNCHANGED call
           ELSE IF late \/ OnRefs(call[c].op, ch) \/ closed[ch] THEN Return(c)
           ELSE Goto(c, "relock") /\ UNCHANGED call
        /\ UNCHANGED <<chanVars, ahead, chanCancel>>

-----------------------------------------------------------------------------
(* The channel by itself; CoSelect adds the selecting coroutines.           *)

ChanStep(c) ==
    \/ WriteLocked(c) \/ WriteRefLocked(c) \/ ReadLocked(c) \/ Release(c)
    \/ CloseLocked(c) \/ Bind(c) \/ BindFails(c) \/ Callback(c) \/ ResumeWait(c)

Environment(c) ==
    \/ \E u \in uses : u[1] = c /\ Enter(c, u[2], u[3])
    \/ Timeout(c) \/ RequestCancel(c)

-----------------------------------------------------------------------------
(* Properties.                                                              *)

\* A suspended reader that nobody has woken has nothing to read: no order of
\* push, Close, registration and callback leaves it asleep on an element or on
\* a closed channel.
ReaderNotStranded ==
    \A c \in ChanCos :
        call[c].op \in Reads /\ chanPc[c] = "parked" /\ Open(c)
            => Empty(call[c].op, call[c].ch) /\ ~closed[call[c].ch]

WaitingWriters(ch) == {conds[ch][i] : i \in Live(conds[ch])}
WokenWriters(ch) ==
    {c \in ChanCos : /\ call[c].op \in Writes /\ call[c].ch = ch
                        /\ \/ chanPc[c] = "relock"
                           \/ chanPc[c] \in {"callback", "parked"} /\ wake[c] = "notify"}

\* While writers wait for room in an open buffered channel, every free place is
\* already promised to a writer that was woken and has not yet got the lock:
\* a wakeup spent on a dead entry would leave a place nobody uses.
WriterNotStranded ==
    \A ch \in Chans :
        ~Unbuffered(ch) /\ ~closed[ch] /\ WaitingWriters(ch) # {}
            => Size(ch) - items[ch] <= Cardinality(WokenWriters(ch))

\* A closed channel takes no further element (Chan::Close is serialised with the
\* insertion of Write, which returns -1 after it).
NothingEntersClosed ==
    [][\A ch \in Chans : closed[ch] => items'[ch] <= items[ch] /\ refs'[ch] <= refs[ch]]_chanAll
=============================================================================
