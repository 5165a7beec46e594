----------------------------- MODULE ChanProofs -----------------------------
(***************************************************************************)
(* Channels and select together (Chan, CoSelect): ChanSound for every      *)
(* number of coroutines and channels, every capacity and every list of     *)
(* cases.                                                                  *)
(*                                                                         *)
(* The invariant adds to ChanSound who holds m_is_reading, that a live     *)
(* entry of m_enable_write_conds is a suspended writer nobody has woken    *)
(* (and the only one of that writer), that the watchers are those of the   *)
(* Runs which have registered and not yet removed them, and that the cases *)
(* the callback of a Run has been through are not ready unless it has been *)
(* notified since.  StepEffect sorts the steps by what they do to the      *)
(* channels (Effect) and to the other coroutines (Frame): every other      *)
(* coroutine's part of the invariant follows from that, the part of the    *)
(* one that moves from its action.                                         *)
(***************************************************************************)
EXTENDS CoSelect, FiniteSetTheorems, SequenceTheorems, WellFoundedInduction, TLAPS

\* The program points of a _TryAll.
Trying == {"try", "take", "drop", "tried"}

\* The operation and the wait that go with a program point.
Posture(c) ==
    LET pc == chanPc[c]
        o == call[c].op
    IN  /\ pc = "idle" <=> o = "none"
        /\ o \in Writes => pc \in {"lock", "relock", "bind", "callback", "parked"}
        /\ o \in Reads => /\ pc \in {"lock", "bind", "callback", "parked", "release"}
                          /\ <<c, o, call[c].ch>> \in uses
        /\ o = "Close" => pc = "lock"
        /\ o \in Selects => /\ pc \in Trying \cup {"bind", "callback", "parked", "unwatch"}
                            /\ \E ch \in Chans : <<c, o, ch>> \in uses
        /\ wake[c] = "unbound" <=> ~(\/ pc \in {"callback", "parked"}
                                     \/ pc \in Trying /\ round[c] = "callback")

\* The bookkeeping of a Run.
RunLocal(c) ==
    LET pc == chanPc[c]
    IN  IF call[c].op \in Selects
        THEN /\ at[c] <= Len(Cases[c])
             /\ pc \in {"take", "drop"} => Case(c)[1] = "read"
             /\ hit[c] = 0 => done[c] = 0
             /\ done[c] <= 1
             /\ pc \in {"try", "take", "bind", "callback"} => hit[c] = 0
             /\ pc = "drop" => hit[c] \in {0, at[c]}
             /\ pc = "bind" => round[c] = "first" /\ at[c] = 1
             /\ pc = "callback" => round[c] # "again"
             /\ pc = "parked" => round[c] = "callback" /\ (Open(c) => hit[c] = 0)
             /\ pc = "unwatch" => round[c] # "callback"
        ELSE round[c] = "first" /\ at[c] = 1 /\ hit[c] = 0 /\ done[c] = 0

\* m_is_reading is held by c.
Holds(c, ch) ==
    \/ call[c].op \in Reads /\ call[c].ch = ch
    \/ chanPc[c] \in {"take", "drop"} /\ Case(c)[2] = ch

FlagOf(ch) ==
    /\ reading[ch] => \E c \in ChanCos : Holds(c, ch)
    /\ \A c \in ChanCos : Holds(c, ch) => reading[ch]
    /\ \A c, d \in ChanCos : Holds(c, ch) /\ Holds(d, ch) => c = d

FlagHeld == \A ch \in Chans : FlagOf(ch)

\* A live entry of m_enable_write_conds is a suspended writer nobody has woken.
WaitsToWrite(c, ch) ==
    call[c].op \in Writes /\ call[c].ch = ch /\ chanPc[c] = "parked" /\ Open(c)

QueueOf(ch) ==
    /\ \A i \in Live(conds[ch]) : WaitsToWrite(conds[ch][i], ch)
    /\ \A i, j \in Live(conds[ch]) : conds[ch][i] = conds[ch][j] => i = j

WritersQueued == \A ch \in Chans : QueueOf(ch)

\* c has a case on ch whose watcher it has not yet removed.
Watches(c, kind, ch) ==
    /\ call[c].op \in Selects
    /\ \E i \in DOMAIN Cases[c] : /\ Cases[c][i] = <<kind, ch>>
                                  /\ chanPc[c] = "unwatch" => i >= at[c]

Registered(c, i) ==
    LET ch == Cases[c][i][2]
    IN  c \in (IF Cases[c][i][1] = "read" THEN rwatch[ch] ELSE wwatch[ch])

WatcherOf(c) ==
    /\ \A ch \in Chans : /\ c \in rwatch[ch] => Watches(c, "read", ch)
                         /\ c \in wwatch[ch] => Watches(c, "write", ch)
    /\ call[c].op \in Selects =>
         \A i \in DOMAIN Cases[c] :
            \/ chanPc[c] = "callback" /\ i < at[c]
            \/ chanPc[c] \in Trying \cup {"parked"} /\ round[c] = "callback"
            => Registered(c, i)

Watchers == \A c \in ChanCos : WatcherOf(c)

\* What the callback has tried so far is not ready, or c has been woken.
Passed(c, i) ==
    \/ i < at[c]
    \/ chanPc[c] \in {"tried", "parked"}
    \/ chanPc[c] = "drop" /\ i = at[c]

CallbackSound ==
    \A c \in ChanCos :
        /\ call[c].op \in Selects /\ chanPc[c] \in Trying \cup {"parked"}
        /\ round[c] = "callback" /\ Open(c) /\ hit[c] = 0
        => /\ \A i \in DOMAIN Cases[c] : Passed(c, i) => Blocked(c, Cases[c][i])
           /\ chanPc[c] \in {"take", "drop"} => ~closed[Case(c)[2]]

ChanInv ==
    /\ SelectTypeOK
    /\ \A c \in ChanCos : Posture(c) /\ RunLocal(c)
    /\ FlagHeld /\ WritersQueued /\ Watchers
    /\ ReaderNotStranded /\ WriterNotStranded /\ CallbackSound

-----------------------------------------------------------------------------
(* Constants, and the queue of writers.                                     *)

\* Every channel has room for an element, and every select has a case.
LEMMA ChanConstants ==
    /\ IsFiniteSet(ChanCos) /\ Dead \notin ChanCos
    /\ \A ch \in Chans : Max[ch] \in Nat /\ Size(ch) \in Nat /\ Size(ch) >= 1
    /\ NoCall \in [op : {"none"}, ch : Chans] /\ NoCall.op = "none"
<1>1. (CHOOSE ch \in Chans : TRUE) \in Chans
  BY ChanAssumption DEF ChanAssumption
<1> QED  BY <1>1, ChanAssumption DEF ChanAssumption, Size, Unbuffered, NoCall

LEMMA SelectCases ==
    ASSUME SelectTypeOK, NEW c \in ChanCos, Posture(c), call[c].op \in Selects
    PROVE  /\ Cases[c] \in Seq({"read", "write"} \X Chans) /\ Len(Cases[c]) \in Nat \ {0}
           /\ DOMAIN Cases[c] = 1 .. Len(Cases[c])
           /\ \A i \in 1 .. Len(Cases[c]) :
                Cases[c][i] \in {"read", "write"} \X Chans /\ ~Unbuffered(Cases[c][i][2])
<1>0. PICK ch \in Chans : <<c, call[c].op, ch>> \in uses
  BY DEF Posture
<1>1. c \in DOMAIN Cases
  <2>1. uses \in Scenarios
    BY DEF SelectTypeOK, ChanTypeOK
  <2>2. \A u \in uses : u[2] \in Selects => u[1] \in DOMAIN Cases
    BY <2>1, CasesAssumption DEF CasesAssumption
  <2> QED  BY <1>0, <2>2
<1>2. Cases[c] \in Seq({"read", "write"} \X Chans) /\ Len(Cases[c]) > 0
  BY <1>1, CasesAssumption DEF CasesAssumption
<1>3. Len(Cases[c]) \in Nat \ {0} /\ DOMAIN Cases[c] = 1 .. Len(Cases[c])
  BY <1>2, LenProperties
<1>4. ASSUME NEW i \in 1 .. Len(Cases[c])
      PROVE  Cases[c][i] \in {"read", "write"} \X Chans /\ ~Unbuffered(Cases[c][i][2])
  <2>1. Cases[c][i] \in {"read", "write"} \X Chans
    BY <1>2, ElementOfSeq
  <2>2. Max[Cases[c][i][2]] > 0 /\ Cases[c][i][2] \in Chans
    BY <1>1, <1>3, <2>1, CasesAssumption DEF CasesAssumption
  <2> QED  BY <2>1, <2>2, ChanConstants DEF Unbuffered
<1> QED  BY <1>2, <1>3, <1>4

LEMMA LeastOf ==
    ASSUME NEW T \in SUBSET Nat, T # {}
    PROVE  \E x \in T : \A y \in T : x <= y
<1>1. \E x \in T : \A y \in T : <<y, x>> \notin OpToRel(<, Nat)
  BY NatLessThanWellFounded, WFMin
<1>2. \A x, y \in Nat : <<y, x>> \notin OpToRel(<, Nat) => x <= y
  BY DEF OpToRel
<1> QED  BY <1>1, <1>2

\* Of k or more numbers one is the k-th.
LEMMA KthExists ==
    ASSUME NEW n \in Nat, NEW T \in SUBSET (1 .. n), NEW k \in Nat, 1 <= k, k <= Cardinality(T)
    PROVE  \E i \in T : Cardinality({j \in T : j <= i}) = k
<1> DEFINE Low(i) == {j \in T : j <= i}
<1>0. IsFiniteSet(T) /\ Cardinality(T) \in Nat
  <2>1. IsFiniteSet(1 .. n)
    BY FS_Interval
  <2>2. IsFiniteSet(T)
    BY <2>1, FS_Subset
  <2> QED  BY <2>2, FS_CardinalityType
<1>1. \A i \in Nat : IsFiniteSet(Low(i)) /\ Cardinality(Low(i)) \in Nat
  BY <1>0, FS_Subset, FS_CardinalityType
<1>2. Low(n) = T /\ Low(0) = {}
  <2>1. \A j \in T : j \in Nat /\ j <= n /\ ~(j <= 0)
    OBVIOUS
  <2>2. Low(n) \subseteq T /\ T \subseteq Low(n) /\ \A j : j \notin Low(0)
    BY <2>1
  <2> HIDE DEF Low
  <2> QED  BY <2>2
<1> DEFINE Enough == {i \in 0 .. n : Cardinality(Low(i)) >= k}
<1>3. n \in Enough /\ 0 \notin Enough
  <2>1. Cardinality(Low(0)) = 0
    BY <1>2, FS_EmptySet
  <2>2. Cardinality(Low(n)) >= k
    BY <1>2, <1>0
  <2> HIDE DEF Low
  <2> QED  BY <2>1, <2>2
<1>4. PICK i \in Enough : \A y \in Enough : i <= y
  <2> HIDE DEF Enough
  <2>1. Enough \in SUBSET Nat
    BY DEF Enough
  <2> QED  BY <1>3, <2>1, LeastOf
<1>5. i \in 1 .. n /\ i - 1 \in 0 .. n /\ i - 1 \notin Enough
  <2>0. i \in 0 .. n
    OBVIOUS
  <2> HIDE DEF Enough
  <2>1. i # 0
    BY <1>3
  <2>2. i - 1 \notin Enough
    BY <1>4, <2>0
  <2> QED  BY <2>0, <2>1, <2>2
<1>6. Cardinality(Low(i)) >= k /\ Cardinality(Low(i - 1)) < k
  <2>1. i - 1 \in Nat /\ ~(Cardinality(Low(i - 1)) >= k)
    BY <1>5
  <2>2. Cardinality(Low(i - 1)) \in Nat
    <3> HIDE DEF Low
    <3> QED  BY <1>1, <2>1
  <2>3. Cardinality(Low(i)) >= k
    OBVIOUS
  <2> HIDE DEF Low
  <2> QED  BY <2>1, <2>2, <2>3
<1>a. /\ \A j \in T : j \in Nat /\ (j <= i <=> j <= i - 1 \/ j = i)
      /\ i \in Nat /\ i - 1 \in Nat
  BY <1>5
<1>7. i \notin T => Low(i) = Low(i - 1)
  <2> HIDE DEF Enough
  <2> QED  BY <1>a
<1>8. i \in T /\ Low(i) = Low(i - 1) \cup {i}
  <2> HIDE DEF Enough
  <2>1. i \in T
    <3> HIDE DEF Low
    <3>1. Cardinality(Low(i)) \in Nat /\ Cardinality(Low(i - 1)) \in Nat
      BY <1>1, <1>a
    <3> QED  BY <1>6, <1>7, <3>1
  <2> QED  BY <2>1, <1>a
<1>9. Cardinality(Low(i)) <= Cardinality(Low(i - 1)) + 1
  <2> HIDE DEF Low, Enough
  <2>1. IsFiniteSet(Low(i - 1)) /\ Cardinality(Low(i - 1)) \in Nat
    BY <1>1, <1>a
  <2>2. ASSUME NEW S, NEW x, IsFiniteSet(S), Cardinality(S) \in Nat
        PROVE  Cardinality(S \cup {x}) <= Cardinality(S) + 1
    <3>1. Cardinality(S \cup {x}) = IF x \in S THEN Cardinality(S) ELSE Cardinality(S) + 1
      BY <2>2, FS_AddElement
    <3> QED  BY <2>2, <3>1
  <2> QED  BY <1>8, <2>1, <2>2
<1>10. Cardinality(Low(i)) = k
  <2> HIDE DEF Low, Enough
  <2>1. Cardinality(Low(i)) \in Nat /\ Cardinality(Low(i - 1)) \in Nat
    BY <1>1, <1>a
  <2> QED  BY <1>6, <1>9, <2>1
<1> QED  BY <1>8, <1>10

\* What m_enable_write_conds may hold.
Entries == ChanCos \cup {Dead}

\* What k calls of _OnEnableWrite leave of m_enable_write_conds: nothing if there
\* are not k live entries, otherwise what comes after the k-th.
LEMMA PopFacts ==
    ASSUME NEW q \in Seq(Entries), NEW k \in Nat, k >= 1
    PROVE  /\ PopConds(q, k) \in Seq(Entries)
           /\ \/ PopConds(q, k) = <<>>
              \/ \E n \in 1 .. Len(q) :
                   /\ Len(PopConds(q, k)) = Len(q) - n
                   /\ \A i \in 1 .. Len(q) - n : PopConds(q, k)[i] = q[i + n]
                   /\ Cardinality({j \in Live(q) : j <= n}) = k
<1>0. Len(q) \in Nat /\ DOMAIN q = 1 .. Len(q) /\ \A i \in 1 .. Len(q) : q[i] \in Entries
  BY LenProperties, ElementOfSeq
<1>1. Live(q) \in SUBSET (1 .. Len(q))
  BY <1>0 DEF Live
<1>2. CASE Cardinality(Live(q)) < k
  <2>1. PopConds(q, k) = <<>>
    BY <1>2 DEF PopConds
  <2> QED  BY <2>1, EmptySeq
<1>3. CASE ~(Cardinality(Live(q)) < k)
  <2>0. Cardinality(Live(q)) \in Nat
    <3>1. IsFiniteSet(1 .. Len(q))
      BY <1>0, FS_Interval
    <3>2. IsFiniteSet(Live(q))
      BY <3>1, <1>1, FS_Subset
    <3> QED  BY <3>2, FS_CardinalityType
  <2>a. k <= Cardinality(Live(q))
    BY <1>3, <2>0
  <2>1. \E i \in Live(q) : Cardinality({j \in Live(q) : j <= i}) = k
    BY <1>0, <1>1, <2>a, KthExists
  <2> DEFINE n == NthLive(q, k)
  <2>2. n \in Live(q) /\ Cardinality({j \in Live(q) : j <= n}) = k
    BY <2>1 DEF NthLive
  <2>3. PopConds(q, k) = SubSeq(q, n + 1, Len(q))
    BY <1>3 DEF PopConds
  <2> HIDE DEF n
  <2>4. n \in 1 .. Len(q)
    BY <1>1, <2>2
  <2>5. n + 1 \in Int /\ Len(q) \in Int /\ \A i \in n + 1 .. Len(q) : q[i] \in Entries
    BY <2>4, <1>0
  <2>6. /\ SubSeq(q, n + 1, Len(q)) \in Seq(Entries)
        /\ Len(SubSeq(q, n + 1, Len(q))) = IF n + 1 <= Len(q) THEN Len(q) - (n + 1) + 1 ELSE 0
        /\ \A i \in 1 .. Len(q) - (n + 1) + 1 : SubSeq(q, n + 1, Len(q))[i] = q[n + 1 + i - 1]
    BY <2>5, SubSeqProperties
  <2>b. n \in Int /\ n <= Len(q) /\ Len(q) \in Int
    BY <2>4, <1>0
  <2>7. Len(PopConds(q, k)) = Len(q) - n
    BY <2>3, <2>b, <2>6
  <2>8. \A i \in 1 .. Len(q) - n : PopConds(q, k)[i] = q[i + n]
    BY <2>3, <2>4, <2>6, <1>0
  <2> QED  BY <2>2, <2>3, <2>4, <2>6, <2>7, <2>8
<1> QED  BY <1>2, <1>3

-----------------------------------------------------------------------------
(* The parts of the invariant by name.                                      *)

LEMMA ChanParts ==
    ASSUME ChanInv
    PROVE  /\ SelectTypeOK /\ ChanTypeOK /\ FlagHeld /\ WritersQueued /\ Watchers
           /\ ReaderNotStranded /\ WriterNotStranded /\ CallbackSound
           /\ \A c \in ChanCos : Posture(c) /\ RunLocal(c)
BY DEF ChanInv, SelectTypeOK

LEMMA ChanTypes ==
    ASSUME ChanInv
    PROVE  /\ uses \in Scenarios
           /\ items \in [Chans -> Nat] /\ refs \in [Chans -> Nat]
           /\ \A ch \in Chans : items[ch] <= Size(ch)
           /\ closed \in [Chans -> BOOLEAN] /\ reading \in [Chans -> BOOLEAN]
           /\ conds \in [Chans -> Seq(Entries)]
           /\ rwatch \in [Chans -> SUBSET ChanCos] /\ wwatch \in [Chans -> SUBSET ChanCos]
           /\ call \in [ChanCos -> [op : {"none", "Close"} \cup Writes \cup Reads \cup Selects,
                                    ch : Chans]]
           /\ wake \in [ChanCos -> {"unbound", "none", "notify", "timeout", "cancel"}]
           /\ ahead \in [ChanCos -> Int] /\ chanCancel \in [ChanCos -> BOOLEAN]
           /\ chanPc \in [ChanCos -> {"idle", "lock", "relock", "bind", "callback", "parked",
                                      "release", "try", "take", "drop", "tried", "unwatch"}]
           /\ round \in [ChanCos -> {"first", "callback", "again"}]
           /\ at \in [ChanCos -> Nat \ {0}] /\ hit \in [ChanCos -> Nat] /\ done \in [ChanCos -> Nat]
BY DEF ChanInv, SelectTypeOK, ChanTypeOK, Entries

\* Only a Run is at the program points of a Run, and its case is one on a channel.
LEMMA SelectPoint ==
    ASSUME ChanInv, NEW c \in ChanCos
    PROVE  /\ chanPc[c] \in Trying \cup {"unwatch"} => call[c].op \in Selects
           /\ call[c].op \in Selects =>
                /\ Len(Cases[c]) \in Nat \ {0} /\ at[c] \in 1 .. Len(Cases[c])
                /\ DOMAIN Cases[c] = 1 .. Len(Cases[c])
                /\ Case(c) \in {"read", "write"} \X Chans /\ ~Unbuffered(Case(c)[2])
                /\ \A i \in 1 .. Len(Cases[c]) :
                     Cases[c][i] \in {"read", "write"} \X Chans /\ ~Unbuffered(Cases[c][i][2])
<1>0. Posture(c) /\ RunLocal(c) /\ SelectTypeOK
  BY ChanParts
<1>1. chanPc[c] \in Trying \cup {"unwatch"} => call[c].op \in Selects
  BY <1>0, ChanTypes DEF Posture, Trying
<1>2. ASSUME call[c].op \in Selects
      PROVE  at[c] <= Len(Cases[c]) /\ at[c] \in Nat \ {0}
  BY <1>0, <1>2, ChanTypes DEF RunLocal
<1>3. ASSUME call[c].op \in Selects
      PROVE  /\ Len(Cases[c]) \in Nat \ {0} /\ at[c] \in 1 .. Len(Cases[c])
             /\ DOMAIN Cases[c] = 1 .. Len(Cases[c])
             /\ Case(c) \in {"read", "write"} \X Chans /\ ~Unbuffered(Case(c)[2])
             /\ \A i \in 1 .. Len(Cases[c]) :
                  Cases[c][i] \in {"read", "write"} \X Chans /\ ~Unbuffered(Cases[c][i][2])
  <2>1. /\ Len(Cases[c]) \in Nat \ {0} /\ DOMAIN Cases[c] = 1 .. Len(Cases[c])
        /\ \A i \in 1 .. Len(Cases[c]) :
             Cases[c][i] \in {"read", "write"} \X Chans /\ ~Unbuffered(Cases[c][i][2])
    BY <1>0, <1>3, SelectCases
  <2>2. at[c] \in 1 .. Len(Cases[c])
    BY <1>2, <1>3, <2>1
  <2> QED  BY <2>1, <2>2 DEF Case
<1> QED  BY <1>1, <1>3

-----------------------------------------------------------------------------
(* What a step of c does to the others and to the channels.                 *)

Step(c) ==
    /\ \/ Progress(c)
       \/ Environment(c) /\ UNCHANGED selVars
       \/ \E o \in Selects : Run(c, o)
    /\ UNCHANGED uses

\* Of another coroutine it changes at most the wait, by a notify.
Frame(c) ==
    /\ uses' = uses
    /\ \A d \in ChanCos \ {c} :
         /\ chanPc'[d] = chanPc[d] /\ call'[d] = call[d] /\ round'[d] = round[d]
         /\ at'[d] = at[d] /\ hit'[d] = hit[d] /\ done'[d] = done[d]
         /\ wake'[d] = wake[d] \/ (Open(d) /\ wake'[d] = "notify")

Alone(c) == \A d \in ChanCos \ {c} : wake'[d] = wake[d]

\* No element, no queue and no other coroutine is touched.
Quiet(c) ==
    items' = items /\ refs' = refs /\ closed' = closed /\ conds' = conds /\ Alone(c)

Puts(ch) ==
    /\ ~Full(ch)
    /\ items' = [items EXCEPT ![ch] = @ + 1]
    /\ refs' = refs /\ closed' = closed /\ conds' = conds
    /\ wake' = IF reading[ch] \/ rwatch[ch] # {} THEN Decided(EnableRead(ch), "notify") ELSE wake

PutsRef(ch) ==
    /\ Unbuffered(ch)
    /\ items' = items /\ refs' = [refs EXCEPT ![ch] = @ + 1]
    /\ closed' = closed /\ conds' = conds
    /\ wake' = IF reading[ch] /\ refs[ch] = 0 THEN Decided(EnableRead(ch), "notify") ELSE wake

\* Taking is done by the holder of the flag.
Takes(c, ch) ==
    /\ Holds(c, ch)
    /\ \E o \in Reads, k \in Nat :
         k >= 1 /\ k <= (IF OnRefs(o, ch) THEN refs[ch] ELSE items[ch]) /\ Take(ch, o, k)

Closes(ch) ==
    /\ items' = items /\ refs' = refs
    /\ closed' = [closed EXCEPT ![ch] = TRUE]
    /\ conds' = [conds EXCEPT ![ch] = <<>>]
    /\ wake' = Decided((IF reading[ch] THEN EnableRead(ch) ELSE {})
                         \cup {conds[ch][i] : i \in Live(conds[ch])}
                         \cup {w \in rwatch[ch] \cup wwatch[ch] : Open(w)}, "notify")

\* The writer c queues up: there is no room.
QueuesUp(c, ch) ==
    /\ items' = items /\ refs' = refs /\ closed' = closed /\ Alone(c)
    /\ call[c].op \in Writes /\ call[c].ch = ch /\ chanPc[c] = "callback"
    /\ call'[c] = call[c] /\ chanPc'[c] = "parked"
    /\ ~Unbuffered(ch) => Full(ch)
    /\ \E e \in Entries : /\ conds' = [conds EXCEPT ![ch] = Append(conds[ch], e)]
                          /\ e # Dead => e = c /\ wake'[c] = "none"

\* The wait of c ends by its timer or by a cancel.
WaitEnds(c) ==
    /\ items' = items /\ refs' = refs /\ closed' = closed /\ conds' = Bury(c) /\ Alone(c)
    /\ Open(c) /\ wake'[c] # "none" /\ call'[c] = call[c] /\ chanPc'[c] = chanPc[c]

Effect(c) ==
    \/ Quiet(c) \/ WaitEnds(c)
    \/ \E ch \in Chans : \/ Puts(ch) \/ PutsRef(ch) \/ Takes(c, ch)
                         \/ Closes(ch) \/ QueuesUp(c, ch)

\* Whoever a step notifies had an open wait.
LEMMA NotifiedOpen ==
    ASSUME ChanInv, NEW ch \in Chans
    PROVE  /\ \A d \in EnableRead(ch) : Open(d)
           /\ \A d \in WaitingWriters(ch) : d \in ChanCos /\ Open(d)
           /\ \A k \in Nat : \A d \in EnableWrite(ch, k) : Open(d)
           /\ \A d \in (rwatch[ch] \cup wwatch[ch]) : d \in ChanCos
<1>1. \A i \in Live(conds[ch]) : Open(conds[ch][i])
  BY ChanParts DEF WritersQueued, QueueOf, WaitsToWrite
<1>2. \A i \in Live(conds[ch]) : conds[ch][i] \in ChanCos
  <2>1. conds[ch] \in Seq(Entries)
    BY ChanTypes
  <2> QED  BY <2>1, LenProperties, ElementOfSeq DEF Live, Entries
<1>3. \A d \in (rwatch[ch] \cup wwatch[ch]) : d \in ChanCos
  BY ChanTypes
<1> QED  BY <1>1, <1>2, <1>3 DEF EnableRead, WaitingWriters, EnableWrite, Popped

LEMMA Notified ==
    ASSUME ChanInv, NEW cs, \A d \in cs : d \in ChanCos => Open(d),
           wake' = Decided(cs, "notify"), NEW d \in ChanCos
    PROVE  wake'[d] = wake[d] \/ (Open(d) /\ wake'[d] = "notify")
BY ChanTypes DEF Decided

\* The actions, one by one.
LEMMA StepActions ==
    ASSUME ChanInv, NEW c \in ChanCos, Step(c)
    PROVE  /\ uses' = uses
           /\ \/ UNCHANGED selVars /\ ChanStep(c)
              \/ UNCHANGED selVars /\ Timeout(c)
              \/ UNCHANGED selVars /\ RequestCancel(c)
              \/ UNCHANGED selVars /\ \E o \in Writes \cup Reads \cup {"Close"}, ch \in Chans : Enter(c, o, ch)
              \/ SelectStep(c)
              \/ \E o \in Selects : Run(c, o)
<1>1. ASSUME NEW u \in uses, Enter(c, u[2], u[3]), UNCHANGED selVars
      PROVE  \E o \in Writes \cup Reads \cup {"Close"}, ch \in Chans : Enter(c, o, ch)
  <2>1. u[2] \in Writes \cup Reads \cup {"Close"}
    BY <1>1 DEF Enter
  <2>2. u[3] \in Chans
    BY ChanTypes, ChanAssumption DEF ChanAssumption
  <2> QED  BY <1>1, <2>1, <2>2
<1> QED  BY <1>1 DEF Step, Progress, Environment

LEMMA StepEffect ==
    ASSUME ChanInv, NEW c \in ChanCos, Step(c)
    PROVE  Frame(c) /\ Effect(c)
<1> USE ChanTypes
<1>0. uses' = uses /\ call[c].ch \in Chans
  BY StepActions
<1>k. Ready(c) \/ NotReady(c) =>
        \A d \in ChanCos \ {c} : chanPc'[d] = chanPc[d] /\ at'[d] = at[d] /\ hit'[d] = hit[d]
  <2>1. ASSUME Ready(c)
        PROVE  \A d \in ChanCos \ {c} : chanPc'[d] = chanPc[d] /\ at'[d] = at[d] /\ hit'[d] = hit[d]
    BY <2>1 DEF Ready, Goto
  <2>2. ASSUME NotReady(c)
        PROVE  \A d \in ChanCos \ {c} : chanPc'[d] = chanPc[d] /\ at'[d] = at[d] /\ hit'[d] = hit[d]
    BY <2>2 DEF NotReady, Goto
  <2> QED  BY <2>1, <2>2
<1> DEFINE ch == call[c].ch
<1>1. CASE UNCHANGED selVars /\ WriteLocked(c)
  <2>1. CASE Full(ch) \/ (chanPc[c] = "lock" /\ closed[ch])
    <3>1. chanVars' = chanVars /\ wake' = wake
          /\ \A d \in ChanCos \ {c} : chanPc'[d] = chanPc[d] /\ call'[d] = call[d]
      BY <1>1, <2>1 DEF WriteLocked, Return, Goto
    <3> QED  BY <1>0, <1>1, <3>1 DEF chanVars, selVars, Frame, Effect, Quiet, Alone
  <2>2. CASE ~Full(ch) /\ ~(chanPc[c] = "lock" /\ closed[ch])
    <3>1. PushItem(c, ch)
      BY <1>1, <2>2 DEF WriteLocked
    <3>2. Puts(ch)
      BY <2>2, <3>1 DEF PushItem, Puts
    <3>3. \A d \in ChanCos : wake'[d] = wake[d] \/ (Open(d) /\ wake'[d] = "notify")
      BY <1>0, <3>2, NotifiedOpen, Notified DEF Puts
    <3> QED  BY <1>0, <1>1, <3>1, <3>2, <3>3 DEF PushItem, Return, Goto, selVars, Frame, Effect
  <2> QED  BY <2>1, <2>2
<1>2. CASE UNCHANGED selVars /\ WriteRefLocked(c)
  <2>1. PutsRef(ch)
    BY <1>2 DEF WriteRefLocked, PutsRef, OnRefs
  <2>2. \A d \in ChanCos : wake'[d] = wake[d] \/ (Open(d) /\ wake'[d] = "notify")
    BY <1>0, <2>1, NotifiedOpen, Notified DEF PutsRef
  <2>3. Frame(c)
    <3>1. \A d \in ChanCos \ {c} : chanPc'[d] = chanPc[d] /\ call'[d] = call[d]
      BY <1>2 DEF WriteRefLocked, Return, Goto
    <3> QED  BY <1>0, <1>2, <2>2, <3>1 DEF selVars, Frame
  <2> QED  BY <1>0, <2>1, <2>3 DEF Effect
<1>3. CASE UNCHANGED selVars /\ ReadLocked(c)
  <2> DEFINE o == call[c].op
             k == IF o = "ReadAll" THEN items[ch] ELSE 1
  <2>1. CASE Empty(o, ch)
    <3>1. chanVars' = chanVars /\ wake' = wake /\ call' = call
          /\ \A d \in ChanCos \ {c} : chanPc'[d] = chanPc[d]
      BY <1>3, <2>1 DEF ReadLocked, Goto
    <3> QED  BY <1>0, <1>3, <3>1 DEF chanVars, selVars, Frame, Effect, Quiet, Alone
  <2>2. CASE ~Empty(o, ch)
    <3>1. Take(ch, o, k) /\ o \in Reads /\ call' = call
          /\ \A d \in ChanCos \ {c} : chanPc'[d] = chanPc[d]
      BY <1>3, <2>2 DEF ReadLocked, Goto
    <3>2. k \in Nat /\ k >= 1 /\ k <= (IF OnRefs(o, ch) THEN refs[ch] ELSE items[ch])
      BY <1>0, <2>2 DEF Empty, OnRefs
    <3>3. Takes(c, ch)
      <4> HIDE DEF k
      <4> QED  BY <3>1, <3>2 DEF Takes, Holds
    <3>4. \A d \in ChanCos : wake'[d] = wake[d] \/ (Open(d) /\ wake'[d] = "notify")
      <4>1. wake' = Decided(EnableWrite(ch, k), "notify")
        BY <3>1 DEF Take
      <4> HIDE DEF k
      <4> QED  BY <1>0, <3>2, <4>1, NotifiedOpen, Notified
    <3> HIDE DEF k
    <3> QED  BY <1>0, <1>3, <3>1, <3>3, <3>4 DEF selVars, Frame, Effect
  <2> QED  BY <2>1, <2>2
<1>4. CASE UNCHANGED selVars /\ (Release(c) \/ Bind(c) \/ BindFails(c) \/ ResumeWait(c))
  <2>1. items' = items /\ refs' = refs /\ closed' = closed /\ conds' = conds
        /\ \A d \in ChanCos \ {c} : wake'[d] = wake[d] /\ chanPc'[d] = chanPc[d] /\ call'[d] = call[d]
    BY <1>4 DEF Release, Bind, BindFails, ResumeWait, Return, Goto, chanVars
  <2> QED  BY <1>0, <1>4, <2>1 DEF selVars, Frame, Effect, Quiet, Alone
<1>5. CASE UNCHANGED selVars /\ CloseLocked(c)
  <2>1. Closes(ch)
    BY <1>5 DEF CloseLocked, Closes
  <2>2. \A d \in ChanCos : wake'[d] = wake[d] \/ (Open(d) /\ wake'[d] = "notify")
    <3> DEFINE cs == (IF reading[ch] THEN EnableRead(ch) ELSE {})
                        \cup {conds[ch][i] : i \in Live(conds[ch])}
                        \cup {w \in rwatch[ch] \cup wwatch[ch] : Open(w)}
    <3>1. wake' = Decided(cs, "notify")
      BY <2>1 DEF Closes
    <3>2. \A d \in cs : Open(d)
      BY <1>0, NotifiedOpen DEF WaitingWriters
    <3> HIDE DEF cs
    <3> QED  BY <3>1, <3>2, Notified
  <2> QED  BY <1>0, <1>5, <2>1, <2>2 DEF CloseLocked, Return, Goto, selVars, Frame, Effect
<1>6. CASE UNCHANGED selVars /\ Callback(c)
  <2>1. /\ items' = items /\ refs' = refs /\ closed' = closed /\ call' = call
        /\ \A d \in ChanCos \ {c} : wake'[d] = wake[d] /\ chanPc'[d] = chanPc[d]
    BY <1>6 DEF Callback, Goto
  <2>2. CASE conds' = conds
    BY <1>0, <1>6, <2>1, <2>2 DEF selVars, Frame, Effect, Quiet, Alone
  <2>3. CASE conds' # conds
    <3>1. /\ call[c].op \in Writes /\ NeedWait(c)
          /\ chanPc[c] = "callback" /\ chanPc'[c] = "parked"
          /\ conds' = [conds EXCEPT ![ch] = Append(@, IF Open(c) /\ ~chanCancel[c] THEN c ELSE Dead)]
          /\ wake'[c] = IF Open(c) /\ chanCancel[c] THEN "cancel" ELSE wake[c]
      BY <1>6, <2>3 DEF Callback, Goto
    <3>2. ~Unbuffered(ch) => Full(ch)
      BY <3>1 DEF NeedWait, OnRefs
    <3>3. QueuesUp(c, ch)
      BY <2>1, <3>1, <3>2 DEF QueuesUp, Alone, Open, Entries
    <3> QED  BY <1>0, <1>6, <2>1, <3>3 DEF selVars, Frame, Effect
  <2> QED  BY <2>2, <2>3
<1>7. CASE UNCHANGED selVars /\ (Timeout(c) \/ RequestCancel(c))
  <2>1. /\ items' = items /\ refs' = refs /\ closed' = closed /\ call' = call /\ chanPc' = chanPc
        /\ \A d \in ChanCos \ {c} : wake'[d] = wake[d]
        /\ conds' = conds \/ (conds' = Bury(c) /\ Open(c) /\ wake'[c] # "none")
    BY <1>7 DEF Timeout, RequestCancel, Open
  <2> QED  BY <1>0, <1>7, <2>1 DEF selVars, Frame, Effect, Quiet, WaitEnds, Alone
<1>8. CASE UNCHANGED selVars
           /\ \E o \in Writes \cup Reads \cup {"Close"}, x \in Chans : Enter(c, o, x)
  <2>1. items' = items /\ refs' = refs /\ closed' = closed /\ conds' = conds
        /\ \A d \in ChanCos \ {c} : wake'[d] = wake[d] /\ chanPc'[d] = chanPc[d] /\ call'[d] = call[d]
    BY <1>8 DEF Enter, Goto
  <2> QED  BY <1>0, <1>8, <2>1 DEF selVars, Frame, Effect, Quiet, Alone
<1>9. CASE \E o \in Selects : Run(c, o)
  <2>1. /\ chanVars' = chanVars /\ selVars' = selVars /\ wake' = wake
        /\ \A d \in ChanCos \ {c} : chanPc'[d] = chanPc[d] /\ call'[d] = call[d]
    BY <1>9 DEF Run, Goto
  <2> QED  BY <1>0, <2>1 DEF chanVars, selVars, Frame, Effect, Quiet, Alone
<1>10. CASE TakeCase(c)
  <2> DEFINE x == Case(c)[2]
  <2>1. x \in Chans /\ Holds(c, x)
    BY <1>10, SelectPoint DEF TakeCase, Trying, Holds
  <2>2. /\ call' = call /\ round' = round /\ at' = at
        /\ \A d \in ChanCos \ {c} : /\ chanPc'[d] = chanPc[d] /\ hit'[d] = hit[d] /\ done'[d] = done[d]
    BY <1>10 DEF TakeCase, Goto
  <2>3. CASE items[x] > 0
    <3>1. Take(x, "TryRead", 1)
      BY <1>10, <2>3 DEF TakeCase
    <3>2. Takes(c, x)
      BY <2>1, <2>3, <3>1 DEF Takes, Reads, OnRefs
    <3>3. \A d \in ChanCos : wake'[d] = wake[d] \/ (Open(d) /\ wake'[d] = "notify")
      <4>1. wake' = Decided(EnableWrite(x, 1), "notify")
        BY <3>1 DEF Take
      <4> QED  BY <2>1, <4>1, NotifiedOpen, Notified
    <3> QED  BY <1>0, <2>1, <2>2, <3>2, <3>3 DEF Frame, Effect
  <2>4. CASE ~(items[x] > 0)
    <3>1. items' = items /\ refs' = refs /\ closed' = closed /\ conds' = conds /\ wake' = wake
      BY <1>10, <2>4 DEF TakeCase
    <3> QED  BY <1>0, <2>2, <3>1 DEF Frame, Effect, Quiet, Alone
  <2> QED  BY <2>3, <2>4
<1>11. CASE TryWriteCase(c)
  <2> DEFINE x == Case(c)[2]
  <2>1. x \in Chans
    BY <1>11, SelectPoint DEF TryWriteCase, Trying
  <2>2. /\ call' = call /\ round' = round
        /\ \A d \in ChanCos \ {c} :
             /\ chanPc'[d] = chanPc[d] /\ at'[d] = at[d] /\ hit'[d] = hit[d] /\ done'[d] = done[d]
    BY <1>11, <1>k DEF TryWriteCase
  <2>3. CASE ~closed[x] /\ ~Full(x)
    <3>1. Puts(x)
      BY <1>11, <2>3 DEF TryWriteCase, Puts
    <3>2. \A d \in ChanCos : wake'[d] = wake[d] \/ (Open(d) /\ wake'[d] = "notify")
      BY <2>1, <3>1, NotifiedOpen, Notified DEF Puts
    <3> QED  BY <1>0, <2>1, <2>2, <3>1, <3>2 DEF Frame, Effect
  <2>4. CASE ~(~closed[x] /\ ~Full(x))
    <3>1. items' = items /\ refs' = refs /\ closed' = closed /\ conds' = conds /\ wake' = wake
      BY <1>11, <2>4 DEF TryWriteCase
    <3> QED  BY <1>0, <2>2, <3>1 DEF Frame, Effect, Quiet, Alone
  <2> QED  BY <2>3, <2>4
<1>12. CASE TryReadCase(c) \/ DropCase(c) \/ Tried(c)
  <2>1. /\ items' = items /\ refs' = refs /\ closed' = closed /\ conds' = conds
        /\ call' = call /\ round' = round /\ done' = done
        /\ \A d \in ChanCos \ {c} : /\ chanPc'[d] = chanPc[d] /\ at'[d] = at[d] /\ hit'[d] = hit[d]
                                    /\ wake'[d] = wake[d]
    <3>1. CASE TryReadCase(c)
      BY <1>k, <3>1 DEF TryReadCase, Goto
    <3>2. CASE DropCase(c)
      BY <1>k, <3>2 DEF DropCase
    <3>3. CASE Tried(c)
      BY <3>3 DEF Tried, Goto, chanVars
    <3> QED  BY <1>12, <3>1, <3>2, <3>3
  <2> QED  BY <1>0, <2>1 DEF Frame, Effect, Quiet, Alone
<1>13. CASE SelectBindFails(c) \/ Watch(c) \/ ResumeSelect(c)
  <2>1. /\ items' = items /\ refs' = refs /\ closed' = closed /\ conds' = conds
        /\ call' = call /\ hit' = hit /\ done' = done
        /\ \A d \in ChanCos \ {c} : /\ chanPc'[d] = chanPc[d] /\ at'[d] = at[d]
                                    /\ round'[d] = round[d] /\ wake'[d] = wake[d]
    BY <1>13 DEF SelectBindFails, Watch, ResumeSelect, Goto, chanVars
  <2> QED  BY <1>0, <2>1 DEF Frame, Effect, Quiet, Alone
<1>14. CASE Unwatch(c)
  <2>1. /\ items' = items /\ refs' = refs /\ closed' = closed /\ conds' = conds /\ wake' = wake
        /\ \A d \in ChanCos \ {c} : /\ chanPc'[d] = chanPc[d] /\ at'[d] = at[d] /\ hit'[d] = hit[d]
                                    /\ done'[d] = done[d] /\ round'[d] = round[d] /\ call'[d] = call[d]
    BY <1>14 DEF Unwatch, Return, Goto
  <2> QED  BY <1>0, <2>1 DEF Frame, Effect, Quiet, Alone
<1> QED
  <2> HIDE DEF ch
  <2> QED  BY <1>1, <1>2, <1>3, <1>4, <1>5, <1>6, <1>7, <1>8, <1>9, <1>10, <1>11, <1>12, <1>13, <1>14,
              StepActions DEF ChanStep, SelectStep

-----------------------------------------------------------------------------
(* Types.                                                                   *)

LEMMA QueueTypes ==
    ASSUME ChanInv, NEW c \in ChanCos, Frame(c), Effect(c)
    PROVE  /\ items' \in [Chans -> Nat] /\ refs' \in [Chans -> Nat]
           /\ \A ch \in Chans : items'[ch] <= Size(ch)
           /\ closed' \in [Chans -> BOOLEAN]
           /\ conds' \in [Chans -> Seq(Entries)]
<1> USE ChanTypes
<1>1. CASE Quiet(c)
  BY <1>1 DEF Quiet
<1>2. CASE WaitEnds(c)
  <2>1. \A ch \in Chans : Bury(c)[ch] \in Seq(Entries)
    <3> SUFFICES ASSUME NEW ch \in Chans  PROVE Bury(c)[ch] \in Seq(Entries)
      OBVIOUS
    <3>1. Len(conds[ch]) \in Nat /\ DOMAIN conds[ch] = 1 .. Len(conds[ch])
          /\ \A i \in 1 .. Len(conds[ch]) : conds[ch][i] \in Entries
      BY LenProperties, ElementOfSeq
    <3>2. Bury(c)[ch] = [i \in 1 .. Len(conds[ch]) |-> IF conds[ch][i] = c THEN Dead ELSE conds[ch][i]]
      BY <3>1 DEF Bury
    <3>3. Bury(c)[ch] \in [1 .. Len(conds[ch]) -> Entries]
      BY <3>1, <3>2 DEF Entries
    <3>4. \A n \in Nat : \A f \in [1 .. n -> Entries] : f \in Seq(Entries)
      BY SeqDef
    <3> QED  BY <3>1, <3>3, <3>4
  <2>2. Bury(c) \in [Chans -> Seq(Entries)]
    <3>1. Bury(c) = [ch \in Chans |-> Bury(c)[ch]]
      BY DEF Bury
    <3> QED  BY <2>1, <3>1
  <2> QED  BY <1>2, <2>2 DEF WaitEnds
<1>3. ASSUME NEW ch \in Chans, Puts(ch) \/ PutsRef(ch) \/ Closes(ch) \/ QueuesUp(c, ch)
      PROVE  /\ items' \in [Chans -> Nat] /\ refs' \in [Chans -> Nat]
             /\ \A x \in Chans : items'[x] <= Size(x)
             /\ closed' \in [Chans -> BOOLEAN]
             /\ conds' \in [Chans -> Seq(Entries)]
  <2>1. CASE Puts(ch)
    <3>1. items' = [items EXCEPT ![ch] = @ + 1] /\ items[ch] < Size(ch)
          /\ refs' = refs /\ closed' = closed /\ conds' = conds
      BY <2>1, ChanConstants DEF Puts, Full
    <3>2. \A x \in Chans : items'[x] \in Nat /\ items'[x] <= Size(x)
      <4> SUFFICES ASSUME NEW x \in Chans  PROVE items'[x] \in Nat /\ items'[x] <= Size(x)
        OBVIOUS
      <4>1. items[x] \in Nat /\ items[x] <= Size(x) /\ Size(x) \in Nat
        BY ChanConstants
      <4>2. items'[x] = IF x = ch THEN items[x] + 1 ELSE items[x]
        BY <3>1
      <4> QED  BY <3>1, <4>1, <4>2
    <3> QED  BY <3>1, <3>2
  <2>2. CASE PutsRef(ch)
    <3>1. items' = items /\ closed' = closed /\ conds' = conds /\ refs' = [refs EXCEPT ![ch] = @ + 1]
      BY <2>2 DEF PutsRef
    <3>2. refs' \in [Chans -> Nat]
      BY <3>1
    <3> QED  BY <3>1, <3>2
  <2>3. CASE Closes(ch)
    <3>1. conds' = [conds EXCEPT ![ch] = <<>>] /\ <<>> \in Seq(Entries)
      BY <2>3, EmptySeq DEF Closes
    <3> QED  BY <2>3, <3>1 DEF Closes
  <2>4. CASE QueuesUp(c, ch)
    <3>1. PICK e \in Entries : conds' = [conds EXCEPT ![ch] = Append(@, e)]
      BY <2>4 DEF QueuesUp
    <3>2. Append(conds[ch], e) \in Seq(Entries)
      OBVIOUS
    <3> QED  BY <2>4, <3>1, <3>2 DEF QueuesUp
  <2> QED  BY <1>3, <2>1, <2>2, <2>3, <2>4
<1>4. ASSUME NEW ch \in Chans, Takes(c, ch)
      PROVE  /\ items' \in [Chans -> Nat] /\ refs' \in [Chans -> Nat]
             /\ \A x \in Chans : items'[x] <= Size(x)
             /\ closed' \in [Chans -> BOOLEAN]
             /\ conds' \in [Chans -> Seq(Entries)]
  <2>1. PICK o \in Reads, k \in Nat :
             k >= 1 /\ k <= (IF OnRefs(o, ch) THEN refs[ch] ELSE items[ch]) /\ Take(ch, o, k)
    BY <1>4 DEF Takes
  <2>2. PopConds(conds[ch], k) \in Seq(Entries)
    BY <2>1, PopFacts
  <2>3. conds' = [conds EXCEPT ![ch] = PopConds(conds[ch], k)] /\ closed' = closed
    BY <2>1 DEF Take
  <2>4. CASE OnRefs(o, ch)
    <3>1. refs' = [refs EXCEPT ![ch] = @ - k] /\ items' = items /\ refs[ch] - k \in Nat
      BY <2>1, <2>4 DEF Take
    <3> QED  BY <2>2, <2>3, <3>1
  <2>5. CASE ~OnRefs(o, ch)
    <3>1. items' = [items EXCEPT ![ch] = @ - k] /\ refs' = refs
          /\ items[ch] - k \in Nat /\ items[ch] - k <= items[ch]
      BY <2>1, <2>5 DEF Take
    <3>2. \A x \in Chans : items'[x] \in Nat /\ items'[x] <= Size(x)
      <4> SUFFICES ASSUME NEW x \in Chans  PROVE items'[x] \in Nat /\ items'[x] <= Size(x)
        OBVIOUS
      <4>1. items[x] \in Nat /\ items[x] <= Size(x) /\ Size(x) \in Nat
        BY ChanConstants
      <4>2. items'[x] = IF x = ch THEN items[x] - k ELSE items[x]
        BY <3>1
      <4> QED  BY <3>1, <4>1, <4>2
    <3> QED  BY <2>2, <2>3, <3>1, <3>2
  <2> QED  BY <2>4, <2>5
<1> QED  BY <1>1, <1>2, <1>3, <1>4 DEF Effect

LEMMA WakeTypes ==
    ASSUME ChanInv, NEW cs
    PROVE  Decided(cs, "notify") \in [ChanCos -> {"unbound", "none", "notify", "timeout", "cancel"}]
BY ChanTypes DEF Decided

LEMMA TypeStep ==
    ASSUME ChanInv, NEW c \in ChanCos, Step(c), Frame(c), Effect(c)
    PROVE  SelectTypeOK'
<1> DEFINE WakeT == [ChanCos -> {"unbound", "none", "notify", "timeout", "cancel"}]
           CallT == [ChanCos -> [op : {"none", "Close"} \cup Writes \cup Reads \cup Selects, ch : Chans]]
           PcT == [ChanCos -> {"idle", "lock", "relock", "bind", "callback", "parked",
                               "release", "try", "take", "drop", "tried", "unwatch"}]
           WatchT == [Chans -> SUBSET ChanCos]
           FlagT == [Chans -> BOOLEAN]
           AheadT == [ChanCos -> Int]
           RoundT == [ChanCos -> {"first", "callback", "again"}]
           AtT == [ChanCos -> Nat \ {0}]
           CountT == [ChanCos -> Nat]
           Local == /\ reading' \in FlagT /\ rwatch' \in WatchT /\ wwatch' \in WatchT
                    /\ call' \in CallT /\ wake' \in WakeT /\ chanPc' \in PcT
                    /\ ahead' \in AheadT /\ chanCancel' \in [ChanCos -> BOOLEAN]
           RunT == round' \in RoundT /\ at' \in AtT /\ hit' \in CountT /\ done' \in CountT
<1>0. uses' = uses /\ uses \in Scenarios /\ call[c].ch \in Chans
  BY StepActions, ChanTypes
<1>s. SUFFICES Local /\ RunT
  <2>1. /\ items' \in [Chans -> Nat] /\ refs' \in [Chans -> Nat]
        /\ \A ch \in Chans : items'[ch] <= Size(ch)
        /\ closed' \in [Chans -> BOOLEAN] /\ conds' \in [Chans -> Seq(Entries)]
    BY QueueTypes
  <2> QED  BY <1>0, <2>1 DEF SelectTypeOK, ChanTypeOK, Entries
<1>a. /\ call \in CallT /\ [call EXCEPT ![c] = NoCall] \in CallT
      /\ \A o \in Writes \cup Reads \cup {"Close"}, x \in Chans :
           [call EXCEPT ![c] = [op |-> o, ch |-> x]] \in CallT
      /\ \A o \in Selects : [call EXCEPT ![c].op = o] \in CallT
  <2>1. call \in CallT
    BY ChanTypes
  <2>2. [call EXCEPT ![c] = NoCall] \in CallT
    BY <2>1, ChanConstants
  <2>3. \A o \in Writes \cup Reads \cup {"Close"}, x \in Chans :
          [call EXCEPT ![c] = [op |-> o, ch |-> x]] \in CallT
    BY <2>1
  <2>4. \A o \in Selects : [call EXCEPT ![c].op = o] \in CallT
    BY <2>1
  <2> QED  BY <2>1, <2>2, <2>3, <2>4
<1>b. /\ wake \in WakeT /\ \A cs : Decided(cs, "notify") \in WakeT
      /\ [wake EXCEPT ![c] = "none"] \in WakeT /\ [wake EXCEPT ![c] = "unbound"] \in WakeT
      /\ [wake EXCEPT ![c] = "timeout"] \in WakeT /\ [wake EXCEPT ![c] = "cancel"] \in WakeT
      /\ [wake EXCEPT ![c] = "notify"] \in WakeT /\ [wake EXCEPT ![c] = @] \in WakeT
  BY WakeTypes, ChanTypes
<1>p. /\ chanPc \in PcT
      /\ \A l \in {"idle", "lock", "relock", "bind", "callback", "parked",
                    "release", "try", "take", "drop", "tried", "unwatch"} :
            Goto(c, l) => chanPc' \in PcT
  <2>1. chanPc \in PcT
    BY ChanTypes
  <2>2. \A l \in {"idle", "lock", "relock", "bind", "callback", "parked",
                 "release", "try", "take", "drop", "tried", "unwatch"} :
          [chanPc EXCEPT ![c] = l] \in PcT
    BY <2>1
  <2> QED  BY <2>1, <2>2 DEF Goto
<1>f. /\ reading \in FlagT /\ rwatch \in WatchT /\ wwatch \in WatchT
      /\ \A x \in Chans : /\ [reading EXCEPT ![x] = TRUE] \in FlagT
                           /\ [reading EXCEPT ![x] = FALSE] \in FlagT
                           /\ \A o : [reading EXCEPT ![x] = @ \/ o \in Reads] \in FlagT
                           /\ [rwatch EXCEPT ![x] = @ \cup {c}] \in WatchT
                           /\ [wwatch EXCEPT ![x] = @ \cup {c}] \in WatchT
                           /\ [rwatch EXCEPT ![x] = @ \ {c}] \in WatchT
                           /\ [wwatch EXCEPT ![x] = @ \ {c}] \in WatchT
  BY ChanTypes
<1>n. /\ ahead \in AheadT /\ [ahead EXCEPT ![c] = -1] \in AheadT
      /\ \A x \in Chans : [ahead EXCEPT ![c] = refs[x]] \in AheadT
      /\ \A k \in Int : \A x : [d \in ChanCos |-> IF call[d].ch = x /\ ahead[d] >= 0
                                          THEN ahead[d] - k ELSE ahead[d]] \in AheadT
      /\ chanCancel \in [ChanCos -> BOOLEAN] /\ [chanCancel EXCEPT ![c] = TRUE] \in [ChanCos -> BOOLEAN]
  BY ChanTypes
<1>r. /\ round \in RoundT /\ [round EXCEPT ![c] = "first"] \in RoundT
      /\ [round EXCEPT ![c] = "callback"] \in RoundT /\ [round EXCEPT ![c] = "again"] \in RoundT
      /\ at \in AtT /\ [at EXCEPT ![c] = 1] \in AtT /\ [at EXCEPT ![c] = @ + 1] \in AtT
      /\ hit \in CountT /\ [hit EXCEPT ![c] = 0] \in CountT /\ [hit EXCEPT ![c] = at[c]] \in CountT
      /\ done \in CountT /\ [done EXCEPT ![c] = 0] \in CountT /\ [done EXCEPT ![c] = @ + 1] \in CountT
  <2>1. /\ round \in RoundT /\ [round EXCEPT ![c] = "first"] \in RoundT
        /\ [round EXCEPT ![c] = "callback"] \in RoundT /\ [round EXCEPT ![c] = "again"] \in RoundT
    BY ChanTypes
  <2>2. at \in AtT /\ [at EXCEPT ![c] = 1] \in AtT /\ [at EXCEPT ![c] = @ + 1] \in AtT
    BY ChanTypes
  <2>3. hit \in CountT /\ [hit EXCEPT ![c] = 0] \in CountT /\ [hit EXCEPT ![c] = at[c]] \in CountT
    BY ChanTypes
  <2>4. done \in CountT /\ [done EXCEPT ![c] = 0] \in CountT /\ [done EXCEPT ![c] = @ + 1] \in CountT
    BY ChanTypes
  <2> QED  BY <2>1, <2>2, <2>3, <2>4
<1> HIDE DEF WakeT, CallT, PcT, WatchT, FlagT, AheadT, RoundT, AtT, CountT
<1>c. UNCHANGED selVars => RunT
  BY <1>r DEF selVars
<1>1. CASE UNCHANGED selVars /\ WriteLocked(c)
  <2>1. CASE PushItem(c, call[c].ch)
    <3>1. Local
      BY <2>1, <1>a, <1>b, <1>p, <1>f, <1>n DEF PushItem, Return
    <3> QED  BY <1>1, <1>c, <3>1
  <2>2. CASE /\ chanVars' = chanVars /\ wake' = wake /\ ahead' = ahead /\ chanCancel' = chanCancel
             /\ Return(c) \/ (Goto(c, "bind") /\ call' = call)
    <3>1. Local
      BY <2>2, <1>a, <1>b, <1>p, <1>f, <1>n DEF Return, chanVars
    <3> QED  BY <1>1, <1>c, <3>1
  <2> QED  BY <1>1, <2>1, <2>2 DEF WriteLocked
<1>2. CASE UNCHANGED selVars /\ WriteRefLocked(c)
  <2>1. wake' \in WakeT
    BY <1>2, <1>b DEF WriteRefLocked
  <2>2. call' \in CallT /\ chanPc' \in PcT
    BY <1>2, <1>a, <1>p DEF WriteRefLocked, Return
  <2>3. ahead' \in AheadT
    BY <1>2, <1>0, <1>n DEF WriteRefLocked
  <2>4. /\ reading' = reading /\ rwatch' = rwatch /\ wwatch' = wwatch
        /\ chanCancel' = chanCancel
    BY <1>2 DEF WriteRefLocked
  <2> QED  BY <1>2, <1>c, <2>1, <2>2, <2>3, <2>4, <1>f, <1>n
<1>3. CASE UNCHANGED selVars /\ ReadLocked(c)
  <2> DEFINE o == call[c].op
             k == IF o = "ReadAll" THEN items[call[c].ch] ELSE 1
  <2>1. CASE /\ chanVars' = chanVars /\ call' = call /\ wake' = wake /\ ahead' = ahead
             /\ chanCancel' = chanCancel
             /\ (Goto(c, "release") \/ Goto(c, "bind"))
    BY <1>3, <1>c, <2>1, <1>a, <1>b, <1>p, <1>f, <1>n DEF chanVars
  <2>2. CASE /\ Take(call[c].ch, o, k) /\ Goto(c, "release")
             /\ UNCHANGED <<reading, call, chanCancel>>
    <3>1. k \in Int
      BY <1>0, ChanTypes
    <3> HIDE DEF k
    <3>2. ahead' \in AheadT
      BY <2>2, <3>1, <1>n DEF Take
    <3>3. rwatch' = rwatch /\ wwatch' = wwatch /\ wake' = Decided(EnableWrite(call[c].ch, k), "notify")
      BY <2>2 DEF Take
    <3> QED  BY <1>3, <1>c, <2>2, <3>2, <3>3, <1>a, <1>b, <1>p, <1>f, <1>n
  <2> QED  BY <1>3, <2>1, <2>2 DEF ReadLocked
<1>4. CASE UNCHANGED selVars /\ (Release(c) \/ Bind(c) \/ BindFails(c) \/ ResumeWait(c))
  BY <1>4, <1>0, <1>c, <1>a, <1>b, <1>p, <1>f, <1>n
     DEF Release, Bind, BindFails, ResumeWait, Return, chanVars
<1>5. CASE UNCHANGED selVars /\ CloseLocked(c)
  BY <1>5, <1>0, <1>c, <1>a, <1>b, <1>p, <1>f, <1>n DEF CloseLocked, Return
<1>6. CASE UNCHANGED selVars /\ (Callback(c) \/ Timeout(c) \/ RequestCancel(c))
  <2>1. wake' \in WakeT
    BY <1>6, <1>b DEF Callback, Timeout, RequestCancel
  <2>2. chanPc' \in PcT /\ chanCancel' \in [ChanCos -> BOOLEAN]
    BY <1>6, <1>p, <1>n DEF Callback, Timeout, RequestCancel
  <2>3. reading' = reading /\ rwatch' = rwatch /\ wwatch' = wwatch /\ call' = call /\ ahead' = ahead
    BY <1>6 DEF Callback, Timeout, RequestCancel
  <2>4. Local
    BY <2>1, <2>2, <2>3, <1>a, <1>f, <1>n
  <2> QED  BY <1>6, <1>c, <2>4
<1>8. CASE UNCHANGED selVars
           /\ \E o \in Writes \cup Reads \cup {"Close"}, x \in Chans : Enter(c, o, x)
  <2>0. PICK o \in Writes \cup Reads \cup {"Close"}, x \in Chans : Enter(c, o, x)
    BY <1>8
  <2>1. call' \in CallT /\ chanPc' \in PcT /\ ahead' \in AheadT
    BY <2>0, <1>a, <1>p, <1>n DEF Enter
  <2>2. reading' \in FlagT /\ rwatch' = rwatch /\ wwatch' = wwatch
    BY <2>0, <1>f DEF Enter
  <2>3. wake' = wake /\ chanCancel' = chanCancel
    BY <2>0 DEF Enter
  <2> QED  BY <1>8, <1>c, <2>1, <2>2, <2>3, <1>b, <1>f, <1>n
<1>9. CASE \E o \in Selects : Run(c, o)
  BY <1>9, <1>c, <1>a, <1>b, <1>p, <1>f, <1>n DEF Run, chanVars
<1>10. CASE TakeCase(c)
  <2>1. /\ reading' = reading /\ call' = call /\ chanCancel' = chanCancel /\ chanPc' \in PcT
        /\ round' = round /\ at' = at /\ hit' \in CountT /\ done' \in CountT
    BY <1>10, <1>p, <1>r DEF TakeCase
  <2>2. CASE Take(Case(c)[2], "TryRead", 1)
    <3>1. ahead' = ahead /\ rwatch' = rwatch /\ wwatch' = wwatch
          /\ wake' = Decided(EnableWrite(Case(c)[2], 1), "notify")
      BY <2>2 DEF Take, OnRefs
    <3> QED  BY <2>1, <3>1, <1>a, <1>b, <1>f, <1>n, <1>r
  <2>3. CASE UNCHANGED <<items, refs, closed, conds, rwatch, wwatch, wake, ahead, hit, done>>
    BY <2>1, <2>3, <1>a, <1>b, <1>f, <1>n, <1>r
  <2> QED  BY <1>10, <2>2, <2>3 DEF TakeCase
<1>k. Ready(c) \/ NotReady(c) => chanPc' \in PcT /\ at' \in AtT /\ hit' \in CountT
  BY <1>p, <1>r DEF Ready, NotReady
<1>11. CASE TryWriteCase(c)
  <2>1. /\ reading' = reading /\ rwatch' = rwatch /\ wwatch' = wwatch /\ call' = call
        /\ ahead' = ahead /\ chanCancel' = chanCancel /\ round' = round
        /\ Ready(c) \/ NotReady(c)
    BY <1>11 DEF TryWriteCase
  <2>2. wake' \in WakeT /\ done' \in CountT
    BY <1>11, <1>b, <1>r DEF TryWriteCase
  <2> QED  BY <1>a, <1>f, <1>k, <1>n, <1>p, <1>r, <2>1, <2>2
<1>12. CASE TryReadCase(c)
  <2>0. Case(c)[2] \in Chans
    BY <1>12, SelectPoint DEF TryReadCase, Trying
  <2> QED  BY <1>12, <2>0, <1>a, <1>b, <1>p, <1>f, <1>n, <1>r DEF TryReadCase, Ready, NotReady
<1>13. CASE DropCase(c)
  <2>0. Case(c)[2] \in Chans
    BY <1>13, SelectPoint DEF DropCase, Trying
  <2> QED  BY <1>13, <2>0, <1>a, <1>b, <1>p, <1>f, <1>n, <1>r DEF DropCase, Ready, NotReady
<1>14. CASE Tried(c)
  BY <1>14, <1>a, <1>b, <1>p, <1>f, <1>n, <1>r DEF Tried, chanVars
<1>15. CASE SelectBindFails(c) \/ ResumeSelect(c)
  BY <1>15, <1>a, <1>b, <1>p, <1>f, <1>n, <1>r DEF SelectBindFails, ResumeSelect, chanVars
<1>16. CASE Watch(c)
  <2>0. Case(c)[2] \in Chans
    BY <1>16, SelectPoint DEF Watch
  <2> QED  BY <1>16, <2>0, <1>a, <1>b, <1>p, <1>f, <1>n, <1>r DEF Watch
<1>17. CASE Unwatch(c)
  <2>0. Case(c)[2] \in Chans
    BY <1>17, SelectPoint DEF Unwatch
  <2> QED  BY <1>17, <2>0, <1>a, <1>b, <1>p, <1>f, <1>n, <1>r DEF Unwatch, Return
<1> QED
  BY <1>1, <1>2, <1>3, <1>4, <1>5, <1>6, <1>8, <1>9, <1>10, <1>11, <1>12, <1>13, <1>14, <1>15, <1>16, <1>17,
     StepActions DEF ChanStep, SelectStep

-----------------------------------------------------------------------------
(* The program points of one coroutine.                                     *)

LEMMA OthersKeepPosture ==
    ASSUME ChanInv, NEW c \in ChanCos, Frame(c), NEW d \in ChanCos \ {c}
    PROVE  Posture(d)' /\ RunLocal(d)'
<1>1. Posture(d) /\ RunLocal(d)
  BY ChanParts
<1>2. /\ uses' = uses /\ chanPc'[d] = chanPc[d] /\ call'[d] = call[d] /\ round'[d] = round[d]
      /\ at'[d] = at[d] /\ hit'[d] = hit[d] /\ done'[d] = done[d]
      /\ wake'[d] = wake[d] \/ (wake[d] = "none" /\ wake'[d] = "notify")
  BY DEF Frame, Open
<1>3. Posture(d)'
  BY <1>1, <1>2 DEF Posture
<1>4. RunLocal(d)'
  BY <1>1, <1>2 DEF RunLocal, Case, Open
<1> QED  BY <1>3, <1>4

\* What c itself may do outside a Run: its wait goes on, and with it the point it
\* is at, or it is at a point that goes with its operation.
LEMMA ChanStepPosture ==
    ASSUME ChanInv, NEW c \in ChanCos, Step(c), Frame(c), UNCHANGED selVars,
           \/ ChanStep(c) \/ Timeout(c) \/ RequestCancel(c)
           \/ \E o \in Writes \cup Reads \cup {"Close"}, ch \in Chans : Enter(c, o, ch)
    PROVE  Posture(c)' /\ RunLocal(c)'
<1>0. Posture(c) /\ RunLocal(c) /\ uses' = uses
  BY ChanParts, StepActions
<1>s. round' = round /\ at' = at /\ hit' = hit /\ done' = done
  BY DEF selVars
<1>t. /\ call[c] \in [op : {"none", "Close"} \cup Writes \cup Reads \cup Selects, ch : Chans]
      /\ wake[c] \in {"unbound", "none", "notify", "timeout", "cancel"}
      /\ c \in DOMAIN chanPc /\ c \in DOMAIN call /\ c \in DOMAIN wake
      /\ NoCall.op = "none"
  BY ChanTypes, ChanConstants
<1>w. ASSUME NEW ch \in Chans, NEW k \in Nat,
             \/ wake' = wake
             \/ wake' = Decided(EnableRead(ch), "notify")
             \/ wake' = Decided(EnableWrite(ch, k), "notify")
      PROVE  wake'[c] = wake[c] \/ (wake[c] = "none" /\ wake'[c] = "notify")
  BY <1>w, NotifiedOpen, Notified DEF Open
<1>1. CASE WriteLocked(c)
  <2>1. /\ call[c].op \in Writes /\ chanPc[c] \in {"lock", "relock"}
        /\ \/ chanPc'[c] = "idle" /\ call'[c] = NoCall
           \/ chanPc'[c] = "bind" /\ call'[c] = call[c]
        /\ \/ wake' = wake
           \/ wake' = Decided(EnableRead(call[c].ch), "notify")
    BY <1>1, <1>t DEF WriteLocked, PushItem, Return, Goto
  <2>2. wake'[c] = wake[c] \/ (wake[c] = "none" /\ wake'[c] = "notify")
    BY <1>t, <1>w, <2>1
  <2>3. Posture(c)'
    BY <1>0, <1>s, <1>t, <2>1, <2>2 DEF Posture, Trying, Writes, Reads, Selects
  <2>4. RunLocal(c)'
    BY <1>0, <1>s, <1>t, <2>1 DEF RunLocal, Writes, Reads, Selects
  <2> QED  BY <2>3, <2>4
<1>2. CASE WriteRefLocked(c)
  <2>1. /\ call[c].op = "Write" /\ chanPc[c] = "lock"
        /\ \/ chanPc'[c] = "idle" /\ call'[c] = NoCall
           \/ chanPc'[c] = "bind" /\ call'[c] = call[c]
        /\ \/ wake' = wake
           \/ wake' = Decided(EnableRead(call[c].ch), "notify")
    BY <1>2, <1>t DEF WriteRefLocked, Return, Goto
  <2>2. wake'[c] = wake[c] \/ (wake[c] = "none" /\ wake'[c] = "notify")
    BY <1>t, <1>w, <2>1
  <2>3. Posture(c)'
    BY <1>0, <1>s, <1>t, <2>1, <2>2 DEF Posture, Trying, Writes, Reads, Selects
  <2>4. RunLocal(c)'
    BY <1>0, <1>s, <1>t, <2>1 DEF RunLocal, Writes, Reads, Selects
  <2> QED  BY <2>3, <2>4
<1>3. CASE ReadLocked(c)
  <2> DEFINE k == IF call[c].op = "ReadAll" THEN items[call[c].ch] ELSE 1
  <2>1. /\ call[c].op \in Reads /\ chanPc[c] = "lock" /\ call'[c] = call[c]
        /\ chanPc'[c] \in {"release", "bind"}
        /\ \/ wake' = wake
           \/ wake' = Decided(EnableWrite(call[c].ch, k), "notify")
    BY <1>3, <1>t DEF ReadLocked, Take, Goto
  <2>2. wake'[c] = wake[c] \/ (wake[c] = "none" /\ wake'[c] = "notify")
    <3>1. k \in Nat
      BY <1>t, ChanTypes
    <3> HIDE DEF k
    <3> QED  BY <1>t, <1>w, <2>1, <3>1
  <2>3. Posture(c)'
    BY <1>0, <1>s, <1>t, <2>1, <2>2 DEF Posture, Trying, Writes, Reads, Selects
  <2>4. RunLocal(c)'
    BY <1>0, <1>s, <1>t, <2>1 DEF RunLocal, Writes, Reads, Selects
  <2> QED  BY <2>3, <2>4
<1>4. CASE Release(c)
  <2>1. chanPc[c] = "release" /\ chanPc'[c] = "idle" /\ call'[c] = NoCall
    BY <1>4, <1>t DEF Release, Return, Goto
  <2>2. wake'[c] = wake[c]
    BY <1>4 DEF Release
  <2>a. call[c].op \in Reads
    BY <1>0, <1>t, <2>1 DEF Posture, Trying, Writes, Reads, Selects
  <2>3. Posture(c)'
    BY <1>0, <1>s, <1>t, <2>1, <2>2 DEF Posture, Trying, Writes, Reads, Selects
  <2>4. RunLocal(c)'
    BY <1>0, <1>s, <1>t, <2>1, <2>a DEF RunLocal, Writes, Reads, Selects
  <2> QED  BY <2>3, <2>4
<1>5. CASE CloseLocked(c)
  <2> DEFINE ch == call[c].ch
             cs == (IF reading[ch] THEN EnableRead(ch) ELSE {})
                     \cup {conds[ch][i] : i \in Live(conds[ch])}
                     \cup {w \in rwatch[ch] \cup wwatch[ch] : Open(w)}
  <2>1. call[c].op = "Close" /\ chanPc[c] = "lock" /\ chanPc'[c] = "idle" /\ call'[c] = NoCall
    BY <1>5, <1>t DEF CloseLocked, Return, Goto
  <2>2. wake'[c] = wake[c] \/ (wake[c] = "none" /\ wake'[c] = "notify")
    <3>1. wake' = Decided(cs, "notify")
      BY <1>5 DEF CloseLocked
    <3>2. \A d \in cs : Open(d)
      BY <1>t, NotifiedOpen DEF WaitingWriters
    <3> HIDE DEF cs
    <3> QED  BY <3>1, <3>2, Notified DEF Open
  <2>3. Posture(c)'
    BY <1>0, <1>s, <1>t, <2>1, <2>2 DEF Posture, Trying, Writes, Reads, Selects
  <2>4. RunLocal(c)'
    BY <1>0, <1>s, <1>t, <2>1 DEF RunLocal, Writes, Reads, Selects
  <2> QED  BY <2>3, <2>4
<1>6. CASE Bind(c)
  <2>1. chanPc[c] = "bind" /\ chanPc'[c] = "callback" /\ call'[c] = call[c]
    BY <1>6, <1>t DEF Bind, Goto
  <2>2. wake'[c] = "none"
    BY <1>6, <1>t DEF Bind
  <2>3. Posture(c)'
    BY <1>0, <1>s, <1>t, <2>1, <2>2 DEF Posture, Trying, Writes, Reads, Selects
  <2>4. RunLocal(c)'
    BY <1>0, <1>s, <1>t, <2>1 DEF RunLocal, Writes, Reads, Selects
  <2> QED  BY <2>3, <2>4
<1>7. CASE BindFails(c)
  <2>1. /\ chanPc[c] = "bind" /\ call[c].op \notin Selects
        /\ IF call[c].op \in Reads THEN chanPc'[c] = "release" /\ call'[c] = call[c]
                                   ELSE chanPc'[c] = "idle" /\ call'[c] = NoCall
    BY <1>7, <1>t DEF BindFails, Return, Goto
  <2>2. wake'[c] = wake[c]
    BY <1>7 DEF BindFails
  <2>3. Posture(c)'
    BY <1>0, <1>s, <1>t, <2>1, <2>2 DEF Posture, Trying, Writes, Reads, Selects
  <2>4. RunLocal(c)'
    BY <1>0, <1>s, <1>t, <2>1 DEF RunLocal, Writes, Reads, Selects
  <2> QED  BY <2>3, <2>4
<1>8. CASE Callback(c)
  <2>1. /\ chanPc[c] = "callback" /\ call[c].op \notin Selects
        /\ chanPc'[c] = "parked" /\ call'[c] = call[c]
    BY <1>8, <1>t DEF Callback, Goto
  <2>2. wake'[c] \in {wake[c], "notify", "cancel"}
    BY <1>8, <1>t DEF Callback
  <2>3. Posture(c)'
    BY <1>0, <1>s, <1>t, <2>1, <2>2 DEF Posture, Trying, Writes, Reads, Selects
  <2>4. RunLocal(c)'
    BY <1>0, <1>s, <1>t, <2>1 DEF RunLocal, Writes, Reads, Selects
  <2> QED  BY <2>3, <2>4
<1>9. CASE ResumeWait(c)
  <2>1. /\ chanPc[c] = "parked" /\ call[c].op \notin Selects
        /\ \/ chanPc'[c] = "lock" /\ call'[c] = call[c] /\ call[c].op \in Reads
           \/ chanPc'[c] = "relock" /\ call'[c] = call[c] /\ call[c].op \notin Reads
           \/ chanPc'[c] = "idle" /\ call'[c] = NoCall
    BY <1>9, <1>t DEF ResumeWait, Return, Goto
  <2>2. wake'[c] = "unbound"
    BY <1>9, <1>t DEF ResumeWait
  <2>3. Posture(c)'
    BY <1>0, <1>s, <1>t, <2>1, <2>2 DEF Posture, Trying, Writes, Reads, Selects
  <2>4. RunLocal(c)'
    BY <1>0, <1>s, <1>t, <2>1 DEF RunLocal, Writes, Reads, Selects
  <2> QED  BY <2>3, <2>4
<1>10. CASE Timeout(c) \/ RequestCancel(c)
  <2>1. chanPc'[c] = chanPc[c] /\ call'[c] = call[c]
    BY <1>10 DEF Timeout, RequestCancel
  <2>2. wake'[c] = wake[c] \/ (wake[c] = "none" /\ wake'[c] \in {"timeout", "cancel"})
    BY <1>10, <1>t DEF Timeout, RequestCancel, Open
  <2>3. Posture(c)'
    BY <1>0, <1>s, <1>t, <2>1, <2>2 DEF Posture, Trying, Writes, Reads, Selects
  <2>4. RunLocal(c)'
    BY <1>0, <1>s, <1>t, <2>1, <2>2 DEF RunLocal, Writes, Reads, Selects, Case, Open
  <2> QED  BY <2>3, <2>4
<1>11. CASE \E o \in Writes \cup Reads \cup {"Close"}, ch \in Chans : Enter(c, o, ch)
  <2>0. PICK o \in Writes \cup Reads \cup {"Close"}, ch \in Chans : Enter(c, o, ch)
    BY <1>11
  <2>1. /\ chanPc[c] = "idle" /\ chanPc'[c] = "lock" /\ call'[c] = [op |-> o, ch |-> ch]
        /\ <<c, o, ch>> \in uses
    BY <2>0, <1>t DEF Enter, Goto
  <2>2. wake'[c] = wake[c]
    BY <2>0 DEF Enter
  <2>3. Posture(c)'
    BY <1>0, <1>s, <1>t, <2>1, <2>2 DEF Posture, Trying, Writes, Reads, Selects
  <2>a. call[c].op = "none"
    BY <1>0, <2>1 DEF Posture
  <2>4. RunLocal(c)'
    BY <1>0, <1>s, <1>t, <2>1, <2>a DEF RunLocal, Writes, Reads, Selects
  <2> QED  BY <2>3, <2>4
<1> QED
  BY <1>1, <1>2, <1>3, <1>4, <1>5, <1>6, <1>7, <1>8, <1>9, <1>10, <1>11 DEF ChanStep
LEMMA SelectStepPosture ==
    ASSUME ChanInv, NEW c \in ChanCos, Step(c), Frame(c),
           SelectStep(c) \/ \E o \in Selects : Run(c, o)
    PROVE  Posture(c)' /\ RunLocal(c)'
<1>0. Posture(c) /\ RunLocal(c) /\ uses' = uses
  BY ChanParts, StepActions
<1>t. /\ call[c] \in [op : {"none", "Close"} \cup Writes \cup Reads \cup Selects, ch : Chans]
      /\ wake[c] \in {"unbound", "none", "notify", "timeout", "cancel"}
      /\ round[c] \in {"first", "callback", "again"}
      /\ at[c] \in Nat \ {0} /\ hit[c] \in Nat /\ done[c] \in Nat
      /\ c \in DOMAIN chanPc /\ c \in DOMAIN call /\ c \in DOMAIN wake /\ c \in DOMAIN round
      /\ c \in DOMAIN at /\ c \in DOMAIN hit /\ c \in DOMAIN done
      /\ NoCall.op = "none"
  BY ChanTypes, ChanConstants
<1>w. ASSUME NEW ch \in Chans, NEW k \in Nat,
             \/ wake' = wake
             \/ wake' = Decided(EnableRead(ch), "notify")
             \/ wake' = Decided(EnableWrite(ch, k), "notify")
      PROVE  wake'[c] = wake[c] \/ (wake[c] = "none" /\ wake'[c] = "notify")
  BY <1>w, NotifiedOpen, Notified DEF Open
<1>l. call[c].op \in Selects => /\ Len(Cases[c]) \in Nat \ {0} /\ at[c] <= Len(Cases[c])
                                /\ Case(c)[2] \in Chans
  BY SelectPoint
<1>1. CASE \E o \in Selects : Run(c, o)
  <2>0. PICK o \in Selects : Run(c, o)
    BY <1>1
  <2>1. /\ chanPc[c] = "idle" /\ chanPc'[c] = "try" /\ call'[c].op = o
        /\ \E ch \in Chans : <<c, o, ch>> \in uses
        /\ wake'[c] = wake[c] /\ round'[c] = round[c] /\ at'[c] = at[c]
        /\ hit'[c] = hit[c] /\ done'[c] = done[c]
    BY <2>0, <1>t DEF Run, Goto, selVars
  <2>2. call[c].op = "none"
    BY <1>0, <2>1 DEF Posture
  <2>3. /\ round[c] = "first" /\ at[c] = 1 /\ hit[c] = 0 /\ done[c] = 0 /\ wake[c] = "unbound"
    BY <1>0, <2>1, <2>2 DEF RunLocal, Posture, Selects, Trying
  <2>4. Posture(c)'
    BY <1>0, <2>1, <2>3 DEF Posture, Trying, Selects, Reads, Writes
  <2>5. Len(Cases[c]) >= 1
    <3>1. c \in DOMAIN Cases
      <4>1. uses \in Scenarios
        BY ChanTypes
      <4>2. \A u \in uses : u[2] \in Selects => u[1] \in DOMAIN Cases
        BY <4>1, CasesAssumption DEF CasesAssumption
      <4> QED  BY <2>1, <4>2
    <3>2. Cases[c] \in Seq({"read", "write"} \X Chans) /\ Len(Cases[c]) > 0
      BY <3>1, CasesAssumption DEF CasesAssumption
    <3> QED  BY <3>2, LenProperties
  <2>6. RunLocal(c)'
    BY <2>1, <2>3, <2>5 DEF RunLocal
  <2> QED  BY <2>4, <2>6
<1>2. ASSUME SelectStep(c)
      PROVE  /\ call[c].op \in Selects /\ \E ch \in Chans : <<c, call[c].op, ch>> \in uses
             /\ ~Unwatch(c) => call'[c] = call[c]
             /\ wake[c] = "unbound" <=> ~(\/ chanPc[c] \in {"callback", "parked"}
                                          \/ chanPc[c] \in Trying /\ round[c] = "callback")
  <2>1. call[c].op \in Selects
    BY <1>2, SelectPoint DEF SelectStep, TryReadCase, TakeCase, DropCase, TryWriteCase, Tried,
       SelectBindFails, Watch, ResumeSelect, Unwatch, Trying
  <2>2. ~Unwatch(c) => call'[c] = call[c]
    BY <1>2 DEF SelectStep, TryReadCase, TakeCase, DropCase, TryWriteCase, Tried,
       SelectBindFails, Watch, ResumeSelect
  <2> QED  BY <1>0, <2>1, <2>2 DEF Posture
<1>3. CASE TryReadCase(c)
  <2>1. /\ chanPc[c] = "try" /\ Case(c)[1] = "read"
        /\ round'[c] = round[c] /\ done'[c] = done[c] /\ wake'[c] = wake[c]
        /\ \/ hit'[c] = at[c] /\ chanPc'[c] = "tried" /\ at'[c] = at[c]
           \/ /\ hit'[c] = hit[c]
              /\ IF at[c] < Len(Cases[c]) THEN at'[c] = at[c] + 1 /\ chanPc'[c] = "try"
                                          ELSE at'[c] = at[c] /\ chanPc'[c] = "tried"
           \/ hit'[c] = hit[c] /\ at'[c] = at[c] /\ chanPc'[c] = "take"
    BY <1>3, <1>t DEF TryReadCase, Ready, NotReady, Goto
  <2>2. call[c].op \in Selects /\ call'[c] = call[c] /\ hit[c] = 0 /\ done[c] = 0
    BY <1>0, <1>2, <1>3, <2>1 DEF SelectStep, Unwatch, RunLocal
  <2>3. Posture(c)'
    BY <1>0, <1>3, <1>2, <2>1, <2>2 DEF Posture, SelectStep, Trying, Selects, Reads, Writes
  <2>4. RunLocal(c)'
    BY <1>0, <1>t, <1>l, <2>1, <2>2 DEF RunLocal, Case
  <2> QED  BY <2>3, <2>4
<1>4. CASE TakeCase(c)
  <2>0. /\ chanPc[c] = "take" /\ chanPc'[c] = "drop" /\ round'[c] = round[c] /\ at'[c] = at[c]
        /\ \/ hit'[c] = at[c] /\ done'[c] = done[c] + 1
           \/ hit'[c] = hit[c] /\ done'[c] = done[c]
        /\ wake' = wake \/ wake' = Decided(EnableWrite(Case(c)[2], 1), "notify")
    BY <1>4, <1>t DEF TakeCase, Take, Goto
  <2>a. wake'[c] = wake[c] \/ (wake[c] = "none" /\ wake'[c] = "notify")
    BY <2>0, <1>w, <1>l, <1>2, <1>4 DEF SelectStep
  <2>1. /\ chanPc[c] = "take" /\ chanPc'[c] = "drop" /\ round'[c] = round[c] /\ at'[c] = at[c]
        /\ \/ hit'[c] = at[c] /\ done'[c] = done[c] + 1
           \/ hit'[c] = hit[c] /\ done'[c] = done[c]
        /\ wake'[c] = wake[c] \/ (wake[c] = "none" /\ wake'[c] = "notify")
    BY <2>0, <2>a
  <2>2. call[c].op \in Selects /\ call'[c] = call[c] /\ hit[c] = 0 /\ done[c] = 0
    BY <1>0, <1>2, <1>4, <2>1 DEF SelectStep, Unwatch, RunLocal
  <2>3. Posture(c)'
    BY <1>0, <1>t, <1>4, <1>2, <2>1, <2>2 DEF Posture, SelectStep, Trying, Selects, Reads, Writes
  <2>4. RunLocal(c)'
    BY <1>0, <1>t, <1>l, <2>1, <2>2 DEF RunLocal, Case, Open
  <2> QED  BY <2>3, <2>4
<1>5. CASE DropCase(c)
  <2>1. /\ chanPc[c] = "drop" /\ round'[c] = round[c] /\ done'[c] = done[c] /\ wake'[c] = wake[c]
        /\ \/ hit[c] = at[c] /\ hit'[c] = at[c] /\ chanPc'[c] = "tried" /\ at'[c] = at[c]
           \/ /\ hit[c] # at[c] /\ hit'[c] = hit[c]
              /\ IF at[c] < Len(Cases[c]) THEN at'[c] = at[c] + 1 /\ chanPc'[c] = "try"
                                          ELSE at'[c] = at[c] /\ chanPc'[c] = "tried"
    BY <1>5, <1>t DEF DropCase, Ready, NotReady, Goto
  <2>2. call[c].op \in Selects /\ call'[c] = call[c] /\ hit[c] \in {0, at[c]}
    BY <1>0, <1>2, <1>5, <2>1 DEF SelectStep, Unwatch, RunLocal
  <2>3. Posture(c)'
    BY <1>0, <1>t, <1>5, <1>2, <2>1, <2>2 DEF Posture, SelectStep, Trying, Selects, Reads, Writes
  <2>4. RunLocal(c)'
    BY <1>0, <1>t, <1>l, <2>1, <2>2 DEF RunLocal, Case, Open
  <2> QED  BY <2>3, <2>4
<1>6. CASE TryWriteCase(c)
  <2>0. /\ chanPc[c] = "try" /\ round'[c] = round[c]
        /\ \/ /\ hit'[c] = at[c] /\ chanPc'[c] = "tried" /\ at'[c] = at[c]
              /\ done'[c] \in {done[c], done[c] + 1}
           \/ /\ hit'[c] = hit[c] /\ done'[c] = done[c]
              /\ IF at[c] < Len(Cases[c]) THEN at'[c] = at[c] + 1 /\ chanPc'[c] = "try"
                                          ELSE at'[c] = at[c] /\ chanPc'[c] = "tried"
        /\ wake' = wake \/ wake' = Decided(EnableRead(Case(c)[2]), "notify")
    BY <1>6, <1>t DEF TryWriteCase, Ready, NotReady, Goto
  <2>a. wake'[c] = wake[c] \/ (wake[c] = "none" /\ wake'[c] = "notify")
    BY <2>0, <1>w, <1>l, <1>2, <1>6 DEF SelectStep
  <2>1. /\ chanPc[c] = "try" /\ round'[c] = round[c]
        /\ \/ /\ hit'[c] = at[c] /\ chanPc'[c] = "tried" /\ at'[c] = at[c]
              /\ done'[c] \in {done[c], done[c] + 1}
           \/ /\ hit'[c] = hit[c] /\ done'[c] = done[c]
              /\ IF at[c] < Len(Cases[c]) THEN at'[c] = at[c] + 1 /\ chanPc'[c] = "try"
                                          ELSE at'[c] = at[c] /\ chanPc'[c] = "tried"
        /\ wake'[c] = wake[c] \/ (wake[c] = "none" /\ wake'[c] = "notify")
    BY <2>0, <2>a
  <2>2. call[c].op \in Selects /\ call'[c] = call[c] /\ hit[c] = 0 /\ done[c] = 0
    BY <1>0, <1>2, <1>6, <2>1 DEF SelectStep, Unwatch, RunLocal
  <2>3. Posture(c)'
    BY <1>0, <1>t, <1>6, <1>2, <2>1, <2>2 DEF Posture, SelectStep, Trying, Selects, Reads, Writes
  <2>4. RunLocal(c)'
    BY <1>0, <1>t, <1>l, <2>1, <2>2 DEF RunLocal, Case, Open
  <2> QED  BY <2>3, <2>4
<1>7. CASE Tried(c)
  <2>1. /\ chanPc[c] = "tried" /\ round'[c] = round[c] /\ hit'[c] = hit[c] /\ done'[c] = done[c]
        /\ \/ /\ round[c] = "callback" /\ chanPc'[c] = "parked" /\ at'[c] = at[c]
              /\ wake'[c] = IF hit[c] > 0 /\ wake[c] = "none" THEN "notify" ELSE wake[c]
           \/ /\ round[c] # "callback" /\ at'[c] = 1 /\ wake'[c] = wake[c]
              /\ \/ round[c] = "first" /\ hit[c] = 0 /\ chanPc'[c] = "bind"
                 \/ chanPc'[c] = "unwatch"
    BY <1>7, <1>t DEF Tried, Goto, Open
  <2>2. call[c].op \in Selects /\ call'[c] = call[c]
    BY <1>0, <1>2, <1>7, <2>1 DEF SelectStep, Unwatch, RunLocal
  <2>3. Posture(c)'
    BY <1>0, <1>t, <1>7, <1>2, <2>1, <2>2 DEF Posture, SelectStep, Trying, Selects, Reads, Writes
  <2>4. RunLocal(c)'
    BY <1>0, <1>t, <1>l, <2>1, <2>2 DEF RunLocal, Case, Open
  <2> QED  BY <2>3, <2>4
<1>8. CASE SelectBindFails(c)
  <2>1. /\ chanPc[c] = "bind" /\ chanPc'[c] = "try" /\ round'[c] = "again" /\ wake'[c] = wake[c]
        /\ at'[c] = at[c] /\ hit'[c] = hit[c] /\ done'[c] = done[c]
    BY <1>8, <1>t DEF SelectBindFails, Goto
  <2>2. call[c].op \in Selects /\ call'[c] = call[c] /\ hit[c] = 0 /\ done[c] = 0
    BY <1>0, <1>2, <1>8, <2>1 DEF SelectStep, Unwatch, RunLocal
  <2>3. Posture(c)'
    BY <1>0, <1>t, <1>8, <1>2, <2>1, <2>2 DEF Posture, SelectStep, Trying, Selects, Reads, Writes
  <2>4. RunLocal(c)'
    BY <1>0, <1>t, <1>l, <2>1, <2>2 DEF RunLocal, Case, Open
  <2> QED  BY <2>3, <2>4
<1>9. CASE Watch(c)
  <2>1. /\ chanPc[c] = "callback" /\ round'[c] = "callback" /\ hit'[c] = hit[c] /\ done'[c] = done[c]
        /\ wake'[c] = wake[c] \/ (wake[c] = "none" /\ wake'[c] = "cancel")
        /\ IF at[c] = Len(Cases[c]) THEN at'[c] = 1 /\ chanPc'[c] = "try"
                                    ELSE at'[c] = at[c] + 1 /\ chanPc'[c] = "callback"
    BY <1>9, <1>t DEF Watch, Goto, Open
  <2>2. call[c].op \in Selects /\ call'[c] = call[c] /\ hit[c] = 0 /\ done[c] = 0
    BY <1>0, <1>2, <1>9, <2>1 DEF SelectStep, Unwatch, RunLocal
  <2>3. Posture(c)'
    BY <1>0, <1>t, <1>9, <1>2, <2>1, <2>2 DEF Posture, SelectStep, Trying, Selects, Reads, Writes
  <2>4. RunLocal(c)'
    BY <1>0, <1>t, <1>l, <2>1, <2>2 DEF RunLocal, Case, Open
  <2> QED  BY <2>3, <2>4
<1>10. CASE ResumeSelect(c)
  <2>1. /\ chanPc[c] = "parked" /\ wake'[c] = "unbound" /\ round'[c] = "again" /\ at'[c] = 1
        /\ chanPc'[c] = IF hit[c] > 0 THEN "unwatch" ELSE "try"
        /\ hit'[c] = hit[c] /\ done'[c] = done[c]
    BY <1>10, <1>t DEF ResumeSelect, Goto
  <2>2. call[c].op \in Selects /\ call'[c] = call[c]
    BY <1>0, <1>2, <1>10, <2>1 DEF SelectStep, Unwatch, RunLocal
  <2>3. Posture(c)'
    BY <1>0, <1>t, <1>10, <1>2, <2>1, <2>2 DEF Posture, SelectStep, Trying, Selects, Reads, Writes
  <2>4. RunLocal(c)'
    BY <1>0, <1>t, <1>l, <2>1, <2>2 DEF RunLocal, Case, Open
  <2> QED  BY <2>3, <2>4
<1>11. CASE Unwatch(c)
  <2>1. /\ chanPc[c] = "unwatch" /\ wake'[c] = wake[c]
        /\ \/ /\ chanPc'[c] = "idle" /\ call'[c] = NoCall
              /\ at'[c] = 1 /\ round'[c] = "first" /\ hit'[c] = 0 /\ done'[c] = 0
           \/ /\ at[c] # Len(Cases[c])
              /\ at'[c] = at[c] + 1 /\ chanPc'[c] = chanPc[c] /\ call'[c] = call[c]
              /\ round'[c] = round[c] /\ hit'[c] = hit[c] /\ done'[c] = done[c]
    BY <1>11, <1>t DEF Unwatch, Return, Goto
  <2>2. call[c].op \in Selects
    BY <1>2, <1>11 DEF SelectStep
  <2>3. Posture(c)'
    BY <1>0, <1>t, <1>11, <1>2, <2>1, <2>2 DEF Posture, SelectStep, Trying, Selects, Reads, Writes
  <2>4. RunLocal(c)'
    BY <1>0, <1>t, <1>l, <2>1, <2>2 DEF RunLocal, Case, Open, Selects
  <2> QED  BY <2>3, <2>4
<1> QED
  BY <1>1, <1>3, <1>4, <1>5, <1>6, <1>7, <1>8, <1>9, <1>10, <1>11 DEF SelectStep

LEMMA PostureStep ==
    ASSUME ChanInv, NEW c \in ChanCos, Step(c), Frame(c)
    PROVE  \A d \in ChanCos : Posture(d)' /\ RunLocal(d)'
<1> SUFFICES ASSUME NEW d \in ChanCos  PROVE Posture(d)' /\ RunLocal(d)'
  OBVIOUS
<1>1. CASE d # c
  BY <1>1, OthersKeepPosture
<1>2. CASE d = c
  BY <1>2, StepActions, ChanStepPosture, SelectStepPosture
<1> QED  BY <1>1, <1>2

-----------------------------------------------------------------------------
(* The flag m_is_reading.                                                   *)

LEMMA FlagOfChannel ==
    ASSUME ChanInv, NEW c \in ChanCos, Frame(c), NEW ch \in Chans,
           \/ reading'[ch] = reading[ch] /\ (Holds(c, ch)' <=> Holds(c, ch))
           \/ ~reading[ch] /\ reading'[ch] /\ Holds(c, ch)'
           \/ Holds(c, ch) /\ ~reading'[ch] /\ ~Holds(c, ch)'
    PROVE  FlagOf(ch)'
<1>1. FlagOf(ch)
  BY ChanParts DEF FlagHeld
<1>2. ASSUME NEW d \in ChanCos \ {c}
      PROVE  Holds(d, ch)' <=> Holds(d, ch)
  BY DEF Frame, Holds, Case
<1>3. /\ \A d \in ChanCos \ {c} : Holds(d, ch)' <=> Holds(d, ch)
  BY <1>2
<1> DEFINE H == {d \in ChanCos : Holds(d, ch)}
           G == {d \in ChanCos : Holds(d, ch)'}
<1>4. \A d \in ChanCos : (d \in H <=> Holds(d, ch)) /\ (d \in G <=> Holds(d, ch)')
  OBVIOUS
<1>5. /\ reading[ch] => \E d \in ChanCos : d \in H
      /\ \A d \in ChanCos : d \in H => reading[ch]
      /\ \A d, e \in ChanCos : d \in H /\ e \in H => d = e
  BY <1>1 DEF FlagOf
<1>6. \/ reading'[ch] = reading[ch] /\ (c \in G <=> c \in H)
      \/ ~reading[ch] /\ reading'[ch] /\ c \in G
      \/ c \in H /\ ~reading'[ch] /\ c \notin G
  BY <1>4
<1>7. \A d \in ChanCos \ {c} : d \in G <=> d \in H
  BY <1>3, <1>4
<1>8. reading[ch] \in BOOLEAN
  BY ChanTypes
<1>9. FlagOf(ch)' <=> /\ reading'[ch] => \E d \in ChanCos : d \in G
                      /\ \A d \in ChanCos : d \in G => reading'[ch]
                      /\ \A d, e \in ChanCos : d \in G /\ e \in G => d = e
  BY DEF FlagOf
<1> HIDE DEF H, G
<1>10. CASE reading'[ch] = reading[ch] /\ (c \in G <=> c \in H)
  BY <1>5, <1>7, <1>9, <1>10
<1>11. CASE ~reading[ch] /\ reading'[ch] /\ c \in G
  BY <1>5, <1>7, <1>9, <1>11
<1>12. CASE c \in H /\ ~reading'[ch] /\ c \notin G
  BY <1>5, <1>7, <1>9, <1>12
<1> QED  BY <1>6, <1>10, <1>11, <1>12
LEMMA FlagStep ==
    ASSUME ChanInv, NEW c \in ChanCos, Step(c), Frame(c)
    PROVE  FlagHeld'
<1> SUFFICES ASSUME NEW ch \in Chans
             PROVE  \/ reading'[ch] = reading[ch] /\ (Holds(c, ch)' <=> Holds(c, ch))
                    \/ ~reading[ch] /\ reading'[ch] /\ Holds(c, ch)'
                    \/ Holds(c, ch) /\ ~reading'[ch] /\ ~Holds(c, ch)'
  <2>1. ASSUME NEW ch \in Chans,
               \/ reading'[ch] = reading[ch] /\ (Holds(c, ch)' <=> Holds(c, ch))
               \/ ~reading[ch] /\ reading'[ch] /\ Holds(c, ch)'
               \/ Holds(c, ch) /\ ~reading'[ch] /\ ~Holds(c, ch)'
        PROVE  FlagOf(ch)'
    BY <2>1, FlagOfChannel
  <2> QED  BY <2>1 DEF FlagHeld
<1>0. Posture(c) /\ RunLocal(c)
  BY ChanParts
<1>t. /\ call[c] \in [op : {"none", "Close"} \cup Writes \cup Reads \cup Selects, ch : Chans]
      /\ c \in DOMAIN chanPc /\ c \in DOMAIN call /\ c \in DOMAIN at
      /\ reading \in [Chans -> BOOLEAN]
      /\ NoCall.op = "none"
  BY ChanTypes, ChanConstants
<1>l. chanPc[c] \in Trying \cup {"unwatch"} => call[c].op \in Selects
  BY SelectPoint
\* At these points, and before or after a call, the flag is nothing to c.
<1>k. (chanPc[c] \notin {"take", "drop"} /\ call[c].op \notin Reads) => ~Holds(c, ch)
  BY DEF Holds
<1>m. (chanPc'[c] \notin {"take", "drop"} /\ call'[c].op \notin Reads) => ~Holds(c, ch)'
  BY DEF Holds
<1>1. CASE WriteLocked(c) \/ WriteRefLocked(c) \/ CloseLocked(c)
  <2>1. /\ reading' = reading /\ call[c].op \notin Reads /\ chanPc[c] \in {"lock", "relock"}
        /\ chanPc'[c] \in {"idle", "bind"}
        /\ call'[c] = NoCall \/ call'[c] = call[c]
    BY <1>1, <1>t DEF WriteLocked, WriteRefLocked, CloseLocked, PushItem, Return, Goto, chanVars,
       Writes, Reads
  <2> QED  BY <1>t, <1>k, <1>m, <2>1 DEF Reads
<1>2. CASE ReadLocked(c) \/ Callback(c) \/ Bind(c)
  <2>1. /\ reading' = reading /\ call' = call /\ chanPc[c] \notin {"take", "drop"}
        /\ chanPc'[c] \notin {"take", "drop"}
    BY <1>2, <1>t DEF ReadLocked, Callback, Bind, Goto, chanVars
  <2> QED  BY <2>1 DEF Holds
<1>3. CASE UNCHANGED selVars /\ (Timeout(c) \/ RequestCancel(c))
  <2>1. reading' = reading /\ call' = call /\ chanPc' = chanPc /\ at' = at
    BY <1>3 DEF Timeout, RequestCancel, selVars
  <2> QED  BY <2>1 DEF Holds, Case
<1>4. CASE Release(c)
  <2>1. /\ chanPc[c] = "release" /\ chanPc'[c] = "idle" /\ call'[c] = NoCall
        /\ reading' = [reading EXCEPT ![call[c].ch] = FALSE]
    BY <1>4, <1>t DEF Release, Return, Goto
  <2>2. call[c].op \in Reads
    BY <1>0, <1>t, <2>1 DEF Posture, Trying, Writes, Reads, Selects
  <2>3. ~Holds(c, ch)'
    BY <1>t, <1>m, <2>1 DEF Reads
  <2>4. CASE call[c].ch = ch
    BY <1>t, <2>1, <2>2, <2>3, <2>4 DEF Holds
  <2>5. CASE call[c].ch # ch
    BY <1>t, <2>1, <2>3, <2>5 DEF Holds
  <2> QED  BY <2>4, <2>5
<1>5. CASE BindFails(c) \/ ResumeWait(c)
  <2>1. /\ reading' = reading /\ chanPc[c] \in {"bind", "parked"}
        /\ chanPc'[c] \in {"release", "idle", "lock", "relock"}
        /\ IF call[c].op \in Reads THEN call'[c] = call[c]
                                   ELSE call'[c] = NoCall \/ call'[c] = call[c]
    BY <1>5, <1>t DEF BindFails, ResumeWait, Return, Goto, chanVars
  <2> QED  BY <1>t, <1>k, <1>m, <2>1 DEF Holds, Reads
<1>6. CASE \E o \in Writes \cup Reads \cup {"Close"}, x \in Chans : Enter(c, o, x)
  <2>0. PICK o \in Writes \cup Reads \cup {"Close"}, x \in Chans : Enter(c, o, x)
    BY <1>6
  <2>1. /\ chanPc[c] = "idle" /\ chanPc'[c] = "lock" /\ call'[c] = [op |-> o, ch |-> x]
        /\ o \in Reads => ~reading[x]
        /\ reading'[ch] = IF ch = x THEN reading[x] \/ o \in Reads ELSE reading[ch]
    BY <2>0, <1>t DEF Enter, Goto
  <2>2. ~Holds(c, ch)
    <3>1. call[c].op = "none"
      BY <1>0, <2>1 DEF Posture
    <3> QED  BY <3>1, <2>1, <1>k DEF Reads
  <2>3. CASE o \in Reads /\ x = ch
    <3>1. Holds(c, ch)'
      BY <2>1, <2>3 DEF Holds
    <3> QED  BY <1>t, <2>1, <2>3, <3>1
  <2>4. CASE ~(o \in Reads /\ x = ch)
    <3>1. ~Holds(c, ch)'
      BY <2>1, <2>4 DEF Holds
    <3>2. reading'[ch] = reading[ch]
      BY <1>t, <2>1, <2>4
    <3> QED  BY <2>2, <3>1, <3>2
  <2> QED  BY <2>3, <2>4
<1>7. CASE \E o \in Selects : Run(c, o)
  <2>0. PICK o \in Selects : Run(c, o)
    BY <1>7
  <2>1. /\ chanPc[c] = "idle" /\ chanPc'[c] = "try" /\ call'[c].op = o /\ reading' = reading
    BY <2>0, <1>t DEF Run, Goto, chanVars
  <2>2. call[c].op = "none"
    BY <1>0, <2>1 DEF Posture
  <2> QED  BY <1>k, <1>m, <2>1, <2>2 DEF Reads, Selects
<1>8. CASE TryReadCase(c)
  <2>1. /\ chanPc[c] = "try" /\ call'[c] = call[c] /\ Case(c)[2] \in Chans
        /\ \/ chanPc'[c] \in {"try", "tried"} /\ reading' = reading
           \/ /\ chanPc'[c] = "take" /\ at'[c] = at[c] /\ ~reading[Case(c)[2]]
              /\ reading' = [reading EXCEPT ![Case(c)[2]] = TRUE]
    BY <1>8, <1>t, <1>l, SelectPoint DEF TryReadCase, Ready, NotReady, Goto, Trying
  <2>2. call[c].op \notin Reads
    BY <1>l, <2>1 DEF Trying, Reads, Selects
  <2>3. ~Holds(c, ch)
    BY <1>k, <2>1, <2>2
  <2>4. CASE chanPc'[c] \in {"try", "tried"} /\ reading' = reading
    BY <1>m, <2>1, <2>2, <2>3, <2>4
  <2>5. CASE /\ chanPc'[c] = "take" /\ at'[c] = at[c] /\ ~reading[Case(c)[2]]
             /\ reading' = [reading EXCEPT ![Case(c)[2]] = TRUE]
    <3>1. Holds(c, ch)' <=> Case(c)[2] = ch
      BY <2>1, <2>2, <2>5 DEF Holds, Case
    <3> QED  BY <1>t, <2>1, <2>3, <2>5, <3>1
  <2> QED  BY <2>1, <2>4, <2>5
<1>9. CASE TakeCase(c)
  <2>1. /\ chanPc[c] = "take" /\ call' = call /\ reading' = reading
        /\ chanPc'[c] = "drop" /\ at' = at
    BY <1>9, <1>t DEF TakeCase, Goto
  <2> QED  BY <2>1 DEF Holds, Case
<1>10. CASE DropCase(c)
  <2>1. /\ chanPc[c] = "drop" /\ call' = call /\ reading' = [reading EXCEPT ![Case(c)[2]] = FALSE]
        /\ chanPc'[c] \in {"try", "tried"}
    BY <1>10, <1>t DEF DropCase, Ready, NotReady, Goto
  <2>2. call[c].op \notin Reads
    BY <1>l, <2>1 DEF Trying, Reads, Selects
  <2>3. ~Holds(c, ch)' /\ (Holds(c, ch) <=> Case(c)[2] = ch)
    BY <1>m, <2>1, <2>2 DEF Holds
  <2> QED  BY <1>t, <2>1, <2>3
<1>11. CASE TryWriteCase(c) \/ Tried(c) \/ SelectBindFails(c) \/ Watch(c) \/ ResumeSelect(c)
  <2>1. /\ reading' = reading /\ call' = call /\ chanPc[c] \notin {"take", "drop"}
        /\ chanPc'[c] \notin {"take", "drop"}
    BY <1>11, <1>t DEF TryWriteCase, Tried, SelectBindFails, Watch, ResumeSelect, Ready, NotReady,
       Goto, chanVars
  <2> QED  BY <2>1 DEF Holds
<1>12. CASE Unwatch(c)
  <2>1. /\ reading' = reading /\ chanPc[c] = "unwatch" /\ chanPc'[c] \in {"idle", "unwatch"}
        /\ call'[c] = NoCall \/ call'[c] = call[c]
    BY <1>12, <1>t DEF Unwatch, Return, Goto
  <2>2. call[c].op \notin Reads
    BY <1>l, <2>1 DEF Reads, Selects
  <2> QED  BY <1>t, <1>k, <1>m, <2>1, <2>2 DEF Reads
<1> QED
  BY <1>1, <1>2, <1>3, <1>4, <1>5, <1>6, <1>7, <1>8, <1>9, <1>10, <1>11, <1>12,
     StepActions DEF ChanStep, SelectStep

-----------------------------------------------------------------------------
(* The writers in m_enable_write_conds.                                     *)

LEMMA Queue ==
    ASSUME ChanInv, NEW ch \in Chans
    PROVE  /\ conds[ch] \in Seq(Entries) /\ Len(conds[ch]) \in Nat
           /\ DOMAIN conds[ch] = 1 .. Len(conds[ch])
           /\ \A i \in 1 .. Len(conds[ch]) : conds[ch][i] \in Entries
           /\ \A i : i \in Live(conds[ch]) <=> i \in 1 .. Len(conds[ch]) /\ conds[ch][i] # Dead
           /\ \A i \in Live(conds[ch]) : conds[ch][i] \in ChanCos /\ WaitsToWrite(conds[ch][i], ch)
           /\ \A i, j \in Live(conds[ch]) : conds[ch][i] = conds[ch][j] => i = j
<1>1. conds[ch] \in Seq(Entries)
  BY ChanTypes
<1>2. Len(conds[ch]) \in Nat /\ DOMAIN conds[ch] = 1 .. Len(conds[ch])
      /\ \A i \in 1 .. Len(conds[ch]) : conds[ch][i] \in Entries
  BY <1>1, LenProperties, ElementOfSeq
<1>3. \A i : i \in Live(conds[ch]) <=> i \in 1 .. Len(conds[ch]) /\ conds[ch][i] # Dead
  BY <1>2 DEF Live
<1>4. QueueOf(ch)
  BY ChanParts DEF WritersQueued
<1> QED  BY <1>1, <1>2, <1>3, <1>4 DEF QueueOf, Entries

\* A suspended writer does nothing by itself but stop waiting.
LEMMA WriterSleeps ==
    ASSUME ChanInv, NEW c \in ChanCos, Step(c), NEW ch, WaitsToWrite(c, ch)
    PROVE  WaitEnds(c)
<1>1. /\ call[c].op \in Writes /\ call[c].op \notin Selects
      /\ chanPc[c] = "parked" /\ wake[c] = "none"
  BY DEF WaitsToWrite, Open, Writes, Selects
<1>2. Timeout(c) \/ RequestCancel(c)
  BY <1>1, StepActions DEF ChanStep, SelectStep, WriteLocked, WriteRefLocked, ReadLocked, Release,
     CloseLocked, Bind, BindFails, Callback, ResumeWait, Enter, Run, TryReadCase, TakeCase, DropCase,
     TryWriteCase, Tried, SelectBindFails, Watch, ResumeSelect, Unwatch, Open
<1>3. wake'[c] # "none" /\ \A d \in ChanCos \ {c} : wake'[d] = wake[d]
  BY <1>1, <1>2, ChanTypes DEF Timeout, RequestCancel, Open
<1> QED  BY <1>1, <1>2, <1>3 DEF Timeout, RequestCancel, WaitEnds, Alone, Open

\* A writer is no reader and watches nothing.
LEMMA WritersApart ==
    ASSUME ChanInv, NEW ch \in Chans, NEW d \in ChanCos, call[d].op \in Writes
    PROVE  /\ d \notin EnableRead(ch) /\ d \notin rwatch[ch] /\ d \notin wwatch[ch]
           /\ \A k \in Nat : d \in EnableWrite(ch, k) => \E i \in Live(conds[ch]) : conds[ch][i] = d
<1>1. d \notin rwatch[ch] /\ d \notin wwatch[ch]
  BY ChanParts DEF Watchers, WatcherOf, Watches, Writes, Selects
<1> QED  BY <1>1 DEF EnableRead, ReadersOf, EnableWrite, Popped, Writes, Reads

LEMMA StaysQueued ==
    ASSUME NEW c, Frame(c), NEW ch, NEW d \in ChanCos \ {c}, WaitsToWrite(d, ch), wake'[d] = wake[d]
    PROVE  WaitsToWrite(d, ch)'
BY DEF Frame, WaitsToWrite, Open

LEMMA QueueNext ==
    ASSUME NEW ch, NEW q, conds'[ch] = q,
           \A i \in Live(q) : /\ call'[q[i]].op \in Writes /\ call'[q[i]].ch = ch
                              /\ chanPc'[q[i]] = "parked" /\ wake'[q[i]] = "none",
           \A i, j \in Live(q) : q[i] = q[j] => i = j
    PROVE  QueueOf(ch)'
BY DEF QueueOf, WaitsToWrite, Open

LEMMA QueueStep ==
    ASSUME ChanInv, NEW c \in ChanCos, Step(c), Frame(c), Effect(c)
    PROVE  WritersQueued'
<1> SUFFICES ASSUME NEW ch \in Chans  PROVE QueueOf(ch)'
  BY DEF WritersQueued
<1> DEFINE q == conds[ch]
<1>q. /\ q \in Seq(Entries) /\ Len(q) \in Nat
      /\ \A i \in 1 .. Len(q) : q[i] \in Entries
      /\ \A i : i \in Live(q) <=> i \in 1 .. Len(q) /\ q[i] # Dead
      /\ \A i \in Live(q) : q[i] \in ChanCos /\ WaitsToWrite(q[i], ch)
      /\ \A i, j \in Live(q) : q[i] = q[j] => i = j
  BY Queue
<1>c. ~WaitEnds(c) => \A i \in Live(q) : q[i] # c
  BY <1>q, WriterSleeps
<1>d. ASSUME NEW i \in Live(q), q[i] # c, wake'[q[i]] = wake[q[i]]
      PROVE  /\ call'[q[i]].op \in Writes /\ call'[q[i]].ch = ch
             /\ chanPc'[q[i]] = "parked" /\ wake'[q[i]] = "none"
  <2> HIDE DEF q
  <2> QED  BY <1>q, <1>d DEF Frame, WaitsToWrite, Open
\* If the queue is as it was and none of it has been notified, nothing changes.
<1>s. ASSUME conds'[ch] = q, ~WaitEnds(c), \A i \in Live(q) : wake'[q[i]] = wake[q[i]]
      PROVE  QueueOf(ch)'
  <2>1. \A i \in Live(q) : /\ call'[q[i]].op \in Writes /\ call'[q[i]].ch = ch
                            /\ chanPc'[q[i]] = "parked" /\ wake'[q[i]] = "none"
    BY <1>c, <1>d, <1>s
  <2> HIDE DEF q
  <2> QED  BY <1>q, <1>s, <2>1, QueueNext
<1>w. \A i \in Live(q) : call[q[i]].op \in Writes /\ call[q[i]].ch = ch /\ wake[q[i]] = "none"
  BY <1>q DEF WaitsToWrite, Open
<1>1. CASE WaitEnds(c)
  <2> DEFINE r == [i \in DOMAIN q |-> IF q[i] = c THEN Dead ELSE q[i]]
  <2>1. conds'[ch] = r /\ Alone(c)
    BY <1>1 DEF WaitEnds, Bury
  <2>2. \A i \in Live(r) : i \in Live(q) /\ q[i] # c /\ r[i] = q[i]
    BY DEF Live
  <2>3. \A i \in Live(r) : wake'[q[i]] = wake[q[i]]
    BY <1>q, <2>1, <2>2 DEF Alone
  <2> HIDE DEF r
  <2>4. \A i \in Live(r) : /\ call'[r[i]].op \in Writes /\ call'[r[i]].ch = ch
                            /\ chanPc'[r[i]] = "parked" /\ wake'[r[i]] = "none"
    BY <1>d, <2>2, <2>3
  <2>5. \A i, j \in Live(r) : r[i] = r[j] => i = j
    BY <1>q, <2>2
  <2> QED  BY <2>1, <2>4, <2>5, QueueNext
<1>2. CASE ~WaitEnds(c) /\ Quiet(c)
  <2>1. conds'[ch] = q /\ \A i \in Live(q) : wake'[q[i]] = wake[q[i]]
    BY <1>2, <1>c, <1>q DEF Quiet, Alone
  <2> QED  BY <1>2, <1>s, <2>1
<1>3. ASSUME NEW x \in Chans, Puts(x) \/ PutsRef(x), ~WaitEnds(c)
      PROVE  QueueOf(ch)'
  <2>1. conds' = conds /\ (wake' = wake \/ wake' = Decided(EnableRead(x), "notify"))
    BY <1>3 DEF Puts, PutsRef
  <2>2. \A i \in Live(q) : wake'[q[i]] = wake[q[i]]
    <3> SUFFICES ASSUME NEW i \in Live(q)  PROVE wake'[q[i]] = wake[q[i]]
      OBVIOUS
    <3> HIDE DEF q
    <3>1. q[i] \in ChanCos /\ q[i] \notin EnableRead(x)
      BY <1>q, <1>w, WritersApart
    <3> QED  BY <2>1, <3>1 DEF Decided
  <2> QED  BY <1>3, <1>s, <2>1, <2>2
<1>4. ASSUME NEW x \in Chans, Closes(x), ~WaitEnds(c)
      PROVE  QueueOf(ch)'
  <2>1. conds' = [conds EXCEPT ![x] = <<>>]
    BY <1>4 DEF Closes
  <2>2. CASE x = ch
    <3>1. conds'[ch] = <<>>
      BY <2>1, <2>2, ChanTypes
    <3>2. Live(<<>>) = {}
      BY DEF Live
    <3> QED  BY <3>1, <3>2, QueueNext
  <2>3. CASE x # ch
    <3>1. conds'[ch] = q
      BY <2>1, <2>3, ChanTypes
    <3>2. \A i \in Live(q) : wake'[q[i]] = wake[q[i]]
      <4> SUFFICES ASSUME NEW i \in Live(q)  PROVE wake'[q[i]] = wake[q[i]]
        OBVIOUS
      <4> HIDE DEF q
      <4>1. q[i] \in ChanCos /\ q[i] \notin EnableRead(x) /\ q[i] \notin rwatch[x] \cup wwatch[x]
        BY <1>q, <1>w, WritersApart
      <4>2. q[i] \notin {conds[x][j] : j \in Live(conds[x])}
        BY <1>w, <2>3, Queue DEF WaitsToWrite
      <4> QED  BY <1>4, <4>1, <4>2 DEF Closes, Decided
    <3> QED  BY <1>4, <1>s, <3>1, <3>2
  <2> QED  BY <2>2, <2>3
<1>5. ASSUME NEW x \in Chans, QueuesUp(c, x), ~WaitEnds(c)
      PROVE  QueueOf(ch)'
  <2>0. PICK e \in Entries : /\ conds' = [conds EXCEPT ![x] = Append(conds[x], e)]
                             /\ e # Dead => (e = c /\ wake'[c] = "none")
    BY <1>5 DEF QueuesUp
  <2>a. conds \in [Chans -> Seq(Entries)]
    BY ChanTypes
  <2>b. conds'[ch] = IF ch = x THEN Append(q, e) ELSE q
    BY <2>0, <2>a
  <2>c. e # Dead => (e = c /\ wake'[c] = "none")
    BY <2>0
  <2>1. \A i \in Live(q) : wake'[q[i]] = wake[q[i]]
    BY <1>5, <1>c, <1>q DEF QueuesUp, Alone
  <2>2. CASE x # ch
    <3>1. conds'[ch] = q
      BY <2>b, <2>2
    <3> QED  BY <1>5, <1>s, <2>1, <3>1
  <2>3. CASE x = ch
    <3> DEFINE r == Append(q, e)
    <3>1. conds'[ch] = r
      BY <2>b, <2>3
    <3> HIDE DEF q
    <3>2. Len(r) = Len(q) + 1 /\ DOMAIN r = 1 .. Len(q) + 1 /\ r[Len(q) + 1] = e
          /\ \A i \in 1 .. Len(q) : r[i] = q[i]
      BY <1>q
    <3> HIDE DEF r
    <3>3. \A i \in Live(r) : \/ i \in Live(q) /\ r[i] = q[i]
                             \/ i = Len(q) + 1 /\ r[i] = e /\ e # Dead
      BY <1>q, <3>2 DEF Live
    <3>4. \A i \in Live(r) : /\ call'[r[i]].op \in Writes /\ call'[r[i]].ch = ch
                              /\ chanPc'[r[i]] = "parked" /\ wake'[r[i]] = "none"
      <4> SUFFICES ASSUME NEW i \in Live(r)
                   PROVE  /\ call'[r[i]].op \in Writes /\ call'[r[i]].ch = ch
                          /\ chanPc'[r[i]] = "parked" /\ wake'[r[i]] = "none"
        OBVIOUS
      <4>1. CASE i \in Live(q) /\ r[i] = q[i]
        BY <1>5, <1>c, <1>d, <2>1, <4>1
      <4>2. CASE r[i] = c /\ wake'[c] = "none"
        BY <1>5, <2>3, <4>2 DEF QueuesUp
      <4> QED  BY <2>c, <3>3, <4>1, <4>2
    <3>5. \A i, j \in Live(r) : r[i] = r[j] => i = j
      BY <1>5, <1>c, <1>q, <2>c, <3>3
    <3> QED  BY <3>1, <3>4, <3>5, QueueNext
  <2> QED  BY <2>2, <2>3
<1>6. ASSUME NEW x \in Chans, Takes(c, x), ~WaitEnds(c)
      PROVE  QueueOf(ch)'
  <2>0. PICK o \in Reads, k \in Nat : k >= 1 /\ Take(x, o, k)
    BY <1>6 DEF Takes
  <2>1. conds' = [conds EXCEPT ![x] = PopConds(@, k)] /\ wake' = Decided(EnableWrite(x, k), "notify")
    BY <2>0 DEF Take
  <2>2. CASE x # ch
    <3>1. conds'[ch] = q
      BY <2>1, <2>2, ChanTypes
    <3>2. \A i \in Live(q) : wake'[q[i]] = wake[q[i]]
      <4> SUFFICES ASSUME NEW i \in Live(q)  PROVE wake'[q[i]] = wake[q[i]]
        OBVIOUS
      <4> HIDE DEF q
      <4>1. q[i] \in ChanCos /\ ~\E j \in Live(conds[x]) : conds[x][j] = q[i]
        BY <1>q, <1>w, <2>2, Queue DEF WaitsToWrite
      <4>2. q[i] \notin EnableWrite(x, k)
        BY <1>w, <4>1, <2>0, WritersApart
      <4> QED  BY <2>1, <4>1, <4>2 DEF Decided
    <3> QED  BY <1>6, <1>s, <3>1, <3>2
  <2>3. CASE x = ch
    <3> DEFINE r == PopConds(q, k)
    <3>1. conds'[ch] = r
      BY <2>1, <2>3, ChanTypes
    <3>2. CASE r = <<>>
      <4>1. Live(<<>>) = {}
        BY DEF Live
      <4> QED  BY <3>1, <3>2, <4>1, QueueNext
    <3>3. ASSUME NEW n \in 1 .. Len(q), Len(r) = Len(q) - n,
                 \A i \in 1 .. Len(q) - n : r[i] = q[i + n]
          PROVE  QueueOf(ch)'
      <4>0. r \in Seq(Entries)
        BY <1>q, <2>0, PopFacts
      <4>p. Popped(q, k) = {q[i] : i \in {j \in Live(q) : j <= Len(q) - Len(r)}}
        BY DEF Popped
      <4> HIDE DEF q, r
      <4>1. \A i \in Live(r) : i \in 1 .. Len(q) - n /\ i + n \in Live(q) /\ r[i] = q[i + n]
        <5>1. DOMAIN r = 1 .. Len(q) - n
          BY <3>3, <4>0, LenProperties
        <5> QED  BY <5>1, <1>q, <3>3 DEF Live
      <4>2. \A i \in Live(r) : r[i] \notin Popped(q, k)
        <5> SUFFICES ASSUME NEW i \in Live(r), NEW j \in Live(q), j <= Len(q) - Len(r), r[i] = q[j]
                     PROVE  FALSE
          BY <4>p
        <5>1. i + n = j /\ j <= n /\ i >= 1
          BY <1>q, <3>3, <4>1
        <5> QED  BY <5>1, <1>q, <4>1
      <4>3. \A i \in Live(r) : r[i] \notin EnableWrite(ch, k)
        <5>1. \A i \in Live(r) : r[i] \notin wwatch[ch]
          BY <1>q, <1>w, <4>1, WritersApart
        <5> QED  BY <4>2, <5>1 DEF EnableWrite, q
      <4>4. \A i \in Live(r) : wake'[r[i]] = wake[r[i]]
        BY <1>q, <2>1, <2>3, <4>1, <4>3 DEF Decided
      <4>5. \A i \in Live(r) : /\ call'[r[i]].op \in Writes /\ call'[r[i]].ch = ch
                                /\ chanPc'[r[i]] = "parked" /\ wake'[r[i]] = "none"
        BY <1>6, <1>c, <1>d, <4>1, <4>4
      <4>6. \A i, j \in Live(r) : r[i] = r[j] => i = j
        BY <1>q, <4>1
      <4> QED  BY <3>1, <4>5, <4>6, QueueNext
    <3>4. \/ r = <<>>
          \/ \E n \in 1 .. Len(q) : Len(r) = Len(q) - n /\ \A i \in 1 .. Len(q) - n : r[i] = q[i + n]
      <4>1. \/ r = <<>>
            \/ \E n \in 1 .. Len(q) : /\ Len(r) = Len(q) - n
                                      /\ \A i \in 1 .. Len(q) - n : r[i] = q[i + n]
                                      /\ Cardinality({j \in Live(q) : j <= n}) = k
        BY <1>q, <2>0, PopFacts
      <4> HIDE DEF q, r
      <4> QED  BY <4>1
    <3> HIDE DEF q, r
    <3> QED  BY <3>2, <3>3, <3>4
  <2> QED  BY <2>2, <2>3
<1> QED
  <2> HIDE DEF q
  <2> QED  BY <1>1, <1>2, <1>3, <1>4, <1>5, <1>6 DEF Effect

-----------------------------------------------------------------------------
(* The watchers of a Run.                                                   *)

OthersWatchAsBefore(c) ==
    \A d \in ChanCos \ {c} :
        \A ch \in Chans : (d \in rwatch'[ch] <=> d \in rwatch[ch])
                         /\ (d \in wwatch'[ch] <=> d \in wwatch[ch])

LEMMA OthersKeepWatchers ==
    ASSUME ChanInv, NEW c \in ChanCos, Frame(c), OthersWatchAsBefore(c), NEW d \in ChanCos \ {c}
    PROVE  WatcherOf(d)'
<1>0. \A ch \in Chans : (d \in rwatch'[ch] <=> d \in rwatch[ch])
                         /\ (d \in wwatch'[ch] <=> d \in wwatch[ch])
  BY DEF OthersWatchAsBefore
<1>1. WatcherOf(d)
  BY ChanParts DEF Watchers
<1>2. /\ chanPc'[d] = chanPc[d] /\ call'[d] = call[d] /\ round'[d] = round[d] /\ at'[d] = at[d]
  BY DEF Frame
<1>3. ASSUME NEW ch \in Chans
      PROVE  /\ d \in rwatch'[ch] => Watches(d, "read", ch)'
             /\ d \in wwatch'[ch] => Watches(d, "write", ch)'
  BY <1>0, <1>1, <1>2 DEF WatcherOf, Watches
<1>4. ASSUME call[d].op \in Selects, NEW i \in DOMAIN Cases[d],
             \/ chanPc'[d] = "callback" /\ i < at'[d]
             \/ chanPc'[d] \in Trying \cup {"parked"} /\ round'[d] = "callback"
      PROVE  Registered(d, i)'
  <2>1. Cases[d][i][2] \in Chans
    BY <1>4, SelectPoint
  <2>2. Registered(d, i)
    BY <1>1, <1>2, <1>4 DEF WatcherOf
  <2> QED  BY <1>0, <2>1, <2>2 DEF Registered
<1> QED  BY <1>2, <1>3, <1>4 DEF WatcherOf

\* The steps that leave the watchers of c, and what they depend on, as they are.
LEMMA ActorKeepsWatchers ==
    ASSUME ChanInv, NEW c \in ChanCos, rwatch' = rwatch, wwatch' = wwatch,
           \/ call[c].op \notin Selects /\ call'[c].op \notin Selects
           \/ call[c].op \notin Selects /\ round'[c] # "callback" /\ chanPc'[c] # "callback"
           \/ /\ call'[c] = call[c]
              /\ chanPc'[c] = "unwatch" => at'[c] = 1
              /\ chanPc'[c] = "callback" => chanPc[c] = "callback" /\ at'[c] = at[c]
              /\ (chanPc'[c] \in Trying \cup {"parked"} /\ round'[c] = "callback")
                   => (chanPc[c] \in Trying \cup {"parked"} /\ round[c] = "callback")
    PROVE  WatcherOf(c)'
<1>1. WatcherOf(c)
  BY ChanParts DEF Watchers
<1>2. CASE call[c].op \notin Selects
  <2>1. \A ch \in Chans : c \notin rwatch[ch] /\ c \notin wwatch[ch]
    BY <1>1, <1>2 DEF WatcherOf, Watches
  <2>2. call'[c].op \in Selects => ~(\/ chanPc'[c] = "callback"
                                     \/ chanPc'[c] \in Trying \cup {"parked"} /\ round'[c] = "callback")
    BY <1>2
  <2> QED  BY <2>1, <2>2 DEF WatcherOf
<1>3. CASE /\ call[c].op \in Selects /\ call'[c] = call[c]
           /\ chanPc'[c] = "unwatch" => at'[c] = 1
           /\ chanPc'[c] = "callback" => chanPc[c] = "callback" /\ at'[c] = at[c]
           /\ (chanPc'[c] \in Trying \cup {"parked"} /\ round'[c] = "callback")
                => (chanPc[c] \in Trying \cup {"parked"} /\ round[c] = "callback")
  <2>0. DOMAIN Cases[c] = 1 .. Len(Cases[c])
    BY <1>3, SelectPoint
  <2>1. ASSUME NEW ch \in Chans
        PROVE  /\ c \in rwatch'[ch] => Watches(c, "read", ch)'
               /\ c \in wwatch'[ch] => Watches(c, "write", ch)'
    <3>1. /\ c \in rwatch[ch] => Watches(c, "read", ch)
          /\ c \in wwatch[ch] => Watches(c, "write", ch)
      BY <1>1 DEF WatcherOf
    <3>2. \A kind : Watches(c, kind, ch) => \E i \in 1 .. Len(Cases[c]) : Cases[c][i] = <<kind, ch>>
      BY <2>0 DEF Watches
    <3>3. CASE chanPc'[c] = "unwatch"
      BY <1>3, <2>0, <3>1, <3>2, <3>3 DEF Watches
    <3>4. CASE chanPc'[c] # "unwatch"
      BY <1>3, <2>0, <3>1, <3>2, <3>4 DEF Watches
    <3> QED  BY <3>3, <3>4
  <2>2. ASSUME NEW i \in DOMAIN Cases[c],
               \/ chanPc'[c] = "callback" /\ i < at'[c]
               \/ chanPc'[c] \in Trying \cup {"parked"} /\ round'[c] = "callback"
        PROVE  Registered(c, i)'
    <3>1. Registered(c, i)
      BY <1>1, <1>3, <2>0, <2>2 DEF WatcherOf
    <3> QED  BY <3>1 DEF Registered
  <2> QED  BY <1>3, <2>1, <2>2 DEF WatcherOf
<1> QED  BY <1>2, <1>3

LEMMA WatchersStep ==
    ASSUME ChanInv, NEW c \in ChanCos, Step(c), Frame(c)
    PROVE  Watchers'
<1>0. Posture(c) /\ RunLocal(c) /\ WatcherOf(c)
  BY ChanParts DEF Watchers
<1>t. /\ call[c] \in [op : {"none", "Close"} \cup Writes \cup Reads \cup Selects, ch : Chans]
      /\ c \in DOMAIN chanPc /\ c \in DOMAIN call /\ c \in DOMAIN at /\ c \in DOMAIN round
      /\ rwatch \in [Chans -> SUBSET ChanCos] /\ wwatch \in [Chans -> SUBSET ChanCos]
      /\ NoCall.op = "none"
  BY ChanTypes, ChanConstants
<1>l. chanPc[c] \in Trying \cup {"unwatch"} => call[c].op \in Selects
  BY SelectPoint
<1>n. \A o \in Writes \cup Reads \cup {"none", "Close"} : o \notin Selects
  BY DEF Writes, Reads, Selects
\* The watchers of the others.
<1>o. SUFFICES WatcherOf(c)' /\ OthersWatchAsBefore(c)
  <2>1. ASSUME NEW d \in ChanCos, WatcherOf(c)', OthersWatchAsBefore(c)
        PROVE  WatcherOf(d)'
    <3>1. CASE d = c
      BY <2>1, <3>1
    <3>2. CASE d # c
      BY <2>1, <3>2, OthersKeepWatchers
    <3> QED  BY <3>1, <3>2
  <2> QED  BY <2>1 DEF Watchers
<1>1. CASE UNCHANGED selVars /\ ChanStep(c) /\ ~Bind(c)
  <2>1. rwatch' = rwatch /\ wwatch' = wwatch
    BY <1>1 DEF ChanStep, WriteLocked, PushItem, WriteRefLocked, ReadLocked, Take, Release, CloseLocked,
       BindFails, Callback, ResumeWait, chanVars
  <2>2. call[c].op \notin Selects
    <3>1. CASE Release(c)
      <4>1. chanPc[c] = "release"
        BY <3>1 DEF Release
      <4> QED  BY <1>0, <4>1 DEF Posture, Trying
    <3>2. CASE ~Release(c)
      <4>1. \/ call[c].op \notin Selects
            \/ call[c].op \in Writes \cup Reads \cup {"Close"}
        BY <1>1, <3>2 DEF ChanStep, WriteLocked, WriteRefLocked, ReadLocked, CloseLocked,
           BindFails, Callback, ResumeWait, Writes
      <4> QED  BY <1>n, <4>1
    <3> QED  BY <3>1, <3>2
  <2>3. call'[c] = call[c] \/ call'[c] = NoCall
    BY <1>1, <1>t DEF ChanStep, WriteLocked, PushItem, WriteRefLocked, ReadLocked, Release, CloseLocked,
       BindFails, Callback, ResumeWait, Return
  <2>4. WatcherOf(c)'
    BY <1>t, <1>n, <2>1, <2>2, <2>3, ActorKeepsWatchers
  <2> QED  BY <2>1, <2>4 DEF OthersWatchAsBefore
<1>2. CASE UNCHANGED selVars /\ Bind(c)
  <2>1. rwatch' = rwatch /\ wwatch' = wwatch /\ call' = call /\ at' = at /\ round' = round
        /\ chanPc[c] = "bind" /\ chanPc'[c] = "callback"
    BY <1>2, <1>t DEF Bind, Goto, chanVars, selVars
  <2>2. CASE call[c].op \notin Selects
    <3>1. WatcherOf(c)'
      BY <2>1, <2>2, ActorKeepsWatchers
    <3> QED  BY <2>1, <3>1 DEF OthersWatchAsBefore
  <2>3. CASE call[c].op \in Selects
    <3>0. DOMAIN Cases[c] = 1 .. Len(Cases[c])
      BY <2>3, SelectPoint
    <3>1. at[c] = 1
      BY <1>0, <2>1, <2>3 DEF RunLocal
    <3>2. \A ch \in Chans : /\ c \in rwatch[ch] => Watches(c, "read", ch)
                            /\ c \in wwatch[ch] => Watches(c, "write", ch)
      BY <1>0 DEF WatcherOf
    <3>3. \A ch \in Chans : /\ c \in rwatch'[ch] => Watches(c, "read", ch)'
                            /\ c \in wwatch'[ch] => Watches(c, "write", ch)'
      BY <2>1, <3>2 DEF Watches
    <3>4. \A i \in DOMAIN Cases[c] : ~(i < at'[c])
      BY <2>1, <3>0, <3>1
    <3>5. WatcherOf(c)'
      BY <2>1, <3>3, <3>4 DEF WatcherOf, Trying
    <3> QED  BY <2>1, <3>5 DEF OthersWatchAsBefore
  <2> QED  BY <2>2, <2>3
<1>3. CASE UNCHANGED selVars /\ (Timeout(c) \/ RequestCancel(c))
  <2>1. rwatch' = rwatch /\ wwatch' = wwatch /\ call' = call /\ chanPc' = chanPc /\ at' = at /\ round' = round
    BY <1>3 DEF Timeout, RequestCancel, selVars
  <2>2. WatcherOf(c)'
    BY <1>0, <2>1 DEF WatcherOf, Watches, Registered
  <2> QED  BY <2>1, <2>2 DEF OthersWatchAsBefore
<1>4. CASE UNCHANGED selVars
           /\ \E o \in Writes \cup Reads \cup {"Close"}, x \in Chans : Enter(c, o, x)
  <2>0. PICK o \in Writes \cup Reads \cup {"Close"}, x \in Chans : Enter(c, o, x)
    BY <1>4
  <2>1. rwatch' = rwatch /\ wwatch' = wwatch /\ chanPc[c] = "idle" /\ call'[c].op = o
    BY <2>0, <1>t DEF Enter
  <2>2. call[c].op \notin Selects
    BY <1>0, <1>n, <2>1 DEF Posture
  <2>3. WatcherOf(c)'
    BY <1>n, <2>1, <2>2, ActorKeepsWatchers
  <2> QED  BY <2>1, <2>3 DEF OthersWatchAsBefore
<1>5. CASE \E o \in Selects : Run(c, o)
  <2>0. PICK o \in Selects : Run(c, o)
    BY <1>5
  <2>1. /\ rwatch' = rwatch /\ wwatch' = wwatch /\ chanPc[c] = "idle" /\ chanPc'[c] = "try"
        /\ round'[c] = round[c]
    BY <2>0, <1>t DEF Run, Goto, chanVars, selVars
  <2>2. call[c].op \notin Selects
    BY <1>0, <1>n, <2>1 DEF Posture
  <2>3. round[c] = "first"
    BY <1>0, <2>2 DEF RunLocal
  <2>4. WatcherOf(c)'
    BY <2>1, <2>2, <2>3, ActorKeepsWatchers
  <2> QED  BY <2>1, <2>4 DEF OthersWatchAsBefore
<1>6. CASE TryReadCase(c) \/ TakeCase(c) \/ DropCase(c) \/ TryWriteCase(c)
  <2>1. /\ rwatch' = rwatch /\ wwatch' = wwatch /\ call' = call /\ round' = round
        /\ chanPc[c] \in Trying /\ chanPc'[c] \in Trying
    BY <1>6, <1>t DEF TryReadCase, TakeCase, DropCase, TryWriteCase, Take, Ready, NotReady, Goto, Trying
  <2>2. WatcherOf(c)'
    BY <2>1, ActorKeepsWatchers DEF Trying
  <2> QED  BY <2>1, <2>2 DEF OthersWatchAsBefore
<1>7. CASE Tried(c)
  <2>1. /\ rwatch' = rwatch /\ wwatch' = wwatch /\ call' = call /\ round' = round
        /\ chanPc[c] \in Trying /\ chanPc'[c] \in {"parked", "bind", "unwatch"}
        /\ chanPc'[c] = "unwatch" => at'[c] = 1
    BY <1>7, <1>t DEF Tried, Goto, Trying, chanVars
  <2>2. WatcherOf(c)'
    BY <2>1, ActorKeepsWatchers DEF Trying
  <2> QED  BY <2>1, <2>2 DEF OthersWatchAsBefore
<1>8. CASE SelectBindFails(c) \/ ResumeSelect(c)
  <2>1. /\ rwatch' = rwatch /\ wwatch' = wwatch /\ call' = call /\ round'[c] = "again"
        /\ chanPc'[c] \in {"try", "unwatch"}
        /\ chanPc'[c] = "unwatch" => at'[c] = 1
    BY <1>8, <1>t DEF SelectBindFails, ResumeSelect, Goto, chanVars
  <2>2. WatcherOf(c)'
    BY <2>1, ActorKeepsWatchers DEF Trying
  <2> QED  BY <2>1, <2>2 DEF OthersWatchAsBefore
<1>9. CASE Watch(c)
  <2> DEFINE x == Case(c)[2]
  <2>1. /\ IF Case(c)[1] = "read"
           THEN rwatch' = [rwatch EXCEPT ![x] = @ \cup {c}] /\ wwatch' = wwatch
           ELSE wwatch' = [wwatch EXCEPT ![x] = @ \cup {c}] /\ rwatch' = rwatch
        /\ chanPc[c] = "callback" /\ call[c].op \in Selects /\ call' = call
        /\ IF at[c] = Len(Cases[c]) THEN chanPc'[c] = "try"
           ELSE chanPc'[c] = "callback" /\ at'[c] = at[c] + 1
    BY <1>9, <1>t DEF Watch, Goto
  <2>2. /\ at[c] \in 1 .. Len(Cases[c]) /\ DOMAIN Cases[c] = 1 .. Len(Cases[c]) /\ x \in Chans
        /\ Len(Cases[c]) \in Nat
        /\ Case(c) \in {"read", "write"} \X Chans /\ Case(c) = Cases[c][at[c]]
        /\ \A i \in 1 .. Len(Cases[c]) : Cases[c][i][2] \in Chans
    BY <2>1, SelectPoint DEF Case
  <2>3. OthersWatchAsBefore(c)
    BY <1>t, <2>1, <2>2 DEF OthersWatchAsBefore
  <2>4. \A ch \in Chans : /\ c \in rwatch'[ch] <=> c \in rwatch[ch] \/ (Case(c)[1] = "read" /\ ch = x)
                          /\ c \in wwatch'[ch] <=> c \in wwatch[ch] \/ (Case(c)[1] # "read" /\ ch = x)
    BY <1>t, <2>1, <2>2
  <2>5. ASSUME NEW ch \in Chans
        PROVE  /\ c \in rwatch'[ch] => Watches(c, "read", ch)'
               /\ c \in wwatch'[ch] => Watches(c, "write", ch)'
    <3>1. /\ c \in rwatch'[ch] => \E i \in DOMAIN Cases[c] : Cases[c][i] = <<"read", ch>>
          /\ c \in wwatch'[ch] => \E i \in DOMAIN Cases[c] : Cases[c][i] = <<"write", ch>>
      <4>1. /\ c \in rwatch[ch] => \E i \in DOMAIN Cases[c] : Cases[c][i] = <<"read", ch>>
            /\ c \in wwatch[ch] => \E i \in DOMAIN Cases[c] : Cases[c][i] = <<"write", ch>>
        BY <1>0 DEF WatcherOf, Watches
      <4>2. Case(c) = <<Case(c)[1], x>> /\ Case(c)[1] \in {"read", "write"}
        BY <2>2
      <4>3. at[c] \in DOMAIN Cases[c] /\ Cases[c][at[c]] = <<Case(c)[1], x>>
        BY <2>2, <4>2
      <4> QED  BY <2>4, <4>1, <4>2, <4>3
    <3>2. chanPc'[c] # "unwatch"
      BY <2>1
    <3> QED  BY <2>1, <3>1, <3>2 DEF Watches
  <2>6. ASSUME NEW i \in DOMAIN Cases[c],
               \/ chanPc'[c] = "callback" /\ i < at'[c]
               \/ chanPc'[c] \in Trying \cup {"parked"} /\ round'[c] = "callback"
        PROVE  Registered(c, i)'
    <3>1. i < at[c] \/ i = at[c]
      BY <2>1, <2>2, <2>6 DEF Trying
    <3>2. CASE i < at[c]
      <4>1. Registered(c, i)
        BY <1>0, <2>1, <3>2 DEF WatcherOf
      <4> QED  BY <2>2, <2>4, <4>1 DEF Registered
    <3>3. CASE i = at[c]
      BY <2>2, <2>4, <3>3 DEF Registered
    <3> QED  BY <3>1, <3>2, <3>3
  <2>7. WatcherOf(c)'
    BY <2>5, <2>6 DEF WatcherOf
  <2> QED  BY <2>3, <2>7
<1>10. CASE Unwatch(c)
  <2> DEFINE x == Case(c)[2]
  <2>1. /\ IF Case(c)[1] = "read"
           THEN rwatch' = [rwatch EXCEPT ![x] = @ \ {c}] /\ wwatch' = wwatch
           ELSE wwatch' = [wwatch EXCEPT ![x] = @ \ {c}] /\ rwatch' = rwatch
        /\ chanPc[c] = "unwatch"
        /\ \/ at[c] = Len(Cases[c]) /\ chanPc'[c] = "idle" /\ call'[c] = NoCall
           \/ /\ at[c] # Len(Cases[c]) /\ chanPc'[c] = "unwatch" /\ call'[c] = call[c]
              /\ at'[c] = at[c] + 1
    BY <1>10, <1>t DEF Unwatch, Return, Goto
  <2>2. /\ at[c] \in 1 .. Len(Cases[c]) /\ DOMAIN Cases[c] = 1 .. Len(Cases[c]) /\ x \in Chans
        /\ Len(Cases[c]) \in Nat
        /\ Case(c) \in {"read", "write"} \X Chans /\ Case(c) = Cases[c][at[c]]
        /\ call[c].op \in Selects
    BY <1>l, <2>1, SelectPoint DEF Case
  <2>3. OthersWatchAsBefore(c)
    BY <1>t, <2>1, <2>2 DEF OthersWatchAsBefore
  <2>4. \A ch \in Chans : /\ c \in rwatch'[ch] => c \in rwatch[ch] /\ ~(Case(c)[1] = "read" /\ ch = x)
                          /\ c \in wwatch'[ch] => c \in wwatch[ch] /\ ~(Case(c)[1] # "read" /\ ch = x)
    BY <1>t, <2>1, <2>2
  <2>5. ASSUME NEW ch \in Chans
        PROVE  /\ c \in rwatch'[ch] => \E i \in 1 .. Len(Cases[c]) : Cases[c][i] = <<"read", ch>> /\ i > at[c]
               /\ c \in wwatch'[ch] => \E i \in 1 .. Len(Cases[c]) : Cases[c][i] = <<"write", ch>> /\ i > at[c]
    <3>1. /\ c \in rwatch[ch] => \E i \in 1 .. Len(Cases[c]) : Cases[c][i] = <<"read", ch>> /\ i >= at[c]
          /\ c \in wwatch[ch] => \E i \in 1 .. Len(Cases[c]) : Cases[c][i] = <<"write", ch>> /\ i >= at[c]
      BY <1>0, <2>1, <2>2 DEF WatcherOf, Watches
    <3>2. /\ c \in rwatch'[ch] => Cases[c][at[c]] # <<"read", ch>>
          /\ c \in wwatch'[ch] => Cases[c][at[c]] # <<"write", ch>>
      BY <2>2, <2>4
    <3>3. \A i \in 1 .. Len(Cases[c]) : i >= at[c] => i = at[c] \/ i > at[c]
      BY <2>2
    <3> QED  BY <2>4, <3>1, <3>2, <3>3
  <2>6. CASE at[c] = Len(Cases[c]) /\ call'[c] = NoCall
    <3>1. \A ch \in Chans : c \notin rwatch'[ch] /\ c \notin wwatch'[ch]
      BY <2>2, <2>5, <2>6
    <3>2. WatcherOf(c)'
      BY <1>t, <1>n, <2>6, <3>1 DEF WatcherOf
    <3> QED  BY <2>3, <3>2
  <2>7. CASE chanPc'[c] = "unwatch" /\ call'[c] = call[c] /\ at'[c] = at[c] + 1
    <3>1. ASSUME NEW ch \in Chans
          PROVE  /\ c \in rwatch'[ch] => Watches(c, "read", ch)'
                 /\ c \in wwatch'[ch] => Watches(c, "write", ch)'
      <4>1. \A i \in 1 .. Len(Cases[c]) : i > at[c] => i >= at'[c]
        BY <2>2, <2>7
      <4> QED  BY <2>2, <2>5, <2>7, <4>1 DEF Watches
    <3>2. WatcherOf(c)'
      BY <2>7, <3>1 DEF WatcherOf, Trying
    <3> QED  BY <2>3, <3>2
  <2> QED  BY <2>1, <2>6, <2>7
<1> QED
  BY <1>1, <1>2, <1>3, <1>4, <1>5, <1>6, <1>7, <1>8, <1>9, <1>10, StepActions DEF ChanStep, SelectStep

-----------------------------------------------------------------------------
(* Readers.                                                                 *)

\* A coroutine that is left suspended with its wait undecided by a step of its own
\* is a read or a write at the end of its callback.
LEMMA OnlyCallbackParks ==
    ASSUME ChanInv, NEW c \in ChanCos, Step(c),
           call'[c].op \notin Selects, chanPc'[c] = "parked", wake'[c] = "none"
    PROVE  Callback(c)
<1>0. Posture(c)
  BY ChanParts
<1>t. /\ call[c] \in [op : {"none", "Close"} \cup Writes \cup Reads \cup Selects, ch : Chans]
      /\ c \in DOMAIN chanPc /\ c \in DOMAIN call /\ c \in DOMAIN wake
      /\ NoCall.op = "none"
  BY ChanTypes, ChanConstants
<1>l. chanPc[c] \in Trying \cup {"unwatch"} => call[c].op \in Selects
  BY SelectPoint
<1>1. ~(WriteLocked(c) \/ WriteRefLocked(c) \/ ReadLocked(c) \/ Release(c) \/ CloseLocked(c)
        \/ Bind(c) \/ BindFails(c) \/ ResumeWait(c))
  BY <1>t DEF WriteLocked, PushItem, WriteRefLocked, ReadLocked, Release, CloseLocked, Bind, BindFails,
     ResumeWait, Return, Goto
<1>2. ~(Timeout(c) \/ RequestCancel(c))
  <2>1. ~Timeout(c)
    BY <1>t DEF Timeout
  <2>2. ASSUME RequestCancel(c)  PROVE FALSE
    <3>1. CASE Open(c)
      BY <1>t, <2>2, <3>1 DEF RequestCancel
    <3>2. CASE ~Open(c)
      BY <1>t, <2>2, <3>2 DEF RequestCancel, Open
    <3> QED  BY <3>1, <3>2
  <2> QED  BY <2>1, <2>2
<1>3. ~\E o \in Writes \cup Reads \cup {"Close"}, ch \in Chans : Enter(c, o, ch)
  BY <1>t DEF Enter, Goto
<1>4. ~\E o \in Selects : Run(c, o)
  BY <1>t DEF Run, Goto
<1>5. ~SelectStep(c)
  <2>1. ~(TryReadCase(c) \/ TakeCase(c) \/ DropCase(c) \/ TryWriteCase(c) \/ SelectBindFails(c)
          \/ ResumeSelect(c))
    BY <1>t DEF TryReadCase, TakeCase, DropCase, TryWriteCase, SelectBindFails, ResumeSelect, Ready,
       NotReady, Goto
  <2>2. ~Tried(c) /\ ~Watch(c)
    BY <1>l DEF Tried, Watch, Trying
  <2>3. ~Unwatch(c)
    BY <1>t DEF Unwatch, Return, Goto
  <2> QED  BY <2>1, <2>2, <2>3 DEF SelectStep
<1> QED  BY <1>1, <1>2, <1>3, <1>4, <1>5, StepActions DEF ChanStep

LEMMA ReaderStep ==
    ASSUME ChanInv, NEW c \in ChanCos, Step(c), Frame(c), Effect(c)
    PROVE  ReaderNotStranded'
<1> DEFINE EmptyNext(o, ch) == IF OnRefs(o, ch) THEN refs'[ch] = 0 ELSE items'[ch] = 0
<1> SUFFICES ASSUME NEW d \in ChanCos,
                    call'[d].op \in Reads, chanPc'[d] = "parked", wake'[d] = "none"
             PROVE  EmptyNext(call'[d].op, call'[d].ch) /\ ~closed'[call'[d].ch]
  BY DEF ReaderNotStranded, Open, Empty, OnRefs
<1>1. CASE d = c
  <2>0. call'[c].op \notin Selects
    BY <1>1 DEF Reads, Selects
  <2>1. Callback(c)
    BY <1>1, <2>0, OnlyCallbackParks
  <2>2. /\ call' = call /\ items' = items /\ refs' = refs /\ closed' = closed
        /\ call[c].op \in Reads /\ call[c].op \notin Writes
    BY <1>1, <2>1 DEF Callback, Reads, Writes
  <2>3. Empty(call[c].op, call[c].ch) /\ ~closed[call[c].ch]
    BY <1>1, <2>1, <2>2, ChanTypes DEF Callback, Open
  <2> QED  BY <1>1, <2>2, <2>3 DEF Empty
<1>2. CASE d # c
  <2> DEFINE ch == call[d].ch
             o == call[d].op
  <2>1. call'[d] = call[d] /\ chanPc[d] = "parked" /\ wake[d] = "none" /\ o \in Reads
    BY <1>2 DEF Frame
  <2>2. Empty(o, ch) /\ ~closed[ch] /\ ch \in Chans
    BY <2>1, ChanParts, ChanTypes DEF ReaderNotStranded, Open
  <2>3. Holds(d, ch) /\ reading[ch] /\ d \in EnableRead(ch) /\ ~Holds(c, ch)
    BY <1>2, <2>1, <2>2, ChanParts DEF Holds, FlagHeld, FlagOf, EnableRead, ReadersOf, Open
  <2> HIDE DEF ch, o, EmptyNext
  <2>4. wake' # Decided(EnableRead(ch), "notify")
    BY <2>3 DEF Decided
  \* Nothing that makes the channel non-empty or closed leaves d asleep.
  <2> DEFINE Still == /\ OnRefs(o, ch) \/ items'[ch] = items[ch]
                      /\ ~OnRefs(o, ch) \/ refs'[ch] = refs[ch]
                      /\ closed'[ch] = closed[ch]
  <2>5. ASSUME Quiet(c) \/ WaitEnds(c)
        PROVE  Still
    BY <2>5 DEF Quiet, WaitEnds
  <2>6. ASSUME NEW x \in Chans, Puts(x) \/ QueuesUp(c, x)
        PROVE  Still
    <3>1. CASE x = ch
      BY <2>3, <2>4, <2>6, <3>1 DEF Puts, QueuesUp
    <3>2. CASE x # ch
      BY <2>2, <2>6, <3>2, ChanTypes DEF Puts, QueuesUp
    <3> QED  BY <3>1, <3>2
  <2>7. ASSUME NEW x \in Chans, PutsRef(x)
        PROVE  Still
    <3>1. CASE x = ch
      <4>1. ~OnRefs(o, ch)
        BY <2>2, <2>3, <2>4, <2>7, <3>1 DEF PutsRef, Empty
      <4> QED  BY <2>7, <4>1 DEF PutsRef
    <3>2. CASE x # ch
      BY <2>2, <2>7, <3>2, ChanTypes DEF PutsRef
    <3> QED  BY <3>1, <3>2
  <2>8. ASSUME NEW x \in Chans, Takes(c, x)
        PROVE  Still
    <3>1. x # ch
      BY <2>3, <2>8 DEF Takes
    <3>2. PICK o2 \in Reads, k \in Nat : Take(x, o2, k)
      BY <2>8 DEF Takes
    <3>3. /\ items' = items \/ items' = [items EXCEPT ![x] = @ - k]
          /\ refs' = refs \/ refs' = [refs EXCEPT ![x] = @ - k]
          /\ closed' = closed
      BY <3>2 DEF Take
    <3> QED  BY <2>2, <3>1, <3>3, ChanTypes
  <2>9. ASSUME NEW x \in Chans, Closes(x)
        PROVE  Still
    <3>1. x # ch
      BY <2>3, <2>9 DEF Closes, Decided
    <3> QED  BY <2>2, <2>9, <3>1, ChanTypes DEF Closes
  <2>10. Still
    <3> HIDE DEF Still
    <3> QED  BY <2>5, <2>6, <2>7, <2>8, <2>9 DEF Effect
  <2>11. EmptyNext(o, ch) /\ ~closed'[ch]
    BY <2>2, <2>10 DEF Empty, EmptyNext
  <2> QED  BY <2>1, <2>11 DEF o, ch
<1> QED  BY <1>1, <1>2

-----------------------------------------------------------------------------
(* Writers.                                                                 *)

\* A woken writer stays one until it has the lock again; then it uses the place,
\* or there is none.
LEMMA WokenStay ==
    ASSUME ChanInv, NEW c \in ChanCos, Step(c), Frame(c), NEW ch \in Chans,
           ~Unbuffered(ch), ~closed[ch]
    PROVE  /\ \A d \in WokenWriters(ch) \ {c} : d \in WokenWriters(ch)'
           /\ c \in WokenWriters(ch) => \/ c \in WokenWriters(ch)'
                                        \/ Full(ch)
                                        \/ items'[ch] = items[ch] + 1
<1>1. ASSUME NEW d \in WokenWriters(ch) \ {c}
      PROVE  d \in WokenWriters(ch)'
  <2>1. d \in ChanCos /\ d # c /\ call[d].op \in Writes /\ call[d].ch = ch
        /\ (chanPc[d] = "relock" \/ (chanPc[d] \in {"callback", "parked"} /\ wake[d] = "notify"))
    BY DEF WokenWriters
  <2>2. call'[d] = call[d] /\ chanPc'[d] = chanPc[d]
        /\ (wake'[d] = wake[d] \/ wake'[d] = "notify")
    BY <2>1 DEF Frame
  <2> QED  BY <2>1, <2>2 DEF WokenWriters
<1>2. ASSUME c \in WokenWriters(ch)
      PROVE  \/ c \in WokenWriters(ch)'
             \/ Full(ch)
             \/ items'[ch] = items[ch] + 1
  <2>t. /\ c \in DOMAIN chanPc /\ c \in DOMAIN wake /\ c \in DOMAIN call /\ ch \in DOMAIN items
    BY ChanTypes
  <2>0. /\ call[c].op \in Writes /\ call[c].ch = ch /\ call[c].op \notin Selects
        /\ call[c].op \notin Reads /\ call[c].op # "Close"
        /\ \/ chanPc[c] = "relock"
           \/ chanPc[c] \in {"callback", "parked"} /\ wake[c] = "notify" /\ ~Open(c)
    BY <1>2 DEF WokenWriters, Writes, Selects, Reads, Open
  <2>1. ~OnRefs(call[c].op, ch)
    BY DEF OnRefs
  <2>2. ~(WriteRefLocked(c) \/ ReadLocked(c) \/ Release(c) \/ CloseLocked(c) \/ Bind(c) \/ BindFails(c)
          \/ Timeout(c) \/ SelectStep(c) \/ \E o \in Selects : Run(c, o))
    <3>1. ~SelectStep(c)
      BY <2>0, SelectPoint DEF SelectStep, TryReadCase, TakeCase, DropCase, TryWriteCase, Tried,
         SelectBindFails, Watch, ResumeSelect, Unwatch, Trying
    <3>2. ~\E o \in Selects : Run(c, o)
      BY <2>0 DEF Run
    <3>3. ~Timeout(c)
      <4>1. chanPc[c] = "relock" => ~Open(c)
        BY ChanParts DEF Posture, Open, Trying
      <4> QED  BY <2>0, <4>1 DEF Timeout
    <3> QED  BY <2>0, <3>1, <3>2, <3>3 DEF WriteRefLocked, ReadLocked, Release, CloseLocked, Bind, BindFails
  <2>3. ~\E o \in Writes \cup Reads \cup {"Close"}, x \in Chans : Enter(c, o, x)
    BY <2>0 DEF Enter
  <2>4. CASE WriteLocked(c)
    <3>1. Full(ch) \/ PushItem(c, ch)
      BY <2>0, <2>4 DEF WriteLocked
    <3> QED  BY <2>t, <3>1 DEF PushItem
  <2>5. CASE Callback(c)
    <3>1. call' = call /\ chanPc'[c] = "parked" /\ wake'[c] = "notify"
      BY <2>0, <2>t, <2>5 DEF Callback, Goto
    <3> QED  BY <1>2, <2>0, <3>1 DEF WokenWriters
  <2>6. CASE ResumeWait(c)
    <3>1. call' = call /\ chanPc'[c] = "relock"
      BY <2>0, <2>1, <2>t, <2>6 DEF ResumeWait, Goto
    <3> QED  BY <1>2, <2>0, <3>1 DEF WokenWriters
  <2>7. CASE RequestCancel(c)
    <3>1. call' = call /\ chanPc' = chanPc /\ (wake[c] = "notify" => wake'[c] = "notify")
      BY <2>7 DEF RequestCancel, Open
    <3> QED  BY <1>2, <2>0, <3>1 DEF WokenWriters
  <2> QED  BY <2>2, <2>3, <2>4, <2>5, <2>6, <2>7, StepActions DEF ChanStep
<1> QED  BY <1>1, <1>2

LEMMA WokenFinite ==
    /\ \A ch : IsFiniteSet(WokenWriters(ch)) /\ Cardinality(WokenWriters(ch)) \in Nat
    /\ \A ch : IsFiniteSet(WokenWriters(ch)') /\ Cardinality(WokenWriters(ch)') \in Nat
<1>1. ASSUME NEW T \in SUBSET ChanCos
      PROVE  IsFiniteSet(T) /\ Cardinality(T) \in Nat
  BY ChanConstants, FS_Subset, FS_CardinalityType
<1>2. \A ch : WokenWriters(ch) \in SUBSET ChanCos /\ WokenWriters(ch)' \in SUBSET ChanCos
  BY DEF WokenWriters
<1> QED  BY <1>1, <1>2
\* The count of places after a step that leaves the queue of ch as it was, or
\* shorter, and takes nothing from the channel.
LEMMA PlacesStayPromised ==
    ASSUME ChanInv, NEW c \in ChanCos, Step(c), Frame(c), NEW ch \in Chans,
           ~Unbuffered(ch), ~closed[ch], WaitingWriters(ch) # {},
           items'[ch] \in Nat, items'[ch] >= items[ch]
    PROVE  Size(ch) - items'[ch] <= Cardinality(WokenWriters(ch)')
<1> DEFINE W == WokenWriters(ch)
           Next == WokenWriters(ch)'
<1>t. items[ch] \in Nat /\ Size(ch) \in Nat
  BY ChanTypes, ChanConstants
<1>f. IsFiniteSet(W) /\ Cardinality(W) \in Nat /\ IsFiniteSet(Next) /\ Cardinality(Next) \in Nat
  BY WokenFinite
<1>1. Size(ch) - items[ch] <= Cardinality(W)
  BY ChanParts DEF WriterNotStranded
<1>2. /\ \A d \in W \ {c} : d \in Next
      /\ c \in W => c \in Next \/ Full(ch) \/ items'[ch] = items[ch] + 1
  BY WokenStay
<1>3. Full(ch) => items[ch] >= Size(ch)
  BY DEF Full
<1> HIDE DEF W, Next
<1>4. CASE W \subseteq Next
  <2>1. Cardinality(W) <= Cardinality(Next)
    BY <1>4, <1>f, FS_Subset
  <2> QED  BY <1>t, <1>f, <1>1, <2>1 DEF Next
<1>5. CASE Full(ch)
  BY <1>t, <1>f, <1>3, <1>5 DEF Next
<1>6. CASE items'[ch] = items[ch] + 1
  <2>1. W \ {c} \in SUBSET Next
    BY <1>2
  <2>2. Cardinality(W \ {c}) <= Cardinality(Next)
    BY <2>1, <1>f, FS_Subset
  <2>3. Cardinality(W \ {c}) >= Cardinality(W) - 1
    <3>1. Cardinality(W \ {c}) = IF c \in W THEN Cardinality(W) - 1 ELSE Cardinality(W)
      BY <1>f, FS_RemoveElement
    <3> QED  BY <1>f, <3>1
  <2>4. Cardinality(W \ {c}) \in Nat
    BY <1>f, FS_RemoveElement, FS_CardinalityType
  <2> QED  BY <1>t, <1>f, <1>1, <1>6, <2>2, <2>3, <2>4 DEF Next
<1> QED  BY <1>2, <1>4, <1>5, <1>6

\* Taking k elements wakes k writers, if some are still waiting afterwards.
LEMMA PlacesFreed ==
    ASSUME ChanInv, NEW c \in ChanCos, Step(c), Frame(c), NEW ch \in Chans,
           ~Unbuffered(ch), ~closed[ch], Takes(c, ch), Live(conds'[ch]) # {}
    PROVE  Size(ch) - items'[ch] <= Cardinality(WokenWriters(ch)')
<1> DEFINE W == WokenWriters(ch)
           Next == WokenWriters(ch)'
           q == conds[ch]
<1>0. PICK o \in Reads, k \in Nat : k >= 1 /\ k <= items[ch] /\ Take(ch, o, k) /\ ~OnRefs(o, ch)
  BY DEF Takes, OnRefs
<1>1. /\ items'[ch] = items[ch] - k /\ conds'[ch] = PopConds(q, k)
      /\ wake' = Decided(EnableWrite(ch, k), "notify")
  BY <1>0, ChanTypes DEF Take
<1>t. items[ch] \in Nat /\ Size(ch) \in Nat
  BY ChanTypes, ChanConstants
<1>f. IsFiniteSet(W) /\ Cardinality(W) \in Nat /\ IsFiniteSet(Next) /\ Cardinality(Next) \in Nat
  BY WokenFinite
<1>q. /\ q \in Seq(Entries) /\ Len(q) \in Nat
      /\ \A i : i \in Live(q) <=> i \in 1 .. Len(q) /\ q[i] # Dead
      /\ \A i \in Live(q) : q[i] \in ChanCos /\ WaitsToWrite(q[i], ch)
      /\ \A i, j \in Live(q) : q[i] = q[j] => i = j
  BY Queue
<1>e. Live(<<>>) = {}
  BY DEF Live
<1>2. PICK n \in 1 .. Len(q) : /\ Len(PopConds(q, k)) = Len(q) - n
                               /\ Cardinality({j \in Live(q) : j <= n}) = k
  <2>1. PopConds(q, k) # <<>>
    BY <1>1, <1>e
  <2> HIDE DEF q
  <2>2. \/ PopConds(q, k) = <<>>
        \/ \E n \in 1 .. Len(q) : /\ Len(PopConds(q, k)) = Len(q) - n
                                  /\ \A i \in 1 .. Len(q) - n : PopConds(q, k)[i] = q[i + n]
                                  /\ Cardinality({j \in Live(q) : j <= n}) = k
    BY <1>0, <1>q, PopFacts
  <2> QED  BY <2>1, <2>2
<1> DEFINE J == {j \in Live(q) : j <= n}
           P == {q[i] : i \in J}
\* They are woken writers now, and were not before.
<1>3. P = Popped(q, k)
  <2>1. Len(q) - Len(PopConds(q, k)) = n
    BY <1>2, <1>q
  <2> QED  BY <2>1 DEF Popped
<1>4. \A d \in P : d \in ChanCos /\ WaitsToWrite(d, ch)
  BY <1>q
<1>5. P \cap W = {}
  <2>1. ASSUME NEW d, WaitsToWrite(d, ch), d \in W  PROVE FALSE
    BY <2>1 DEF WaitsToWrite, WokenWriters, Open
  <2> HIDE DEF P, W
  <2> QED  BY <1>4, <2>1
<1>6. ~(call[c].op \in Writes)
  <2>1. chanPc[c] \in {"take", "drop"} => call[c].op \in Selects
    BY SelectPoint DEF Trying
  <2> QED  BY <2>1 DEF Takes, Holds, Reads, Writes, Selects
<1>7. P \subseteq Next
  <2> SUFFICES ASSUME NEW d \in P  PROVE d \in Next
    OBVIOUS
  <2>1. d \in ChanCos /\ WaitsToWrite(d, ch) /\ d # c
    BY <1>4, <1>6 DEF WaitsToWrite
  <2>2. call'[d] = call[d] /\ chanPc'[d] = chanPc[d]
    BY <2>1 DEF Frame
  <2>3. d \in Popped(conds[ch], k)
    BY <1>3
  <2>4. wake'[d] = "notify"
    BY <1>1, <2>1, <2>3 DEF Decided, EnableWrite
  <2> QED  BY <2>1, <2>2, <2>4 DEF WokenWriters, WaitsToWrite
<1>8. W \subseteq Next
  <2>1. \A d \in W \ {c} : d \in Next
    BY WokenStay
  <2>2. c \notin W
    BY <1>6 DEF WokenWriters
  <2> QED  BY <2>1, <2>2
<1>9. IsFiniteSet(P) /\ Cardinality(P) = k
  <2> HIDE DEF q
  <2>1. IsFiniteSet(J) /\ Cardinality(J) = k
    <3>1. IsFiniteSet(1 .. Len(q))
      BY <1>q, FS_Interval
    <3>2. J \in SUBSET (1 .. Len(q))
      BY <1>q
    <3> QED  BY <3>1, <3>2, <1>2, FS_Subset
  <2> DEFINE g == [i \in J |-> q[i]]
  <2>2. g \in [J -> P] /\ \A t \in P : \E i \in J : g[i] = t
    OBVIOUS
  <2>3. \A i, j \in J : g[i] = g[j] => i = j
    BY <1>q
  <2>4. g \in Bijection(J, P)
    <3> HIDE DEF g, P, J
    <3> QED  BY <2>2, <2>3 DEF Bijection, Injection, Surjection, IsInjective
  <2> HIDE DEF g, P, J
  <2> QED  BY <2>1, <2>4, FS_Bijection DEF ExistsBijection
<1>10. Size(ch) - items[ch] <= Cardinality(W)
  <2>1. \E i \in Live(q) : TRUE
    <3>0. Cardinality(J) = k
      BY <1>2
    <3>1. J # {}
      <4>1. Cardinality({}) = 0
        BY FS_EmptySet
      <4>2. Cardinality({}) # k
        BY <1>0, <4>1
      <4> HIDE DEF J
      <4> QED  BY <3>0, <4>2
    <3> QED  BY <3>1
  <2>2. WaitingWriters(ch) # {}
    BY <2>1 DEF WaitingWriters
  <2> QED  BY <2>2, ChanParts DEF WriterNotStranded
<1> HIDE DEF W, Next, q, J, P
<1>11. Cardinality(W \cup P) = Cardinality(W) + k
  <2>1. Cardinality(W \cup P) = Cardinality(W) + Cardinality(P) - Cardinality(W \cap P)
    BY <1>f, <1>9, FS_Union
  <2>2. W \cap P = {}
    BY <1>5
  <2>3. Cardinality(W \cap P) = 0
    BY <2>2, FS_EmptySet
  <2> QED  BY <1>0, <1>f, <1>9, <2>1, <2>3
<1>12. Cardinality(W \cup P) <= Cardinality(Next)
  <2>1. W \cup P \in SUBSET Next
    BY <1>7, <1>8
  <2> QED  BY <1>f, <2>1, FS_Subset
<1> QED  BY <1>0, <1>1, <1>t, <1>f, <1>10, <1>11, <1>12 DEF Next

LEMMA WriterStep ==
    ASSUME ChanInv, NEW c \in ChanCos, Step(c), Frame(c), Effect(c)
    PROVE  WriterNotStranded'
<1> SUFFICES ASSUME NEW ch \in Chans, ~Unbuffered(ch), ~closed'[ch], WaitingWriters(ch)' # {}
             PROVE  Size(ch) - items'[ch] <= Cardinality(WokenWriters(ch)')
  BY DEF WriterNotStranded, Size, Unbuffered
<1>f. Cardinality(WokenWriters(ch)') \in Nat
  BY WokenFinite
<1>t. /\ items[ch] \in Nat /\ items'[ch] \in Nat /\ Size(ch) \in Nat
      /\ items \in [Chans -> Nat] /\ closed \in [Chans -> BOOLEAN]
      /\ conds \in [Chans -> Seq(Entries)]
  BY ChanTypes, ChanConstants, QueueTypes
<1>l. Live(conds'[ch]) # {}
  BY DEF WaitingWriters
\* The queue of ch has no live entry that was not there before.
<1>g. ASSUME ~closed[ch], items'[ch] >= items[ch],
             \/ conds'[ch] = conds[ch]
             \/ conds'[ch] = [i \in DOMAIN conds[ch] |-> IF conds[ch][i] = c THEN Dead ELSE conds[ch][i]]
      PROVE  Size(ch) - items'[ch] <= Cardinality(WokenWriters(ch)')
  <2>1. Live(conds[ch]) # {}
    BY <1>l, <1>g DEF Live
  <2>2. WaitingWriters(ch) # {}
    BY <2>1 DEF WaitingWriters
  <2> QED  BY <1>g, <1>t, <2>2, PlacesStayPromised
<1>1. CASE Quiet(c)
  BY <1>1, <1>g, <1>t DEF Quiet
<1>2. CASE WaitEnds(c)
  <2>1. /\ items' = items /\ closed' = closed
        /\ conds'[ch] = [i \in DOMAIN conds[ch] |-> IF conds[ch][i] = c THEN Dead ELSE conds[ch][i]]
    BY <1>2 DEF WaitEnds, Bury
  <2> QED  BY <1>g, <1>t, <2>1
<1>3. ASSUME NEW x \in Chans, Puts(x) \/ PutsRef(x)
      PROVE  Size(ch) - items'[ch] <= Cardinality(WokenWriters(ch)')
  <2>1. closed' = closed /\ conds' = conds /\ items'[ch] >= items[ch]
    BY <1>3, <1>t DEF Puts, PutsRef
  <2> QED  BY <1>g, <2>1
<1>4. ASSUME NEW x \in Chans, Closes(x)
      PROVE  Size(ch) - items'[ch] <= Cardinality(WokenWriters(ch)')
  <2>1. x # ch
    BY <1>4, <1>t DEF Closes
  <2>2. closed'[ch] = closed[ch] /\ conds'[ch] = conds[ch] /\ items' = items
    BY <1>4, <1>t, <2>1 DEF Closes
  <2> QED  BY <1>g, <1>t, <2>2
<1>5. ASSUME NEW x \in Chans, QueuesUp(c, x)
      PROVE  Size(ch) - items'[ch] <= Cardinality(WokenWriters(ch)')
  <2>1. CASE x = ch
    BY <1>5, <1>t, <1>f, <2>1 DEF QueuesUp, Full
  <2>2. CASE x # ch
    <3>1. closed'[ch] = closed[ch] /\ conds'[ch] = conds[ch] /\ items' = items
      BY <1>5, <1>t, <2>2 DEF QueuesUp
    <3> QED  BY <1>g, <1>t, <3>1
  <2> QED  BY <2>1, <2>2
<1>6. ASSUME NEW x \in Chans, Takes(c, x)
      PROVE  Size(ch) - items'[ch] <= Cardinality(WokenWriters(ch)')
  <2>0. closed' = closed
    BY <1>6 DEF Takes, Take
  <2>1. CASE x = ch
    BY <1>6, <1>l, <2>0, <2>1, PlacesFreed
  <2>2. CASE x # ch
    <3>1. conds'[ch] = conds[ch] /\ items'[ch] = items[ch]
      BY <1>6, <1>t, <2>2 DEF Takes, Take
    <3> QED  BY <1>g, <1>t, <2>0, <3>1
  <2> QED  BY <2>1, <2>2
<1> QED  BY <1>1, <1>2, <1>3, <1>4, <1>5, <1>6 DEF Effect

-----------------------------------------------------------------------------
(* Selects.                                                                 *)

\* Whatever would make a registered case ready notifies its owner.
LEMMA WatchedCase ==
    ASSUME ChanInv, NEW c \in ChanCos, Frame(c), Effect(c), NEW d \in ChanCos \ {c},
           call[d].op \in Selects, NEW i \in DOMAIN Cases[d], Registered(d, i),
           wake'[d] = "none"
    PROVE  LET ch == Cases[d][i][2]
           IN  /\ closed'[ch] = closed[ch]
               /\ Cases[d][i][1] = "write" => items'[ch] >= items[ch]
               /\ Cases[d][i][1] = "read" => items'[ch] <= items[ch]
<1> DEFINE ch == Cases[d][i][2]
           Still == /\ closed'[ch] = closed[ch]
                    /\ Cases[d][i][1] = "write" => items'[ch] >= items[ch]
                    /\ Cases[d][i][1] = "read" => items'[ch] <= items[ch]
<1>1. ch \in Chans /\ Cases[d][i][1] \in {"read", "write"}
  BY SelectPoint
<1>2. Open(d)
  BY DEF Frame, Open
<1>3. /\ d \in rwatch[ch] \cup wwatch[ch]
      /\ Cases[d][i][1] = "read" => d \in rwatch[ch] /\ d \in EnableRead(ch)
      /\ Cases[d][i][1] = "write" => d \in wwatch[ch] /\ \A k : d \in EnableWrite(ch, k)
  BY <1>1, <1>2 DEF Registered, EnableRead, EnableWrite
<1>4. ASSUME NEW cs, wake' = Decided(cs, "notify")  PROVE d \notin cs
  BY <1>4 DEF Decided
<1>t. /\ items \in [Chans -> Nat] /\ closed \in [Chans -> BOOLEAN]
      /\ items' \in [Chans -> Nat]
  BY ChanTypes, QueueTypes
<1>5. ASSUME Quiet(c) \/ WaitEnds(c)  PROVE Still
  BY <1>1, <1>5, <1>t DEF Quiet, WaitEnds
<1>6. ASSUME NEW x \in Chans, PutsRef(x) \/ QueuesUp(c, x)  PROVE Still
  BY <1>1, <1>6, <1>t DEF PutsRef, QueuesUp
<1>7. ASSUME NEW x \in Chans, Puts(x)  PROVE Still
  <2>1. CASE x # ch
    BY <1>1, <1>7, <1>t, <2>1 DEF Puts
  <2>2. CASE x = ch
    <3>1. Cases[d][i][1] # "read"
      BY <1>3, <1>4, <1>7, <2>2 DEF Puts
    <3> QED  BY <1>1, <1>7, <1>t, <2>2, <3>1 DEF Puts
  <2> QED  BY <2>1, <2>2
<1>8. ASSUME NEW x \in Chans, Takes(c, x)  PROVE Still
  <2>0. PICK o \in Reads, k \in Nat : Take(x, o, k)
    BY <1>8 DEF Takes
  <2>1. CASE x # ch
    BY <1>1, <1>t, <2>0, <2>1 DEF Take
  <2>2. CASE x = ch
    <3>1. Cases[d][i][1] # "write"
      BY <1>3, <1>4, <2>0, <2>2 DEF Take
    <3>2. items'[ch] <= items[ch] /\ closed' = closed
      <4> HIDE DEF ch
      <4>1. \/ items' = items
            \/ items' = [items EXCEPT ![ch] = @ - k]
        BY <2>0, <2>2 DEF Take
      <4>2. items[ch] \in Nat /\ (items'[ch] = items[ch] \/ items'[ch] = items[ch] - k)
        BY <1>1, <1>t, <4>1
      <4> QED  BY <2>0, <4>2 DEF Take
    <3> QED  BY <3>1, <3>2
  <2> QED  BY <2>1, <2>2
<1>9. ASSUME NEW x \in Chans, Closes(x)  PROVE Still
  <2>1. x # ch
    BY <1>2, <1>3, <1>4, <1>9 DEF Closes
  <2>2. items' = items /\ closed' = [closed EXCEPT ![x] = TRUE]
    BY <1>9 DEF Closes
  <2> HIDE DEF ch
  <2>3. items'[ch] = items[ch] /\ items[ch] \in Nat /\ closed'[ch] = closed[ch]
    BY <1>1, <1>t, <2>1, <2>2
  <2> QED  BY <2>3
<1>10. Still
  <2> HIDE DEF Still, ch
  <2> QED  BY <1>5, <1>6, <1>7, <1>8, <1>9 DEF Effect
<1> QED  BY <1>10

\* What CallbackSound says of one coroutine.
Tries(c) ==
    /\ call[c].op \in Selects /\ chanPc[c] \in Trying \cup {"parked"}
    /\ round[c] = "callback" /\ Open(c) /\ hit[c] = 0

NothingReady(c) ==
    /\ \A i \in DOMAIN Cases[c] : Passed(c, i) => Blocked(c, Cases[c][i])
    /\ chanPc[c] \in {"take", "drop"} => ~closed[Case(c)[2]]

LEMMA OthersStayBlocked ==
    ASSUME ChanInv, NEW c \in ChanCos, Frame(c), Effect(c), NEW d \in ChanCos \ {c}, Tries(d)'
    PROVE  NothingReady(d)'
<1>1. /\ chanPc'[d] = chanPc[d] /\ call'[d] = call[d] /\ round'[d] = round[d]
      /\ at'[d] = at[d] /\ hit'[d] = hit[d] /\ wake[d] = "none" /\ wake'[d] = "none"
      /\ uses' = uses
  BY DEF Tries, Frame, Open
<1>2. Tries(d) /\ call[d].op \in Selects
  BY <1>1 DEF Tries, Open
<1>3. NothingReady(d)
  BY <1>2, ChanParts DEF CallbackSound, Tries, NothingReady
<1>4. \A i \in DOMAIN Cases[d] : Registered(d, i)
  BY <1>2, ChanParts DEF Watchers, WatcherOf, Tries
<1>5. at[d] \in DOMAIN Cases[d]
  BY <1>2, SelectPoint
<1>6. ASSUME NEW i \in DOMAIN Cases[d]
      PROVE  /\ Cases[d][i] \in {"read", "write"} \X Chans
             /\ closed'[Cases[d][i][2]] = closed[Cases[d][i][2]]
             /\ Cases[d][i][1] = "write" => items'[Cases[d][i][2]] >= items[Cases[d][i][2]]
             /\ Cases[d][i][1] = "read" => items'[Cases[d][i][2]] <= items[Cases[d][i][2]]
  BY <1>1, <1>2, <1>4, SelectPoint, WatchedCase
<1>7. ASSUME NEW i \in DOMAIN Cases[d], Passed(d, i)'
      PROVE  Blocked(d, Cases[d][i])'
  <2> DEFINE ch == Cases[d][i][2]
  <2>1. Passed(d, i)
    BY <1>1, <1>7 DEF Passed
  <2>2. Blocked(d, Cases[d][i])
    BY <1>3, <2>1 DEF NothingReady
  <2>3. ch \in Chans
    BY <1>6
  <2>t. items[ch] \in Nat /\ items'[ch] \in Nat /\ Size(ch) \in Nat
    BY <2>3, ChanTypes, QueueTypes, ChanConstants
  <2>4. ~closed'[ch]
    BY <1>6, <2>2 DEF Blocked
  <2>5. Cases[d][i][1] = "write" => items'[ch] >= Size(ch)
    BY <1>6, <2>2, <2>t DEF Blocked, Full
  <2>6. Cases[d][i][1] = "read" /\ SoleReader(d, ch) => items'[ch] = 0
    BY <1>6, <2>2, <2>t DEF Blocked
  <2>7. SoleReader(d, ch)' <=> SoleReader(d, ch)
    BY <1>1 DEF SoleReader
  <2> QED  BY <2>4, <2>5, <2>6, <2>7 DEF Blocked, Full, Size, Unbuffered
<1>8. chanPc'[d] \in {"take", "drop"} => ~closed'[Case(d)[2]] /\ Case(d)' = Case(d)
  BY <1>1, <1>3, <1>5, <1>6 DEF NothingReady, Case
<1> QED  BY <1>7, <1>8 DEF NothingReady

\* The flag of a channel that nobody else reads is not found taken.
LEMMA FlagIsMine ==
    ASSUME ChanInv, NEW c \in ChanCos, NEW ch \in Chans, SoleReader(c, ch), reading[ch]
    PROVE  Holds(c, ch)
<1>1. PICK e \in ChanCos : Holds(e, ch)
  BY ChanParts DEF FlagHeld, FlagOf
<1>2. Posture(e) /\ RunLocal(e)
  BY ChanParts
<1>3. CASE call[e].op \in Reads /\ call[e].ch = ch
  <2>1. <<e, call[e].op, ch>> \in uses
    BY <1>2, <1>3 DEF Posture
  <2>2. MayRead(<<e, call[e].op, ch>>, ch)
    BY <1>3 DEF MayRead
  <2>3. e = c
    BY <2>1, <2>2 DEF SoleReader
  <2> QED  BY <1>1, <2>3
<1>4. CASE chanPc[e] \in {"take", "drop"} /\ Case(e)[2] = ch
  <2>1. call[e].op \in Selects
    BY <1>4, SelectPoint DEF Trying
  <2>2. PICK x \in Chans : <<e, call[e].op, x>> \in uses
    BY <1>2, <2>1 DEF Posture
  <2>3. /\ Case(e)[1] = "read" /\ Case(e) \in {"read", "write"} \X Chans
        /\ at[e] \in DOMAIN Cases[e]
    BY <1>2, <1>4, <2>1, SelectPoint DEF RunLocal
  <2>4. Cases[e][at[e]] = <<"read", ch>>
    BY <1>4, <2>3 DEF Case
  <2>5. MayRead(<<e, call[e].op, x>>, ch)
    BY <2>1, <2>3, <2>4 DEF MayRead
  <2>6. e = c
    BY <2>2, <2>5 DEF SoleReader
  <2> QED  BY <1>1, <2>6
<1> QED  BY <1>1, <1>3, <1>4 DEF Holds
LEMMA StillBlocked ==
    ASSUME NEW c, NEW case, uses' = uses, items' = items, closed' = closed, Blocked(c, case)
    PROVE  Blocked(c, case)'
BY DEF Blocked, SoleReader, Full

\* After the try of a case that is not ready the callback has passed that case too.
LEMMA PassedNext ==
    ASSUME ChanInv, NEW c \in ChanCos, call[c].op \in Selects,
           uses' = uses, items' = items, closed' = closed,
           NothingReady(c), Blocked(c, Case(c)), NotReady(c)
    PROVE  NothingReady(c)'
<1>1. /\ at[c] \in 1 .. Len(Cases[c]) /\ DOMAIN Cases[c] = 1 .. Len(Cases[c])
      /\ Len(Cases[c]) \in Nat /\ c \in DOMAIN at /\ c \in DOMAIN chanPc
  BY SelectPoint, ChanTypes
<1>2. \/ at'[c] = at[c] + 1 /\ chanPc'[c] = "try"
      \/ at'[c] = at[c] /\ at[c] = Len(Cases[c]) /\ chanPc'[c] = "tried"
  BY <1>1 DEF NotReady, Goto
<1>3. ASSUME NEW i \in DOMAIN Cases[c], Passed(c, i)'
      PROVE  Blocked(c, Cases[c][i])'
  <2>1. i \in 1 .. Len(Cases[c])
    BY <1>1
  <2>2. i < at[c] \/ i = at[c]
    BY <1>1, <1>2, <1>3, <2>1 DEF Passed
  <2>3. i < at[c] => Passed(c, i)
    BY DEF Passed
  <2>4. Blocked(c, Cases[c][i])
    BY <2>2, <2>3 DEF NothingReady, Case
  <2> QED  BY <2>4, StillBlocked
<1> QED  BY <1>2, <1>3 DEF NothingReady

LEMMA ActorStaysBlocked ==
    ASSUME ChanInv, NEW c \in ChanCos, Step(c), Tries(c)'
    PROVE  NothingReady(c)'
<1>0. /\ Posture(c) /\ RunLocal(c) /\ uses' = uses
      /\ Tries(c) => NothingReady(c)
  BY ChanParts, StepActions DEF CallbackSound, Tries, NothingReady
<1>h. /\ call'[c].op \in Selects /\ chanPc'[c] \in Trying \cup {"parked"}
      /\ round'[c] = "callback" /\ wake'[c] = "none" /\ hit'[c] = 0
  BY DEF Tries, Open
<1>t. /\ call[c] \in [op : {"none", "Close"} \cup Writes \cup Reads \cup Selects, ch : Chans]
      /\ c \in DOMAIN chanPc /\ c \in DOMAIN call /\ c \in DOMAIN wake /\ c \in DOMAIN at
      /\ c \in DOMAIN round /\ c \in DOMAIN hit /\ at[c] \in Nat \ {0}
      /\ NoCall.op = "none"
  BY ChanTypes, ChanConstants
<1>l. chanPc[c] \in Trying \cup {"unwatch"} => call[c].op \in Selects
  BY SelectPoint
<1>n. \A o \in Writes \cup Reads \cup {"none", "Close"} : o \notin Selects
  BY DEF Writes, Reads, Selects
<1>c. call[c].op \in Selects =>
        /\ at[c] \in 1 .. Len(Cases[c]) /\ DOMAIN Cases[c] = 1 .. Len(Cases[c])
        /\ Case(c) \in {"read", "write"} \X Chans
  BY SelectPoint
<1>1. ~(UNCHANGED selVars /\ ChanStep(c))
  <2>1. ~Bind(c)
    BY <1>h, <1>t DEF Bind, Goto, Trying
  <2>2. ~Release(c)
    BY <1>h, <1>t, <1>n DEF Release, Return
  <2>3. ~(WriteLocked(c) \/ WriteRefLocked(c) \/ ReadLocked(c) \/ CloseLocked(c) \/ BindFails(c)
          \/ Callback(c) \/ ResumeWait(c))
    <3>1. ASSUME \/ WriteLocked(c) \/ WriteRefLocked(c) \/ ReadLocked(c) \/ CloseLocked(c)
                 \/ BindFails(c) \/ Callback(c) \/ ResumeWait(c)
          PROVE  call[c].op \notin Selects /\ (call'[c] = call[c] \/ call'[c] = NoCall)
      <4>1. call'[c] = call[c] \/ call'[c] = NoCall
        BY <1>t, <3>1 DEF WriteLocked, PushItem, WriteRefLocked, ReadLocked, CloseLocked, BindFails,
           Callback, ResumeWait, Return, Take
      <4>2. \/ call[c].op \notin Selects
            \/ call[c].op \in Writes \cup Reads \cup {"Close"}
        BY <3>1 DEF WriteLocked, WriteRefLocked, ReadLocked, CloseLocked, BindFails, Callback,
           ResumeWait, Writes
      <4> QED  BY <1>n, <4>1, <4>2
    <3> QED  BY <1>h, <1>n, <1>t, <3>1
  <2> QED  BY <2>1, <2>2, <2>3 DEF ChanStep
<1>2. ~(Timeout(c) \/ RequestCancel(c))
  <2>1. ~Timeout(c)
    BY <1>h, <1>t DEF Timeout
  <2>2. ~RequestCancel(c)
    BY <1>h, <1>t DEF RequestCancel, Open
  <2> QED  BY <2>1, <2>2
<1>3. ~\E o \in Writes \cup Reads \cup {"Close"}, ch \in Chans : Enter(c, o, ch)
  BY <1>h, <1>t DEF Enter, Goto, Trying
<1>4. ~\E o \in Selects : Run(c, o)
  <2> SUFFICES ASSUME NEW o \in Selects, Run(c, o)  PROVE FALSE
    OBVIOUS
  <2>1. chanPc[c] = "idle" /\ round'[c] = round[c]
    BY DEF Run, selVars
  <2>2. call[c].op \notin Selects
    BY <1>0, <1>n, <2>1 DEF Posture
  <2> QED  BY <1>0, <1>h, <2>1, <2>2 DEF RunLocal
<1>5. CASE TryReadCase(c)
  <2> DEFINE ch == Case(c)[2]
  <2>1. /\ chanPc[c] = "try" /\ Case(c)[1] = "read" /\ ~closed[ch]
        /\ items' = items /\ closed' = closed /\ wake' = wake /\ round' = round /\ call' = call
        /\ \/ reading[ch] /\ NotReady(c)
           \/ chanPc'[c] = "take" /\ at' = at /\ hit' = hit
    BY <1>5, <1>h, <1>t DEF TryReadCase, Ready, Goto
  <2>2. call[c].op \in Selects /\ ch \in Chans
    BY <1>c, <1>l, <2>1 DEF Trying
  <2>3. hit[c] = 0
    BY <1>0, <2>1, <2>2 DEF RunLocal
  <2>4. NothingReady(c)
    BY <1>0, <1>h, <2>1, <2>2, <2>3 DEF Tries, Trying, Open
  <2>5. CASE reading[ch] /\ NotReady(c)
    <3>1. ~SoleReader(c, ch)
      <4>1. ~Holds(c, ch)
        BY <1>n, <2>1, <2>2 DEF Holds
      <4> QED  BY <2>2, <2>5, <4>1, FlagIsMine
    <3>2. Blocked(c, Case(c))
      BY <2>1, <3>1 DEF Blocked
    <3> QED  BY <1>0, <2>1, <2>2, <2>4, <2>5, <3>2, PassedNext
  <2>6. CASE chanPc'[c] = "take" /\ at' = at /\ hit' = hit
    <3>1. ASSUME NEW i \in DOMAIN Cases[c], Passed(c, i)'
          PROVE  Blocked(c, Cases[c][i])'
      <4>1. Passed(c, i)
        BY <2>6, <3>1 DEF Passed
      <4>2. Blocked(c, Cases[c][i])
        BY <2>4, <4>1 DEF NothingReady
      <4> QED  BY <1>0, <2>1, <4>2, StillBlocked
    <3> QED  BY <2>1, <2>6, <3>1 DEF NothingReady, Case
  <2> QED  BY <2>1, <2>5, <2>6
<1>6. CASE TakeCase(c)
  <2> DEFINE ch == Case(c)[2]
  <2>1. chanPc[c] = "take" /\ chanPc'[c] = "drop" /\ round' = round /\ call' = call /\ at' = at
    BY <1>6, <1>t DEF TakeCase, Goto
  <2>2. call[c].op \in Selects /\ ch \in Chans
    BY <1>c, <1>l, <2>1 DEF Trying
  <2>3. hit[c] = 0 /\ Case(c)[1] = "read"
    BY <1>0, <2>1, <2>2 DEF RunLocal
  <2>4. ~(items[ch] > 0) /\ items' = items /\ closed' = closed /\ wake' = wake
    BY <1>6, <1>h, <1>t DEF TakeCase
  <2>5. NothingReady(c)
    BY <1>0, <1>h, <2>1, <2>2, <2>3, <2>4 DEF Tries, Trying, Open
  <2>6. Blocked(c, Case(c))
    <3>1. items[ch] = 0
      BY <2>2, <2>4, ChanTypes
    <3> QED  BY <2>1, <2>3, <2>5, <3>1 DEF NothingReady, Blocked
  <2>7. ASSUME NEW i \in DOMAIN Cases[c], Passed(c, i)'
        PROVE  Blocked(c, Cases[c][i])'
    <3>1. i = at[c] \/ Passed(c, i)
      BY <2>1, <2>7 DEF Passed
    <3>2. Blocked(c, Cases[c][i])
      BY <2>5, <2>6, <3>1 DEF NothingReady, Case
    <3> QED  BY <1>0, <2>4, <3>2, StillBlocked
  <2>8. ~closed'[Case(c)[2]] /\ Case(c)' = Case(c)
    BY <2>1, <2>4, <2>5 DEF NothingReady, Case
  <2> QED  BY <2>7, <2>8 DEF NothingReady
<1>7. CASE DropCase(c)
  <2>1. /\ chanPc[c] = "drop" /\ items' = items /\ closed' = closed /\ wake' = wake
        /\ round' = round /\ call' = call /\ NotReady(c) /\ hit' = hit
    BY <1>7, <1>h, <1>t DEF DropCase, Ready, NotReady
  <2>2. call[c].op \in Selects
    BY <1>l, <2>1 DEF Trying
  <2>3. NothingReady(c)
    BY <1>0, <1>h, <2>1, <2>2 DEF Tries, Trying, Open
  <2>4. Passed(c, at[c]) /\ at[c] \in DOMAIN Cases[c]
    BY <1>c, <2>1, <2>2 DEF Passed
  <2>5. Blocked(c, Case(c))
    BY <2>3, <2>4 DEF NothingReady, Case
  <2> QED  BY <1>0, <2>1, <2>2, <2>3, <2>5, PassedNext
<1>8. CASE TryWriteCase(c)
  <2> DEFINE ch == Case(c)[2]
  <2>1. /\ chanPc[c] = "try" /\ Case(c)[1] = "write" /\ ~closed[ch] /\ Full(ch) /\ NotReady(c)
        /\ items' = items /\ closed' = closed /\ wake' = wake /\ round' = round /\ call' = call
    BY <1>8, <1>h, <1>t DEF TryWriteCase, Ready
  <2>2. call[c].op \in Selects
    BY <1>l, <2>1 DEF Trying
  <2>3. hit[c] = 0
    BY <1>0, <2>1, <2>2 DEF RunLocal
  <2>4. NothingReady(c)
    BY <1>0, <1>h, <2>1, <2>2, <2>3 DEF Tries, Trying, Open
  <2>5. Blocked(c, Case(c))
    BY <2>1 DEF Blocked
  <2> QED  BY <1>0, <2>1, <2>2, <2>4, <2>5, PassedNext
<1>9. CASE Tried(c)
  <2>1. /\ chanPc[c] = "tried" /\ round[c] = "callback" /\ hit[c] = 0 /\ wake' = wake
        /\ chanPc'[c] = "parked" /\ at' = at /\ items' = items /\ closed' = closed
    BY <1>9, <1>h, <1>t DEF Tried, Goto, chanVars
  <2>2. call[c].op \in Selects
    BY <1>l, <2>1 DEF Trying
  <2>3. NothingReady(c)
    BY <1>0, <1>h, <2>1, <2>2 DEF Tries, Trying, Open
  <2>4. ASSUME NEW i \in DOMAIN Cases[c]
        PROVE  Blocked(c, Cases[c][i])'
    <3>1. Passed(c, i)
      BY <2>1 DEF Passed
    <3>2. Blocked(c, Cases[c][i])
      BY <2>3, <3>1 DEF NothingReady
    <3> QED  BY <1>0, <2>1, <3>2, StillBlocked
  <2> QED  BY <2>1, <2>4 DEF NothingReady
<1>10. ~(SelectBindFails(c) \/ ResumeSelect(c))
  BY <1>h, <1>t DEF SelectBindFails, ResumeSelect
<1>11. CASE Watch(c)
  <2>1. chanPc'[c] = "try" /\ at'[c] = 1
    BY <1>11, <1>h, <1>t DEF Watch, Goto, Trying
  <2>2. call[c].op \in Selects
    BY <1>11 DEF Watch
  <2>3. \A i \in DOMAIN Cases[c] : ~(i < 1)
    BY <1>c, <2>2
  <2> QED  BY <2>1, <2>3 DEF NothingReady, Passed
<1>12. ~Unwatch(c)
  BY <1>h, <1>t DEF Unwatch, Return, Goto, Trying
<1> QED
  BY <1>1, <1>2, <1>3, <1>4, <1>5, <1>6, <1>7, <1>8, <1>9, <1>10, <1>11, <1>12, StepActions
     DEF SelectStep
LEMMA CallbackStep ==
    ASSUME ChanInv, NEW c \in ChanCos, Step(c), Frame(c), Effect(c)
    PROVE  CallbackSound'
<1>1. ASSUME NEW d \in ChanCos, Tries(d)'
      PROVE  NothingReady(d)'
  BY <1>1, OthersStayBlocked, ActorStaysBlocked
<1> QED  BY <1>1 DEF CallbackSound, Tries, NothingReady

-----------------------------------------------------------------------------
(* The invariant, and what it says of channels and selects.                 *)

LEMMA ChanInitially ==
    ASSUME SelectInit
    PROVE  ChanInv
<1>0. NoCall \in [op : {"none"}, ch : Chans] /\ NoCall.op = "none"
  BY ChanConstants
<1>1. SelectTypeOK
  <2>1. ChanTypeOK
    <3>1. \A ch \in Chans : 0 <= Size(ch)
      BY ChanConstants
    <3>2. <<>> \in Seq(ChanCos \cup {Dead})
      BY EmptySeq
    <3> QED  BY <1>0, <3>1, <3>2 DEF SelectInit, ChanInit, ChanTypeOK
  <2> QED  BY <2>1 DEF SelectInit, ChanInit, SelectTypeOK
<1>2. ASSUME NEW c \in ChanCos
      PROVE  /\ chanPc[c] = "idle" /\ call[c].op = "none" /\ wake[c] = "unbound"
             /\ round[c] = "first" /\ at[c] = 1 /\ hit[c] = 0 /\ done[c] = 0
  BY <1>0 DEF SelectInit, ChanInit
<1>n. \A o \in Writes \cup Reads \cup Selects \cup {"Close"} : o # "none"
  BY DEF Writes, Reads, Selects
<1>3. \A c \in ChanCos : Posture(c) /\ RunLocal(c)
  BY <1>2, <1>n DEF Posture, RunLocal, Trying
<1>4. FlagHeld
  BY <1>2, <1>n DEF FlagHeld, FlagOf, Holds, SelectInit, ChanInit
<1>5. \A ch \in Chans : Live(conds[ch]) = {}
  BY DEF Live, SelectInit, ChanInit
<1>6. WritersQueued /\ WriterNotStranded
  BY <1>5 DEF WritersQueued, QueueOf, WriterNotStranded, WaitingWriters
<1>7. Watchers
  BY <1>2, <1>n DEF Watchers, WatcherOf, SelectInit, ChanInit
<1>8. ReaderNotStranded /\ CallbackSound
  BY <1>2, <1>n DEF ReaderNotStranded, CallbackSound
<1> QED  BY <1>1, <1>3, <1>4, <1>6, <1>7, <1>8 DEF ChanInv

LEMMA ChanPreserved ==
    ASSUME ChanInv, SelectNext
    PROVE  ChanInv'
<1>1. PICK c \in ChanCos : Step(c)
  BY DEF SelectNext, Step
<1>2. Frame(c) /\ Effect(c)
  BY <1>1, StepEffect
<1>3. SelectTypeOK'
  BY <1>1, <1>2, TypeStep
<1>4. \A d \in ChanCos : Posture(d)' /\ RunLocal(d)'
  BY <1>1, <1>2, PostureStep
<1>5. FlagHeld' /\ WritersQueued' /\ Watchers'
  BY <1>1, <1>2, FlagStep, QueueStep, WatchersStep
<1>6. ReaderNotStranded' /\ WriterNotStranded' /\ CallbackSound'
  BY <1>1, <1>2, ReaderStep, WriterStep, CallbackStep
<1> QED  BY <1>3, <1>4, <1>5, <1>6 DEF ChanInv

LEMMA ChanStutter ==
    ASSUME ChanInv, UNCHANGED selectAll
    PROVE  ChanInv'
<1>1. /\ uses' = uses /\ items' = items /\ refs' = refs /\ closed' = closed /\ reading' = reading
      /\ conds' = conds /\ rwatch' = rwatch /\ wwatch' = wwatch /\ chanPc' = chanPc /\ call' = call
      /\ wake' = wake /\ ahead' = ahead /\ chanCancel' = chanCancel
      /\ round' = round /\ at' = at /\ hit' = hit /\ done' = done
  BY DEF selectAll, chanAll, chanVars, coVars, selVars
<1>2. SelectTypeOK'
  BY <1>1, ChanParts DEF SelectTypeOK, ChanTypeOK
<1>3. \A c \in ChanCos : Posture(c)' /\ RunLocal(c)'
  BY <1>1, ChanParts DEF Posture, RunLocal, Open, Case
<1>4. FlagHeld'
  BY <1>1, ChanParts DEF FlagHeld, FlagOf, Holds, Case
<1>5. WritersQueued'
  BY <1>1, ChanParts DEF WritersQueued, QueueOf, WaitsToWrite, Open
<1>6. Watchers'
  BY <1>1, ChanParts DEF Watchers, WatcherOf, Watches, Registered
<1>7. ReaderNotStranded'
  BY <1>1, ChanParts DEF ReaderNotStranded, Open, Empty, OnRefs
<1>8. WriterNotStranded'
  <2>1. \A ch : WokenWriters(ch)' = WokenWriters(ch)
    BY <1>1 DEF WokenWriters
  <2>2. \A ch : WaitingWriters(ch)' = WaitingWriters(ch)
    BY <1>1 DEF WaitingWriters
  <2> QED  BY <1>1, <2>1, <2>2, ChanParts DEF WriterNotStranded
<1>9. CallbackSound'
  BY <1>1, ChanParts DEF CallbackSound, Passed, Blocked, SoleReader, Full, Open, Case
<1> QED  BY <1>2, <1>3, <1>4, <1>5, <1>6, <1>7, <1>8, <1>9 DEF ChanInv

LEMMA ChanInvImplies ==
    ASSUME ChanInv
    PROVE  ChanSound
<1>1. SelectNotStranded
  <2> SUFFICES ASSUME NEW c \in ChanCos, call[c].op \in Selects, chanPc[c] = "parked", Open(c),
                      NEW i \in DOMAIN Cases[c]
               PROVE  Blocked(c, Cases[c][i])
    BY DEF SelectNotStranded
  <2>1. round[c] = "callback" /\ hit[c] = 0
    BY ChanParts DEF RunLocal
  <2> QED  BY <2>1, ChanParts DEF CallbackSound, Passed
<1>2. SelectOnce
  <2> SUFFICES ASSUME NEW c \in ChanCos
               PROVE  /\ done[c] <= 1
                      /\ call[c].op \in Selects /\ chanPc[c] = "unwatch" /\ done[c] = 1 => hit[c] > 0
    BY DEF SelectOnce
  <2>1. RunLocal(c) /\ hit[c] \in Nat /\ done[c] \in Nat
    BY ChanParts, ChanTypes
  <2> QED  BY <2>1 DEF RunLocal
<1> QED  BY <1>1, <1>2, ChanParts DEF ChanSound

LEMMA ChanInvariance == SelectSpec => []ChanInv
<1>1. ChanInv /\ [SelectNext]_selectAll => ChanInv'
  BY ChanPreserved, ChanStutter
<1> QED  BY <1>1, ChanInitially, PTL DEF SelectSpec

\* Channels and select, for every number of coroutines, channels, capacities and
\* cases: the elements and closings of Write, Read, TryRead, ReadAll and Close reach
\* whoever _WaitUntilEnableRead, _WaitUntilEnableWrite or the callback of
\* CoSelect::Run has left suspended, and one Run performs one operation at most.
THEOREM ChanSoundHolds == SelectSpec => []ChanSound
BY ChanInvariance, ChanInvImplies, PTL
=============================================================================
