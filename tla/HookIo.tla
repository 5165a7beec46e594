------------------------------- MODULE HookIo -------------------------------
(***************************************************************************)
(* detail/Hook: the system calls on a descriptor that a coroutine makes.   *)
(* All have one shape: save the flags and set O_NONBLOCK, call, suspend on *)
(* EAGAIN, look at the generation of the descriptor when resumed, call     *)
(* again, give the flags back.  A call with MSG_DONTWAIT is only made.     *)
(* "connect" clears SO_ERROR when its wait fails; all others are "io".     *)
(*                                                                         *)
(* A cancel, the end of SO_RCVTIMEO / SO_SNDTIMEO and a wait that cannot   *)
(* be set up all end the call in the same way, so they are one choice.  A  *)
(* regular file never answers EAGAIN: the guard that puts its offset back  *)
(* acts only when the one call fails, in the same breath.                  *)
(*                                                                         *)
(* One descriptor number; the kernel objects it names one after another    *)
(* are numbered.  close() is taken as CoPollEvent has it: one closer at a  *)
(* time, waits that it ends or that begin meanwhile report CLOSED.         *)
(***************************************************************************)
EXTENDS Integers, FiniteSets

CONSTANTS IoCos, MaxObjects  \* bound: objects behind the number

ASSUME HookIoAssumption == MaxObjects \in Nat \ {0}

Objects == 1 .. MaxObjects

VARIABLES
    fdObj,      \* the object the number names, 0: none
    opened,     \* objects so far
    nonblock,   \* O_NONBLOCK of each object
    owned,      \* history: what its owner set
    fdEpoch,    \* FdEpoch
    fdClosing,  \* Hook_Close: no, begun (BeginFdClose), called (EndFdClose to come)
    ioPc,
    ioCall      \* the frame of each call

\* A frame: which call; m_old has O_NONBLOCK; m_restore; m_last_wait_epoch;
\* resumed by POLL_EVENT_CLOSED.  History: the object it was made on; a close met
\* it outside of its waits (the caller's own race); another call met it; it
\* touched an object that is not its own, not having raced; it ran into a blocking object.
Frame == [kind : {"io", "connect", "dontwait"}, saved : BOOLEAN, restore : BOOLEAN,
          waitEpoch : 0 .. MaxObjects, closedWake : BOOLEAN, mine : 0 .. MaxObjects,
          raced : BOOLEAN, overlapped : BOOLEAN, stained : BOOLEAN, stuck : BOOLEAN]
NoFrame == [kind |-> "io", saved |-> FALSE, restore |-> FALSE, waitEpoch |-> 0,
            closedWake |-> FALSE, mine |-> 0, raced |-> FALSE, overlapped |-> FALSE,
            stained |-> FALSE, stuck |-> FALSE]

\* What is left of it once the call has returned.
Left(f) == [NoFrame EXCEPT !.stained = f.stained]

\* History: objects that a call with another object, or one that was told
\* EBADF, has left behind.
VARIABLE spoilt

fdVars == <<fdObj, opened, nonblock, owned, fdEpoch, fdClosing>>
ioVars == <<fdVars, ioPc, ioCall, spoilt>>

IoTypeOK ==
    /\ fdObj \in 0 .. MaxObjects /\ opened \in Objects
    /\ nonblock \in [Objects -> BOOLEAN] /\ owned \in [Objects -> BOOLEAN]
    /\ fdEpoch \in 0 .. MaxObjects /\ fdClosing \in {"no", "begun", "called"}
    /\ ioPc \in [IoCos -> {"out", "set", "call", "again", "wait", "back", "leave"}]
    /\ ioCall \in [IoCos -> Frame]
    /\ spoilt \subseteq Objects

IoInit ==
    /\ fdObj = 1 /\ opened = 1 /\ fdEpoch = 0 /\ fdClosing = "no"
    /\ owned \in {[o \in Objects |-> o = 1], [o \in Objects |-> o # 1]}
    /\ nonblock = owned
    /\ ioPc = [c \in IoCos |-> "out"]
    /\ ioCall = [c \in IoCos |-> NoFrame]
    /\ spoilt = {}

Inside == {c \in IoCos : ioPc[c] # "out"}

\* The call goes on at label with frame f, after having done something to
\* whatever the number names now / without.
Touching(c, label, f) ==
    LET alien == fdObj \notin {0, ioCall[c].mine} IN
    /\ ioPc' = [ioPc EXCEPT ![c] = label]
    /\ ioCall' = [ioCall EXCEPT ![c] = [f EXCEPT !.stained = @ \/ (alien /\ ~ioCall[c].raced)]]
    /\ spoilt' = IF alien THEN spoilt \cup {fdObj} ELSE spoilt
Going(c, label, f) ==
    /\ ioPc' = [ioPc EXCEPT ![c] = label]
    /\ ioCall' = [ioCall EXCEPT ![c] = f]

-----------------------------------------------------------------------------
\* CoIoNonblockGuard: read the flags (EBADF ends the call), and set O_NONBLOCK
\* where it is missing, or give the call up.
IoEnter(c, k) ==
    LET f == [NoFrame EXCEPT !.kind = k, !.mine = fdObj, !.saved = nonblock[fdObj],
                             !.overlapped = Inside # {}] IN
    /\ ioPc[c] = "out" /\ fdObj # 0
    /\ ioPc' = [ioPc EXCEPT ![c] = IF k = "dontwait" \/ nonblock[fdObj] THEN "call" ELSE "set"]
    /\ ioCall' = [d \in IoCos |-> IF d = c THEN f
                                ELSE [ioCall[d] EXCEPT !.overlapped = d \in Inside]]
    /\ UNCHANGED <<fdVars, spoilt>>

CallsAnyway(c) ==  \* mutant
    /\ ioPc[c] = "set"
    /\ \/ /\ fdObj # 0
          /\ nonblock' = [nonblock EXCEPT ![fdObj] = TRUE]
          /\ Touching(c, "call", [ioCall[c] EXCEPT !.restore = TRUE])
       \/ Going(c, "call", ioCall[c]) /\ UNCHANGED <<nonblock, spoilt>>
    /\ UNCHANGED <<fdObj, opened, owned, fdEpoch, fdClosing>>
SetNonblock(c) ==
    /\ ioPc[c] = "set"
    /\ \/ /\ fdObj # 0
          /\ nonblock' = [nonblock EXCEPT ![fdObj] = TRUE]
          /\ Touching(c, "call", [ioCall[c] EXCEPT !.restore = TRUE])
       \/ Going(c, "out", Left(ioCall[c])) /\ UNCHANGED <<nonblock, spoilt>>
    /\ UNCHANGED <<fdObj, opened, owned, fdEpoch, fdClosing>>

\* The original function: done or failed, or "not now".  An accepted descriptor
\* is made non-blocking, or closed, before it is handed out.
SysCall(c) ==
    /\ ioPc[c] = "call"
    /\ \/ Touching(c, "leave", ioCall[c])
       \/ /\ fdObj # 0 /\ ioCall[c].kind # "dontwait"
          /\ Touching(c, "again", [ioCall[c] EXCEPT !.stuck = @ \/ ~nonblock[fdObj]])
    /\ UNCHANGED fdVars

\* CoWaitFdReady up to the suspension; the generation is noted.  A wait that
\* begins while the descriptor is being closed has ended.
IoGiveUp(c) ==
    /\ ioPc[c] = "again"
    /\ IF ioCall[c].kind = "connect" THEN Touching(c, "leave", ioCall[c])  \* ResetConnectState
       ELSE Going(c, "leave", ioCall[c]) /\ UNCHANGED spoilt
    /\ UNCHANGED fdVars
WaitBegin(c) ==
    /\ ioPc[c] = "again" /\ fdObj # 0
    /\ Going(c, IF fdClosing = "no" THEN "wait" ELSE "back",
             [ioCall[c] EXCEPT !.waitEpoch = fdEpoch, !.closedWake = fdClosing # "no"])
    /\ UNCHANGED <<fdVars, spoilt>>

\* Readiness, the timer or a cancel end the wait.
WaitEnds(c) ==
    /\ ioPc[c] = "wait"
    /\ Going(c, "back", ioCall[c])
    /\ UNCHANGED <<fdVars, spoilt>>

\* Resumed: another generation means EBADF, and the guards are dismissed.
SameFd(f) == TRUE  \* mutant
WaitEpochValid(f) == ~f.closedWake /\ fdEpoch = f.waitEpoch
IoResume(c) ==
    /\ ioPc[c] = "back"
    /\ IF WaitEpochValid(ioCall[c])
       THEN Going(c, "call", ioCall[c]) /\ UNCHANGED spoilt
       ELSE Going(c, "out", Left(ioCall[c])) /\ spoilt' = spoilt \cup {ioCall[c].mine}
    /\ UNCHANGED fdVars

\* ~CoIoNonblockGuard.
GivesBackAlways(f) == f.kind # "dontwait"  \* mutant
GivesBack(f) == f.restore
IoLeave(c) ==
    /\ ioPc[c] = "leave"
    /\ IF GivesBack(ioCall[c]) /\ fdObj # 0
       THEN /\ nonblock' = [nonblock EXCEPT ![fdObj] = ioCall[c].saved]
            /\ Touching(c, "out", Left(ioCall[c]))
       ELSE Going(c, "out", Left(ioCall[c])) /\ UNCHANGED <<nonblock, spoilt>>
    /\ UNCHANGED <<fdObj, opened, owned, fdEpoch, fdClosing>>

-----------------------------------------------------------------------------
(* close() and the reuse of the number.                                     *)

\* A close that does not find a call in its wait is the caller's own race.
Meets == [c \in IoCos |-> [ioCall[c] EXCEPT
    !.closedWake = @ \/ ioPc[c] = "wait",
    !.raced = @ \/ ioPc[c] \notin {"out", "wait", "back"}]]

CloseBegin ==
    /\ fdObj # 0 /\ fdClosing = "no"
    /\ fdEpoch' = fdEpoch + 1 /\ fdClosing' = "begun"
    /\ ioPc' = [c \in IoCos |-> IF ioPc[c] = "wait" THEN "back" ELSE ioPc[c]]
    /\ ioCall' = Meets
    /\ UNCHANGED <<fdObj, opened, nonblock, owned, spoilt>>
CloseCall ==
    /\ fdClosing = "begun"
    /\ fdObj' = 0 /\ fdClosing' = "called"
    /\ ioCall' = Meets
    /\ UNCHANGED <<opened, nonblock, owned, fdEpoch, ioPc, spoilt>>
CloseEnd ==
    /\ fdClosing = "called"
    /\ fdClosing' = "no"
    /\ UNCHANGED <<fdObj, opened, nonblock, owned, fdEpoch, ioPc, ioCall, spoilt>>

\* Another object gets the number.
Reopen ==
    /\ fdObj = 0 /\ opened < MaxObjects
    /\ opened' = opened + 1 /\ fdObj' = opened + 1
    /\ UNCHANGED <<nonblock, owned, fdEpoch, fdClosing, ioPc, ioCall, spoilt>>

IoNext ==
    \/ \E c \in IoCos :
        \/ \E k \in {"io", "connect", "dontwait"} : IoEnter(c, k)
        \/ SetNonblock(c) \/ SysCall(c) \/ IoGiveUp(c) \/ WaitBegin(c) \/ WaitEnds(c)
        \/ IoResume(c) \/ IoLeave(c)
    \/ CloseBegin \/ CloseCall \/ CloseEnd \/ Reopen

IoSpec == IoInit /\ [][IoNext]_ioVars

-----------------------------------------------------------------------------
(* Properties.                                                              *)

\* A call whose descriptor is closed, and whose number is used again, while it
\* waits (or is ready and not yet resumed) does nothing to the new object: it
\* neither calls again nor gives flags back.
StaleUntouched == \A c \in IoCos : ~ioCall[c].stained

\* When no call is under way the flags are those the owner set, however calls
\* on one descriptor overlap, fail, time out or are cancelled.  Only EBADF (the
\* descriptor is being closed) leaves the object as the call had it.
FlagsKept ==
    fdObj # 0 /\ Inside = {} /\ fdObj \notin spoilt => nonblock[fdObj] = owned[fdObj]

\* A worker thread does not block in a system call: the object is non-blocking
\* whenever a call is made, unless two calls share a blocking descriptor (the
\* first to return makes it blocking again) or the caller races with a close.
NeverBlocks == \A c \in IoCos : ioCall[c].stuck => ioCall[c].overlapped \/ ioCall[c].raced

\* What a hooked call does to a descriptor (Hook.cc, the loop the I/O calls
\* share): nothing to an object that is not its own, flags as the owner set them
\* once it has returned, no blocking in the system call.
DescriptorKept == IoTypeOK /\ StaleUntouched /\ FlagsKept /\ NeverBlocks
=============================================================================
