------------------------------ MODULE HookTime ------------------------------
(***************************************************************************)
(* detail/Hook: how the durations of the hooked calls become the integer   *)
(* milliseconds of a coroutine timer.  Units are those of the code; the    *)
(* largest int is a constant, so that values on both sides of the limits   *)
(* of int and unsigned int can be enumerated.                              *)
(***************************************************************************)
EXTENDS Integers

CONSTANTS
    IntMax,       \* the largest int (2^31 - 1 in the code)
    Secs, Fracs,  \* bounds: seconds asked for; micro- or nanoseconds
    Now,          \* the clock when clock_nanosleep reads it: <<sec, nsec>>
    WaitTimes     \* bound: when a call under a socket timeout is about to wait,
                  \* in microseconds after it has noted its deadline

ASSUME HookTimeAssumption ==
    /\ IntMax \in Nat \ {0} /\ Secs \cup Fracs \cup WaitTimes \subseteq Nat
    /\ Now[1] \in Nat /\ Now[2] \in Nat /\ Now[2] <= 999999999

VARIABLES request, outcome,
          elapsed  \* of the call that has a deadline, in microseconds

timeVars == <<request, outcome, elapsed>>

TimeKinds == {"sleep", "usleep", "nanosleep", "clock_abstime", "so_timeo", "select", "pselect"}

UIntMax == 2 * IntMax + 1
Unsigned(n) == n % (UIntMax + 1)
ToInt(n) == IF Unsigned(n) > IntMax THEN Unsigned(n) - (UIntMax + 1) ELSE Unsigned(n)

\* What a caller can ask for: fractions are less than a second.
FracMax(kind) ==
    CASE kind = "usleep" -> UIntMax
      [] kind \in {"sleep", "so_timeo", "select"} -> 999999
      [] kind \in {"nanosleep", "clock_abstime", "pselect"} -> 999999999
Requests == {r \in [kind : TimeKinds, sec : Secs, frac : Fracs] : r.frac <= FracMax(r.kind)}

CeilDiv(n, d) == (n + d - 1) \div d

-----------------------------------------------------------------------------
\* YieldUntilTimeout: InitFdEvent refuses a negative time, and StartListen arms
\* no timer for zero.
Returns(code) == [how |-> "returns", n |-> code]
Forever == [how |-> "forever", n |-> 0]
Timer(ms) ==
    IF ms < 0 THEN Returns(-1) ELSE IF ms = 0 THEN Forever ELSE [how |-> "timer", n |-> ms]

\* sleep and Hook_Sleep.
HookSleep(r) ==
    LET ms == ToInt(r.sec * 1000) IN IF ms <= 0 THEN Returns(-1) ELSE Timer(ms)

RoundsDown(r) ==  \* mutant
    IF r.frac = 0 THEN Returns(0) ELSE Timer(Unsigned(r.frac) \div 1000)
HookUSleep(r) ==
    IF r.frac = 0 THEN Returns(0) ELSE Timer(Unsigned(r.frac + 999) \div 1000)

HookNanosleep(r) ==
    LET ms == r.sec * 1000 + CeilDiv(r.frac, 1000000)
    IN  IF ms <= 0 THEN Returns(0) ELSE Timer(ToInt(ms))

\* TIMER_ABSTIME: what is left, in whole milliseconds; a failure is EINVAL.
HookClockNanosleep(r) ==
    LET sec == r.sec - Now[1]
        nsec == r.frac - Now[2]
        past == sec < 0 \/ (sec = 0 /\ nsec <= 0)
        ms == sec * 1000 + CeilDiv(nsec, 1000000)
        t == Timer(ToInt(ms))
    IN  IF past THEN Returns(0) ELSE IF t.how = "returns" THEN Returns(22) ELSE t

\* IoTimeout, Hook_Select, Hook_PSelect: seconds are narrowed, then scaled.
IoTimeoutMs(r) == ToInt(ToInt(r.sec) * 1000 + CeilDiv(r.frac, 1000))

\* remain_ms: what is left of ms milliseconds, whole ones only.  CoWaitFdReady
\* looks at it before each wait, and gives up when there is nothing left.
StartsAgain(ms, spent) == ms  \* mutant
RemainMs(ms, spent) == IF spent < ms * 1000 THEN (ms * 1000 - spent) \div 1000 ELSE 0
HookIoTimeout(r, spent) ==
    LET remain == RemainMs(IoTimeoutMs(r), spent)
    IN  IF IoTimeoutMs(r) <= 0 \/ (r.sec = 0 /\ r.frac = 0) THEN Forever
        ELSE IF remain <= 0 THEN Returns(-1) ELSE Timer(remain)

PollTimeout(ms) == IF ms < 0 THEN Forever ELSE IF ms = 0 THEN Returns(0) ELSE Timer(ms)
HookSelect(r) == PollTimeout(IoTimeoutMs(r))
HookPSelect(r) == PollTimeout(ToInt(ToInt(r.sec) * 1000 + CeilDiv(r.frac, 1000000)))

TimeInit == request \in Requests /\ outcome = Returns(1) /\ elapsed = 0

\* The call is made: how long it lasts.
Settle ==
    /\ outcome = Returns(1) /\ request.kind # "so_timeo"
    /\ outcome' = CASE request.kind = "sleep" -> HookSleep(request)
                    [] request.kind = "usleep" -> HookUSleep(request)
                    [] request.kind = "nanosleep" -> HookNanosleep(request)
                    [] request.kind = "clock_abstime" -> HookClockNanosleep(request)
                    [] request.kind = "select" -> HookSelect(request)
                    [] request.kind = "pselect" -> HookPSelect(request)
    /\ UNCHANGED <<request, elapsed>>

\* The loop of an I/O call under a socket timeout: the system call would block,
\* for the first time or after a wait that its timer or readiness has ended.
IoWaits ==
    /\ outcome = Returns(1) \/ outcome.how = "timer"
    /\ request.kind = "so_timeo"
    /\ elapsed' \in {t \in WaitTimes : t >= elapsed}
    /\ outcome' = HookIoTimeout(request, elapsed')
    /\ UNCHANGED request

TimeNext == Settle \/ IoWaits

-----------------------------------------------------------------------------
(* Properties.                                                              *)

\* What is asked for, in whole milliseconds (rounded up).
Asked(r) ==
    CASE r.kind = "sleep" -> r.sec * 1000
      [] r.kind = "usleep" -> CeilDiv(r.frac, 1000)
      [] r.kind \in {"nanosleep", "pselect"} -> r.sec * 1000 + CeilDiv(r.frac, 1000000)
      [] r.kind = "clock_abstime" ->
             (r.sec - Now[1]) * 1000 + CeilDiv(r.frac - Now[2], 1000000)
      [] r.kind \in {"so_timeo", "select"} -> r.sec * 1000 + CeilDiv(r.frac, 1000)

\* Requests inside of the limits: the time fits an int, and for usleep also the
\* sum that rounds it up.
Fits(r) == Asked(r) <= IntMax /\ (r.kind = "usleep" => r.frac + 999 <= UIntMax)

\* The deadline of a socket timeout of ask milliseconds: a wait is set to end not
\* later and less than a millisecond before; only in that last millisecond, or
\* after it, does the call give up.
WithinDeadline(ask, spent, out) ==
    /\ ask * 1000 - 1000 < spent + (IF out.how = "timer" THEN out.n * 1000 ELSE 0)
    /\ out.how = "timer" => spent + out.n * 1000 <= ask * 1000
    /\ out.how = "timer" \/ out = Returns(-1)

\* A call inside the limits lasts exactly the time asked for, rounded up to a
\* millisecond: it never returns early, is not refused and does not wait for
\* ever; zero returns at once.  A socket timeout counts from the call, however
\* often it waits again: the timer is set for the deadline or up to a
\* millisecond before it (one of 1 ms may not wait at all); zero means none.
LastsAsAsked ==
    outcome # Returns(1) /\ Fits(request) =>
        IF request.kind = "so_timeo"
        THEN IF Asked(request) > 0 THEN WithinDeadline(Asked(request), elapsed, outcome)
             ELSE outcome = Forever
        ELSE IF Asked(request) > 0 THEN outcome = Timer(Asked(request))
        ELSE outcome.how = "returns"
=============================================================================
