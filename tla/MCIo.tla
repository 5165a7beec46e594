-------------------------------- MODULE MCIo --------------------------------
(***************************************************************************)
(* The waits of CoPollEvent, and what lies around and below them: the      *)
(* hooked system calls, the name resolver, the events of the loop, the     *)
(* stacks, the run queues, the stall report, the objects.  One behaviour   *)
(* is one of these parts: the part is chosen in the initial state, the     *)
(* variables of the others stay as they are.                               *)
(***************************************************************************)
EXTENDS CoPollEvent, HookIo, HookPoll, HookTime, DnsResolver, Event, StackPool,
        CfsRunQueue, WorkerStall, ObjectRegistry, TLC

CONSTANTS c1, e1, e2, k1, k2, fd1, i1, i2, i3, pf1, pf2, a1, a2, b1, b2,
          f1, f2, w1, w2, o1, o2, o3, key1, key2, kind1, s1

-----------------------------------------------------------------------------
(* Instances.                                                               *)

\* A read with a socket timeout, a Notify wait with a deadline.
TimedReadAndNotify == {<<fd1, {"READY", "TIMEOUT"}>>, <<NoFd, {"CUSTOM", "TIMEOUT"}>>}

\* Times on both sides of every carry and of the 16-bit range.
MCSecs == {0, 1, 2, 31, 32, 33, 65, 66, 70}
MCFracs == {0, 1, 999, 1000, 1001, 32767, 32768, 64536, 64537, 65535, 999999, 1000000,
            1000001, 999999999}
MCNow == <<1, 500000000>>
\* Around the carries of timeouts of 0, 1 and 2 ms, and of the largest.
MCWaitTimes == {0, 1, 999, 1000, 1001, 1999, 32000000, 32766001, 32767000}

\* One page, two with a guard page, one whose guard page does not fit, one whose
\* alignment overflows; with pages of 12 and words of 8 bits.
MCAsks == {<<9, FALSE>>, <<13, TRUE>>, <<109, TRUE>>, <<255, FALSE>>}
MCDefault == <<9, FALSE>>

\* Two groups of names, each exchanged together.  Those of a group are in different
\* parts: events, coroutines of the run queues, calls of Await and objects; closers,
\* coroutines of the hooked calls, calls of AwaitBounded, and workers, who are also
\* the callers of the registry.
Exchange(x, y) == (x :> y) @@ (y :> x)
Swap1 == Exchange(e1, e2) @@ Exchange(f1, f2) @@ Exchange(a1, a2) @@ Exchange(o1, o2)
Swap2 == Exchange(k1, k2) @@ Exchange(i1, i2) @@ Exchange(b1, b2) @@ Exchange(w1, w2)
Same(p) == [x \in DOMAIN p |-> x]
MCSymmetry == {p @@ q : p \in {Swap1, Same(Swap1)}, q \in {Swap2, Same(Swap2)}}

-----------------------------------------------------------------------------
VARIABLE part
partsVars == <<part, vars, ioVars, pollVars, timeVars, dnsVars, evVars, stackVars,
               cfsVars, stallVars, registryVars>>

\* A part that is not looked at has one initial state.  A write is to an event,
\* and to a descriptor that cannot be watched, what a read is.
PartsInit ==
    /\ part \in {"wait", "io", "poll", "time", "dns", "event", "stack",
                "run queue", "stall", "registry"}
    /\ Init
    /\ IoInit /\ (part # "io" => owned = [o \in Objects |-> o = 1])
    /\ interest \in IF part = "poll" THEN [PollFds -> SUBSET {"IN", "OUT"}]
                    ELSE {[x \in PollFds |-> {}]}
    /\ interest[pf2] # {"OUT"}
    /\ PollInit /\ (part # "poll" => pollArgs = <<"poll", "zero">>)
    /\ request \in IF part = "time" THEN Requests ELSE {CHOOSE x \in Requests : TRUE}
    /\ TimeInit /\ DnsInit
    /\ EventInit /\ listens.fd # {"write"}
    /\ (part # "event" => listens = [fd |-> {}, timer |-> FALSE, persist |-> FALSE])
    /\ StackPoolInit /\ (part # "stack" => memory = <<>>)
    /\ CfsInit /\ StallInit /\ RegistryInit

PartsNext ==
    /\ UNCHANGED part
    /\ \/ part = "wait" /\ Next
       \/ part # "wait" /\ UNCHANGED vars
    /\ \/ part = "io" /\ IoNext
       \/ part # "io" /\ UNCHANGED ioVars
    /\ \/ part = "poll" /\ PollNext
       \/ part # "poll" /\ UNCHANGED pollVars
    /\ \/ part = "time" /\ TimeNext
       \/ part # "time" /\ UNCHANGED timeVars
    /\ \/ part = "dns" /\ DnsNext
       \/ part # "dns" /\ UNCHANGED dnsVars
    /\ \/ part = "event" /\ EventNext
       \/ part # "event" /\ UNCHANGED evVars
    /\ \/ part = "stack" /\ StackPoolNext
       \/ part # "stack" /\ UNCHANGED stackVars
    /\ \/ part = "run queue" /\ CfsNext
       \/ part # "run queue" /\ UNCHANGED cfsVars
    /\ \/ part = "stall" /\ StallNext
       \/ part # "stall" /\ UNCHANGED stallVars
    /\ \/ part = "registry" /\ RegistryNext
       \/ part # "registry" /\ UNCHANGED registryVars

PartsSpec == PartsInit /\ [][PartsNext]_partsVars
=============================================================================
