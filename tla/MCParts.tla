------------------------------ MODULE MCParts ------------------------------
(***************************************************************************)
(* Components checked for safety on their own.  One behaviour is one of    *)
(* them: the part is chosen in the initial state, the variables of the     *)
(* others stay as they are.                                                *)
(***************************************************************************)
EXTENDS CoWaiter, CoRWMutex, CoCond, CoLockGuard, CoEventValue, TLC

CONSTANTS c1, c2, c3, e1, e2, p1, g1, g2, g3, m1, m2, n1, n2

-----------------------------------------------------------------------------
(* Instances.                                                               *)

\* The timed combined call is in MCRuntime.
MixedCalls == {<<"narrow", TRUE>>, <<"combined", FALSE>>, <<"legacy", FALSE>>}

MCSide == (g1 :> "read") @@ (g2 :> "read") @@ (g3 :> "write")

\* Pointer levels: every combination of qualifiers up to two, the extremes up
\* to the depth the static_assert allows.
Levels == UNION {[1 .. d -> 0 .. 3] : d \in 0 .. 2}
          \cup UNION {{[i \in 1 .. d |-> q] : q \in {0, 1, 3}} : d \in 3 .. kMaxPointerDepth}
SizeOf(base, ptrs) == IF ptrs # <<>> THEN 8 ELSE IF base = 256 THEN 24 ELSE 4
\* Built-in (12 is void: only behind a pointer), first and last of the user's.
Types == {[base |-> b, ptrs |-> l, size |-> SizeOf(b, l)] :
            b \in {6, 7, 12, 256, 65535}, l \in Levels}
MCPayloadTypes == {t \in Types : ~(t.base = 12 /\ t.ptrs = <<>>)}

\* Events and the callers of NotifyAll are in different parts.
MCSymmetry == {p @@ q : p \in Permutations({c1, c2}),
                        q \in {(e1 :> e2) @@ (e2 :> e1) @@ (n1 :> n2) @@ (n2 :> n1),
                               [x \in {e1, e2, n1, n2} |-> x]}}

-----------------------------------------------------------------------------
VARIABLE part
partsVars == <<part, waiterVars, vars, condVars, condAll, guardVars, payloadVars>>

PartsInit ==
    /\ part \in {"waiter", "rwmutex", "cond", "guard", "payload"}
    /\ WaiterInit /\ Init /\ CondInit /\ CondAllInit
    /\ GuardInit /\ PayloadInit

PartsNext ==
    /\ UNCHANGED part
    /\ \/ part = "waiter" /\ WaiterNext
       \/ part # "waiter" /\ UNCHANGED waiterVars
    /\ \/ part = "rwmutex" /\ Next
       \/ part # "rwmutex" /\ UNCHANGED vars
    /\ \/ part = "cond" /\ CondNext
       \/ part # "cond" /\ UNCHANGED <<condVars, condAll>>
    /\ \/ part = "guard" /\ GuardNext
       \/ part # "guard" /\ UNCHANGED guardVars
    /\ \/ part = "payload" /\ PayloadNext
       \/ part # "payload" /\ UNCHANGED payloadVars

PartsSpec == PartsInit /\ [][PartsNext]_partsVars
=============================================================================
