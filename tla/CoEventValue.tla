---------------------------- MODULE CoEventValue ----------------------------
(***************************************************************************)
(* sync/CoEventValue: the inline payload of a notify and the type          *)
(* identifiers it is checked with.  A type is a registered base type and   *)
(* the qualifiers of what each pointer level points to, innermost first    *)
(* (const 1, volatile 2).  The 32 bits of an identifier are two halves.    *)
(***************************************************************************)
EXTENDS Integers, Sequences

CONSTANTS PayloadTypes  \* the types in use: [base, ptrs, size]

kCustomBegin == 256        \* 0x100
kPointerBegin == 65536     \* 0x10000
kMaxPointerDepth == 7
kInlineSize == 24
Half == 65536
kNone == <<0, 0>>

Builtin == 1 .. 15
BaseId(b) == <<b \div Half, b % Half>>

\* CoEventValuePointerDepth of what level d points to: the specialization for
\* T* does not match a pointer that is itself qualified.
PointeeDepth(ptrs) ==
    LET depth[d \in 1 .. Len(ptrs)] ==
            IF d = 1 \/ ptrs[d] # 0 THEN 0 ELSE 1 + depth[d - 1]
    IN  depth

\* The static_asserts: of each CoEventValueTraits<T*>, of the registration
\* macro, of From and Get.
Encodable(t) ==
    /\ t \in [base : Builtin \cup (kCustomBegin .. kPointerBegin - 1), ptrs : Seq(0 .. 3),
              size : 0 .. kInlineSize]
    /\ \A d \in DOMAIN t.ptrs : PointeeDepth(t.ptrs)[d] + 1 <= kMaxPointerDepth

ASSUME CoEventValueAssumption == \A t \in PayloadTypes : Encodable(t)

\* kPointerBegin + id * 4 + cv in 32 bits.
DropQualifiers(id, cv) ==  \* mutant
    LET low == 4 * id[2]
    IN  <<(4 * id[1] + low \div Half + 1) % Half, low % Half>>
PointerId(id, cv) ==
    LET low == 4 * id[2] + cv
    IN  <<(4 * id[1] + low \div Half + 1) % Half, low % Half>>

\* CoEventValueTraits<T>::id.
TypeId(t) ==
    LET id[d \in 0 .. Len(t.ptrs)] ==
            IF d = 0 THEN BaseId(t.base) ELSE PointerId(id[d - 1], t.ptrs[d])
    IN  id[Len(t.ptrs)]

VARIABLES
    payload,  \* m_type, m_size and the value
    written   \* history: the type the value was made from

payloadVars == <<payload, written>>

EmptyValue == [type |-> kNone, size |-> 0]
PayloadInit == payload = EmptyValue /\ written = kNone

\* From(value).
From(t) ==
    /\ payload' = [type |-> TypeId(t), size |-> t.size]
    /\ written' = t

\* The payload of a notify without one, and of a new wait.
Cleared == payload' = EmptyValue /\ written' = kNone

\* Get<T> returns TRUE.
Get(t) == payload.type # kNone /\ payload.type = TypeId(t) /\ payload.size = t.size

PayloadNext == (\E t \in PayloadTypes : From(t)) \/ Cleared

PayloadSpec == PayloadInit /\ [][PayloadNext]_payloadVars

-----------------------------------------------------------------------------
\* A payload is read back as the type it was made from and as no other: not as
\* another base type of the same size, not through fewer or more levels of
\* pointers, not with a qualifier dropped.
ReadAsWritten ==
    payload.type # kNone => \A t \in PayloadTypes : Get(t) <=> written = t
=============================================================================
