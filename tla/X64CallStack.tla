---------------------------- MODULE X64CallStack ----------------------------
(***************************************************************************)
(* What a guest relies on when it calls and returns: a stack of the places *)
(* to go back to, which nothing but a call or a return writes, and from    *)
(* which the innermost places may be dropped.  A caller that used the      *)
(* 32-bit form of CALL is remembered by the lower half of its address.     *)
(***************************************************************************)
EXTENDS Integers

CONSTANTS
    Size,       \* number of 64-bit values
    Half,       \* number of 32-bit values
    Positions   \* places on the stack

VARIABLES
    pc,         \* the instruction to be executed
    callers     \* from positions to callers, the innermost one lowest

vars == <<pc, callers>>

Fall == (pc + 1) % Size         \* the next instruction

Caller(whole) == [whole |-> whole, ret |-> IF whole THEN Fall ELSE Fall % Half]

Kept(from) == [p \in {q \in DOMAIN callers : q >= from} |-> callers[p]]

Init == callers = [p \in {} |-> 0] /\ pc \in 0 .. Size - 1

Call ==
    \E at \in Positions, whole \in BOOLEAN :
        /\ \A p \in DOMAIN callers : at < p
        /\ callers' = [p \in DOMAIN callers \cup {at} |->
                          IF p = at THEN Caller(whole) ELSE callers[p]]
        /\ pc' \in 0 .. Size - 1

Return ==
    \E top \in DOMAIN callers, from \in Positions :
        /\ \A p \in DOMAIN callers : top <= p
        /\ from > top
        /\ callers' = Kept(from)
        /\ pc' = IF callers[top].whole THEN callers[top].ret
                 ELSE (Fall - (Fall % Half)) + callers[top].ret

Jump == callers' = callers /\ pc' \in 0 .. Size - 1

Unwind == \E from \in Positions : callers' = Kept(from) /\ pc' = Fall

Next == Call \/ Return \/ Jump \/ Unwind

Spec == Init /\ [][Next]_vars
=============================================================================
