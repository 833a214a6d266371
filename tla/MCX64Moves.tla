----------------------------- MODULE MCX64Moves -----------------------------
(***************************************************************************)
(* Registers hold addresses of a memory of 36 bytes, or, with the upper    *)
(* half set, addresses only the 32-bit forms can use.  Memory operands:    *)
(* [rsp], [rbp + 4] (overlapping the first) and one with an address-size   *)
(* prefix; for LEA one of every special case of ModR/M and SIB bytes.      *)
(***************************************************************************)
EXTENDS X64Moves

Encoding(mod, rm, b, base, index, x, scale, displ, adsz) ==
    [mod |-> mod, rm |-> rm, b |-> b, base |-> base, index |-> index, x |-> x,
     scale |-> scale, displ |-> displ, adsz |-> adsz]

AtRsp == Encoding(0, 4, 0, 4, 4, 0, 0, 0, FALSE)
AtRbp == Encoding(1, 5, 0, 0, 0, 0, 0, 4, FALSE)
Narrow == Encoding(1, 5, 0, 0, 0, 0, 0, 4, TRUE)

MCAddressing == {AtRsp, AtRbp, Narrow}

MCLeas ==
    {AtRsp, AtRbp, Narrow,
     Encoding(0, 7, 0, 0, 0, 0, 0, 0, FALSE),        \* [rdi]
     Encoding(0, 5, 0, 0, 0, 0, 0, 0 - 3, FALSE),    \* [rip - 3]
     Encoding(0, 5, 8, 0, 0, 0, 0, 5, FALSE),        \* the same with rex.b
     Encoding(0, 4, 0, 5, 1, 0, 3, 6, FALSE),        \* [rcx * 8 + 6]
     Encoding(0, 4, 8, 5, 4, 8, 1, 6, FALSE),        \* [r12 * 2 + 6] with rex.b
     Encoding(1, 4, 0, 5, 4, 0, 2, 0 - 2, FALSE),    \* [rbp - 2], no index
     Encoding(2, 4, 8, 5, 5, 8, 0, 9, FALSE),        \* [r13 + r13 + 9]
     Encoding(2, 5, 8, 0, 0, 0, 0, 0 - 9, FALSE)}    \* [r13 - 9]

Holding(c, sp, bp, di, r12, r13) ==
    [r \in Numeric |-> CASE r = rcx -> c [] r = rsp -> sp [] r = rbp -> bp
                         [] r = rdi -> di [] r = 12 -> r12 [] r = 13 -> r13]

\* A second instruction follows those whose effect on it matters: STOS, and
\* LEA and CPUID, which change the address and the count of a next one, and
\* a low interleave, which leaves some bytes twice.
FollowedUp ==
    \/ ins.op \in {"none", "STOS", "CPUID"}
    \/ ins.op = "LEA" /\ ins.d.at \in {rsp, rdi} /\ ins.n = 8
    \/ ins.op = "UNPCKL" /\ ins.n = 4

MCPointers == {Holding(2, 8, 0, 8, 3, 15), Holding(67, 3, 70, 72, 1, 127)}
=============================================================================
