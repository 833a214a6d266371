----------------------------- MODULE MCX64Bits -----------------------------
(***************************************************************************)
(* Operands of 2, 4 and 8 bits beside an int of 4: narrower, equal and     *)
(* twice as wide, as 16, 32 and 64 bits are beside 32.                     *)
(***************************************************************************)
EXTENDS X64Bits

MCOperands == {{}, {0}, {7}, {1, 3, 6}, 0 .. 7}

MCCounts == 0 .. 5 \cup {7, 9}
=============================================================================
