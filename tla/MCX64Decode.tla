---------------------------- MODULE MCX64Decode ----------------------------
(***************************************************************************)
(* The opcode bytes, one of each kind of legacy prefix (3E, 66, 67, F3),   *)
(* and ModR/M and SIB bytes of each addressing form with the extensions    *)
(* 0, 1, 2 and 4.                                                          *)
(***************************************************************************)
EXTENDS X64Decode

MCBytes == 0 .. 255 \ {\h26, \h2E, \h36, \hF2}

MCOperandBytes == {\h01, \h04, \h15, \h44, \h4D, \hA4, \hC1}
=============================================================================
