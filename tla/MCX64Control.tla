---------------------------- MODULE MCX64Control ----------------------------
(***************************************************************************)
(* Cells of one bit: a 64-bit value has 16 values, a 32-bit one 4.  Room   *)
(* for two return addresses and a register above the lowest word.          *)
(***************************************************************************)
EXTENDS X64Control

MCImms == {6}
MCRels == {5}
MCDispls == {0 - 8, 0 - 4, 0, 2}
MCAdjusts == {0 - 3, 4}
=============================================================================
