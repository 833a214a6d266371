----------------------------- MODULE MCX64Stack -----------------------------
(***************************************************************************)
(* Strings that end on, before and behind an alignment boundary; hosts that*)
(* know every auxv type, all but AT_SECURE, and all but AT_FLAGS.          *)
(***************************************************************************)
EXTENDS X64Stack

MCHostAuxv == {Real, Real \ {AT_SECURE}, Real \ {AT_FLAGS}}
=============================================================================
