---------------------------- MODULE MCX64RFlags ----------------------------
(* Values for X64RFlags: an image of all ones, one of every flag the guest *)
(* owns but none other, and zero; arithmetic that sets or clears flags.    *)
EXTENDS X64RFlags

MCImages == {AllBits, {PF, SF, DF, AC}}
MCStatusSets == {{}, {CF, OF}}
=============================================================================
