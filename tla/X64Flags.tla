------------------------------ MODULE X64Flags ------------------------------
(***************************************************************************)
(* RFLAGS of the emulated CPU.  The register is the set of its bits that   *)
(* are 1, so a mask is a set of bits, `&` is \cap, `|` is \cup and a       *)
(* bit-field assignment removes the bit and puts it back when it is set.   *)
(***************************************************************************)
EXTENDS Integers, FiniteSets

CF == 0
PF == 2
AF == 4
ZF == 6
SF == 7
TF == 8
IF_ == 9
DF == 10
OF == 11
IOPL == {12, 13}   \* a two-bit field: f_IOPL = 3 is IOPL \subseteq flags
NT == 14
RF == 16
VM == 17
AC == 18
VIF == 19
VIP == 20
ID == 21
FixedBit == 1      \* the reserved bit that reads as 1

FlagBits == 0 .. 21    \* the bits with a name, and those between them
Reserved == {3, 5, 15} \cup 22 .. 63

\* The flags an arithmetic instruction may write.
Status == {CF, PF, AF, ZF, SF, OF}

\* What a bit-field assignment adds to a register whose bit was cleared.
When(cond, bit) == IF cond THEN {bit} ELSE {}

\* get_byte_parity: whether the low byte has an even number of bits set.
EvenParity(x) ==
    Cardinality({w \in {1, 2, 4, 8, 16, 32, 64, 128} : (x \div w) % 2 = 1}) % 2 = 0

(***************************************************************************)
(* x64execute_jmp_cond: the condition that Jcc, CMOVcc and SETcc test.     *)
(* An odd condition code is the negation of the even one before it.        *)
(***************************************************************************)
Cond(cc, flags) ==
    LET even == CASE cc \div 2 = 0 -> OF \in flags
                  [] cc \div 2 = 1 -> CF \in flags
                  [] cc \div 2 = 2 -> ZF \in flags
                  [] cc \div 2 = 3 -> CF \in flags \/ ZF \in flags
                  [] cc \div 2 = 4 -> SF \in flags
                  [] cc \div 2 = 5 -> PF \in flags
                  [] cc \div 2 = 6 -> (SF \in flags) # (OF \in flags)
                  [] cc \div 2 = 7 -> \/ ZF \in flags
                                      \/ (SF \in flags) # (OF \in flags)
    IN  IF cc % 2 = 0 THEN even ELSE ~even
=============================================================================
