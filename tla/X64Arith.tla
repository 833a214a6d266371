------------------------------ MODULE X64Arith ------------------------------
(***************************************************************************)
(* The additive instructions of x64execute on one destination operand: the *)
(* OP_S_* macros of execute_private.h with the flags they leave behind.    *)
(*                                                                         *)
(* A value is the unsigned reading of the operand's bits; Signed gives the *)
(* reading the macros use.  The module is the same for the four operand    *)
(* types: Half is 2^7, 2^15, 2^31 or 2^63.                                 *)
(***************************************************************************)
EXTENDS X64Flags

CONSTANTS
    Half,        \* weight of the sign bit of the operand type
    Operands,    \* source operands the guest uses
    SignedWraps  \* whether s_type arithmetic wraps in this build

ASSUME HalfAssumption == Half \in Nat /\ Half >= 128
ASSUME OperandsAssumption == Operands \subseteq 0 .. 2 * Half - 1
ASSUME SignedWrapsAssumption == SignedWraps \in BOOLEAN

VARIABLES
    dest,       \* the destination operand
    flags       \* emu->flags

vars == <<dest, flags>>

Values == 0 .. 2 * Half - 1

-----------------------------------------------------------------------------
(* Conversions between C types. *)

\* Mutant: the result is kept wider than the operand.
Trunc_Wider(x) == x % (4 * Half)

Trunc(x) == x % (2 * Half)                            \* (u_type)
Signed(x) == IF x < Half THEN x ELSE x - 2 * Half     \* (s_type)
Negative(x) == Signed(x) < 0
Low8(x) == x % 256                                    \* (uint8_t)

-----------------------------------------------------------------------------
(* The flag macros. *)

\* Mutant: ZF is OR-ed in, as CF is by ADC.
SetResultFlags_StickyZero(fl, res) ==
    (fl \ {SF, PF})
        \cup When(Negative(res), SF)
        \cup When(res = 0, ZF)
        \cup When(EvenParity(res), PF)

SetResultFlags(fl, res) ==
    (fl \ {SF, ZF, PF})
        \cup When(Negative(res), SF)
        \cup When(res = 0, ZF)
        \cup When(EvenParity(res), PF)

AddOverflows(sav, opnd, res) ==
    \/ Negative(opnd) /\ Negative(sav) /\ ~Negative(res)
    \/ ~Negative(opnd) /\ ~Negative(sav) /\ Negative(res)

\* Mutant: the overflow test of a sum used for a difference.
SubOverflows_OfSum(sav, opnd, res) == AddOverflows(sav, opnd, res)

SubOverflows(sav, opnd, res) ==
    \/ ~Negative(opnd) /\ Negative(sav) /\ ~Negative(res)
    \/ Negative(opnd) /\ ~Negative(sav) /\ Negative(res)

(* The tests above look for a signed sum that wrapped.  8- and 16-bit sums *)
(* are computed in int and wrap when stored; a 32- or 64-bit sum that does *)
(* not fit is undefined, and a build that optimises may decide the test    *)
(* either way (gcc -O1 removes it from INC and DEC).                       *)
Outcomes(overflows) ==
    IF overflows /\ ~SignedWraps THEN BOOLEAN ELSE {overflows}

ImplAdd(fl, sav, res, of) ==
    (SetResultFlags(fl, res) \ {AF, OF})
        \cup When(Low8(res) < Low8(sav), AF)
        \cup When(of, OF)

ImplCmp(fl, sav, res, of) ==
    (SetResultFlags(fl, res) \ {AF, OF})
        \cup When(Low8(res) > Low8(sav), AF)
        \cup When(of, OF)

-----------------------------------------------------------------------------
(* The instructions. *)

Mov(opnd) == dest' = opnd /\ UNCHANGED flags

Add(opnd) ==
    LET res == Trunc(dest + opnd)
    IN  /\ dest' = res
        /\ \E of \in Outcomes(AddOverflows(dest, opnd, res)) :
              flags' = (ImplAdd(flags, dest, res, of) \ {CF})
                            \cup When(res < dest, CF)

\* Mutant: INC done with ADD's macro.
Inc_ByAdd == Add(1)

Inc ==
    LET res == Trunc(dest + 1)
    IN  /\ dest' = res
        /\ \E of \in Outcomes(AddOverflows(dest, 1, res)) :
              flags' = ImplAdd(flags, dest, res, of)

CmpSetsFlags(opnd) ==
    LET res == Trunc(dest - opnd)
    IN  \E of \in Outcomes(SubOverflows(dest, opnd, res)) :
           flags' = (ImplCmp(flags, dest, res, of) \ {CF})
                         \cup When(res > dest, CF)

Cmp(opnd) == CmpSetsFlags(opnd) /\ UNCHANGED dest

Sub(opnd) == CmpSetsFlags(opnd) /\ dest' = Trunc(dest - opnd)

Dec ==
    LET res == Trunc(dest - 1)
    IN  /\ dest' = res
        /\ \E of \in Outcomes(SubOverflows(dest, 1, res)) :
              flags' = ImplCmp(flags, dest, res, of)

(* With CF set the macros first compute dest + 1 (dest - 1) for its flags, *)
(* then read *dest again: it reaches the flags, never the result.          *)
CarryInFlags(carry, aux, overflows) ==
    IF CF \notin flags THEN {flags}
    ELSE {(flags \ {CF, AF, OF}) \cup When(carry, CF) \cup When(aux, AF)
              \cup When(of, OF) : of \in Outcomes(overflows)}

Adc(opnd) ==
    LET one == Trunc(dest + 1)
        res == Trunc(dest + opnd)
    IN  /\ dest' = res
        /\ \E of \in Outcomes(AddOverflows(dest, opnd, res)),
              fl \in CarryInFlags(one < dest, Low8(one) < Low8(dest),
                                  ~Negative(dest) /\ Negative(one)) :
              flags' = SetResultFlags(fl, res)
                            \cup When(res < dest, CF)
                            \cup When(Low8(res) < Low8(dest), AF)
                            \cup When(of, OF)

\* Mutant: the borrow test of SBB written like the carry test of ADC.
Sbb_BorrowAsCarry(opnd) ==
    LET res == Trunc(dest - opnd)
    IN  /\ dest' = res
        /\ flags' = SetResultFlags(flags, res) \cup When(res < dest, CF)
                         \cup When(SubOverflows(dest, opnd, res), OF)

Sbb(opnd) ==
    LET one == Trunc(dest - 1)
        res == Trunc(dest - opnd)
    IN  /\ dest' = res
        /\ \E of \in Outcomes(SubOverflows(dest, opnd, res)),
              fl \in CarryInFlags(one > dest, Low8(one) > Low8(dest),
                                  Negative(dest) /\ ~Negative(one)) :
              flags' = SetResultFlags(fl, res)
                            \cup When(res > dest, CF)
                            \cup When(Low8(res) > Low8(dest), AF)
                            \cup When(of, OF)

Neg == dest' = Trunc(-dest) /\ UNCHANGED flags

Cmc == flags' = (flags \ {CF}) \cup When(CF \notin flags, CF) /\ UNCHANGED dest

\* CLC and STC: f_CF = op & 1
SetCarry(bit) == flags' = (flags \ {CF}) \cup When(bit = 1, CF) /\ UNCHANGED dest

-----------------------------------------------------------------------------
Init ==
    /\ dest \in Operands
    /\ flags = {FixedBit} \cup IOPL        \* as x64emu_init leaves them

Next ==
    \/ \E opnd \in Operands :
          \/ Mov(opnd)
          \/ Add(opnd)
          \/ Sub(opnd)
          \/ Cmp(opnd)
          \/ Adc(opnd)
          \/ Sbb(opnd)
    \/ Inc
    \/ Dec
    \/ Neg
    \/ Cmc
    \/ \E bit \in {0, 1} : SetCarry(bit)

Spec == Init /\ [][Next]_vars

-----------------------------------------------------------------------------
TypeOK ==
    /\ dest \in Values
    /\ flags \in SUBSET FlagBits

(* SF, ZF and PF always describe one and the same result: no sequence of   *)
(* instructions leaves ZF of one result beside SF or PF of another.        *)
ResultFlagsAgree ==
    ZF \in flags => PF \in flags /\ SF \notin flags

Representable(x) == x \in -Half .. Half - 1

(* What the conditional jumps decide when they follow CMP a, b: E and NE   *)
(* equality; B, AE, BE and A the unsigned order; L, GE, LE and G the       *)
(* signed order of the operands (execute_private.h, x64execute_jmp_cond).  *)
(* Where the build leaves OF of an overflow open, L, GE, LE and G are      *)
(* relied on only when the difference is representable.                    *)
OrdersAsCompared(fl, a, b) ==
    /\ Cond(4, fl) <=> a = b
    /\ Cond(5, fl) <=> a # b
    /\ Cond(2, fl) <=> a < b
    /\ Cond(3, fl) <=> a >= b
    /\ Cond(6, fl) <=> a <= b
    /\ Cond(7, fl) <=> a > b
    /\ SignedWraps \/ Representable(Signed(a) - Signed(b)) =>
          /\ Cond(12, fl) <=> Signed(a) < Signed(b)
          /\ Cond(13, fl) <=> Signed(a) >= Signed(b)
          /\ Cond(14, fl) <=> Signed(a) <= Signed(b)
          /\ Cond(15, fl) <=> Signed(a) > Signed(b)

(* Whatever ran before it, CMP (and SUB, which shares its macro) leaves    *)
(* flags from which every conditional jump reads the order of its operands.*)
CmpDecidesOrder ==
    [][\A opnd \in Operands :
          Cmp(opnd) \/ Sub(opnd) => OrdersAsCompared(flags', dest, opnd)]_vars

\* OF tells whether the exact signed result x fits the operand type.
OverflowExact(fl, x) ==
    SignedWraps \/ Representable(x) => (OF \in fl <=> ~Representable(x))

(* ADD reports exactly the sums that do not fit: CF the unsigned ones, OF  *)
(* the signed ones.  INC and DEC report the signed ones and keep CF, which *)
(* a multi-word loop carries across its counter.                           *)
OverflowReported ==
    [][/\ \A opnd \in Operands : Add(opnd) =>
             /\ CF \in flags' <=> dest + opnd \notin Values
             /\ OverflowExact(flags', Signed(dest) + Signed(opnd))
       /\ Inc => /\ CF \in flags' <=> CF \in flags
                 /\ OverflowExact(flags', Signed(dest) + 1)
       /\ Dec => /\ CF \in flags' <=> CF \in flags
                 /\ OverflowExact(flags', Signed(dest) - 1)]_vars

(* The first ADC (SBB) of a chain, with CF and OF clear, adds (subtracts)  *)
(* exactly and reports a carry (borrow) and an overflow exactly.           *)
ChainStartsExactly ==
    [][\A opnd \in Operands : flags \cap {CF, OF} = {} =>
          /\ Adc(opnd) =>
                /\ dest' = Trunc(dest + opnd)
                /\ CF \in flags' <=> dest + opnd \notin Values
                /\ OverflowExact(flags', Signed(dest) + Signed(opnd))
          /\ Sbb(opnd) =>
                /\ dest' = Trunc(dest - opnd)
                /\ CF \in flags' <=> dest - opnd \notin Values
                /\ OverflowExact(flags', Signed(dest) - Signed(opnd))]_vars

(* "*dest += CF + operand" and "*dest -= CF + operand", as                 *)
(* execute_private.h:179 and :230 document OP_S_ADC and OP_S_SBB.          *)
CarryReachesResult ==
    [][\A opnd \in Operands :
          LET carry == IF CF \in flags THEN 1 ELSE 0
          IN  /\ Adc(opnd) => dest' = Trunc(dest + opnd + carry)
              /\ Sbb(opnd) => dest' = Trunc(dest - opnd - carry)]_vars
=============================================================================
