------------------------------ MODULE X64Bits ------------------------------
(***************************************************************************)
(* The bitwise, shift and rotate instructions of x64execute on one         *)
(* destination operand, with the flags they leave behind.                  *)
(*                                                                         *)
(* A value is the set of the positions of its bits that are 1.  `width` is *)
(* the operand type's, chosen once.  C computes in int at least: IntWidth  *)
(* is 32 in the code, so 8- and 16-bit operands are narrower than an int,  *)
(* 32-bit operands are as wide and 64-bit operands twice as wide.          *)
(***************************************************************************)
EXTENDS X64Flags

CONSTANTS
    Widths,      \* operand types: 8, 16, 32 and 64 bits
    IntWidth,    \* bits of an int
    Operands,    \* values the guest starts from and combines
    Counts       \* shift counts: an immediate byte, CL or 1

ASSUME WidthsAssumption ==
    /\ IntWidth \in Nat /\ IntWidth >= 2
    /\ \A w \in Widths : w \in Nat /\ w >= 2 /\ (w <= IntWidth => IntWidth % w = 0)
ASSUME OperandsAssumption == \A x \in Operands : x \subseteq Nat
ASSUME CountsAssumption == Counts \subseteq 0 .. 255

VARIABLES
    width,      \* type_len
    dest,       \* the destination operand
    flags       \* emu->flags

vars == <<width, dest, flags>>

Bits == 0 .. width - 1
Msb == width - 1

-----------------------------------------------------------------------------
(* C shifts. *)

\* Mutant: the result is not cut to the operand's type.
Store_Wider(x) == x \cap (0 .. width)

Store(x) == x \cap Bits                \* conversion to u_type
Up(x, n) == {b + n : b \in x}
Down(x, n) == {b - n : b \in {c \in x : c >= n}}

\* The type a shift is computed in, after the integer promotions.
PromotedWidth == IF width < IntWidth THEN IntWidth ELSE width

(* A shift by the width of its type or more is undefined.  The builds of   *)
(* gcc shift by the count modulo the width, as the host's instructions do, *)
(* or, when the count is known (the forms that shift by 1), drop the term. *)
LeftShifts(x, n) ==
    IF n < PromotedWidth THEN {Up(x, n)} ELSE {Up(x, n % PromotedWidth), {}}

RightShifts(x, n) ==
    IF n < PromotedWidth THEN {Down(x, n)} ELSE {Down(x, n % PromotedWidth), {}}

(* f_CF << n is computed in int: a carry that reaches the sign of the int  *)
(* is extended to a wider operand.                                         *)
IntBit(n) == IF n = IntWidth - 1 THEN n .. PromotedWidth - 1 ELSE {n}

CarryShifts(n) ==
    IF CF \notin flags THEN {{}}
    ELSE IF n < IntWidth THEN {IntBit(n)}
    ELSE {IntBit(n % IntWidth), {}}

-----------------------------------------------------------------------------
(* The flag macros. *)

SetResultFlags(fl, res) ==
    (fl \ {SF, ZF, PF})
        \cup When(Msb \in res, SF)
        \cup When(res = {}, ZF)
        \cup When(Cardinality(res \cap 0 .. 7) % 2 = 0, PF)

\* CF, for every count but 0, and OF, for count 1.
ShiftFlags(fl, shift, out, of) ==
    (fl \ ({CF} \cup When(shift = 1, OF)))
        \cup When(out, CF)
        \cup When(shift = 1 /\ of, OF)

\* IMPL_ROL_FLAG: tdest is the operand before, res the operand after.
RolFlags(fl, shift, tdest, res) ==
    IF shift = 0 THEN fl
    ELSE LET out == width - shift \in tdest
         IN  ShiftFlags(fl, shift, out, out # (Msb \in res))

\* IMPL_ROR_FLAG
RorFlags(fl, shift, tdest, res) ==
    IF shift = 0 THEN fl
    ELSE ShiftFlags(fl, shift, shift - 1 \in tdest,
                    (Msb - 1 \in res) # (Msb \in res))

\* IMPL_SHL_FLAG and IMPL_SHR_FLAG: the same, and the flags of the result.
ShlFlags(fl, shift, tdest, res) ==
    IF shift = 0 THEN fl ELSE RolFlags(SetResultFlags(fl, res), shift, tdest, res)

\* Mutant: the operand's own sign compared with its next bit.
ShrFlags_OfOperand(fl, shift, tdest, res) ==
    IF shift = 0 THEN fl ELSE RorFlags(SetResultFlags(fl, res), shift, tdest, tdest)

ShrFlags(fl, shift, tdest, res) ==
    IF shift = 0 THEN fl ELSE RorFlags(SetResultFlags(fl, res), shift, tdest, res)

-----------------------------------------------------------------------------
(* Shifts and rotates.  IMPL_SHIFT_PROLOGUE masks the count with the width *)
(* of the operand, also where the architecture masks it with 31.           *)

Shift(count) == count % width

Rol(count) ==
    LET s == Shift(count)
    IN  /\ \E low \in RightShifts(dest, width - s), high \in LeftShifts(dest, s) :
              dest' = Store(high \cup low)
        /\ flags' = RolFlags(flags, s, dest, dest')
        /\ UNCHANGED width

Ror(count) ==
    LET s == Shift(count)
    IN  /\ \E low \in RightShifts(dest, s), high \in LeftShifts(dest, width - s) :
              dest' = Store(high \cup low)
        /\ flags' = RorFlags(flags, s, dest, dest')
        /\ UNCHANGED width

\* Mutant: the carry enters one place too high.
Rcl_CarryAtCount(count) ==
    LET s == Shift(count)
    IN  /\ \E low \in RightShifts(dest, width + 1 - s), high \in LeftShifts(dest, s),
              carry \in CarryShifts(s) :
              dest' = Store(high \cup low \cup carry)
        /\ flags' = RolFlags(flags, s, dest, dest')
        /\ UNCHANGED width

Rcl(count) ==
    LET s == Shift(count)
    IN  /\ \E low \in RightShifts(dest, width + 1 - s), high \in LeftShifts(dest, s),
              carry \in IF s = 0 THEN {{}} ELSE CarryShifts(s - 1) :
              dest' = Store(high \cup low \cup carry)
        /\ flags' = RolFlags(flags, s, dest, dest')
        /\ UNCHANGED width

Rcr(count) ==
    LET s == Shift(count)
    IN  /\ \E low \in RightShifts(dest, s), high \in LeftShifts(dest, width + 1 - s),
              carry \in CarryShifts(width - s) :
              dest' = Store(high \cup low \cup carry)
        /\ flags' = RorFlags(flags, s, dest, dest')
        /\ UNCHANGED width

Shl(count) ==
    /\ dest' = Store(Up(dest, Shift(count)))
    /\ flags' = ShlFlags(flags, Shift(count), dest, dest')
    /\ UNCHANGED width

Shr(count) ==
    /\ dest' = Down(dest, Shift(count))
    /\ flags' = ShrFlags(flags, Shift(count), dest, dest')
    /\ UNCHANGED width

\* The sign fills the places left free (gcc's shift of a signed type).
Sar(count) ==
    /\ dest' = Down(dest, Shift(count))
                   \cup IF Msb \in dest THEN width - Shift(count) .. Msb ELSE {}
    /\ flags' = ShrFlags(flags, Shift(count), dest, dest')
    /\ UNCHANGED width

-----------------------------------------------------------------------------
(* Bitwise instructions. *)

\* Mutant: OF is left from the instruction before.
LogicFlags_KeepsOF(res) == SetResultFlags(flags, res) \ {CF}

\* IMPL_OP_S_BITWISE and IMPL_OP_S_TEST: AF is left alone.
LogicFlags(res) == SetResultFlags(flags, res) \ {CF, OF}

And(opnd) ==
    /\ dest' = dest \cap opnd
    /\ flags' = LogicFlags(dest')
    /\ UNCHANGED width

Or(opnd) ==
    /\ dest' = dest \cup Store(opnd)
    /\ flags' = LogicFlags(dest')
    /\ UNCHANGED width

Xor(opnd) ==
    /\ dest' = (dest \ opnd) \cup Store(opnd \ dest)
    /\ flags' = LogicFlags(dest')
    /\ UNCHANGED width

Test(opnd) ==
    /\ flags' = LogicFlags(dest \cap opnd)
    /\ UNCHANGED <<width, dest>>

Not == dest' = Bits \ dest /\ UNCHANGED <<width, flags>>

\* CLC and STC between the instructions, for what a carry carries on.
SetCarry(bit) ==
    /\ flags' = (flags \ {CF}) \cup When(bit = 1, CF)
    /\ UNCHANGED <<width, dest>>

-----------------------------------------------------------------------------
Init ==
    /\ width \in Widths
    /\ dest \in {Store(x) : x \in Operands}
    /\ flags = {FixedBit} \cup IOPL

Next ==
    \/ \E count \in Counts :
          \/ Rol(count)
          \/ Ror(count)
          \/ Rcl(count)
          \/ Rcr(count)
          \/ Shl(count)
          \/ Shr(count)
          \/ Sar(count)
    \/ \E opnd \in Operands :
          \/ And(opnd)
          \/ Or(opnd)
          \/ Xor(opnd)
          \/ Test(opnd)
    \/ Not
    \/ \E bit \in {0, 1} : SetCarry(bit)

Spec == Init /\ [][Next]_vars

-----------------------------------------------------------------------------
(* Reference: one place at a time.  A state is <<value, carry>>.           *)

RolOnce(v) == <<Store(Up(v[1], 1)) \cup When(Msb \in v[1], 0), Msb \in v[1]>>
RorOnce(v) == <<Down(v[1], 1) \cup When(0 \in v[1], Msb), 0 \in v[1]>>
RclOnce(v) == <<Store(Up(v[1], 1)) \cup When(v[2], 0), Msb \in v[1]>>
RcrOnce(v) == <<Down(v[1], 1) \cup When(v[2], Msb), 0 \in v[1]>>
ShlOnce(v) == <<Store(Up(v[1], 1)), Msb \in v[1]>>
ShrOnce(v) == <<Down(v[1], 1), 0 \in v[1]>>
SarOnce(v) == <<Down(v[1], 1) \cup When(Msb \in v[1], Msb), 0 \in v[1]>>

Times(n, Once(_), v) ==
    LET after[i \in 0 .. n] == IF i = 0 THEN v ELSE Once(after[i - 1])
    IN  after[n]

\* The architecture's count: five bits, six for the widest operand.
ArchCount(count) == IF width > IntWidth THEN count % width ELSE count % IntWidth

Moves(count, Once(_)) ==
    <<dest', CF \in flags'>> = Times(ArchCount(count), Once, <<dest, CF \in flags>>)

KeepsResultFlags == flags' \cap {SF, ZF, PF} = flags \cap {SF, ZF, PF}

FlagsOfResult(count) ==
    IF ArchCount(count) = 0 THEN flags' = flags
    ELSE /\ SF \in flags' <=> Msb \in dest'
         /\ ZF \in flags' <=> dest' = {}
         /\ PF \in flags' <=> Cardinality(dest' \cap 0 .. 7) % 2 = 0

(* Where RCL and RCR can be relied on.  Operands narrower than an int:     *)
(* always.  Others: not for the counts 0 and 1, where a term is shifted by *)
(* the whole width, and not where the carry does not fit an int, which the *)
(* place it is shifted to says.                                            *)
CarryPlaced(count, place) ==
    \/ width < IntWidth
    \/ Shift(count) > 1 /\ (CF \notin flags \/ place < IntWidth - 1)

-----------------------------------------------------------------------------
TypeOK ==
    /\ width \in Widths
    /\ dest \subseteq Bits
    /\ flags \subseteq FlagBits

(* A shift or rotate by any count below the operand's width is that many   *)
(* shifts by one place, in the result, in CF and in SF, ZF and PF; RCL and *)
(* RCR only where CarryPlaced says so.                                     *)
ShiftsBitByBit ==
    [][\A count \in Counts : ArchCount(count) < width =>
          /\ Rol(count) => Moves(count, RolOnce) /\ KeepsResultFlags
          /\ Ror(count) => Moves(count, RorOnce) /\ KeepsResultFlags
          /\ Shl(count) => Moves(count, ShlOnce) /\ FlagsOfResult(count)
          /\ Shr(count) => Moves(count, ShrOnce) /\ FlagsOfResult(count)
          /\ Sar(count) => Moves(count, SarOnce) /\ FlagsOfResult(count)
          /\ (Rcl(count) /\ CarryPlaced(count, Shift(count) - 1)) =>
                (Moves(count, RclOnce) /\ KeepsResultFlags)
          /\ (Rcr(count) /\ CarryPlaced(count, width - Shift(count))) =>
                (Moves(count, RcrOnce) /\ KeepsResultFlags)]_vars

(* After a shift or rotate by one place OF says whether the operand's sign *)
(* changed, although each macro derives it from other bits; RCR only where *)
(* its result can be relied on.                                            *)
OverflowIsSignChange ==
    [][\A count \in Counts :
          /\ Shift(count) = 1
          /\ \/ Rol(count) \/ Ror(count) \/ Rcl(count)
             \/ Shl(count) \/ Shr(count) \/ Sar(count)
             \/ Rcr(count) /\ width < IntWidth
          => (OF \in flags' <=> (Msb \in dest) # (Msb \in dest'))]_vars

(* Whatever the flags were before, after AND, OR, XOR and TEST the         *)
(* conditional jumps compare the result with zero: L, GE, LE and G by its  *)
(* sign, and never below (execute_private.h, x64execute_jmp_cond).         *)
ComparesWithZero(fl, res) ==
    /\ Cond(4, fl) <=> res = {}
    /\ Cond(7, fl) <=> res # {}
    /\ ~Cond(2, fl) /\ ~Cond(0, fl)
    /\ Cond(12, fl) <=> Msb \in res
    /\ Cond(13, fl) <=> Msb \notin res
    /\ Cond(14, fl) <=> Msb \in res \/ res = {}
    /\ Cond(15, fl) <=> Msb \notin res /\ res # {}

LogicComparesWithZero ==
    [][\A opnd \in Operands :
          /\ (And(opnd) \/ Or(opnd) \/ Xor(opnd)) => ComparesWithZero(flags', dest')
          /\ Test(opnd) => ComparesWithZero(flags', dest \cap opnd)]_vars

(* "Rotate left with carry" and "Rotate right with carry", as              *)
(* execute_private.h:73 and :81 document OP_RCL and OP_RCR: by one place,  *)
(* the form every opcode D0 and D1 has.                                    *)
RotatesThroughCarry ==
    [][\A count \in Counts : ArchCount(count) = 1 =>
          /\ Rcl(count) => Moves(count, RclOnce)
          /\ Rcr(count) => Moves(count, RcrOnce)]_vars
=============================================================================
