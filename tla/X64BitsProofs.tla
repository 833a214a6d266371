--------------------------- MODULE X64BitsProofs ---------------------------
(***************************************************************************)
(* Theorems about X64Bits, for every set of operand widths.                *)
(***************************************************************************)
EXTENDS X64Bits, NaturalsInduction, WellFoundedInduction, TLAPS

-----------------------------------------------------------------------------
(* Widths and counts. *)

LEMMA WidthFacts ==
    ASSUME width \in Widths
    PROVE  /\ width \in Nat /\ width >= 2
           /\ IntWidth \in Nat /\ IntWidth >= 2
           /\ PromotedWidth \in Nat /\ PromotedWidth >= 2 /\ PromotedWidth >= width
           /\ Msb \in Bits /\ Msb \in Nat /\ Msb = width - 1
           /\ \A count \in Counts : Shift(count) \in 0 .. width - 1
  <1>1. width \in Nat /\ width >= 2 /\ IntWidth \in Nat /\ IntWidth >= 2
    BY WidthsAssumption
  <1>2. \A count \in Counts : count \in Nat
    BY CountsAssumption
  <1>3. \A count \in Counts : Shift(count) \in 0 .. width - 1
    BY <1>1, <1>2 DEF Shift
  <1> QED
    BY <1>1, <1>3 DEF PromotedWidth, Msb, Bits

\* What the C shifts leave of a set of positions.
LEMMA ShiftMembers ==
    ASSUME NEW x \in SUBSET Nat, NEW n \in Nat, NEW b \in Nat
    PROVE  /\ b \in Up(x, n) <=> b >= n /\ b - n \in x
           /\ b \in Down(x, n) <=> b + n \in x
  <1>1. ASSUME b >= n, b - n \in x
        PROVE  b \in Up(x, n)
    <2>1. b = (b - n) + n
      OBVIOUS
    <2> QED
      BY <1>1, <2>1 DEF Up
  <1>2. ASSUME b \in Up(x, n)
        PROVE  b >= n /\ b - n \in x
    <2>1. PICK c \in x : b = c + n
      BY <1>2 DEF Up
    <2>2. c \in Nat /\ b - n = c
      BY <2>1
    <2> QED
      BY <2>1, <2>2
  <1>3. ASSUME b + n \in x
        PROVE  b \in Down(x, n)
    <2>1. b = (b + n) - n /\ b + n >= n
      OBVIOUS
    <2> QED
      BY <1>3, <2>1 DEF Down
  <1>4. ASSUME b \in Down(x, n)
        PROVE  b + n \in x
    <2>1. PICK c \in x : c >= n /\ b = c - n
      BY <1>4 DEF Down
    <2>2. c \in Nat /\ b + n = c
      BY <2>1
    <2> QED
      BY <2>1, <2>2
  <1> QED
    BY <1>1, <1>2, <1>3, <1>4

\* A right shift of an operand stays in the operand.
LEMMA DownStays ==
    ASSUME width \in Nat, NEW x \in SUBSET Bits, NEW n \in Nat
    PROVE  Down(x, n) \subseteq Bits
  <1>1. ASSUME NEW b \in Down(x, n)
        PROVE  b \in Bits
    <2>1. PICK c \in x : c >= n /\ b = c - n
      BY DEF Down
    <2> QED
      BY <2>1 DEF Bits
  <1> QED
    BY <1>1

-----------------------------------------------------------------------------
(* The flag macros. *)

LEMMA BitsDiffer ==
    /\ CF = 0 /\ PF = 2 /\ AF = 4 /\ ZF = 6 /\ SF = 7 /\ OF = 11
    /\ CF \in FlagBits /\ PF \in FlagBits /\ ZF \in FlagBits
    /\ SF \in FlagBits /\ OF \in FlagBits
  BY DEF CF, PF, AF, ZF, SF, OF, FlagBits

LEMMA ResultFlagsTyped ==
    ASSUME NEW fl \in SUBSET FlagBits, NEW res
    PROVE  SetResultFlags(fl, res) \in SUBSET FlagBits
  BY BitsDiffer DEF SetResultFlags, When

LEMMA ShiftFlagsTyped ==
    ASSUME NEW fl \in SUBSET FlagBits, NEW s, NEW tdest, NEW res
    PROVE  /\ RolFlags(fl, s, tdest, res) \in SUBSET FlagBits
           /\ RorFlags(fl, s, tdest, res) \in SUBSET FlagBits
           /\ ShlFlags(fl, s, tdest, res) \in SUBSET FlagBits
           /\ ShrFlags(fl, s, tdest, res) \in SUBSET FlagBits
  <1>1. ASSUME NEW f \in SUBSET FlagBits, NEW out, NEW of
        PROVE  ShiftFlags(f, s, out, of) \in SUBSET FlagBits
    BY BitsDiffer DEF ShiftFlags, When
  <1>2. ASSUME NEW f \in SUBSET FlagBits
        PROVE  /\ RolFlags(f, s, tdest, res) \in SUBSET FlagBits
               /\ RorFlags(f, s, tdest, res) \in SUBSET FlagBits
    BY <1>1 DEF RolFlags, RorFlags
  <1> QED
    BY <1>2, ResultFlagsTyped DEF ShlFlags, ShrFlags

LEMMA LogicFlagsTyped ==
    ASSUME flags \in SUBSET FlagBits, NEW res
    PROVE  LogicFlags(res) \in SUBSET FlagBits
  BY ResultFlagsTyped DEF LogicFlags

\* OF after a shift by one place.
LEMMA OverflowOfOne ==
    ASSUME NEW fl, NEW tdest, NEW res
    PROVE  /\ OF \in RolFlags(fl, 1, tdest, res) <=> (width - 1 \in tdest) # (Msb \in res)
           /\ OF \in ShlFlags(fl, 1, tdest, res) <=> (width - 1 \in tdest) # (Msb \in res)
           /\ OF \in RorFlags(fl, 1, tdest, res) <=> (Msb - 1 \in res) # (Msb \in res)
           /\ OF \in ShrFlags(fl, 1, tdest, res) <=> (Msb - 1 \in res) # (Msb \in res)
  <1>1. ASSUME NEW f, NEW out, NEW of \in BOOLEAN
        PROVE  OF \in ShiftFlags(f, 1, out, of) <=> of
    BY BitsDiffer DEF ShiftFlags, When
  <1>2. ASSUME NEW f
        PROVE  /\ OF \in RolFlags(f, 1, tdest, res)
                     <=> (width - 1 \in tdest) # (Msb \in res)
               /\ OF \in RorFlags(f, 1, tdest, res)
                     <=> (Msb - 1 \in res) # (Msb \in res)
    <2> DEFINE rolOf == (width - 1 \in tdest) # (Msb \in res)
               rorOf == (Msb - 1 \in res) # (Msb \in res)
    <2>1. rolOf \in BOOLEAN /\ rorOf \in BOOLEAN
      OBVIOUS
    <2>2. /\ RolFlags(f, 1, tdest, res) = ShiftFlags(f, 1, width - 1 \in tdest, rolOf)
          /\ RorFlags(f, 1, tdest, res) = ShiftFlags(f, 1, 1 - 1 \in tdest, rorOf)
      BY DEF RolFlags, RorFlags
    <2> HIDE DEF rolOf, rorOf
    <2>3. /\ OF \in RolFlags(f, 1, tdest, res) <=> rolOf
          /\ OF \in RorFlags(f, 1, tdest, res) <=> rorOf
      BY <1>1, <2>1, <2>2
    <2> QED
      BY <2>3 DEF rolOf, rorOf
  <1> QED
    BY <1>2 DEF ShlFlags, ShrFlags

-----------------------------------------------------------------------------
(* Types. *)

LEMMA TypeInit == Init => TypeOK
  <1> SUFFICES ASSUME Init PROVE TypeOK
    OBVIOUS
  <1>1. width \in Widths /\ dest \subseteq Bits
    BY DEF Init, Store
  <1>2. flags \subseteq FlagBits
    BY DEF Init, FixedBit, IOPL, FlagBits
  <1> QED
    BY <1>1, <1>2 DEF TypeOK

LEMMA TypeNext == TypeOK /\ [Next]_vars => TypeOK'
  <1> SUFFICES ASSUME TypeOK, [Next]_vars PROVE TypeOK'
    OBVIOUS
  <1>t. /\ width \in Widths /\ width \in Nat
        /\ dest \in SUBSET Bits
        /\ flags \in SUBSET FlagBits
    BY WidthFacts DEF TypeOK
  <1>q. ASSUME width' = width, dest' \subseteq Bits, flags' \in SUBSET FlagBits
        PROVE  TypeOK'
    BY <1>t, <1>q DEF TypeOK, Bits
  <1>1. ASSUME NEW count \in Counts, Rol(count) \/ Rcl(count)
        PROVE  TypeOK'
    <2>1. width' = width /\ dest' \subseteq Bits
      BY <1>1 DEF Rol, Rcl, Store
    <2>2. flags' = RolFlags(flags, Shift(count), dest, dest')
      BY <1>1 DEF Rol, Rcl
    <2>3. flags' \in SUBSET FlagBits
      BY <1>t, <2>2, ShiftFlagsTyped
    <2> QED
      BY <1>q, <2>1, <2>3
  <1>2. ASSUME NEW count \in Counts, Ror(count) \/ Rcr(count)
        PROVE  TypeOK'
    <2>1. width' = width /\ dest' \subseteq Bits
      BY <1>2 DEF Ror, Rcr, Store
    <2>2. flags' = RorFlags(flags, Shift(count), dest, dest')
      BY <1>2 DEF Ror, Rcr
    <2>3. flags' \in SUBSET FlagBits
      BY <1>t, <2>2, ShiftFlagsTyped
    <2> QED
      BY <1>q, <2>1, <2>3
  <1>3. ASSUME NEW count \in Counts, Shl(count)
        PROVE  TypeOK'
    BY <1>q, <1>3, <1>t, ShiftFlagsTyped DEF Shl, Store
  <1>4. ASSUME NEW count \in Counts, Shr(count) \/ Sar(count)
        PROVE  TypeOK'
    <2>1. Shift(count) \in 0 .. width - 1
      BY <1>t, WidthFacts
    <2>2. Down(dest, Shift(count)) \subseteq Bits
      BY <1>t, <2>1, DownStays
    <2>3. width - Shift(count) .. Msb \subseteq Bits
      BY <1>t, <2>1 DEF Bits, Msb
    <2>4. width' = width /\ dest' \subseteq Bits
      BY <1>4, <2>2, <2>3 DEF Shr, Sar
    <2>5. flags' \in SUBSET FlagBits
      BY <1>4, <1>t, ShiftFlagsTyped DEF Shr, Sar
    <2> QED
      BY <1>q, <2>4, <2>5
  <1>5. ASSUME NEW opnd \in Operands, And(opnd) \/ Or(opnd) \/ Xor(opnd) \/ Test(opnd)
        PROVE  TypeOK'
    <2>1. width' = width /\ dest' \subseteq Bits
      BY <1>5, <1>t DEF And, Or, Xor, Test, Store
    <2>2. flags' \in SUBSET FlagBits
      BY <1>5, <1>t, LogicFlagsTyped DEF And, Or, Xor, Test
    <2> QED
      BY <1>q, <2>1, <2>2
  <1>6. CASE Not
    BY <1>q, <1>6, <1>t DEF Not
  <1>7. ASSUME NEW bit \in {0, 1}, SetCarry(bit)
        PROVE  TypeOK'
    BY <1>q, <1>7, <1>t, BitsDiffer DEF SetCarry, When
  <1>8. CASE UNCHANGED vars
    BY <1>q, <1>8, <1>t DEF vars
  <1> QED
    BY <1>1, <1>2, <1>3, <1>4, <1>5, <1>6, <1>7, <1>8 DEF Next

(* No shift, rotate or bitwise instruction leaves a bit outside the        *)
(* operand's type or sets a flag without a name (the OP_* macros of        *)
(* execute_private.h:59-147), at every width and for every count.          *)
THEOREM TypeCorrect == Spec => []TypeOK
  BY TypeInit, TypeNext, PTL DEF Spec

LEMMA TypeHolds == Spec => []TypeOK
  BY TypeInit, TypeNext, PTL DEF Spec

-----------------------------------------------------------------------------
(* OF after a shift by one. *)

\* The second highest bit of what ROR, SHR, SAR and, narrower than an int,
\* RCR leave is the operand's sign.
LEMMA SignMovesDown ==
    ASSUME TypeOK, NEW count \in Counts, Shift(count) = 1,
           \/ Ror(count) \/ Shr(count) \/ Sar(count)
           \/ Rcr(count) /\ width < IntWidth
    PROVE  Msb - 1 \in dest' <=> Msb \in dest
  <1>1. /\ width \in Nat /\ width >= 2 /\ dest \in SUBSET Bits
        /\ IntWidth \in Nat /\ PromotedWidth >= 2 /\ PromotedWidth >= width
        /\ PromotedWidth \in Nat
        /\ Msb = width - 1 /\ Msb - 1 \in Nat /\ Msb - 1 \in Bits
    BY WidthFacts DEF TypeOK, Bits
  <1>2. dest \in SUBSET Nat
    BY <1>1 DEF Bits
  <1>3. Msb - 1 \in Down(dest, 1) <=> Msb \in dest
    <2>1. Msb - 1 \in Down(dest, 1) <=> (Msb - 1) + 1 \in dest
      BY <1>1, <1>2, ShiftMembers
    <2>2. (Msb - 1) + 1 = Msb
      BY <1>1
    <2> QED
      BY <2>1, <2>2
  <1>4. RightShifts(dest, 1) = {Down(dest, 1)}
    BY <1>1 DEF RightShifts
  <1>5. ASSUME NEW n \in Nat, n >= width - 1
        PROVE  Msb - 1 \notin Up(dest, n)
    <2>1. ~(Msb - 1 >= n)
      BY <1>1, <1>5
    <2> QED
      BY <1>1, <1>2, <2>1, ShiftMembers
  <1>6. CASE Ror(count)
    <2>1. LeftShifts(dest, width - 1) = {Up(dest, width - 1)}
      BY <1>1 DEF LeftShifts
    <2>2. dest' = Store(Up(dest, width - 1) \cup Down(dest, 1))
      BY <1>4, <1>6, <2>1 DEF Ror
    <2>3. width - 1 \in Nat
      BY <1>1
    <2> QED
      BY <1>1, <1>3, <1>5, <2>2, <2>3 DEF Store
  <1>7. CASE Rcr(count) /\ width < IntWidth
    <2>1. LeftShifts(dest, width + 1 - 1) = {Up(dest, width)}
      <3>1. width + 1 - 1 = width /\ PromotedWidth = IntWidth
        BY <1>1, <1>7 DEF PromotedWidth
      <3> QED
        BY <1>7, <3>1 DEF LeftShifts
    <2>2. ASSUME NEW carry \in CarryShifts(width - 1)
          PROVE  Msb - 1 \notin carry
      <3>1. width - 1 < IntWidth /\ width - 1 # IntWidth - 1
        BY <1>1, <1>7
      <3>2. carry = {} \/ carry = {width - 1}
        BY <2>2, <3>1 DEF CarryShifts, IntBit
      <3> QED
        BY <1>1, <3>2
    <2>3. PICK carry \in CarryShifts(width - 1) :
             dest' = Store(Up(dest, width) \cup Down(dest, 1) \cup carry)
      BY <1>4, <1>7, <2>1 DEF Rcr
    <2> QED
      BY <1>1, <1>3, <1>5, <2>2, <2>3 DEF Store
  <1>8. CASE Shr(count)
    BY <1>3, <1>8 DEF Shr
  <1>9. CASE Sar(count)
    <2>1. Msb - 1 \notin width - 1 .. Msb
      BY <1>1
    <2> QED
      BY <1>3, <1>9, <2>1 DEF Sar
  <1> QED
    BY <1>6, <1>7, <1>8, <1>9

(* After any shift or rotate by one place, OF tells whether the sign of    *)
(* the operand changed, whatever bits the macro took it from               *)
(* (IMPL_ROL_FLAG, IMPL_ROR_FLAG, IMPL_SHL_FLAG, IMPL_SHR_FLAG).           *)
THEOREM OverflowTellsSignChange == Spec => OverflowIsSignChange
  <1> DEFINE Shifts(count) ==
         /\ Shift(count) = 1
         /\ \/ Rol(count) \/ Ror(count) \/ Rcl(count)
            \/ Shl(count) \/ Shr(count) \/ Sar(count)
            \/ Rcr(count) /\ width < IntWidth
      Told == OF \in flags' <=> (Msb \in dest) # (Msb \in dest')
  <1>1. ASSUME TypeOK, NEW count \in Counts, Shifts(count)
        PROVE  Told
    <2>1. width' = width
      BY <1>1 DEF Rol, Ror, Rcl, Shl, Shr, Sar, Rcr
    <2>2. CASE Rol(count) \/ Rcl(count)
      <3>1. flags' = RolFlags(flags, 1, dest, dest')
        BY <1>1, <2>2 DEF Rol, Rcl
      <3> QED
        BY <3>1, OverflowOfOne DEF Msb
    <2>3. CASE Shl(count)
      <3>1. flags' = ShlFlags(flags, 1, dest, dest')
        BY <1>1, <2>3 DEF Shl
      <3> QED
        BY <3>1, OverflowOfOne DEF Msb
    <2>4. CASE Ror(count) \/ (Rcr(count) /\ width < IntWidth)
      <3>1. flags' = RorFlags(flags, 1, dest, dest')
        BY <1>1, <2>4 DEF Ror, Rcr
      <3>2. Msb - 1 \in dest' <=> Msb \in dest
        BY <1>1, <2>4, SignMovesDown
      <3> QED
        BY <3>1, <3>2, OverflowOfOne
    <2>5. CASE Shr(count) \/ Sar(count)
      <3>1. flags' = ShrFlags(flags, 1, dest, dest')
        BY <1>1, <2>5 DEF Shr, Sar
      <3>2. Msb - 1 \in dest' <=> Msb \in dest
        BY <1>1, <2>5, SignMovesDown
      <3> QED
        BY <3>1, <3>2, OverflowOfOne
    <2> HIDE DEF Told
    <2> QED
      BY <1>1, <2>2, <2>3, <2>4, <2>5
  <1>2. TypeOK /\ [Next]_vars => [\A count \in Counts : Shifts(count) => Told]_vars
    BY <1>1
  <1> QED
    BY <1>2, TypeHolds, PTL DEF Spec, OverflowIsSignChange

-----------------------------------------------------------------------------
(* Comparison with zero. *)

LEMMA CondReads ==
    ASSUME NEW fl
    PROVE  /\ Cond(0, fl) <=> OF \in fl
           /\ Cond(2, fl) <=> CF \in fl
           /\ Cond(4, fl) <=> ZF \in fl
           /\ Cond(7, fl) <=> CF \notin fl /\ ZF \notin fl
           /\ Cond(12, fl) <=> ~(SF \in fl <=> OF \in fl)
           /\ Cond(13, fl) <=> (SF \in fl <=> OF \in fl)
           /\ Cond(14, fl) <=> ZF \in fl \/ ~(SF \in fl <=> OF \in fl)
           /\ Cond(15, fl) <=> ZF \notin fl /\ (SF \in fl <=> OF \in fl)
  BY DEF Cond

LEMMA LogicFlagsCompare ==
    ASSUME NEW res
    PROVE  ComparesWithZero(LogicFlags(res), res)
  <1>1. /\ CF \notin LogicFlags(res) /\ OF \notin LogicFlags(res)
        /\ ZF \in LogicFlags(res) <=> res = {}
        /\ SF \in LogicFlags(res) <=> Msb \in res
    BY BitsDiffer DEF LogicFlags, SetResultFlags, When
  <1>2. Msb \in res => res # {}
    OBVIOUS
  <1> QED
    BY <1>1, <1>2, CondReads DEF ComparesWithZero

(* Whatever the flags were, after AND, OR, XOR and TEST every conditional  *)
(* jump compares the result with zero (IMPL_OP_S_BITWISE, IMPL_OP_S_TEST   *)
(* and x64execute_jmp_cond), at every width.                               *)
THEOREM LogicIsComparison == Spec => LogicComparesWithZero
  <1> DEFINE Compared(opnd) ==
         /\ (And(opnd) \/ Or(opnd) \/ Xor(opnd)) => ComparesWithZero(flags', dest')
         /\ Test(opnd) => ComparesWithZero(flags', dest \cap opnd)
  <1>1. ASSUME NEW opnd \in Operands
        PROVE  Compared(opnd)
    <2>1. ASSUME NEW res, flags' = LogicFlags(res)
          PROVE  ComparesWithZero(flags', res)
      BY <2>1, LogicFlagsCompare
    <2>2. ASSUME And(opnd) \/ Or(opnd) \/ Xor(opnd)
          PROVE  flags' = LogicFlags(dest')
      BY <2>2 DEF And, Or, Xor
    <2>3. ASSUME Test(opnd)
          PROVE  flags' = LogicFlags(dest \cap opnd)
      BY <2>3 DEF Test
    <2> QED
      BY <2>1, <2>2, <2>3
  <1>2. [Next]_vars => [\A opnd \in Operands : Compared(opnd)]_vars
    BY <1>1
  <1> QED
    BY <1>2, PTL DEF Spec, LogicComparesWithZero
-----------------------------------------------------------------------------
(* Counting steps.  The library's induction theorems take the formula as a *)
(* parameter; the induction here is over the members of a set, from the    *)
(* well-foundedness of < on the naturals.                                  *)

LessThan == {p \in Nat \X Nat : p[1] < p[2]}

LEMMA LessThanWellFounded == IsWellFoundedOn(LessThan, Nat)
  <1>1. OpToRel(<, Nat) = LessThan
    BY DEF OpToRel, LessThan
  <1> QED
    BY <1>1, NatLessThanWellFounded

LEMMA LeastNumber ==
    ASSUME NEW T \in SUBSET Nat, T # {}
    PROVE  \E x \in T : \A y \in T : x <= y
  <1>1. PICK x \in T : \A y \in T : ~(<<y, x>> \in LessThan)
    BY LessThanWellFounded, WFMin
  <1>2. ASSUME NEW y \in T, y < x
        PROVE  <<y, x>> \in LessThan
    <2>1. <<y, x>> \in Nat \X Nat /\ <<y, x>>[1] = y /\ <<y, x>>[2] = x
      OBVIOUS
    <2> QED
      BY <1>2, <2>1 DEF LessThan
  <1>3. ASSUME NEW y \in T
        PROVE  x <= y
    <2>1. x \in Nat /\ y \in Nat /\ ~(y < x)
      BY <1>1, <1>2
    <2> QED
      BY <2>1
  <1> QED
    BY <1>3

\* A set that holds 0 and, with every number, the next one up to n.
LEMMA UpTo ==
    ASSUME NEW n \in Nat, NEW T, 0 \in T,
           \A i \in 1 .. n : i - 1 \in T => i \in T
    PROVE  0 .. n \subseteq T
  <1> DEFINE missed == (0 .. n) \ T
  <1> SUFFICES ASSUME missed # {} PROVE FALSE
    OBVIOUS
  <1>1. missed \in SUBSET Nat
    OBVIOUS
  <1>2. PICK x \in missed : \A y \in missed : x <= y
    <2> HIDE DEF missed
    <2> QED
      BY <1>1, LeastNumber
  <1>3. x \in 1 .. n /\ x - 1 \in 0 .. n /\ x - 1 \notin missed
    BY <1>2
  <1> QED
    BY <1>2, <1>3

RolSteps(n, v) == Times(n, RolOnce, v)
RorSteps(n, v) == Times(n, RorOnce, v)
RclSteps(n, v) == Times(n, RclOnce, v)
RcrSteps(n, v) == Times(n, RcrOnce, v)
ShlSteps(n, v) == Times(n, ShlOnce, v)
ShrSteps(n, v) == Times(n, ShrOnce, v)
SarSteps(n, v) == Times(n, SarOnce, v)

\* What n steps by one place leave is the value at n of any function of
\* 0 .. n that starts and steps as they do.
LEMMA RolTimes ==
    ASSUME NEW n \in Nat, NEW v, NEW X, NEW c \in [0 .. n -> X], c[0] = v,
           \A i \in 1 .. n : c[i] = RolOnce(c[i - 1])
    PROVE  RolSteps(n, v) = c[n]
  <1> DEFINE Stepped(f) == [i \in 0 .. n |-> IF i = 0 THEN v ELSE RolOnce(f[i - 1])]
             after == CHOOSE f : f = Stepped(f)
             T(f) == {i \in 0 .. n : f[i] = c[i]}
  <1>1. PICK a : a = after /\ a = Stepped(a)
    <2>1. \A i \in 0 .. n : c[i] = IF i = 0 THEN v ELSE RolOnce(c[i - 1])
      OBVIOUS
    <2>2. c = Stepped(c)
      BY <2>1
    <2> HIDE DEF Stepped
    <2> QED
      BY <2>2
  <1>2. RolSteps(n, v) = a[n]
    BY <1>1 DEF RolSteps, Times
  <1>3. \A i \in 0 .. n : a[i] = IF i = 0 THEN v ELSE RolOnce(a[i - 1])
    BY <1>1
  <1> HIDE DEF after, Stepped
  <1>4. \A i \in 1 .. n : a[i] = RolOnce(a[i - 1])
    BY <1>3
  <1>5. 0 \in T(a) /\ \A i \in 1 .. n : i - 1 \in T(a) => i \in T(a)
    BY <1>3, <1>4
  <1>6. 0 .. n \subseteq T(a)
    <2> HIDE DEF T
    <2> QED
      BY <1>5, UpTo
  <1> QED
    BY <1>2, <1>6

LEMMA RorTimes ==
    ASSUME NEW n \in Nat, NEW v, NEW X, NEW c \in [0 .. n -> X], c[0] = v,
           \A i \in 1 .. n : c[i] = RorOnce(c[i - 1])
    PROVE  RorSteps(n, v) = c[n]
  <1> DEFINE Stepped(f) == [i \in 0 .. n |-> IF i = 0 THEN v ELSE RorOnce(f[i - 1])]
             after == CHOOSE f : f = Stepped(f)
             T(f) == {i \in 0 .. n : f[i] = c[i]}
  <1>1. PICK a : a = after /\ a = Stepped(a)
    <2>1. \A i \in 0 .. n : c[i] = IF i = 0 THEN v ELSE RorOnce(c[i - 1])
      OBVIOUS
    <2>2. c = Stepped(c)
      BY <2>1
    <2> HIDE DEF Stepped
    <2> QED
      BY <2>2
  <1>2. RorSteps(n, v) = a[n]
    BY <1>1 DEF RorSteps, Times
  <1>3. \A i \in 0 .. n : a[i] = IF i = 0 THEN v ELSE RorOnce(a[i - 1])
    BY <1>1
  <1> HIDE DEF after, Stepped
  <1>4. \A i \in 1 .. n : a[i] = RorOnce(a[i - 1])
    BY <1>3
  <1>5. 0 \in T(a) /\ \A i \in 1 .. n : i - 1 \in T(a) => i \in T(a)
    BY <1>3, <1>4
  <1>6. 0 .. n \subseteq T(a)
    <2> HIDE DEF T
    <2> QED
      BY <1>5, UpTo
  <1> QED
    BY <1>2, <1>6

LEMMA RclTimes ==
    ASSUME NEW n \in Nat, NEW v, NEW X, NEW c \in [0 .. n -> X], c[0] = v,
           \A i \in 1 .. n : c[i] = RclOnce(c[i - 1])
    PROVE  RclSteps(n, v) = c[n]
  <1> DEFINE Stepped(f) == [i \in 0 .. n |-> IF i = 0 THEN v ELSE RclOnce(f[i - 1])]
             after == CHOOSE f : f = Stepped(f)
             T(f) == {i \in 0 .. n : f[i] = c[i]}
  <1>1. PICK a : a = after /\ a = Stepped(a)
    <2>1. \A i \in 0 .. n : c[i] = IF i = 0 THEN v ELSE RclOnce(c[i - 1])
      OBVIOUS
    <2>2. c = Stepped(c)
      BY <2>1
    <2> HIDE DEF Stepped
    <2> QED
      BY <2>2
  <1>2. RclSteps(n, v) = a[n]
    BY <1>1 DEF RclSteps, Times
  <1>3. \A i \in 0 .. n : a[i] = IF i = 0 THEN v ELSE RclOnce(a[i - 1])
    BY <1>1
  <1> HIDE DEF after, Stepped
  <1>4. \A i \in 1 .. n : a[i] = RclOnce(a[i - 1])
    BY <1>3
  <1>5. 0 \in T(a) /\ \A i \in 1 .. n : i - 1 \in T(a) => i \in T(a)
    BY <1>3, <1>4
  <1>6. 0 .. n \subseteq T(a)
    <2> HIDE DEF T
    <2> QED
      BY <1>5, UpTo
  <1> QED
    BY <1>2, <1>6

LEMMA RcrTimes ==
    ASSUME NEW n \in Nat, NEW v, NEW X, NEW c \in [0 .. n -> X], c[0] = v,
           \A i \in 1 .. n : c[i] = RcrOnce(c[i - 1])
    PROVE  RcrSteps(n, v) = c[n]
  <1> DEFINE Stepped(f) == [i \in 0 .. n |-> IF i = 0 THEN v ELSE RcrOnce(f[i - 1])]
             after == CHOOSE f : f = Stepped(f)
             T(f) == {i \in 0 .. n : f[i] = c[i]}
  <1>1. PICK a : a = after /\ a = Stepped(a)
    <2>1. \A i \in 0 .. n : c[i] = IF i = 0 THEN v ELSE RcrOnce(c[i - 1])
      OBVIOUS
    <2>2. c = Stepped(c)
      BY <2>1
    <2> HIDE DEF Stepped
    <2> QED
      BY <2>2
  <1>2. RcrSteps(n, v) = a[n]
    BY <1>1 DEF RcrSteps, Times
  <1>3. \A i \in 0 .. n : a[i] = IF i = 0 THEN v ELSE RcrOnce(a[i - 1])
    BY <1>1
  <1> HIDE DEF after, Stepped
  <1>4. \A i \in 1 .. n : a[i] = RcrOnce(a[i - 1])
    BY <1>3
  <1>5. 0 \in T(a) /\ \A i \in 1 .. n : i - 1 \in T(a) => i \in T(a)
    BY <1>3, <1>4
  <1>6. 0 .. n \subseteq T(a)
    <2> HIDE DEF T
    <2> QED
      BY <1>5, UpTo
  <1> QED
    BY <1>2, <1>6

LEMMA ShlTimes ==
    ASSUME NEW n \in Nat, NEW v, NEW X, NEW c \in [0 .. n -> X], c[0] = v,
           \A i \in 1 .. n : c[i] = ShlOnce(c[i - 1])
    PROVE  ShlSteps(n, v) = c[n]
  <1> DEFINE Stepped(f) == [i \in 0 .. n |-> IF i = 0 THEN v ELSE ShlOnce(f[i - 1])]
             after == CHOOSE f : f = Stepped(f)
             T(f) == {i \in 0 .. n : f[i] = c[i]}
  <1>1. PICK a : a = after /\ a = Stepped(a)
    <2>1. \A i \in 0 .. n : c[i] = IF i = 0 THEN v ELSE ShlOnce(c[i - 1])
      OBVIOUS
    <2>2. c = Stepped(c)
      BY <2>1
    <2> HIDE DEF Stepped
    <2> QED
      BY <2>2
  <1>2. ShlSteps(n, v) = a[n]
    BY <1>1 DEF ShlSteps, Times
  <1>3. \A i \in 0 .. n : a[i] = IF i = 0 THEN v ELSE ShlOnce(a[i - 1])
    BY <1>1
  <1> HIDE DEF after, Stepped
  <1>4. \A i \in 1 .. n : a[i] = ShlOnce(a[i - 1])
    BY <1>3
  <1>5. 0 \in T(a) /\ \A i \in 1 .. n : i - 1 \in T(a) => i \in T(a)
    BY <1>3, <1>4
  <1>6. 0 .. n \subseteq T(a)
    <2> HIDE DEF T
    <2> QED
      BY <1>5, UpTo
  <1> QED
    BY <1>2, <1>6

LEMMA ShrTimes ==
    ASSUME NEW n \in Nat, NEW v, NEW X, NEW c \in [0 .. n -> X], c[0] = v,
           \A i \in 1 .. n : c[i] = ShrOnce(c[i - 1])
    PROVE  ShrSteps(n, v) = c[n]
  <1> DEFINE Stepped(f) == [i \in 0 .. n |-> IF i = 0 THEN v ELSE ShrOnce(f[i - 1])]
             after == CHOOSE f : f = Stepped(f)
             T(f) == {i \in 0 .. n : f[i] = c[i]}
  <1>1. PICK a : a = after /\ a = Stepped(a)
    <2>1. \A i \in 0 .. n : c[i] = IF i = 0 THEN v ELSE ShrOnce(c[i - 1])
      OBVIOUS
    <2>2. c = Stepped(c)
      BY <2>1
    <2> HIDE DEF Stepped
    <2> QED
      BY <2>2
  <1>2. ShrSteps(n, v) = a[n]
    BY <1>1 DEF ShrSteps, Times
  <1>3. \A i \in 0 .. n : a[i] = IF i = 0 THEN v ELSE ShrOnce(a[i - 1])
    BY <1>1
  <1> HIDE DEF after, Stepped
  <1>4. \A i \in 1 .. n : a[i] = ShrOnce(a[i - 1])
    BY <1>3
  <1>5. 0 \in T(a) /\ \A i \in 1 .. n : i - 1 \in T(a) => i \in T(a)
    BY <1>3, <1>4
  <1>6. 0 .. n \subseteq T(a)
    <2> HIDE DEF T
    <2> QED
      BY <1>5, UpTo
  <1> QED
    BY <1>2, <1>6

LEMMA SarTimes ==
    ASSUME NEW n \in Nat, NEW v, NEW X, NEW c \in [0 .. n -> X], c[0] = v,
           \A i \in 1 .. n : c[i] = SarOnce(c[i - 1])
    PROVE  SarSteps(n, v) = c[n]
  <1> DEFINE Stepped(f) == [i \in 0 .. n |-> IF i = 0 THEN v ELSE SarOnce(f[i - 1])]
             after == CHOOSE f : f = Stepped(f)
             T(f) == {i \in 0 .. n : f[i] = c[i]}
  <1>1. PICK a : a = after /\ a = Stepped(a)
    <2>1. \A i \in 0 .. n : c[i] = IF i = 0 THEN v ELSE SarOnce(c[i - 1])
      OBVIOUS
    <2>2. c = Stepped(c)
      BY <2>1
    <2> HIDE DEF Stepped
    <2> QED
      BY <2>2
  <1>2. SarSteps(n, v) = a[n]
    BY <1>1 DEF SarSteps, Times
  <1>3. \A i \in 0 .. n : a[i] = IF i = 0 THEN v ELSE SarOnce(a[i - 1])
    BY <1>1
  <1> HIDE DEF after, Stepped
  <1>4. \A i \in 1 .. n : a[i] = SarOnce(a[i - 1])
    BY <1>3
  <1>5. 0 \in T(a) /\ \A i \in 1 .. n : i - 1 \in T(a) => i \in T(a)
    BY <1>3, <1>4
  <1>6. 0 .. n \subseteq T(a)
    <2> HIDE DEF T
    <2> QED
      BY <1>5, UpTo
  <1> QED
    BY <1>2, <1>6

-----------------------------------------------------------------------------
(* What i steps by one place leave of the operand d and the carry k.       *)

OutLeft(d, k, i) == IF i = 0 THEN k ELSE width - i \in d
OutRight(d, k, i) == IF i = 0 THEN k ELSE i - 1 \in d

RolBits(d, k, i) == {b \in Bits : IF b >= i THEN b - i \in d ELSE b + width - i \in d}
RorBits(d, k, i) == {b \in Bits : IF b + i < width THEN b + i \in d ELSE b + i - width \in d}
ShlBits(d, k, i) == {b \in Bits : b >= i /\ b - i \in d}
ShrBits(d, k, i) == {b \in Bits : b + i \in d}
SarBits(d, k, i) == {b \in Bits : IF b + i < width THEN b + i \in d ELSE Msb \in d}
RclBits(d, k, i) ==
    {b \in Bits : IF b >= i THEN b - i \in d
                  ELSE IF b = i - 1 THEN k ELSE b + width + 1 - i \in d}
RcrBits(d, k, i) ==
    {b \in Bits : IF b + i < width THEN b + i \in d
                  ELSE IF b + i = width THEN k ELSE b + i - width - 1 \in d}

LEMMA OutTyped ==
    ASSUME NEW d, NEW k \in BOOLEAN, NEW i
    PROVE  OutLeft(d, k, i) \in BOOLEAN /\ OutRight(d, k, i) \in BOOLEAN
  <1>1. CASE i = 0
    <2>1. OutLeft(d, k, i) = k /\ OutRight(d, k, i) = k
      BY <1>1, Zenon DEF OutLeft, OutRight
    <2> QED
      BY <2>1
  <1>2. CASE i # 0
    <2>1. OutLeft(d, k, i) = (width - i \in d) /\ OutRight(d, k, i) = (i - 1 \in d)
      BY <1>2, Zenon DEF OutLeft, OutRight
    <2>2. (width - i \in d) \in BOOLEAN /\ (i - 1 \in d) \in BOOLEAN
      OBVIOUS
    <2> QED
      BY <2>1, <2>2, Zenon
  <1> QED
    BY <1>1, <1>2

\* Sets of bits with the same members.
LEMMA SameBits ==
    ASSUME NEW x \in SUBSET Nat, NEW y \in SUBSET Nat, \A b \in Nat : b \in x <=> b \in y
    PROVE  x = y
  OBVIOUS

\* What a step by one place makes of a set of positions.
LEMMA OneMembers ==
    ASSUME width \in Nat, NEW x \in SUBSET Bits, NEW b \in Nat
    PROVE  /\ b \in Store(Up(x, 1)) <=> b < width /\ b >= 1 /\ b - 1 \in x
           /\ b \in Down(x, 1) <=> b + 1 \in x
  <1>1. x \in SUBSET Nat
    BY DEF Bits
  <1>2. b \in Bits <=> b < width
    BY DEF Bits
  <1> QED
    BY <1>1, <1>2, ShiftMembers DEF Store

LEMMA OneTyped ==
    ASSUME width \in Nat, NEW x \in SUBSET Bits
    PROVE  Store(Up(x, 1)) \in SUBSET Nat /\ Down(x, 1) \in SUBSET Nat
  <1>1. x \in SUBSET Nat
    BY DEF Bits
  <1> QED
    BY <1>1 DEF Store, Bits, Down

LEMMA RolStep ==
    ASSUME width \in Nat, width >= 2, NEW d \in SUBSET Bits, NEW k \in BOOLEAN,
           NEW i \in 1 .. width - 1
    PROVE  <<RolBits(d, k, i), OutLeft(d, k, i)>>
              = RolOnce(<<RolBits(d, k, i - 1), OutLeft(d, k, i - 1)>>)
  <1>1. PICK x \in SUBSET Bits : x = RolBits(d, k, i - 1)
    BY DEF RolBits
  <1>2. PICK c \in BOOLEAN : c = OutLeft(d, k, i - 1)
    BY OutTyped
  <1>3. d \in SUBSET Nat /\ x \in SUBSET Nat /\ Msb = width - 1 /\ Msb \in Nat
    BY DEF Bits, Msb
  <1>4. \A b \in Nat : b \in Bits <=> b < width
    BY DEF Bits
  <1>5. ASSUME NEW b \in Nat
        PROVE  b \in RolBits(d, k, i) <=> (b < width /\ b >= 1 /\ b - 1 \in x) \/ (Msb \in x /\ b = 0)
    BY <1>1, <1>2, <1>3, <1>4 DEF RolBits, OutLeft, Bits
  <1>6. OutLeft(d, k, i) <=> Msb \in x
    BY <1>1, <1>3, <1>4 DEF RolBits, OutLeft, Bits
  <1>7. RolBits(d, k, i) = Store(Up(x, 1)) \cup When(Msb \in x, 0)
    <2>1. RolBits(d, k, i) \in SUBSET Nat /\ (Store(Up(x, 1)) \cup When(Msb \in x, 0)) \in SUBSET Nat
      BY <1>3, OneTyped DEF RolBits, Bits, When
    <2>2. \A b \in Nat : b \in RolBits(d, k, i) <=> b \in Store(Up(x, 1)) \cup When(Msb \in x, 0)
      BY <1>3, <1>5, OneMembers DEF When
    <2> QED
      BY <2>1, <2>2, SameBits
  <1>8. RolOnce(<<x, c>>) = <<Store(Up(x, 1)) \cup When(Msb \in x, 0), Msb \in x>>
    BY DEF RolOnce
  <1>9. OutLeft(d, k, i) = (Msb \in x)
    BY <1>6 DEF OutLeft
  <1> QED
    BY <1>1, <1>2, <1>7, <1>8, <1>9, Zenon

LEMMA RorStep ==
    ASSUME width \in Nat, width >= 2, NEW d \in SUBSET Bits, NEW k \in BOOLEAN,
           NEW i \in 1 .. width - 1
    PROVE  <<RorBits(d, k, i), OutRight(d, k, i)>>
              = RorOnce(<<RorBits(d, k, i - 1), OutRight(d, k, i - 1)>>)
  <1>1. PICK x \in SUBSET Bits : x = RorBits(d, k, i - 1)
    BY DEF RorBits
  <1>2. PICK c \in BOOLEAN : c = OutRight(d, k, i - 1)
    BY OutTyped
  <1>3. d \in SUBSET Nat /\ x \in SUBSET Nat /\ Msb = width - 1 /\ Msb \in Nat
    BY DEF Bits, Msb
  <1>4. \A b \in Nat : b \in Bits <=> b < width
    BY DEF Bits
  <1>5. ASSUME NEW b \in Nat
        PROVE  b \in RorBits(d, k, i) <=> (b + 1 \in x) \/ (0 \in x /\ b = Msb)
    BY <1>1, <1>2, <1>3, <1>4 DEF RorBits, OutRight, Bits
  <1>6. OutRight(d, k, i) <=> 0 \in x
    BY <1>1, <1>3, <1>4 DEF RorBits, OutRight, Bits
  <1>7. RorBits(d, k, i) = Down(x, 1) \cup When(0 \in x, Msb)
    <2>1. RorBits(d, k, i) \in SUBSET Nat /\ (Down(x, 1) \cup When(0 \in x, Msb)) \in SUBSET Nat
      BY <1>3, OneTyped DEF RorBits, Bits, When
    <2>2. \A b \in Nat : b \in RorBits(d, k, i) <=> b \in Down(x, 1) \cup When(0 \in x, Msb)
      BY <1>3, <1>5, OneMembers DEF When
    <2> QED
      BY <2>1, <2>2, SameBits
  <1>8. RorOnce(<<x, c>>) = <<Down(x, 1) \cup When(0 \in x, Msb), 0 \in x>>
    BY DEF RorOnce
  <1>9. OutRight(d, k, i) = (0 \in x)
    BY <1>6 DEF OutRight
  <1> QED
    BY <1>1, <1>2, <1>7, <1>8, <1>9, Zenon

LEMMA RclStep ==
    ASSUME width \in Nat, width >= 2, NEW d \in SUBSET Bits, NEW k \in BOOLEAN,
           NEW i \in 1 .. width - 1
    PROVE  <<RclBits(d, k, i), OutLeft(d, k, i)>>
              = RclOnce(<<RclBits(d, k, i - 1), OutLeft(d, k, i - 1)>>)
  <1>1. PICK x \in SUBSET Bits : x = RclBits(d, k, i - 1)
    BY DEF RclBits
  <1>2. PICK c \in BOOLEAN : c = OutLeft(d, k, i - 1)
    BY OutTyped
  <1>3. d \in SUBSET Nat /\ x \in SUBSET Nat /\ Msb = width - 1 /\ Msb \in Nat
    BY DEF Bits, Msb
  <1>4. \A b \in Nat : b \in Bits <=> b < width
    BY DEF Bits
  <1>5. ASSUME NEW b \in Nat
        PROVE  b \in RclBits(d, k, i) <=> (b < width /\ b >= 1 /\ b - 1 \in x) \/ (c /\ b = 0)
    BY <1>1, <1>2, <1>3, <1>4 DEF RclBits, OutLeft, Bits
  <1>6. OutLeft(d, k, i) <=> Msb \in x
    BY <1>1, <1>3, <1>4 DEF RclBits, OutLeft, Bits
  <1>7. RclBits(d, k, i) = Store(Up(x, 1)) \cup When(c, 0)
    <2>1. RclBits(d, k, i) \in SUBSET Nat /\ (Store(Up(x, 1)) \cup When(c, 0)) \in SUBSET Nat
      BY <1>3, OneTyped DEF RclBits, Bits, When
    <2>2. \A b \in Nat : b \in RclBits(d, k, i) <=> b \in Store(Up(x, 1)) \cup When(c, 0)
      BY <1>3, <1>5, OneMembers DEF When
    <2> QED
      BY <2>1, <2>2, SameBits
  <1>8. RclOnce(<<x, c>>) = <<Store(Up(x, 1)) \cup When(c, 0), Msb \in x>>
    BY DEF RclOnce
  <1>9. OutLeft(d, k, i) = (Msb \in x)
    BY <1>6 DEF OutLeft
  <1> QED
    BY <1>1, <1>2, <1>7, <1>8, <1>9, Zenon

LEMMA RcrStep ==
    ASSUME width \in Nat, width >= 2, NEW d \in SUBSET Bits, NEW k \in BOOLEAN,
           NEW i \in 1 .. width - 1
    PROVE  <<RcrBits(d, k, i), OutRight(d, k, i)>>
              = RcrOnce(<<RcrBits(d, k, i - 1), OutRight(d, k, i - 1)>>)
  <1>1. PICK x \in SUBSET Bits : x = RcrBits(d, k, i - 1)
    BY DEF RcrBits
  <1>2. PICK c \in BOOLEAN : c = OutRight(d, k, i - 1)
    BY OutTyped
  <1>3. d \in SUBSET Nat /\ x \in SUBSET Nat /\ Msb = width - 1 /\ Msb \in Nat
    BY DEF Bits, Msb
  <1>4. \A b \in Nat : b \in Bits <=> b < width
    BY DEF Bits
  <1>5. ASSUME NEW b \in Nat
        PROVE  b \in RcrBits(d, k, i) <=> (b + 1 \in x) \/ (c /\ b = Msb)
    BY <1>1, <1>2, <1>3, <1>4 DEF RcrBits, OutRight, Bits
  <1>6. OutRight(d, k, i) <=> 0 \in x
    BY <1>1, <1>3, <1>4 DEF RcrBits, OutRight, Bits
  <1>7. RcrBits(d, k, i) = Down(x, 1) \cup When(c, Msb)
    <2>1. RcrBits(d, k, i) \in SUBSET Nat /\ (Down(x, 1) \cup When(c, Msb)) \in SUBSET Nat
      BY <1>3, OneTyped DEF RcrBits, Bits, When
    <2>2. \A b \in Nat : b \in RcrBits(d, k, i) <=> b \in Down(x, 1) \cup When(c, Msb)
      BY <1>3, <1>5, OneMembers DEF When
    <2> QED
      BY <2>1, <2>2, SameBits
  <1>8. RcrOnce(<<x, c>>) = <<Down(x, 1) \cup When(c, Msb), 0 \in x>>
    BY DEF RcrOnce
  <1>9. OutRight(d, k, i) = (0 \in x)
    BY <1>6 DEF OutRight
  <1> QED
    BY <1>1, <1>2, <1>7, <1>8, <1>9, Zenon

LEMMA ShlStep ==
    ASSUME width \in Nat, width >= 2, NEW d \in SUBSET Bits, NEW k \in BOOLEAN,
           NEW i \in 1 .. width - 1
    PROVE  <<ShlBits(d, k, i), OutLeft(d, k, i)>>
              = ShlOnce(<<ShlBits(d, k, i - 1), OutLeft(d, k, i - 1)>>)
  <1>1. PICK x \in SUBSET Bits : x = ShlBits(d, k, i - 1)
    BY DEF ShlBits
  <1>2. PICK c \in BOOLEAN : c = OutLeft(d, k, i - 1)
    BY OutTyped
  <1>3. d \in SUBSET Nat /\ x \in SUBSET Nat /\ Msb = width - 1 /\ Msb \in Nat
    BY DEF Bits, Msb
  <1>4. \A b \in Nat : b \in Bits <=> b < width
    BY DEF Bits
  <1>5. ASSUME NEW b \in Nat
        PROVE  b \in ShlBits(d, k, i) <=> b < width /\ b >= 1 /\ b - 1 \in x
    BY <1>1, <1>2, <1>3, <1>4 DEF ShlBits, OutLeft, Bits
  <1>6. OutLeft(d, k, i) <=> Msb \in x
    BY <1>1, <1>3, <1>4 DEF ShlBits, OutLeft, Bits
  <1>7. ShlBits(d, k, i) = Store(Up(x, 1))
    <2>1. ShlBits(d, k, i) \in SUBSET Nat /\ (Store(Up(x, 1))) \in SUBSET Nat
      BY <1>3, OneTyped DEF ShlBits, Bits, When
    <2>2. \A b \in Nat : b \in ShlBits(d, k, i) <=> b \in Store(Up(x, 1))
      BY <1>3, <1>5, OneMembers DEF When
    <2> QED
      BY <2>1, <2>2, SameBits
  <1>8. ShlOnce(<<x, c>>) = <<Store(Up(x, 1)), Msb \in x>>
    BY DEF ShlOnce
  <1>9. OutLeft(d, k, i) = (Msb \in x)
    BY <1>6 DEF OutLeft
  <1> QED
    BY <1>1, <1>2, <1>7, <1>8, <1>9, Zenon

LEMMA ShrStep ==
    ASSUME width \in Nat, width >= 2, NEW d \in SUBSET Bits, NEW k \in BOOLEAN,
           NEW i \in 1 .. width - 1
    PROVE  <<ShrBits(d, k, i), OutRight(d, k, i)>>
              = ShrOnce(<<ShrBits(d, k, i - 1), OutRight(d, k, i - 1)>>)
  <1>1. PICK x \in SUBSET Bits : x = ShrBits(d, k, i - 1)
    BY DEF ShrBits
  <1>2. PICK c \in BOOLEAN : c = OutRight(d, k, i - 1)
    BY OutTyped
  <1>3. d \in SUBSET Nat /\ x \in SUBSET Nat /\ Msb = width - 1 /\ Msb \in Nat
    BY DEF Bits, Msb
  <1>4. \A b \in Nat : b \in Bits <=> b < width
    BY DEF Bits
  <1>5. ASSUME NEW b \in Nat
        PROVE  b \in ShrBits(d, k, i) <=> b + 1 \in x
    BY <1>1, <1>2, <1>3, <1>4 DEF ShrBits, OutRight, Bits
  <1>6. OutRight(d, k, i) <=> 0 \in x
    BY <1>1, <1>3, <1>4 DEF ShrBits, OutRight, Bits
  <1>7. ShrBits(d, k, i) = Down(x, 1)
    <2>1. ShrBits(d, k, i) \in SUBSET Nat /\ (Down(x, 1)) \in SUBSET Nat
      BY <1>3, OneTyped DEF ShrBits, Bits, When
    <2>2. \A b \in Nat : b \in ShrBits(d, k, i) <=> b \in Down(x, 1)
      BY <1>3, <1>5, OneMembers DEF When
    <2> QED
      BY <2>1, <2>2, SameBits
  <1>8. ShrOnce(<<x, c>>) = <<Down(x, 1), 0 \in x>>
    BY DEF ShrOnce
  <1>9. OutRight(d, k, i) = (0 \in x)
    BY <1>6 DEF OutRight
  <1> QED
    BY <1>1, <1>2, <1>7, <1>8, <1>9, Zenon

LEMMA SarStep ==
    ASSUME width \in Nat, width >= 2, NEW d \in SUBSET Bits, NEW k \in BOOLEAN,
           NEW i \in 1 .. width - 1
    PROVE  <<SarBits(d, k, i), OutRight(d, k, i)>>
              = SarOnce(<<SarBits(d, k, i - 1), OutRight(d, k, i - 1)>>)
  <1>1. PICK x \in SUBSET Bits : x = SarBits(d, k, i - 1)
    BY DEF SarBits
  <1>2. PICK c \in BOOLEAN : c = OutRight(d, k, i - 1)
    BY OutTyped
  <1>3. d \in SUBSET Nat /\ x \in SUBSET Nat /\ Msb = width - 1 /\ Msb \in Nat
    BY DEF Bits, Msb
  <1>4. \A b \in Nat : b \in Bits <=> b < width
    BY DEF Bits
  <1>5. ASSUME NEW b \in Nat
        PROVE  b \in SarBits(d, k, i) <=> (b + 1 \in x) \/ (Msb \in x /\ b = Msb)
    BY <1>1, <1>2, <1>3, <1>4 DEF SarBits, OutRight, Bits
  <1>6. OutRight(d, k, i) <=> 0 \in x
    BY <1>1, <1>3, <1>4 DEF SarBits, OutRight, Bits
  <1>7. SarBits(d, k, i) = Down(x, 1) \cup When(Msb \in x, Msb)
    <2>1. SarBits(d, k, i) \in SUBSET Nat /\ (Down(x, 1) \cup When(Msb \in x, Msb)) \in SUBSET Nat
      BY <1>3, OneTyped DEF SarBits, Bits, When
    <2>2. \A b \in Nat : b \in SarBits(d, k, i) <=> b \in Down(x, 1) \cup When(Msb \in x, Msb)
      BY <1>3, <1>5, OneMembers DEF When
    <2> QED
      BY <2>1, <2>2, SameBits
  <1>8. SarOnce(<<x, c>>) = <<Down(x, 1) \cup When(Msb \in x, Msb), 0 \in x>>
    BY DEF SarOnce
  <1>9. OutRight(d, k, i) = (0 \in x)
    BY <1>6 DEF OutRight
  <1> QED
    BY <1>1, <1>2, <1>7, <1>8, <1>9, Zenon

LEMMA RolRuns ==
    ASSUME width \in Nat, width >= 2, NEW d \in SUBSET Bits, NEW k \in BOOLEAN,
           NEW n \in 0 .. width - 1
    PROVE  RolSteps(n, <<d, k>>) = <<RolBits(d, k, n), OutLeft(d, k, n)>>
  <1> DEFINE at(i) == <<RolBits(d, k, i), OutLeft(d, k, i)>>
             X == {at(i) : i \in 0 .. n}
             c == [i \in 0 .. n |-> at(i)]
  <1>1. \A i \in 1 .. n : at(i) = RolOnce(at(i - 1))
    BY RolStep
  <1>2. at(0) = <<d, k>>
    <2>1. RolBits(d, k, 0) = d
      <3>1. /\ d \in SUBSET Nat /\ RolBits(d, k, 0) \in SUBSET Nat
            /\ \A b \in d : b \in Bits /\ b < width
        BY DEF RolBits, Bits
      <3>2. ASSUME NEW b \in Nat
            PROVE  b \in RolBits(d, k, 0) <=> b \in d
        <4>1. b >= 0 /\ b - 0 = b /\ b + 0 = b /\ (b \in Bits <=> b < width)
          BY DEF Bits
        <4> QED
          BY <3>1, <4>1 DEF RolBits
      <3> QED
        BY <3>1, <3>2, SameBits
    <2>2. OutLeft(d, k, 0) = k
      BY Zenon DEF OutLeft
    <2> QED
      BY <2>1, <2>2, Zenon
  <1> HIDE DEF at
  <1>3. c \in [0 .. n -> X]
    OBVIOUS
  <1>4. c[0] = <<d, k>> /\ c[n] = at(n)
    BY <1>2
  <1>5. \A i \in 1 .. n : c[i] = RolOnce(c[i - 1])
    <2>1. \A i \in 1 .. n : c[i] = at(i) /\ c[i - 1] = at(i - 1)
      OBVIOUS
    <2> HIDE DEF c
    <2> QED
      BY <1>1, <2>1
  <1> HIDE DEF c, X
  <1>6. RolSteps(n, <<d, k>>) = c[n]
    <2>1. PICK v : v = <<d, k>>
      OBVIOUS
    <2>2. c[0] = v
      BY <1>4, <2>1, Zenon
    <2>n. n \in Nat
      OBVIOUS
    <2>3. RolSteps(n, v) = c[n]
      BY <1>3, <1>5, <2>2, <2>n, RolTimes
    <2> QED
      BY <2>1, <2>3, Zenon
  <1> QED
    BY <1>4, <1>6 DEF at

LEMMA RorRuns ==
    ASSUME width \in Nat, width >= 2, NEW d \in SUBSET Bits, NEW k \in BOOLEAN,
           NEW n \in 0 .. width - 1
    PROVE  RorSteps(n, <<d, k>>) = <<RorBits(d, k, n), OutRight(d, k, n)>>
  <1> DEFINE at(i) == <<RorBits(d, k, i), OutRight(d, k, i)>>
             X == {at(i) : i \in 0 .. n}
             c == [i \in 0 .. n |-> at(i)]
  <1>1. \A i \in 1 .. n : at(i) = RorOnce(at(i - 1))
    BY RorStep
  <1>2. at(0) = <<d, k>>
    <2>1. RorBits(d, k, 0) = d
      <3>1. /\ d \in SUBSET Nat /\ RorBits(d, k, 0) \in SUBSET Nat
            /\ \A b \in d : b \in Bits /\ b < width
        BY DEF RorBits, Bits
      <3>2. ASSUME NEW b \in Nat
            PROVE  b \in RorBits(d, k, 0) <=> b \in d
        <4>1. b >= 0 /\ b - 0 = b /\ b + 0 = b /\ (b \in Bits <=> b < width)
          BY DEF Bits
        <4> QED
          BY <3>1, <4>1 DEF RorBits
      <3> QED
        BY <3>1, <3>2, SameBits
    <2>2. OutRight(d, k, 0) = k
      BY Zenon DEF OutRight
    <2> QED
      BY <2>1, <2>2, Zenon
  <1> HIDE DEF at
  <1>3. c \in [0 .. n -> X]
    OBVIOUS
  <1>4. c[0] = <<d, k>> /\ c[n] = at(n)
    BY <1>2
  <1>5. \A i \in 1 .. n : c[i] = RorOnce(c[i - 1])
    <2>1. \A i \in 1 .. n : c[i] = at(i) /\ c[i - 1] = at(i - 1)
      OBVIOUS
    <2> HIDE DEF c
    <2> QED
      BY <1>1, <2>1
  <1> HIDE DEF c, X
  <1>6. RorSteps(n, <<d, k>>) = c[n]
    <2>1. PICK v : v = <<d, k>>
      OBVIOUS
    <2>2. c[0] = v
      BY <1>4, <2>1, Zenon
    <2>n. n \in Nat
      OBVIOUS
    <2>3. RorSteps(n, v) = c[n]
      BY <1>3, <1>5, <2>2, <2>n, RorTimes
    <2> QED
      BY <2>1, <2>3, Zenon
  <1> QED
    BY <1>4, <1>6 DEF at

LEMMA RclRuns ==
    ASSUME width \in Nat, width >= 2, NEW d \in SUBSET Bits, NEW k \in BOOLEAN,
           NEW n \in 0 .. width - 1
    PROVE  RclSteps(n, <<d, k>>) = <<RclBits(d, k, n), OutLeft(d, k, n)>>
  <1> DEFINE at(i) == <<RclBits(d, k, i), OutLeft(d, k, i)>>
             X == {at(i) : i \in 0 .. n}
             c == [i \in 0 .. n |-> at(i)]
  <1>1. \A i \in 1 .. n : at(i) = RclOnce(at(i - 1))
    BY RclStep
  <1>2. at(0) = <<d, k>>
    <2>1. RclBits(d, k, 0) = d
      <3>1. /\ d \in SUBSET Nat /\ RclBits(d, k, 0) \in SUBSET Nat
            /\ \A b \in d : b \in Bits /\ b < width
        BY DEF RclBits, Bits
      <3>2. ASSUME NEW b \in Nat
            PROVE  b \in RclBits(d, k, 0) <=> b \in d
        <4>1. b >= 0 /\ b - 0 = b /\ b + 0 = b /\ (b \in Bits <=> b < width)
          BY DEF Bits
        <4> QED
          BY <3>1, <4>1 DEF RclBits
      <3> QED
        BY <3>1, <3>2, SameBits
    <2>2. OutLeft(d, k, 0) = k
      BY Zenon DEF OutLeft
    <2> QED
      BY <2>1, <2>2, Zenon
  <1> HIDE DEF at
  <1>3. c \in [0 .. n -> X]
    OBVIOUS
  <1>4. c[0] = <<d, k>> /\ c[n] = at(n)
    BY <1>2
  <1>5. \A i \in 1 .. n : c[i] = RclOnce(c[i - 1])
    <2>1. \A i \in 1 .. n : c[i] = at(i) /\ c[i - 1] = at(i - 1)
      OBVIOUS
    <2> HIDE DEF c
    <2> QED
      BY <1>1, <2>1
  <1> HIDE DEF c, X
  <1>6. RclSteps(n, <<d, k>>) = c[n]
    <2>1. PICK v : v = <<d, k>>
      OBVIOUS
    <2>2. c[0] = v
      BY <1>4, <2>1, Zenon
    <2>n. n \in Nat
      OBVIOUS
    <2>3. RclSteps(n, v) = c[n]
      BY <1>3, <1>5, <2>2, <2>n, RclTimes
    <2> QED
      BY <2>1, <2>3, Zenon
  <1> QED
    BY <1>4, <1>6 DEF at

LEMMA RcrRuns ==
    ASSUME width \in Nat, width >= 2, NEW d \in SUBSET Bits, NEW k \in BOOLEAN,
           NEW n \in 0 .. width - 1
    PROVE  RcrSteps(n, <<d, k>>) = <<RcrBits(d, k, n), OutRight(d, k, n)>>
  <1> DEFINE at(i) == <<RcrBits(d, k, i), OutRight(d, k, i)>>
             X == {at(i) : i \in 0 .. n}
             c == [i \in 0 .. n |-> at(i)]
  <1>1. \A i \in 1 .. n : at(i) = RcrOnce(at(i - 1))
    BY RcrStep
  <1>2. at(0) = <<d, k>>
    <2>1. RcrBits(d, k, 0) = d
      <3>1. /\ d \in SUBSET Nat /\ RcrBits(d, k, 0) \in SUBSET Nat
            /\ \A b \in d : b \in Bits /\ b < width
        BY DEF RcrBits, Bits
      <3>2. ASSUME NEW b \in Nat
            PROVE  b \in RcrBits(d, k, 0) <=> b \in d
        <4>1. b >= 0 /\ b - 0 = b /\ b + 0 = b /\ (b \in Bits <=> b < width)
          BY DEF Bits
        <4> QED
          BY <3>1, <4>1 DEF RcrBits
      <3> QED
        BY <3>1, <3>2, SameBits
    <2>2. OutRight(d, k, 0) = k
      BY Zenon DEF OutRight
    <2> QED
      BY <2>1, <2>2, Zenon
  <1> HIDE DEF at
  <1>3. c \in [0 .. n -> X]
    OBVIOUS
  <1>4. c[0] = <<d, k>> /\ c[n] = at(n)
    BY <1>2
  <1>5. \A i \in 1 .. n : c[i] = RcrOnce(c[i - 1])
    <2>1. \A i \in 1 .. n : c[i] = at(i) /\ c[i - 1] = at(i - 1)
      OBVIOUS
    <2> HIDE DEF c
    <2> QED
      BY <1>1, <2>1
  <1> HIDE DEF c, X
  <1>6. RcrSteps(n, <<d, k>>) = c[n]
    <2>1. PICK v : v = <<d, k>>
      OBVIOUS
    <2>2. c[0] = v
      BY <1>4, <2>1, Zenon
    <2>n. n \in Nat
      OBVIOUS
    <2>3. RcrSteps(n, v) = c[n]
      BY <1>3, <1>5, <2>2, <2>n, RcrTimes
    <2> QED
      BY <2>1, <2>3, Zenon
  <1> QED
    BY <1>4, <1>6 DEF at

LEMMA ShlRuns ==
    ASSUME width \in Nat, width >= 2, NEW d \in SUBSET Bits, NEW k \in BOOLEAN,
           NEW n \in 0 .. width - 1
    PROVE  ShlSteps(n, <<d, k>>) = <<ShlBits(d, k, n), OutLeft(d, k, n)>>
  <1> DEFINE at(i) == <<ShlBits(d, k, i), OutLeft(d, k, i)>>
             X == {at(i) : i \in 0 .. n}
             c == [i \in 0 .. n |-> at(i)]
  <1>1. \A i \in 1 .. n : at(i) = ShlOnce(at(i - 1))
    BY ShlStep
  <1>2. at(0) = <<d, k>>
    <2>1. ShlBits(d, k, 0) = d
      <3>1. /\ d \in SUBSET Nat /\ ShlBits(d, k, 0) \in SUBSET Nat
            /\ \A b \in d : b \in Bits /\ b < width
        BY DEF ShlBits, Bits
      <3>2. ASSUME NEW b \in Nat
            PROVE  b \in ShlBits(d, k, 0) <=> b \in d
        <4>1. b >= 0 /\ b - 0 = b /\ b + 0 = b /\ (b \in Bits <=> b < width)
          BY DEF Bits
        <4> QED
          BY <3>1, <4>1 DEF ShlBits
      <3> QED
        BY <3>1, <3>2, SameBits
    <2>2. OutLeft(d, k, 0) = k
      BY Zenon DEF OutLeft
    <2> QED
      BY <2>1, <2>2, Zenon
  <1> HIDE DEF at
  <1>3. c \in [0 .. n -> X]
    OBVIOUS
  <1>4. c[0] = <<d, k>> /\ c[n] = at(n)
    BY <1>2
  <1>5. \A i \in 1 .. n : c[i] = ShlOnce(c[i - 1])
    <2>1. \A i \in 1 .. n : c[i] = at(i) /\ c[i - 1] = at(i - 1)
      OBVIOUS
    <2> HIDE DEF c
    <2> QED
      BY <1>1, <2>1
  <1> HIDE DEF c, X
  <1>6. ShlSteps(n, <<d, k>>) = c[n]
    <2>1. PICK v : v = <<d, k>>
      OBVIOUS
    <2>2. c[0] = v
      BY <1>4, <2>1, Zenon
    <2>n. n \in Nat
      OBVIOUS
    <2>3. ShlSteps(n, v) = c[n]
      BY <1>3, <1>5, <2>2, <2>n, ShlTimes
    <2> QED
      BY <2>1, <2>3, Zenon
  <1> QED
    BY <1>4, <1>6 DEF at

LEMMA ShrRuns ==
    ASSUME width \in Nat, width >= 2, NEW d \in SUBSET Bits, NEW k \in BOOLEAN,
           NEW n \in 0 .. width - 1
    PROVE  ShrSteps(n, <<d, k>>) = <<ShrBits(d, k, n), OutRight(d, k, n)>>
  <1> DEFINE at(i) == <<ShrBits(d, k, i), OutRight(d, k, i)>>
             X == {at(i) : i \in 0 .. n}
             c == [i \in 0 .. n |-> at(i)]
  <1>1. \A i \in 1 .. n : at(i) = ShrOnce(at(i - 1))
    BY ShrStep
  <1>2. at(0) = <<d, k>>
    <2>1. ShrBits(d, k, 0) = d
      <3>1. /\ d \in SUBSET Nat /\ ShrBits(d, k, 0) \in SUBSET Nat
            /\ \A b \in d : b \in Bits /\ b < width
        BY DEF ShrBits, Bits
      <3>2. ASSUME NEW b \in Nat
            PROVE  b \in ShrBits(d, k, 0) <=> b \in d
        <4>1. b >= 0 /\ b - 0 = b /\ b + 0 = b /\ (b \in Bits <=> b < width)
          BY DEF Bits
        <4> QED
          BY <3>1, <4>1 DEF ShrBits
      <3> QED
        BY <3>1, <3>2, SameBits
    <2>2. OutRight(d, k, 0) = k
      BY Zenon DEF OutRight
    <2> QED
      BY <2>1, <2>2, Zenon
  <1> HIDE DEF at
  <1>3. c \in [0 .. n -> X]
    OBVIOUS
  <1>4. c[0] = <<d, k>> /\ c[n] = at(n)
    BY <1>2
  <1>5. \A i \in 1 .. n : c[i] = ShrOnce(c[i - 1])
    <2>1. \A i \in 1 .. n : c[i] = at(i) /\ c[i - 1] = at(i - 1)
      OBVIOUS
    <2> HIDE DEF c
    <2> QED
      BY <1>1, <2>1
  <1> HIDE DEF c, X
  <1>6. ShrSteps(n, <<d, k>>) = c[n]
    <2>1. PICK v : v = <<d, k>>
      OBVIOUS
    <2>2. c[0] = v
      BY <1>4, <2>1, Zenon
    <2>n. n \in Nat
      OBVIOUS
    <2>3. ShrSteps(n, v) = c[n]
      BY <1>3, <1>5, <2>2, <2>n, ShrTimes
    <2> QED
      BY <2>1, <2>3, Zenon
  <1> QED
    BY <1>4, <1>6 DEF at

LEMMA SarRuns ==
    ASSUME width \in Nat, width >= 2, NEW d \in SUBSET Bits, NEW k \in BOOLEAN,
           NEW n \in 0 .. width - 1
    PROVE  SarSteps(n, <<d, k>>) = <<SarBits(d, k, n), OutRight(d, k, n)>>
  <1> DEFINE at(i) == <<SarBits(d, k, i), OutRight(d, k, i)>>
             X == {at(i) : i \in 0 .. n}
             c == [i \in 0 .. n |-> at(i)]
  <1>1. \A i \in 1 .. n : at(i) = SarOnce(at(i - 1))
    BY SarStep
  <1>2. at(0) = <<d, k>>
    <2>1. SarBits(d, k, 0) = d
      <3>1. /\ d \in SUBSET Nat /\ SarBits(d, k, 0) \in SUBSET Nat
            /\ \A b \in d : b \in Bits /\ b < width
        BY DEF SarBits, Bits
      <3>2. ASSUME NEW b \in Nat
            PROVE  b \in SarBits(d, k, 0) <=> b \in d
        <4>1. b >= 0 /\ b - 0 = b /\ b + 0 = b /\ (b \in Bits <=> b < width)
          BY DEF Bits
        <4> QED
          BY <3>1, <4>1 DEF SarBits
      <3> QED
        BY <3>1, <3>2, SameBits
    <2>2. OutRight(d, k, 0) = k
      BY Zenon DEF OutRight
    <2> QED
      BY <2>1, <2>2, Zenon
  <1> HIDE DEF at
  <1>3. c \in [0 .. n -> X]
    OBVIOUS
  <1>4. c[0] = <<d, k>> /\ c[n] = at(n)
    BY <1>2
  <1>5. \A i \in 1 .. n : c[i] = SarOnce(c[i - 1])
    <2>1. \A i \in 1 .. n : c[i] = at(i) /\ c[i - 1] = at(i - 1)
      OBVIOUS
    <2> HIDE DEF c
    <2> QED
      BY <1>1, <2>1
  <1> HIDE DEF c, X
  <1>6. SarSteps(n, <<d, k>>) = c[n]
    <2>1. PICK v : v = <<d, k>>
      OBVIOUS
    <2>2. c[0] = v
      BY <1>4, <2>1, Zenon
    <2>n. n \in Nat
      OBVIOUS
    <2>3. SarSteps(n, v) = c[n]
      BY <1>3, <1>5, <2>2, <2>n, SarTimes
    <2> QED
      BY <2>1, <2>3, Zenon
  <1> QED
    BY <1>4, <1>6 DEF at

-----------------------------------------------------------------------------
(* What the instructions do, in the same terms.                            *)

LEMMA QuotientAndRest ==
    ASSUME NEW a \in Nat, NEW w \in Nat, w > 0
    PROVE  /\ a = w * (a \div w) + (a % w)
           /\ a \div w \in Nat
           /\ a % w \in 0 .. w - 1
  <1>1. a = w * (a \div w) + (a % w)
    OBVIOUS
  <1>2. a % w \in 0 .. w - 1
    OBVIOUS
  <1>3. a \div w \in Int /\ a \div w >= 0
    OBVIOUS
  <1> QED
    BY <1>1, <1>2, <1>3

LEMMA OneRest ==
    ASSUME NEW w \in Nat, w > 0, NEW k \in Nat, NEW j \in Nat,
           NEW r \in 0 .. w - 1, NEW t \in 0 .. w - 1, w * k + r = w * j + t
    PROVE  r = t
  <1>1. ASSUME NEW x \in Nat, NEW y \in Nat, x > y
        PROVE  w * x >= w * y + w /\ w * x \in Nat /\ w * y \in Nat
    <2>1. PICK e \in Nat : x = y + 1 + e
      <3>1. x - y - 1 \in Nat /\ x = y + 1 + (x - y - 1)
        BY <1>1
      <3> QED
        BY <3>1
    <2>2. w * x = w * y + w + w * e /\ w * e \in Nat /\ w * y \in Nat
      BY <2>1
    <2> QED
      BY <2>2
  <1>2. CASE k = j
    <2>1. w * k = w * j /\ w * k \in Nat
      BY <1>2
    <2> QED
      BY <2>1
  <1>3. CASE k > j
    <2>1. w * k >= w * j + w /\ w * k \in Nat /\ w * j \in Nat
      BY <1>1, <1>3
    <2> QED
      BY <2>1
  <1>4. CASE j > k
    <2>1. w * j >= w * k + w /\ w * k \in Nat /\ w * j \in Nat
      BY <1>1, <1>4
    <2> QED
      BY <2>1
  <1> QED
    BY <1>2, <1>3, <1>4

\* Where the architecture counts less than the width, the code counts the same.
LEMMA CountAgrees ==
    ASSUME width \in Widths, NEW count \in Counts, ArchCount(count) < width
    PROVE  ArchCount(count) = Shift(count)
  <1>1. width \in Nat /\ width >= 2 /\ IntWidth \in Nat /\ IntWidth >= 2 /\ count \in Nat
    BY WidthFacts, CountsAssumption
  <1>2. CASE width > IntWidth
    BY <1>2 DEF ArchCount, Shift
  <1>3. CASE ~(width > IntWidth)
    <2>1. PICK s \in 0 .. width - 1 : s = count % IntWidth /\ s = ArchCount(count)
      BY <1>1, <1>3 DEF ArchCount
    <2>2. PICK q \in Nat : count = IntWidth * q + s
      <3>1. /\ count = IntWidth * (count \div IntWidth) + (count % IntWidth)
            /\ count \div IntWidth \in Nat
        BY <1>1, QuotientAndRest
      <3> QED
        BY <2>1, <3>1
    <2>3. PICK m \in Nat : IntWidth = width * m
      <3>1. IntWidth % width = 0
        BY <1>1, <1>3, WidthsAssumption
      <3>2. IntWidth = width * (IntWidth \div width) + (IntWidth % width)
            /\ IntWidth \div width \in Nat
        BY <1>1, QuotientAndRest
      <3>3. IntWidth = width * (IntWidth \div width)
        BY <1>1, <3>1, <3>2
      <3> QED
        BY <3>2, <3>3
    <2>4. PICK t \in Nat : t = m * q
      BY <2>2, <2>3
    <2>5. IntWidth * q = width * t
      BY <1>1, <2>3, <2>4
    <2>6. count % width = s
      <3>1. /\ count = width * (count \div width) + (count % width)
            /\ count \div width \in Nat /\ count % width \in 0 .. width - 1
        BY <1>1, QuotientAndRest
      <3>2. PICK j \in Nat, r \in 0 .. width - 1 : count = width * j + r /\ r = count % width
        BY <3>1
      <3>3. width * t + s = width * j + r
        BY <2>2, <2>5, <3>2
      <3>4. width > 0
        BY <1>1
      <3> QED
        BY <1>1, <3>2, <3>3, <3>4, OneRest
    <2> QED
      BY <2>1, <2>6 DEF Shift
  <1> QED
    BY <1>2, <1>3

\* What the flag macros leave in CF and in the flags of the result.
LEMMA ShiftFlagsGive ==
    ASSUME NEW fl, NEW s, NEW out \in BOOLEAN, NEW of \in BOOLEAN
    PROVE  /\ CF \in ShiftFlags(fl, s, out, of) <=> out
           /\ \A f \in {SF, ZF, PF} : f \in ShiftFlags(fl, s, out, of) <=> f \in fl
  BY BitsDiffer DEF ShiftFlags, When

LEMMA RotateFlagsGive ==
    ASSUME NEW fl, NEW s, NEW tdest, NEW res
    PROVE  /\ s # 0 => (CF \in RolFlags(fl, s, tdest, res) <=> width - s \in tdest)
           /\ s # 0 => (CF \in RorFlags(fl, s, tdest, res) <=> s - 1 \in tdest)
           /\ \A f \in {SF, ZF, PF} : f \in RolFlags(fl, s, tdest, res) <=> f \in fl
           /\ \A f \in {SF, ZF, PF} : f \in RorFlags(fl, s, tdest, res) <=> f \in fl
           /\ s = 0 => RolFlags(fl, s, tdest, res) = fl /\ RorFlags(fl, s, tdest, res) = fl
  <1>1. CASE s = 0
    BY <1>1 DEF RolFlags, RorFlags
  <1>2. CASE s # 0
    <2>1. PICK a \in BOOLEAN : a = (width - s \in tdest)
      <3>1. (width - s \in tdest) \in BOOLEAN
        OBVIOUS
      <3> QED
        BY <3>1, Zenon
    <2>2. PICK b \in BOOLEAN : b = ((width - s \in tdest) # (Msb \in res))
      OBVIOUS
    <2>3. PICK c \in BOOLEAN : c = (s - 1 \in tdest)
      <3>1. (s - 1 \in tdest) \in BOOLEAN
        OBVIOUS
      <3> QED
        BY <3>1, Zenon
    <2>4. PICK e \in BOOLEAN : e = ((Msb - 1 \in res) # (Msb \in res))
      OBVIOUS
    <2>5. RolFlags(fl, s, tdest, res) = ShiftFlags(fl, s, a, b)
      BY <1>2, <2>1, <2>2, Zenon DEF RolFlags
    <2>6. RorFlags(fl, s, tdest, res) = ShiftFlags(fl, s, c, e)
      BY <1>2, <2>3, <2>4, Zenon DEF RorFlags
    <2>7. /\ CF \in ShiftFlags(fl, s, a, b) <=> a
          /\ CF \in ShiftFlags(fl, s, c, e) <=> c
          /\ \A f \in {SF, ZF, PF} : f \in ShiftFlags(fl, s, a, b) <=> f \in fl
          /\ \A f \in {SF, ZF, PF} : f \in ShiftFlags(fl, s, c, e) <=> f \in fl
      BY ShiftFlagsGive
    <2> QED
      BY <1>2, <2>1, <2>3, <2>5, <2>6, <2>7, Zenon
  <1> QED
    BY <1>1, <1>2

ResultIn(after, res) ==
    /\ SF \in after <=> Msb \in res
    /\ ZF \in after <=> res = {}
    /\ PF \in after <=> Cardinality(res \cap 0 .. 7) % 2 = 0

LEMMA ShiftResultFlagsGive ==
    ASSUME NEW fl, NEW s, NEW tdest, NEW res
    PROVE  /\ s # 0 => (CF \in ShlFlags(fl, s, tdest, res) <=> width - s \in tdest)
           /\ s # 0 => (CF \in ShrFlags(fl, s, tdest, res) <=> s - 1 \in tdest)
           /\ s = 0 => ShlFlags(fl, s, tdest, res) = fl /\ ShrFlags(fl, s, tdest, res) = fl
           /\ s # 0 => ResultIn(ShlFlags(fl, s, tdest, res), res)
           /\ s # 0 => ResultIn(ShrFlags(fl, s, tdest, res), res)
  <1>1. CASE s = 0
    BY <1>1 DEF ShlFlags, ShrFlags
  <1>2. CASE s # 0
    <2>1. PICK mid : mid = SetResultFlags(fl, res)
      OBVIOUS
    <2>2. PICK even \in BOOLEAN : even = (Cardinality(res \cap 0 .. 7) % 2 = 0)
      OBVIOUS
    <2>3. /\ SF \in mid <=> Msb \in res
          /\ ZF \in mid <=> res = {}
          /\ PF \in mid <=> even
      <3>1. mid = ((fl \ {SF, ZF, PF}) \cup When(Msb \in res, SF) \cup When(res = {}, ZF))
                     \cup When(even, PF)
        BY <2>1, <2>2, Zenon DEF SetResultFlags
      <3> QED
        BY <3>1, BitsDiffer DEF When
    <2>4. /\ ShlFlags(fl, s, tdest, res) = RolFlags(mid, s, tdest, res)
          /\ ShrFlags(fl, s, tdest, res) = RorFlags(mid, s, tdest, res)
      BY <1>2, <2>1 DEF ShlFlags, ShrFlags
    <2>5. /\ CF \in RolFlags(mid, s, tdest, res) <=> width - s \in tdest
          /\ CF \in RorFlags(mid, s, tdest, res) <=> s - 1 \in tdest
          /\ \A f \in {SF, ZF, PF} : f \in RolFlags(mid, s, tdest, res) <=> f \in mid
          /\ \A f \in {SF, ZF, PF} : f \in RorFlags(mid, s, tdest, res) <=> f \in mid
      BY <1>2, RotateFlagsGive
    <2>6. ASSUME NEW after, \A f \in {SF, ZF, PF} : f \in after <=> f \in mid
          PROVE  ResultIn(after, res)
      BY <2>2, <2>3, <2>6, Zenon DEF ResultIn
    <2> QED
      BY <1>2, <2>4, <2>5, <2>6, Zenon
  <1> QED
    BY <1>1, <1>2

\* The positions a C shift leaves, where the count is less than the width
\* the shift is computed in.
LEMMA DefinedShifts ==
    ASSUME NEW x, NEW n, n < PromotedWidth
    PROVE  LeftShifts(x, n) = {Up(x, n)} /\ RightShifts(x, n) = {Down(x, n)}
  BY DEF LeftShifts, RightShifts

\* Where the width of the operand is the width a shift is computed in or less,
\* a shift by it moves every bit out or, modulo the width, none.
LEMMA WholeShifts ==
    ASSUME width \in Widths, NEW x \in SUBSET Bits
    PROVE  /\ \A y \in RightShifts(x, width) : y = {} \/ y = x
           /\ \A y \in LeftShifts(x, width) : Store(y) = {} \/ y = x
  <1>1. /\ width \in Nat /\ width >= 2 /\ PromotedWidth \in Nat /\ PromotedWidth >= width
        /\ x \in SUBSET Nat
    BY WidthFacts DEF Bits
  <1>2. \A b \in Nat : b \in Bits <=> b < width
    BY <1>1 DEF Bits
  <1>3. Down(x, width) = {} /\ Store(Up(x, width)) = {}
    <2>1. Down(x, width) \in SUBSET Nat /\ Store(Up(x, width)) \in SUBSET Nat
      BY <1>1 DEF Store, Bits, Down
    <2>2. ASSUME NEW b \in Nat
          PROVE  b \notin Down(x, width) /\ b \notin Store(Up(x, width))
      <3>1. b + width \notin x /\ ~(b < width /\ b >= width)
        BY <1>1, <1>2
      <3> QED
        BY <1>1, <1>2, <3>1, ShiftMembers DEF Store
    <2> QED
      BY <2>1, <2>2
  <1>4. Down(x, 0) = x /\ Up(x, 0) = x
    <2>1. \A b \in x : b + 0 = b /\ b - 0 = b /\ b >= 0
      BY <1>1
    <2> QED
      BY <2>1 DEF Down, Up
  <1>5. CASE width < PromotedWidth
    BY <1>3, <1>5, DefinedShifts
  <1>6. CASE ~(width < PromotedWidth)
    <2>1. width % PromotedWidth = 0
      BY <1>1, <1>6
    <2>2. /\ RightShifts(x, width) = {Down(x, 0), {}}
          /\ LeftShifts(x, width) = {Up(x, 0), {}}
      BY <1>6, <2>1 DEF RightShifts, LeftShifts
    <2>3. Store({}) = {}
      BY DEF Store
    <2> QED
      BY <1>4, <2>2, <2>3
  <1> QED
    BY <1>5, <1>6

LEMMA RolActs ==
    ASSUME TypeOK, NEW count \in Counts, Rol(count), NEW k
    PROVE  dest' = RolBits(dest, k, Shift(count))
  <1>1. PICK s \in 0 .. width - 1 : s = Shift(count)
    BY WidthFacts DEF TypeOK
  <1>2. /\ width \in Nat /\ width >= 2 /\ PromotedWidth \in Nat /\ PromotedWidth >= width
        /\ dest \in SUBSET Bits /\ dest \in SUBSET Nat /\ width \in Widths
    BY WidthFacts DEF TypeOK, Bits
  <1>3. \A b \in Nat : b \in Bits <=> b < width
    BY <1>2 DEF Bits
  <1>4. PICK low \in RightShifts(dest, width - s), high \in LeftShifts(dest, s) :
           dest' = Store(high \cup low)
    BY <1>1 DEF Rol
  <1>5. high = Up(dest, s)
    BY <1>2, <1>4, DefinedShifts
  <1>6. low = Down(dest, width - s) \/ (s = 0 /\ (low = {} \/ low = dest))
    <2>1. CASE s = 0
      <3>1. width - s = width
        BY <1>2, <2>1
      <3> QED
        BY <1>2, <1>4, <2>1, <3>1, WholeShifts
    <2>2. CASE s # 0
      <3>1. width - s < PromotedWidth
        BY <1>2, <2>2
      <3> QED
        BY <1>4, <3>1, DefinedShifts
    <2> QED
      BY <2>1, <2>2
  <1>7. ASSUME NEW b \in Nat
        PROVE  b \in dest' <=> b \in RolBits(dest, k, s)
    <2>1. b \in Up(dest, s) <=> b >= s /\ b - s \in dest
      BY <1>2, ShiftMembers
    <2>2. b \in Down(dest, width - s) <=> b + (width - s) \in dest
      <3>1. width - s \in Nat
        BY <1>2
      <3> QED
        BY <1>2, <3>1, ShiftMembers
    <2>3. b + (width - s) = b + width - s /\ (s = 0 => b - s = b /\ b >= s)
      BY <1>2
    <2>4. b < width /\ b >= s => b + width - s \notin dest
      BY <1>2, <1>3
    <2>5. b \in RolBits(dest, k, s)
             <=> b < width /\ (IF b >= s THEN b - s \in dest ELSE b + width - s \in dest)
      BY <1>3 DEF RolBits
    <2>6. b \in dest' <=> b < width /\ (b \in high \/ b \in low)
      BY <1>3, <1>4 DEF Store
    <2> QED
      BY <1>2, <1>5, <1>6, <2>1, <2>2, <2>3, <2>4, <2>5, <2>6
  <1>8. dest' \in SUBSET Nat /\ RolBits(dest, k, s) \in SUBSET Nat
    BY <1>4 DEF Store, RolBits, Bits
  <1> QED
    BY <1>1, <1>7, <1>8, SameBits

LEMMA RorActs ==
    ASSUME TypeOK, NEW count \in Counts, Ror(count), NEW k
    PROVE  dest' = RorBits(dest, k, Shift(count))
  <1>1. PICK s \in 0 .. width - 1 : s = Shift(count)
    BY WidthFacts DEF TypeOK
  <1>2. /\ width \in Nat /\ width >= 2 /\ PromotedWidth \in Nat /\ PromotedWidth >= width
        /\ dest \in SUBSET Bits /\ dest \in SUBSET Nat /\ width \in Widths
    BY WidthFacts DEF TypeOK, Bits
  <1>3. \A b \in Nat : b \in Bits <=> b < width
    BY <1>2 DEF Bits
  <1>4. PICK low \in RightShifts(dest, s), high \in LeftShifts(dest, width - s) :
           dest' = Store(high \cup low)
    BY <1>1 DEF Ror
  <1>5. low = Down(dest, s)
    BY <1>2, <1>4, DefinedShifts
  <1>6. high = Up(dest, width - s) \/ (s = 0 /\ (Store(high) = {} \/ high = dest))
    <2>1. CASE s = 0
      <3>1. width - s = width
        BY <1>2, <2>1
      <3> QED
        BY <1>2, <1>4, <2>1, <3>1, WholeShifts
    <2>2. CASE s # 0
      <3>1. width - s < PromotedWidth
        BY <1>2, <2>2
      <3> QED
        BY <1>4, <3>1, DefinedShifts
    <2> QED
      BY <2>1, <2>2
  <1>7. ASSUME NEW b \in Nat
        PROVE  b \in dest' <=> b \in RorBits(dest, k, s)
    <2>1. b \in Down(dest, s) <=> b + s \in dest
      BY <1>2, ShiftMembers
    <2>2. b \in Up(dest, width - s) <=> b >= width - s /\ b - (width - s) \in dest
      <3>1. width - s \in Nat
        BY <1>2
      <3> QED
        BY <1>2, <3>1, ShiftMembers
    <2>3. /\ b - (width - s) = b + s - width /\ (b >= width - s <=> ~(b + s < width))
          /\ s = 0 => b + s = b
      BY <1>2
    <2>4. ~(b + s < width) => b + s \notin dest
      BY <1>2, <1>3
    <2>5. b \in RorBits(dest, k, s)
             <=> b < width /\ (IF b + s < width THEN b + s \in dest ELSE b + s - width \in dest)
      BY <1>3 DEF RorBits
    <2>6. b \in dest' <=> b < width /\ (b \in high \/ b \in low)
      BY <1>3, <1>4 DEF Store
    <2>7. Store(high) = {} => ~(b < width /\ b \in high)
      BY <1>3 DEF Store
    <2> QED
      BY <1>2, <1>5, <1>6, <2>1, <2>2, <2>3, <2>4, <2>5, <2>6, <2>7
  <1>8. dest' \in SUBSET Nat /\ RorBits(dest, k, s) \in SUBSET Nat
    BY <1>4 DEF Store, RorBits, Bits
  <1> QED
    BY <1>1, <1>7, <1>8, SameBits

\* Where CarryPlaced says so, RCL and RCR shift by less than the widths their
\* terms are computed in, and the carry enters one place.
LEMMA CarryEnters ==
    ASSUME width \in Widths, NEW count \in Counts, NEW place \in 0 .. width,
           CarryPlaced(count, place), NEW carry \in CarryShifts(place),
           width < IntWidth \/ place < width
    PROVE  /\ width + 1 - Shift(count) < PromotedWidth
           /\ carry = When(CF \in flags, place)
  <1>1. PICK s \in 0 .. width - 1 : s = Shift(count)
    BY WidthFacts
  <1>2. /\ width \in Nat /\ width >= 2 /\ PromotedWidth \in Nat /\ PromotedWidth >= width
        /\ IntWidth \in Nat /\ IntWidth >= 2
    BY WidthFacts
  <1>3. CASE width < IntWidth
    <2>1. width + 1 < IntWidth
      <3>1. IntWidth % width = 0
        BY <1>3, WidthsAssumption
      <3>2. IntWidth # width + 1
        BY <1>2, <3>1
      <3> QED
        BY <1>2, <1>3, <3>2
    <2>2. PromotedWidth = IntWidth
      BY <1>3 DEF PromotedWidth
    <2>3. place < IntWidth /\ place # IntWidth - 1
      BY <1>2, <2>1
    <2>4. CarryShifts(place) = {When(CF \in flags, place)}
      BY <2>3 DEF CarryShifts, IntBit, When
    <2> QED
      BY <1>1, <1>2, <2>1, <2>2, <2>4
  <1>4. CASE ~(width < IntWidth)
    <2>1. s > 1 /\ (CF \notin flags \/ place < IntWidth - 1)
      BY <1>1, <1>4 DEF CarryPlaced
    <2>2. width + 1 - s < PromotedWidth
      BY <1>2, <2>1
    <2>3. CASE CF \notin flags
      BY <1>1, <2>2, <2>3 DEF CarryShifts, When
    <2>4. CASE CF \in flags
      <3>1. place < IntWidth /\ place # IntWidth - 1
        BY <1>2, <2>1, <2>4
      <3>2. CarryShifts(place) = {When(CF \in flags, place)}
        BY <2>4, <3>1 DEF CarryShifts, IntBit, When
      <3> QED
        BY <1>1, <2>2, <3>2
    <2> QED
      BY <2>3, <2>4
  <1> QED
    BY <1>3, <1>4

LEMMA RclActs ==
    ASSUME TypeOK, NEW count \in Counts, Rcl(count), CarryPlaced(count, Shift(count) - 1),
           NEW k \in BOOLEAN, k <=> CF \in flags
    PROVE  dest' = RclBits(dest, k, Shift(count))
  <1>1. PICK s \in 0 .. width - 1 : s = Shift(count)
    BY WidthFacts DEF TypeOK
  <1>2. /\ width \in Nat /\ width >= 2 /\ PromotedWidth \in Nat /\ PromotedWidth >= width
        /\ dest \in SUBSET Bits /\ dest \in SUBSET Nat /\ width \in Widths
    BY WidthFacts DEF TypeOK, Bits
  <1>3. \A b \in Nat : b \in Bits <=> b < width
    BY <1>2 DEF Bits
  <1>4. PICK low \in RightShifts(dest, width + 1 - s), high \in LeftShifts(dest, s),
             carry \in IF s = 0 THEN {{}} ELSE CarryShifts(s - 1) :
           dest' = Store(high \cup low \cup carry)
    BY <1>1 DEF Rcl
  <1>5. high = Up(dest, s)
    BY <1>2, <1>4, DefinedShifts
  <1>6. width + 1 - s < PromotedWidth /\ carry = (IF s = 0 THEN {} ELSE When(k, s - 1))
    <2>1. CASE s = 0
      <3>1. width < IntWidth
        BY <1>1, <2>1 DEF CarryPlaced
      <3>2. IntWidth % width = 0 /\ IntWidth \in Nat
        BY <1>2, <3>1, WidthsAssumption
      <3>3. width + 1 < IntWidth
        <4>1. IntWidth # width + 1
          BY <1>2, <3>2
        <4> QED
          BY <1>2, <3>1, <3>2, <4>1
      <3>4. PromotedWidth = IntWidth
        BY <3>1 DEF PromotedWidth
      <3> QED
        BY <1>2, <1>4, <2>1, <3>3, <3>4
    <2>2. CASE s # 0
      <3>1. s - 1 \in 0 .. width /\ s - 1 < width /\ carry \in CarryShifts(s - 1)
        BY <1>2, <1>4, <2>2
      <3>2. CarryPlaced(count, s - 1)
        BY <1>1
      <3>3. width + 1 - Shift(count) < PromotedWidth /\ carry = When(CF \in flags, s - 1)
        BY <1>2, <3>1, <3>2, CarryEnters
      <3> QED
        BY <1>1, <2>2, <3>3 DEF When
    <2> QED
      BY <2>1, <2>2
  <1>7. low = Down(dest, width + 1 - s)
    BY <1>4, <1>6, DefinedShifts
  <1>8. ASSUME NEW b \in Nat
        PROVE  b \in dest' <=> b \in RclBits(dest, k, s)
    <2>1. b \in Up(dest, s) <=> b >= s /\ b - s \in dest
      BY <1>2, ShiftMembers
    <2>2. b \in Down(dest, width + 1 - s) <=> b + (width + 1 - s) \in dest
      <3>1. width + 1 - s \in Nat
        BY <1>2
      <3> QED
        BY <1>2, <3>1, ShiftMembers
    <2>3. b + (width + 1 - s) = b + width + 1 - s
      BY <1>2
    <2>4. b >= s - 1 => b + width + 1 - s \notin dest
      BY <1>2, <1>3
    <2>5. b \in RclBits(dest, k, s)
             <=> b < width /\ (IF b >= s THEN b - s \in dest
                               ELSE IF b = s - 1 THEN k ELSE b + width + 1 - s \in dest)
      BY <1>3 DEF RclBits
    <2>6. b \in dest' <=> b < width /\ (b \in high \/ b \in low \/ b \in carry)
      BY <1>3, <1>4 DEF Store
    <2>7. b \in carry <=> s # 0 /\ k /\ b = s - 1
      BY <1>6 DEF When
    <2> QED
      BY <1>2, <1>5, <1>7, <2>1, <2>2, <2>3, <2>4, <2>5, <2>6, <2>7
  <1>9. dest' \in SUBSET Nat /\ RclBits(dest, k, s) \in SUBSET Nat
    BY <1>4 DEF Store, RclBits, Bits
  <1> QED
    BY <1>1, <1>8, <1>9, SameBits

LEMMA RcrActs ==
    ASSUME TypeOK, NEW count \in Counts, Rcr(count), CarryPlaced(count, width - Shift(count)),
           NEW k \in BOOLEAN, k <=> CF \in flags
    PROVE  dest' = RcrBits(dest, k, Shift(count))
  <1>1. PICK s \in 0 .. width - 1 : s = Shift(count)
    BY WidthFacts DEF TypeOK
  <1>2. /\ width \in Nat /\ width >= 2 /\ PromotedWidth \in Nat /\ PromotedWidth >= width
        /\ dest \in SUBSET Bits /\ dest \in SUBSET Nat /\ width \in Widths
    BY WidthFacts DEF TypeOK, Bits
  <1>3. \A b \in Nat : b \in Bits <=> b < width
    BY <1>2 DEF Bits
  <1>4. PICK low \in RightShifts(dest, s), high \in LeftShifts(dest, width + 1 - s),
             carry \in CarryShifts(width - s) :
           dest' = Store(high \cup low \cup carry)
    BY <1>1 DEF Rcr
  <1>5. low = Down(dest, s)
    BY <1>2, <1>4, DefinedShifts
  <1>6. width + 1 - s < PromotedWidth /\ carry = When(k, width - s)
    <2>1. width - s \in 0 .. width /\ (width < IntWidth \/ width - s < width)
      <3>1. s = 0 => width < IntWidth
        BY <1>1 DEF CarryPlaced
      <3> QED
        BY <1>2, <3>1
    <2>2. CarryPlaced(count, width - s)
      BY <1>1
    <2>3. width + 1 - Shift(count) < PromotedWidth /\ carry = When(CF \in flags, width - s)
      BY <1>2, <1>4, <2>1, <2>2, CarryEnters
    <2> QED
      BY <1>1, <2>3 DEF When
  <1>7. high = Up(dest, width + 1 - s)
    BY <1>4, <1>6, DefinedShifts
  <1>8. ASSUME NEW b \in Nat
        PROVE  b \in dest' <=> b \in RcrBits(dest, k, s)
    <2>1. b \in Down(dest, s) <=> b + s \in dest
      BY <1>2, ShiftMembers
    <2>2. b \in Up(dest, width + 1 - s)
             <=> b >= width + 1 - s /\ b - (width + 1 - s) \in dest
      <3>1. width + 1 - s \in Nat
        BY <1>2
      <3> QED
        BY <1>2, <3>1, ShiftMembers
    <2>3. /\ b - (width + 1 - s) = b + s - width - 1
          /\ b >= width + 1 - s <=> ~(b + s < width) /\ b + s # width
      BY <1>2
    <2>4. ~(b + s < width) => b + s \notin dest
      BY <1>2, <1>3
    <2>5. b \in RcrBits(dest, k, s)
             <=> b < width /\ (IF b + s < width THEN b + s \in dest
                               ELSE IF b + s = width THEN k ELSE b + s - width - 1 \in dest)
      BY <1>3 DEF RcrBits
    <2>6. b \in dest' <=> b < width /\ (b \in high \/ b \in low \/ b \in carry)
      BY <1>3, <1>4 DEF Store
    <2>7. b \in carry <=> k /\ b + s = width
      BY <1>2, <1>6 DEF When
    <2> QED
      BY <1>2, <1>5, <1>7, <2>1, <2>2, <2>3, <2>4, <2>5, <2>6, <2>7
  <1>9. dest' \in SUBSET Nat /\ RcrBits(dest, k, s) \in SUBSET Nat
    BY <1>4 DEF Store, RcrBits, Bits
  <1> QED
    BY <1>1, <1>8, <1>9, SameBits

LEMMA ShlActs ==
    ASSUME TypeOK, NEW count \in Counts, Shl(count), NEW k
    PROVE  dest' = ShlBits(dest, k, Shift(count))
  <1>1. PICK s \in 0 .. width - 1 : s = Shift(count)
    BY WidthFacts DEF TypeOK
  <1>2. /\ width \in Nat /\ width >= 2 /\ PromotedWidth \in Nat /\ PromotedWidth >= width
        /\ dest \in SUBSET Bits /\ dest \in SUBSET Nat /\ width \in Widths
    BY WidthFacts DEF TypeOK, Bits
  <1>3. \A b \in Nat : b \in Bits <=> b < width
    BY <1>2 DEF Bits
  <1>4. dest' = Store(Up(dest, s))
    BY <1>1 DEF Shl
  <1>5. ASSUME NEW b \in Nat
        PROVE  b \in dest' <=> b \in ShlBits(dest, k, s)
    <2>1. b \in Up(dest, s) <=> b >= s /\ b - s \in dest
      BY <1>2, ShiftMembers
    <2> QED
      BY <1>3, <1>4, <2>1 DEF Store, ShlBits
  <1>6. dest' \in SUBSET Nat /\ ShlBits(dest, k, s) \in SUBSET Nat
    BY <1>2, <1>4 DEF Store, Down, ShlBits, Bits, Msb
  <1> QED
    BY <1>1, <1>5, <1>6, SameBits

LEMMA ShrActs ==
    ASSUME TypeOK, NEW count \in Counts, Shr(count), NEW k
    PROVE  dest' = ShrBits(dest, k, Shift(count))
  <1>1. PICK s \in 0 .. width - 1 : s = Shift(count)
    BY WidthFacts DEF TypeOK
  <1>2. /\ width \in Nat /\ width >= 2 /\ PromotedWidth \in Nat /\ PromotedWidth >= width
        /\ dest \in SUBSET Bits /\ dest \in SUBSET Nat /\ width \in Widths
    BY WidthFacts DEF TypeOK, Bits
  <1>3. \A b \in Nat : b \in Bits <=> b < width
    BY <1>2 DEF Bits
  <1>4. dest' = Down(dest, s)
    BY <1>1 DEF Shr
  <1>5. ASSUME NEW b \in Nat
        PROVE  b \in dest' <=> b \in ShrBits(dest, k, s)
    <2>1. b \in Down(dest, s) <=> b + s \in dest
      BY <1>2, ShiftMembers
    <2>2. b + s \in dest => b < width
      BY <1>2, <1>3
    <2> QED
      BY <1>3, <1>4, <2>1, <2>2 DEF ShrBits
  <1>6. dest' \in SUBSET Nat /\ ShrBits(dest, k, s) \in SUBSET Nat
    BY <1>2, <1>4 DEF Store, Down, ShrBits, Bits, Msb
  <1> QED
    BY <1>1, <1>5, <1>6, SameBits

LEMMA SarActs ==
    ASSUME TypeOK, NEW count \in Counts, Sar(count), NEW k
    PROVE  dest' = SarBits(dest, k, Shift(count))
  <1>1. PICK s \in 0 .. width - 1 : s = Shift(count)
    BY WidthFacts DEF TypeOK
  <1>2. /\ width \in Nat /\ width >= 2 /\ PromotedWidth \in Nat /\ PromotedWidth >= width
        /\ dest \in SUBSET Bits /\ dest \in SUBSET Nat /\ width \in Widths
    BY WidthFacts DEF TypeOK, Bits
  <1>3. \A b \in Nat : b \in Bits <=> b < width
    BY <1>2 DEF Bits
  <1>4. dest' = Down(dest, s) \cup IF Msb \in dest THEN width - s .. Msb ELSE {}
    BY <1>1 DEF Sar
  <1>5. ASSUME NEW b \in Nat
        PROVE  b \in dest' <=> b \in SarBits(dest, k, s)
    <2>1. b \in Down(dest, s) <=> b + s \in dest
      BY <1>2, ShiftMembers
    <2>2. /\ b + s \in dest => b + s < width /\ b < width
          /\ b \in width - s .. Msb <=> b < width /\ ~(b + s < width)
      BY <1>2, <1>3 DEF Msb
    <2> QED
      BY <1>3, <1>4, <2>1, <2>2 DEF SarBits
  <1>6. dest' \in SUBSET Nat /\ SarBits(dest, k, s) \in SUBSET Nat
    BY <1>2, <1>4 DEF Store, Down, SarBits, Bits, Msb
  <1> QED
    BY <1>1, <1>5, <1>6, SameBits

-----------------------------------------------------------------------------
(* Shifts, place by place. *)

RolMoved(count) == Moves(count, RolOnce)
RorMoved(count) == Moves(count, RorOnce)
ShlMoved(count) == Moves(count, ShlOnce)
ShrMoved(count) == Moves(count, ShrOnce)
SarMoved(count) == Moves(count, SarOnce)
RclMoved(count) == Moves(count, RclOnce)
RcrMoved(count) == Moves(count, RcrOnce)

LEMMA CarryOut ==
    ASSUME NEW s, NEW d, NEW k \in BOOLEAN, NEW after,
           s = 0 => (CF \in after <=> k)
    PROVE  /\ (s # 0 => (CF \in after <=> width - s \in d)) => (CF \in after) = OutLeft(d, k, s)
           /\ (s # 0 => (CF \in after <=> s - 1 \in d)) => (CF \in after) = OutRight(d, k, s)
  <1>1. CASE s = 0
    <2>1. OutLeft(d, k, s) = k /\ OutRight(d, k, s) = k
      BY <1>1, Zenon DEF OutLeft, OutRight
    <2>2. (CF \in after) = k
      <3>1. CF \in after <=> k
        BY <1>1
      <3>2. k = TRUE \/ k = FALSE
        OBVIOUS
      <3> QED
        BY <3>1, <3>2, Zenon
    <2> QED
      BY <2>1, <2>2, Zenon
  <1>2. CASE s # 0
    <2>1. OutLeft(d, k, s) = (width - s \in d) /\ OutRight(d, k, s) = (s - 1 \in d)
      BY <1>2, Zenon DEF OutLeft, OutRight
    <2>2. ASSUME CF \in after <=> width - s \in d
          PROVE  (CF \in after) = (width - s \in d)
      BY <2>2
    <2>3. ASSUME CF \in after <=> s - 1 \in d
          PROVE  (CF \in after) = (s - 1 \in d)
      BY <2>3
    <2> QED
      BY <1>2, <2>1, <2>2, <2>3, Zenon
  <1> QED
    BY <1>1, <1>2

LEMMA RolAgrees ==
    ASSUME TypeOK, NEW count \in Counts, ArchCount(count) < width, Rol(count)
    PROVE  RolMoved(count) /\ KeepsResultFlags
  <1>1. PICK s \in 0 .. width - 1 : s = Shift(count) /\ s = ArchCount(count)
    BY WidthFacts, CountAgrees DEF TypeOK
  <1>2. PICK k \in BOOLEAN : k = (CF \in flags)
    <2>1. (CF \in flags) \in BOOLEAN
      OBVIOUS
    <2> QED
      BY <2>1, Zenon
  <1>3. dest' = RolBits(dest, k, s)
    BY <1>1, <1>2, RolActs
  <1>4. flags' = RolFlags(flags, s, dest, dest')
    BY <1>1 DEF Rol
  <1>5. /\ s = 0 => RolFlags(flags, s, dest, dest') = flags
        /\ s # 0 => (CF \in RolFlags(flags, s, dest, dest') <=> width - s \in dest)
        /\ \A f \in {SF, ZF, PF} : f \in RolFlags(flags, s, dest, dest') <=> f \in flags
    BY RotateFlagsGive
  <1>6. (CF \in flags') = OutLeft(dest, k, s)
    <2>1. PICK after : after = flags'
      OBVIOUS
    <2>2. s = 0 => (CF \in after <=> k)
      BY <1>2, <1>4, <1>5, <2>1, Zenon
    <2>3. s # 0 => (CF \in after <=> width - s \in dest)
      BY <1>4, <1>5, <2>1, Zenon
    <2>4. (CF \in after) = OutLeft(dest, k, s)
      BY <2>2, <2>3, CarryOut
    <2> QED
      BY <2>1, <2>4, Zenon
  <1>7. RolSteps(s, <<dest, k>>) = <<RolBits(dest, k, s), OutLeft(dest, k, s)>>
    BY WidthFacts, RolRuns DEF TypeOK
  <1>8. <<dest', CF \in flags'>> = RolSteps(ArchCount(count), <<dest, CF \in flags>>)
    BY <1>1, <1>2, <1>3, <1>6, <1>7, Zenon
  <1>9. KeepsResultFlags
    BY <1>4, <1>5 DEF KeepsResultFlags
  <1>10. RolMoved(count)
    BY <1>8 DEF RolMoved, Moves, RolSteps, Times
  <1> QED
    BY <1>9, <1>10

LEMMA RorAgrees ==
    ASSUME TypeOK, NEW count \in Counts, ArchCount(count) < width, Ror(count)
    PROVE  RorMoved(count) /\ KeepsResultFlags
  <1>1. PICK s \in 0 .. width - 1 : s = Shift(count) /\ s = ArchCount(count)
    BY WidthFacts, CountAgrees DEF TypeOK
  <1>2. PICK k \in BOOLEAN : k = (CF \in flags)
    <2>1. (CF \in flags) \in BOOLEAN
      OBVIOUS
    <2> QED
      BY <2>1, Zenon
  <1>3. dest' = RorBits(dest, k, s)
    BY <1>1, <1>2, RorActs
  <1>4. flags' = RorFlags(flags, s, dest, dest')
    BY <1>1 DEF Ror
  <1>5. /\ s = 0 => RorFlags(flags, s, dest, dest') = flags
        /\ s # 0 => (CF \in RorFlags(flags, s, dest, dest') <=> s - 1 \in dest)
        /\ \A f \in {SF, ZF, PF} : f \in RorFlags(flags, s, dest, dest') <=> f \in flags
    BY RotateFlagsGive
  <1>6. (CF \in flags') = OutRight(dest, k, s)
    <2>1. PICK after : after = flags'
      OBVIOUS
    <2>2. s = 0 => (CF \in after <=> k)
      BY <1>2, <1>4, <1>5, <2>1, Zenon
    <2>3. s # 0 => (CF \in after <=> s - 1 \in dest)
      BY <1>4, <1>5, <2>1, Zenon
    <2>4. (CF \in after) = OutRight(dest, k, s)
      BY <2>2, <2>3, CarryOut
    <2> QED
      BY <2>1, <2>4, Zenon
  <1>7. RorSteps(s, <<dest, k>>) = <<RorBits(dest, k, s), OutRight(dest, k, s)>>
    BY WidthFacts, RorRuns DEF TypeOK
  <1>8. <<dest', CF \in flags'>> = RorSteps(ArchCount(count), <<dest, CF \in flags>>)
    BY <1>1, <1>2, <1>3, <1>6, <1>7, Zenon
  <1>9. KeepsResultFlags
    BY <1>4, <1>5 DEF KeepsResultFlags
  <1>10. RorMoved(count)
    BY <1>8 DEF RorMoved, Moves, RorSteps, Times
  <1> QED
    BY <1>9, <1>10

LEMMA ShlAgrees ==
    ASSUME TypeOK, NEW count \in Counts, ArchCount(count) < width, Shl(count)
    PROVE  ShlMoved(count) /\ FlagsOfResult(count)
  <1>1. PICK s \in 0 .. width - 1 : s = Shift(count) /\ s = ArchCount(count)
    BY WidthFacts, CountAgrees DEF TypeOK
  <1>2. PICK k \in BOOLEAN : k = (CF \in flags)
    <2>1. (CF \in flags) \in BOOLEAN
      OBVIOUS
    <2> QED
      BY <2>1, Zenon
  <1>3. dest' = ShlBits(dest, k, s)
    BY <1>1, <1>2, ShlActs
  <1>4. flags' = ShlFlags(flags, s, dest, dest')
    BY <1>1 DEF Shl
  <1>5. /\ s = 0 => ShlFlags(flags, s, dest, dest') = flags
        /\ s # 0 => (CF \in ShlFlags(flags, s, dest, dest') <=> width - s \in dest)
        /\ s # 0 => ResultIn(ShlFlags(flags, s, dest, dest'), dest')
    BY ShiftResultFlagsGive
  <1>6. (CF \in flags') = OutLeft(dest, k, s)
    <2>1. PICK after : after = flags'
      OBVIOUS
    <2>2. s = 0 => (CF \in after <=> k)
      BY <1>2, <1>4, <1>5, <2>1, Zenon
    <2>3. s # 0 => (CF \in after <=> width - s \in dest)
      BY <1>4, <1>5, <2>1, Zenon
    <2>4. (CF \in after) = OutLeft(dest, k, s)
      BY <2>2, <2>3, CarryOut
    <2> QED
      BY <2>1, <2>4, Zenon
  <1>7. ShlSteps(s, <<dest, k>>) = <<ShlBits(dest, k, s), OutLeft(dest, k, s)>>
    BY WidthFacts, ShlRuns DEF TypeOK
  <1>8. <<dest', CF \in flags'>> = ShlSteps(ArchCount(count), <<dest, CF \in flags>>)
    BY <1>1, <1>2, <1>3, <1>6, <1>7, Zenon
  <1>9. FlagsOfResult(count)
    BY <1>1, <1>4, <1>5, Zenon DEF FlagsOfResult, ResultIn
  <1>10. ShlMoved(count)
    BY <1>8 DEF ShlMoved, Moves, ShlSteps, Times
  <1> QED
    BY <1>9, <1>10

LEMMA ShrAgrees ==
    ASSUME TypeOK, NEW count \in Counts, ArchCount(count) < width, Shr(count)
    PROVE  ShrMoved(count) /\ FlagsOfResult(count)
  <1>1. PICK s \in 0 .. width - 1 : s = Shift(count) /\ s = ArchCount(count)
    BY WidthFacts, CountAgrees DEF TypeOK
  <1>2. PICK k \in BOOLEAN : k = (CF \in flags)
    <2>1. (CF \in flags) \in BOOLEAN
      OBVIOUS
    <2> QED
      BY <2>1, Zenon
  <1>3. dest' = ShrBits(dest, k, s)
    BY <1>1, <1>2, ShrActs
  <1>4. flags' = ShrFlags(flags, s, dest, dest')
    BY <1>1 DEF Shr
  <1>5. /\ s = 0 => ShrFlags(flags, s, dest, dest') = flags
        /\ s # 0 => (CF \in ShrFlags(flags, s, dest, dest') <=> s - 1 \in dest)
        /\ s # 0 => ResultIn(ShrFlags(flags, s, dest, dest'), dest')
    BY ShiftResultFlagsGive
  <1>6. (CF \in flags') = OutRight(dest, k, s)
    <2>1. PICK after : after = flags'
      OBVIOUS
    <2>2. s = 0 => (CF \in after <=> k)
      BY <1>2, <1>4, <1>5, <2>1, Zenon
    <2>3. s # 0 => (CF \in after <=> s - 1 \in dest)
      BY <1>4, <1>5, <2>1, Zenon
    <2>4. (CF \in after) = OutRight(dest, k, s)
      BY <2>2, <2>3, CarryOut
    <2> QED
      BY <2>1, <2>4, Zenon
  <1>7. ShrSteps(s, <<dest, k>>) = <<ShrBits(dest, k, s), OutRight(dest, k, s)>>
    BY WidthFacts, ShrRuns DEF TypeOK
  <1>8. <<dest', CF \in flags'>> = ShrSteps(ArchCount(count), <<dest, CF \in flags>>)
    BY <1>1, <1>2, <1>3, <1>6, <1>7, Zenon
  <1>9. FlagsOfResult(count)
    BY <1>1, <1>4, <1>5, Zenon DEF FlagsOfResult, ResultIn
  <1>10. ShrMoved(count)
    BY <1>8 DEF ShrMoved, Moves, ShrSteps, Times
  <1> QED
    BY <1>9, <1>10

LEMMA SarAgrees ==
    ASSUME TypeOK, NEW count \in Counts, ArchCount(count) < width, Sar(count)
    PROVE  SarMoved(count) /\ FlagsOfResult(count)
  <1>1. PICK s \in 0 .. width - 1 : s = Shift(count) /\ s = ArchCount(count)
    BY WidthFacts, CountAgrees DEF TypeOK
  <1>2. PICK k \in BOOLEAN : k = (CF \in flags)
    <2>1. (CF \in flags) \in BOOLEAN
      OBVIOUS
    <2> QED
      BY <2>1, Zenon
  <1>3. dest' = SarBits(dest, k, s)
    BY <1>1, <1>2, SarActs
  <1>4. flags' = ShrFlags(flags, s, dest, dest')
    BY <1>1 DEF Sar
  <1>5. /\ s = 0 => ShrFlags(flags, s, dest, dest') = flags
        /\ s # 0 => (CF \in ShrFlags(flags, s, dest, dest') <=> s - 1 \in dest)
        /\ s # 0 => ResultIn(ShrFlags(flags, s, dest, dest'), dest')
    BY ShiftResultFlagsGive
  <1>6. (CF \in flags') = OutRight(dest, k, s)
    <2>1. PICK after : after = flags'
      OBVIOUS
    <2>2. s = 0 => (CF \in after <=> k)
      BY <1>2, <1>4, <1>5, <2>1, Zenon
    <2>3. s # 0 => (CF \in after <=> s - 1 \in dest)
      BY <1>4, <1>5, <2>1, Zenon
    <2>4. (CF \in after) = OutRight(dest, k, s)
      BY <2>2, <2>3, CarryOut
    <2> QED
      BY <2>1, <2>4, Zenon
  <1>7. SarSteps(s, <<dest, k>>) = <<SarBits(dest, k, s), OutRight(dest, k, s)>>
    BY WidthFacts, SarRuns DEF TypeOK
  <1>8. <<dest', CF \in flags'>> = SarSteps(ArchCount(count), <<dest, CF \in flags>>)
    BY <1>1, <1>2, <1>3, <1>6, <1>7, Zenon
  <1>9. FlagsOfResult(count)
    BY <1>1, <1>4, <1>5, Zenon DEF FlagsOfResult, ResultIn
  <1>10. SarMoved(count)
    BY <1>8 DEF SarMoved, Moves, SarSteps, Times
  <1> QED
    BY <1>9, <1>10

LEMMA RclAgrees ==
    ASSUME TypeOK, NEW count \in Counts, ArchCount(count) < width, Rcl(count),
           CarryPlaced(count, Shift(count) - 1)
    PROVE  RclMoved(count) /\ KeepsResultFlags
  <1>1. PICK s \in 0 .. width - 1 : s = Shift(count) /\ s = ArchCount(count)
    BY WidthFacts, CountAgrees DEF TypeOK
  <1>2. PICK k \in BOOLEAN : k = (CF \in flags)
    <2>1. (CF \in flags) \in BOOLEAN
      OBVIOUS
    <2> QED
      BY <2>1, Zenon
  <1>3. dest' = RclBits(dest, k, s)
    BY <1>1, <1>2, RclActs
  <1>4. flags' = RolFlags(flags, s, dest, dest')
    BY <1>1 DEF Rcl
  <1>5. /\ s = 0 => RolFlags(flags, s, dest, dest') = flags
        /\ s # 0 => (CF \in RolFlags(flags, s, dest, dest') <=> width - s \in dest)
        /\ \A f \in {SF, ZF, PF} : f \in RolFlags(flags, s, dest, dest') <=> f \in flags
    BY RotateFlagsGive
  <1>6. (CF \in flags') = OutLeft(dest, k, s)
    <2>1. PICK after : after = flags'
      OBVIOUS
    <2>2. s = 0 => (CF \in after <=> k)
      BY <1>2, <1>4, <1>5, <2>1, Zenon
    <2>3. s # 0 => (CF \in after <=> width - s \in dest)
      BY <1>4, <1>5, <2>1, Zenon
    <2>4. (CF \in after) = OutLeft(dest, k, s)
      BY <2>2, <2>3, CarryOut
    <2> QED
      BY <2>1, <2>4, Zenon
  <1>7. RclSteps(s, <<dest, k>>) = <<RclBits(dest, k, s), OutLeft(dest, k, s)>>
    BY WidthFacts, RclRuns DEF TypeOK
  <1>8. <<dest', CF \in flags'>> = RclSteps(ArchCount(count), <<dest, CF \in flags>>)
    BY <1>1, <1>2, <1>3, <1>6, <1>7, Zenon
  <1>9. KeepsResultFlags
    BY <1>4, <1>5 DEF KeepsResultFlags
  <1>10. RclMoved(count)
    BY <1>8 DEF RclMoved, Moves, RclSteps, Times
  <1> QED
    BY <1>9, <1>10

LEMMA RcrAgrees ==
    ASSUME TypeOK, NEW count \in Counts, ArchCount(count) < width, Rcr(count),
           CarryPlaced(count, width - Shift(count))
    PROVE  RcrMoved(count) /\ KeepsResultFlags
  <1>1. PICK s \in 0 .. width - 1 : s = Shift(count) /\ s = ArchCount(count)
    BY WidthFacts, CountAgrees DEF TypeOK
  <1>2. PICK k \in BOOLEAN : k = (CF \in flags)
    <2>1. (CF \in flags) \in BOOLEAN
      OBVIOUS
    <2> QED
      BY <2>1, Zenon
  <1>3. dest' = RcrBits(dest, k, s)
    BY <1>1, <1>2, RcrActs
  <1>4. flags' = RorFlags(flags, s, dest, dest')
    BY <1>1 DEF Rcr
  <1>5. /\ s = 0 => RorFlags(flags, s, dest, dest') = flags
        /\ s # 0 => (CF \in RorFlags(flags, s, dest, dest') <=> s - 1 \in dest)
        /\ \A f \in {SF, ZF, PF} : f \in RorFlags(flags, s, dest, dest') <=> f \in flags
    BY RotateFlagsGive
  <1>6. (CF \in flags') = OutRight(dest, k, s)
    <2>1. PICK after : after = flags'
      OBVIOUS
    <2>2. s = 0 => (CF \in after <=> k)
      BY <1>2, <1>4, <1>5, <2>1, Zenon
    <2>3. s # 0 => (CF \in after <=> s - 1 \in dest)
      BY <1>4, <1>5, <2>1, Zenon
    <2>4. (CF \in after) = OutRight(dest, k, s)
      BY <2>2, <2>3, CarryOut
    <2> QED
      BY <2>1, <2>4, Zenon
  <1>7. RcrSteps(s, <<dest, k>>) = <<RcrBits(dest, k, s), OutRight(dest, k, s)>>
    BY WidthFacts, RcrRuns DEF TypeOK
  <1>8. <<dest', CF \in flags'>> = RcrSteps(ArchCount(count), <<dest, CF \in flags>>)
    BY <1>1, <1>2, <1>3, <1>6, <1>7, Zenon
  <1>9. KeepsResultFlags
    BY <1>4, <1>5 DEF KeepsResultFlags
  <1>10. RcrMoved(count)
    BY <1>8 DEF RcrMoved, Moves, RcrSteps, Times
  <1> QED
    BY <1>9, <1>10

(* A shift or rotate by a count below the operand's width is that many     *)
(* shifts by one place, in the operand, in CF and in SF, ZF and PF (the    *)
(* OP_* and IMPL_*_FLAG macros of execute_private.h), at every width, for  *)
(* every operand and every count; RCL and RCR where CarryPlaced says so.   *)
THEOREM ShiftsAreRepeated == Spec => ShiftsBitByBit
  <1> DEFINE Repeated(count) ==
         ArchCount(count) < width =>
          /\ Rol(count) => RolMoved(count) /\ KeepsResultFlags
          /\ Ror(count) => RorMoved(count) /\ KeepsResultFlags
          /\ Shl(count) => ShlMoved(count) /\ FlagsOfResult(count)
          /\ Shr(count) => ShrMoved(count) /\ FlagsOfResult(count)
          /\ Sar(count) => SarMoved(count) /\ FlagsOfResult(count)
          /\ (Rcl(count) /\ CarryPlaced(count, Shift(count) - 1)) =>
                (RclMoved(count) /\ KeepsResultFlags)
          /\ (Rcr(count) /\ CarryPlaced(count, width - Shift(count))) =>
                (RcrMoved(count) /\ KeepsResultFlags)
  <1>1. ASSUME TypeOK, NEW count \in Counts
        PROVE  Repeated(count)
    BY <1>1, RolAgrees, RorAgrees, ShlAgrees, ShrAgrees, SarAgrees, RclAgrees, RcrAgrees
  <1>2. TypeOK /\ [Next]_vars => [\A count \in Counts : Repeated(count)]_vars
    BY <1>1
  <1> QED
    BY <1>2, TypeHolds, PTL DEF Spec, ShiftsBitByBit, RolMoved, RorMoved, ShlMoved, ShrMoved,
                                SarMoved, RclMoved, RcrMoved
=============================================================================
