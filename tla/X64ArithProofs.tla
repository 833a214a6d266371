--------------------------- MODULE X64ArithProofs ---------------------------
(***************************************************************************)
(* Theorems about X64Arith, for every operand width.                       *)
(***************************************************************************)
EXTENDS X64Arith, TLAPS, FiniteSetTheorems

-----------------------------------------------------------------------------
(* Arithmetic. *)

\* Reduction modulo m of a sum, a difference and a negation.
LEMMA ModReduces ==
    ASSUME NEW m \in Nat, m > 0, NEW a \in 0 .. m - 1, NEW b \in 0 .. m - 1
    PROVE  /\ (a + b) % m = IF a + b < m THEN a + b ELSE a + b - m
           /\ (a - b) % m = IF a >= b THEN a - b ELSE a - b + m
           /\ (-b) % m \in 0 .. m - 1
  <1>1. (a + b) % m = IF a + b < m THEN a + b ELSE a + b - m
    <2>1. CASE a + b < m
      BY <2>1
    <2>2. CASE a + b >= m
      BY <2>2
    <2> QED
      BY <2>1, <2>2
  <1>2. (a - b) % m = IF a >= b THEN a - b ELSE a - b + m
    <2>1. CASE a >= b
      BY <2>1
    <2>2. CASE a < b
      BY <2>2
    <2> QED
      BY <2>1, <2>2
  <1>3. (-b) % m \in 0 .. m - 1
    OBVIOUS
  <1> QED
    BY <1>1, <1>2, <1>3

\* What storing a sum or a difference of two values in the operand does.
LEMMA TruncReduces ==
    ASSUME NEW a \in Values, NEW b \in Values
    PROVE  /\ Trunc(a + b) = IF a + b < 2 * Half THEN a + b ELSE a + b - 2 * Half
           /\ Trunc(a - b) = IF a >= b THEN a - b ELSE a - b + 2 * Half
           /\ Trunc(a + b) \in Values
           /\ Trunc(a - b) \in Values
           /\ Trunc(-b) \in Values
  <1>1. 2 * Half \in Nat /\ 2 * Half > 0
    BY HalfAssumption
  <1>2. a \in 0 .. 2 * Half - 1 /\ b \in 0 .. 2 * Half - 1
    BY DEF Values
  <1>3. /\ Trunc(a + b) = IF a + b < 2 * Half THEN a + b ELSE a + b - 2 * Half
        /\ Trunc(a - b) = IF a >= b THEN a - b ELSE a - b + 2 * Half
        /\ Trunc(-b) \in Values
    BY <1>1, <1>2, ModReduces DEF Trunc, Values
  <1> QED
    BY <1>2, <1>3, HalfAssumption DEF Values

\* The tests for a wrapped sum or difference are exact.
LEMMA OverflowTestsExact ==
    ASSUME NEW a \in Values, NEW b \in Values
    PROVE  /\ AddOverflows(a, b, Trunc(a + b)) <=> ~Representable(Signed(a) + Signed(b))
           /\ SubOverflows(a, b, Trunc(a - b)) <=> ~Representable(Signed(a) - Signed(b))
  <1>1. ASSUME NEW r \in Values,
               r = IF a + b < 2 * Half THEN a + b ELSE a + b - 2 * Half
        PROVE  AddOverflows(a, b, r) <=> ~Representable(Signed(a) + Signed(b))
    BY <1>1, HalfAssumption
    DEF AddOverflows, Representable, Signed, Negative, Values
  <1>2. ASSUME NEW r \in Values,
               r = IF a >= b THEN a - b ELSE a - b + 2 * Half
        PROVE  SubOverflows(a, b, r) <=> ~Representable(Signed(a) - Signed(b))
    BY <1>2, HalfAssumption
    DEF SubOverflows, Representable, Signed, Negative, Values
  <1> QED
    BY <1>1, <1>2, TruncReduces

\* The tests for a carry and a borrow are exact.
LEMMA CarryTestsExact ==
    ASSUME NEW a \in Values, NEW b \in Values
    PROVE  /\ Trunc(a + b) < a <=> a + b \notin Values
           /\ Trunc(a - b) > a <=> a < b
           /\ a - b \notin Values <=> a < b
           /\ Trunc(a - b) = 0 <=> a = b
  <1>1. ASSUME NEW r \in Values,
               r = IF a + b < 2 * Half THEN a + b ELSE a + b - 2 * Half
        PROVE  r < a <=> a + b \notin Values
    BY <1>1, HalfAssumption DEF Values
  <1>2. ASSUME NEW r \in Values,
               r = IF a >= b THEN a - b ELSE a - b + 2 * Half
        PROVE  /\ r > a <=> a < b
               /\ r = 0 <=> a = b
    BY <1>2, HalfAssumption DEF Values
  <1>3. a - b \notin Values <=> a < b
    BY HalfAssumption DEF Values
  <1> QED
    BY <1>1, <1>2, <1>3, TruncReduces

-----------------------------------------------------------------------------
(* Flags. *)

\* Which bits ADD's and INC's macro leaves set.
LEMMA ImplAddBits ==
    ASSUME NEW fl, NEW sav, NEW res, NEW of \in BOOLEAN
    PROVE  /\ CF \in ImplAdd(fl, sav, res, of) <=> CF \in fl
           /\ ZF \in ImplAdd(fl, sav, res, of) <=> res = 0
           /\ SF \in ImplAdd(fl, sav, res, of) <=> Negative(res)
           /\ PF \in ImplAdd(fl, sav, res, of) <=> EvenParity(res)
           /\ OF \in ImplAdd(fl, sav, res, of) <=> of
  BY DEF ImplAdd, SetResultFlags, When, CF, PF, AF, ZF, SF, OF

\* Which bits CMP's, SUB's and DEC's macro leaves set.
LEMMA ImplCmpBits ==
    ASSUME NEW fl, NEW sav, NEW res, NEW of \in BOOLEAN
    PROVE  /\ CF \in ImplCmp(fl, sav, res, of) <=> CF \in fl
           /\ ZF \in ImplCmp(fl, sav, res, of) <=> res = 0
           /\ SF \in ImplCmp(fl, sav, res, of) <=> Negative(res)
           /\ PF \in ImplCmp(fl, sav, res, of) <=> EvenParity(res)
           /\ OF \in ImplCmp(fl, sav, res, of) <=> of
  BY DEF ImplCmp, SetResultFlags, When, CF, PF, AF, ZF, SF, OF

\* An outcome of an overflow test is a truth value, the test's own where
\* signed arithmetic wraps or there is no overflow.
LEMMA OutcomesOf ==
    ASSUME NEW test \in BOOLEAN, NEW of \in Outcomes(test)
    PROVE  /\ of \in BOOLEAN
           /\ SignedWraps \/ ~test => (of <=> test)
  BY Zenon DEF Outcomes

LEMMA EvenParityOfZero == EvenParity(0)
  <1>1. {w \in {1, 2, 4, 8, 16, 32, 64, 128} : (0 \div w) % 2 = 1} = {}
    OBVIOUS
  <1>2. Cardinality({}) = 0
    BY FS_EmptySet
  <1>3. 0 % 2 = 0
    OBVIOUS
  <1> QED
    BY <1>1, <1>2, <1>3 DEF EvenParity

-----------------------------------------------------------------------------
(* The effect of each instruction. *)

\* The flags fl describe the result res.
Describes(fl, res) ==
    /\ fl \in SUBSET FlagBits
    /\ ZF \in fl <=> res = 0
    /\ SF \in fl <=> Negative(res)
    /\ PF \in fl <=> EvenParity(res)

LEMMA ImplFlagsDescribe ==
    ASSUME NEW fl \in SUBSET FlagBits, NEW sav, NEW res, NEW of \in BOOLEAN,
           NEW carry \in BOOLEAN
    PROVE  /\ Describes(ImplAdd(fl, sav, res, of), res)
           /\ Describes((ImplAdd(fl, sav, res, of) \ {CF}) \cup When(carry, CF), res)
           /\ Describes(ImplCmp(fl, sav, res, of), res)
           /\ Describes((ImplCmp(fl, sav, res, of) \ {CF}) \cup When(carry, CF), res)
  BY DEF Describes, ImplAdd, ImplCmp, SetResultFlags, When, FlagBits,
         CF, PF, AF, ZF, SF, OF

\* The carry a macro assigns last is the carry it leaves, and OF stays.
LEMMA AssignCarry ==
    ASSUME NEW fl, NEW carry \in BOOLEAN
    PROVE  /\ CF \in (fl \ {CF}) \cup When(carry, CF) <=> carry
           /\ OF \in (fl \ {CF}) \cup When(carry, CF) <=> OF \in fl
           /\ ZF \in (fl \ {CF}) \cup When(carry, CF) <=> ZF \in fl
           /\ SF \in (fl \ {CF}) \cup When(carry, CF) <=> SF \in fl
  BY DEF When, CF, OF, ZF, SF

LEMMA AddEffect ==
    ASSUME NEW opnd \in Values, dest \in Values, flags \in SUBSET FlagBits,
           Add(opnd)
    PROVE  /\ dest' \in Values
           /\ Describes(flags', dest')
           /\ CF \in flags' <=> dest + opnd \notin Values
           /\ OverflowExact(flags', Signed(dest) + Signed(opnd))
  <1> DEFINE res == Trunc(dest + opnd)
             over == AddOverflows(dest, opnd, res)
  <1>1. PICK of \in Outcomes(over) :
            flags' = (ImplAdd(flags, dest, res, of) \ {CF}) \cup When(res < dest, CF)
    BY DEF Add
  <1>2. dest' = res /\ res \in Values
    BY TruncReduces DEF Add
  <1>3. over \in BOOLEAN /\ (res < dest) \in BOOLEAN
    BY SMT DEF AddOverflows
  <1>4. of \in BOOLEAN /\ (SignedWraps \/ ~over => (of <=> over))
    <2> HIDE DEF over
    <2> QED BY <1>3, OutcomesOf
  <1>5. over <=> ~Representable(Signed(dest) + Signed(opnd))
    BY OverflowTestsExact
  <1>6. Describes(flags', res)
    <2> HIDE DEF res
    <2> QED BY <1>1, <1>3, <1>4, ImplFlagsDescribe
  <1>7. CF \in flags' <=> dest + opnd \notin Values
    BY <1>1, <1>3, AssignCarry, CarryTestsExact
  <1>8. OF \in flags' <=> of
    BY <1>1, <1>3, <1>4, AssignCarry, ImplAddBits
  <1> QED
    BY <1>2, <1>4, <1>5, <1>6, <1>7, <1>8 DEF OverflowExact

LEMMA OneIsValue == 1 \in Values
  BY HalfAssumption DEF Values

LEMMA IncEffect ==
    ASSUME dest \in Values, flags \in SUBSET FlagBits, Inc
    PROVE  /\ dest' \in Values
           /\ Describes(flags', dest')
           /\ CF \in flags' <=> CF \in flags
           /\ OverflowExact(flags', Signed(dest) + 1)
  <1> DEFINE res == Trunc(dest + 1)
             over == AddOverflows(dest, 1, res)
  <1>1. PICK of \in Outcomes(over) : flags' = ImplAdd(flags, dest, res, of)
    BY DEF Inc
  <1>2. dest' = res /\ res \in Values
    BY OneIsValue, TruncReduces DEF Inc
  <1>3. over \in BOOLEAN
    BY SMT DEF AddOverflows
  <1>4. of \in BOOLEAN /\ (SignedWraps \/ ~over => (of <=> over))
    <2> HIDE DEF over
    <2> QED BY <1>3, OutcomesOf
  <1>5. over <=> ~Representable(Signed(dest) + 1)
    <2>1. Signed(1) = 1
      BY HalfAssumption DEF Signed
    <2> QED BY <2>1, OneIsValue, OverflowTestsExact
  <1>6. Describes(flags', res)
    <2> HIDE DEF res
    <2> QED BY <1>1, <1>4, ImplFlagsDescribe
  <1>7. /\ CF \in flags' <=> CF \in flags
        /\ OF \in flags' <=> of
    BY <1>1, <1>4, ImplAddBits
  <1> QED
    BY <1>2, <1>4, <1>5, <1>6, <1>7 DEF OverflowExact

LEMMA CmpEffect ==
    ASSUME NEW opnd \in Values, dest \in Values, flags \in SUBSET FlagBits,
           CmpSetsFlags(opnd)
    PROVE  /\ Describes(flags', Trunc(dest - opnd))
           /\ CF \in flags' <=> dest < opnd
           /\ OverflowExact(flags', Signed(dest) - Signed(opnd))
  <1> DEFINE res == Trunc(dest - opnd)
             over == SubOverflows(dest, opnd, res)
  <1>1. PICK of \in Outcomes(over) :
            flags' = (ImplCmp(flags, dest, res, of) \ {CF}) \cup When(res > dest, CF)
    BY DEF CmpSetsFlags
  <1>2. over \in BOOLEAN /\ (res > dest) \in BOOLEAN
    BY SMT DEF SubOverflows
  <1>3. of \in BOOLEAN /\ (SignedWraps \/ ~over => (of <=> over))
    <2> HIDE DEF over
    <2> QED BY <1>2, OutcomesOf
  <1>4. over <=> ~Representable(Signed(dest) - Signed(opnd))
    BY OverflowTestsExact
  <1>5. Describes(flags', res)
    <2> HIDE DEF res
    <2> QED BY <1>1, <1>2, <1>3, ImplFlagsDescribe
  <1>6. CF \in flags' <=> dest < opnd
    BY <1>1, <1>2, AssignCarry, CarryTestsExact
  <1>7. OF \in flags' <=> of
    BY <1>1, <1>2, <1>3, AssignCarry, ImplCmpBits
  <1> QED
    BY <1>3, <1>4, <1>5, <1>6, <1>7 DEF OverflowExact

LEMMA DecEffect ==
    ASSUME dest \in Values, flags \in SUBSET FlagBits, Dec
    PROVE  /\ dest' \in Values
           /\ Describes(flags', dest')
           /\ CF \in flags' <=> CF \in flags
           /\ OverflowExact(flags', Signed(dest) - 1)
  <1> DEFINE res == Trunc(dest - 1)
             over == SubOverflows(dest, 1, res)
  <1>1. PICK of \in Outcomes(over) : flags' = ImplCmp(flags, dest, res, of)
    BY DEF Dec
  <1>2. dest' = res /\ res \in Values
    BY OneIsValue, TruncReduces DEF Dec
  <1>3. over \in BOOLEAN
    BY SMT DEF SubOverflows
  <1>4. of \in BOOLEAN /\ (SignedWraps \/ ~over => (of <=> over))
    <2> HIDE DEF over
    <2> QED BY <1>3, OutcomesOf
  <1>5. over <=> ~Representable(Signed(dest) - 1)
    <2>1. Signed(1) = 1
      BY HalfAssumption DEF Signed
    <2> QED BY <2>1, OneIsValue, OverflowTestsExact
  <1>6. Describes(flags', res)
    <2> HIDE DEF res
    <2> QED BY <1>1, <1>4, ImplFlagsDescribe
  <1>7. /\ CF \in flags' <=> CF \in flags
        /\ OF \in flags' <=> of
    BY <1>1, <1>4, ImplCmpBits
  <1> QED
    BY <1>2, <1>4, <1>5, <1>6, <1>7 DEF OverflowExact

LEMMA CarryInKeepsFlags ==
    ASSUME flags \in SUBSET FlagBits, NEW carry, NEW aux, NEW overflows,
           NEW fl \in CarryInFlags(carry, aux, overflows)
    PROVE  fl \in SUBSET FlagBits /\ (CF \notin flags => fl = flags)
  BY DEF CarryInFlags, When, FlagBits, CF, AF, OF

\* The flags ADC and SBB leave, in terms of the flags fl they start from.
ChainResult(fl, res, carry, aux, of) ==
    SetResultFlags(fl, res) \cup When(carry, CF) \cup When(aux, AF) \cup When(of, OF)

LEMMA ChainFlags ==
    ASSUME NEW fl \in SUBSET FlagBits, NEW res, NEW carry \in BOOLEAN,
           NEW aux \in BOOLEAN, NEW of \in BOOLEAN
    PROVE  /\ Describes(ChainResult(fl, res, carry, aux, of), res)
           /\ fl \cap {CF, OF} = {} =>
                 /\ CF \in ChainResult(fl, res, carry, aux, of) <=> carry
                 /\ OF \in ChainResult(fl, res, carry, aux, of) <=> of
  <1>1. Describes(ChainResult(fl, res, carry, aux, of), res)
    BY DEF ChainResult, Describes, SetResultFlags, When, FlagBits,
           CF, PF, AF, ZF, SF, OF
  <1>2. fl \cap {CF, OF} = {} =>
           /\ CF \in ChainResult(fl, res, carry, aux, of) <=> carry
           /\ OF \in ChainResult(fl, res, carry, aux, of) <=> of
    BY DEF ChainResult, SetResultFlags, When, CF, PF, AF, ZF, SF, OF
  <1> QED
    BY <1>1, <1>2

LEMMA AdcEffect ==
    ASSUME NEW opnd \in Values, dest \in Values, flags \in SUBSET FlagBits,
           Adc(opnd)
    PROVE  /\ dest' = Trunc(dest + opnd)
           /\ dest' \in Values
           /\ Describes(flags', dest')
           /\ flags \cap {CF, OF} = {} =>
                 /\ CF \in flags' <=> dest + opnd \notin Values
                 /\ OverflowExact(flags', Signed(dest) + Signed(opnd))
  <1> DEFINE one == Trunc(dest + 1)
             res == Trunc(dest + opnd)
             over == AddOverflows(dest, opnd, res)
             aux == Low8(res) < Low8(dest)
  <1>1. PICK of \in Outcomes(over),
             fl \in CarryInFlags(one < dest, Low8(one) < Low8(dest),
                                 ~Negative(dest) /\ Negative(one)) :
            flags' = ChainResult(fl, res, res < dest, aux, of)
    BY DEF Adc, ChainResult
  <1>2. dest' = res /\ res \in Values
    BY TruncReduces DEF Adc
  <1>3. over \in BOOLEAN /\ (res < dest) \in BOOLEAN /\ aux \in BOOLEAN
    BY SMT DEF AddOverflows
  <1>4. of \in BOOLEAN /\ (SignedWraps \/ ~over => (of <=> over))
    <2> HIDE DEF over
    <2> QED BY <1>3, OutcomesOf
  <1>5. over <=> ~Representable(Signed(dest) + Signed(opnd))
    BY OverflowTestsExact
  <1>6. fl \in SUBSET FlagBits /\ (CF \notin flags => fl = flags)
    <2> HIDE DEF one
    <2> QED BY CarryInKeepsFlags
  <1>7. /\ Describes(flags', res)
        /\ flags \cap {CF, OF} = {} =>
              /\ CF \in flags' <=> res < dest
              /\ OF \in flags' <=> of
    <2> HIDE DEF res, aux, over
    <2> QED BY <1>1, <1>3, <1>4, <1>6, ChainFlags
  <1>8. res < dest <=> dest + opnd \notin Values
    BY CarryTestsExact
  <1> QED
    BY <1>2, <1>4, <1>5, <1>7, <1>8 DEF OverflowExact

LEMMA SbbEffect ==
    ASSUME NEW opnd \in Values, dest \in Values, flags \in SUBSET FlagBits,
           Sbb(opnd)
    PROVE  /\ dest' = Trunc(dest - opnd)
           /\ dest' \in Values
           /\ Describes(flags', dest')
           /\ flags \cap {CF, OF} = {} =>
                 /\ CF \in flags' <=> dest - opnd \notin Values
                 /\ OverflowExact(flags', Signed(dest) - Signed(opnd))
  <1> DEFINE one == Trunc(dest - 1)
             res == Trunc(dest - opnd)
             over == SubOverflows(dest, opnd, res)
             aux == Low8(res) > Low8(dest)
  <1>1. PICK of \in Outcomes(over),
             fl \in CarryInFlags(one > dest, Low8(one) > Low8(dest),
                                 Negative(dest) /\ ~Negative(one)) :
            flags' = ChainResult(fl, res, res > dest, aux, of)
    BY DEF Sbb, ChainResult
  <1>2. dest' = res /\ res \in Values
    BY TruncReduces DEF Sbb
  <1>3. over \in BOOLEAN /\ (res > dest) \in BOOLEAN /\ aux \in BOOLEAN
    BY SMT DEF SubOverflows
  <1>4. of \in BOOLEAN /\ (SignedWraps \/ ~over => (of <=> over))
    <2> HIDE DEF over
    <2> QED BY <1>3, OutcomesOf
  <1>5. over <=> ~Representable(Signed(dest) - Signed(opnd))
    BY OverflowTestsExact
  <1>6. fl \in SUBSET FlagBits /\ (CF \notin flags => fl = flags)
    <2> HIDE DEF one
    <2> QED BY CarryInKeepsFlags
  <1>7. /\ Describes(flags', res)
        /\ flags \cap {CF, OF} = {} =>
              /\ CF \in flags' <=> res > dest
              /\ OF \in flags' <=> of
    <2> HIDE DEF res, aux, over
    <2> QED BY <1>1, <1>3, <1>4, <1>6, ChainFlags
  <1>8. res > dest <=> dest - opnd \notin Values
    BY CarryTestsExact
  <1> QED
    BY <1>2, <1>4, <1>5, <1>7, <1>8 DEF OverflowExact

-----------------------------------------------------------------------------
(* The invariants. *)

LEMMA OperandIsValue == ASSUME NEW opnd \in Operands PROVE opnd \in Values
  BY OperandsAssumption DEF Values

\* SF and ZF of one result exclude each other, and zero has even parity.
LEMMA DescribedAgree ==
    ASSUME NEW fl, NEW res, Describes(fl, res)
    PROVE  ZF \in fl => PF \in fl /\ SF \notin fl
  <1>1. ~Negative(0)
    BY HalfAssumption DEF Negative, Signed
  <1> QED
    BY <1>1, EvenParityOfZero DEF Describes

Inv == TypeOK /\ ResultFlagsAgree

LEMMA InvInit == Init => Inv
  BY OperandIsValue
  DEF Init, Inv, TypeOK, ResultFlagsAgree, FlagBits, FixedBit, IOPL, ZF

LEMMA InvNext == Inv /\ [Next]_vars => Inv'
  <1> SUFFICES ASSUME dest \in Values, flags \in SUBSET FlagBits, ResultFlagsAgree,
                      [Next]_vars
               PROVE  Inv'
    BY DEF Inv, TypeOK
  <1> USE OperandIsValue, DescribedAgree DEF Inv, TypeOK, ResultFlagsAgree
  <1>1. ASSUME NEW opnd \in Operands, Mov(opnd)
        PROVE  Inv'
    BY <1>1 DEF Mov
  <1>2. ASSUME NEW opnd \in Operands, Add(opnd)
        PROVE  Inv'
    BY <1>2, AddEffect DEF Describes
  <1>3. ASSUME NEW opnd \in Operands, Sub(opnd)
        PROVE  Inv'
    BY <1>3, CmpEffect, TruncReduces DEF Sub, Describes
  <1>4. ASSUME NEW opnd \in Operands, Cmp(opnd)
        PROVE  Inv'
    BY <1>4, CmpEffect DEF Cmp, Describes
  <1>5. ASSUME NEW opnd \in Operands, Adc(opnd)
        PROVE  Inv'
    BY <1>5, AdcEffect DEF Describes
  <1>6. ASSUME NEW opnd \in Operands, Sbb(opnd)
        PROVE  Inv'
    BY <1>6, SbbEffect DEF Describes
  <1>7. CASE Inc
    BY <1>7, IncEffect DEF Describes
  <1>8. CASE Dec
    BY <1>8, DecEffect DEF Describes
  <1>9. CASE Neg
    BY <1>9, TruncReduces DEF Neg
  <1>10. CASE Cmc
    BY <1>10 DEF Cmc, When, FlagBits, CF, ZF, SF, PF
  <1>11. ASSUME NEW bit \in {0, 1}, SetCarry(bit)
         PROVE  Inv'
    BY <1>11 DEF SetCarry, When, FlagBits, CF, ZF, SF, PF
  <1>12. CASE UNCHANGED vars
    BY <1>12 DEF vars
  <1> QED
    BY <1>1, <1>2, <1>3, <1>4, <1>5, <1>6, <1>7, <1>8, <1>9, <1>10, <1>11, <1>12
    DEF Next

(* Every run keeps a value of the operand type and a set of existing flags *)
(* (the destination and RFLAGS after any sequence of OP_S_* macros).       *)
THEOREM TypeCorrect == Spec => []TypeOK
  <1>1. Inv => TypeOK
    BY DEF Inv
  <1> QED
    BY <1>1, InvInit, InvNext, PTL DEF Spec

(* ZF, SF and PF always speak of one result (SET_RESULT_FLAGS).            *)
THEOREM ResultFlagsConsistent == Spec => []ResultFlagsAgree
  <1>1. Inv => ResultFlagsAgree
    BY DEF Inv
  <1> QED
    BY <1>1, InvInit, InvNext, PTL DEF Spec

LEMMA InvHolds == Spec => []Inv
  BY InvInit, InvNext, PTL DEF Spec

-----------------------------------------------------------------------------
(* What CMP decides. *)

LEMMA CondReads ==
    ASSUME NEW fl
    PROVE  /\ Cond(2, fl) <=> CF \in fl
           /\ Cond(3, fl) <=> CF \notin fl
           /\ Cond(4, fl) <=> ZF \in fl
           /\ Cond(5, fl) <=> ZF \notin fl
           /\ Cond(6, fl) <=> CF \in fl \/ ZF \in fl
           /\ Cond(7, fl) <=> CF \notin fl /\ ZF \notin fl
           /\ Cond(12, fl) <=> ~(SF \in fl <=> OF \in fl)
           /\ Cond(13, fl) <=> (SF \in fl <=> OF \in fl)
           /\ Cond(14, fl) <=> ZF \in fl \/ ~(SF \in fl <=> OF \in fl)
           /\ Cond(15, fl) <=> ZF \notin fl /\ (SF \in fl <=> OF \in fl)
  BY DEF Cond

\* The sign of a wrapped difference is wrong exactly when it overflowed.
LEMMA SignOfDifference ==
    ASSUME NEW a \in Values, NEW b \in Values
    PROVE  /\ Signed(a) < Signed(b) <=>
                 ~(Negative(Trunc(a - b)) <=> ~Representable(Signed(a) - Signed(b)))
           /\ Signed(a) = Signed(b) <=> a = b
           /\ Signed(a) \in Int /\ Signed(b) \in Int
  <1>1. ASSUME NEW r \in Values,
               r = IF a >= b THEN a - b ELSE a - b + 2 * Half
        PROVE  Signed(a) < Signed(b) <=>
                 ~(Negative(r) <=> ~Representable(Signed(a) - Signed(b)))
    BY <1>1, HalfAssumption DEF Representable, Signed, Negative, Values
  <1>2. /\ Signed(a) = Signed(b) <=> a = b
        /\ Signed(a) \in Int /\ Signed(b) \in Int
    BY HalfAssumption DEF Signed, Values
  <1> QED
    BY <1>1, <1>2, TruncReduces

(* Whatever ran before it, CMP or SUB leaves flags from which every        *)
(* conditional jump reads the order of its operands (OP_S_CMP, OP_S_SUB    *)
(* and x64execute_jmp_cond), at every operand width.                       *)
THEOREM CmpIsDecisive == Spec => CmpDecidesOrder
  <1>1. ASSUME Inv, NEW opnd \in Operands, Cmp(opnd) \/ Sub(opnd)
        PROVE  OrdersAsCompared(flags', dest, opnd)
    <2> USE <1>1
    <2>1. /\ dest \in Values
          /\ opnd \in Values
          /\ flags \in SUBSET FlagBits
          /\ CmpSetsFlags(opnd)
      BY OperandIsValue DEF Inv, TypeOK, Cmp, Sub
    <2>2. /\ CF \in flags' <=> dest < opnd
          /\ ZF \in flags' <=> dest = opnd
          /\ SF \in flags' <=> Negative(Trunc(dest - opnd))
          /\ OverflowExact(flags', Signed(dest) - Signed(opnd))
      BY <2>1, CmpEffect, CarryTestsExact DEF Describes
    <2>3. /\ Cond(4, flags') <=> dest = opnd
          /\ Cond(5, flags') <=> dest # opnd
          /\ Cond(2, flags') <=> dest < opnd
          /\ Cond(3, flags') <=> dest >= opnd
          /\ Cond(6, flags') <=> dest <= opnd
          /\ Cond(7, flags') <=> dest > opnd
      <3>1. dest \in Int /\ opnd \in Int
        BY <2>1, HalfAssumption DEF Values
      <3> QED
        BY <2>2, <3>1, CondReads
    <2>4. ASSUME SignedWraps \/ Representable(Signed(dest) - Signed(opnd))
          PROVE  /\ Cond(12, flags') <=> Signed(dest) < Signed(opnd)
                 /\ Cond(13, flags') <=> Signed(dest) >= Signed(opnd)
                 /\ Cond(14, flags') <=> Signed(dest) <= Signed(opnd)
                 /\ Cond(15, flags') <=> Signed(dest) > Signed(opnd)
      <3>1. OF \in flags' <=> ~Representable(Signed(dest) - Signed(opnd))
        BY <2>2, <2>4 DEF OverflowExact
      <3>2. Signed(dest) < Signed(opnd) <=> ~(SF \in flags' <=> OF \in flags')
        BY <2>1, <2>2, <3>1, SignOfDifference
      <3>3. /\ Signed(dest) = Signed(opnd) <=> ZF \in flags'
            /\ Signed(dest) \in Int /\ Signed(opnd) \in Int
        BY <2>1, <2>2, SignOfDifference
      <3> QED
        BY <3>2, <3>3, CondReads
    <2> QED
      BY <2>3, <2>4 DEF OrdersAsCompared
  <1>2. Inv /\ [Next]_vars =>
           [\A opnd \in Operands :
               Cmp(opnd) \/ Sub(opnd) => OrdersAsCompared(flags', dest, opnd)]_vars
    BY <1>1
  <1> QED
    BY <1>2, InvHolds, PTL DEF Spec, CmpDecidesOrder

(* ADD reports the unsigned overflow in CF and the signed one in OF, INC   *)
(* and DEC report the signed one and keep CF (OP_S_ADD, OP_S_INC, OP_S_DEC)*)
THEOREM OverflowIsReported == Spec => OverflowReported
  <1> DEFINE Reported ==
         /\ \A opnd \in Operands : Add(opnd) =>
               /\ CF \in flags' <=> dest + opnd \notin Values
               /\ OverflowExact(flags', Signed(dest) + Signed(opnd))
         /\ Inc => /\ CF \in flags' <=> CF \in flags
                   /\ OverflowExact(flags', Signed(dest) + 1)
         /\ Dec => /\ CF \in flags' <=> CF \in flags
                   /\ OverflowExact(flags', Signed(dest) - 1)
  <1>1. ASSUME Inv
        PROVE  Reported
    BY <1>1, OperandIsValue, AddEffect, IncEffect, DecEffect DEF Inv, TypeOK
  <1>2. Inv /\ [Next]_vars => [Reported]_vars
    BY <1>1
  <1> QED
    BY <1>2, InvHolds, PTL DEF Spec, OverflowReported

(* An ADC (SBB) chain that starts with CF and OF clear starts exactly      *)
(* (OP_S_ADC, OP_S_SBB).                                                   *)
THEOREM ChainsStartExactly == Spec => ChainStartsExactly
  <1> DEFINE Exact ==
         \A opnd \in Operands : flags \cap {CF, OF} = {} =>
            /\ Adc(opnd) =>
                  /\ dest' = Trunc(dest + opnd)
                  /\ CF \in flags' <=> dest + opnd \notin Values
                  /\ OverflowExact(flags', Signed(dest) + Signed(opnd))
            /\ Sbb(opnd) =>
                  /\ dest' = Trunc(dest - opnd)
                  /\ CF \in flags' <=> dest - opnd \notin Values
                  /\ OverflowExact(flags', Signed(dest) - Signed(opnd))
  <1>1. ASSUME Inv
        PROVE  Exact
    BY <1>1, OperandIsValue, AdcEffect, SbbEffect DEF Inv, TypeOK
  <1>2. Inv /\ [Next]_vars => [Exact]_vars
    BY <1>1
  <1> QED
    BY <1>2, InvHolds, PTL DEF Spec, ChainStartsExactly
=============================================================================
