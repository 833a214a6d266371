-------------------------- MODULE X64RFlagsProofs --------------------------
(***************************************************************************)
(* Theorems about X64RFlags, for all images, and runs of any length.       *)
(***************************************************************************)
EXTENDS X64RFlags, TLAPS, SequenceTheorems

\* What the masks may hold, as far as the theorems need it.
Privileged == {FixedBit} \cup IOPL
Forbidden == Reserved \cup {RF, VM, VIF, VIP}

\* The flags may change this way.
Allowed(fl, new) ==
    /\ new \subseteq AllBits
    /\ new \cap Forbidden \subseteq fl
    /\ new \cap Privileged = fl \cap Privileged

-----------------------------------------------------------------------------
\* No mask of bits to update holds a forbidden or a privileged bit, and what
\* is preserved besides holds the privileged ones.
LEMMA MasksAreSafe ==
    /\ \A b \in PopfUpdated \cup PopfqUpdated \cup AhMask \cup {IF_, DF} \cup Status :
          b \in AllBits /\ b \notin Forbidden /\ b \notin Privileged
    /\ \A b \in Privileged : b \in PopfPreserved /\ b \in PopfqPreserved
  BY DEF PopfUpdated, PopfqUpdated, PopfPreserved, PopfqPreserved, AhMask, Forbidden,
         Privileged, AllBits, Reserved, Status, CF, PF, AF, ZF, SF, TF, IF_, DF, OF,
         IOPL, NT, RF, VM, AC, VIF, VIP, ID, FixedBit

LEMMA FlagWrites ==
    ASSUME NEW fl \in SUBSET AllBits
    PROVE  /\ \A set : Allowed(fl, (fl \cap PopfPreserved) \cup (set \cap PopfUpdated))
           /\ \A set : Allowed(fl, (fl \cap PopfqPreserved) \cup (set \cap PopfqUpdated))
           /\ \A set : Allowed(fl, (fl \ AhMask) \cup (set \cap AhMask))
           /\ \A bit \in {IF_, DF}, c \in BOOLEAN : Allowed(fl, (fl \ {bit}) \cup When(c, bit))
           /\ \A set \in SUBSET Status : Allowed(fl, (fl \ Status) \cup set)
  <1>1. \A set : Allowed(fl, (fl \cap PopfPreserved) \cup (set \cap PopfUpdated))
    BY MasksAreSafe DEF Allowed
  <1>2. \A set : Allowed(fl, (fl \cap PopfqPreserved) \cup (set \cap PopfqUpdated))
    BY MasksAreSafe DEF Allowed
  <1>3. \A set : Allowed(fl, (fl \ AhMask) \cup (set \cap AhMask))
    BY MasksAreSafe DEF Allowed
  <1>4. \A bit \in {IF_, DF}, c \in BOOLEAN : Allowed(fl, (fl \ {bit}) \cup When(c, bit))
    BY MasksAreSafe DEF Allowed, When
  <1>5. \A set \in SUBSET Status : Allowed(fl, (fl \ Status) \cup set)
    BY MasksAreSafe DEF Allowed
  <1> QED
    BY <1>1, <1>2, <1>3, <1>4, <1>5

-----------------------------------------------------------------------------
(* What pushing and popping does to the two stacks. *)

Origins == (SUBSET (0 .. 64)) \X (0 .. 3)

Stacks ==
    /\ stack \in Seq(SUBSET Unit)
    /\ origin \in Seq(Origins)
    /\ Len(origin) = Len(stack)
    /\ Len(stack) <= MaxUnits

LEMMA QuarterIsUnit == \A image, i : Quarter(image, i) \in SUBSET Unit
  BY DEF Quarter

LEMMA ConcatFour ==
    ASSUME NEW S, NEW s \in Seq(S), NEW t \in Seq(S), Len(t) = 4
    PROVE  s \o t \in Seq(S) /\ Len(s \o t) = Len(s) + 4
  <1>1. s \o t \in Seq(S)
    BY ConcatProperties
  <1>2. Len(s \o t) = Len(s) + Len(t)
    BY ConcatProperties
  <1> QED
    BY <1>1, <1>2

LEMMA PushKeepsStacks ==
    ASSUME Stacks, NEW image, NEW of \in SUBSET (0 .. 64),
           Push16(image, of) \/ Push64(image, of)
    PROVE  Stacks'
  <1>1. CASE Push16(image, of)
    <2>1. Quarter(image, 0) \in SUBSET Unit /\ <<of, 0>> \in Origins
      BY QuarterIsUnit DEF Origins
    <2>2. /\ Append(stack, Quarter(image, 0)) \in Seq(SUBSET Unit)
          /\ Append(origin, <<of, 0>>) \in Seq(Origins)
          /\ Len(Append(stack, Quarter(image, 0))) = Len(stack) + 1
          /\ Len(Append(origin, <<of, 0>>)) = Len(origin) + 1
      BY <2>1 DEF Stacks
    <2> QED
      BY <1>1, <2>2 DEF Push16, Stacks
  <1>2. CASE Push64(image, of)
    <2> DEFINE units == [i \in 1 .. 4 |-> Quarter(image, 4 - i)]
               parts == [i \in 1 .. 4 |-> <<of, 4 - i>>]
    <2>1. units \in Seq(SUBSET Unit) /\ Len(units) = 4
      BY QuarterIsUnit
    <2>2. parts \in Seq(Origins) /\ Len(parts) = 4
      <3>1. ASSUME NEW i \in 1 .. 4
            PROVE  <<of, 4 - i>> \in Origins
        <4>1. 4 - i \in 0 .. 3
          OBVIOUS
        <4> QED
          BY <4>1 DEF Origins
      <3>2. parts \in [1 .. 4 -> Origins]
        BY <3>1
      <3> QED
        BY <3>2
    <2>3. /\ stack' = stack \o units
          /\ origin' = origin \o parts
          /\ Len(stack) + 4 <= MaxUnits
      BY <1>2 DEF Push64
    <2> HIDE DEF units, parts
    <2>4. /\ stack \o units \in Seq(SUBSET Unit)
          /\ origin \o parts \in Seq(Origins)
          /\ Len(stack \o units) = Len(stack) + 4
          /\ Len(origin \o parts) = Len(origin) + 4
      <3>1. /\ stack \in Seq(SUBSET Unit)
            /\ origin \in Seq(Origins)
        BY DEF Stacks
      <3> QED
        BY <2>1, <2>2, <3>1, ConcatFour
    <2>5. Len(origin) = Len(stack)
      BY DEF Stacks
    <2> QED
      BY <2>3, <2>4, <2>5 DEF Stacks
  <1> QED
    BY <1>1, <1>2

LEMMA PopKeepsStacks ==
    ASSUME Stacks, NEW n \in Nat, n <= Len(stack), Pop(n)
    PROVE  Stacks'
  <1>1. Len(stack) - n \in 0 .. Len(stack) /\ Len(stack) \in Nat
    BY DEF Stacks
  <1>2. /\ SubSeq(stack, 1, Len(stack) - n) \in Seq(SUBSET Unit)
        /\ Len(SubSeq(stack, 1, Len(stack) - n)) = Len(stack) - n
        /\ SubSeq(origin, 1, Len(stack) - n) \in Seq(Origins)
        /\ Len(SubSeq(origin, 1, Len(stack) - n)) = Len(stack) - n
    BY <1>1 DEF Stacks
  <1> QED
    BY <1>1, <1>2, BoundsAssumption DEF Stacks, Pop, Drop

-----------------------------------------------------------------------------
(* The invariant.  Only the flags matter to what may be set in them; the   *)
(* other registers and the stack only need their types.                    *)

FlagsInv ==
    /\ flags \subseteq AllBits
    /\ NoForbiddenBit
    /\ PrivilegeUntilSyscall

Inv ==
    /\ running \in BOOLEAN /\ syscalled \in BOOLEAN
    /\ instrs \in 0 .. MaxInstrs
    /\ r11 \subseteq AllBits
    /\ ah \subseteq Byte
    /\ entryFlags \in SUBSET (0 .. 64)
    /\ Stacks
    /\ FlagsInv

\* A permitted change of the flags keeps what is claimed of them.
LEMMA AllowedKeepsFlags ==
    ASSUME FlagsInv, Allowed(flags, flags'), syscalled' = syscalled
    PROVE  FlagsInv'
  BY DEF FlagsInv, Allowed, NoForbiddenBit, PrivilegeUntilSyscall, Privileged, Forbidden

LEMMA InvInit == Init => Inv
  <1> SUFFICES ASSUME Init
               PROVE  Inv
    OBVIOUS
  <1>1. FlagsInv
    BY DEF Init, FlagsInv, NoForbiddenBit, PrivilegeUntilSyscall, AllBits, Reserved,
           FixedBit, IOPL, RF, VM, VIF, VIP
  <1>2. Stacks
    <2>1. stack = <<>> /\ origin = <<>>
      BY DEF Init
    <2>2. stack \in Seq(SUBSET Unit) /\ Len(stack) = 0
      BY <2>1, EmptySeq
    <2>3. origin \in Seq(Origins) /\ Len(origin) = 0
      BY <2>1, EmptySeq
    <2> QED
      BY <2>2, <2>3, BoundsAssumption DEF Stacks
  <1>3. running \in BOOLEAN /\ syscalled \in BOOLEAN
    BY Zenon DEF Init
  <1>4. /\ instrs \in 0 .. MaxInstrs
        /\ r11 \subseteq AllBits
        /\ ah \subseteq Byte
        /\ entryFlags \in SUBSET (0 .. 64)
    <2>1. instrs = 0 /\ r11 = {} /\ ah = {} /\ entryFlags = {64}
      BY DEF Init, Nothing
    <2> QED
      BY <2>1, BoundsAssumption
  <1> QED
    BY <1>1, <1>2, <1>3, <1>4 DEF Inv

LEMMA BitsFit ==
    /\ \A image : image \cap Byte \subseteq Byte
    /\ (AhMask \cup {FixedBit}) \subseteq Byte
    /\ \A fl : fl \subseteq AllBits => fl \in SUBSET (0 .. 64)
    /\ Nothing \in SUBSET (0 .. 64)
  BY DEF Byte, AhMask, FixedBit, CF, PF, AF, ZF, SF, AllBits, Nothing

LEMMA InvNext == Inv /\ [Next]_vars => Inv'
  <1> SUFFICES ASSUME Inv, [Next]_vars
               PROVE  Inv'
    OBVIOUS
  <1> USE DEF Inv
  <1>1. CASE UNCHANGED vars
    BY <1>1 DEF vars, cpu, history, Stacks, FlagsInv, NoForbiddenBit, PrivilegeUntilSyscall
  <1>2. CASE Next
    <2>1. instrs' \in 0 .. MaxInstrs
      BY <1>2, BoundsAssumption DEF Next
    <2>2. ASSUME UNCHANGED <<flags, syscalled>>
          PROVE  FlagsInv'
      BY <2>2 DEF FlagsInv, NoForbiddenBit, PrivilegeUntilSyscall
    <2>3. ASSUME UNCHANGED <<stack, origin>>
          PROVE  Stacks'
      BY <2>3 DEF Stacks
    <2>4. /\ Stacks /\ FlagsInv
          /\ flags \in SUBSET AllBits
          /\ Len(stack) \in Nat
      BY DEF Stacks, FlagsInv
    <2>5. CASE Pushf
      BY <2>1, <2>2, <2>4, <2>5, PushKeepsStacks, BitsFit DEF Pushf, Keeping
    <2>6. CASE Pushfq
      BY <2>1, <2>2, <2>4, <2>6, PushKeepsStacks, BitsFit DEF Pushfq, Keeping
    <2>7. CASE Popf
      <3>1. Allowed(flags, flags')
        BY <2>4, <2>7, FlagWrites DEF Popf
      <3>2. Stacks'
        BY <2>4, <2>7, PopKeepsStacks DEF Popf
      <3> QED
        BY <2>1, <2>4, <2>7, <3>1, <3>2, AllowedKeepsFlags DEF Popf, Keeping
    <2>8. CASE Popfq
      <3>1. Allowed(flags, flags')
        BY <2>4, <2>8, FlagWrites DEF Popfq
      <3>2. Stacks'
        BY <2>4, <2>8, PopKeepsStacks DEF Popfq
      <3> QED
        BY <2>1, <2>4, <2>8, <3>1, <3>2, AllowedKeepsFlags DEF Popfq, Keeping
    <2>9. CASE Sahf
      <3>1. Allowed(flags, flags')
        BY <2>4, <2>9, FlagWrites DEF Sahf
      <3> QED
        BY <2>1, <2>3, <2>4, <2>9, <3>1, AllowedKeepsFlags DEF Sahf, Keeping, history
    <2>10. CASE Lahf
      BY <2>1, <2>2, <2>3, <2>10, BitsFit DEF Lahf, Keeping
    <2>11. ASSUME NEW bit \in {IF_, DF}, NEW op \in {0, 1}, SetBit(bit, op)
           PROVE  Inv'
      <3>1. Allowed(flags, flags')
        <4>1. (op % 2 = 1) \in BOOLEAN
          OBVIOUS
        <4> QED
          BY <2>4, <2>11, <4>1, FlagWrites DEF SetBit
      <3> QED
        BY <2>1, <2>3, <2>4, <2>11, <3>1, AllowedKeepsFlags DEF SetBit, Keeping, history
    <2>12. CASE Arithmetic
      <3>1. Allowed(flags, flags')
        BY <2>4, <2>12, FlagWrites, StatusSetsAssumption DEF Arithmetic
      <3> QED
        BY <2>1, <2>3, <2>4, <2>12, <3>1, AllowedKeepsFlags DEF Arithmetic, Keeping, history
    <2>13. CASE PushImage
      BY <2>1, <2>2, <2>4, <2>13, PushKeepsStacks, BitsFit DEF PushImage, Keeping
    <2>14. CASE PushR11
      BY <2>1, <2>2, <2>4, <2>14, PushKeepsStacks, BitsFit DEF PushR11, Keeping
    <2>15. CASE LoadAh
      BY <2>1, <2>2, <2>3, <2>15, BitsFit DEF LoadAh, Keeping
    <2>16. ASSUME EnterKernel
           PROVE  /\ r11' \subseteq AllBits
                  /\ syscalled' \in BOOLEAN
                  /\ entryFlags' \in SUBSET (0 .. 64)
                  /\ Stacks'
                  /\ FlagsInv'
      BY <2>3, <2>4, <2>16, BitsFit
      DEF EnterKernel, FlagsInv, NoForbiddenBit, PrivilegeUntilSyscall
    <2>17. CASE SysWrite
      BY <2>1, <2>16, <2>17, BitsFit DEF SysWrite, Keeping
    <2>18. CASE SysStop
      BY <2>1, <2>16, <2>18 DEF SysStop
    <2> QED
      BY <1>2, <2>5, <2>6, <2>7, <2>8, <2>9, <2>10, <2>11, <2>12, <2>13, <2>14,
         <2>15, <2>17, <2>18 DEF Next, Instruction
  <1> QED
    BY <1>1, <1>2

LEMMA InvHolds == Spec => []Inv
  BY InvInit, InvNext, PTL DEF Spec

(* The registers, the stack and its history keep their types in every run. *)
THEOREM TypeCorrect == Spec => []TypeOK
  <1>1. Inv => TypeOK
    BY DEF Inv, FlagsInv, Stacks, TypeOK
  <1> QED
    BY <1>1, InvHolds, PTL

(* No sequence of instructions, whatever images the guest pops, sets a     *)
(* reserved bit, RF, VM, VIF or VIP (execute.c, POPF and SAHF).            *)
THEOREM ForbiddenBitsStayClear == Spec => []NoForbiddenBit
  <1>1. Inv => NoForbiddenBit
    BY DEF Inv, FlagsInv
  <1> QED
    BY <1>1, InvHolds, PTL

(* Bit 1 and IOPL are set until the first SYSCALL and clear ever after     *)
(* (x64emu_init, x64syscall, and the masks of POPF).                       *)
THEOREM PrivilegeLastsUntilSyscall == Spec => []PrivilegeUntilSyscall
  <1>1. Inv => PrivilegeUntilSyscall
    BY DEF Inv, FlagsInv
  <1> QED
    BY <1>1, InvHolds, PTL
-----------------------------------------------------------------------------
(* Saved flags come back.                                                  *)

\* The units of a stack hold the flags the guest owns as their origins have
\* them.
Imaged(s, o) ==
    \A k \in 1 .. Len(s) : o[k][1] # Nothing =>
        \A b \in UserFlags : b \div 16 = o[k][2] => (b % 16 \in s[k] <=> b \in o[k][1])

\* What the histories say of the stack, R11 and AH is so.
Remembered ==
    /\ Imaged(stack, origin)
    /\ entryFlags # Nothing => r11 = entryFlags
    /\ ahOrigin # Nothing => ah = (ahOrigin \cap AhMask) \cup {FixedBit}

\* The masks of POPF write what the guest owns and keep what else can be set;
\* PUSHFQ stores all the guest owns.
LEMMA MasksAreOwned ==
    /\ \A b : b \in UserFlags <=> b \in PopfqUpdated
    /\ \A b : b \in ShortFlags <=> b \in PopfUpdated
    /\ \A b \in UserFlags : b \in PushfqMask /\ b \in AllBits /\ b \notin PopfqPreserved
    /\ \A b \in ShortFlags : b \in UserFlags /\ b \in Unit /\ b \notin PopfPreserved
    /\ \A b \in AllBits : b \in UserFlags \/ b \in PopfqPreserved \/ b \in Forbidden
    /\ \A b \in AllBits : b \in ShortFlags \/ b \in PopfPreserved \/ b \in Forbidden
    /\ \A b : b \in AhMask <=> b \in Status \ {OF}
    /\ FixedBit \notin AhMask
BY DEF UserFlags, ShortFlags, Unit, AllBits, PopfqUpdated, PopfUpdated, PopfqPreserved, PopfPreserved,
       PushfqMask, AhMask, Forbidden, Reserved, Status, CF, PF, AF, ZF, SF, TF, IF_, DF, OF, IOPL, NT,
       RF, VM, AC, VIF, VIP, ID, FixedBit

LEMMA QuarterHolds ==
    ASSUME NEW image, NEW b \in AllBits
    PROVE  b % 16 \in Quarter(image, b \div 16) <=> b \in image
<1>1. b % 16 \in Unit /\ (b % 16) + 16 * (b \div 16) = b
  BY DEF AllBits, Unit
<1> QED
  BY <1>1 DEF Quarter

LEMMA JoinedFour ==
    ASSUME NEW S, NEW T, NEW s \in Seq(S), NEW t \in Seq(T), Len(t) = 4
    PROVE  /\ Len(s \o t) = Len(s) + 4
           /\ \A k \in 1 .. Len(s) : (s \o t)[k] = s[k]
           /\ \A k \in Len(s) + 1 .. Len(s) + 4 : (s \o t)[k] = t[k - Len(s)]
<1>1. s \in Seq(S \cup T) /\ t \in Seq(S \cup T)
  OBVIOUS
<1>2. /\ Len(s \o t) = Len(s) + Len(t)
      /\ \A k \in 1 .. Len(s) + Len(t) :
            (s \o t)[k] = IF k <= Len(s) THEN s[k] ELSE t[k - Len(s)]
  BY <1>1, ConcatProperties
<1>3. Len(s) \in Nat
  OBVIOUS
<1> QED
  BY <1>2, <1>3

\* A push of an image that agrees with its origin, and a pop, keep the units
\* what their origins say.
LEMMA PushKeepsImages ==
    ASSUME Stacks, Imaged(stack, origin), NEW image, NEW of,
           of # Nothing => \A b \in UserFlags : b \in image <=> b \in of,
           Push16(image, of) \/ Push64(image, of)
    PROVE  Imaged(stack, origin)'
<1>1. /\ stack \in Seq(SUBSET Unit) /\ origin \in Seq(Origins)
      /\ Len(origin) = Len(stack) /\ Len(stack) \in Nat
  BY DEF Stacks
<1>2. ASSUME NEW q, of # Nothing, NEW b \in UserFlags, b \div 16 = q
      PROVE  b % 16 \in Quarter(image, q) <=> b \in of
  BY <1>2, QuarterHolds, MasksAreOwned
<1>3. CASE Push16(image, of)
  <2>1. stack' = Append(stack, Quarter(image, 0)) /\ origin' = Append(origin, <<of, 0>>)
    BY <1>3 DEF Push16
  <2> SUFFICES ASSUME NEW k \in 1 .. Len(stack'), origin'[k][1] # Nothing,
                      NEW b \in UserFlags, b \div 16 = origin'[k][2]
               PROVE  b % 16 \in stack'[k] <=> b \in origin'[k][1]
    BY DEF Imaged
  <2>2. CASE k \in 1 .. Len(stack)
    <3>1. stack'[k] = stack[k] /\ origin'[k] = origin[k]
      BY <1>1, <2>1, <2>2
    <3> QED
      BY <2>2, <3>1 DEF Imaged
  <2>3. CASE k \notin 1 .. Len(stack)
    <3>1. k = Len(stack) + 1
      BY <1>1, <2>1, <2>3
    <3>2. stack'[k] = Quarter(image, 0) /\ origin'[k] = <<of, 0>>
      BY <1>1, <2>1, <3>1
    <3> QED
      BY <1>2, <3>2
  <2> QED
    BY <2>2, <2>3
<1>4. CASE Push64(image, of)
  <2> DEFINE units == [i \in 1 .. 4 |-> Quarter(image, 4 - i)]
             parts == [i \in 1 .. 4 |-> <<of, 4 - i>>]
  <2>1. stack' = stack \o units /\ origin' = origin \o parts
    BY <1>4 DEF Push64
  <2>2. /\ units \in Seq(SUBSET Unit) /\ Len(units) = 4
        /\ parts \in Seq({of} \X Int) /\ Len(parts) = 4
        /\ \A j \in 1 .. 4 : units[j] = Quarter(image, 4 - j) /\ parts[j] = <<of, 4 - j>>
    BY QuarterIsUnit
  <2> HIDE DEF units, parts
  <2>3. /\ Len(stack') = Len(stack) + 4
        /\ \A k \in 1 .. Len(stack) : stack'[k] = stack[k]
        /\ \A k \in Len(stack) + 1 .. Len(stack) + 4 : stack'[k] = units[k - Len(stack)]
    <3>1. /\ Len(stack \o units) = Len(stack) + 4
          /\ \A k \in 1 .. Len(stack) : (stack \o units)[k] = stack[k]
          /\ \A k \in Len(stack) + 1 .. Len(stack) + 4 : (stack \o units)[k] = units[k - Len(stack)]
      <4>1. PICK s \in Seq(SUBSET Unit) : s = stack
        BY <1>1
      <4>2. PICK t \in Seq(SUBSET Unit) : t = units /\ Len(t) = 4
        BY <2>2
      <4>3. /\ Len(s \o t) = Len(s) + 4
            /\ \A k \in 1 .. Len(s) : (s \o t)[k] = s[k]
            /\ \A k \in Len(s) + 1 .. Len(s) + 4 : (s \o t)[k] = t[k - Len(s)]
        BY <4>2, JoinedFour
      <4> QED
        BY <4>1, <4>2, <4>3, Zenon
    <3> QED
      BY <2>1, <3>1, Zenon
  <2>4. /\ \A k \in 1 .. Len(stack) : origin'[k] = origin[k]
        /\ \A k \in Len(stack) + 1 .. Len(stack) + 4 : origin'[k] = parts[k - Len(stack)]
    <3>1. /\ \A k \in 1 .. Len(origin) : (origin \o parts)[k] = origin[k]
          /\ \A k \in Len(origin) + 1 .. Len(origin) + 4 : (origin \o parts)[k] = parts[k - Len(origin)]
      <4>1. origin \in Seq(Origins) /\ parts \in Seq({of} \X Int) /\ Len(parts) = 4
        BY <1>1, <2>2
      <4> QED
        BY <4>1, JoinedFour
    <3>2. Len(origin) = Len(stack)
      BY <1>1
    <3> QED
      BY <2>1, <3>1, <3>2, Zenon
  <2> SUFFICES ASSUME NEW k \in 1 .. Len(stack'), origin'[k][1] # Nothing,
                      NEW b \in UserFlags, b \div 16 = origin'[k][2]
               PROVE  b % 16 \in stack'[k] <=> b \in origin'[k][1]
    BY DEF Imaged
  <2>5. CASE k \in 1 .. Len(stack)
    BY <2>3, <2>4, <2>5 DEF Imaged
  <2>6. CASE k \notin 1 .. Len(stack)
    <3>1. PICK j \in 1 .. 4 : k = Len(stack) + j /\ k - Len(stack) = j
      <4>1. k - Len(stack) \in 1 .. 4 /\ k = Len(stack) + (k - Len(stack))
        BY <1>1, <2>3, <2>6
      <4> QED
        BY <4>1
    <3>2. k \in Len(stack) + 1 .. Len(stack) + 4
      BY <1>1, <3>1
    <3>3. stack'[k] = Quarter(image, 4 - j) /\ origin'[k] = <<of, 4 - j>>
      <4>1. stack'[k] = units[j] /\ origin'[k] = parts[j]
        BY <2>3, <2>4, <3>1, <3>2, Zenon
      <4>2. units[j] = Quarter(image, 4 - j) /\ parts[j] = <<of, 4 - j>>
        BY <2>2
      <4> QED
        BY <4>1, <4>2
    <3> QED
      BY <1>2, <3>3
  <2> QED
    BY <2>5, <2>6
<1> QED
  BY <1>3, <1>4

LEMMA PopKeepsImages ==
    ASSUME Stacks, Imaged(stack, origin), NEW n \in Nat, n <= Len(stack), Pop(n)
    PROVE  Imaged(stack, origin)'
<1>1. Len(stack) - n \in 0 .. Len(stack) /\ Len(stack) \in Nat /\ Len(origin) = Len(stack)
  BY DEF Stacks
<1>2. /\ Len(stack') = Len(stack) - n
      /\ \A k \in 1 .. Len(stack) - n : stack'[k] = stack[k] /\ origin'[k] = origin[k]
  BY <1>1 DEF Stacks, Pop, Drop
<1> QED
  BY <1>1, <1>2 DEF Imaged

LEMMA RememberedNext ==
    ASSUME Inv, Remembered, [Next]_vars
    PROVE  Remembered'
<1>1. Stacks /\ Len(stack) \in Nat
  BY DEF Inv, Stacks
<1>2. Imaged(stack, origin)
  BY DEF Remembered
<1>3. ASSUME UNCHANGED <<stack, origin>> PROVE Imaged(stack, origin)'
  BY <1>2, <1>3 DEF Imaged
<1>4. ASSUME UNCHANGED <<r11, entryFlags, ah, ahOrigin>>, Imaged(stack, origin)'
      PROVE  Remembered'
  BY <1>4 DEF Remembered
<1>5. CASE UNCHANGED vars
  BY <1>3, <1>4, <1>5 DEF vars, cpu, history
<1>6. CASE Pushf
  BY <1>1, <1>2, <1>4, <1>6, PushKeepsImages DEF Pushf, Keeping
<1>7. CASE Pushfq
  <2>1. \A b \in UserFlags : b \in flags \cap PushfqMask <=> b \in flags
    BY MasksAreOwned
  <2>2. Imaged(stack, origin)'
    BY <1>1, <1>2, <1>7, <2>1, PushKeepsImages DEF Pushfq
  <2> QED
    BY <1>4, <1>7, <2>2 DEF Pushfq, Keeping
<1>8. CASE Popf
  BY <1>1, <1>2, <1>4, <1>8, PopKeepsImages DEF Popf, Keeping
<1>9. CASE Popfq
  BY <1>1, <1>2, <1>4, <1>9, PopKeepsImages DEF Popfq, Keeping
<1>10. CASE Sahf \/ Arithmetic \/ \E bit \in {IF_, DF}, op \in {0, 1} : SetBit(bit, op)
  BY <1>3, <1>4, <1>10 DEF Sahf, Arithmetic, SetBit, Keeping, history
<1>11. CASE Lahf
  <2>1. UNCHANGED <<stack, origin, r11, entryFlags>> /\ ah' = (ahOrigin' \cap AhMask) \cup {FixedBit}
    BY <1>11 DEF Lahf, Keeping
  <2> QED
    BY <1>3, <2>1 DEF Remembered
<1>12. CASE PushImage
  <2>1. PICK image \in Images : Push16(image, Nothing) \/ Push64(image, Nothing)
    BY <1>12 DEF PushImage
  <2>2. Imaged(stack, origin)'
    BY <1>1, <1>2, <2>1, PushKeepsImages
  <2> QED
    BY <1>4, <1>12, <2>2 DEF PushImage, Keeping
<1>13. CASE PushR11
  <2>1. entryFlags # Nothing => \A b \in UserFlags : b \in r11 <=> b \in entryFlags
    BY DEF Remembered
  <2>2. Imaged(stack, origin)'
    BY <1>1, <1>2, <1>13, <2>1, PushKeepsImages DEF PushR11
  <2> QED
    BY <1>4, <1>13, <2>2 DEF PushR11, Keeping
<1>14. CASE LoadAh
  <2>1. UNCHANGED <<stack, origin, r11, entryFlags>> /\ ahOrigin' = Nothing
    BY <1>14 DEF LoadAh, Keeping
  <2> QED
    BY <1>3, <2>1 DEF Remembered
<1>15. CASE SysWrite
  <2>1. UNCHANGED <<stack, origin>> /\ r11' = entryFlags' /\ ahOrigin' = Nothing
    BY <1>15 DEF SysWrite, EnterKernel
  <2> QED
    BY <1>3, <2>1 DEF Remembered
<1>16. CASE SysStop
  <2>1. UNCHANGED <<stack, origin, ah, ahOrigin>> /\ r11' = entryFlags'
    BY <1>16 DEF SysStop, EnterKernel
  <2> QED
    BY <1>3, <2>1 DEF Remembered
<1> QED
  BY <1>5, <1>6, <1>7, <1>8, <1>9, <1>10, <1>11, <1>12, <1>13, <1>14, <1>15, <1>16
     DEF Next, Instruction

LEMMA RememberedHolds == Spec => []Remembered
<1>1. Init => Remembered
  <2> SUFFICES ASSUME Init PROVE Remembered
    OBVIOUS
  <2>1. stack = <<>> /\ ahOrigin = Nothing /\ entryFlags = Nothing
    BY DEF Init
  <2> QED
    BY <2>1 DEF Remembered, Imaged
<1> QED
  BY <1>1, RememberedNext, InvHolds, PTL DEF Spec

LEMMA PopfqRestores ==
    ASSUME Inv, Remembered, Popfq, OriginOf(4) # Nothing
    PROVE  RestoresOnly(UserFlags, OriginOf(4))
<1>1. PICK of : of = origin[Len(origin)][1]
  OBVIOUS
<1>2. Len(stack) \in Nat /\ Len(stack) >= 4 /\ Len(origin) = Len(stack) /\ flags \subseteq AllBits
  BY DEF Inv, Stacks, FlagsInv, Popfq
<1>3. /\ OriginOf(4) = of /\ of # Nothing
      /\ \A i \in 0 .. 3 : origin[Len(origin) - i] = <<of, i>>
  BY <1>1 DEF OriginOf
<1>4. ASSUME NEW b \in UserFlags PROVE b \in Top64 <=> b \in of
  <2>1. b \in AllBits /\ b \div 16 \in 0 .. 3
    BY MasksAreOwned DEF AllBits
  <2>2. PICK q \in 0 .. 3 : q = b \div 16
    BY <2>1
  <2>3. Len(stack) - q \in 1 .. Len(stack) /\ origin[Len(stack) - q] = <<of, q>>
    BY <1>2, <1>3
  <2>4. PICK k \in 1 .. Len(stack) : k = Len(stack) - q
    BY <2>3
  <2>5. origin[k][1] = of /\ origin[k][2] = q
    BY <2>3, <2>4
  <2>6. b % 16 \in stack[k] <=> b \in of
    <3>1. \A c \in UserFlags : c \div 16 = origin[k][2]
                               => (c % 16 \in stack[k] <=> c \in origin[k][1])
      BY <1>3, <2>5 DEF Remembered, Imaged
    <3> QED
      BY <2>2, <2>5, <3>1
  <2> QED
    BY <2>1, <2>2, <2>4, <2>6 DEF Top64
<1>5. flags' = (flags \cap PopfqPreserved) \cup (Top64 \cap PopfqUpdated)
  BY DEF Popfq
<1>6. \A b \in flags : b \notin Forbidden
  BY DEF Inv, FlagsInv, NoForbiddenBit, Forbidden
<1>7. flags' \cap UserFlags = of \cap UserFlags
  BY <1>4, <1>5, MasksAreOwned
<1>8. flags' \ UserFlags = flags \ UserFlags
  BY <1>2, <1>5, <1>6, MasksAreOwned
<1> QED
  BY <1>3, <1>7, <1>8 DEF RestoresOnly

LEMMA PopfRestores ==
    ASSUME Inv, Remembered, Popf, OriginOf(1) # Nothing
    PROVE  RestoresOnly(ShortFlags, OriginOf(1))
<1>1. PICK of : of = origin[Len(origin)][1]
  OBVIOUS
<1>2. Len(stack) \in Nat /\ Len(stack) >= 1 /\ Len(origin) = Len(stack) /\ flags \subseteq AllBits
  BY DEF Inv, Stacks, FlagsInv, Popf
<1>3. /\ OriginOf(1) = of /\ of # Nothing
      /\ origin[Len(origin)] = <<of, 0>>
  <2>1. (\A i \in 0 .. 1 - 1 : origin[Len(origin) - i] = <<of, i>>) /\ OriginOf(1) = of
    BY <1>1 DEF OriginOf
  <2>2. 0 \in 0 .. 1 - 1 /\ Len(origin) - 0 = Len(origin)
    BY <1>2
  <2>3. origin[Len(origin) - 0] = <<of, 0>>
    BY <2>1, <2>2
  <2> QED
    BY <2>1, <2>2, <2>3
<1>4. ASSUME NEW b \in ShortFlags PROVE b \in Top16 <=> b \in of
  <2>1. b \in UserFlags /\ b \in Unit
    BY MasksAreOwned
  <2>2. b \div 16 = 0 /\ b % 16 = b
    BY <2>1 DEF Unit
  <2>3. Len(stack) \in 1 .. Len(stack)
    BY <1>2
  <2>4. b % 16 \in stack[Len(stack)] <=> b \in of
    BY <1>2, <1>3, <2>1, <2>2, <2>3 DEF Remembered, Imaged
  <2> QED
    BY <2>2, <2>4 DEF Top16
<1>5. flags' = (flags \cap PopfPreserved) \cup (Top16 \cap PopfUpdated)
  BY DEF Popf
<1>6. \A b \in flags : b \notin Forbidden
  BY DEF Inv, FlagsInv, NoForbiddenBit, Forbidden
<1>7. flags' \cap ShortFlags = of \cap ShortFlags
  BY <1>4, <1>5, MasksAreOwned
<1>8. flags' \ ShortFlags = flags \ ShortFlags
  BY <1>2, <1>5, <1>6, MasksAreOwned
<1> QED
  BY <1>3, <1>7, <1>8 DEF RestoresOnly

LEMMA SahfRestores ==
    ASSUME Inv, Remembered, Sahf, ahOrigin # Nothing
    PROVE  RestoresOnly(Status \ {OF}, ahOrigin)
<1>1. ah = (ahOrigin \cap AhMask) \cup {FixedBit} /\ flags' = (flags \ AhMask) \cup (ah \cap AhMask)
  BY DEF Remembered, Sahf
<1>2. AhMask = Status \ {OF} /\ FixedBit \notin AhMask
  BY MasksAreOwned
<1> QED
  BY <1>1, <1>2 DEF RestoresOnly

(* Whatever a guest does in between, SYSCALLs included, POPF of the flags  *)
(* that PUSHF or SYSCALL saved, and SAHF of those that LAHF read, restore  *)
(* the flags user code owns and change no other (execute.c, syscall.c).    *)
THEOREM FlagsComeBack == Spec => SavedFlagsComeBack
<1>1. ASSUME Inv, Remembered
      PROVE  /\ Popfq /\ OriginOf(4) # Nothing => RestoresOnly(UserFlags, OriginOf(4))
             /\ Popf /\ OriginOf(1) # Nothing => RestoresOnly(ShortFlags, OriginOf(1))
             /\ Sahf /\ ahOrigin # Nothing => RestoresOnly(Status \ {OF}, ahOrigin)
  BY <1>1, PopfqRestores, PopfRestores, SahfRestores
<1> QED
  BY <1>1, InvHolds, RememberedHolds, PTL DEF SavedFlagsComeBack
=============================================================================
