-------------------------- MODULE X64ControlProofs --------------------------
(***************************************************************************)
(* Proofs about X64Control: its type invariant, and that a guest that      *)
(* keeps to its frames gets the call stack of X64CallStack, for every size *)
(* of the cell, of the stack and of the operands.                          *)
(***************************************************************************)
EXTENDS X64Control, TLAPS

Widths == {1, 2, 4}

-----------------------------------------------------------------------------
(* Products and remainders. *)

LEMMA ProductOrder ==
    ASSUME NEW m \in Nat, NEW a \in Int, NEW b \in Int, a <= b
    PROVE  m * a <= m * b
<1>1. PICK d \in Nat : b = a + d
  <2>1. b - a \in Nat OBVIOUS
  <2> QED BY <2>1
<1>2. m * b = m * a + m * d BY <1>1
<1>3. m * d >= 0 OBVIOUS
<1> QED BY <1>2, <1>3

LEMMA Remainder ==
    ASSUME NEW m \in Nat, m > 0, NEW v \in Int
    PROVE  /\ v % m \in 0 .. m - 1
           /\ v \div m \in Int
           /\ v = m * (v \div m) + (v % m)
OBVIOUS

LEMMA RemainderUnique ==
    ASSUME NEW m \in Nat, m > 0, NEW q \in Int, NEW r \in 0 .. m - 1
    PROVE  (m * q + r) % m = r
<1> DEFINE v == m * q + r
           p == v \div m
           s == v % m
<1>1. v \in Int OBVIOUS
<1>2. s \in 0 .. m - 1 /\ p \in Int /\ v = m * p + s BY <1>1, Remainder
<1> HIDE DEF p, s
<1>3. ~ (p + 1 <= q)
  <2>1. (p + 1 <= q) => (m * (p + 1) <= m * q) BY <1>2, ProductOrder
  <2>2. m * (p + 1) = m * p + m BY <1>2
  <2> QED BY <2>1, <2>2, <1>2
<1>4. ~ (q + 1 <= p)
  <2>1. (q + 1 <= p) => (m * (q + 1) <= m * p) BY <1>2, ProductOrder
  <2>2. m * (q + 1) = m * q + m OBVIOUS
  <2> QED BY <2>1, <2>2, <1>2
<1>5. p = q BY <1>2, <1>3, <1>4
<1>6. s = r BY <1>2, <1>5
<1> QED BY <1>6 DEF s, v

LEMMA QuotientBound ==
    ASSUME NEW m \in Nat, m > 0, NEW k \in Int, NEW v \in Nat, v < m * k
    PROVE  v \div m \in 0 .. k - 1
<1> DEFINE q == v \div m
           r == v % m
<1>1. r \in 0 .. m - 1 /\ q \in Int /\ v = m * q + r BY Remainder
<1> HIDE DEF q, r
<1>2. ~ (k <= q)
  <2>1. (k <= q) => (m * k <= m * q) BY <1>1, ProductOrder
  <2> QED BY <2>1, <1>1
<1>3. ~ (q <= 0 - 1)
  <2>1. (q <= 0 - 1) => (m * q <= m * (0 - 1)) BY <1>1, ProductOrder
  <2>2. m * (0 - 1) = 0 - m OBVIOUS
  <2> QED BY <2>1, <2>2, <1>1
<1> QED BY <1>1, <1>2, <1>3 DEF q

LEMMA Sizes ==
    /\ Base \in Nat /\ Base >= 2
    /\ Half \in Nat /\ Half > 0 /\ Half = Base * Base
    /\ Size \in Nat /\ Size > 0
    /\ Size = Half * Half
    /\ Size = Base * (Base * Half)
    /\ Base * Half \in Nat
<1>1. Base \in Nat /\ Base >= 2 BY BaseAssumption
<1>2. Half \in Nat /\ Half > 0 /\ Half = Base * Base BY <1>1 DEF Half
<1>3. Size = Half * Half BY <1>1 DEF Half, Size
<1>4. Size = Base * (Base * Half) BY <1>1 DEF Half, Size
<1>5. Half * Half \in Nat /\ Half * Half > 0 BY <1>2
<1>6. Base * Half \in Nat BY <1>1, <1>2
<1> QED BY <1>1, <1>2, <1>3, <1>4, <1>5, <1>6

-----------------------------------------------------------------------------
(* Cells: what a write leaves in memory, and what a read finds there. *)

LEMMA CellType ==
    ASSUME NEW v \in Nat, NEW i \in 0 .. 3
    PROVE  Cell(v, i) \in Cells
<1> DEFINE q1 == v \div Base
           q2 == q1 \div Base
           q3 == q2 \div Base
<1>1. q1 \in Int /\ v % Base \in Cells BY Sizes, Remainder DEF Cells
<1>2. q2 \in Int /\ q1 % Base \in Cells BY <1>1, Sizes, Remainder DEF Cells
<1>3. q3 \in Int /\ q2 % Base \in Cells BY <1>2, Sizes, Remainder DEF Cells
<1>4. q3 % Base \in Cells BY <1>3, Sizes, Remainder DEF Cells
<1> HIDE DEF q1, q2, q3
<1>5. Cell(v, i) = CASE i = 0 -> v % Base [] i = 1 -> q1 % Base
                     [] i = 2 -> q2 % Base [] i = 3 -> q3 % Base
  BY DEF Cell, q1, q2, q3
<1> QED BY <1>1, <1>2, <1>3, <1>4, <1>5

LEMMA WriteType ==
    ASSUME NEW m \in [Addresses -> Cells], NEW a \in Int, NEW v \in Nat,
           NEW n \in Widths
    PROVE  Write(m, a, v, n) \in [Addresses -> Cells]
<1>1. ASSUME NEW x \in Addresses, x \in a .. a + n - 1
      PROVE  Cell(v, x - a) \in Cells
  <2>1. x - a \in 0 .. 3 BY <1>1, TopAssumption DEF Addresses, Widths
  <2> QED BY <2>1, CellType
<1> QED BY <1>1 DEF Write

LEMMA ModulusType ==
    ASSUME NEW n \in Widths
    PROVE  Modulus(n) \in Nat /\ Modulus(n) > 0
BY Sizes DEF Modulus, Widths

LEMMA CellsBelow ==
    ASSUME NEW m \in [Addresses -> Cells], NEW a \in Int, NEW n \in Widths,
           Mapped(a, n)
    PROVE  \A i \in 0 .. n - 1 : a + i \in Addresses /\ m[a + i] \in Cells
BY TopAssumption DEF Mapped, Addresses, Widths

LEMMA ReadType ==
    ASSUME NEW m \in [Addresses -> Cells], NEW a \in Int, NEW n \in Widths,
           Mapped(a, n)
    PROVE  Read(m, a, n) \in 0 .. Modulus(n) - 1
<1> DEFINE c(i) == m[a + i]
<1>0. \A i \in 0 .. n - 1 : c(i) \in Cells BY CellsBelow
<1>1. c(0) = m[a] OBVIOUS
<1> HIDE DEF c
<1>2. ASSUME NEW x \in Cells, NEW k \in Nat, NEW y \in 0 .. k - 1
      PROVE  x + Base * y \in 0 .. Base * k - 1
  <2>1. Base * y <= Base * (k - 1) BY Sizes, ProductOrder
  <2>2. Base * (k - 1) = Base * k - Base BY Sizes
  <2>3. 0 <= Base * y BY Sizes
  <2>4. x \in 0 .. Base - 1 BY DEF Cells
  <2>5. Base * y \in Int /\ Base * k \in Int BY Sizes
  <2> QED BY <2>1, <2>2, <2>3, <2>4, <2>5, Sizes
<1>3. CASE n = 1
  <2>1. Read(m, a, n) = c(0) BY <1>1, <1>3 DEF Read
  <2>2. Modulus(n) = Base BY <1>3 DEF Modulus
  <2>3. c(0) \in Cells BY <1>0, <1>3
  <2> QED BY <2>1, <2>2, <2>3 DEF Cells
<1>4. CASE n = 2
  <2>1. Read(m, a, n) = c(0) + Base * c(1) BY <1>1, <1>4 DEF Read, c
  <2>2. Modulus(n) = Base * Base BY <1>4, Sizes DEF Modulus
  <2>3. c(0) \in Cells /\ c(1) \in Cells BY <1>0, <1>4
  <2>4. c(0) + Base * c(1) \in 0 .. Base * Base - 1
    BY <1>2, <2>3, Sizes DEF Cells
  <2> QED BY <2>1, <2>2, <2>4
<1>5. CASE n = 4
  <2>1. Read(m, a, n) = c(0) + Base * (c(1) + Base * (c(2) + Base * c(3)))
    BY <1>1, <1>5 DEF Read, c
  <2>2. Modulus(n) = Base * (Base * (Base * Base)) BY <1>5, Sizes DEF Modulus
  <2>3. c(0) \in Cells /\ c(1) \in Cells /\ c(2) \in Cells /\ c(3) \in Cells
    BY <1>0, <1>5
  <2>4. c(2) + Base * c(3) \in 0 .. Base * Base - 1
    BY <1>2, <2>3, Sizes DEF Cells
  <2>5. c(1) + Base * (c(2) + Base * c(3)) \in 0 .. Base * (Base * Base) - 1
    BY <1>2, <2>3, <2>4, Sizes
  <2>6. Base * (Base * Base) \in Nat BY Sizes
  <2>7. Read(m, a, n) \in 0 .. Base * (Base * (Base * Base)) - 1
    BY <1>2, <2>1, <2>3, <2>5, <2>6
  <2> QED BY <2>2, <2>7
<1> QED BY <1>3, <1>4, <1>5 DEF Widths

\* The low n cells of v, put together again, are v up to their width.
LEMMA ReadWrite ==
    ASSUME NEW m \in [Addresses -> Cells], NEW a \in Int, NEW n \in Widths,
           Mapped(a, n), NEW v \in Values
    PROVE  Read(Write(m, a, v, n), a, n) = v % Modulus(n)
<1> DEFINE w == Write(m, a, v, n)
           q1 == v \div Base
           q2 == q1 \div Base
           q3 == q2 \div Base
           c0 == v % Base
           c1 == q1 % Base
           c2 == q2 % Base
<1>1. v \in Nat /\ v < Base * (Base * Half) BY Sizes DEF Values
<1>2. /\ c0 \in 0 .. Base - 1 /\ v = Base * q1 + c0
      /\ q1 \in 0 .. Base * Half - 1
  BY <1>1, Sizes, Remainder, QuotientBound
<1>3. /\ c1 \in 0 .. Base - 1 /\ q1 = Base * q2 + c1
      /\ q2 \in 0 .. Half - 1
  <2>1. q1 \in Nat /\ q1 < Base * Half BY <1>2, Sizes
  <2> HIDE DEF q1
  <2> QED BY <2>1, Sizes, Remainder, QuotientBound
<1>4. /\ c2 \in 0 .. Base - 1 /\ q2 = Base * q3 + c2
      /\ q3 \in 0 .. Base - 1
  <2>1. q2 \in Nat /\ q2 < Base * Base BY <1>3, Sizes
  <2> HIDE DEF q2
  <2> QED BY <2>1, Sizes, Remainder, QuotientBound
<1>5. q3 % Base = q3
  <2> HIDE DEF q3
  <2>1. q3 = Base * 0 + q3 BY <1>4, Sizes
  <2> QED BY <2>1, <1>4, Sizes, RemainderUnique
<1>6. /\ Cell(v, 0) = c0 /\ Cell(v, 1) = c1 /\ Cell(v, 2) = c2
      /\ Cell(v, 3) = q3
  BY <1>5 DEF Cell
<1>7. \A i \in 0 .. n - 1 : w[a + i] = Cell(v, i)
  <2> TAKE i \in 0 .. n - 1
  <2>1. a + i \in Addresses BY CellsBelow
  <2>2. a + i \in a .. a + n - 1 /\ (a + i) - a = i BY DEF Widths
  <2> QED BY <2>1, <2>2 DEF Write
<1>8. w[a] = Cell(v, 0)
  <2>1. 0 \in 0 .. n - 1 /\ a + 0 = a BY DEF Widths
  <2> QED BY <2>1, <1>7
<1> HIDE DEF w, q1, q2, q3, c0, c1, c2
<1>9. CASE n = 1
  <2>1. Read(w, a, n) = c0 BY <1>6, <1>8, <1>9 DEF Read
  <2> QED BY <2>1, <1>9 DEF Modulus, w, c0
<1>10. CASE n = 2
  <2>1. w[a + 1] = c1 BY <1>6, <1>7, <1>10
  <2>2. Read(w, a, n) = c0 + Base * c1 BY <1>6, <1>8, <1>10, <2>1 DEF Read
  <2>3. v = Half * q2 + (c0 + Base * c1)
    BY <1>2, <1>3, Sizes
  <2>4. c0 + Base * c1 \in 0 .. Half - 1
    <3>1. Base * c1 <= Base * (Base - 1) BY <1>3, Sizes, ProductOrder
    <3>2. Base * (Base - 1) = Half - Base BY Sizes
    <3>3. 0 <= Base * c1 /\ Base * c1 \in Int BY <1>3, Sizes
    <3> QED BY <1>2, <3>1, <3>2, <3>3, Sizes
  <2>5. v % Half = c0 + Base * c1
    <3> DEFINE low == c0 + Base * c1
    <3>1. low \in 0 .. Half - 1 /\ v = Half * q2 + low BY <2>3, <2>4
    <3> HIDE DEF low
    <3>2. q2 \in Int BY <1>3, Sizes
    <3>3. (Half * q2 + low) % Half = low BY <3>1, <3>2, Sizes, RemainderUnique
    <3> QED BY <3>1, <3>3 DEF low
  <2> QED BY <2>2, <2>5, <1>10 DEF Modulus, w
<1>11. CASE n = 4
  <2>1. w[a + 1] = c1 /\ w[a + 2] = c2 /\ w[a + 3] = q3
    BY <1>6, <1>7, <1>11
  <2>2. Read(w, a, n) = c0 + Base * (c1 + Base * (c2 + Base * q3))
    BY <1>6, <1>8, <1>11, <2>1 DEF Read
  <2>3. Read(w, a, n) = v
    <3>1. c2 + Base * q3 = q2 BY <1>4, Sizes
    <3>2. c1 + Base * q2 = q1 BY <1>3, Sizes
    <3>3. c0 + Base * q1 = v BY <1>2, Sizes
    <3> QED BY <2>2, <3>1, <3>2, <3>3
  <2>4. v % Size = v
    <3>1. v = Size * 0 + v BY Sizes DEF Values
    <3> QED BY <3>1, Sizes, RemainderUnique DEF Values
  <2> QED BY <2>3, <2>4, <1>11 DEF Modulus, w
<1> QED BY <1>9, <1>10, <1>11 DEF Widths

LEMMA ReadElsewhere ==
    ASSUME NEW m \in [Addresses -> Cells], NEW a \in Int, NEW n \in Widths,
           NEW v \in Nat, NEW b \in Int, NEW k \in Widths, Mapped(b, k),
           b + k <= a \/ a + n <= b
    PROVE  Read(Write(m, a, v, n), b, k) = Read(m, b, k)
<1>1. \A i \in 0 .. k - 1 : Write(m, a, v, n)[b + i] = m[b + i]
  <2> TAKE i \in 0 .. k - 1
  <2>1. b + i \in Addresses BY CellsBelow
  <2>2. b + i \notin a .. a + n - 1 BY DEF Widths
  <2> QED BY <2>1, <2>2 DEF Write
<1>2. Write(m, a, v, n)[b] = m[b]
  <2>1. 0 \in 0 .. k - 1 /\ b + 0 = b BY DEF Widths
  <2> QED BY <2>1, <1>1
<1> QED BY <1>1, <1>2 DEF Read, Widths

LEMMA InsertType ==
    ASSUME NEW v \in Values, NEW low \in Int, NEW n \in Widths
    PROVE  Insert(v, low, n) \in Values
<1> DEFINE M == Modulus(n)
           q == v \div M
           r == low % M
<1>1. M \in Nat /\ M > 0 BY ModulusType
<1>2. PICK k \in Nat : Size = M * k
  BY Sizes DEF Modulus, Widths
<1>3. r \in 0 .. M - 1 BY <1>1, Remainder
<1>4. v - (v % M) = M * q /\ q \in Int /\ v % M \in Int
  BY <1>1, Sizes, Remainder DEF Values
<1>5. q \in 0 .. k - 1 BY <1>1, <1>2, Sizes, QuotientBound DEF Values
<1> HIDE DEF q, r
<1>6. M * q <= M * (k - 1) /\ M * (k - 1) = M * k - M
  BY <1>1, <1>5, ProductOrder
<1>7. 0 <= M * q /\ M * q \in Int BY <1>1, <1>5
<1>8. M * q + r \in 0 .. M * k - 1
  <2> DEFINE x == M * q
             y == M * k
  <2>1. x \in Int /\ y \in Int /\ 0 <= x /\ x <= y - M
    BY <1>1, <1>2, <1>6, <1>7
  <2> HIDE DEF x, y, M
  <2>2. x + r \in 0 .. y - 1 BY <1>1, <1>3, <2>1
  <2> QED BY <2>2 DEF x, y
<1> QED BY <1>2, <1>4, <1>8 DEF Insert, Values, r

-----------------------------------------------------------------------------
(* The type invariant. *)

MachineOK ==
    /\ rip \in Values /\ rsp \in Values /\ rbp \in Values
    /\ mem \in [Addresses -> Cells]

FrameTableOK ==
    /\ frames \in [DOMAIN frames -> {2, 4}]
    /\ DOMAIN frames \subseteq Addresses
    /\ FramesOK

LEMMA Parts == TypeOK <=> MachineOK /\ FrameTableOK /\ instrs \in 0 .. MaxInstrs
BY DEF TypeOK, MachineOK, FrameTableOK

LEMMA WrapType == ASSUME NEW x \in Int PROVE Wrap(x) \in Values
BY Sizes, Remainder DEF Wrap, Values

LEMMA FallType == MachineOK => Fall \in Values
BY WrapType, Sizes DEF MachineOK, Fall, Values

LEMMA TopBelow == Top \in Nat /\ Top < Size
BY TopAssumption

LEMMA CountedInstr ==
    ASSUME instrs \in 0 .. MaxInstrs, NEW new, Instr(new)
    PROVE  instrs' \in 0 .. MaxInstrs
BY MaxInstrsAssumption DEF Instr

\* Moving rsp drops the frames below it and no other.
LEMMA FramesDropped ==
    ASSUME FrameTableOK, rsp' \in Values, Instr(NoFrame)
    PROVE  /\ FrameTableOK'
           /\ DOMAIN frames' = {a \in DOMAIN frames : a >= rsp'}
           /\ \A a \in DOMAIN frames' : frames'[a] = frames[a]
<1>1. /\ DOMAIN frames' = {a \in DOMAIN frames : a >= rsp'}
      /\ \A a \in DOMAIN frames' : frames'[a] = frames[a]
      /\ frames' \in [DOMAIN frames' -> {2, 4}]
  BY DEF Instr, Frames, NoFrame, FrameTableOK
<1>2. DOMAIN frames' \subseteq Addresses BY <1>1 DEF FrameTableOK
<1>3. FramesOK'
  BY <1>1 DEF FrameTableOK, FramesOK
<1> QED BY <1>1, <1>2, <1>3 DEF FrameTableOK

\* A call's frame lies below all others, since rsp does.
LEMMA FrameAdded ==
    ASSUME FrameTableOK, rsp \in Values, NEW v, NEW n \in {2, 4}, Push(v, n),
           Instr(Called(n))
    PROVE  /\ FrameTableOK'
           /\ DOMAIN frames' = DOMAIN frames \cup {rsp - n}
           /\ \A a \in DOMAIN frames : a >= rsp /\ frames'[a] = frames[a]
           /\ frames'[rsp - n] = n
<1> DEFINE at == rsp - n
<1>0. at \in Int /\ rsp = at + n /\ at \in Addresses /\ at + n <= Top /\ rsp' = at
  BY Sizes, TopBelow DEF Values, Push, Mapped, Addresses
<1>1. \A a \in DOMAIN frames :
         a \in Int /\ a >= rsp /\ a + frames[a] <= Top /\ frames[a] \in {2, 4}
  BY DEF FrameTableOK, FramesOK, Addresses
<1>2. at \notin DOMAIN frames BY <1>0, <1>1
<1>3. /\ DOMAIN frames' = DOMAIN frames \cup {at}
      /\ \A a \in DOMAIN frames : frames'[a] = frames[a]
      /\ frames'[at] = n
      /\ frames' \in [DOMAIN frames' -> {2, 4}]
  <2>1. frames' = Frames(Called(n), at) BY <1>0 DEF Instr
  <2>2. Called(n) = [a \in {at} |-> n] BY DEF Called
  <2>3. {b \in DOMAIN frames \cup DOMAIN Called(n) : b >= at} = DOMAIN frames \cup {at}
    BY <1>0, <1>1, <2>2
  <2> HIDE DEF at
  <2>4. frames' = [a \in DOMAIN frames \cup {at} |-> IF a = at THEN n ELSE frames[a]]
    BY <2>1, <2>2, <2>3 DEF Frames
  <2> QED BY <1>1, <1>2, <2>4
<1>4. DOMAIN frames' \subseteq Addresses BY <1>0, <1>3 DEF FrameTableOK
<1>5. FramesOK'
  <2> SUFFICES ASSUME NEW a \in DOMAIN frames'
               PROVE  /\ at <= a /\ a + frames'[a] <= Top
                      /\ \A b \in DOMAIN frames' : a < b => a + frames'[a] <= b
    BY <1>0 DEF FramesOK
  <2> HIDE DEF at
  <2>1. CASE a = at BY <1>0, <1>1, <1>3, <2>1
  <2>2. CASE a \in DOMAIN frames
    <3>1. at <= a /\ a + frames'[a] <= Top BY <1>0, <1>1, <1>3, <2>2
    <3>2. ASSUME NEW b \in DOMAIN frames', a < b PROVE a + frames'[a] <= b
      <4>1. b # at BY <3>1, <3>2, <1>0, <1>1, <2>2
      <4>2. b \in DOMAIN frames BY <4>1, <1>3
      <4> QED BY <3>2, <4>2, <2>2, <1>3 DEF FrameTableOK, FramesOK
    <3> QED BY <3>1, <3>2
  <2> QED BY <2>1, <2>2, <1>3
<1> QED BY <1>1, <1>3, <1>4, <1>5 DEF FrameTableOK

LEMMA PushType ==
    ASSUME MachineOK, NEW v \in Values, NEW n \in Widths, Push(v, n)
    PROVE  rsp' \in Values /\ mem' \in [Addresses -> Cells]
<1>1. rsp - n \in Int /\ v \in Nat BY Sizes DEF MachineOK, Values, Widths
<1>2. rsp - n \in Values
  BY <1>1, Sizes DEF MachineOK, Push, Mapped, Values, Widths
<1> QED BY <1>1, <1>2, WriteType DEF MachineOK, Push

LEMMA RegType == ASSUME MachineOK, NEW r PROVE Reg(r) \in Values
BY DEF MachineOK, Reg

\* A mapped place of rsp, and what lies above the operand there.
LEMMA AboveType ==
    ASSUME NEW a \in Int, NEW n \in Widths, Mapped(a, n)
    PROVE  a + n \in Values /\ a \in Values
BY Sizes, TopBelow DEF Mapped, Values, Widths

LEMMA ReadValue ==
    ASSUME NEW m \in [Addresses -> Cells], NEW a \in Int, NEW n \in Widths,
           Mapped(a, n)
    PROVE  Read(m, a, n) \in Values
<1>1. Read(m, a, n) \in 0 .. Modulus(n) - 1 BY ReadType
<1>2. Modulus(n) <= Size
  <2>1. Base <= Half
    <3>1. Base * 1 <= Base * Base BY Sizes, ProductOrder
    <3> QED BY <3>1, Sizes
  <2>2. Half <= Size
    <3>1. Half * 1 <= Half * Half BY Sizes, ProductOrder
    <3> QED BY <3>1, Sizes
  <2> QED BY <2>1, <2>2, Sizes DEF Modulus, Widths
<1> QED BY <1>1, <1>2, ModulusType, Sizes DEF Values

LEMMA InitType == Init => TypeOK
<1> SUFFICES ASSUME Init PROVE TypeOK
  OBVIOUS
<1>1. MachineOK
  <2>1. mem \in [Addresses -> Cells] BY Sizes DEF Init, Cells
  <2>2. Entry \in Values /\ Top \in Values /\ 0 \in Values
    BY TopAssumption, Sizes DEF Values
  <2> QED BY <2>1, <2>2 DEF Init, MachineOK
<1>2. FrameTableOK BY DEF Init, NoFrame, FrameTableOK, FramesOK
<1>3. instrs \in 0 .. MaxInstrs BY MaxInstrsAssumption DEF Init
<1> QED BY <1>1, <1>2, <1>3, Parts

\* Whatever the instruction, registers and memory keep their types.
LEMMA MachineStep ==
    ASSUME MachineOK, FrameTableOK, Next
    PROVE  MachineOK'
<1>0. Fall \in Values BY FallType
<1>1. ASSUME NEW r \in Registers, NEW n \in {1, 4}, PushReg(r, n) PROVE MachineOK'
  <2>1. Reg(r) \in Values /\ Push(Reg(r), n) BY <1>1, RegType DEF PushReg
  <2>2. rsp' \in Values /\ mem' \in [Addresses -> Cells]
    BY <2>1, PushType DEF Widths
  <2> QED BY <1>0, <1>1, <2>2 DEF PushReg, MachineOK
<1>2. ASSUME NEW r \in Registers, NEW n \in {1, 4}, PopReg(r, n) PROVE MachineOK'
  <2>1. n \in Widths /\ Mapped(rsp, n) BY <1>2 DEF PopReg, Widths
  <2>2. rsp \in Int BY Sizes DEF MachineOK, Values
  <2>3. rsp + n \in Values /\ Read(mem, rsp, n) \in Values
    BY <2>1, <2>2, AboveType, ReadValue DEF MachineOK
  <2>4. Read(mem, rsp, n) \in Int BY <2>3 DEF Values
  <2>5. /\ Insert(rsp + n, Read(mem, rsp, n), n) \in Values
        /\ Insert(rbp, Read(mem, rsp, n), n) \in Values
    BY <2>1, <2>3, <2>4, InsertType DEF MachineOK
  <2>6. rsp' \in Values /\ rbp' \in Values
    BY <1>2, <2>3, <2>5 DEF PopReg, MachineOK
  <2> QED BY <1>0, <1>2, <2>6 DEF PopReg, MachineOK
<1>3. ASSUME NEW imm \in Imms, NEW n \in {1, 4}, PushImm(imm, n) PROVE MachineOK'
  <2>1. Wrap(imm) \in Values /\ Push(Wrap(imm), n)
    BY <1>3, WrapType, OperandsAssumption DEF PushImm
  <2>2. rsp' \in Values /\ mem' \in [Addresses -> Cells]
    BY <2>1, PushType DEF Widths
  <2> QED BY <1>0, <1>3, <2>2 DEF PushImm, MachineOK
<1>4. ASSUME NEW d \in Displs, NEW n \in {1, 4}, PopMem(d, n) PROVE MachineOK'
  <2>1. n \in Widths /\ Mapped(rsp, n) BY <1>4 DEF PopMem, Widths
  <2>2. rsp \in Int /\ rsp + d \in Int
    BY Sizes, OperandsAssumption DEF MachineOK, Values
  <2>3. rsp + n \in Values /\ Read(mem, rsp, n) \in Values
    BY <2>1, <2>2, AboveType, ReadValue DEF MachineOK
  <2>4. Write(mem, rsp + d, Read(mem, rsp, n), n) \in [Addresses -> Cells]
    BY <2>1, <2>2, <2>3, WriteType DEF MachineOK, Values
  <2> QED BY <1>0, <1>4, <2>3, <2>4 DEF PopMem, MachineOK
<1>5. ASSUME NEW n \in {1, 4}, Leave(n) PROVE MachineOK'
  <2> DEFINE from == IF n = 1 THEN Insert(rsp, rbp, 1) ELSE rbp
  <2>1. n \in Widths /\ Mapped(from, n) BY <1>5 DEF Leave, Widths
  <2>2. from \in Int
    <3>1. rbp \in Int /\ 1 \in Widths BY DEF MachineOK, Values, Widths
    <3>2. Insert(rsp, rbp, 1) \in Values BY <3>1, InsertType DEF MachineOK
    <3> QED BY <3>1, <3>2 DEF Values
  <2> HIDE DEF from
  <2>3. from + n \in Values /\ Read(mem, from, n) \in Values
    BY <2>1, <2>2, AboveType, ReadValue DEF MachineOK
  <2>4. Insert(rbp, Read(mem, from, n), n) \in Values
    <3>1. Read(mem, from, n) \in Int BY <2>3 DEF Values
    <3> QED BY <2>1, <3>1, InsertType DEF MachineOK
  <2>5. rsp' = from + n /\ rbp' = Insert(rbp, Read(mem, from, n), n)
    BY <1>5 DEF Leave, from
  <2> QED BY <1>0, <1>5, <2>3, <2>4, <2>5 DEF Leave, MachineOK
<1>6. ASSUME NEW rel \in Rels, NEW n \in {2, 4}, CallRel(rel, n) PROVE MachineOK'
  <2>1. rsp' \in Values /\ mem' \in [Addresses -> Cells]
    BY <1>0, <1>6, PushType DEF Widths, CallRel
  <2>2. Fall + rel \in Int BY <1>0, OperandsAssumption DEF Values
  <2> QED BY <1>6, <2>1, <2>2, WrapType DEF CallRel, MachineOK
<1>7. ASSUME NEW r \in Registers, NEW n \in {2, 4}, CallReg(r, n) PROVE MachineOK'
  <2>1. rsp' \in Values /\ mem' \in [Addresses -> Cells]
    BY <1>0, <1>7, PushType DEF Widths, CallReg
  <2> QED BY <1>7, <2>1 DEF CallReg, MachineOK
<1>8. ASSUME NEW d \in Displs, CallMem(d) PROVE MachineOK'
  <2>1. rsp' \in Values /\ mem' \in [Addresses -> Cells]
    BY <1>0, <1>8, PushType DEF Widths, CallMem
  <2>2. rsp + d \in Int /\ Mapped(rsp + d, 4)
    BY <1>8, OperandsAssumption DEF CallMem, MachineOK, Values
  <2>3. Read(mem', rsp + d, 4) \in Values
    BY <2>1, <2>2, ReadValue DEF Widths
  <2> QED BY <1>8, <2>1, <2>3 DEF CallMem, MachineOK
<1>9. ASSUME NEW rel \in Rels, JmpRel(rel) PROVE MachineOK'
  <2>1. Fall + rel \in Int BY <1>0, OperandsAssumption DEF Values
  <2> QED BY <1>9, <2>1, WrapType DEF JmpRel, MachineOK
<1>10. ASSUME NEW r \in Registers, JmpReg(r) PROVE MachineOK'
  BY <1>10, RegType DEF JmpReg, MachineOK
<1>11. ASSUME NEW d \in Displs, JmpMem(d) PROVE MachineOK'
  <2>1. rsp + d \in Int /\ Mapped(rsp + d, 4)
    BY <1>11, OperandsAssumption DEF JmpMem, MachineOK, Values
  <2>2. Read(mem, rsp + d, 4) \in Values
    BY <2>1, ReadValue DEF Widths, MachineOK
  <2> QED BY <1>11, <2>2 DEF JmpMem, MachineOK
<1>12. ASSUME NEW n \in {2, 4}, NEW imm \in Adjusts \cup {0}, Ret(n, imm)
       PROVE  MachineOK'
  <2>1. /\ n \in Widths /\ rsp \in Int /\ imm \in Int /\ imm >= 0
        /\ rsp + n + imm <= Top
    BY <1>12, OperandsAssumption DEF Ret, Widths, MachineOK, Values
  <2>2. Mapped(rsp, n)
    <3>1. rsp >= 0 /\ n \in Int BY <2>1, Sizes DEF MachineOK, Values, Widths
    <3>2. rsp + n <= rsp + n + imm BY <2>1, <3>1
    <3> QED BY <2>1, <3>1, <3>2, TopBelow DEF Mapped
  <2>3. Read(mem, rsp, n) \in Int
    BY <2>1, <2>2, ReadValue DEF MachineOK, Values
  <2>4. Insert(Fall, Read(mem, rsp, n), n) \in Values
    BY <1>0, <2>1, <2>3, InsertType
  <2>5. rsp + n + imm \in Values
    BY <2>1, TopBelow, Sizes DEF MachineOK, Values, Widths
  <2> QED BY <1>12, <2>4, <2>5 DEF Ret, MachineOK
<1>13. ASSUME NEW dst \in Registers, NEW src \in Registers, MovReg(dst, src)
       PROVE  MachineOK'
  BY <1>0, <1>13 DEF MovReg, MachineOK
<1>14. ASSUME NEW k \in Adjusts, Adjust(k) PROVE MachineOK'
  <2>1. rsp + k \in Int BY OperandsAssumption DEF MachineOK, Values
  <2> QED BY <1>0, <1>14, <2>1, WrapType DEF Adjust, MachineOK
<1>15. ASSUME NEW d \in Displs, NEW imm \in Imms, StoreImm(d, imm)
       PROVE  MachineOK'
  <2>1. rsp + d \in Int BY OperandsAssumption DEF MachineOK, Values
  <2>2. Wrap(imm) \in Nat BY WrapType, OperandsAssumption, Sizes DEF Values
  <2>3. mem' \in [Addresses -> Cells]
    BY <1>15, <2>1, <2>2, WriteType DEF StoreImm, MachineOK, Widths
  <2> QED BY <1>0, <1>15, <2>3 DEF StoreImm, MachineOK
<1> QED
  BY <1>1, <1>2, <1>3, <1>4, <1>5, <1>6, <1>7, <1>8, <1>9, <1>10, <1>11, <1>12,
     <1>13, <1>14, <1>15 DEF Next

\* Every instruction is counted and makes at most the frame of its call.
LEMMA FrameStep ==
    ASSUME MachineOK, FrameTableOK, Next
    PROVE  /\ FrameTableOK'
           /\ \E new : Instr(new)
<1>1. rsp' \in Values BY MachineStep DEF MachineOK
<1>2. CASE Instr(NoFrame) BY <1>1, <1>2, FramesDropped
<1>3. CASE \E v : \E n \in {2, 4} : Push(v, n) /\ Instr(Called(n))
  <2>1. PICK v : \E n \in {2, 4} : Push(v, n) /\ Instr(Called(n)) BY <1>3
  <2>2. PICK n \in {2, 4} : Push(v, n) /\ Instr(Called(n)) BY <2>1
  <2> QED BY <2>2, FrameAdded DEF MachineOK
<1>4. Instr(NoFrame) \/ \E n \in {2, 4} : Push(Fall, n) /\ Instr(Called(n))
  BY DEF Next, PushReg, PopReg, PushImm, PopMem, Leave, CallRel, CallReg, CallMem,
         JmpRel, JmpReg, JmpMem, Ret, MovReg, Adjust, StoreImm
<1> QED BY <1>2, <1>3, <1>4

\* Spec => []TypeOK: registers and cells stay in range for every mixture of
\* widths, and return addresses stay on the stack, apart from each other.
THEOREM TypeCorrect == Spec => []TypeOK
<1>1. Init => TypeOK BY InitType
<1>2. TypeOK /\ [Next]_vars => TypeOK'
  <2> SUFFICES ASSUME TypeOK, [Next]_vars PROVE TypeOK'
    OBVIOUS
  <2>0. MachineOK /\ FrameTableOK /\ instrs \in 0 .. MaxInstrs BY Parts
  <2>1. CASE Next
    <3>1. MachineOK' BY <2>0, <2>1, MachineStep
    <3>2. FrameTableOK' /\ \E new : Instr(new) BY <2>0, <2>1, FrameStep
    <3>3. instrs' \in 0 .. MaxInstrs BY <2>0, <3>2, CountedInstr
    <3> QED BY <3>1, <3>2, <3>3
        DEF TypeOK, MachineOK, FrameTableOK
  <2>2. CASE UNCHANGED vars
    BY <2>2 DEF vars, TypeOK, FramesOK
  <2> QED BY <2>1, <2>2
<1> QED BY <1>1, <1>2, PTL DEF Spec

-----------------------------------------------------------------------------
(* The call stack: an instruction without a frame drops callers or leaves  *)
(* them alone, CALL adds one, RET goes to the innermost.                   *)

Callers ==
    [a \in DOMAIN frames |-> [whole |-> frames[a] = 4, ret |-> Read(mem, a, frames[a])]]

\* The return addresses on the stack are what they were.
FramesSpared ==
    \A a \in DOMAIN frames : Read(mem', a, frames[a]) = Read(mem, a, frames[a])

LEMMA FrameFacts ==
    ASSUME FrameTableOK, NEW a \in DOMAIN frames
    PROVE  /\ a \in Int /\ a >= rsp /\ frames[a] \in {2, 4} /\ frames[a] \in Widths
           /\ Mapped(a, frames[a])
BY TopBelow DEF FrameTableOK, FramesOK, Addresses, Mapped, Widths

LEMMA StoreSpares ==
    ASSUME MachineOK, FrameTableOK, NEW at \in Int, NEW v \in Nat,
           NEW n \in Widths, mem' = Write(mem, at, v, n), Spares(at, n)
    PROVE  FramesSpared
<1> SUFFICES ASSUME NEW a \in DOMAIN frames
             PROVE  Read(mem', a, frames[a]) = Read(mem, a, frames[a])
  BY DEF FramesSpared
<1>1. a \in Int /\ frames[a] \in Widths /\ Mapped(a, frames[a]) BY FrameFacts
<1>2. a + frames[a] <= at \/ at + n <= a BY DEF Spares
<1>3. mem \in [Addresses -> Cells] BY DEF MachineOK
<1> HIDE DEF FramesSpared
<1>4. Read(Write(mem, at, v, n), a, frames[a]) = Read(mem, a, frames[a])
  BY <1>1, <1>2, <1>3, ReadElsewhere
<1> QED BY <1>4

LEMMA PushSpares ==
    ASSUME MachineOK, FrameTableOK, NEW v \in Values, NEW n \in Widths, Push(v, n)
    PROVE  FramesSpared
<1>1. rsp - n \in Int /\ v \in Nat /\ (rsp - n) + n = rsp
  BY Sizes DEF MachineOK, Values, Widths
<1>2. \A a \in DOMAIN frames : (rsp - n) + n <= a BY <1>1, FrameFacts
<1>3. Spares(rsp - n, n) BY <1>2 DEF Spares
<1> QED BY <1>1, <1>3, StoreSpares DEF Push

LEMMA CallersDropped ==
    ASSUME FrameTableOK, rsp' \in Values, Instr(NoFrame), FramesSpared
    PROVE  Callers' = [p \in {q \in DOMAIN Callers : q >= rsp'} |-> Callers[p]]
<1>1. /\ DOMAIN frames' = {a \in DOMAIN frames : a >= rsp'}
      /\ \A a \in DOMAIN frames' : frames'[a] = frames[a]
  BY FramesDropped
<1>2. DOMAIN Callers = DOMAIN frames BY DEF Callers
<1>3. ASSUME NEW a \in DOMAIN frames'
      PROVE  [whole |-> frames'[a] = 4, ret |-> Read(mem', a, frames'[a])] = Callers[a]
  <2>1. frames'[a] = frames[a] /\ a \in DOMAIN frames BY <1>1
  <2>2. Read(mem', a, frames[a]) = Read(mem, a, frames[a])
    BY <2>1 DEF FramesSpared
  <2> QED BY <2>1, <2>2 DEF Callers
<1>4. Callers' = [a \in DOMAIN frames' |->
                     [whole |-> frames'[a] = 4, ret |-> Read(mem', a, frames'[a])]]
  BY DEF Callers
<1> HIDE DEF Callers
<1>5. Callers' = [a \in DOMAIN frames' |-> Callers[a]] BY <1>3, <1>4
<1> QED BY <1>1, <1>2, <1>5

LEMMA CallersAdded ==
    ASSUME MachineOK, FrameTableOK, NEW v \in Values, NEW n \in {2, 4},
           Push(v, n), Instr(Called(n))
    PROVE  Callers' = [p \in DOMAIN Callers \cup {rsp - n} |->
                          IF p = rsp - n
                          THEN [whole |-> n = 4, ret |-> v % Modulus(n)]
                          ELSE Callers[p]]
<1> DEFINE at == rsp - n
           top == [whole |-> n = 4, ret |-> v % Modulus(n)]
<1>0. n \in Widths /\ at \in Int BY Sizes DEF MachineOK, Values, Widths
<1>1. /\ DOMAIN frames' = DOMAIN frames \cup {at}
      /\ \A a \in DOMAIN frames : a >= rsp /\ frames'[a] = frames[a]
      /\ frames'[at] = n
  BY FrameAdded DEF MachineOK
<1>2. FramesSpared BY <1>0, PushSpares
<1>3. Read(mem', at, n) = v % Modulus(n)
  <2>1. mem \in [Addresses -> Cells] /\ Mapped(at, n) /\ mem' = Write(mem, at, v, n)
    BY DEF MachineOK, Push
  <2> HIDE DEF at
  <2>2. Read(Write(mem, at, v, n), at, n) = v % Modulus(n)
    BY <1>0, <2>1, ReadWrite
  <2> QED BY <2>1, <2>2
<1>4. at \notin DOMAIN frames BY <1>0, <1>1 DEF MachineOK, Values
<1>5. DOMAIN Callers = DOMAIN frames BY DEF Callers
<1>6. ASSUME NEW a \in DOMAIN frames
      PROVE  [whole |-> frames'[a] = 4, ret |-> Read(mem', a, frames'[a])] = Callers[a]
  BY <1>1, <1>2 DEF Callers, FramesSpared
<1>7. [whole |-> frames'[at] = 4, ret |-> Read(mem', at, frames'[at])] = top
  BY <1>1, <1>3
<1>8. Callers' = [a \in DOMAIN frames' |->
                     [whole |-> frames'[a] = 4, ret |-> Read(mem', a, frames'[a])]]
  BY DEF Callers
<1> HIDE DEF Callers, at, top
<1>9. Callers' = [a \in DOMAIN frames \cup {at} |-> IF a = at THEN top ELSE Callers[a]]
  BY <1>1, <1>4, <1>6, <1>7, <1>8
<1> QED BY <1>5, <1>9 DEF at, top

\* Instructions without a frame, RET apart.
LEMMA QuietStep ==
    ASSUME FrameTableOK, MachineOK', Instr(NoFrame), FramesSpared,
           rip' = Fall \/ rsp' = rsp
    PROVE  CallStack!Next
<1>1. rsp' \in Values /\ rip' \in 0 .. Size - 1 BY DEF MachineOK, Values
<1>2. Callers' = [p \in {q \in DOMAIN Callers : q >= rsp'} |-> Callers[p]]
  BY <1>1, CallersDropped
<1>3. CASE rip' = Fall
  <2>1. Fall = CallStack!Fall BY DEF Fall, Wrap, CallStack!Fall
  <2>2. \E from \in Values :
           /\ Callers' = [p \in {q \in DOMAIN Callers : q >= from} |-> Callers[p]]
           /\ rip' = CallStack!Fall
    BY <1>1, <1>2, <1>3, <2>1
  <2>3. CallStack!Unwind BY <2>2 DEF CallStack!Unwind, CallStack!Kept, Callers
  <2> QED BY <2>3 DEF CallStack!Next
<1>4. CASE rsp' = rsp
  <2>1. DOMAIN Callers = DOMAIN frames BY DEF Callers
  <2>2. {q \in DOMAIN Callers : q >= rsp'} = DOMAIN Callers
    BY <1>4, <2>1, FrameFacts
  <2>3. Callers = [p \in DOMAIN Callers |-> Callers[p]] BY DEF Callers
  <2> HIDE DEF Callers
  <2>4. Callers' = Callers BY <1>2, <2>2, <2>3
  <2>5. CallStack!Jump BY <1>1, <2>4 DEF CallStack!Jump, Callers
  <2> QED BY <2>5 DEF CallStack!Next
<1> QED BY <1>3, <1>4

LEMMA CallStep ==
    ASSUME MachineOK, FrameTableOK, MachineOK', NEW n \in {2, 4}, Push(Fall, n),
           Instr(Called(n))
    PROVE  CallStack!Next
<1> DEFINE at == rsp - n
<1>1. Fall \in Values /\ Fall = CallStack!Fall
  BY FallType DEF Fall, Wrap, CallStack!Fall
<1>2. Callers' = [p \in DOMAIN Callers \cup {at} |->
                     IF p = at THEN [whole |-> n = 4, ret |-> Fall % Modulus(n)]
                     ELSE Callers[p]]
  BY <1>1, CallersAdded
<1>3. at \in Values /\ at < rsp
  BY Sizes DEF MachineOK, Values, Push, Mapped
<1>4. \A p \in DOMAIN Callers : at < p
  <2>1. DOMAIN Callers = DOMAIN frames BY DEF Callers
  <2>2. \A p \in DOMAIN frames : p \in Int /\ p >= rsp BY FrameFacts
  <2> HIDE DEF at
  <2> QED BY <1>3, <2>1, <2>2, Sizes DEF MachineOK, Values
<1>5. rip' \in 0 .. Size - 1 BY DEF MachineOK, Values
<1>6. [whole |-> n = 4, ret |-> Fall % Modulus(n)] = CallStack!Caller(n = 4)
  <2>1. CASE n = 4
    <3>1. Fall % Size = Fall
      <4>1. Fall = Size * 0 + Fall BY <1>1, Sizes DEF Values
      <4> QED BY <4>1, <1>1, Sizes, RemainderUnique DEF Values
    <3>2. Modulus(n) = Size BY <2>1 DEF Modulus
    <3> QED BY <1>1, <2>1, <3>1, <3>2 DEF CallStack!Caller
  <2>2. CASE n = 2
    <3>1. Modulus(n) = Half BY <2>2 DEF Modulus
    <3>2. (n = 4) = FALSE BY <2>2
    <3> QED BY <1>1, <3>1, <3>2 DEF CallStack!Caller
  <2> QED BY <2>1, <2>2
<1> HIDE DEF at
<1>7. \E a \in Values, whole \in BOOLEAN :
         /\ \A p \in DOMAIN Callers : a < p
         /\ Callers' = [p \in DOMAIN Callers \cup {a} |->
                           IF p = a THEN CallStack!Caller(whole) ELSE Callers[p]]
         /\ rip' \in 0 .. Size - 1
  <2>1. (n = 4) \in BOOLEAN OBVIOUS
  <2>2. Callers' = [p \in DOMAIN Callers \cup {at} |->
                       IF p = at THEN CallStack!Caller(n = 4) ELSE Callers[p]]
    BY <1>2, <1>6
  <2> QED BY <1>3, <1>4, <1>5, <2>1, <2>2
<1>8. CallStack!Call BY <1>7 DEF CallStack!Call, Callers
<1> QED BY <1>8 DEF CallStack!Next

LEMMA RetStep ==
    ASSUME MachineOK, FrameTableOK, MachineOK', NEW n \in {2, 4}, NEW imm \in Int,
           Ret(n, imm)
    PROVE  CallStack!Next
<1>1. rsp \in DOMAIN frames /\ frames[rsp] = n /\ imm >= 0 BY DEF Ret
<1>2. FramesSpared BY DEF Ret, FramesSpared
<1>3. rsp' \in Values BY DEF MachineOK
<1>4. Callers' = [p \in {q \in DOMAIN Callers : q >= rsp'} |-> Callers[p]]
  BY <1>2, <1>3, CallersDropped DEF Ret
<1>5. DOMAIN Callers = DOMAIN frames BY DEF Callers
<1>6. Callers[rsp].whole = (n = 4) /\ Callers[rsp].ret = Read(mem, rsp, n)
  BY <1>1 DEF Callers
<1>7. \A p \in DOMAIN Callers : rsp <= p BY <1>5, FrameFacts DEF MachineOK, Values
<1>8. rsp' > rsp BY <1>1 DEF Ret, MachineOK, Values
<1>9. Read(mem, rsp, n) \in 0 .. Modulus(n) - 1
  <2>1. rsp \in Int /\ n \in Widths /\ Mapped(rsp, n) BY <1>1, FrameFacts
  <2> QED BY <2>1, ReadType DEF MachineOK
<1>10. rip' = IF Callers[rsp].whole THEN Callers[rsp].ret
              ELSE (CallStack!Fall - (CallStack!Fall % Half)) + Callers[rsp].ret
  <2> DEFINE low == Read(mem, rsp, n)
  <2>1. rip' = Insert(Fall, low, n) BY DEF Ret
  <2>2. low \in 0 .. Modulus(n) - 1 BY <1>9
  <2>3. Fall = CallStack!Fall /\ Fall \in Values
    BY FallType DEF Fall, Wrap, CallStack!Fall
  <2> HIDE DEF low
  <2>4. low % Modulus(n) = low
    <3>1. n \in Widths BY DEF Widths
    <3>2. Modulus(n) \in Nat /\ Modulus(n) > 0 BY <3>1, ModulusType
    <3>3. low = Modulus(n) * 0 + low BY <2>2, <3>2
    <3> QED BY <2>2, <3>2, <3>3, RemainderUnique
  <2>5. CASE n = 4
    <3>1. Modulus(n) = Size BY <2>5 DEF Modulus
    <3>2. Fall % Size = Fall
      <4>1. Fall = Size * 0 + Fall BY <2>3, Sizes DEF Values
      <4> QED BY <4>1, <2>3, Sizes, RemainderUnique DEF Values
    <3>3. rip' = (Fall - Fall) + low BY <2>1, <2>4, <3>1, <3>2 DEF Insert
    <3>4. rip' = low BY <3>3, <2>2, <2>3, <3>1, Sizes DEF Values
    <3> QED BY <1>6, <2>5, <3>4 DEF low
  <2>6. CASE n = 2
    <3>1. Modulus(n) = Half BY <2>6 DEF Modulus
    <3>2. rip' = (Fall - (Fall % Half)) + low BY <2>1, <2>4, <3>1 DEF Insert
    <3>3. ~ Callers[rsp].whole
      <4>1. (n = 4) = FALSE BY <2>6
      <4>2. Callers[rsp].whole = (n = 4) BY <1>6
      <4> HIDE DEF Callers
      <4> QED BY <4>1, <4>2, Zenon
    <3> QED BY <1>6, <2>3, <3>2, <3>3 DEF low
  <2> QED BY <2>5, <2>6
<1>11. rsp \in DOMAIN Callers BY <1>1, <1>5
<1> HIDE DEF Callers
<1>12. \E top \in DOMAIN Callers, from \in Values :
          /\ \A p \in DOMAIN Callers : top <= p
          /\ from > top
          /\ Callers' = [p \in {q \in DOMAIN Callers : q >= from} |-> Callers[p]]
          /\ rip' = IF Callers[top].whole THEN Callers[top].ret
                    ELSE (CallStack!Fall - (CallStack!Fall % Half)) + Callers[top].ret
  BY <1>3, <1>4, <1>7, <1>8, <1>10, <1>11
<1>13. CallStack!Return
  BY <1>12 DEF CallStack!Return, CallStack!Kept, Callers
<1> QED BY <1>13 DEF CallStack!Next

LEMMA AbstractStep ==
    ASSUME MachineOK, FrameTableOK, Next
    PROVE  CallStack!Next
<1>0. MachineOK' BY MachineStep
<1>1. ASSUME Instr(NoFrame), FramesSpared, rip' = Fall \/ rsp' = rsp
      PROVE  CallStack!Next
  BY <1>0, <1>1, QuietStep
<1>2. ASSUME NEW n \in {2, 4}, Push(Fall, n), Instr(Called(n))
      PROVE  CallStack!Next
  BY <1>0, <1>2, CallStep
<1>3. ASSUME NEW r \in Registers, NEW n \in {1, 4}, PushReg(r, n)
      PROVE  CallStack!Next
  <2>1. Reg(r) \in Values /\ n \in Widths BY RegType DEF Widths
  <2>2. FramesSpared BY <1>3, <2>1, PushSpares DEF PushReg
  <2> QED BY <1>1, <1>3, <2>2 DEF PushReg
<1>4. ASSUME NEW r \in Registers, NEW n \in {1, 4}, PopReg(r, n)
      PROVE  CallStack!Next
  <2>1. FramesSpared BY <1>4 DEF PopReg, FramesSpared
  <2> QED BY <1>1, <1>4, <2>1 DEF PopReg
<1>5. ASSUME NEW imm \in Imms, NEW n \in {1, 4}, PushImm(imm, n)
      PROVE  CallStack!Next
  <2>1. Wrap(imm) \in Values /\ n \in Widths
    BY WrapType, OperandsAssumption DEF Widths
  <2>2. FramesSpared BY <1>5, <2>1, PushSpares DEF PushImm
  <2> QED BY <1>1, <1>5, <2>2 DEF PushImm
<1>6. ASSUME NEW d \in Displs, NEW n \in {1, 4}, PopMem(d, n)
      PROVE  CallStack!Next
  <2>1. n \in Widths /\ Mapped(rsp, n) BY <1>6 DEF PopMem, Widths
  <2>2. rsp \in Int /\ rsp + d \in Int
    BY Sizes, OperandsAssumption DEF MachineOK, Values
  <2>3. Read(mem, rsp, n) \in Nat
    BY <2>1, <2>2, ReadValue DEF MachineOK, Values
  <2>4. FramesSpared BY <1>6, <2>1, <2>2, <2>3, StoreSpares DEF PopMem
  <2> QED BY <1>1, <1>6, <2>4 DEF PopMem
<1>7. ASSUME NEW n \in {1, 4}, Leave(n) PROVE CallStack!Next
  <2>1. FramesSpared BY <1>7 DEF Leave, FramesSpared
  <2> QED BY <1>1, <1>7, <2>1 DEF Leave
<1>8. ASSUME NEW n \in {2, 4},
             \/ \E rel \in Rels : CallRel(rel, n)
             \/ \E r \in Registers : CallReg(r, n)
             \/ n = 4 /\ \E d \in Displs : CallMem(d)
      PROVE  CallStack!Next
  <2>1. Push(Fall, n) /\ Instr(Called(n)) BY <1>8 DEF CallRel, CallReg, CallMem
  <2> QED BY <1>2, <2>1
<1>9. ASSUME \/ \E rel \in Rels : JmpRel(rel)
             \/ \E r \in Registers : JmpReg(r)
             \/ \E d \in Displs : JmpMem(d)
      PROVE  CallStack!Next
  <2>1. Instr(NoFrame) /\ rsp' = rsp /\ mem' = mem
    BY <1>9 DEF JmpRel, JmpReg, JmpMem
  <2>2. FramesSpared BY <2>1 DEF FramesSpared
  <2> QED BY <1>1, <2>1, <2>2
<1>10. ASSUME NEW n \in {2, 4}, NEW imm \in Adjusts \cup {0}, Ret(n, imm)
       PROVE  CallStack!Next
  <2>1. imm \in Int BY OperandsAssumption
  <2> QED BY <1>0, <1>10, <2>1, RetStep
<1>11. ASSUME \/ \E dst, src \in Registers : MovReg(dst, src)
              \/ \E k \in Adjusts : Adjust(k)
       PROVE  CallStack!Next
  <2>1. Instr(NoFrame) /\ rip' = Fall /\ mem' = mem
    BY <1>11 DEF MovReg, Adjust
  <2>2. FramesSpared BY <2>1 DEF FramesSpared
  <2> QED BY <1>1, <2>1, <2>2
<1>12. ASSUME NEW d \in Displs, NEW imm \in Imms, StoreImm(d, imm)
       PROVE  CallStack!Next
  <2>1. rsp + d \in Int BY OperandsAssumption DEF MachineOK, Values
  <2>2. Wrap(imm) \in Nat BY WrapType, OperandsAssumption, Sizes DEF Values
  <2>3. FramesSpared BY <1>12, <2>1, <2>2, StoreSpares DEF StoreImm, Widths
  <2> QED BY <1>1, <1>12, <2>3 DEF StoreImm
<1> QED
  BY <1>3, <1>4, <1>5, <1>6, <1>7, <1>8, <1>9, <1>10, <1>11, <1>12 DEF Next

\* Spec => CallStack!Spec: every RET of a disciplined guest goes behind the
\* CALL that made its frame, whatever pushes, pops and moves come between.
THEOREM ReturnsWhereCalled == Spec => CallsReturn
<1>1. Init => CallStack!Init
  <2> SUFFICES ASSUME Init PROVE CallStack!Init
    OBVIOUS
  <2>1. DOMAIN frames = {} BY DEF Init, NoFrame
  <2>2. Callers = [p \in {} |-> 0] BY <2>1 DEF Callers
  <2>3. rip \in 0 .. Size - 1 BY TopAssumption DEF Init, Values
  <2> QED BY <2>2, <2>3 DEF CallStack!Init, Callers
<1>2. TypeOK /\ [Next]_vars => [CallStack!Next]_(CallStack!vars)
  <2> SUFFICES ASSUME TypeOK, [Next]_vars
               PROVE  [CallStack!Next]_(CallStack!vars)
    OBVIOUS
  <2>1. CASE Next BY <2>1, AbstractStep, Parts
  <2>2. CASE UNCHANGED vars BY <2>2 DEF vars, CallStack!vars
  <2> QED BY <2>1, <2>2
<1> QED BY <1>1, <1>2, TypeCorrect, PTL DEF Spec, CallsReturn, CallStack!Spec

-----------------------------------------------------------------------------
\* Spec => OperandsOfRsp: PUSH, CALL and POP with operands that depend on the
\* stack pointer, for every operand and both widths of each.
THEOREM OperandsBeforePush == Spec => OperandsOfRsp
<1>1. ASSUME MachineOK, NEW r \in Registers, NEW n \in {1, 4}, PushReg(r, n)
      PROVE  Read(mem', rsp', n) = Reg(r) % Modulus(n)
  <2>1. Reg(r) \in Values /\ n \in Widths BY <1>1, RegType DEF Widths
  <2>2. /\ rsp - n \in Int /\ Mapped(rsp - n, n) /\ mem \in [Addresses -> Cells]
        /\ rsp' = rsp - n /\ mem' = Write(mem, rsp - n, Reg(r), n)
    BY <1>1 DEF PushReg, Push, MachineOK, Values
  <2>3. Read(Write(mem, rsp - n, Reg(r), n), rsp - n, n) = Reg(r) % Modulus(n)
    BY <2>1, <2>2, ReadWrite
  <2> QED BY <2>2, <2>3
<1>2. ASSUME MachineOK, NEW r \in Registers, NEW n \in {2, 4}, CallReg(r, n)
      PROVE  rip' = Reg(r) <=> r # "rsp"
  <2>1. rsp' = rsp - n /\ rsp - n # rsp
    BY <1>2, Sizes DEF CallReg, Push, MachineOK, Values
  <2>2. rip' = IF r = "rsp" THEN rsp' ELSE rbp BY <1>2 DEF CallReg
  <2> QED BY <2>1, <2>2 DEF Reg
<1>3. ASSUME MachineOK, NEW d \in Displs, CallMem(d), d >= 0 \/ d <= 0 - 8
      PROVE  rip' = Read(mem, rsp + d, 4)
  <2>1. /\ rsp \in Int /\ d \in Int /\ rsp - 4 \in Int
        /\ 4 \in Widths /\ Fall \in Nat
    BY <1>3, FallType, OperandsAssumption, Sizes DEF MachineOK, Values, Widths
  <2>2. /\ Mapped(rsp + d, 4) /\ mem \in [Addresses -> Cells]
        /\ rip' = Read(Write(mem, rsp - 4, Fall, 4), rsp + d, 4)
    BY <1>3 DEF CallMem, Push, MachineOK
  <2>3. (rsp + d) + 4 <= rsp - 4 \/ (rsp - 4) + 4 <= rsp + d BY <1>3, <2>1
  <2>4. rsp + d \in Int BY <2>1
  <2> DEFINE at == rsp - 4
             from == rsp + d
             n == 4
  <2>5. /\ at \in Int /\ from \in Int /\ n \in Widths /\ Mapped(from, n)
        /\ from + n <= at \/ at + n <= from
    BY <2>1, <2>2, <2>3, <2>4
  <2>6. rip' = Read(Write(mem, at, Fall, n), from, n) BY <2>2
  <2>7. mem \in [Addresses -> Cells] /\ Fall \in Nat BY <2>1, <2>2
  <2> HIDE DEF at, from, n
  <2>8. Read(Write(mem, at, Fall, n), from, n) = Read(mem, from, n)
    BY <2>5, <2>7, ReadElsewhere
  <2> QED BY <2>6, <2>8 DEF at, from, n
<1>4. ASSUME MachineOK, NEW d \in Displs, NEW n \in {1, 4}, PopMem(d, n)
      PROVE  /\ Read(mem', (rsp' + d) - n, n) = Read(mem, rsp, n)
             /\ \A a \in Addresses \ (rsp + d .. rsp + d + n - 1) : mem'[a] = mem[a]
  <2> DEFINE v == Read(mem, rsp, n)
             at == rsp + d
  <2>1. rsp \in Int /\ n \in Widths /\ Mapped(rsp, n) /\ at \in Int
    BY <1>4, OperandsAssumption DEF PopMem, MachineOK, Values, Widths
  <2>2. mem \in [Addresses -> Cells] BY <1>4 DEF MachineOK
  <2>3. v \in Values /\ v \in 0 .. Modulus(n) - 1
    BY <2>1, <2>2, ReadValue, ReadType
  <2>4. /\ Mapped(at, n) /\ (rsp' + d) - n = at
        /\ mem' = Write(mem, at, v, n)
    BY <1>4, <2>1, OperandsAssumption DEF PopMem
  <2> HIDE DEF v, at
  <2>5. v % Modulus(n) = v
    <3>1. Modulus(n) \in Nat /\ Modulus(n) > 0 BY <2>1, ModulusType
    <3>2. v = Modulus(n) * 0 + v BY <2>3, <3>1
    <3> QED BY <2>3, <3>1, <3>2, RemainderUnique
  <2>6. Read(mem', (rsp' + d) - n, n) = v
    <3>1. Read(Write(mem, at, v, n), at, n) = v
      BY <2>1, <2>2, <2>3, <2>4, <2>5, ReadWrite
    <3> QED BY <2>4, <3>1
  <2>7. \A a \in Addresses \ (at .. at + n - 1) : mem'[a] = mem[a]
    BY <2>4 DEF Write
  <2> QED BY <2>6, <2>7 DEF v, at
<1>5. TypeOK /\ [Next]_vars =>
        [/\ \A r \in Registers, n \in {1, 4} :
              PushReg(r, n) => Read(mem', rsp', n) = Reg(r) % Modulus(n)
         /\ \A r \in Registers, n \in {2, 4} :
              CallReg(r, n) => (rip' = Reg(r) <=> r # "rsp")
         /\ \A d \in Displs :
              (CallMem(d) /\ (d >= 0 \/ d <= 0 - 8)) => rip' = Read(mem, rsp + d, 4)
         /\ \A d \in Displs, n \in {1, 4} :
              PopMem(d, n) =>
                 /\ Read(mem', (rsp' + d) - n, n) = Read(mem, rsp, n)
                 /\ \A a \in Addresses \ (rsp + d .. rsp + d + n - 1) :
                       mem'[a] = mem[a]]_vars
  BY <1>1, <1>2, <1>3, <1>4, Parts
<1> QED BY <1>5, TypeCorrect, PTL DEF Spec, OperandsOfRsp
=============================================================================
