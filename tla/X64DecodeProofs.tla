-------------------------- MODULE X64DecodeProofs --------------------------
(***************************************************************************)
(* Theorems about the decoder, for every choice of guest bytes and bound   *)
(* on the prefixes: fields keep their types, and instructions their length.*)
(***************************************************************************)
EXTENDS X64Decode, TLAPS

-----------------------------------------------------------------------------
(* Facts about the tables. *)

OpLen(i) == IF i.op < 256 THEN 1 ELSE 2

\* FETCH_IMM_* fetches at most a quadword.
LEMMA ImmBytesValues == ASSUME NEW i PROVE ImmBytes(i) \in {0, 1, 2, 4, 8}
BY DEF ImmBytes, Imm16or32, Imm16or32or64

\* x64modrm_fetch fetches nothing, a byte or a doubleword.
LEMMA DisplBytesValues == ASSUME NEW i PROVE DisplBytes(i) \in {0, 1, 4}
BY DEF DisplBytes

\* An opcode with a ModR/M byte has at most four bytes of immediate, and one
\* behind 0F at most one: the quadword of B8..BF and the doubleword of
\* 0F 80..8F belong to opcodes without ModR/M.
LEMMA ImmAfterModRM ==
    ASSUME NEW i, i.op \in Int, FetchesModRM(i.op)
    PROVE  ImmBytes(i) + OpLen(i) <= 5
<1>2. CASE i.op < 256
  <2>1. i.op \notin \hB8 .. \hBF
    BY <1>2 DEF FetchesModRM, Family, TwoByte
  <2>2. ImmBytes(i) <= 4
    BY <2>1 DEF ImmBytes, Imm16or32
  <2> QED BY <1>2, <2>2, ImmBytesValues DEF OpLen
<1>3. CASE ~(i.op < 256)
  <2>1. ~FetchesImm16or32(i.op, i.reg)
    BY <1>3 DEF FetchesModRM, FetchesImm16or32, Family, TwoByte
  <2>2. i.op \notin \hB8 .. \hBF /\ i.op # \hC2 /\ i.op \notin {\hE8, \hE9}
    BY <1>3
  <2>3. ImmBytes(i) <= 1
    BY <2>1, <2>2 DEF ImmBytes
  <2> QED BY <1>3, <2>3, ImmBytesValues DEF OpLen
<1> QED BY <1>2, <1>3

-----------------------------------------------------------------------------
(* The inductive invariant: in each phase, how long the instruction can be *)
(* so far.                                                                 *)

Fields ==
    [rep : Reps, rex : BOOLEAN, rexw : BOOLEAN, opsz : BOOLEAN, adsz : BOOLEAN,
     op : Opcodes, modrm : BOOLEAN, mod : 0 .. 3, reg : 0 .. 7, rm : 0 .. 7,
     base : 0 .. 7, displ : {0, 1, 4}, imm : {0, 1, 2, 4, 8}, len : Nat, npfx : 0 .. MaxPrefixes]

Typed == phase \in Phases /\ ins \in Fields /\ prefixes \subseteq Legacy

Budget ==
    /\ phase = "prefix"  => ins.len = ins.npfx
    /\ phase = "opcode"  => ins.len = ins.npfx + 1
    /\ phase = "second"  => ins.len <= ins.npfx + 2
    /\ phase = "modrm"   => ins.len <= ins.npfx + 1 + OpLen(ins)
    /\ phase = "sib"     => ins.len <= ins.npfx + 2 + OpLen(ins)
    /\ phase = "displ"   => ins.len <= ins.npfx + 3 + OpLen(ins)
    /\ phase = "imm"     => ins.len <= ins.npfx + 12 - ImmBytes(ins)
    /\ ins.len <= ins.npfx + 12
    /\ phase = "killed" => ins.len > 15
    /\ phase \in {"modrm", "sib", "displ"} => FetchesModRM(ins.op)

\* What the fetches assign to is typed field by field.
LEMMA FetchedTyped == \A i \in Fields, n \in Nat : Fetched(i, n) \in Fields
BY DEF Fetched, Fields

LEMMA FlagTyped ==
    ASSUME NEW i \in Fields, NEW x \in BOOLEAN
    PROVE  /\ [i EXCEPT !.rex = x] \in Fields /\ [i EXCEPT !.rexw = x] \in Fields
           /\ [i EXCEPT !.opsz = x] \in Fields /\ [i EXCEPT !.adsz = x] \in Fields
           /\ [i EXCEPT !.modrm = x] \in Fields
<1>1. [i EXCEPT !.rex = x] \in Fields
  BY DEF Fields
<1>2. [i EXCEPT !.rexw = x] \in Fields
  BY DEF Fields
<1>3. [i EXCEPT !.opsz = x] \in Fields
  BY DEF Fields
<1>4. [i EXCEPT !.adsz = x] \in Fields
  BY DEF Fields
<1>5. [i EXCEPT !.modrm = x] \in Fields
  BY DEF Fields
<1> QED BY <1>1, <1>2, <1>3, <1>4, <1>5

LEMMA PrefixTyped ==
    ASSUME NEW i \in Fields, NEW n \in 0 .. MaxPrefixes, NEW o \in BOOLEAN, NEW a \in BOOLEAN,
           NEW r \in Reps
    PROVE  [i EXCEPT !.npfx = n, !.opsz = o, !.adsz = a, !.rep = r] \in Fields
<1>1. [i EXCEPT !.npfx = n] \in Fields
  BY DEF Fields
<1>2. [[i EXCEPT !.npfx = n] EXCEPT !.opsz = o] \in Fields
  BY <1>1, FlagTyped, Zenon
<1>3. [[[i EXCEPT !.npfx = n] EXCEPT !.opsz = o] EXCEPT !.adsz = a] \in Fields
  BY <1>2, FlagTyped, Zenon
<1>4. \A k \in Fields : [k EXCEPT !.rep = r] \in Fields
  BY DEF Fields
<1> QED BY <1>3, <1>4, Zenon

LEMMA RexTyped ==
    ASSUME NEW i \in Fields, NEW r \in BOOLEAN, NEW w \in BOOLEAN
    PROVE  [i EXCEPT !.rex = r, !.rexw = w] \in Fields
<1>1. [i EXCEPT !.rex = r] \in Fields
  BY FlagTyped, Zenon
<1> QED BY <1>1, FlagTyped, Zenon

LEMMA OpcodeTyped ==
    ASSUME NEW i \in Fields, NEW o \in Opcodes
    PROVE  [i EXCEPT !.op = o] \in Fields
BY DEF Fields

LEMMA ModRMTyped ==
    ASSUME NEW i \in Fields, NEW p \in BOOLEAN, NEW m \in 0 .. 3, NEW r \in 0 .. 7, NEW x \in 0 .. 7
    PROVE  [i EXCEPT !.modrm = p, !.mod = m, !.reg = r, !.rm = x] \in Fields
<1>1. [i EXCEPT !.modrm = p] \in Fields
  BY FlagTyped, Zenon
<1>2. [[i EXCEPT !.modrm = p] EXCEPT !.mod = m] \in Fields
  BY <1>1 DEF Fields
<1>3. [[[i EXCEPT !.modrm = p] EXCEPT !.mod = m] EXCEPT !.reg = r] \in Fields
  BY <1>2 DEF Fields
<1>4. \A k \in Fields : [k EXCEPT !.rm = x] \in Fields
  BY DEF Fields
<1> QED BY <1>3, <1>4, Zenon

LEMMA SibTyped == \A i \in Fields, x \in 0 .. 7 : [i EXCEPT !.base = x] \in Fields
BY DEF Fields

LEMMA DisplTyped == \A i \in Fields, n \in {0, 1, 4} : [i EXCEPT !.displ = n] \in Fields
BY DEF Fields

LEMMA ImmTyped == \A i \in Fields, n \in {0, 1, 2, 4, 8} : [i EXCEPT !.imm = n] \in Fields
BY DEF Fields

\* The bit fields of a byte.
LEMMA BitFields ==
    ASSUME NEW b \in 0 .. 255
    PROVE  b \div 64 \in 0 .. 3 /\ b \div 8 % 8 \in 0 .. 7 /\ b % 8 \in 0 .. 7
OBVIOUS

LEMMA ZeroTyped == Zero \in Fields
<1>1. 0 \in Reps /\ 0 \in Opcodes /\ 0 \in 0 .. MaxPrefixes
  BY MaxPrefixesAssumption DEF Reps, Opcodes, TwoByte
<1> QED BY <1>1 DEF Zero, Fields

\* Every step keeps the types of the fields.
LEMMA FieldsStep == ASSUME ins \in Fields, Next PROVE ins' \in Fields
<1> DEFINE j == Fetched(ins, 1)
<1>j. j \in Fields
  BY FetchedTyped
<1> HIDE DEF j
<1>1. ASSUME NEW b \in Bytes, FetchPrefix(b) PROVE ins' \in Fields
  <2> DEFINE n == j.npfx + 1
             o == j.opsz \/ b = \h66
             a == j.adsz \/ b = \h67
             r == IF b \in {\hF2, \hF3} THEN b ELSE j.rep
  <2>1. ins' = [j EXCEPT !.npfx = n, !.opsz = o, !.adsz = a, !.rep = r]
    BY <1>1 DEF FetchPrefix, j
  <2>2. n \in 0 .. MaxPrefixes
    <3>1. j.npfx = ins.npfx /\ ins.npfx < MaxPrefixes /\ ins.npfx \in 0 .. MaxPrefixes
      BY <1>1 DEF j, Fetched, Fields, FetchPrefix
    <3> QED BY <3>1, MaxPrefixesAssumption
  <2>3. o \in BOOLEAN /\ a \in BOOLEAN
    BY Zenon
  <2>4. r \in Reps
    <3>1. j.rep \in Reps
      BY <1>j DEF Fields
    <3> QED BY <3>1 DEF Reps
  <2> HIDE DEF n, o, a, r
  <2> QED BY <1>j, <2>1, <2>2, <2>3, <2>4, PrefixTyped, Zenon
<1>2. ASSUME NEW b \in Bytes, FetchRex(b) PROVE ins' \in Fields
  <2>1. ins' = [j EXCEPT !.rex = TRUE, !.rexw = b \div 8 % 2 = 1]
    BY <1>2 DEF FetchRex, j
  <2>2. TRUE \in BOOLEAN /\ (b \div 8 % 2 = 1) \in BOOLEAN
    BY Zenon
  <2> QED BY <1>j, <2>1, <2>2, RexTyped, Zenon
<1>3. ASSUME NEW b \in Bytes, FetchUnsupported(b) PROVE ins' \in Fields
  <2>1. ins' = [j EXCEPT !.op = 6]
    BY <1>3 DEF FetchUnsupported, j
  <2>2. 6 \in Opcodes
    BY DEF Opcodes, TwoByte
  <2>9. [j EXCEPT !.op = 6] \in Fields
    BY <1>j, <2>2, OpcodeTyped
  <2> QED BY <2>1, <2>9
<1>4. ASSUME NEW b \in Bytes, FetchOpcode(b) PROVE ins' \in Fields
  <2>1. ins' = [j EXCEPT !.op = b]
    BY <1>4 DEF FetchOpcode, j
  <2>2. b \in Opcodes
    BY BytesAssumption DEF Opcodes, TwoByte
  <2>9. [j EXCEPT !.op = b] \in Fields
    BY <1>j, <2>2, OpcodeTyped
  <2> QED BY <2>1, <2>9
<1>5. ASSUME NEW b \in Bytes, FetchSecond(b) PROVE ins' \in Fields
  <2>1. ins' = [j EXCEPT !.op = TwoByte(b)]
    BY <1>5 DEF FetchSecond, j
  <2>2. TwoByte(b) \in Opcodes
    BY BytesAssumption DEF Opcodes, TwoByte
  <2>9. [j EXCEPT !.op = TwoByte(b)] \in Fields
    BY <1>j, <2>2, OpcodeTyped
  <2> QED BY <2>1, <2>9
<1>6. ASSUME NEW b \in OperandBytes, FetchModRM(b) PROVE ins' \in Fields
  <2>1. ins' = [j EXCEPT !.modrm = TRUE, !.mod = b \div 64, !.reg = b \div 8 % 8, !.rm = b % 8]
    BY <1>6 DEF FetchModRM, j
  <2>2. b \in 0 .. 255
    BY BytesAssumption
  <2>3. TRUE \in BOOLEAN
    BY Zenon
  <2> QED BY <1>j, <2>1, <2>2, <2>3, BitFields, ModRMTyped, Zenon
<1>7. ASSUME NEW b \in OperandBytes, FetchSib(b) PROVE ins' \in Fields
  <2>1. ins' = [j EXCEPT !.base = b % 8]
    BY <1>7 DEF FetchSib, j
  <2>2. b \in 0 .. 255
    BY BytesAssumption
  <2> QED BY <1>j, <2>1, <2>2, BitFields, SibTyped, Zenon
<1>8. ASSUME FetchDispl PROVE ins' \in Fields
  <2>1. ins' = [Fetched(ins, DisplBytes(ins)) EXCEPT !.displ = DisplBytes(ins)]
    BY <1>8 DEF FetchDispl
  <2>2. DisplBytes(ins) \in Nat
    BY DisplBytesValues
  <2> QED BY <2>1, <2>2, DisplBytesValues, FetchedTyped, DisplTyped, Zenon
<1>9. ASSUME FetchImm PROVE ins' \in Fields
  <2>1. ins' = [Fetched(ins, ImmBytes(ins)) EXCEPT !.imm = ImmBytes(ins)]
    BY <1>9 DEF FetchImm
  <2>2. ImmBytes(ins) \in Nat
    BY ImmBytesValues
  <2> QED BY <2>1, <2>2, ImmBytesValues, FetchedTyped, ImmTyped, Zenon
<1>10. Zero \in Fields
  BY ZeroTyped
<1> QED
  BY <1>1, <1>2, <1>3, <1>4, <1>5, <1>6, <1>7, <1>8, <1>9, <1>10 DEF Next, PrintState, Execute, Stop

LEMMA TypedStep == ASSUME Typed, [Next]_vars PROVE Typed'
<1>1. phase' \in Phases
  BY DEF Typed, Phases, Next, vars, FetchPrefix, FetchRex, FetchUnsupported, FetchOpcode,
         FetchSecond, FetchModRM, FetchSib, FetchDispl, FetchImm, PrintState, Execute, Stop,
         ModRMPhase, DisplPhase, ImmPhase
<1>2. prefixes' \subseteq Legacy
  BY DEF Typed, Next, vars, FetchPrefix, FetchRex, FetchUnsupported, FetchOpcode,
         FetchSecond, FetchModRM, FetchSib, FetchDispl, FetchImm, PrintState, Execute, Stop
<1>3. ins' \in Fields
  BY FieldsStep DEF Typed, vars
<1> QED BY <1>1, <1>2, <1>3 DEF Typed

-----------------------------------------------------------------------------
(* The length of the instruction. *)

LEMMA LengthTyped ==
    ASSUME NEW i \in Fields
    PROVE  i.len \in Int /\ i.npfx \in Int /\ i.op \in Int /\ OpLen(i) \in {1, 2}
<1>1. i.len \in Nat /\ i.op \in Opcodes /\ i.npfx \in 0 .. MaxPrefixes
  BY DEF Fields
<1>2. \A o \in Opcodes : o \in Int
  BY DEF Opcodes, TwoByte
<1>3. i.len \in Int /\ i.npfx \in Int
  BY <1>1, MaxPrefixesAssumption
<1> QED BY <1>1, <1>2, <1>3 DEF OpLen

\* Where a fetch leads, and how long the instruction is then.
LEMMA NextFetch ==
    ASSUME NEW i \in Fields
    PROVE  /\ ImmPhase(i) = "imm" \/ ImmPhase(i) = "trace"
           /\ DisplPhase(i) \in {"displ", ImmPhase(i)}
           /\ ModRMPhase(i) \in IF FetchesModRM(i.op) THEN {"modrm"} ELSE {ImmPhase(i)}
BY DEF ImmPhase, DisplPhase, ModRMPhase

\* Of an instruction that has only its immediate left to fetch.
LEMMA ImmFits ==
    ASSUME NEW i \in Fields,
           i.len <= i.npfx + 4 \/ (FetchesModRM(i.op) /\ i.len <= i.npfx + 7 + OpLen(i))
    PROVE  i.len <= i.npfx + 12 - ImmBytes(i)
<1>1. ImmBytes(i) <= 8 /\ ImmBytes(i) \in Int
  BY ImmBytesValues
<1>2. FetchesModRM(i.op) => ImmBytes(i) + OpLen(i) <= 5
  BY ImmAfterModRM, LengthTyped
<1> QED BY <1>1, <1>2, LengthTyped

\* No fetch makes the instruction longer than its phase allows.
LEMMA BudgetStep == ASSUME Typed, Budget, Typed', Next PROVE Budget'
<1>f. ins \in Fields /\ ins' \in Fields
  BY DEF Typed
<1>t. /\ ins.len \in Int /\ ins.npfx \in Int /\ ins.op \in Int /\ OpLen(ins) \in {1, 2}
      /\ ins'.len \in Int /\ ins'.npfx \in Int /\ ins'.op \in Int /\ OpLen(ins') \in {1, 2}
  BY <1>f, LengthTyped
<1>i. /\ ImmBytes(ins) \in {0, 1, 2, 4, 8} /\ ImmBytes(ins') \in {0, 1, 2, 4, 8}
      /\ DisplBytes(ins) \in {0, 1, 4}
  BY ImmBytesValues, DisplBytesValues
<1>n. /\ ImmPhase(ins') = "imm" \/ ImmPhase(ins') = "trace"
      /\ DisplPhase(ins') \in {"displ", ImmPhase(ins')}
      /\ ModRMPhase(ins') \in IF FetchesModRM(ins'.op) THEN {"modrm"} ELSE {ImmPhase(ins')}
  BY <1>f, NextFetch
<1>m. ins'.len <= ins'.npfx + 4 \/ (FetchesModRM(ins'.op) /\ ins'.len <= ins'.npfx + 7 + OpLen(ins'))
        => ins'.len <= ins'.npfx + 12 - ImmBytes(ins')
  BY <1>f, ImmFits
<1>1. ASSUME NEW b \in Bytes, FetchPrefix(b) PROVE Budget'
  <2>1. phase' = "prefix" /\ ins'.len = ins.len + 1 /\ ins'.npfx = ins.npfx + 1
    BY <1>1, <1>f DEF FetchPrefix, Fetched, Fields
  <2>2. ins.len = ins.npfx
    BY <1>1 DEF Budget, FetchPrefix
  <2> QED BY <2>1, <2>2, <1>t DEF Budget
<1>2. ASSUME NEW b \in Bytes, FetchRex(b) PROVE Budget'
  <2>1. phase' = "opcode" /\ ins'.len = ins.len + 1 /\ ins'.npfx = ins.npfx
    BY <1>2, <1>f DEF FetchRex, Fetched, Fields
  <2>2. ins.len = ins.npfx
    BY <1>2 DEF Budget, FetchRex
  <2> QED BY <2>1, <2>2, <1>t DEF Budget
<1>3. ASSUME NEW b \in Bytes, FetchUnsupported(b) PROVE Budget'
  <2>1. phase' = "stopped" /\ ins'.len = ins.len + 1 /\ ins'.npfx = ins.npfx
    BY <1>3, <1>f DEF FetchUnsupported, Fetched, Fields
  <2>2. ins.len = ins.npfx
    BY <1>3 DEF Budget, FetchUnsupported
  <2> QED BY <2>1, <2>2, <1>t DEF Budget
<1>4. ASSUME NEW b \in Bytes, FetchOpcode(b) PROVE Budget'
  <2>1. /\ ins'.len = ins.len + 1 /\ ins'.npfx = ins.npfx
        /\ phase' \in {"second", ModRMPhase(ins'), "stopped"}
    BY <1>4, <1>f DEF FetchOpcode, Fetched, Fields
  <2>2. ins.len <= ins.npfx + 1
    BY <1>4, <1>t DEF Budget, FetchOpcode
  <2> QED BY <2>1, <2>2, <1>t, <1>i, <1>n, <1>m DEF Budget
<1>5. ASSUME NEW b \in Bytes, FetchSecond(b) PROVE Budget'
  <2>1. /\ ins'.len = ins.len + 1 /\ ins'.npfx = ins.npfx /\ ins'.op = TwoByte(b)
        /\ phase' \in {ModRMPhase(ins'), "stopped"}
    BY <1>5, <1>f DEF FetchSecond, Fetched, Fields
  <2>2. ins.len <= ins.npfx + 2
    BY <1>5 DEF Budget, FetchSecond
  <2>3. OpLen(ins') = 2
    BY <2>1, BytesAssumption DEF OpLen, TwoByte
  <2> QED BY <2>1, <2>2, <2>3, <1>t, <1>i, <1>n, <1>m DEF Budget
<1>6. ASSUME NEW b \in OperandBytes, FetchModRM(b) PROVE Budget'
  <2>1. /\ ins'.len = ins.len + 1 /\ ins'.npfx = ins.npfx /\ ins'.op = ins.op
        /\ phase' \in {ImmPhase(ins'), "sib", DisplPhase(ins')}
    BY <1>6, <1>f DEF FetchModRM, Fetched, Fields
  <2>2. ins.len <= ins.npfx + 1 + OpLen(ins) /\ FetchesModRM(ins.op)
    BY <1>6 DEF Budget, FetchModRM
  <2>3. OpLen(ins') = OpLen(ins) /\ FetchesModRM(ins'.op)
    BY <2>1, <2>2 DEF OpLen
  <2> QED BY <2>1, <2>2, <2>3, <1>t, <1>i, <1>n, <1>m DEF Budget
<1>7. ASSUME NEW b \in OperandBytes, FetchSib(b) PROVE Budget'
  <2>1. /\ ins'.len = ins.len + 1 /\ ins'.npfx = ins.npfx /\ ins'.op = ins.op
        /\ phase' = DisplPhase(ins')
    BY <1>7, <1>f DEF FetchSib, Fetched, Fields
  <2>2. ins.len <= ins.npfx + 2 + OpLen(ins) /\ FetchesModRM(ins.op)
    BY <1>7 DEF Budget, FetchSib
  <2>3. OpLen(ins') = OpLen(ins) /\ FetchesModRM(ins'.op)
    BY <2>1, <2>2 DEF OpLen
  <2> QED BY <2>1, <2>2, <2>3, <1>t, <1>i, <1>n, <1>m DEF Budget
<1>8. ASSUME FetchDispl PROVE Budget'
  <2>1. /\ ins'.len = ins.len + DisplBytes(ins) /\ ins'.npfx = ins.npfx /\ ins'.op = ins.op
        /\ phase' = ImmPhase(ins')
    BY <1>8, <1>f DEF FetchDispl, Fetched, Fields
  <2>2. ins.len <= ins.npfx + 3 + OpLen(ins) /\ FetchesModRM(ins.op)
    BY <1>8 DEF Budget, FetchDispl
  <2>3. OpLen(ins') = OpLen(ins) /\ FetchesModRM(ins'.op)
    BY <2>1, <2>2 DEF OpLen
  <2> QED BY <2>1, <2>2, <2>3, <1>t, <1>i, <1>n, <1>m DEF Budget
<1>9. ASSUME FetchImm PROVE Budget'
  <2>1. /\ ins'.len = ins.len + ImmBytes(ins) /\ ins'.npfx = ins.npfx
        /\ phase' = "trace"
    BY <1>9, <1>f DEF FetchImm, Fetched, Fields
  <2>2. ins.len <= ins.npfx + 12 - ImmBytes(ins)
    BY <1>9 DEF Budget, FetchImm
  <2> QED BY <2>1, <2>2, <1>t, <1>i DEF Budget
<1>10. ASSUME Execute PROVE Budget'
  BY <1>10 DEF Budget, Execute, Zero
<1>11. ASSUME Stop PROVE Budget'
  BY <1>11 DEF Budget, Stop
<1>12. ASSUME PrintState PROVE Budget'
  <2>1. phase = "trace" /\ phase' \in {"execute", "killed"} /\ ins' = ins
    BY <1>12 DEF PrintState
  <2>2. TraceText(ins) <= 48 => phase' # "killed"
    BY <1>12 DEF PrintState
  <2>3. phase' = "killed" => ins'.len > 15
    BY <2>1, <2>2, <1>t DEF TraceText
  <2> QED BY <2>1, <2>3 DEF Budget
<1> QED
  BY <1>1, <1>2, <1>3, <1>4, <1>5, <1>6, <1>7, <1>8, <1>9, <1>10, <1>11, <1>12 DEF Next

-----------------------------------------------------------------------------
(* What has been fetched of the instruction in each phase.                 *)

One(condition) == IF condition THEN 1 ELSE 0

\* The prefixes decide the flags.
Flags(i, p) ==
    /\ i.opsz <=> \h66 \in p
    /\ i.adsz <=> \h67 \in p
    /\ i.rep \in (p \cap {\hF2, \hF3}) \cup (IF p \cap {\hF2, \hF3} = {} THEN {0} ELSE {})
    /\ i.rexw => i.rex

\* The prefixes, the opcode and the fields fetched behind it are all there is.
Blank(i) == ~i.modrm /\ i.displ = 0 /\ i.imm = 0

HasSibByte(i) == i.modrm /\ i.mod # 3 /\ i.rm = 4

Length(i) ==
    i.npfx + One(i.rex) + OpLen(i) + One(i.modrm) + One(HasSibByte(i)) + i.displ + i.imm

Shape ==
    /\ Flags(ins, prefixes)
    /\ phase \in {"prefix", "opcode"} => Blank(ins) /\ ins.len = ins.npfx + One(ins.rex)
    /\ phase = "prefix" => ~ins.rex
    /\ phase = "second" => Blank(ins) /\ ins.len = ins.npfx + One(ins.rex) + 1
    /\ phase \in {"modrm", "sib", "displ", "imm", "trace", "execute"} =>
          /\ Handled(ins.op)
          /\ ins.modrm <=> FetchesModRM(ins.op) /\ phase # "modrm"
          /\ ins.displ = IF ins.modrm /\ phase \in {"imm", "trace", "execute"}
                           THEN DisplBytes(ins) ELSE 0
          /\ ins.imm = IF phase \in {"trace", "execute"} THEN ImmBytes(ins) ELSE 0
          /\ ins.len = Length(ins) - One(phase = "sib")
    /\ phase = "sib" => HasSibByte(ins)


\* What the next fetch depends on.
LEMMA SameFetch ==
    ASSUME NEW i, NEW j, i.op = j.op, i.reg = j.reg, i.opsz = j.opsz, i.rexw = j.rexw
    PROVE  ImmBytes(i) = ImmBytes(j) /\ ImmPhase(i) = ImmPhase(j)
BY DEF ImmPhase, ImmBytes, Imm16or32, Imm16or32or64

LEMMA SameDispl ==
    ASSUME NEW i, NEW j, i.mod = j.mod, i.rm = j.rm, i.base = j.base \/ i.rm # 4
    PROVE  DisplBytes(i) = DisplBytes(j)
BY DEF DisplBytes

LEMMA Phased ==
    ASSUME NEW i
    PROVE  /\ ImmPhase(i) = IF ImmBytes(i) = 0 THEN "trace" ELSE "imm"
           /\ DisplPhase(i) = IF DisplBytes(i) = 0 THEN ImmPhase(i) ELSE "displ"
BY ImmBytesValues, DisplBytesValues DEF ImmPhase, DisplPhase

LEMMA ShapeInit == Init => Shape
BY DEF Init, Shape, Zero, Flags, Blank, One

LEMMA ShapeStep ==
    ASSUME Typed, Typed', Budget, Shape, Next
    PROVE  Shape'
<1>f. ins \in Fields /\ ins' \in Fields /\ ins.len \in Int /\ ins.npfx \in Int
      /\ ins'.len \in Int /\ ins'.npfx \in Int
  BY LengthTyped DEF Typed
<1>b. /\ ins.opsz \in BOOLEAN /\ ins.adsz \in BOOLEAN /\ ins.modrm \in BOOLEAN
      /\ ins'.opsz \in BOOLEAN /\ ins'.adsz \in BOOLEAN /\ ins'.modrm \in BOOLEAN
  BY <1>f DEF Fields
<1>o. phase = "modrm" \/ phase = "displ" => FetchesModRM(ins.op)
  BY DEF Budget
<1>l. ins.displ \in Int /\ ins.imm \in Int /\ Length(ins) \in Int
  BY <1>f DEF Fields, Length, One, OpLen
<1>p. /\ ImmPhase(ins') = IF ImmBytes(ins') = 0 THEN "trace" ELSE "imm"
      /\ DisplPhase(ins') = IF DisplBytes(ins') = 0 THEN ImmPhase(ins') ELSE "displ"
  BY Phased
<1>1. ASSUME NEW b \in Bytes, FetchPrefix(b) PROVE Shape'
  <2>1. /\ phase = "prefix" /\ phase' = "prefix" /\ prefixes' = prefixes \cup {b}
        /\ ins'.len = ins.len + 1 /\ ins'.npfx = ins.npfx + 1
        /\ ins'.rex = ins.rex /\ ins'.rexw = ins.rexw /\ ins'.modrm = ins.modrm
        /\ ins'.displ = ins.displ /\ ins'.imm = ins.imm
    BY <1>1, <1>f DEF FetchPrefix, Fetched, Fields
  <2>2. /\ ins'.opsz = (ins.opsz \/ b = \h66) /\ ins'.adsz = (ins.adsz \/ b = \h67)
        /\ ins'.rep = IF b \in {\hF2, \hF3} THEN b ELSE ins.rep
    BY <1>1, <1>f DEF FetchPrefix, Fetched, Fields
  <2>3. Flags(ins', prefixes')
    <3>1. (ins'.opsz <=> \h66 \in prefixes') /\ (ins'.adsz <=> \h67 \in prefixes')
      <4>1. (ins.opsz <=> \h66 \in prefixes) /\ (ins.adsz <=> \h67 \in prefixes)
        BY DEF Shape, Flags
      <4>2. \A x : x \in prefixes' <=> x \in prefixes \/ x = b
        BY <2>1
      <4>3. ins'.opsz <=> \h66 \in prefixes \/ b = \h66
        <5>1. ins'.opsz = (ins.opsz \/ b = \h66)
          BY <2>2
        <5> QED
          BY <4>1, <5>1, ZenonT(60)
      <4>4. ins'.adsz <=> \h67 \in prefixes \/ b = \h67
        <5>1. ins'.adsz = (ins.adsz \/ b = \h67)
          BY <2>2
        <5> QED
          BY <4>1, <5>1, ZenonT(60)
      <4>5. \h66 \in prefixes' <=> \h66 \in prefixes \/ b = \h66
        BY <4>2
      <4>6. \h67 \in prefixes' <=> \h67 \in prefixes \/ b = \h67
        BY <4>2
      <4> QED
        BY <4>3, <4>4, <4>5, <4>6, Zenon
    <3>2. ins'.rep \in (prefixes' \cap {\hF2, \hF3})
                         \cup (IF prefixes' \cap {\hF2, \hF3} = {} THEN {0} ELSE {})
      BY <2>1, <2>2 DEF Shape, Flags
    <3>3. ins'.rexw => ins'.rex
      BY <2>1 DEF Shape, Flags
    <3> QED
      BY <3>1, <3>2, <3>3 DEF Flags
  <2>4. ~ins.rex /\ Blank(ins) /\ ins.len = ins.npfx + One(ins.rex)
    BY <2>1 DEF Shape
  <2>5. ~ins'.rex /\ Blank(ins') /\ ins'.len = ins'.npfx + One(ins'.rex)
    BY <1>f, <2>1, <2>4 DEF Blank, One
  <2> QED
    BY <2>1, <2>3, <2>5 DEF Shape
<1>2. ASSUME NEW b \in Bytes, FetchRex(b) PROVE Shape'
  <2>1. /\ phase = "prefix" /\ phase' = "opcode" /\ prefixes' = prefixes
        /\ ins'.len = ins.len + 1 /\ ins'.npfx = ins.npfx /\ ins'.rex = TRUE
        /\ ins'.opsz = ins.opsz /\ ins'.adsz = ins.adsz /\ ins'.rep = ins.rep
        /\ ins'.modrm = ins.modrm /\ ins'.displ = ins.displ /\ ins'.imm = ins.imm
    BY <1>2, <1>f DEF FetchRex, Fetched, Fields
  <2>2. Flags(ins', prefixes')
    BY <2>1 DEF Shape, Flags
  <2>3. ~ins.rex /\ Blank(ins) /\ ins.len = ins.npfx + One(ins.rex)
    BY <2>1 DEF Shape
  <2>4. Blank(ins') /\ ins'.len = ins'.npfx + One(ins'.rex)
    BY <1>f, <2>1, <2>3 DEF Blank, One
  <2> QED
    BY <2>1, <2>2, <2>4 DEF Shape
<1>3. ASSUME NEW b \in Bytes, FetchUnsupported(b) PROVE Shape'
  <2>1. /\ phase' = "stopped" /\ prefixes' = prefixes
        /\ ins'.opsz = ins.opsz /\ ins'.adsz = ins.adsz /\ ins'.rep = ins.rep
        /\ ins'.rex = ins.rex /\ ins'.rexw = ins.rexw
    BY <1>3, <1>f DEF FetchUnsupported, Fetched, Fields
  <2> QED
    BY <2>1 DEF Shape, Flags
<1>4. ASSUME NEW b \in Bytes, FetchOpcode(b) PROVE Shape'
  <2>1. /\ phase \in {"prefix", "opcode"} /\ prefixes' = prefixes
        /\ phase' = IF b = \h0F THEN "second"
                    ELSE IF Handled(b) THEN ModRMPhase(ins') ELSE "stopped"
    BY <1>4 DEF FetchOpcode
  <2>2. /\ ins'.len = ins.len + 1 /\ ins'.npfx = ins.npfx /\ ins'.op = b
        /\ ins'.opsz = ins.opsz /\ ins'.adsz = ins.adsz /\ ins'.rep = ins.rep
        /\ ins'.rex = ins.rex /\ ins'.rexw = ins.rexw /\ ins'.modrm = ins.modrm
        /\ ins'.displ = ins.displ /\ ins'.imm = ins.imm
    BY <1>4, <1>f DEF FetchOpcode, Fetched, Fields
  <2>3. Flags(ins', prefixes')
    BY <2>1, <2>2 DEF Shape, Flags
  <2>4. Blank(ins) /\ ins.len = ins.npfx + One(ins.rex)
    BY <2>1 DEF Shape
  <2>5. Blank(ins') /\ ins'.len = ins'.npfx + One(ins'.rex) + 1 /\ OpLen(ins') = 1
    BY <1>f, <2>2, <2>4, BytesAssumption DEF Blank, One, OpLen
  <2>6. ins'.len = Length(ins')
    BY <1>f, <2>2, <2>5 DEF Length, Blank, One, HasSibByte
  <2>7. CASE b = \h0F
    BY <2>1, <2>3, <2>5, <2>7 DEF Shape
  <2>8. CASE b # \h0F /\ ~Handled(b)
    BY <2>1, <2>3, <2>8 DEF Shape
  <2>9. CASE b # \h0F /\ Handled(b)
    <3>1. phase' = ModRMPhase(ins') /\ Handled(ins'.op)
      BY <2>1, <2>2, <2>9
    <3>2. CASE FetchesModRM(ins'.op)
      <4>1. phase' = "modrm"
        BY <3>1, <3>2 DEF ModRMPhase
      <4> QED
        BY <1>b, <1>f, <2>3, <2>5, <2>6, <3>1, <4>1 DEF Shape, Blank, One
    <3>3. CASE ~FetchesModRM(ins'.op)
      <4>1. phase' = IF ImmBytes(ins') = 0 THEN "trace" ELSE "imm"
        BY <1>p, <3>1, <3>3 DEF ModRMPhase
      <4> QED
        BY <1>b, <1>f, <2>3, <2>5, <2>6, <3>1, <3>3, <4>1 DEF Shape, Blank, One
    <3> QED
      BY <3>2, <3>3
  <2> QED
    BY <2>7, <2>8, <2>9
<1>5. ASSUME NEW b \in Bytes, FetchSecond(b) PROVE Shape'
  <2>1. /\ phase = "second" /\ prefixes' = prefixes
        /\ phase' = IF Handled(ins'.op) THEN ModRMPhase(ins') ELSE "stopped"
    BY <1>5 DEF FetchSecond
  <2>2. /\ ins'.len = ins.len + 1 /\ ins'.npfx = ins.npfx /\ ins'.op = TwoByte(b)
        /\ ins'.opsz = ins.opsz /\ ins'.adsz = ins.adsz /\ ins'.rep = ins.rep
        /\ ins'.rex = ins.rex /\ ins'.rexw = ins.rexw /\ ins'.modrm = ins.modrm
        /\ ins'.displ = ins.displ /\ ins'.imm = ins.imm
    BY <1>5, <1>f DEF FetchSecond, Fetched, Fields
  <2>3. Flags(ins', prefixes')
    BY <2>1, <2>2 DEF Shape, Flags
  <2>4. Blank(ins) /\ ins.len = ins.npfx + One(ins.rex) + 1
    BY <2>1 DEF Shape
  <2>5. Blank(ins') /\ OpLen(ins') = 2
    BY <2>2, <2>4, BytesAssumption DEF Blank, OpLen, TwoByte
  <2>6. ins'.len = Length(ins')
    BY <1>f, <2>2, <2>4, <2>5 DEF Length, Blank, One, HasSibByte
  <2>7. CASE ~Handled(ins'.op)
    BY <2>1, <2>3, <2>7 DEF Shape
  <2>8. CASE Handled(ins'.op) /\ FetchesModRM(ins'.op)
    <3>1. phase' = "modrm"
      BY <2>1, <2>8 DEF ModRMPhase
    <3> QED
      BY <1>b, <1>f, <2>3, <2>5, <2>6, <2>8, <3>1 DEF Shape, Blank, One
  <2>9. CASE Handled(ins'.op) /\ ~FetchesModRM(ins'.op)
    <3>1. phase' = IF ImmBytes(ins') = 0 THEN "trace" ELSE "imm"
      BY <1>p, <2>1, <2>9 DEF ModRMPhase
    <3> QED
      BY <1>b, <1>f, <2>3, <2>5, <2>6, <2>9, <3>1 DEF Shape, Blank, One
  <2> QED
    BY <2>7, <2>8, <2>9
<1>6. ASSUME NEW b \in OperandBytes, FetchModRM(b) PROVE Shape'
  <2>1. /\ phase = "modrm" /\ prefixes' = prefixes
        /\ phase' = IF ins'.mod = 3 THEN ImmPhase(ins')
                    ELSE IF ins'.rm = 4 THEN "sib" ELSE DisplPhase(ins')
    BY <1>6 DEF FetchModRM
  <2>2. /\ ins'.len = ins.len + 1 /\ ins'.npfx = ins.npfx /\ ins'.op = ins.op
        /\ ins'.modrm = TRUE /\ ins'.displ = ins.displ /\ ins'.imm = ins.imm
    BY <1>6, <1>f DEF FetchModRM, Fetched, Fields
  <2>3. /\ ins'.opsz = ins.opsz /\ ins'.adsz = ins.adsz /\ ins'.rep = ins.rep
        /\ ins'.rex = ins.rex /\ ins'.rexw = ins.rexw
    BY <1>6, <1>f DEF FetchModRM, Fetched, Fields
  <2>4. Flags(ins', prefixes')
    BY <2>1, <2>3 DEF Shape, Flags
  <2>5. /\ Handled(ins.op) /\ ~ins.modrm /\ ins.displ = 0 /\ ins.imm = 0
        /\ ins.len = Length(ins) /\ FetchesModRM(ins.op)
    BY <1>b, <1>l, <1>o, <2>1 DEF Shape, One
  <2>6. OpLen(ins') = OpLen(ins) /\ OpLen(ins) \in Int
    BY <2>2 DEF OpLen
  <2>7. ins'.len = Length(ins') - One(HasSibByte(ins'))
    BY <1>f, <2>2, <2>3, <2>5, <2>6 DEF Length, One, HasSibByte
  <2>8. phase' = "sib" <=> HasSibByte(ins')
    BY <1>p, <2>1, <2>2 DEF HasSibByte
  <2>9. CASE phase' = "sib"
    BY <2>2, <2>4, <2>5, <2>7, <2>8, <2>9 DEF Shape, One
  <2>10. CASE phase' # "sib"
    <3>1. /\ phase' = IF DisplBytes(ins') # 0 THEN "displ"
                      ELSE IF ImmBytes(ins') = 0 THEN "trace" ELSE "imm"
      BY <1>p, <2>1, <2>10 DEF DisplBytes
    <3>2. One(phase' = "sib") = 0 /\ One(HasSibByte(ins')) = 0
      BY <2>8, <2>10 DEF One
    <3>3. ins'.len = Length(ins') - One(phase' = "sib")
      BY <2>7, <3>2
    <3> QED
      BY <2>2, <2>4, <2>5, <2>10, <3>1, <3>3 DEF Shape
  <2> QED
    BY <2>9, <2>10
<1>7. ASSUME NEW b \in OperandBytes, FetchSib(b) PROVE Shape'
  <2>1. phase = "sib" /\ prefixes' = prefixes /\ phase' = DisplPhase(ins')
    BY <1>7 DEF FetchSib
  <2>2. /\ ins'.len = ins.len + 1 /\ ins'.npfx = ins.npfx /\ ins'.op = ins.op
        /\ ins'.modrm = ins.modrm /\ ins'.displ = ins.displ /\ ins'.imm = ins.imm
        /\ ins'.mod = ins.mod /\ ins'.rm = ins.rm
    BY <1>7, <1>f DEF FetchSib, Fetched, Fields
  <2>3. /\ ins'.opsz = ins.opsz /\ ins'.adsz = ins.adsz /\ ins'.rep = ins.rep
        /\ ins'.rex = ins.rex /\ ins'.rexw = ins.rexw
    BY <1>7, <1>f DEF FetchSib, Fetched, Fields
  <2>4. Flags(ins', prefixes')
    BY <2>1, <2>3 DEF Shape, Flags
  <2>5. /\ Handled(ins.op) /\ ins.modrm /\ ins.displ = 0 /\ ins.imm = 0
        /\ ins.len = Length(ins) - 1 /\ FetchesModRM(ins.op) /\ HasSibByte(ins)
    BY <2>1 DEF Shape, One, HasSibByte
  <2>6. OpLen(ins') = OpLen(ins) /\ OpLen(ins) \in Int /\ Length(ins') = Length(ins)
        /\ Length(ins) \in Int
    BY <1>f, <2>2, <2>3, <2>5 DEF OpLen, Length, One, HasSibByte
  <2>7. /\ phase' = IF DisplBytes(ins') # 0 THEN "displ"
                    ELSE IF ImmBytes(ins') = 0 THEN "trace" ELSE "imm"
    BY <1>p, <2>1
  <2>8. ins'.len = Length(ins') - One(phase' = "sib")
    BY <1>f, <2>2, <2>5, <2>6, <2>7 DEF One
  <2> QED
    BY <2>2, <2>4, <2>5, <2>7, <2>8 DEF Shape
<1>8. ASSUME FetchDispl PROVE Shape'
  <2>1. phase = "displ" /\ prefixes' = prefixes /\ phase' = ImmPhase(ins')
    BY <1>8 DEF FetchDispl
  <2>2. /\ ins'.len = ins.len + DisplBytes(ins) /\ ins'.npfx = ins.npfx /\ ins'.op = ins.op
        /\ ins'.modrm = ins.modrm /\ ins'.displ = DisplBytes(ins) /\ ins'.imm = ins.imm
        /\ ins'.mod = ins.mod /\ ins'.rm = ins.rm /\ ins'.base = ins.base
    BY <1>8, <1>f DEF FetchDispl, Fetched, Fields
  <2>3. /\ ins'.opsz = ins.opsz /\ ins'.adsz = ins.adsz /\ ins'.rep = ins.rep
        /\ ins'.rex = ins.rex /\ ins'.rexw = ins.rexw
    BY <1>8, <1>f DEF FetchDispl, Fetched, Fields
  <2>4. Flags(ins', prefixes')
    BY <2>1, <2>3 DEF Shape, Flags
  <2>5. /\ Handled(ins.op) /\ ins.modrm /\ ins.displ = 0 /\ ins.imm = 0
        /\ ins.len = Length(ins) - One(phase = "sib") /\ FetchesModRM(ins.op)
    BY <1>b, <1>o, <2>1 DEF Shape
  <2>6. ins.len = Length(ins)
    BY <1>f, <2>1, <2>5 DEF One, Length, OpLen, Fields
  <2>7. DisplBytes(ins') = DisplBytes(ins) /\ DisplBytes(ins) \in Int
    BY <2>2, SameDispl, DisplBytesValues
  <2>8. phase' = IF ImmBytes(ins') = 0 THEN "trace" ELSE "imm"
    BY <1>p, <2>1
  <2>9. ins'.len = Length(ins') - One(phase' = "sib")
    BY <1>f, <2>2, <2>3, <2>5, <2>6, <2>7, <2>8 DEF One, Length, OpLen, HasSibByte
  <2> QED
    BY <2>2, <2>4, <2>5, <2>7, <2>8, <2>9 DEF Shape
<1>9. ASSUME FetchImm PROVE Shape'
  <2>1. phase = "imm" /\ prefixes' = prefixes /\ phase' = "trace"
    BY <1>9 DEF FetchImm
  <2>2. /\ ins'.len = ins.len + ImmBytes(ins) /\ ins'.npfx = ins.npfx /\ ins'.op = ins.op
        /\ ins'.modrm = ins.modrm /\ ins'.displ = ins.displ /\ ins'.imm = ImmBytes(ins)
        /\ ins'.mod = ins.mod /\ ins'.reg = ins.reg /\ ins'.rm = ins.rm /\ ins'.base = ins.base
    BY <1>9, <1>f DEF FetchImm, Fetched, Fields
  <2>3. /\ ins'.opsz = ins.opsz /\ ins'.adsz = ins.adsz /\ ins'.rep = ins.rep
        /\ ins'.rex = ins.rex /\ ins'.rexw = ins.rexw
    BY <1>9, <1>f DEF FetchImm, Fetched, Fields
  <2>4. Flags(ins', prefixes')
    BY <2>1, <2>3 DEF Shape, Flags
  <2>5. /\ Handled(ins.op) /\ (ins.modrm <=> FetchesModRM(ins.op)) /\ ins.imm = 0
        /\ ins.displ = IF ins.modrm THEN DisplBytes(ins) ELSE 0
        /\ ins.len = Length(ins) - One(phase = "sib")
    BY <2>1 DEF Shape
  <2>6. ins.displ \in Int /\ ins.len = Length(ins)
    BY <1>f, <2>1, <2>5 DEF One, Length, OpLen, Fields
  <2>7. DisplBytes(ins') = DisplBytes(ins) /\ ImmBytes(ins') = ImmBytes(ins) /\ ImmBytes(ins) \in Int
    BY <2>2, <2>3, SameDispl, SameFetch, ImmBytesValues
  <2>8. ins'.len = Length(ins') - One(phase' = "sib")
    BY <1>f, <2>1, <2>2, <2>3, <2>5, <2>6, <2>7 DEF One, Length, OpLen, HasSibByte
  <2> QED
    BY <2>1, <2>2, <2>4, <2>5, <2>7, <2>8 DEF Shape
<1>10. ASSUME Execute PROVE Shape'
  BY <1>10 DEF Execute, Shape, Zero, Flags, Blank, One
<1>11. ASSUME Stop PROVE Shape'
  BY <1>11 DEF Stop, Shape
<1>12. ASSUME PrintState PROVE Shape'
  <2>1. phase = "trace" /\ phase' \in {"execute", "killed"} /\ ins' = ins /\ prefixes' = prefixes
    BY <1>12 DEF PrintState
  <2> QED BY <2>1 DEF Shape, One
<1> QED
  BY <1>1, <1>2, <1>3, <1>4, <1>5, <1>6, <1>7, <1>8, <1>9, <1>10, <1>11, <1>12 DEF Next

-----------------------------------------------------------------------------
(* The tables agree: decode.c with execute.c, and with the opcode map.     *)

LEMMA OpcodeInt ==
    ASSUME NEW i \in Fields
    PROVE  /\ i.op \in Int /\ i.op >= 0 /\ i.op <= 4095 /\ i.reg \in 0 .. 7
           /\ i.opsz \in BOOLEAN /\ i.rexw \in BOOLEAN
<1>1. i.op \in Opcodes /\ i.reg \in 0 .. 7
  BY DEF Fields
<1>2. \A o \in Opcodes : o \in Int /\ o >= 0 /\ o <= 4095
  BY DEF Opcodes, TwoByte
<1>3. i.opsz \in BOOLEAN /\ i.rexw \in BOOLEAN
  BY DEF Fields
<1> QED
  BY <1>1, <1>2, <1>3

\* An opcode whose operand x64execute takes from the ModR/M byte has one.
LEMMA ExecModRMFetched ==
    ASSUME NEW op \in Int, op <= 4095, Handled(op), ExecReadsModRM(op)
    PROVE  FetchesModRM(op)
<1>1. CASE op < 256
  BY <1>1 DEF ExecReadsModRM, FetchesModRM, Family, TwoByte
<1>2. CASE op >= 256
  BY <1>2 DEF ExecReadsModRM, FetchesModRM, Handled, FetchesImm, FetchesImm8, FetchesImm16or32,
              Bare, Family, TwoByte
<1> QED
  BY <1>1, <1>2

\* No opcode is in two classes of immediates.
LEMMA ImmClasses ==
    ASSUME NEW op \in Int, NEW reg \in Int
    PROVE  /\ FetchesImm8(op, reg) => /\ ~FetchesImm16or32(op, reg)
                                      /\ op \notin \hB8 .. \hBF /\ op # \hC2 /\ op \notin {\hE8, \hE9}
           /\ FetchesImm16or32(op, reg) =>
                  op \notin \hB8 .. \hBF /\ op # \hC2 /\ op \notin {\hE8, \hE9}
<1>1. ASSUME FetchesImm8(op, reg)
      PROVE  op \notin \hB8 .. \hBF /\ op # \hC2 /\ op \notin {\hE8, \hE9}
  BY <1>1 DEF FetchesImm8, Family, TwoByte
<1>2. ASSUME FetchesImm16or32(op, reg)
      PROVE  op \notin \hB8 .. \hBF /\ op # \hC2 /\ op \notin {\hE8, \hE9}
  BY <1>2 DEF FetchesImm16or32, Family, TwoByte
<1>3. ASSUME FetchesImm8(op, reg) PROVE ~FetchesImm16or32(op, reg)
  BY <1>3 DEF FetchesImm8, FetchesImm16or32, Family, TwoByte
<1> QED
  BY <1>1, <1>2, <1>3

\* What x64execute reads as an immediate is what was fetched, but for the
\* 32-bit immediate of a 64-bit operand behind 66.
LEMMA ExecImmFetched ==
    ASSUME NEW i \in Fields, Handled(i.op), Implemented(i.op, i.reg)
    PROVE  ExecImm(i) = ImmBytes(i) <=> ~(i.opsz /\ i.rexw /\ ReadsS32(i.op, i.reg))
<1>t. /\ i.op \in Int /\ i.op >= 0 /\ i.op <= 4095 /\ i.reg \in 0 .. 7
      /\ i.opsz \in BOOLEAN /\ i.rexw \in BOOLEAN
  BY OpcodeInt
<1>1. CASE FetchesImm8(i.op, i.reg)
  <2>1. ImmBytes(i) = 1
    BY <1>1, <1>t, ImmClasses DEF ImmBytes
  <2>2. ~ReadsS32(i.op, i.reg)
    BY <1>t, <1>1 DEF FetchesImm8, Family, ReadsS32, TwoByte
  <2>3. ExecImm(i) = 1
    BY <1>t, <1>1, <2>2 DEF FetchesImm8, Family, Implemented, ExecImm, TwoByte
  <2> QED
    BY <2>1, <2>2, <2>3
<1>2. CASE FetchesImm16or32(i.op, i.reg)
  <2>1. ImmBytes(i) = Imm16or32(i)
    BY <1>2, <1>t, ImmClasses DEF ImmBytes
  <2>2. CASE ReadsS32(i.op, i.reg)
    <3>1. ExecImm(i) = IF i.rexw THEN 4 ELSE IF i.opsz THEN 2 ELSE 4
      BY <1>t, <1>2, <2>2 DEF ReadsS32, ExecImm, TwoByte
    <3> QED
      BY <1>t, <2>1, <2>2, <3>1 DEF Imm16or32
  <2>3. CASE ~ReadsS32(i.op, i.reg)
    <3>1. i.op \in {\h68} \cup {TwoByte(b) : b \in \h80 .. \h8F}
      BY <1>t, <1>2, <2>3 DEF FetchesImm16or32, Family, Implemented, ReadsS32, TwoByte
    <3>2. ExecImm(i) = IF i.opsz THEN 2 ELSE 4
      BY <1>t, <2>3, <3>1 DEF ExecImm, TwoByte
    <3> QED
      BY <1>t, <2>1, <2>3, <3>2 DEF Imm16or32
  <2> QED
    BY <2>2, <2>3
<1>3. CASE ~FetchesImm8(i.op, i.reg) /\ ~FetchesImm16or32(i.op, i.reg)
  <2>1. ~ReadsS32(i.op, i.reg)
    BY <1>t, <1>3 DEF FetchesImm16or32, Family, ReadsS32
  <2>2. CASE i.op \in \hB8 .. \hBF \cup {\hC2, \hE8, \hE9}
    <3>1. ExecImm(i) = ImmBytes(i)
      BY <1>t, <1>3, <2>1, <2>2 DEF ExecImm, ImmBytes, Imm16or32or64, TwoByte
    <3> QED
      BY <2>1, <3>1
  <2>3. CASE i.op \notin \hB8 .. \hBF \cup {\hC2, \hE8, \hE9}
    <3>1. ImmBytes(i) = 0
      BY <1>t, <1>3, <2>3 DEF ImmBytes
    <3>2. ExecImm(i) = 0
      BY <1>t, <1>3, <2>1, <2>3 DEF ExecImm, FetchesImm8, FetchesImm16or32, Family, TwoByte
    <3> QED
      BY <2>1, <3>1, <3>2
  <2> QED
    BY <2>2, <2>3
<1> QED
  BY <1>1, <1>2, <1>3

\* The opcode map says ModR/M, SIB, displacement where x64modrm_fetch does.
LEMMA MapModRM ==
    ASSUME NEW op \in Int, 0 <= op, op <= 4095, Handled(op)
    PROVE  Stream!HasModRM(op) <=> FetchesModRM(op)
<1>1. CASE op < 256
  BY <1>1 DEF Stream!HasModRM, Stream!AluRow, Stream!TwoByte, Handled, FetchesModRM, FetchesImm,
              FetchesImm8, FetchesImm16or32, Bare, Family, TwoByte
<1>2. CASE op >= 256
  BY <1>2 DEF Stream!HasModRM, Stream!AluRow, Stream!TwoByte, Handled, FetchesModRM, FetchesImm,
              FetchesImm8, FetchesImm16or32, Bare, Family, TwoByte
<1> QED
  BY <1>1, <1>2

\* Jcc with a displacement of 32 bits.
Jcc(op) == op \in {TwoByte(b) : b \in \h80 .. \h8F}

\* FETCH_IMM_16_32 is used for the map's immediates of the operand size and
\* for the displacement of Jcc.
LEMMA MapImmClasses ==
    ASSUME NEW op \in Int, 0 <= op, op <= 4095, NEW reg \in 0 .. 7, Handled(op)
    PROVE  /\ Stream!HasImm8(op, reg) <=> FetchesImm8(op, reg)
           /\ FetchesImm16or32(op, reg) <=> (Stream!HasImmZ(op, reg) \/ Jcc(op))
           /\ Stream!HasImmZ(op, reg) => ~Jcc(op)
           /\ Jcc(op) => Stream!NearBranch(op) /\ ~Stream!HasImm8(op, reg)
           /\ Stream!NearBranch(op) <=> (Jcc(op) \/ op \in {\hE8, \hE9})
<1> USE DEF Stream!HasImm8, Stream!HasImmZ, Stream!AluRow, Stream!TwoByte,
            FetchesImm8, FetchesImm16or32, Family, TwoByte, Jcc
<1>1. FetchesImm8(op, reg) => Stream!HasImm8(op, reg)
  OBVIOUS
<1>2. FetchesImm16or32(op, reg) => Stream!HasImmZ(op, reg) \/ Jcc(op)
  OBVIOUS
<1>3. ASSUME Stream!HasImm8(op, reg) PROVE FetchesImm8(op, reg)
  BY <1>3 DEF Handled, FetchesModRM, FetchesImm, Bare
<1>4. ASSUME Stream!HasImmZ(op, reg) PROVE FetchesImm16or32(op, reg)
  BY <1>4 DEF Handled, FetchesModRM, FetchesImm, Bare
<1>5. Jcc(op) => FetchesImm16or32(op, reg)
  OBVIOUS
<1>6. Stream!HasImmZ(op, reg) => ~Jcc(op)
  OBVIOUS
<1>7. Jcc(op) => ~Stream!HasImm8(op, reg)
  OBVIOUS
<1>8. Stream!NearBranch(op) <=> (Jcc(op) \/ op \in {\hE8, \hE9})
  BY DEF Stream!NearBranch
<1> HIDE DEF Stream!HasImm8, Stream!HasImmZ, FetchesImm8, FetchesImm16or32, Jcc
<1> QED
  BY <1>1, <1>2, <1>3, <1>4, <1>5, <1>6, <1>7, <1>8

\* The immediates fetched are those of the opcode map, but for the
\* instructions that are misread.
LEMMA MapImm ==
    ASSUME NEW i \in Fields, Handled(i.op)
    PROVE  ImmBytes(i) = Stream!ImmLength(i) <=> ~Misread(i)
<1>t. /\ i.op \in Int /\ i.op >= 0 /\ i.op <= 4095 /\ i.reg \in 0 .. 7 /\ i.reg \in Int
      /\ i.opsz \in BOOLEAN /\ i.rexw \in BOOLEAN
  BY OpcodeInt
<1>c. /\ Stream!HasImm8(i.op, i.reg) <=> FetchesImm8(i.op, i.reg)
      /\ FetchesImm16or32(i.op, i.reg) <=> (Stream!HasImmZ(i.op, i.reg) \/ Jcc(i.op))
      /\ Stream!HasImmZ(i.op, i.reg) => ~Jcc(i.op)
      /\ Jcc(i.op) => Stream!NearBranch(i.op) /\ ~Stream!HasImm8(i.op, i.reg)
      /\ Stream!NearBranch(i.op) <=> (Jcc(i.op) \/ i.op \in {\hE8, \hE9})
  BY <1>t, MapImmClasses
<1>k. /\ FetchesImm8(i.op, i.reg) =>
            /\ ~FetchesImm16or32(i.op, i.reg)
            /\ i.op \notin \hB8 .. \hBF /\ i.op # \hC2 /\ i.op \notin {\hE8, \hE9}
      /\ FetchesImm16or32(i.op, i.reg) =>
            i.op \notin \hB8 .. \hBF /\ i.op # \hC2 /\ i.op \notin {\hE8, \hE9}
  BY <1>t, ImmClasses
<1>m. Misread(i) <=> (i.opsz /\ ((i.rexw /\ FetchesImm16or32(i.op, i.reg)) \/ Jcc(i.op)))
  BY DEF Misread, Jcc
<1>1. CASE FetchesImm8(i.op, i.reg)
  <2>1. ImmBytes(i) = 1 /\ Stream!ImmLength(i) = 1
    BY <1>1, <1>c, <1>k DEF ImmBytes, Stream!ImmLength
  <2>2. ~Misread(i)
    BY <1>1, <1>c, <1>k, <1>m, Zenon
  <2> QED BY <2>1, <2>2
<1>2. CASE ~FetchesImm8(i.op, i.reg) /\ Stream!HasImmZ(i.op, i.reg)
  <2>1. ImmBytes(i) = IF i.opsz THEN 2 ELSE 4
    BY <1>2, <1>c, <1>k DEF ImmBytes, Imm16or32
  <2>2. Stream!ImmLength(i) = IF Stream!OperandSize(i) = 2 THEN 2 ELSE 4
    BY <1>2, <1>c, <1>k DEF Stream!ImmLength
  <2>3. Stream!OperandSize(i) = IF i.rexw THEN 8 ELSE IF i.opsz THEN 2 ELSE 4
    BY DEF Stream!OperandSize
  <2>4. Misread(i) <=> (i.opsz /\ i.rexw)
    BY <1>2, <1>c, <1>m, Zenon
  <2>5. ImmBytes(i) = Stream!ImmLength(i) <=> ~(i.opsz /\ i.rexw)
    BY <1>t, <2>1, <2>2, <2>3
  <2> QED BY <2>4, <2>5, Zenon
<1>3. CASE ~FetchesImm8(i.op, i.reg) /\ Jcc(i.op)
  <2>1. ImmBytes(i) = IF i.opsz THEN 2 ELSE 4
    BY <1>3, <1>c, <1>k DEF ImmBytes, Imm16or32
  <2>2. Stream!ImmLength(i) = 4
    BY <1>3, <1>c, <1>k DEF Stream!ImmLength
  <2>3. Misread(i) <=> i.opsz
    BY <1>3, <1>m, Zenon
  <2>4. ImmBytes(i) = Stream!ImmLength(i) <=> ~i.opsz
    BY <1>t, <2>1, <2>2
  <2> QED BY <2>3, <2>4, Zenon
<1>4. CASE ~FetchesImm8(i.op, i.reg) /\ ~FetchesImm16or32(i.op, i.reg)
  <2>1. ~Misread(i)
    BY <1>4, <1>c, <1>m, Zenon
  <2>2. ImmBytes(i) = Stream!ImmLength(i)
    BY <1>4, <1>c, <1>t DEF ImmBytes, Imm16or32or64, Stream!ImmLength, Stream!OperandSize
  <2> QED BY <2>1, <2>2
<1> QED
  BY <1>1, <1>2, <1>3, <1>4, <1>c

\* What has all its fields fetched is an instruction of the opcode map,
\* exactly if it is not misread.
LEMMA FetchedWellFormed ==
    ASSUME NEW i \in Fields, NEW p, Flags(i, p), Handled(i.op), i.modrm <=> FetchesModRM(i.op),
           i.displ = (IF i.modrm THEN DisplBytes(i) ELSE 0), i.imm = ImmBytes(i), i.len = Length(i)
    PROVE  Stream!WellFormed(i, p) <=> ~Misread(i)
<1>t. /\ i.op \in Int /\ i.op >= 0 /\ i.op <= 4095 /\ i.modrm \in BOOLEAN
      /\ i.opsz \in BOOLEAN /\ i.rexw \in BOOLEAN /\ i.rex \in BOOLEAN
      /\ i.mod \in 0 .. 3 /\ i.len \in Int /\ i.npfx \in Int
  BY OpcodeInt, LengthTyped DEF Fields
<1>1. Stream!HasModRM(i.op) <=> i.modrm
  BY <1>t, MapModRM
<1>2. i.displ = Stream!DisplLength(i)
  BY <1>t, <1>1 DEF Stream!DisplLength, Stream!HasSib, DisplBytes
<1>3. i.imm = Stream!ImmLength(i) <=> ~Misread(i)
  BY MapImm
<1>4. i.len = i.npfx + Stream!Count(i.rex) + (IF i.op < 256 THEN 1 ELSE 2)
                + Stream!Count(Stream!HasModRM(i.op)) + Stream!Count(Stream!HasSib(i))
                + i.displ + i.imm
  BY <1>1, <1>t DEF Length, One, OpLen, HasSibByte, Stream!Count, Stream!HasSib
<1>5. Stream!WellFormed(i, p) <=> i.imm = Stream!ImmLength(i)
  BY <1>2, <1>4 DEF Stream!WellFormed, Flags
<1> QED BY <1>3, <1>5, Zenon

\* That is what is handed to x64execute.
LEMMA ExecutesFetched ==
    ASSUME Typed, Shape, phase = "execute"
    PROVE  /\ ins \in Fields /\ Flags(ins, prefixes) /\ Handled(ins.op)
           /\ ins.modrm <=> FetchesModRM(ins.op)
           /\ ins.displ = IF ins.modrm THEN DisplBytes(ins) ELSE 0
           /\ ins.imm = ImmBytes(ins)
           /\ ins.len = Length(ins)
<1>1. ins \in Fields /\ ins.modrm \in BOOLEAN
  BY DEF Typed, Fields
<1>2. Length(ins) \in Int
  BY <1>1, LengthTyped DEF Length, Fields, One, OpLen
<1> QED
  BY <1>1, <1>2 DEF Shape, One

-----------------------------------------------------------------------------
(* The invariant. *)

IInv == Typed /\ Budget /\ Shape

LEMMA IInvInit == Init => IInv
<1> SUFFICES ASSUME Init PROVE IInv
  OBVIOUS
<1>1. Typed
  BY ZeroTyped DEF Init, Typed, Phases
<1>2. Budget
  BY DEF Init, Budget, Zero
<1> QED BY <1>1, <1>2, ShapeInit DEF IInv

LEMMA IInvStep == IInv /\ [Next]_vars => IInv'
<1> SUFFICES ASSUME IInv, [Next]_vars PROVE IInv'
  OBVIOUS
<1>1. Typed'
  BY TypedStep DEF IInv
<1>2. CASE Next
  BY <1>1, <1>2, BudgetStep, ShapeStep DEF IInv
<1>3. CASE UNCHANGED vars
  BY <1>3, <1>1 DEF IInv, Budget, Shape, vars, OpLen
<1> QED BY <1>2, <1>3

LEMMA IInvAlways == Spec => []IInv
BY IInvInit, IInvStep, PTL DEF Spec

\* Types: every field keeps the range of its C type, and no instruction is
\* longer than its prefixes and 12 bytes, whatever the guest's code holds.
THEOREM TypeCorrect == Spec => []TypeOK
<1>1. IInv => TypeOK
  <2> SUFFICES ASSUME IInv PROVE TypeOK
    OBVIOUS
  <2>1. ins.len \in 0 .. MaxPrefixes + 12
    <3>1. ins.len \in Nat /\ ins.npfx \in 0 .. MaxPrefixes
      BY DEF IInv, Typed, Fields
    <3>2. ins.len <= ins.npfx + 12
      BY DEF IInv, Budget
    <3> QED BY <3>1, <3>2, MaxPrefixesAssumption
  <2>2. ins \in Instructions
    BY <2>1 DEF IInv, Typed, Fields, Instructions
  <2> QED BY <2>2 DEF IInv, Typed, TypeOK
<1> QED BY <1>1, IInvAlways, PTL

\* Trace: an instruction with at most three legacy prefixes is no longer than
\* the architecture's 15 bytes, its text fits the buffer that print_emu_state
\* writes without a check of the length, and up to 13 prefixes fit the buffer
\* of fetch_N; only a longer instruction ever kills the emulator.
THEOREM TraceAlwaysFits == Spec => []TraceFits
<1>1. IInv => TraceFits
  <2> SUFFICES ASSUME IInv PROVE TraceFits
    OBVIOUS
  <2>1. ins.len \in Int /\ ins.npfx \in 0 .. MaxPrefixes /\ MaxPrefixes \in 0 .. 13
    BY LengthTyped, MaxPrefixesAssumption DEF IInv, Typed, Fields
  <2>2. ins.len <= ins.npfx + 12 /\ (phase = "killed" => ins.len > 15)
    BY DEF IInv, Budget
  <2> QED BY <2>1, <2>2 DEF TraceFits
<1> QED BY <1>1, IInvAlways, PTL

\* The tables of decode.c and execute.c agree: x64execute reads of an
\* instruction what was fetched for it, for every opcode, extension and
\* prefix but the one exception that the property names.
THEOREM OperandsAreFetched == Spec => []OperandsFetched
<1>1. IInv => OperandsFetched
  <2> SUFFICES ASSUME IInv, phase = "execute", Implemented(ins.op, ins.reg)
               PROVE  /\ ExecReadsModRM(ins.op) => ins.modrm
                      /\ ins.modrm /\ ~ins.adsz => ExecDispl(ins) = ins.displ
                      /\ ExecImm(ins) = ins.imm
                            <=> ~(ins.opsz /\ ins.rexw /\ ReadsS32(ins.op, ins.reg))
    BY DEF OperandsFetched
  <2>1. ins \in Fields
    BY DEF IInv, Typed
  <2>2. /\ ins.op \in Int /\ ins.op <= 4095 /\ ins.modrm \in BOOLEAN /\ ins.adsz \in BOOLEAN
        /\ ins.mod \in 0 .. 3
    BY <2>1, OpcodeInt DEF Fields
  <2>3. /\ Handled(ins.op)
        /\ ins.modrm <=> FetchesModRM(ins.op)
        /\ ins.displ = IF ins.modrm THEN DisplBytes(ins) ELSE 0
        /\ ins.imm = ImmBytes(ins)
    BY ExecutesFetched DEF IInv
  <2>4. ExecReadsModRM(ins.op) => ins.modrm
    BY <2>2, <2>3, ExecModRMFetched
  <2>5. ins.modrm /\ ~ins.adsz => ExecDispl(ins) = ins.displ
    BY <2>2, <2>3 DEF ExecDispl, DisplBytes
  <2> QED
    BY <2>1, <2>3, <2>4, <2>5, ExecImmFetched
<1> QED
  BY <1>1, IInvAlways, PTL

-----------------------------------------------------------------------------
(* The refinement of X64InstrStream. *)

streamInsn == IF phase = "execute" /\ ~Misread(ins) THEN {<<ins, prefixes>>} ELSE {}
streamHalted == (phase \in {"stopped", "killed"})

\* The instructions at hand that are of the opcode map.
MapAgrees == phase = "execute" => (Stream!WellFormed(ins, prefixes) <=> ~Misread(ins))

LEMMA ExecutesWellFormed == Typed /\ Shape => MapAgrees
BY ExecutesFetched, FetchedWellFormed DEF MapAgrees

\* Each step of the decoder is one of the stream, or none that it shows.
LEMMA StreamStep ==
    ASSUME [Next]_vars,
           phase' = "execute" /\ ~Misread(ins') => Stream!WellFormed(ins', prefixes')
    PROVE  [Stream!Next]_<<streamInsn, streamHalted>>
<1>1. CASE UNCHANGED vars
  BY <1>1 DEF vars, streamInsn, streamHalted
<1>2. ASSUME Next PROVE /\ phase \notin {"stopped", "killed"}
                        /\ phase = "execute" => phase' \in {"prefix", "stopped"}
  BY <1>2 DEF Next, FetchPrefix, FetchRex, FetchUnsupported, FetchOpcode, FetchSecond,
              FetchModRM, FetchSib, FetchDispl, FetchImm, PrintState, Execute, Stop
<1>3. CASE Next /\ phase' \in {"stopped", "killed"}
  <2>1. ~streamHalted /\ streamHalted' /\ streamInsn' = {}
    BY <1>2, <1>3 DEF streamInsn, streamHalted
  <2>2. Stream!Halt
    BY <2>1 DEF Stream!Halt, streamInsn, streamHalted
  <2> QED
    BY <2>2 DEF Stream!Next
<1>4. CASE Next /\ phase' \notin {"stopped", "killed"} /\ phase' = "execute" /\ ~Misread(ins')
  <2> DEFINE i == <<ins', prefixes'>>
  <2>1. streamInsn' = {i} /\ streamInsn = {} /\ ~streamHalted /\ ~streamHalted'
    BY <1>2, <1>4 DEF streamInsn, streamHalted
  <2>2. i[1] = ins' /\ i[2] = prefixes'
    OBVIOUS
  <2>3. Stream!WellFormed(i[1], i[2])
    BY <1>4, <2>2
  <2>4. \E k \in streamInsn' : streamInsn' = {k} /\ Stream!WellFormed(k[1], k[2])
    <3> HIDE DEF i
    <3> QED BY <2>1, <2>3
  <2>5. streamHalted' = streamHalted
    BY <1>2, <1>4 DEF streamHalted
  <2>6. Stream!Deliver
    <3>1. ~streamHalted /\ streamInsn = {}
      BY <2>1
    <3> QED BY <3>1, <2>4, <2>5, Zenon DEF Stream!Deliver, streamInsn, streamHalted
  <2> QED
    BY <2>6 DEF Stream!Next
<1>5. CASE Next /\ phase' \notin {"stopped", "killed"} /\ ~(phase' = "execute" /\ ~Misread(ins'))
  <2>1. streamInsn' = {} /\ ~streamHalted /\ ~streamHalted'
    BY <1>2, <1>5 DEF streamInsn, streamHalted
  <2>2. CASE streamInsn = {}
    <3>1. streamHalted' = streamHalted
      BY <1>2, <1>5 DEF streamHalted
    <3> QED BY <2>1, <2>2, <3>1
  <2>3. CASE streamInsn # {}
    <3>1. Stream!Retire
      BY <2>1, <2>3 DEF Stream!Retire, streamInsn, streamHalted
    <3> QED
      BY <3>1 DEF Stream!Next
  <2> QED
    BY <2>2, <2>3
<1> QED
  BY <1>1, <1>3, <1>4, <1>5

\* Refinement: whatever bytes the guest's memory holds, the executor is given
\* the instructions of the architecture's opcode map, one at a time, each with
\* nothing of the one before (emu.c:78-93).  The instructions it is given
\* besides, that are not of the map, are exactly those with 66 before Jcc and
\* with 66 and REX.W before an immediate of the operand size.
THEOREM InstructionsDelivered == Spec => DeliversInstructions
<1>1. Init => Stream!Init
  BY DEF Init, Stream!Init
<1>2. IInv => MapAgrees
  BY ExecutesWellFormed DEF IInv
<1>3. MapAgrees' /\ [Next]_vars => [Stream!Next]_<<streamInsn, streamHalted>>
  <2> SUFFICES ASSUME MapAgrees', [Next]_vars
               PROVE  [Stream!Next]_<<streamInsn, streamHalted>>
    OBVIOUS
  <2>1. phase' = "execute" /\ ~Misread(ins') => Stream!WellFormed(ins', prefixes')
    BY DEF MapAgrees
  <2> QED
    BY <2>1, StreamStep
<1> QED
  BY <1>1, <1>2, <1>3, IInvAlways, PTL
     DEF Spec, DeliversInstructions, Stream!Spec, streamInsn, streamHalted, MapAgrees
=============================================================================
