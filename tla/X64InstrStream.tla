--------------------------- MODULE X64InstrStream ---------------------------
(***************************************************************************)
(* What the decoder promises: a guest program is a stream of well-formed   *)
(* instructions, handed on one at a time until the emulator gives up.      *)
(*                                                                         *)
(* Well-formed means: exactly the bytes that the 64-bit opcode map of the  *)
(* architecture assigns to the opcode and its prefixes are consumed, and   *)
(* the fields describe those bytes and no others.  This is the reference   *)
(* for the decoder, written from the opcode map and not from decode.c.     *)
(***************************************************************************)
EXTENDS Integers, FiniteSets

VARIABLES
    insn,        \* the instruction handed to the executor and its prefixes, if any
    halted       \* the emulator gave up

TwoByte(b) == \hF00 + b        \* 0F b

\* One-byte opcodes are a table of rows of eight below 40; the columns of
\* the ALU rows are r/m8,r8 r/m,r r8,r/m r,r/m al,imm8 eax,imm32.
AluRow(op) == op < \h40 /\ op % 8 < 6

HasModRM(op) ==
    \/ AluRow(op) /\ op % 8 < 4
    \/ op \in {\h63, \h69, \h6B} \cup \h80 .. \h8F \cup {\hC0, \hC1, \hC6, \hC7}
    \/ op \in \hD0 .. \hD3 \cup \hD8 .. \hDF \cup {\hF6, \hF7, \hFE, \hFF}
    \/ /\ op >= TwoByte(0)
       /\ op - TwoByte(0) \notin
              {\h05, \h06, \h07, \h08, \h09, \h0B, \h0E} \cup \h30 .. \h37 \cup {\h77}
              \cup \h80 .. \h8F \cup \hA0 .. \hA2 \cup \hA8 .. \hAA \cup \hC8 .. \hCF

\* Immediates of one byte; of the operand size up to 4 (Iz).
HasImm8(op, reg) ==
    \/ AluRow(op) /\ op % 8 = 4
    \/ op \in {\h6A, \h6B, \h80, \h83, \hA8, \hC0, \hC1, \hC6, \hCD, \hEB}
    \/ op \in \h70 .. \h7F \cup \hB0 .. \hB7 \cup \hE0 .. \hE7
    \/ op = \hF6 /\ reg < 2
    \/ op \in {TwoByte(b) : b \in (\h70 .. \h73) \cup {\hA4, \hAC, \hBA, \hC2, \hC4, \hC5, \hC6}}

HasImmZ(op, reg) ==
    \/ AluRow(op) /\ op % 8 = 5
    \/ op \in {\h68, \h69, \h81, \hA9, \hC7}
    \/ op = \hF7 /\ reg < 2

\* CALL, JMP and Jcc with a displacement of 32 bits.  In 64-bit mode their
\* operand size is fixed: 66 does not shorten the displacement (as Intel
\* defines it; AMD shortens it, but for all of these alike).
NearBranch(op) == op \in {\hE8, \hE9} \cup {TwoByte(b) : b \in \h80 .. \h8F}

\* REX.W overrides 66.
OperandSize(i) == IF i.rexw THEN 8 ELSE IF i.opsz THEN 2 ELSE 4

ImmLength(i) ==
    CASE HasImm8(i.op, i.reg) -> 1
      [] HasImmZ(i.op, i.reg) -> IF OperandSize(i) = 2 THEN 2 ELSE 4
      [] NearBranch(i.op) -> 4
      [] i.op \in \hB8 .. \hBF -> OperandSize(i)
      [] i.op = \hC2 -> 2
      [] OTHER -> 0

HasSib(i) == HasModRM(i.op) /\ i.mod # 3 /\ i.rm = 4

DisplLength(i) ==
    IF ~HasModRM(i.op) THEN 0
    ELSE CASE i.mod = 1 -> 1
           [] i.mod = 2 -> 4
           [] i.mod = 0 /\ (i.rm = 5 \/ (HasSib(i) /\ i.base = 5)) -> 4
           [] OTHER -> 0

Count(condition) == IF condition THEN 1 ELSE 0

\* i is an instruction, prefixes are the legacy prefix bytes before it.
WellFormed(i, prefixes) ==
    /\ i.opsz <=> \h66 \in prefixes
    /\ i.adsz <=> \h67 \in prefixes
    /\ i.rep \in (prefixes \cap {\hF2, \hF3}) \cup
                 (IF prefixes \cap {\hF2, \hF3} = {} THEN {0} ELSE {})
    /\ i.rexw => i.rex
    /\ i.imm = ImmLength(i)
    /\ i.displ = DisplLength(i)
    /\ i.len = i.npfx + Count(i.rex) + (IF i.op < 256 THEN 1 ELSE 2)
                 + Count(HasModRM(i.op)) + Count(HasSib(i)) + i.displ + i.imm

-----------------------------------------------------------------------------
Init == insn = {} /\ halted = FALSE

\* The decoder hands on an instruction.
Deliver ==
    /\ ~halted /\ insn = {}
    /\ \E i \in insn' : insn' = {i} /\ WellFormed(i[1], i[2])
    /\ UNCHANGED halted

\* The executor is done with it.
Retire == ~halted /\ insn # {} /\ insn' = {} /\ UNCHANGED halted

Halt == ~halted /\ halted' = TRUE /\ insn' = {}

Next == Deliver \/ Retire \/ Halt

Spec == Init /\ [][Next]_<<insn, halted>>
=============================================================================
