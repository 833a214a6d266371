------------------------------ MODULE X64Moves ------------------------------
(***************************************************************************)
(* The instructions of x64execute and x64execute_0f that move data: MOV,   *)
(* MOVSXD, MOVZX, CMOVcc, SETcc, LEA, XCHG, CBW, CWD, CPUID and STOS, the  *)
(* SSE and MMX moves, duplications and interleaves, and the addresses of   *)
(* their memory operands.                                                  *)
(*                                                                         *)
(* Bytes are symbolic: 0 and 1, and a number for every place a byte has at *)
(* first; the sign of byte b, eight times, is the byte b + Signs.  As in   *)
(* the code an operand is a pointer into a register array or into memory,  *)
(* and an instruction is the sequence of copies its C statements make, so  *)
(* operands may overlap and a copy may read what an earlier one wrote.     *)
(* Registers that hold addresses and counts are numbers.                   *)
(***************************************************************************)
EXTENDS Integers, Sequences

CONSTANTS
    Size, Half, Word,   \* numbers of 64-, 32- and 16-bit values
    Cells,              \* bytes of guest memory
    Addressing,         \* memory operands of the general moves
    Leas,               \* memory operands of LEA
    Pointers,           \* what the numeric registers may hold at first
    MaxInstrs           \* bound on the instructions of a run

ASSUME SizesAssumption ==
    /\ {Size, Half, Word} \subseteq Nat \ {0}
    /\ Half % Word = 0 /\ Size % Half = 0
ASSUME MemoryAssumption == Cells \in Nat /\ Cells >= 16 /\ MaxInstrs \in Nat

VARIABLES
    store,      \* the register arrays and memory, byte by byte
    ptr,        \* emu->regs of rcx, rsp, rbp, rdi, r12 and r13
    rip,        \* r_rip
    df,         \* f_DF
    ins,        \* the instruction executed last
    faulted,    \* the guest touched memory it does not have
    instrs      \* instructions executed, for the bound alone

vars == <<store, ptr, rip, df, ins, faulted, instrs>>

-----------------------------------------------------------------------------
(* Bytes, pointers, copies. *)

rcx == 1
rsp == 4
rbp == 5
rdi == 7
Numeric == {rcx, rsp, rbp, rdi, 12, 13}

ASSUME PointersAssumption == Pointers \subseteq [Numeric -> 0 .. Size - 1]

Zero == 0
One == 1
Signs == 1000
Sign(b) == IF b \in {Zero, One} THEN Zero ELSE IF b > Signs THEN b ELSE b + Signs

At(file, at) == [file |-> file, at |-> at]
Null == At("null", 0)
None == At("none", 0)
Gpr(code) == At("gpr", 8 * code)
Xmm(code) == At("xmm", 16 * code)
Mmx(code) == At("mmx", 8 * code)
Mem(a) == At("mem", a)
Imm == At("imm", 0)
Bit(b) == At("bit", b)
Tmp == At("tmp", 0)

Rax == Gpr(0)
Rdx == Gpr(2)
Rsi == Gpr(6)
Gprs == {Rax, Rdx, Rsi}
Xmms == {Xmm(0), Xmm(1)}
Mmxs == {Mmx(0), Mmx(1)}

\* dest->u_type[i], where the type has n bytes
Elem(p, i, n) == At(p.file, p.at + i * n)

Copy(d, s, n) == [to |-> d, from |-> s, n |-> n, sign |-> FALSE]
SignFill(d, b, n) == [to |-> d, from |-> b, n |-> n, sign |-> TRUE]
Clear(d, n) == Copy(d, Bit(Zero), n)

Read(st, p, i) ==
    CASE p.file = "bit" -> p.at
      [] p.file = "imm" -> 900 + p.at + i
      [] OTHER -> st[p.file][p.at + i]

Moved(st, m) ==
    [st EXCEPT ![m.to.file] =
        [a \in DOMAIN @ |->
            IF a \notin m.to.at .. m.to.at + m.n - 1 THEN @[a]
            ELSE IF m.sign THEN Sign(Read(st, m.from, 0))
            ELSE Read(st, m.from, a - m.to.at)]]

Run(st, copies) ==
    LET after[k \in 0 .. Len(copies)] ==
            IF k = 0 THEN st ELSE Moved(after[k - 1], copies[k])
    IN  after[Len(copies)]

-----------------------------------------------------------------------------
(* x64modrm_get_indirect.  A memory operand is the ModR/M byte's mod and   *)
(* rm, the SIB byte's base, index and scale, the displacement, rex.b and   *)
(* rex.x as 0 or 8, and whether there is an address-size prefix.           *)

\* The fields of an encoding are as the bytes hold them, a displacement that
\* is not there is 0, and the registers it names are numeric ones.
Baseless(e) == e.mod = 0 /\ (e.rm = 5 \/ (e.rm = 4 /\ e.base = 5))
WellFormed(e) ==
    /\ e.mod \in 0 .. 2 /\ {e.rm, e.base, e.index} \subseteq 0 .. 7
    /\ {e.b, e.x} \subseteq {0, 8} /\ e.scale \in 0 .. 3
    /\ e.displ \in Int /\ e.adsz \in BOOLEAN
    /\ ~Baseless(e) =>
          /\ (IF e.rm = 4 THEN e.base ELSE e.rm) + e.b \in Numeric
          /\ e.mod = 0 => e.displ = 0
    /\ (e.rm = 4 /\ e.index + e.x # 4) => e.index + e.x \in Numeric

ASSUME EncodingsAssumption == \A e \in Addressing \cup Leas : WellFormed(e)

ScaledIndex(e) ==
    IF e.x = 0 /\ e.index = 4 THEN 0 ELSE ptr[e.index + e.x] * 2 ^ e.scale

SibBase(e) == ptr[e.base + e.b]

\* Mutant: rex.b turns "no base" into r13.
Sib00_BaseOfRexB(e) ==
    ScaledIndex(e) + IF e.base = 5 /\ e.b = 0 THEN e.displ ELSE SibBase(e)

Sib00(e) == ScaledIndex(e) + IF e.base = 5 THEN e.displ ELSE SibBase(e)
Sib01or10(e) == ScaledIndex(e) + SibBase(e)
BaseRm(e) == ptr[e.rm + e.b]

Indirect(e) ==
    (CASE e.mod = 0 /\ e.rm = 5 -> rip + 1 + e.displ
       [] e.mod = 0 /\ e.rm = 4 -> Sib00(e)
       [] e.mod = 0 /\ e.rm \notin {4, 5} -> BaseRm(e)
       [] e.mod \in {1, 2} -> (IF e.rm = 4 THEN Sib01or10(e) ELSE BaseRm(e)) + e.displ)
    % Size

Operand(e) == IF e.adsz THEN Null ELSE Mem(Indirect(e))

\* The pointers an r/m operand may be.
RM(regs) == regs \cup {Operand(e) : e \in Addressing}

-----------------------------------------------------------------------------
(* One instruction. *)

\* Operands within the last bytes of memory count as unmapped, too.
Mapped(p) == p.file = "mem" => p.at \in 0 .. Cells - 16

Instr(i) ==
    /\ ~faulted /\ instrs < MaxInstrs
    /\ instrs' = instrs + 1
    /\ rip' = (rip + 1) % Size
    /\ ins' = i
    /\ UNCHANGED df

\* The copies are made unless an operand cannot be used.
Makes(operands, copies) ==
    LET ok == Null \notin operands /\ \A p \in operands : Mapped(p)
    IN  /\ faulted' = ~ok
        /\ store' = IF ok THEN Run(store, copies) ELSE store

Executes(op, d, s, n, copies) ==
    /\ Instr([op |-> op, d |-> d, s |-> s, n |-> n])
    /\ Makes({d, s}, copies)
    /\ UNCHANGED ptr

\* The first k of n bytes are copied; the rest is filled, with the sign or
\* with zeros.
Extended(d, s, k, n) ==
    <<Copy(d, s, k)>> \o
        IF n > k THEN <<SignFill(Elem(d, k, 1), Elem(s, k - 1, 1), n - k)>> ELSE <<>>

Padded(d, s, k, n) ==
    <<Copy(d, s, k)>> \o IF n > k THEN <<Clear(Elem(d, k, 1), n - k)>> ELSE <<>>

-----------------------------------------------------------------------------
(* General moves.  Only the low n bytes of a register are written. *)

Widths == {1, 2, 4, 8}
WordWidths == {2, 4, 8}

\* 88 .. 8B
Mov(d, s, n) == Executes("MOV", d, s, n, <<Copy(d, s, n)>>)

\* C6, C7: a 64-bit operand takes a 32-bit immediate.
MovImm(d, n) ==
    Executes("MOVI", d, Imm, n, Extended(d, Imm, IF n = 8 THEN 4 ELSE n, n))

\* B0 .. BF
MovImmFull(d, n) == Executes("MOV", d, Imm, n, <<Copy(d, Imm, n)>>)

Movsxd(d, s, n) ==
    Executes("MOVSXD", d, s, n, Extended(d, s, IF n = 8 THEN 4 ELSE n, n))

\* 0F B6 (k = 1), 0F B7 (k = 2)
Movzx(d, s, k, n) ==
    Executes(IF k = 1 THEN "MOVZX8" ELSE "MOVZX16", d, s, n, Padded(d, s, k, n))

\* The operands are only looked at when the condition holds.
Cmov(d, s, n, taken) ==
    IF taken THEN Executes("MOV", d, s, n, <<Copy(d, s, n)>>)
    ELSE Executes("CMOVN", d, None, n, <<>>)

Setcc(d, holds) ==
    LET bit == Bit(IF holds THEN One ELSE Zero)
    IN  Executes("MOV", d, bit, 1, <<Copy(d, bit, 1)>>)

Xchg(d, s, n) ==
    Executes("XCHG", d, s, n,
             <<Copy(Tmp, d, n), Copy(d, s, n), Copy(s, Tmp, n), Clear(Tmp, n)>>)

Cbw(n) == Executes("CBW", Rax, Rax, n, Extended(Rax, Rax, n \div 2, n))
Cwd(n) == Executes("CWD", Rdx, Rax, n, Extended(Rdx, Rax, n \div 2, n))

\* A number's low 2, 4 or 8 bytes are replaced.
Values(n) == CASE n = 2 -> Word [] n = 4 -> Half [] n = 8 -> Size

\* Mutant: the new part is not cut to its size.
Part_Uncut(old, new, n) == (old - (old % Values(n))) + new

Part(old, new, n) == (old - (old % Values(n))) + (new % Values(n))

\* The pointer is the operand; with an address-size prefix it is NULL.
Lea(r, e, n) ==
    /\ Instr([op |-> "LEA", d |-> At("ptr", r), s |-> None, n |-> n, e |-> e])
    /\ ptr' = [ptr EXCEPT ![r] = Part(@, IF e.adsz THEN 0 ELSE Indirect(e), n)]
    /\ UNCHANGED <<store, faulted>>

Cpuid ==
    /\ Instr([op |-> "CPUID", d |-> None, s |-> None, n |-> 4])
    /\ store' = Run(store, <<Clear(Rax, 4), Clear(Rdx, 4)>>)
    /\ ptr' = [ptr EXCEPT ![rcx] = Part(@, 0, 4)]
    /\ UNCHANGED faulted

\* AA, AB: with a prefix F2 or F3 as often as rcx, or ecx, says.  rdi is kept.
Stos(n, rep, adsz) ==
    LET low(r) == IF adsz THEN ptr[r] % Half ELSE ptr[r]
        times == IF rep THEN low(rcx) ELSE 1
        to(k) == low(rdi) + (IF df THEN 0 - (k - 1) * n ELSE (k - 1) * n)
    IN  /\ Instr([op |-> "STOS", d |-> Mem(low(rdi)), s |-> Rax, n |-> n,
                  times |-> times, adsz |-> adsz])
        /\ Makes({Mem(to(k)) : k \in 1 .. times},
                 [k \in 1 .. times |-> Copy(Mem(to(k)), Rax, n)])
        /\ ptr' = IF rep THEN [ptr EXCEPT ![rcx] = @ - times] ELSE ptr

-----------------------------------------------------------------------------
(* SSE and MMX.  xmm/m and mmx/m operands: a register or memory. *)

\* OP_INTERLEAVE_LOW: elements 2i and 2i + 1 in turn, for i < times.
InterleaveLow(d, s, n, times) ==
    [k \in 1 .. 2 * times |->
        LET i == (k - 1) \div 2
        IN  Copy(Elem(d, k - 1, n), Elem(IF k % 2 = 1 THEN d ELSE s, i, n), n)]

\* Mutant: the interleaved elements come from the low half.
InterleaveHigh_Low(d, s, n, times) == InterleaveLow(d, s, n, times)

InterleaveHigh(d, s, n, times) ==
    [k \in 1 .. 2 * times |->
        LET i == (k - 1) \div 2 + times
        IN  Copy(Elem(d, k - 1, n), Elem(IF k % 2 = 1 THEN d ELSE s, i, n), n)]

Punpckl(d, s, n, times) == Executes("UNPCKL", d, s, n, InterleaveLow(d, s, n, times))
Punpckh(d, s, n, times) == Executes("UNPCKH", d, s, n, InterleaveHigh(d, s, n, times))

\* 0F 10, 28, 6F and the stores 11, 29, 2B: all bytes of the register.
MovVec(d, s, n) == Executes("MOV", d, s, n, <<Copy(d, s, n)>>)

\* MOVSS (n = 4), MOVSD (n = 8): a load from memory clears the rest.
MovScalar(d, s, n) ==
    IF s.file = "xmm" THEN Executes("MOV", d, s, n, <<Copy(d, s, n)>>)
    ELSE Executes("MOVZ", d, s, n, Padded(d, s, n, 16))

\* 0F 6E; bytes is the size of the register.  A register operand, too, is an
\* xmm or mmx register, where the architecture has a general one.
Movd(d, s, n, bytes) == Executes("MOVD", d, s, n, Padded(d, s, n, bytes))

\* dest->ud[a] = dest->ud[b] = src->ud[i]
Both(d, a, b, s, i, n) ==
    <<Copy(Elem(d, b, n), Elem(s, i, n), n), Copy(Elem(d, a, n), Elem(d, b, n), n)>>

Movsldup(d, s) == Executes("MOVSLDUP", d, s, 4, Both(d, 0, 1, s, 0, 4) \o Both(d, 2, 3, s, 1, 4))
Movshdup(d, s) == Executes("MOVSHDUP", d, s, 4, Both(d, 0, 1, s, 1, 4) \o Both(d, 2, 3, s, 3, 4))
Movddup(d, s) == Executes("MOVDDUP", d, s, 8, Both(d, 0, 1, s, 0, 8))

\* 0F 12: MOVLPD, MOVLPS; with two registers MOVHLPS.
Movlp(d, s, opsz) ==
    LET i == IF ~opsz /\ s.file = "xmm" THEN 1 ELSE 0
    IN  Executes(IF i = 1 THEN "MOVHLPS" ELSE "MOV", d, s, 8, <<Copy(d, Elem(s, i, 8), 8)>>)

\* 0F 16: MOVLHPS, MOVHPS; with prefix 66 MOVHPD.
Movhp(d, s, opsz) ==
    IF opsz THEN Executes("MOVHPD", d, s, 8, <<Copy(d, Elem(s, 1, 8), 8)>>)
    ELSE Executes("MOVHPS", d, s, 8, <<Copy(Elem(d, 1, 8), s, 8)>>)

\* 0F 17
MovhpStore(d, s) == Executes("MOVHPSTORE", d, s, 8, <<Copy(Elem(d, 1, 8), s, 8)>>)

-----------------------------------------------------------------------------
Addresses(file) ==
    CASE file = "gpr" -> {p.at + b : p \in Gprs, b \in 0 .. 7}
      [] file = "xmm" -> 0 .. 31
      [] file = "mmx" -> 0 .. 15
      [] file = "mem" -> 0 .. Cells - 1
      [] file = "tmp" -> 0 .. 7

Files == {"gpr", "xmm", "mmx", "mem", "tmp"}

\* All bytes different.
InitStore ==
    [f \in Files |-> [a \in Addresses(f) |->
        CASE f = "gpr" -> 100 + a [] f = "xmm" -> 200 + a [] f = "mmx" -> 300 + a
          [] f = "mem" -> 400 + a [] f = "tmp" -> Zero]]

Init ==
    /\ store = InitStore
    /\ ptr \in Pointers
    /\ rip = 0
    /\ df \in BOOLEAN
    /\ ins = [op |-> "none"]
    /\ faulted = FALSE
    /\ instrs = 0

XmmM == RM(Xmms)
MmxM == RM(Mmxs)

GeneralMoves ==
    \/ \E n \in Widths, r \in Gprs, p \in RM(Gprs) : Mov(r, p, n) \/ Mov(p, r, n) \/ Xchg(r, p, n)
    \/ \E n \in Widths, p \in RM(Gprs) : MovImm(p, n)
    \/ \E n \in Widths, r \in Gprs : MovImmFull(r, n)
    \/ \E n \in WordWidths, r \in Gprs, p \in RM(Gprs) :
          \/ Movsxd(r, p, n)
          \/ \E k \in {1, 2} : Movzx(r, p, k, n)
          \/ \E taken \in BOOLEAN : Cmov(r, p, n, taken)
    \/ \E holds \in BOOLEAN, p \in RM(Gprs) : Setcc(p, holds)
    \/ \E n \in WordWidths : Cbw(n) \/ Cwd(n)
    \/ \E n \in WordWidths, r \in Numeric, e \in Leas : Lea(r, e, n)
    \/ Cpuid
    \/ \E n \in Widths, rep \in BOOLEAN, adsz \in BOOLEAN : Stos(n, rep, adsz)

VectorMoves ==
    \/ \E r \in Xmms, p \in XmmM :
          \/ \E shape \in {<<1, 8>>, <<2, 4>>, <<4, 2>>, <<8, 1>>} :
                Punpckl(r, p, shape[1], shape[2]) \/ Punpckh(r, p, shape[1], shape[2])
          \/ MovVec(r, p, 16) \/ MovVec(p, r, 16)
          \/ \E n \in {4, 8} : MovScalar(r, p, n) \/ MovScalar(p, r, n) \/ Movd(r, p, n, 16)
          \/ Movsldup(r, p) \/ Movshdup(r, p) \/ Movddup(r, p)
          \/ \E opsz \in BOOLEAN : Movlp(r, p, opsz) \/ Movhp(r, p, opsz)
    \/ \E r \in Xmms, p \in XmmM : MovVec(p, r, 8) \/ MovhpStore(p, r)
    \/ \E r \in Mmxs, p \in MmxM :
          \/ \E shape \in {<<1, 4>>, <<2, 2>>, <<4, 1>>} :
                Punpckl(r, p, shape[1], shape[2]) \/ Punpckh(r, p, shape[1], shape[2])
          \/ MovVec(r, p, 8)
          \/ \E n \in {4, 8} : Movd(r, p, n, 8)

Next == GeneralMoves \/ VectorMoves

Spec == Init /\ [][Next]_vars

-----------------------------------------------------------------------------
(* Reference: an instruction described byte by byte, from the bytes before.*)

Old(p, b) == Read(store, p, b)
New(p, b) == Read(store', p, b)

Kept(f, at) == \A a \in DOMAIN store[f] \ at : store'[f][a] = store[f][a]
Span(p, n) == p.at .. p.at + n - 1

\* The n bytes at d become the bytes new, and nothing else changes.
Becomes(d, n, new) ==
    /\ \A b \in 0 .. n - 1 : New(d, b) = new[b]
    /\ \A f \in Files : Kept(f, IF f = d.file THEN Span(d, n) ELSE {})

\* n bytes: the first k of s, and then zeros, or the sign of those.
ZeroExtended(s, k, n) == [b \in 0 .. n - 1 |-> IF b < k THEN Old(s, b) ELSE Zero]
SignExtended(s, k, n) ==
    [b \in 0 .. n - 1 |-> IF b < k THEN Old(s, b) ELSE Sign(Old(s, k - 1))]

\* k lanes of n bytes, each copied from where lane says.
Gathered(lane, k, n) == [b \in 0 .. k * n - 1 |-> Old(lane[b \div n], b % n)]

\* The address as the sum of the parts an encoding has.
EffectiveAddress(e) ==
    LET sib == e.rm = 4
        ripRelative == e.mod = 0 /\ e.rm = 5
        baseless == e.mod = 0 /\ sib /\ e.base = 5
        base == IF sib THEN e.base + e.b ELSE e.rm + e.b
    IN  ((IF ripRelative THEN rip' ELSE IF baseless THEN 0 ELSE ptr[base])
          + (IF sib /\ e.index + e.x # 4 THEN ptr[e.index + e.x] * 2 ^ e.scale ELSE 0)
          + e.displ) % Size

-----------------------------------------------------------------------------
\* Numbers stay in their types whatever parts of them are replaced, and
\* nothing is left in the temporary of XCHG.
TypeOK ==
    /\ DOMAIN store = Files
    /\ \A f \in Files : DOMAIN store[f] = Addresses(f)
    /\ \A a \in Addresses("tmp") : store["tmp"][a] = Zero
    /\ ptr \in [Numeric -> 0 .. Size - 1]
    /\ rip \in 0 .. Size - 1 /\ df \in BOOLEAN /\ faulted \in BOOLEAN
    /\ instrs \in 0 .. MaxInstrs

\* What a step makes of every byte, if it is a general move.
MovesStep ==
    LET i == ins'
        d == i.d
        s == i.s
        n == i.n
    IN  IF faulted' THEN \A f \in Files : Kept(f, {})
        ELSE
        /\ Null \notin {d, s}
        /\ i.op = "MOV" => Becomes(d, n, ZeroExtended(s, n, n))
        /\ i.op \in {"MOVI", "MOVSXD"} => Becomes(d, n, SignExtended(s, 4, n))
        /\ i.op \in {"CBW", "CWD"} => Becomes(d, n, SignExtended(Rax, n \div 2, n))
        /\ i.op = "MOVZX8" => Becomes(d, n, ZeroExtended(s, 1, n))
        /\ i.op = "MOVZX16" => Becomes(d, n, ZeroExtended(s, 2, n))
        /\ i.op = "XCHG" =>
              /\ \A b \in 0 .. n - 1 : New(d, b) = Old(s, b) /\ New(s, b) = Old(d, b)
              /\ \A f \in Files :
                    Kept(f, UNION {Span(p, n) : p \in {q \in {d, s} : q.file = f}})
        /\ i.op \in {"CMOVN", "LEA"} => store' = store
        /\ i.op = "LEA" =>
              /\ LET address == IF i.e.adsz THEN 0 ELSE EffectiveAddress(i.e)
                 IN  ptr'[d.at] % Values(n) = address % Values(n)
              /\ ptr'[d.at] \div Values(n) = ptr[d.at] \div Values(n)
              /\ \A r \in Numeric \ {d.at} : ptr'[r] = ptr[r]
        /\ i.op = "CPUID" =>
              /\ \A b \in 0 .. 3 : New(Rax, b) = Zero /\ New(Rdx, b) = Zero
              /\ \A f \in Files :
                    Kept(f, IF f = "gpr" THEN Span(Rax, 4) \cup Span(Rdx, 4) ELSE {})
              /\ ptr'[rcx] % Half = 0 /\ ptr'[rcx] \div Half = ptr[rcx] \div Half
              /\ \A r \in Numeric \ {rcx} : ptr'[r] = ptr[r]
        /\ i.op = "STOS" =>
              /\ ptr'[rdi] = ptr[rdi]
              /\ (ins.op = "STOS" /\ ins.adsz = i.adsz) => ins.d = d
              /\ LET first == IF df THEN d.at - (i.times - 1) * n ELSE d.at
                     all == first .. first + i.times * n - 1
                 IN  /\ \A a \in all : store'["mem"][a] = Old(Rax, (a - first) % n)
                     /\ \A f \in Files : Kept(f, IF f = "mem" THEN all ELSE {})

\* What a step makes of every lane, if it is an SSE or MMX move.
LanesStep ==
    LET i == ins'
        d == i.d
        s == i.s
        n == i.n
        size == IF d.file = "xmm" THEN 16 ELSE 8
        lanes == size \div n
        Takes(k, lane) == Becomes(d, k * n, Gathered(lane, k, n))
        same(p, q) == \A b \in 0 .. n - 1 : New(p, b) = New(q, b)
    IN  ~faulted' =>
        /\ i.op = "UNPCKH" =>
              Takes(lanes, [l \in 0 .. lanes - 1 |->
                               Elem(IF l % 2 = 0 THEN d ELSE s, (l + lanes) \div 2, n)])
        /\ i.op = "UNPCKL" /\ lanes = 2 =>
              Takes(2, [l \in 0 .. 1 |-> IF l = 0 THEN d ELSE s])
        /\ i.op = "UNPCKL" /\ lanes > 2 =>
              /\ \A l \in 1 .. lanes - 1 : l % 2 = 0 => same(Elem(d, l, n), Elem(d, l \div 2, n))
              /\ \A l \in 1 .. lanes - 1 : l % 2 = 1 =>
                    \A b \in 0 .. n - 1 :
                       New(Elem(d, l, n), b) =
                          IF d = s THEN Old(s, b) ELSE Old(Elem(s, l \div 2, n), b)
              /\ \A b \in 0 .. n - 1 : New(d, b) = Old(d, b)
              /\ \A f \in Files : Kept(f, IF f = d.file THEN Span(d, lanes * n) ELSE {})
        /\ i.op = "MOVSHDUP" =>
              Takes(4, [l \in 0 .. 3 |-> Elem(s, 2 * (l \div 2) + 1, 4)])
        /\ i.op = "MOVSLDUP" =>
              Takes(4, [l \in 0 .. 3 |-> Elem(s, IF d = s THEN 0 ELSE l \div 2, 4)])
        /\ i.op = "MOVDDUP" => Takes(2, [l \in 0 .. 1 |-> s])
        /\ i.op \in {"MOVHLPS", "MOVHPD"} => Takes(1, [l \in {0} |-> Elem(s, 1, 8)])
        /\ i.op \in {"MOVHPS", "MOVHPSTORE"} =>
              Becomes(Elem(d, 1, 8), 8, ZeroExtended(s, 8, 8))
        /\ i.op \in {"MOVZ", "MOVD"} => Becomes(d, size, ZeroExtended(s, n, size))

(* What the general moves do to every byte of registers and memory, with   *)
(* the places where the code departs from the architecture: 32-bit results *)
(* leave the upper half of a register, those of LEA and the zeros of CPUID *)
(* (execute_0f.c:265-268) included; CWD, CDQ and CQO write what CBW        *)
(* writes, not the sign of rax; STOS does not move rdi, so the next one    *)
(* starts at the same place; with an address-size prefix an operand faults,*)
(* except that LEA loads 0; and byte register 6 is the low byte of rsi     *)
(* even where it is DH.  Addresses are the sum of their parts.             *)
MovesAgree == [][MovesStep]_vars

(* What the SSE and MMX moves do to every lane.  High interleaves,         *)
(* MOVSHDUP, MOVDDUP and the moves of one half are the architecture's, also*)
(* when the operands are the same register; a low interleave repeats lanes *)
(* it has written, so that of the destination only lane 0 survives;        *)
(* MOVSLDUP takes lane 1 for lane 2; MOVHPD loads the high half of its     *)
(* operand into the low half; and MOVHPS and MOVHPD store the low half     *)
(* eight bytes behind their operand.                                       *)
LanesAgree == [][LanesStep]_vars
=============================================================================
