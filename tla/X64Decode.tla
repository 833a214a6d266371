----------------------------- MODULE X64Decode -----------------------------
(***************************************************************************)
(* x64emu_run's loop around the decoder: an instruction is fetched byte by *)
(* byte into a zeroed x64instr_t (decode_prefixes, x64decode, x64decode_0f,*)
(* x64modrm_fetch), shown by the trace, then handed to x64execute.  Guest  *)
(* memory is arbitrary: every fetch may read any byte.                     *)
(*                                                                         *)
(* Of a fetched field the model keeps what decides the next fetch.  What   *)
(* an instruction does to the registers is left to the other modules; here *)
(* x64execute only matters for the fields it reads.                        *)
(***************************************************************************)
EXTENDS Integers, FiniteSets

CONSTANTS
    Bytes,        \* bytes a fetch of a prefix or an opcode may read
    OperandBytes, \* bytes a fetch of a ModR/M or SIB byte may read
    MaxPrefixes   \* bound on the legacy prefixes of one instruction

ASSUME BytesAssumption == Bytes \subseteq 0 .. 255 /\ OperandBytes \subseteq 0 .. 255
\* With more, fetch_8 would write behind desc.bytes[25]: not modelled.
ASSUME MaxPrefixesAssumption == MaxPrefixes \in 0 .. 13

VARIABLES
    phase,        \* what x64decode fetches next, or what follows the decoding
    ins,          \* the instruction fetched so far
    prefixes      \* history: the legacy prefix bytes fetched for it

vars == <<phase, ins, prefixes>>

TwoByte(b) == \hF00 + b        \* opcode[0] = 0F, opcode[1] = b

\* x64instr_t instr = { 0 };  displ and imm are the bytes fetched of those
\* fields, len is desc.bytes_len and npfx a count of the legacy prefixes.
Zero == [rep |-> 0, rex |-> FALSE, rexw |-> FALSE, opsz |-> FALSE, adsz |-> FALSE,
         op |-> 0, modrm |-> FALSE, mod |-> 0, reg |-> 0, rm |-> 0, base |-> 0,
         displ |-> 0, imm |-> 0, len |-> 0, npfx |-> 0]

-----------------------------------------------------------------------------
(* The opcode tables of decode.c and decode_0f.c. *)

Ignored == {\h26, \h2E, \h36, \h3E}
Legacy == Ignored \cup {\h66, \h67, \hF2, \hF3}
Unsupported == {\h64, \h65, \hF0}
Rex == \h40 .. \h4F

Family(op) == op < \h40 /\ op % 8 < 6

FetchesModRM(op) ==
    \/ Family(op) /\ op % 8 < 4
    \/ op \in {\h63, \h80, \h81, \h8D, \h8F, \hC0, \hC1, \hC6, \hC7, \hF6, \hF7, \hFE, \hFF}
    \/ op \in \h83 .. \h8B \cup \hD0 .. \hD3
    \/ op \in {TwoByte(b) : b \in {\h0D, \hB6, \hB7} \cup \h10 .. \h1F \cup \h28 .. \h2F
                                  \cup \h40 .. \h76 \cup \h7C .. \h7F \cup \h90 .. \h9F}

\* Mutant: TEST's immediate is fetched for every extension of F6.
FetchesImm8_F6Always(op, reg) ==
    \/ Family(op) /\ op % 8 = 4
    \/ op \in {\h6A, \h80, \h83, \hA8, \hC0, \hC1, \hC6, \hEB, \hF6}
    \/ op \in \h70 .. \h7F \cup \hB0 .. \hB7
    \/ op \in {TwoByte(b) : b \in \h70 .. \h73}

FetchesImm8(op, reg) ==
    \/ Family(op) /\ op % 8 = 4
    \/ op \in {\h6A, \h80, \h83, \hA8, \hC0, \hC1, \hC6, \hEB}
    \/ op \in \h70 .. \h7F \cup \hB0 .. \hB7
    \/ op = \hF6 /\ reg <= 1
    \/ op \in {TwoByte(b) : b \in \h70 .. \h73}

FetchesImm16or32(op, reg) ==
    \/ Family(op) /\ op % 8 = 5
    \/ op \in {\h68, \h81, \hA9, \hC7}
    \/ op = \hF7 /\ reg <= 1
    \/ op \in {TwoByte(b) : b \in \h80 .. \h8F}

FetchesImm(op) == \E reg \in 0 .. 7 :
    \/ FetchesImm8(op, reg) \/ FetchesImm16or32(op, reg)
    \/ op \in \hB8 .. \hBF \cup {\hC2, \hE8, \hE9}

\* Opcodes that fetch nothing more.
Bare(op) ==
    \/ op \in \h50 .. \h5F \cup \h90 .. \h99 \cup \h9C .. \h9F \cup \hF8 .. \hFD
    \/ op \in {\hAA, \hAB, \hC3, \hC9, \hF5, TwoByte(\h05), TwoByte(\hA2)}

Handled(op) == FetchesModRM(op) \/ FetchesImm(op) \/ Bare(op)

\* Mutant: REX.W is taken to widen every immediate.
Imm16or32_RexWFirst(i) == IF i.rexw THEN 8 ELSE IF i.opsz THEN 2 ELSE 4

\* FETCH_IMM_16_32: the operand-size prefix is asked first.
Imm16or32(i) == IF i.opsz THEN 2 ELSE 4

\* FETCH_IMM_16_32_64: REX.W is asked first.
Imm16or32or64(i) == IF i.rexw THEN 8 ELSE IF i.opsz THEN 2 ELSE 4

ImmBytes(i) ==
    CASE FetchesImm8(i.op, i.reg) -> 1
      [] FetchesImm16or32(i.op, i.reg) -> Imm16or32(i)
      [] i.op \in \hB8 .. \hBF -> Imm16or32or64(i)
      [] i.op = \hC2 -> 2
      [] i.op \in {\hE8, \hE9} -> 4
      [] OTHER -> 0

\* Mutant: a SIB byte without a base register is forgotten.
DisplBytes_NoSibCase(i) ==
    CASE i.mod = 0 -> IF i.rm = 5 THEN 4 ELSE 0
      [] i.mod = 1 -> 1
      [] i.mod = 2 -> 4
      [] OTHER -> 0

DisplBytes(i) ==
    CASE i.mod = 0 -> IF i.rm = 5 \/ (i.rm = 4 /\ i.base = 5) THEN 4 ELSE 0
      [] i.mod = 1 -> 1
      [] i.mod = 2 -> 4
      [] OTHER -> 0

-----------------------------------------------------------------------------
(* The fetches.  fetch_N moves rip and the trace's bytes_len by N.         *)

Fetched(i, n) == [i EXCEPT !.len = @ + n]

\* What is fetched after the opcode, the ModR/M byte, the address.
ImmPhase(i) == IF ImmBytes(i) > 0 THEN "imm" ELSE "trace"
DisplPhase(i) == IF DisplBytes(i) > 0 THEN "displ" ELSE ImmPhase(i)
ModRMPhase(i) == IF FetchesModRM(i.op) THEN "modrm" ELSE ImmPhase(i)

\* The loop of decode_prefixes.
FetchPrefix(b) ==
    /\ phase = "prefix" /\ b \in Legacy
    /\ ins.npfx < MaxPrefixes
    /\ prefixes' = prefixes \cup {b}
    /\ ins' = [Fetched(ins, 1) EXCEPT
                 !.npfx = @ + 1,
                 !.opsz = @ \/ b = \h66,
                 !.adsz = @ \/ b = \h67,
                 !.rep = IF b \in {\hF2, \hF3} THEN b ELSE @]
    /\ UNCHANGED phase

\* REX must be the last prefix.
FetchRex(b) ==
    /\ phase = "prefix" /\ b \in Rex
    /\ ins' = [Fetched(ins, 1) EXCEPT !.rex = TRUE, !.rexw = b \div 8 % 2 = 1]
    /\ phase' = "opcode"
    /\ UNCHANGED prefixes

\* A segment override or LOCK becomes an invalid opcode, 06.
FetchUnsupported(b) ==
    /\ phase = "prefix" /\ b \in Unsupported
    /\ ins' = [Fetched(ins, 1) EXCEPT !.op = 6]
    /\ phase' = "stopped"
    /\ UNCHANGED prefixes

FetchOpcode(b) ==
    /\ \/ phase = "prefix" /\ b \notin Legacy \cup Rex \cup Unsupported
       \/ phase = "opcode"
    /\ LET i == [Fetched(ins, 1) EXCEPT !.op = b]
       IN  /\ ins' = i
           /\ phase' = IF b = \h0F THEN "second"
                       ELSE IF Handled(b) THEN ModRMPhase(i) ELSE "stopped"
    /\ UNCHANGED prefixes

FetchSecond(b) ==
    /\ phase = "second"
    /\ LET i == [Fetched(ins, 1) EXCEPT !.op = TwoByte(b)]
       IN  /\ ins' = i
           /\ phase' = IF Handled(i.op) THEN ModRMPhase(i) ELSE "stopped"
    /\ UNCHANGED prefixes

FetchModRM(b) ==
    /\ phase = "modrm"
    /\ LET i == [Fetched(ins, 1) EXCEPT !.modrm = TRUE, !.mod = b \div 64,
                                        !.reg = b \div 8 % 8, !.rm = b % 8]
       IN  /\ ins' = i
           /\ phase' = IF i.mod = 3 THEN ImmPhase(i)
                       ELSE IF i.rm = 4 THEN "sib" ELSE DisplPhase(i)
    /\ UNCHANGED prefixes

FetchSib(b) ==
    /\ phase = "sib"
    /\ ins' = [Fetched(ins, 1) EXCEPT !.base = b % 8]
    /\ phase' = DisplPhase(ins')
    /\ UNCHANGED prefixes

FetchDispl ==
    /\ phase = "displ"
    /\ LET n == DisplBytes(ins) IN ins' = [Fetched(ins, n) EXCEPT !.displ = n]
    /\ phase' = ImmPhase(ins')
    /\ UNCHANGED prefixes

FetchImm ==
    /\ phase = "imm"
    /\ LET n == ImmBytes(ins) IN ins' = [Fetched(ins, n) EXCEPT !.imm = n]
    /\ phase' = "trace"
    /\ UNCHANGED prefixes

\* print_emu_state writes "%02X " for each byte, and a terminator.
TraceText(i) == 3 * i.len + 1

\* The text is written into instr_str[48] unchecked: behind its end anything
\* may happen, of which going on (as a build without trace does) and dying
\* are told apart.
PrintState ==
    /\ phase = "trace"
    /\ phase' \in IF TraceText(ins) <= 48 THEN {"execute"} ELSE {"execute", "killed"}
    /\ UNCHANGED <<ins, prefixes>>

-----------------------------------------------------------------------------
(* The opcode tables of execute.c and execute_0f.c: what x64execute knows, *)
(* and the bytes of the instruction it reads.                              *)

\* Decoded, but x64execute has no case for the opcode or its extension.
Implemented(op, reg) ==
    /\ op \in {\h8F, \hC6, \hC7} => reg = 0
    /\ op \in {\hF6, \hF7} => reg <= 3
    /\ op = \hFE => reg <= 1
    /\ op = \hFF => reg \in {0, 1, 2, 4}
    /\ op >= TwoByte(0) => op - TwoByte(0) \in
          {\h05, \h0D, \h28, \h29, \h2B, \h6E, \h6F, \hA2, \hB6, \hB7}
          \cup \h10 .. \h1F \cup \h40 .. \h4F \cup \h60 .. \h62
          \cup \h68 .. \h6A \cup \h80 .. \h9F

\* An operand is taken from x64modrm_get_reg, _get_r_m, _get_xmm ...
ExecReadsModRM(op) ==
    \/ op < \h40 /\ op % 8 < 4
    \/ op \in {\h63, \h80, \h81, \h83, \h8D, \h8F} \cup \h84 .. \h8B
    \/ op \in {\hC0, \hC1, \hC6, \hC7, \hF6, \hF7, \hFE, \hFF} \cup \hD0 .. \hD3
    \/ op >= TwoByte(0) /\ op - TwoByte(0) \in
          {\h28, \h29, \h2B, \h6E, \h6F, \hB6, \hB7}
          \cup \h10 .. \h17 \cup \h40 .. \h4F \cup \h60 .. \h62
          \cup \h68 .. \h6A \cup \h90 .. \h9F

\* x64modrm_get_indirect reads displ.sd or displ.sb.
ExecDispl(i) ==
    CASE i.mod = 3 \/ i.adsz -> 0
      [] i.mod = 0 /\ i.rm = 5 -> 4
      [] i.mod = 0 /\ i.rm = 4 /\ i.base = 5 -> 4
      [] i.mod = 1 -> 1
      [] i.mod = 2 -> 4
      [] OTHER -> 0

\* OP2_16_32_64(..., IMM, ..., S_32): an int16_t or an int32_t, REX.W first.
ReadsS32(op, reg) ==
    \/ op < \h40 /\ op % 8 = 5
    \/ op \in {\h81, \hA9}
    \/ op = \hC7 /\ reg = 0
    \/ op = \hF7 /\ reg <= 1

\* The bytes of ins->imm that the case of the opcode reads.
ExecImm(i) ==
    CASE i.op < \h40 /\ i.op % 8 = 4 -> 1
      [] i.op \in {\h6A, \h80, \h83, \hA8, \hC0, \hC1, \hC6, \hEB} -> 1
      [] i.op \in \h70 .. \h7F \cup \hB0 .. \hB7 -> 1
      [] i.op = \hF6 /\ i.reg <= 1 -> 1
      [] ReadsS32(i.op, i.reg) -> IF i.rexw THEN 4 ELSE IF i.opsz THEN 2 ELSE 4
      [] i.op \in {\h68} \cup {TwoByte(b) : b \in \h80 .. \h8F} -> IF i.opsz THEN 2 ELSE 4
      [] i.op \in \hB8 .. \hBF -> IF i.rexw THEN 8 ELSE IF i.opsz THEN 2 ELSE 4
      [] i.op = \hC2 -> 2
      [] i.op \in {\hE8, \hE9} -> 4
      [] OTHER -> 0

\* Mutant: the instruction is not zeroed before the next one is decoded.
Execute_KeepsInstr ==
    /\ phase = "execute" /\ Implemented(ins.op, ins.reg)
    /\ phase' = "prefix"
    /\ prefixes' = {}
    /\ UNCHANGED ins

\* x64execute succeeds: the loop starts over with a zeroed instruction.
Execute ==
    /\ phase = "execute" /\ Implemented(ins.op, ins.reg)
    /\ phase' = "prefix"
    /\ ins' = Zero
    /\ prefixes' = {}

\* It fails: the opcode is not implemented, or the guest ends or crashes in it.
Stop ==
    /\ phase = "execute"
    /\ phase' = "stopped"
    /\ UNCHANGED <<ins, prefixes>>

-----------------------------------------------------------------------------
Init == phase = "prefix" /\ ins = Zero /\ prefixes = {}

Next ==
    \/ \E b \in Bytes :
          FetchPrefix(b) \/ FetchRex(b) \/ FetchUnsupported(b) \/ FetchOpcode(b) \/ FetchSecond(b)
    \/ \E b \in OperandBytes : FetchModRM(b) \/ FetchSib(b)
    \/ FetchDispl \/ FetchImm
    \/ PrintState \/ Execute \/ Stop

Spec == Init /\ [][Next]_vars

-----------------------------------------------------------------------------
Phases == {"prefix", "opcode", "second", "modrm", "sib", "displ", "imm",
           "trace", "execute", "stopped", "killed"}

Reps == {0, \hF2, \hF3}
Opcodes == 0 .. TwoByte(255)

Instructions ==
    [rep : Reps, rex : BOOLEAN, rexw : BOOLEAN, opsz : BOOLEAN, adsz : BOOLEAN,
     op : Opcodes, modrm : BOOLEAN, mod : 0 .. 3, reg : 0 .. 7, rm : 0 .. 7,
     base : 0 .. 7, displ : {0, 1, 4}, imm : {0, 1, 2, 4, 8},
     len : 0 .. MaxPrefixes + 12, npfx : 0 .. MaxPrefixes]

\* Every field has its C type; an instruction is never longer than 12 bytes
\* and its prefixes, also when one is fetched after another (emu.c:81).
TypeOK ==
    /\ phase \in Phases
    /\ ins \in Instructions
    /\ prefixes \subseteq Legacy

\* decode.c and execute.c each have a table of the opcodes.  They agree:
\* whatever x64execute reads of an instruction, and no less, was fetched for
\* it.  (Otherwise a zero is used as operand, or rip is left inside the
\* instruction.)  The one exception: with both prefixes 66 and REX.W a 64-bit
\* operand's 32-bit immediate is fetched as two bytes and read as four.
OperandsFetched ==
    phase = "execute" /\ Implemented(ins.op, ins.reg) =>
        /\ ExecReadsModRM(ins.op) => ins.modrm
        /\ ins.modrm /\ ~ins.adsz => ExecDispl(ins) = ins.displ
        /\ ExecImm(ins) = ins.imm <=> ~(ins.opsz /\ ins.rexw /\ ReadsS32(ins.op, ins.reg))

\* The architecture allows instructions of up to 15 bytes, and the decoder
\* has no limit.  Every instruction with up to three legacy prefixes is at
\* most 15 bytes and its text fits instr_str[48] (emu.c:67-70): where the
\* trace kills the emulator, the guest repeated its prefixes.  And 13
\* prefixes still leave room in desc.bytes[25] (x64instr.h:57).
TraceFits ==
    /\ ins.npfx <= 3 => ins.len <= 15
    /\ phase = "killed" => ins.len > 15 /\ ins.npfx > 3
    /\ ins.len <= 25

\* Where the decoder departs from the opcode map: FETCH_IMM_16_32 asks for
\* 66 and not for REX.W (decode_private.h:9), and is also used for Jcc, whose
\* displacement 66 does not shorten (decode_0f.c:53).
Misread(i) ==
    /\ i.opsz
    /\ \/ i.rexw /\ FetchesImm16or32(i.op, i.reg)
       \/ i.op \in {TwoByte(b) : b \in \h80 .. \h8F}

\* The decoder delivers the instructions of the opcode map, one after the
\* other, with nothing of one left in the next (refinement of X64InstrStream),
\* and those it misreads are exactly the ones that are not of the map.
Stream == INSTANCE X64InstrStream WITH
    insn <- IF phase = "execute" /\ ~Misread(ins) THEN {<<ins, prefixes>>} ELSE {},
    halted <- phase \in {"stopped", "killed"}

DeliversInstructions ==
    /\ Stream!Spec
    /\ [](phase = "execute" => (Stream!WellFormed(ins, prefixes) <=> ~Misread(ins)))
=============================================================================
