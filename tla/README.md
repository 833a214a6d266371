# flux64: a TLA+ model

flux64 runs x86-64 Linux programs in user mode: it maps an ELF binary, builds
the initial stack, and interprets instructions until the program exits. The
code is about 3100 lines of C, single threaded, without tests and without
documents. These modules are written from the code; paths below are relative
to `src/src/`.

## 1. Inventory

| Part | State | Operations | Talks to |
|---|---|---|---|
| process (`main.c`, `x64emu/context.c`) | `ctx`: stack, segments, arguments | `x64context_init`, `x64context_free` | every other part, by calls |
| ELF loader (`elfloader/elfloader.c`) | the open file, memory, `ctx->segments` | `elfloader_load` | host `mmap`, `fread`, `mprotect` |
| initial stack (`x64emu/stack.c`, `stack_private.h`, `emu.c`) | `rsp`, guest memory, `errno` | `x64stack_init/setup/free`, `x64emu_init` | host `getauxval` |
| decoder (`decode*.c`, `decode_private.h`, `modrm.c`) | `rip`, `x64instr_t` | `x64decode`, `x64decode_0f`, `x64modrm_fetch` | fills the instruction the executor reads |
| executor (`execute*.c`, `execute_private.h`) | registers, flags, guest memory | `x64execute`, `x64execute_0f` | addresses from `modrm.c`, `x64syscall` |
| system calls (`syscall.c`) | `rcx`, `r11`, flags, `rax` | `x64syscall` | host `write`; `x64emu_free` and `_exit` |
| platform (`platform/virtual.c`) | none of its own; may leave `errno` set | `detect_48bit_va`, `dump_self_maps` | `/proc/self/maps` |
| trace (`emu.c`, `include/debug.h`) | two fixed buffers | `print_emu_state` | bytes recorded by the decoder |

Everything shares two structures, `x64context_t` and `x64emu_t`, and one
address space with the host: a fault of the guest is a fault of flux64. There
is no concurrency. What makes the code hard is elsewhere:

* **sequences**: flags written by one instruction and read many later, words
  pushed in one width and popped in another, a structure that must be zero
  before each instruction;
* **agreement of separate tables**: `decode.c` says which bytes an opcode has,
  `execute.c` says which it uses, and nothing compares them;
* **failure part of the way**: any host call of the loader, the set-up and the
  release may fail between any two steps;
* **boundaries**: signed overflow, alignment blocks, empty file parts, the
  parity of the number of arguments, fixed buffers;
* **stale state**: `errno`, a second read of `*dest`, flags that are OR-ed;
* **aliasing**: operands are pointers that may be the same register, overlap in
  memory, or depend on the stack pointer the instruction moves;
* **undefined behaviour**: sums that overflow and shifts by the full width, whose
  outcome the build decides.

Correct means: arithmetic flags describe the operands (X64Arith), a shift is as
many shifts by one place (X64Bits), a return goes behind its call (X64Control),
a move writes the bytes of its operand and no others (X64Moves), saved flags
come back and privileged bits stay out of reach (X64RFlags), the byte stream
is cut into the instructions of the opcode map and no fetched byte is missing
(X64Decode), the start code finds what the ABI promises (X64Stack), a binary
is loaded completely or refused for a reason (ElfLoader), and the process runs
only what is loaded and releases what it mapped (Flux64). PROJECT.json lists
the hazards at their lines with the properties that cover them.

## 2. Modules

    X64Flags  <- X64Arith  <- X64ArithProofs
              <- X64Bits   <- X64BitsProofs
              <- X64RFlags <- X64RFlagsProofs
    X64CallStack   <= (refined by) X64Control <- X64ControlProofs
    X64Moves  <- X64MovesProofs
    X64InstrStream <= (refined by) X64Decode <- X64DecodeProofs
    X64Stack  <- X64StackProofs
    ElfLoader <- Flux64    <- Flux64Proofs (about both)

`A <- B` reads "B extends A". `MC*` modules give the constants their values.

* **X64Flags**: RFLAGS as the set of its bits that are 1, so the masks of the
  code are sets; the parity function; the sixteen conditions of Jcc, CMOVcc
  and SETcc (`x64execute_jmp_cond`).
* **X64Arith**: one destination operand and the flags. One action for each
  macro `OP_S_*` that adds or subtracts, with the second read of `*dest` in ADC
  and SBB. `Half` is the weight of the sign bit, so one module stands for the
  8-, 16-, 32- and 64-bit instantiations. `SignedWraps` says whether the build
  wraps signed arithmetic; if not, the outcome of a test on an overflowed sum
  is open (8- and 16-bit sums are computed in `int` and always wrap).
* **X64Bits**: one destination operand as the set of its bits that are 1, and the
  flags, under one action for each shift, rotate and bitwise macro. The width is
  chosen once, narrower than an `int`, as wide or wider. A shift by the width of
  its (promoted) type or more is a choice between what the host's instruction
  does and what gcc's constant folding does; `f_CF << n` is computed in an `int`.
* **X64Control**: PUSH, POP, CALL, RET, LEAVE and jumps on `rip`, `rsp`, `rbp` and
  the cells of the stack, in the widths that the prefixes 66 and 67 select, mixed
  with moves of `rsp` and stores to the stack. A cell is 16 bits wide in the
  code, so a word is one cell, a 32-bit value two and a 64-bit value four. The
  history variable `frames` knows where return addresses lie. The guest is one
  that returns with RET where it called, in the same width, and does not store
  over a return address.
* **X64CallStack**: what such a guest relies on, the abstract specification that
  X64Control refines: a stack of places to go back to, which only calls push.
* **X64Moves**: all instructions that only move data, of `execute.c` and of
  `execute_0f.c`, as the sequence of copies their C statements make between
  register arrays and memory; an operand is a pointer, as in the code. Bytes are
  symbolic (each place has a byte of its own at first; a sign is a function of
  the byte it extends), so that the properties can tell where each byte of a
  result comes from. Registers that hold addresses and counts are numbers; LEA,
  CPUID and STOS compute with them and the helpers of `modrm.c` add them up.
* **X64RFlags**: RFLAGS, AH, R11 and a stack of 16-bit units under every
  instruction that moves the flags as a word, in both widths, mixed with words
  of the guest's own. History variables remember what each unit on the stack is
  an image of, which is what "the saved flags come back" is stated with.
* **X64Decode**: `x64emu_run`'s loop with one action per fetch. Guest memory is
  arbitrary: each fetch may read any byte. Two groups of operators hold the two
  tables: what `decode.c` fetches for an opcode and what `execute.c` reads.
  `PrintState` is the trace of a build that has one: its text has three characters
  for each byte in a buffer of 48, and an instruction whose text is longer may
  kill the emulator there (phase "killed") or not.
* **X64InstrStream**: the abstract specification of the decoder, a stream of
  well-formed instructions. It is written from the opcode map of the
  architecture and not from the code, so it says things that `decode.c` does
  not do: REX.W overrides 66 for an immediate of the operand size, and 66 does
  not shorten the displacement of a near CALL, JMP or Jcc (Intel's definition;
  AMD's shortens all three alike, which the code does not do either). `Misread`
  in X64Decode names the instructions for which the decoder departs from it.
* **X64Stack**: `x64stack_setup` push by push and the registers `x64emu_init`
  computes. Memory is the set of the objects written, so that an overlap is
  visible. `errno` is a variable: it may be stale at the start and is never
  cleared.
* **ElfLoader**: `elfloader_load` with one action for each host call, each of
  which may fail; the result of `calloc` is not checked by the code, so the
  loader may be killed when it stores the first record. Memory is a function from
  addresses to what is there (nothing, zero, or which byte of the file), rights
  are kept per page.
* **Flux64**: extends the loader with `main`, the guest as a program that may
  return, exit, crash or never end, and the release with a `munmap` that may
  fail at each mapping. `failures` is the set of the mappings that failed, which
  the code has only as two results; the properties say with it what is left.

## 3. Runs

| Run | Question | Bounds | Result |
|---|---|---|---|
| X64Arith8 | do flags and results agree with order, carry and overflow? | 8 bits, ten operands around every boundary | holds |
| X64ArithAdc | does the carry reach the result, as the comments at `execute_private.h:179, 230` say? | 8 bits, four operands | **violated** |
| X64Bits | are shifts repeated shifts by one, with the right flags? | 2, 4 and 8 bits beside an `int` of 4; five operands; counts 0 to 9 | holds |
| X64BitsCarry | do RCL and RCR rotate through the carry (`execute_private.h:73, 81`)? | 4 bits beside an `int` of 4 | **violated** |
| X64Control | does every RET go behind its CALL, and what do operands on `rsp` read? | 4 instructions on 13 cells of one bit | holds |
| X64Moves | which byte does every move write where? | 2 instructions, 3 memory operands, 11 forms of LEA | holds |
| X64RFlags | do the masks fit together on one stack? | 7 instructions, 5 units, two images | holds |
| X64Decode | is the stream cut as the opcode map says, and is what is read fetched? | every opcode byte, one- and two-byte; up to four legacy prefixes | holds |
| X64Stack | does the guest find argc, argv, envp and auxv? | 2 arguments, 2 variables, three string sizes, three hosts | holds |
| ElfLoader | is a binary loaded completely or refused for a reason? | every table of up to three of eleven headers | holds |
| ElfLoaderBss | is a loadable segment with nothing in the file loaded (`elfloader.c:86`)? | same | **violated** |
| Flux64 | is only what is loaded run, and everything released, with the right status? | tables of up to three of five headers | holds |

Why the bounds are enough:

* *X64Arith8*. The reachable destinations include every 8-bit value, since sums
  of operands are again destinations. Operands are 0, 1, 2, both sides of the
  half-carry, of the sign and of the top. The theorems cover every width.
* *X64Bits*. What matters is the width beside that of an `int` and the count
  beside both, and every order of these occurs; counts of 7 and 9 are at and
  beyond the widest operand. From the five operands the instructions reach every
  value of every width.
* *X64Control*. With cells of one bit a 64-bit value has 16 values, so `rip` and
  `rsp` wrap. Thirteen cells hold two return addresses of 64 bits or three of
  mixed widths with pushed words between them; four instructions are two calls
  and their returns, or a call, two moves of the stack and the return. The
  displacements lie on both sides of the cells a CALL pushes, and inside them.
* *X64Moves*. Memory operands are two that overlap and one with an address-size
  prefix. A second instruction follows only where the first one changes what it
  does (the constraint `FollowedUp`): after STOS, CPUID, LEA to an address
  register, and a low interleave; the start states already hold every byte
  apart, so other pairs say nothing new. An operand in the last 16 bytes of
  memory counts as unmapped.
* *X64RFlags*. A 64-bit image takes four units and a 16-bit one one, so five
  units hold the mixtures; seven instructions are enough for save, system call,
  change, restore, twice. Bits do not interact in the masks, so one image of
  all ones and one mixed one tell every bit apart.
* *X64Decode*. The state carries nothing from one instruction to the next, so a
  run covers programs of any length. One of each kind of legacy prefix is in it:
  of the four ignored segment prefixes 3E, beside 66, 67 and F3. ModR/M and SIB
  bytes are seven, at least one of each addressing form with the extensions that
  decide something (0, 1, 2, 4). The longest instruction without legacy prefixes
  has 12 bytes, so three prefixes make one of 15 bytes, which fits the trace, and
  four one of 16, which does not: the run has both, and the emulator killed. It
  is the largest run, 1.2 million states in about two minutes.
* *X64Stack*. Sizes 1, 9 and 16 reach every alignment case, and both parities of
  argc + envc occur; `AuxiliaryVector` needs one host that knows every type, one
  that lacks the first type asked for but one, and one that lacks the last.
* *ElfLoader*, *Flux64*. Pages have two addresses, blocks one or two pages;
  three headers are two segments with something between them. Headers cover
  a start inside the block, a file part that is shorter, empty or beyond the
  file, alignment below a page and zero, shared blocks, and the three ways to be
  skipped.

`CHECK_DEADLOCK FALSE` stands in the configurations of systems that stop: the
flag, decoder, control and move models when the guest ends (or the bound is
reached), the
stack set-up when it is done, the loader when it has returned, the process when
it has exited.

Some properties state what the code does where that is not what one would hope
for; each says exactly where the departure is, and holds.

* `EntryAlignment`: the guest starts on a 16-byte boundary only when argc + envc
  is odd. `AuxiliaryVector`: after one type unknown to the host, or with an
  `errno` left over, all later host entries are missing.
* `TraceFits`: any instruction of up to 15 bytes, the most the architecture
  allows, fits the trace; the decoder does not refuse longer ones, and with more
  than three legacy prefixes these may kill the emulator (`emu.c:67`).
  `OperandsFetched`: an instruction with the prefixes 66 and REX.W
  and a 32-bit immediate, and no other, fetches two bytes and uses four
  (`decode_private.h:9` against `execute.c:317`). `DeliversInstructions`: what is
  delivered is an instruction of the opcode map except exactly for these and for a
  near Jcc with 66, of whose displacement two bytes are fetched (`decode_0f.c:53`).
* `ReleasesEverything`: after a run each mapping whose `munmap` succeeded is gone,
  whatever failed before it, and each other one is left; but a process whose
  loading fails releases nothing (`main.c:18`). `ExitStatus`: the guest's status
  hides a failed release; without one, 0 means that nothing failed, and 1 that
  something did. `MappingsRecorded`: a loader that fails may leave one block
  mapped and not recorded.
* `PrivilegeUntilSyscall`: IOPL and bit 1 are 1 until the first system call and 0
  ever after, against the comment at `execute.c:399`.
* `ChainStartsExactly`: only the first ADC or SBB of a chain is exact.
  `OverflowReported`: where a build does not wrap signed arithmetic, nothing is
  claimed of OF after a 32- or 64-bit sum that overflows.
* `ShiftsBitByBit`: counts are masked with the width of the operand, so 8- and
  16-bit operands shifted by 8 or 16 and more keep their value, and nothing is
  claimed of these counts; RCL and RCR of 32- and 64-bit operands are claimed for
  counts above 1, and with a carry only where it fits an `int`.
* `OperandsOfRsp`: CALL rsp goes to the stack; CALL [rsp - 8] and nearer reads
  what it has just pushed; POP [rsp + d] writes one operand below the
  architecture's place.
* `MovesAgree`: 32-bit results keep the upper half of a register, those of LEA and
  CPUID included; CWD, CDQ and CQO
  do to rdx what CBW does to rax; STOS does not move rdi; byte registers 4 to 7
  are the low bytes of rsp to rdi; an address-size prefix faults, and for LEA
  gives 0. `LanesAgree`: low interleaves and MOVSLDUP read lanes they have
  written, MOVHPD loads and stores the wrong halves; MOVD with a register operand
  reads a vector register.

## 4. Fairness

`LoaderSpec` has weak fairness on the loader's next step: there is one thread,
nothing in the loader waits, and calls on regular files return. `Flux64!Spec`
has it on `Setup` and `Release`, what the emulator does by itself, and not on
the guest, which may run forever. Hence `ProcessEnds` says that the set-up ends
and that the release ends, and not that the guest does. Other specifications
have no fairness; nothing is claimed to happen in them.

## 5. Proofs

TLAPS checks these for every value of the constants.

* `X64ArithProofs`, for every `Half >= 128` and set of operands: `TypeOK` and
  `ResultFlagsAgree` (the latter needs that a zero result has even parity and no
  sign); then the three action properties. `CmpIsDecisive` is the central one:
  the sign of the difference differs from its overflow exactly when the signed
  reading is less, and the unsigned comparison of the result with the minuend
  finds the borrow. The case analysis is on the signs of the two operands, with
  the truncation replaced by a sum or difference with `2 * Half` in each case.
* `X64BitsProofs`, for every width, `int`, set of operands and counts: `TypeOK`,
  which needs that the carry and the shifted terms are cut to the operand;
  `OverflowIsSignChange`, from where the top two bits of a result come from in
  each of the six instructions; `LogicComparesWithZero`, from the flags alone;
  and `ShiftsBitByBit`. For the last, the operand and the carry after i steps by
  one place are written down in closed form (`RolBits`, ..., `OutLeft`,
  `OutRight`); a step leads from the form at i - 1 to the form at i; so the
  recursive function of the reference has that value, by induction over a set
  of numbers (`UpTo`, from the well-foundedness of `<`); and the terms that the
  C expression combines make the same form, in the widths they are computed in.
  WidthsAssumption says that an `int` is a whole number of the operands it can
  hold: masking a count with its width and with that of the operand agree then.
* `X64ControlProofs`, for every cell size, stack size and set of operands: `TypeOK`
  with `FramesOK` in it, return addresses lie apart and above `rsp`, which is the
  inductive invariant; `ReturnsWhereCalled`, that every step is a step of the call
  stack or a stutter, because the cells of a frame change only when it is made
  (a push writes below `rsp`, hence below every frame); and `OperandsBeforePush`.
  The lemmas under them say that reading back what was written gives the value
  modulo its width, and that writes elsewhere do not change a read.
* `X64RFlagsProofs`, for all images and bounds: `TypeOK`; `NoForbiddenBit`, which
  is inductive because each mask either keeps a bit that is 0 or cannot let it
  in; `PrivilegeUntilSyscall`, likewise with the history variable `syscalled`; and
  `SavedFlagsComeBack`, from `Remembered`: every unit of the stack that has an
  origin agrees with its part of it on the flags a guest can see, r11 holds the
  flags of the last system call, and AH those of the last LAHF. Pushes and pops
  of both widths keep it, a word of the guest's own has no origin.
* `X64DecodeProofs`, for all sets of bytes and every `MaxPrefixes` up to the 13 that
  `desc.bytes` has room for: `TypeOK`, `TraceFits`, `OperandsFetched` and the
  refinement `DeliversInstructions`. The length of an instruction is bounded only
  through what is still to be fetched, so the inductive invariant, `Budget`, bounds it by the
  prefixes and a number that depends on the phase; it is strengthened with
  what each phase knows of the fields fetched so far. The other two rest on
  `Shape`: what has been fetched of the current instruction is what the decoder's
  table asks for up to the phase, which for each opcode is what the opcode map
  asks for unless the instruction is `Misread`; then the two lengths differ
  (`FetchedWellFormed` has both directions). The step to "execute" delivers one of
  the stream's instructions, the step after it retires it, every other step is a
  stutter.
* `X64StackProofs`, for all strings, alignments and hosts: `NothingOverwritten`,
  from the invariant that whatever has been written lies at or above `rsp`, and
  `EntryAlignment`, from counting the words still to be pushed after the last
  alignment, modulo 16. `ArgumentBlock` and `AuxiliaryVector` need what the
  words point to before they are pushed: `Strung` (the pointers collected so far
  begin the strings they are for), `Errno` (what the probes have left) and `Blocks`
  (how far down argv, envp and auxv have been written, as the pushes go
  backwards, with the words above in place). `TypeOK` bounds `rsp` from below,
  which the code does not check: the theorem assumes `RoomFor(m)`, that the
  strings have at most m bytes and the stack has room for all of them and the
  words; the code maps one GiB (`stack.c:25`).
* `X64MovesProofs`, for all sizes, encodings, pointers and memories: `TypeOK`,
  `MovesAgree` and `LanesAgree`. The invariant adds to `TypeOK` that the last STOS,
  if it was the last instruction, started where rdi points (`LastStos`). An
  instruction is a run of copies; `RunSteps` says that a run passes through one
  store for each copy, and `Put` describes what a copy has done to a place as bytes
  that are new in a frame that is kept. Operands are the same place or lie `Apart`
  (`GprPlaces`, `XmmPlaces`, `MmxPlaces`: two registers, or a register and memory),
  which is what makes the order of the copies of XCHG, of an extension and of a
  duplication come out right or wrong as the reference says. STOS of any count
  is by induction over the elements stored (`Stored`); an interleave over the lanes
  written: a high interleave never reads a lane it has written (`HighDone`), a low
  one does, and the lane it repeats is already final (`LowDone`). `IndirectAgrees`
  shows the addresses to be the sums of their parts modulo `Size`, of which the
  32- and 16-bit ones are parts (SizesAssumption: each size divides the next).
  EncodingsAssumption says that the fields of an encoding are as the bytes hold
  them and that it names registers that are numbers, PointersAssumption that the
  numbers are at first less than `Size`.
* `Flux64Proofs`, first about the loader alone, for every set of program header
  tables, file length and page size that satisfies the assumptions: `LoaderTypeOK`, `MappingsRecorded`,
  `FileClosed`, `RefusedForAReason` and `ImageComplete`. The invariant says three things more: the
  segment being loaded is a loadable header; as many segments are recorded as
  loadable headers have been passed (so that the array is filled and never
  exceeded); and the mapped addresses are those of the recorded segments and of
  the one being loaded, or, after a failure, of the header it stopped at. The last needs that reading and extending a segment
  stay in its alignment block, which is monotonicity of division by the page
  size. Without an array the loader cannot record and cannot have loaded. For
  `ImageComplete`, `ImageInv` says of every segment passed that its bytes, zeros and
  rights are in place, of the current one what the phase has done of it, and of
  all other addresses that they are free; a segment's calls touch only its own
  block, and blocks are disjoint. That the modelled addresses are whole pages
  (`Addresses % PageSize = 0`) is part of SizesAssumption.
* `Flux64Proofs` about the process, for every set of binaries and statuses: `TypeOK`,
  `RunsWhenLoaded`, `UnmapsOnlyMapped`, `ReleasesEverything` and `ExitStatus`, from
  `ProcessInv`: up to the release the loader's invariants hold as they are; in the
  middle of `segments_free` the mapped addresses are exactly those of the blocks
  still to come and of those passed whose `munmap` failed (`Kept`, `Gone`), less
  what a later, overlapping `munmap` has taken away.

Only model-checked, as out of the prover's reach: the liveness properties
`LoaderReturns` and `ProcessEnds`. Every other property that a passing run checks
is the property of a theorem. The three runs that end in a violation are about
statements the code does not keep.

## 6. Not modelled

* Malformed ELF files (`filesz > memsz`, an entry size other than that of
  `Elf64_Phdr`, a table beyond the file, a `p_align` that is neither 0 nor a power
  of two): TablesAssumption. A wrong header is one outcome with an unreadable one.
  The refusal of a context that has segments already (`elfloader.c:107-110`):
  `main` loads once, into a zeroed context.
* LEA of a register operand (mod = 3), which the architecture does not define.
  Instructions with 14 and more legacy prefixes, which write beyond `desc.bytes`.
* Segments mapped over the stack, and the choice of the stack's address.
* The whole machine at once: X64Arith, X64Bits, X64RFlags, X64Control and X64Moves
  share registers in the code and are models of their own here. What one leaves
  to another is an arbitrary input: the operands and counts of X64Arith and
  X64Bits, the images of X64RFlags, the immediates of X64Control. Instructions
  that rewrite themselves, and guests that store over their return addresses or
  return in another width than they called, are in none of them.
* An operand of X64Moves that ends beyond the guest's memory half-way: it faults
  before the first byte is written.
* Text: log lines, the contents of strings and of the random bytes; the result
  and the arguments of `write`; reading `/proc/self/maps`.

## 7. Plan

Done: all modules of section 2 and the proofs of section 5. Next:

1. Decoder and executor composed, `rip` after each instruction being what the
   next fetch reads, which would join X64Decode with X64Control.
2. An abstract loader, for which a binary is loaded whole or refused in one step,
   and a proof that ElfLoader refines it.
