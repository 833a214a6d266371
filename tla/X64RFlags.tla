----------------------------- MODULE X64RFlags -----------------------------
(***************************************************************************)
(* The life of RFLAGS under every instruction that moves it as a whole:    *)
(* PUSHF, POPF, LAHF, SAHF and SYSCALL, with the direct writes of single   *)
(* flags between them and a guest that pushes images of its own.           *)
(*                                                                         *)
(* The guest's stack is a sequence of 16-bit units, the top one last, and  *)
(* an image is the set of the bits that are 1.  `origin` is a history      *)
(* variable parallel to `stack`: what each unit is a part of.  Likewise    *)
(* ahOrigin and entryFlags remember what AH and R11 were taken from.  RAX  *)
(* beyond AH, RCX and RIP are left out: no flag is ever computed from them.*)
(***************************************************************************)
EXTENDS X64Flags, Sequences

CONSTANTS
    Images,      \* 64-bit values the guest pushes or loads
    StatusSets,  \* status flags an arithmetic instruction leaves
    MaxUnits,    \* bound on the depth of the guest stack
    MaxInstrs    \* bound on the instructions of a run

ASSUME ImagesAssumption == Images \subseteq SUBSET (0 .. 63)
ASSUME StatusSetsAssumption == StatusSets \subseteq SUBSET Status
ASSUME BoundsAssumption == MaxUnits \in Nat /\ MaxInstrs \in Nat

VARIABLES
    running,     \* FALSE once x64emu_run returned or the guest exited
    flags,       \* emu->flags
    ah,          \* r_ah
    r11,         \* r_r11
    stack,       \* the guest stack
    instrs,      \* instructions executed, for the bound alone
    syscalled,   \* history: a SYSCALL was executed
    origin,      \* history: per unit, <<flags it images, which quarter>>
    ahOrigin,    \* history: the flags LAHF read, or Nothing
    entryFlags   \* history: the flags the last SYSCALL read, or Nothing

cpu == <<flags, ah, r11, stack>>
history == <<syscalled, origin, ahOrigin, entryFlags>>
vars == <<running, cpu, history, instrs>>

Nothing == {64}          \* no image: a register has no bit 64
NoOrigin == <<Nothing, 0>>

AllBits == 0 .. 63
Byte == 0 .. 7
Unit == 0 .. 15

-----------------------------------------------------------------------------
(* The masks of execute.c and syscall.c. *)

\* Mutant: the mask one digit off, 0xF8FFFF.
PushfqMask_LosesAC == (0 .. 15) \cup (19 .. 23)

PushfqMask == (0 .. 15) \cup (18 .. 23)                 \* 0xFCFFFF
\* Mutant: the low word taken whole, as the 16-bit PUSHF stores it.
PopfUpdated_WholeWord == 0 .. 15

PopfUpdated == {CF, PF, AF, ZF, SF, TF, IF_, DF, OF, NT} \* 0x4fd5
\* Mutant: IOPL forgotten among the preserved bits, 0xfffe802a.
PopfPreserved_NoIopl == {1, 3, 5, 15} \cup 17 .. 63

PopfPreserved == {1, 3, 5, 15} \cup IOPL \cup 17 .. 63   \* 0xfffeb02a
PopfqUpdated == PopfUpdated \cup {AC, ID}                \* 0x244fd5
PopfqPreserved == PopfPreserved \ {AC, ID}               \* 0xffdab02a
AhMask == {CF, PF, AF, ZF, SF}                           \* 0xD5

-----------------------------------------------------------------------------
(* Pushing and popping images. *)

Quarter(image, i) == {b \in Unit : b + 16 * i \in image}

Push16(image, of) ==
    /\ Len(stack) + 1 <= MaxUnits
    /\ stack' = Append(stack, Quarter(image, 0))
    /\ origin' = Append(origin, <<of, 0>>)

\* The low quarter has the lowest address: it ends on top.
Push64(image, of) ==
    /\ Len(stack) + 4 <= MaxUnits
    /\ stack' = stack \o [i \in 1 .. 4 |-> Quarter(image, 4 - i)]
    /\ origin' = origin \o [i \in 1 .. 4 |-> <<of, 4 - i>>]

Drop(s, n) == SubSeq(s, 1, Len(s) - n)

Pop(n) ==
    /\ stack' = Drop(stack, n)
    /\ origin' = Drop(origin, n)

Top16 == stack[Len(stack)]
Top64 == {b \in AllBits : b % 16 \in stack[Len(stack) - b \div 16]}

\* The flags the popped units are the image of, when they are one image.
OriginOf(n) ==
    LET top == Len(origin)
        of  == origin[top][1]
    IN  IF \A i \in 0 .. n - 1 : origin[top - i] = <<of, i>> THEN of ELSE Nothing

-----------------------------------------------------------------------------
(* The instructions.  Each is one pass of x64emu_run's loop. *)

Keeping(v) == running /\ UNCHANGED <<running, v>>

Pushf ==
    /\ Keeping(<<flags, ah, r11, syscalled, ahOrigin, entryFlags>>)
    /\ Push16(flags, flags)

Pushfq ==
    /\ Keeping(<<flags, ah, r11, syscalled, ahOrigin, entryFlags>>)
    /\ Push64(flags \cap PushfqMask, flags)

Popf ==
    /\ Keeping(<<ah, r11, syscalled, ahOrigin, entryFlags>>)
    /\ Len(stack) >= 1
    /\ flags' = (flags \cap PopfPreserved) \cup (Top16 \cap PopfUpdated)
    /\ Pop(1)

Popfq ==
    /\ Keeping(<<ah, r11, syscalled, ahOrigin, entryFlags>>)
    /\ Len(stack) >= 4
    /\ flags' = (flags \cap PopfqPreserved) \cup (Top64 \cap PopfqUpdated)
    /\ Pop(4)

Sahf ==
    /\ Keeping(<<ah, r11, stack, history>>)
    /\ flags' = (flags \ AhMask) \cup (ah \cap AhMask)

\* Mutant: LAHF without the cast to a byte.
Lahf_NoCast ==
    /\ Keeping(<<flags, r11, stack, syscalled, origin, entryFlags>>)
    /\ ah' = flags \cup {FixedBit}
    /\ ahOrigin' = flags

Lahf ==
    /\ Keeping(<<flags, r11, stack, syscalled, origin, entryFlags>>)
    /\ ah' = (flags \cap AhMask) \cup {FixedBit}
    /\ ahOrigin' = flags

\* CLI and STI, CLD and STD: f_IF = op & 1, f_DF = op & 1
SetBit(bit, op) ==
    /\ Keeping(<<ah, r11, stack, history>>)
    /\ flags' = (flags \ {bit}) \cup When(op % 2 = 1, bit)

\* The arithmetic instructions write status flags and nothing else.
Arithmetic ==
    /\ Keeping(<<ah, r11, stack, history>>)
    /\ \E set \in StatusSets : flags' = (flags \ Status) \cup set

PushImage ==
    /\ Keeping(<<flags, ah, r11, syscalled, ahOrigin, entryFlags>>)
    /\ \E image \in Images : Push16(image, Nothing) \/ Push64(image, Nothing)

PushR11 ==
    /\ Keeping(<<flags, ah, r11, syscalled, ahOrigin, entryFlags>>)
    /\ Push64(r11, entryFlags)

LoadAh ==
    /\ Keeping(<<flags, r11, stack, syscalled, origin, entryFlags>>)
    /\ \E image \in Images : ah' = image \cap Byte
    /\ ahOrigin' = Nothing

(* x64syscall: SYS_write puts its result in RAX, so in AH, and goes on;    *)
(* SYS_exit and a number it does not implement end the run.                *)
EnterKernel ==
    /\ r11' = flags
    /\ flags' = {}
    /\ syscalled' = TRUE
    /\ entryFlags' = flags
    /\ UNCHANGED <<stack, origin>>

SysWrite ==
    /\ Keeping(<<>>)
    /\ EnterKernel
    /\ \E image \in Images : ah' = image \cap Byte
    /\ ahOrigin' = Nothing

SysStop ==
    /\ running
    /\ running' = FALSE
    /\ EnterKernel
    /\ UNCHANGED <<ah, ahOrigin>>

-----------------------------------------------------------------------------
\* x64emu_init, on an emulator whose memory is zero.
Init ==
    /\ running = TRUE
    /\ flags = {FixedBit} \cup IOPL
    /\ ah = {} /\ r11 = {} /\ stack = <<>>
    /\ instrs = 0
    /\ syscalled = FALSE
    /\ origin = <<>> /\ ahOrigin = Nothing /\ entryFlags = Nothing

Instruction ==
    \/ Pushf \/ Pushfq \/ Popf \/ Popfq
    \/ Sahf \/ Lahf
    \/ \E bit \in {IF_, DF}, op \in {0, 1} : SetBit(bit, op)
    \/ Arithmetic
    \/ PushImage \/ PushR11 \/ LoadAh
    \/ SysWrite \/ SysStop

Next ==
    /\ instrs < MaxInstrs
    /\ instrs' = instrs + 1
    /\ Instruction

Spec == Init /\ [][Next]_vars

-----------------------------------------------------------------------------
TypeOK ==
    /\ running \in BOOLEAN /\ syscalled \in BOOLEAN
    /\ instrs \in 0 .. MaxInstrs
    /\ flags \subseteq AllBits /\ r11 \subseteq AllBits
    /\ ah \subseteq Byte
    /\ stack \in Seq(SUBSET Unit)
    /\ Len(origin) = Len(stack) /\ Len(stack) <= MaxUnits

(* Whatever the guest pushes and pops, no bit it may not write is ever 1:  *)
(* the reserved bits, RF, VM, VIF and VIP (the masks of POPF and SAHF).    *)
NoForbiddenBit ==
    flags \cap (Reserved \cup {RF, VM, VIF, VIP}) = {}

(* Bit 1 and IOPL are 1 together until the first SYSCALL clears them, and  *)
(* no POPF of any image brings them back, or removes them, on its own.     *)
PrivilegeUntilSyscall ==
    flags \cap ({FixedBit} \cup IOPL)
        = IF syscalled THEN {} ELSE {FixedBit} \cup IOPL

\* The flags user code may change with POPF at I/O privilege level 3.
UserFlags == Status \cup {TF, IF_, DF, NT, AC, ID}
ShortFlags == UserFlags \cap Unit

RestoresOnly(set, saved) ==
    /\ flags' \cap set = saved \cap set
    /\ flags' \ set = flags \ set

(* A guest that saves its flags gets them back: POPF of what PUSHF pushed, *)
(* or of the R11 that SYSCALL filled, restores every flag user code owns   *)
(* and touches no other, however many instructions and SYSCALLs ran in     *)
(* between; SAHF restores what LAHF read.                                  *)
SavedFlagsComeBack ==
    [][/\ Popfq /\ OriginOf(4) # Nothing => RestoresOnly(UserFlags, OriginOf(4))
       /\ Popf /\ OriginOf(1) # Nothing => RestoresOnly(ShortFlags, OriginOf(1))
       /\ Sahf /\ ahOrigin # Nothing => RestoresOnly(Status \ {OF}, ahOrigin)]_vars
=============================================================================
