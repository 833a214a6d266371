------------------------------ MODULE X64Stack ------------------------------
(***************************************************************************)
(* The initial stack of the guest: x64emu_init and x64stack_setup build it *)
(* downwards from the top of the mapping, one push at a time.              *)
(*                                                                         *)
(* Memory is the set of the objects written, each with its address, its    *)
(* size and what it holds.  A pointer is a word that holds an address;     *)
(* the text of a string and the values the host reports stay symbolic.     *)
(***************************************************************************)
EXTENDS Integers, Sequences, FiniteSets

CONSTANTS
    Top,         \* stack.base + stack.size
    MaxArgs,     \* bound on argc
    MaxEnvs,     \* bound on envc
    StringSizes, \* sizes of the argument strings, terminator included
    HostAuxv     \* the auxv types that getauxval may know on a host

ASSUME TopAssumption == Top \in Nat /\ Top % 16 = 0
ASSUME BoundsAssumption == MaxArgs \in Nat \ {0} /\ MaxEnvs \in Nat
ASSUME StringSizesAssumption == StringSizes \subseteq Nat \ {0}
ASSUME HostAuxvAssumption == HostAuxv \subseteq SUBSET Nat

VARIABLES
    args, envs,     \* sizes of the strings of ctx->argv and ctx->envv
    host,           \* the auxv types this host knows
    errnoAtStart,   \* history: errno was ENOENT when the setup began
    pc,             \* the loop or push x64stack_setup is at
    i,              \* its loop counter
    rsp,
    mem,            \* the objects on the stack
    argvp, envvp,   \* p_argv, p_envv
    platform,       \* platform_string
    random,         \* random_16
    enoent,         \* errno = ENOENT
    regs            \* rdi, rsi and rdx

inputs == <<args, envs, host, errnoAtStart>>
vars == <<inputs, pc, i, rsp, mem, argvp, envvp, platform, random, enoent, regs>>

argc == Len(args)
envc == Len(envs)

\* Values of eight bytes, and of other objects.
Word(n) == <<"word", n>>
Host(type) == <<"host", type>>

AT_NULL == 0
AT_PAGESZ == 6
AT_FLAGS == 8
AT_ENTRY == 9
AT_UID == 11
AT_EUID == 12
AT_GID == 13
AT_EGID == 14
AT_PLATFORM == 15
AT_SECURE == 23
AT_RANDOM == 25
AT_EXECFN == 31

\* The pushes of auxv entries, in their order.
AuxvPlan == <<AT_NULL, AT_PAGESZ, AT_FLAGS, AT_ENTRY, AT_UID, AT_EUID, AT_GID, AT_EGID,
              AT_PLATFORM, AT_SECURE, AT_RANDOM, AT_EXECFN>>

\* Those that push_real_auxv takes from the host.
Real == {AT_PAGESZ, AT_FLAGS, AT_UID, AT_EUID, AT_GID, AT_EGID, AT_SECURE}

-----------------------------------------------------------------------------
(* stack_private.h *)

Object(at, size, val) == [at |-> at, size |-> size, val |-> val]

\* push_string, push_32, push_64: rsp moves down, the object is written there.
Push(size, val) ==
    /\ rsp' = rsp - size
    /\ mem' = mem \cup {Object(rsp - size, size, val)}

\* Mutant: rsp is moved for one of the two words.
PushPair_OneWord(val, type) ==
    /\ rsp' = rsp - 8
    /\ mem' = mem \cup {Object(rsp - 8, 8, val), Object(rsp - 16, 8, Word(type))}

\* push_auxv: the value, then below it the type.
PushPair(val, type) ==
    /\ rsp' = rsp - 16
    /\ mem' = mem \cup {Object(rsp - 8, 8, val), Object(rsp - 16, 8, Word(type))}

\* Mutant: the padding is written above the old stack pointer.
PushAlign_Above ==
    LET aligned == rsp - (rsp % 16)
    IN  /\ rsp' = aligned
        /\ mem' = IF aligned = rsp THEN mem
                  ELSE mem \cup {Object(rsp, rsp - aligned, <<"zero", 0>>)}

\* Mutant: aligned for words only.
PushAlign_Word ==
    LET aligned == rsp - (rsp % 8)
    IN  /\ rsp' = aligned
        /\ mem' = IF aligned = rsp THEN mem
                  ELSE mem \cup {Object(aligned, rsp - aligned, <<"zero", 0>>)}

\* push_align.
PushAlign ==
    LET aligned == rsp - (rsp % 16)
    IN  /\ rsp' = aligned
        /\ mem' = IF aligned = rsp THEN mem
                  ELSE mem \cup {Object(aligned, rsp - aligned, <<"zero", 0>>)}

\* Mutant: the result of getauxval is checked against a cleared errno.
AuxvDropped_Cleared(type) == type \notin host

\* errno != ENOENT is asked after getauxval, which only ever sets it.
AuxvDropped(type) == enoent \/ type \notin host

-----------------------------------------------------------------------------
(* x64stack_setup *)

\* Loops leave for the next statement when they run out.
At(p) == pc = p
Goto(p, n) == pc' = p /\ i' = n

PushArgv ==
    /\ At("argv")
    /\ IF i <= argc
       THEN /\ Push(args[i], <<"argv", i>>)
            /\ argvp' = Append(argvp, rsp')
            /\ Goto("argv", i + 1)
       ELSE Goto("envv", 1) /\ UNCHANGED <<rsp, mem, argvp>>
    /\ UNCHANGED <<inputs, envvp, platform, random, enoent, regs>>

PushEnvv ==
    /\ At("envv")
    /\ IF i <= envc
       THEN /\ Push(envs[i], <<"envv", i>>)
            /\ envvp' = Append(envvp, rsp')
            /\ Goto("envv", i + 1)
       ELSE Goto("platform", 1) /\ UNCHANGED <<rsp, mem, envvp>>
    /\ UNCHANGED <<inputs, argvp, platform, random, enoent, regs>>

\* "x86_64"
PushPlatform ==
    /\ At("platform")
    /\ Push(7, <<"platform", 0>>)
    /\ platform' = rsp'
    /\ Goto("random", 1)
    /\ UNCHANGED <<inputs, argvp, envvp, random, enoent, regs>>

PushRandom ==
    /\ At("random")
    /\ Push(4, <<"random", i>>)
    /\ random' = rsp'
    /\ IF i < 4 THEN Goto("random", i + 1) ELSE Goto("align", 1)
    /\ UNCHANGED <<inputs, argvp, envvp, platform, enoent, regs>>

Align ==
    /\ At("align")
    /\ PushAlign
    /\ Goto("auxv", 1)
    /\ UNCHANGED <<inputs, argvp, envvp, platform, random, enoent, regs>>

\* What x64stack_setup passes to push_auxv itself.
OwnAuxv(type) ==
    CASE type = AT_NULL -> Word(0)
      [] type = AT_ENTRY -> <<"entry", 0>>
      [] type = AT_PLATFORM -> Word(platform)
      [] type = AT_RANDOM -> Word(random)
      [] type = AT_EXECFN -> Word(argvp[1])

PushAuxv ==
    /\ At("auxv")
    /\ LET type == AuxvPlan[i]
       IN  IF type \in Real
           THEN /\ enoent' = (enoent \/ type \notin host)
                /\ IF AuxvDropped(type) THEN UNCHANGED <<rsp, mem>>
                                        ELSE PushPair(Host(type), type)
           ELSE PushPair(OwnAuxv(type), type) /\ UNCHANGED enoent
    /\ IF i < Len(AuxvPlan) THEN Goto("auxv", i + 1) ELSE Goto("envp", envc + 1)
    /\ UNCHANGED <<inputs, argvp, envvp, platform, random, regs>>

\* The NULL, then the pointers, last one first.
PushEnvp ==
    /\ At("envp")
    /\ Push(8, IF i = envc + 1 THEN Word(0) ELSE Word(envvp[i]))
    /\ IF i > 1 THEN Goto("envp", i - 1) ELSE Goto("argp", argc + 1)
    /\ UNCHANGED <<inputs, argvp, envvp, platform, random, enoent, regs>>

PushArgp ==
    /\ At("argp")
    /\ Push(8, IF i = argc + 1 THEN Word(0) ELSE Word(argvp[i]))
    /\ IF i > 1 THEN Goto("argp", i - 1) ELSE Goto("argc", 1)
    /\ UNCHANGED <<inputs, argvp, envvp, platform, random, enoent, regs>>

PushArgc ==
    /\ At("argc")
    /\ Push(8, Word(argc))
    /\ Goto("regs", 1)
    /\ UNCHANGED <<inputs, argvp, envvp, platform, random, enoent, regs>>

\* Mutant: the terminator of argv is forgotten in the address of envp.
InitRegs_NoTerminator ==
    /\ At("regs")
    /\ regs' = [rdi |-> argc, rsi |-> rsp + 8, rdx |-> rsp + 8 + 8 * argc]
    /\ Goto("done", 1)
    /\ UNCHANGED <<inputs, rsp, mem, argvp, envvp, platform, random, enoent>>

\* The rest of x64emu_init.
InitRegs ==
    /\ At("regs")
    /\ regs' = [rdi |-> argc, rsi |-> rsp + 8, rdx |-> rsp + 8 + 8 * (argc + 1)]
    /\ Goto("done", 1)
    /\ UNCHANGED <<inputs, rsp, mem, argvp, envvp, platform, random, enoent>>

-----------------------------------------------------------------------------
Strings(least, most) == UNION {[1 .. n -> StringSizes] : n \in least .. most}

Init ==
    /\ args \in Strings(1, MaxArgs)
    /\ envs \in Strings(0, MaxEnvs)
    /\ host \in HostAuxv
    /\ errnoAtStart \in BOOLEAN
    /\ enoent = errnoAtStart
    /\ pc = "argv" /\ i = 1
    /\ rsp = Top /\ mem = {}
    /\ argvp = <<>> /\ envvp = <<>> /\ platform = 0 /\ random = 0
    /\ regs = [rdi |-> 0, rsi |-> 0, rdx |-> 0]

Next ==
    \/ PushArgv \/ PushEnvv \/ PushPlatform \/ PushRandom \/ Align
    \/ PushAuxv \/ PushEnvp \/ PushArgp \/ PushArgc \/ InitRegs

Spec == Init /\ [][Next]_vars

-----------------------------------------------------------------------------
TypeOK ==
    /\ pc \in {"argv", "envv", "platform", "random", "align", "auxv",
               "envp", "argp", "argc", "regs", "done"}
    /\ i \in 0 .. Len(AuxvPlan) + MaxArgs + MaxEnvs
    /\ rsp \in 0 .. Top
    /\ \A o \in mem : o.at \in rsp .. Top /\ o.size \in Nat \ {0}
    /\ argvp \in Seq(0 .. Top) /\ Len(argvp) <= argc
    /\ envvp \in Seq(0 .. Top) /\ Len(envvp) <= envc
    /\ platform \in 0 .. Top /\ random \in 0 .. Top
    /\ enoent \in BOOLEAN

\* Nothing that was pushed is overwritten by a later push, by the padding of
\* push_align or by the 16-byte auxv entries (stack_private.h:16-47).
NothingOverwritten ==
    \A o, p \in mem : o # p => o.at + o.size <= p.at \/ p.at + p.size <= o.at

\* What a read of eight bytes, or of a string, at an address finds.
Load(addr) == {o.val : o \in {o \in mem : o.at = addr /\ o.size = 8}}
Points(addr, val) == \E o \in mem : o.val = val /\ Load(addr) = {Word(o.at)}

\* The block the guest's start code walks (System V ABI, figure 3.9): argc at
\* rsp, the pointers to the arguments at rsi, those to the environment at
\* rdx, each array followed by a null pointer.
ArgumentBlock ==
    pc = "done" =>
        /\ Load(rsp) = {Word(argc)} /\ regs.rdi = argc
        /\ \A k \in 1 .. argc : Points(regs.rsi + 8 * (k - 1), <<"argv", k>>)
        /\ \A k \in 1 .. envc : Points(regs.rdx + 8 * (k - 1), <<"envv", k>>)
        /\ Load(regs.rsi + 8 * argc) = {Word(0)} /\ Load(regs.rdx + 8 * envc) = {Word(0)}

\* The k-th auxv entry of the guest, counted from 0.
AuxvAt(k) == regs.rdx + 8 * (envc + 1) + 16 * k
AuxvType(k) == {t \in 0 .. 31 : Load(AuxvAt(k)) = {Word(t)}}

\* What is delivered of the plan, given that errno is never cleared: a real
\* entry only if no earlier one was unknown and errno was clear at the start.
Delivered(k) ==
    \/ AuxvPlan[k] \notin Real
    \/ ~errnoAtStart /\ \A j \in 1 .. k : AuxvPlan[j] \in Real => AuxvPlan[j] \in host

Deliveries == Cardinality({k \in 1 .. Len(AuxvPlan) : Delivered(k)})

\* The auxiliary vector: the entries of the plan in reverse, exactly those
\* that could be delivered, each with its value, AT_NULL last and once.
AuxiliaryVector ==
    pc = "done" =>
        /\ AuxvType(Deliveries - 1) = {AT_NULL}
        /\ \A k \in 1 .. Len(AuxvPlan) :
              LET type == AuxvPlan[k]
                  rank == Cardinality({j \in k + 1 .. Len(AuxvPlan) : Delivered(j)})
              IN  Delivered(k) =>
                    /\ AuxvType(rank) = {type}
                    /\ type \in Real => Load(AuxvAt(rank) + 8) = {Host(type)}
        /\ \E k \in 0 .. Deliveries - 1 : AuxvType(k) = {AT_PLATFORM}
              /\ Points(AuxvAt(k) + 8, <<"platform", 0>>)
        /\ \E k \in 0 .. Deliveries - 1 : AuxvType(k) = {AT_RANDOM}
              /\ Points(AuxvAt(k) + 8, <<"random", 4>>)
        /\ \E k \in 0 .. Deliveries - 1 : AuxvType(k) = {AT_EXECFN}
              /\ Points(AuxvAt(k) + 8, <<"argv", 1>>)

\* push_align aligns the strings' end to 16 bytes, but the words between
\* there and rsp are argc, envc and three more: the guest starts on a stack
\* aligned to 16 only if argc + envc is odd (stack.c:92, stack.c:137-147).
EntryAlignment ==
    pc = "done" => rsp % 16 = (IF (argc + envc) % 2 = 1 THEN 0 ELSE 8)
=============================================================================
