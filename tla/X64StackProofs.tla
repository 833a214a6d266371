--------------------------- MODULE X64StackProofs ---------------------------
(***************************************************************************)
(* Proofs about X64Stack, for any number and size of strings, any host and *)
(* any top of the stack.                                                   *)
(***************************************************************************)
EXTENDS X64Stack, FiniteSetTheorems, TLAPS

Sizes == Nat \ {0}

\* Strings have sizes, and the loops over them stay in range.
Counters ==
    /\ args \in Seq(Sizes) /\ envs \in Seq(Sizes)
    /\ i \in Nat
    /\ pc \in {"argv", "envv"} => i >= 1

\* Everything on the stack is at rsp or above, and nothing overlaps.
Apart ==
    /\ rsp \in Int
    /\ \A o \in mem : o.at \in Int /\ o.size \in Int /\ o.at >= rsp
    /\ NothingOverwritten

-----------------------------------------------------------------------------
(* The pushes. *)

LEMMA StringsAreSequences ==
    ASSUME NEW least \in Nat, NEW most \in Nat
    PROVE  Strings(least, most) \subseteq Seq(Sizes)
<1>1. SUFFICES ASSUME NEW n \in least .. most, NEW s \in [1 .. n -> StringSizes]
               PROVE  s \in Seq(Sizes)
  BY DEF Strings
<1>2. n \in Nat /\ StringSizes \subseteq Sizes
  BY StringSizesAssumption DEF Sizes
<1>3. s \in [1 .. n -> Sizes]
  BY <1>2
<1> QED
  BY <1>2, <1>3

LEMMA PushKeepsApart ==
    ASSUME Apart, NEW size \in Sizes, NEW val, Push(size, val)
    PROVE  Apart'
<1> DEFINE new == Object(rsp - size, size, val)
<1>1. /\ rsp \in Int /\ size \in Int /\ size > 0
      /\ rsp' = rsp - size /\ mem' = mem \cup {new}
  BY DEF Apart, Push, Sizes
<1>2. new.at = rsp - size /\ new.size = size
  BY DEF Object
<1>3. \A o \in mem : o.at \in Int /\ o.size \in Int /\ o.at >= rsp
  BY DEF Apart
<1> HIDE DEF new
<1>4. \A o \in mem' : o.at \in Int /\ o.size \in Int /\ o.at >= rsp'
  BY <1>1, <1>2, <1>3
<1>5. ASSUME NEW o \in mem', NEW p \in mem', o # p
      PROVE  o.at + o.size <= p.at \/ p.at + p.size <= o.at
  <2>1. CASE o \in mem /\ p \in mem
    BY <1>5, <2>1 DEF Apart, NothingOverwritten
  <2>2. CASE o = new /\ p \in mem
    BY <1>1, <1>2, <1>3, <2>2
  <2>3. CASE o \in mem /\ p = new
    BY <1>1, <1>2, <1>3, <2>3
  <2> QED
    BY <1>1, <1>5, <2>1, <2>2, <2>3
<1> QED
  BY <1>1, <1>4, <1>5 DEF Apart, NothingOverwritten

LEMMA PushPairIsTwoPushes ==
    ASSUME Apart, NEW val, NEW type, PushPair(val, type)
    PROVE  Apart'
<1> DEFINE high == Object(rsp - 8, 8, val)
           low == Object(rsp - 16, 8, Word(type))
<1>1. rsp \in Int /\ rsp' = rsp - 16 /\ mem' = mem \cup {high, low}
  BY DEF Apart, PushPair
<1>2. /\ high.at = rsp - 8 /\ high.size = 8
      /\ low.at = rsp - 16 /\ low.size = 8
  BY DEF Object
<1>3. \A o \in mem : o.at \in Int /\ o.size \in Int /\ o.at >= rsp
  BY DEF Apart
<1> HIDE DEF high, low
<1>4. \A o \in mem' : o.at \in Int /\ o.size \in Int /\ o.at >= rsp'
  BY <1>1, <1>2, <1>3
<1>5. ASSUME NEW o \in mem', NEW p \in mem', o # p
      PROVE  o.at + o.size <= p.at \/ p.at + p.size <= o.at
  <2>1. CASE o \in mem /\ p \in mem
    BY <1>5, <2>1 DEF Apart, NothingOverwritten
  <2>2. CASE o \in {high, low} /\ p \in mem
    BY <1>1, <1>2, <1>3, <2>2
  <2>3. CASE o \in mem /\ p \in {high, low}
    BY <1>1, <1>2, <1>3, <2>3
  <2>4. CASE o \in {high, low} /\ p \in {high, low}
    BY <1>1, <1>2, <1>5, <2>4
  <2> QED
    BY <1>1, <1>5, <2>1, <2>2, <2>3, <2>4
<1> QED
  BY <1>1, <1>4, <1>5 DEF Apart, NothingOverwritten

LEMMA PushAlignPads ==
    ASSUME Apart, PushAlign
    PROVE  Apart' /\ rsp' % 16 = 0
<1> DEFINE aligned == rsp - (rsp % 16)
           pad == <<"zero", 0>>
<1>1. rsp \in Int
  BY DEF Apart
<1>2. aligned \in Int /\ aligned <= rsp /\ aligned % 16 = 0
  BY <1>1
<1>3. rsp' = aligned
  BY DEF PushAlign
<1>4. CASE aligned = rsp
  <2>1. mem' = mem /\ rsp' = rsp
    BY <1>3, <1>4 DEF PushAlign
  <2> QED
    BY <2>1, <1>2, <1>3 DEF Apart, NothingOverwritten
<1>5. CASE aligned # rsp
  <2>1. mem' = mem \cup {Object(aligned, rsp - aligned, pad)}
    BY <1>5 DEF PushAlign
  <2>2. rsp - aligned \in Sizes /\ aligned = rsp - (rsp - aligned)
    BY <1>1, <1>2, <1>5 DEF Sizes
  <2>3. Push(rsp - aligned, pad)
    BY <1>3, <2>1, <2>2 DEF Push
  <2>4. Apart'
    BY <2>2, <2>3, PushKeepsApart
  <2> QED
    BY <2>4, <1>2, <1>3
<1> QED
  BY <1>4, <1>5

-----------------------------------------------------------------------------
(* Nothing that was pushed is overwritten. *)

Layout == Counters /\ Apart

LEMMA LayoutInit == Init => Layout
<1> SUFFICES ASSUME Init PROVE Layout
  OBVIOUS
<1>1. args \in Seq(Sizes) /\ envs \in Seq(Sizes)
  <2>1. 0 \in Nat /\ 1 \in Nat /\ MaxArgs \in Nat /\ MaxEnvs \in Nat
    BY BoundsAssumption
  <2>2. Strings(1, MaxArgs) \subseteq Seq(Sizes) /\ Strings(0, MaxEnvs) \subseteq Seq(Sizes)
    BY <2>1, StringsAreSequences
  <2> QED
    BY <2>2 DEF Init
<1>2. i = 1 /\ pc = "argv" /\ rsp = Top /\ mem = {}
  BY DEF Init
<1> QED
  BY <1>1, <1>2, TopAssumption DEF Layout, Counters, Apart, NothingOverwritten

\* What the statements of the set-up do to memory.
LEMMA StackMoves ==
    ASSUME Layout, Next
    PROVE  \/ \E size \in Sizes : \E val : Push(size, val)
           \/ \E val, type : PushPair(val, type)
           \/ PushAlign
           \/ UNCHANGED <<rsp, mem>>
<1> USE DEF At, Goto
<1>1. 4 \in Sizes /\ 7 \in Sizes /\ 8 \in Sizes
  BY DEF Sizes
<1>2. CASE PushArgv
  <2>1. CASE i <= argc
    <3>1. i \in 1 .. Len(args) /\ args \in Seq(Sizes)
      BY <1>2, <2>1 DEF PushArgv, Layout, Counters, argc
    <3>2. args[i] \in Sizes
      BY <3>1
    <3> QED
      BY <1>2, <2>1, <3>2 DEF PushArgv
  <2> QED
    BY <1>2, <2>1 DEF PushArgv
<1>3. CASE PushEnvv
  <2>1. CASE i <= envc
    <3>1. i \in 1 .. Len(envs) /\ envs \in Seq(Sizes)
      BY <1>3, <2>1 DEF PushEnvv, Layout, Counters, envc
    <3>2. envs[i] \in Sizes
      BY <3>1
    <3> QED
      BY <1>3, <2>1, <3>2 DEF PushEnvv
  <2> QED
    BY <1>3, <2>1 DEF PushEnvv
<1>4. CASE PushPlatform
  BY <1>1, <1>4 DEF PushPlatform
<1>5. CASE PushRandom
  BY <1>1, <1>5 DEF PushRandom
<1>6. CASE Align
  BY <1>6 DEF Align
<1>7. CASE PushAuxv
  BY <1>7 DEF PushAuxv
<1>8. CASE PushEnvp
  BY <1>1, <1>8 DEF PushEnvp
<1>9. CASE PushArgp
  BY <1>1, <1>9 DEF PushArgp
<1>10. CASE PushArgc
  BY <1>1, <1>10 DEF PushArgc
<1>11. CASE InitRegs
  BY <1>11 DEF InitRegs
<1> QED
  BY <1>2, <1>3, <1>4, <1>5, <1>6, <1>7, <1>8, <1>9, <1>10, <1>11 DEF Next

LEMMA CountersNext ==
    ASSUME Layout, Next
    PROVE  Counters'
<1> USE DEF At, Goto, inputs
<1>1. args' = args /\ envs' = envs
  BY DEF Next, PushArgv, PushEnvv, PushPlatform, PushRandom, Align, PushAuxv,
         PushEnvp, PushArgp, PushArgc, InitRegs
<1>2. i \in Nat /\ (pc \in {"argv", "envv"} => i >= 1)
      /\ args \in Seq(Sizes) /\ envs \in Seq(Sizes)
  BY DEF Layout, Counters
<1>3. argc \in Nat /\ envc \in Nat
  BY <1>2 DEF argc, envc
<1>4. i' \in Nat /\ (pc' \in {"argv", "envv"} => i' >= 1)
  <2>1. CASE PushArgv
    BY <1>2, <2>1 DEF PushArgv
  <2>2. CASE PushEnvv
    BY <1>2, <2>2 DEF PushEnvv
  <2>3. CASE PushPlatform \/ PushRandom \/ Align \/ PushArgc \/ InitRegs
    BY <1>2, <2>3 DEF PushPlatform, PushRandom, Align, PushArgc, InitRegs
  <2>4. CASE PushAuxv
    BY <1>2, <1>3, <2>4 DEF PushAuxv
  <2>5. CASE PushEnvp
    BY <1>2, <1>3, <2>5 DEF PushEnvp
  <2>6. CASE PushArgp
    BY <1>2, <1>3, <2>6 DEF PushArgp
  <2> QED
    BY <2>1, <2>2, <2>3, <2>4, <2>5, <2>6 DEF Next
<1> QED
  BY <1>1, <1>2, <1>4 DEF Counters

LEMMA LayoutNext ==
    ASSUME Layout, [Next]_vars
    PROVE  Layout'
<1>1. CASE Next
  <2>1. Counters'
    BY <1>1, CountersNext
  <2>2. Apart
    BY DEF Layout
  <2> SUFFICES Apart'
    BY <2>1 DEF Layout
  <2>3. CASE \E size \in Sizes : \E val : Push(size, val)
    BY <2>2, <2>3, PushKeepsApart
  <2>4. CASE \E val, type : PushPair(val, type)
    BY <2>2, <2>4, PushPairIsTwoPushes
  <2>5. CASE PushAlign
    BY <2>2, <2>5, PushAlignPads
  <2>6. CASE UNCHANGED <<rsp, mem>>
    BY <2>2, <2>6 DEF Apart, NothingOverwritten
  <2> QED
    BY <1>1, <2>1, <2>3, <2>4, <2>5, <2>6, StackMoves, Zenon
<1>2. CASE UNCHANGED vars
  BY <1>2 DEF vars, inputs, Layout, Counters, Apart, NothingOverwritten
<1> QED
  BY <1>1, <1>2

\* What has been written lies apart, at or above rsp, at every step of
\* x64stack_setup (stack.c, stack_private.h).
THEOREM LayoutInvariant == Spec => []Layout
<1> QED
  BY LayoutInit, LayoutNext, PTL DEF Spec

\* No push, no padding and no auxv entry of x64stack_setup overwrites what an
\* earlier one wrote, whatever the strings and the host.
THEOREM NoOverwriting == Spec => []NothingOverwritten
<1>1. Layout => NothingOverwritten
  BY DEF Layout, Apart
<1> QED
  BY <1>1, LayoutInvariant, PTL

-----------------------------------------------------------------------------
(* The alignment of the guest's first stack pointer.                       *)

\* rsp is at a multiple of 16, up to the words pushed since push_align.
Parity ==
    /\ pc = "auxv" => rsp % 16 = 0
    /\ pc = "envp" => i \in 1 .. envc + 1 /\ rsp % 16 = 8 * ((envc + 1 - i) % 2)
    /\ pc = "argp" => i \in 1 .. argc + 1 /\ rsp % 16 = 8 * ((envc + 1 + argc + 1 - i) % 2)
    /\ pc = "argc" => rsp % 16 = 8 * ((argc + envc) % 2)
    /\ pc \in {"regs", "done"} => rsp % 16 = 8 * ((argc + envc + 1) % 2)

LEMMA WordDown ==
    ASSUME NEW x \in Int, NEW n \in Int, x % 16 = 8 * (n % 2)
    PROVE  (x - 8) % 16 = 8 * ((n + 1) % 2)
<1>1. CASE n % 2 = 0
  <2>1. (n + 1) % 2 = 1
    BY <1>1
  <2>2. x % 16 = 0
    BY <1>1
  <2> QED
    BY <2>1, <2>2
<1>2. CASE n % 2 = 1
  <2>1. (n + 1) % 2 = 0
    BY <1>2
  <2>2. x % 16 = 8
    BY <1>2
  <2> QED
    BY <2>1, <2>2
<1> QED
  BY <1>1, <1>2

LEMMA TwoWords ==
    ASSUME NEW n \in Int
    PROVE  (n + 2) % 2 = n % 2
OBVIOUS

LEMMA ParityNext ==
    ASSUME Layout, Parity, Next
    PROVE  Parity'
<1> USE DEF At, Goto, inputs
<1>1. rsp \in Int /\ args \in Seq(Sizes) /\ envs \in Seq(Sizes)
  BY DEF Layout, Apart, Counters
<1>2. argc \in Nat /\ envc \in Nat
  BY <1>1 DEF argc, envc
<1>3. args' = args /\ envs' = envs
  BY DEF Next, PushArgv, PushEnvv, PushPlatform, PushRandom, Align, PushAuxv,
         PushEnvp, PushArgp, PushArgc, InitRegs
<1>4. argc' = argc /\ envc' = envc
  BY <1>3 DEF argc, envc
<1> HIDE DEF inputs
<1>5. CASE PushArgv \/ PushEnvv \/ PushPlatform \/ PushRandom
  <2>1. pc' \in {"argv", "envv", "platform", "random", "align"}
    BY <1>5 DEF PushArgv, PushEnvv, PushPlatform, PushRandom
  <2> QED
    BY <2>1 DEF Parity
<1>6. CASE Align
  <2>1. rsp' % 16 = 0 /\ pc' = "auxv"
    BY <1>6, PushAlignPads DEF Align, Layout
  <2> QED
    BY <2>1 DEF Parity
<1>7. CASE PushAuxv
  <2>1. rsp % 16 = 0
    BY <1>7 DEF PushAuxv, Parity
  <2>2. rsp' \in {rsp, rsp - 16}
    BY <1>7 DEF PushAuxv, PushPair
  <2>3. rsp' % 16 = 0
    <3>1. (rsp - 16) % 16 = 0
      BY <1>1, <2>1
    <3> QED
      BY <2>1, <2>2, <3>1
  <2>4. pc' = "auxv" \/ (pc' = "envp" /\ i' = envc + 1)
    BY <1>7 DEF PushAuxv
  <2>5. (envc + 1 - (envc + 1)) % 2 = 0
    BY <1>2
  <2> QED
    BY <1>2, <1>4, <2>3, <2>4, <2>5 DEF Parity
<1>8. CASE PushEnvp
  <2>1. i \in 1 .. envc + 1 /\ rsp % 16 = 8 * ((envc + 1 - i) % 2) /\ rsp' = rsp - 8
    BY <1>8 DEF PushEnvp, Parity, Push
  <2>2. rsp' % 16 = 8 * ((envc + 1 - i + 1) % 2)
    BY <1>1, <1>2, <2>1, WordDown
  <2>3. CASE i > 1
    <3>1. pc' = "envp" /\ i' = i - 1
      BY <1>8, <2>3 DEF PushEnvp
    <3>2. envc + 1 - (i - 1) = envc + 1 - i + 1
      BY <1>2, <2>1
    <3>3. i - 1 \in 1 .. envc + 1
      BY <1>2, <2>1, <2>3
    <3> QED
      BY <1>4, <2>2, <3>1, <3>2, <3>3 DEF Parity
  <2>4. CASE ~(i > 1)
    <3>1. pc' = "argp" /\ i' = argc + 1 /\ i = 1
      BY <1>8, <1>2, <2>1, <2>4 DEF PushEnvp
    <3>2. envc + 1 + argc + 1 - (argc + 1) = envc + 1 - i + 1
      BY <1>2, <3>1
    <3>3. argc + 1 \in 1 .. argc + 1
      BY <1>2
    <3> QED
      BY <1>4, <2>2, <3>1, <3>2, <3>3 DEF Parity
  <2> QED
    BY <2>3, <2>4
<1>9. CASE PushArgp
  <2>1. i \in 1 .. argc + 1 /\ rsp % 16 = 8 * ((envc + 1 + argc + 1 - i) % 2) /\ rsp' = rsp - 8
    BY <1>9 DEF PushArgp, Parity, Push
  <2>2. rsp' % 16 = 8 * ((envc + 1 + argc + 1 - i + 1) % 2)
    BY <1>1, <1>2, <2>1, WordDown
  <2>3. CASE i > 1
    <3>1. pc' = "argp" /\ i' = i - 1
      BY <1>9, <2>3 DEF PushArgp
    <3>2. envc + 1 + argc + 1 - (i - 1) = envc + 1 + argc + 1 - i + 1
      BY <1>2, <2>1
    <3>3. i - 1 \in 1 .. argc + 1
      BY <1>2, <2>1, <2>3
    <3> QED
      BY <1>4, <2>2, <3>1, <3>2, <3>3 DEF Parity
  <2>4. CASE ~(i > 1)
    <3>1. pc' = "argc" /\ i = 1
      BY <1>9, <1>2, <2>1, <2>4 DEF PushArgp
    <3>2. envc + 1 + argc + 1 - i + 1 = (argc + envc) + 2
      BY <1>2, <3>1
    <3>3. ((argc + envc) + 2) % 2 = (argc + envc) % 2
      BY <1>2, TwoWords
    <3> QED
      BY <1>4, <2>2, <3>1, <3>2, <3>3 DEF Parity
  <2> QED
    BY <2>3, <2>4
<1>10. CASE PushArgc
  <2>1. rsp % 16 = 8 * ((argc + envc) % 2) /\ rsp' = rsp - 8 /\ pc' = "regs"
    BY <1>10 DEF PushArgc, Parity, Push
  <2>2. rsp' % 16 = 8 * ((argc + envc + 1) % 2)
    BY <1>1, <1>2, <2>1, WordDown
  <2> QED
    BY <1>4, <2>1, <2>2 DEF Parity
<1>11. CASE InitRegs
  <2>1. pc = "regs" /\ pc' = "done" /\ rsp' = rsp
    BY <1>11 DEF InitRegs
  <2> QED
    BY <1>4, <2>1 DEF Parity
<1> QED
  BY <1>5, <1>6, <1>7, <1>8, <1>9, <1>10, <1>11 DEF Next

LEMMA ParityMeansAlignment == Layout /\ Parity => EntryAlignment
<1> SUFFICES ASSUME Layout, Parity, pc = "done"
             PROVE  rsp % 16 = (IF (argc + envc) % 2 = 1 THEN 0 ELSE 8)
  BY DEF EntryAlignment
<1>1. argc + envc \in Nat
  BY DEF Layout, Counters, argc, envc
<1>2. rsp % 16 = 8 * ((argc + envc + 1) % 2)
  BY DEF Parity
<1>3. CASE (argc + envc) % 2 = 1
  <2>1. (argc + envc + 1) % 2 = 0
    BY <1>1, <1>3
  <2> QED
    BY <1>2, <1>3, <2>1
<1>4. CASE (argc + envc) % 2 = 0
  <2>1. (argc + envc + 1) % 2 = 1
    BY <1>1, <1>4
  <2> QED
    BY <1>2, <1>4, <2>1
<1> QED
  BY <1>1, <1>3, <1>4

\* The guest's first stack pointer is a multiple of 16 exactly when argc +
\* envc is odd, whatever was pushed for the strings and the auxv (stack.c:92).
THEOREM EntryIsAlignedByParity == Spec => []EntryAlignment
<1>1. Init => Parity
  BY DEF Init, Parity
<1>2. Layout /\ Parity /\ [Next]_vars => Parity'
  <2>1. CASE Layout /\ Parity /\ Next
    BY <2>1, ParityNext
  <2>2. CASE Parity /\ UNCHANGED vars
    BY <2>2 DEF vars, inputs, Parity, argc, envc
  <2> QED
    BY <2>1, <2>2
<1>3. Spec => []Parity
  BY <1>1, <1>2, LayoutInvariant, PTL DEF Spec
<1> QED
  BY <1>3, LayoutInvariant, ParityMeansAlignment, PTL
-----------------------------------------------------------------------------
(* What the guest finds on its stack.                                      *)

\* Somewhere on the stack val begins at addr; the word w is at addr.
Begins(addr, val) == \E o \in mem : o.at = addr /\ o.val = val
Holds(addr, w) == Object(addr, 8, w) \in mem

\* The strings pushed so far begin at the addresses that were noted.
Strung ==
    /\ argc >= 1
    /\ argvp \in Seq(Int) /\ Len(argvp) = (IF pc = "argv" THEN i - 1 ELSE argc)
    /\ envvp \in Seq(Int)
    /\ Len(envvp) = (IF pc = "argv" THEN 0 ELSE IF pc = "envv" THEN i - 1 ELSE envc)
    /\ pc = "argv" => i <= argc + 1
    /\ pc = "envv" => i <= envc + 1
    /\ \A k \in 1 .. Len(argvp) : Begins(argvp[k], <<"argv", k>>)
    /\ \A k \in 1 .. Len(envvp) : Begins(envvp[k], <<"envv", k>>)
    /\ pc \notin {"argv", "envv", "platform"} => Begins(platform, <<"platform", 0>>)
    /\ pc = "random" => i \in 1 .. 4
    /\ pc \notin {"argv", "envv", "platform", "random"} => Begins(random, <<"random", 4>>)

LEMMA MemGrows ==
    ASSUME Next
    PROVE  mem \subseteq mem' /\ UNCHANGED inputs
BY DEF Next, PushArgv, PushEnvv, PushPlatform, PushRandom, Align, PushAuxv, PushEnvp,
       PushArgp, PushArgc, InitRegs, Push, PushPair, PushAlign, inputs

\* Nothing is taken from the stack, so what begins somewhere stays there.
LEMMA BeginsStays ==
    ASSUME NEW addr, NEW val, mem \subseteq mem', Begins(addr, val)
    PROVE  Begins(addr, val)'
BY DEF Begins

LEMMA HoldsStays ==
    ASSUME NEW addr, NEW w, mem \subseteq mem', Holds(addr, w)
    PROVE  Holds(addr, w)'
BY DEF Holds

\* What is pushed begins at the new stack pointer.
LEMMA PushedBegins ==
    ASSUME NEW size, NEW val, Push(size, val)
    PROVE  Begins(rsp, val)'
<1>1. PICK o : o = Object(rsp - size, size, val)
  OBVIOUS
<1>2. o.at = rsp - size /\ o.val = val
  BY <1>1 DEF Object
<1>3. o \in mem' /\ rsp' = rsp - size
  BY <1>1 DEF Push
<1> QED
  BY <1>2, <1>3 DEF Begins

LEMMA PushedHolds ==
    ASSUME NEW w, Push(8, w)
    PROVE  Holds(rsp, w)'
BY DEF Push, Holds

LEMMA StrungInit == Init => Strung
<1> SUFFICES ASSUME Init PROVE Strung
  OBVIOUS
<1>1. argvp = <<>> /\ envvp = <<>> /\ pc = "argv" /\ i = 1
  BY DEF Init
<1>2. PICK n \in 1 .. MaxArgs : args \in [1 .. n -> StringSizes]
  BY DEF Init, Strings
<1>3. args \in Seq(StringSizes) /\ Len(args) = n /\ n >= 1 /\ n \in Nat
  BY <1>2, BoundsAssumption
<1> QED
  BY <1>1, <1>3 DEF Strung, argc

LEMMA StrungNext ==
    ASSUME Layout, Strung, Next
    PROVE  Strung'
<1> USE DEF At, Goto
<1>1. mem \subseteq mem' /\ UNCHANGED inputs
  BY MemGrows
<1>2. argc' = argc /\ envc' = envc /\ argc \in Nat /\ envc \in Nat
  BY <1>1 DEF inputs, argc, envc, Layout, Counters
<1>3. /\ \A k \in 1 .. Len(argvp) : Begins(argvp[k], <<"argv", k>>)
      /\ \A k \in 1 .. Len(envvp) : Begins(envvp[k], <<"envv", k>>)
      /\ argvp \in Seq(Int) /\ envvp \in Seq(Int) /\ argc >= 1 /\ i \in Nat
      /\ rsp' \in Int
  BY LayoutNext DEF Strung, Layout, Counters, Apart
<1>4. ASSUME UNCHANGED argvp
      PROVE  (\A k \in 1 .. Len(argvp) : Begins(argvp[k], <<"argv", k>>))'
  <2>1. PICK p : p = argvp
    OBVIOUS
  <2>2. \A k \in 1 .. Len(p) : Begins(p[k], <<"argv", k>>)'
    BY <1>1, <1>3, <2>1, BeginsStays
  <2> QED
    BY <1>4, <2>1, <2>2
<1>5. ASSUME UNCHANGED envvp
      PROVE  (\A k \in 1 .. Len(envvp) : Begins(envvp[k], <<"envv", k>>))'
  <2>1. PICK p : p = envvp
    OBVIOUS
  <2>2. \A k \in 1 .. Len(p) : Begins(p[k], <<"envv", k>>)'
    BY <1>1, <1>3, <2>1, BeginsStays
  <2> QED
    BY <1>5, <2>1, <2>2
<1>6. CASE PushArgv
  <2>1. pc = "argv" /\ UNCHANGED envvp /\ Len(argvp) = i - 1 /\ i <= argc + 1 /\ Len(envvp) = 0
    BY <1>6 DEF PushArgv, Strung
  <2>2. CASE i <= argc
    <3>1. /\ Push(args[i], <<"argv", i>>) /\ argvp' = Append(argvp, rsp')
          /\ pc' = "argv" /\ i' = i + 1
      BY <1>6, <2>2 DEF PushArgv
    <3>2. PICK p, n, r : p = argvp /\ n = i /\ r = rsp'
      OBVIOUS
    <3>3. Begins(r, <<"argv", n>>)'
      <4>1. PICK s : s = args[i]
        OBVIOUS
      <4>2. Begins(rsp, <<"argv", n>>)'
        BY <3>1, <3>2, <4>1, PushedBegins
      <4> QED
        BY <3>2, <4>2 DEF Begins
    <3>4. \A k \in 1 .. Len(p) : Begins(p[k], <<"argv", k>>)'
      BY <1>1, <1>3, <3>2, BeginsStays
    <3>5. /\ argvp' \in Seq(Int) /\ Len(argvp') = i /\ argvp'[i] = r
          /\ \A k \in 1 .. i - 1 : argvp'[k] = p[k]
      BY <1>3, <2>1, <3>1, <3>2
    <3>6. (\A k \in 1 .. Len(argvp) : Begins(argvp[k], <<"argv", k>>))'
      <4>1. PICK q : q = argvp'
        OBVIOUS
      <4>2. ASSUME NEW k \in 1 .. Len(q)
            PROVE  Begins(q[k], <<"argv", k>>)'
        <5>1. k \in 1 .. i - 1 \/ k = i
          BY <1>3, <3>5, <4>1
        <5>2. CASE k \in 1 .. i - 1
          <6>1. q[k] = p[k] /\ k \in 1 .. Len(p)
            BY <2>1, <3>2, <3>5, <4>1, <5>2
          <6> QED
            BY <3>4, <6>1
        <5>3. CASE k = i
          <6>1. q[k] = r /\ k = n
            BY <3>2, <3>5, <4>1, <5>3
          <6> QED
            BY <3>3, <6>1
        <5> QED
          BY <5>1, <5>2, <5>3
      <4> QED
        BY <4>1, <4>2 DEF Begins
    <3>7. argvp' \in Seq(Int) /\ Len(argvp') = i' - 1 /\ i' <= argc' + 1
      BY <1>2, <1>3, <2>2, <3>1, <3>5
    <3>8. envvp' \in Seq(Int) /\ Len(envvp') = 0 /\ argc' >= 1
      BY <1>2, <1>3, <2>1
    <3>9. (\A k \in 1 .. Len(envvp) : Begins(envvp[k], <<"envv", k>>))'
      BY <1>5, <2>1
    <3> QED
      BY <3>1, <3>6, <3>7, <3>8, <3>9 DEF Strung
  <2>3. CASE ~(i <= argc)
    <3>1. pc' = "envv" /\ i' = 1 /\ UNCHANGED argvp
      BY <1>6, <2>3 DEF PushArgv
    <3> QED
      BY <1>2, <1>3, <1>4, <1>5, <2>1, <2>3, <3>1 DEF Strung
  <2> QED
    BY <2>2, <2>3
<1>7. CASE PushEnvv
  <2>1. pc = "envv" /\ UNCHANGED argvp /\ Len(envvp) = i - 1 /\ i <= envc + 1 /\ Len(argvp) = argc
    BY <1>7 DEF PushEnvv, Strung
  <2>2. CASE i <= envc
    <3>1. /\ Push(envs[i], <<"envv", i>>) /\ envvp' = Append(envvp, rsp')
          /\ pc' = "envv" /\ i' = i + 1
      BY <1>7, <2>2 DEF PushEnvv
    <3>2. PICK p, n, r : p = envvp /\ n = i /\ r = rsp'
      OBVIOUS
    <3>3. Begins(r, <<"envv", n>>)'
      <4>1. PICK s : s = envs[i]
        OBVIOUS
      <4>2. Begins(rsp, <<"envv", n>>)'
        BY <3>1, <3>2, <4>1, PushedBegins
      <4> QED
        BY <3>2, <4>2 DEF Begins
    <3>4. \A k \in 1 .. Len(p) : Begins(p[k], <<"envv", k>>)'
      BY <1>1, <1>3, <3>2, BeginsStays
    <3>5. /\ envvp' \in Seq(Int) /\ Len(envvp') = i /\ envvp'[i] = r
          /\ \A k \in 1 .. i - 1 : envvp'[k] = p[k]
      BY <1>3, <2>1, <3>1, <3>2
    <3>6. (\A k \in 1 .. Len(envvp) : Begins(envvp[k], <<"envv", k>>))'
      <4>1. PICK q : q = envvp'
        OBVIOUS
      <4>2. ASSUME NEW k \in 1 .. Len(q)
            PROVE  Begins(q[k], <<"envv", k>>)'
        <5>1. k \in 1 .. i - 1 \/ k = i
          BY <1>3, <3>5, <4>1
        <5>2. CASE k \in 1 .. i - 1
          <6>1. q[k] = p[k] /\ k \in 1 .. Len(p)
            BY <2>1, <3>2, <3>5, <4>1, <5>2
          <6> QED
            BY <3>4, <6>1
        <5>3. CASE k = i
          <6>1. q[k] = r /\ k = n
            BY <3>2, <3>5, <4>1, <5>3
          <6> QED
            BY <3>3, <6>1
        <5> QED
          BY <5>1, <5>2, <5>3
      <4> QED
        BY <4>1, <4>2 DEF Begins
    <3>7. envvp' \in Seq(Int) /\ Len(envvp') = i' - 1 /\ i' <= envc' + 1
      BY <1>2, <1>3, <2>2, <3>1, <3>5
    <3>8. argvp' \in Seq(Int) /\ Len(argvp') = argc' /\ argc' >= 1
      BY <1>2, <1>3, <2>1
    <3>9. (\A k \in 1 .. Len(argvp) : Begins(argvp[k], <<"argv", k>>))'
      BY <1>4, <2>1
    <3> QED
      BY <3>1, <3>6, <3>7, <3>8, <3>9 DEF Strung
  <2>3. CASE ~(i <= envc)
    <3>1. pc' = "platform" /\ i' = 1 /\ UNCHANGED envvp
      BY <1>7, <2>3 DEF PushEnvv
    <3> QED
      BY <1>2, <1>3, <1>4, <1>5, <2>1, <2>3, <3>1 DEF Strung
  <2> QED
    BY <2>2, <2>3
<1>8. ASSUME UNCHANGED <<argvp, envvp>>, pc \notin {"argv", "envv"}, pc' \notin {"argv", "envv"}
      PROVE  /\ argc' >= 1
             /\ argvp' \in Seq(Int) /\ Len(argvp') = argc'
             /\ envvp' \in Seq(Int) /\ Len(envvp') = envc'
             /\ (\A k \in 1 .. Len(argvp) : Begins(argvp[k], <<"argv", k>>))'
             /\ (\A k \in 1 .. Len(envvp) : Begins(envvp[k], <<"envv", k>>))'
  <2>1. Len(argvp) = argc /\ Len(envvp) = envc
    BY <1>8 DEF Strung
  <2> QED
    BY <1>2, <1>3, <1>4, <1>5, <1>8, <2>1
<1>9. CASE PushPlatform
  <2>1. /\ pc = "platform" /\ Push(7, <<"platform", 0>>) /\ platform' = rsp'
        /\ pc' = "random" /\ i' = 1 /\ UNCHANGED <<argvp, envvp>>
    BY <1>9 DEF PushPlatform
  <2>2. Begins(rsp, <<"platform", 0>>)'
    BY <2>1, PushedBegins
  <2>3. Begins(platform, <<"platform", 0>>)'
    BY <2>1, <2>2 DEF Begins
  <2> QED
    BY <1>8, <2>1, <2>3 DEF Strung
<1>10. ASSUME UNCHANGED platform, Begins(platform, <<"platform", 0>>)
       PROVE  Begins(platform, <<"platform", 0>>)'
  BY <1>1, <1>10 DEF Begins
<1>11. CASE PushRandom
  <2>1. /\ pc = "random" /\ Push(4, <<"random", i>>) /\ random' = rsp'
        /\ UNCHANGED <<argvp, envvp, platform>>
        /\ IF i < 4 THEN pc' = "random" /\ i' = i + 1 ELSE pc' = "align" /\ i' = 1
    BY <1>11 DEF PushRandom
  <2>2. i \in 1 .. 4 /\ Begins(platform, <<"platform", 0>>)
    BY <2>1 DEF Strung
  <2>3. Begins(platform, <<"platform", 0>>)'
    BY <1>10, <2>1, <2>2
  <2>4. CASE i < 4
    BY <1>8, <2>1, <2>2, <2>3, <2>4 DEF Strung
  <2>5. CASE ~(i < 4)
    <3>1. i = 4
      BY <2>2, <2>5
    <3>2. Begins(rsp, <<"random", 4>>)'
      BY <2>1, <3>1, PushedBegins
    <3>3. Begins(random, <<"random", 4>>)'
      BY <2>1, <3>2 DEF Begins
    <3> QED
      BY <1>8, <2>1, <2>3, <2>5, <3>3 DEF Strung
  <2> QED
    BY <2>4, <2>5
<1>12. CASE Align \/ PushAuxv \/ PushEnvp \/ PushArgp \/ PushArgc \/ InitRegs
  <2>1. /\ UNCHANGED <<argvp, envvp, platform, random>>
        /\ pc \in {"align", "auxv", "envp", "argp", "argc", "regs"}
        /\ pc' \in {"auxv", "envp", "argp", "argc", "regs", "done"}
    BY <1>12 DEF Align, PushAuxv, PushEnvp, PushArgp, PushArgc, InitRegs
  <2>2. Begins(platform, <<"platform", 0>>) /\ Begins(random, <<"random", 4>>)
    BY <2>1 DEF Strung
  <2>3. Begins(platform, <<"platform", 0>>)' /\ Begins(random, <<"random", 4>>)'
    BY <1>1, <2>1, <2>2 DEF Begins
  <2> QED
    BY <1>8, <2>1, <2>3 DEF Strung
<1> QED
  BY <1>6, <1>7, <1>9, <1>11, <1>12 DEF Next
ArgWord(k) == IF k = argc + 1 THEN Word(0) ELSE Word(argvp[k])
EnvWord(k) == IF k = envc + 1 THEN Word(0) ELSE Word(envvp[k])
AuxvWord(k) == IF AuxvPlan[k] \in Real THEN Host(AuxvPlan[k]) ELSE OwnAuxv(AuxvPlan[k])

\* The words of an array from the k-th on are at base.
ArgsFrom(k, base) == \A j \in k .. argc + 1 : Holds(base + 8 * (j - k), ArgWord(j))
EnvsFrom(k, base) == \A j \in k .. envc + 1 : Holds(base + 8 * (j - k), EnvWord(j))

\* Of the first n entries of the plan, those after the k-th that were pushed.
Rank(k, n) == Cardinality({j \in k + 1 .. n : Delivered(j)})

EntriesTo(n, base) ==
    \A k \in 1 .. n : Delivered(k) =>
        /\ Holds(base + 16 * Rank(k, n), Word(AuxvPlan[k]))
        /\ Holds(base + 16 * Rank(k, n) + 8, AuxvWord(k))

\* errno is ENOENT if it was at the start, or once a type was unknown.
Errno ==
    /\ pc \in {"argv", "envv", "platform", "random", "align"} => (enoent <=> errnoAtStart)
    /\ pc = "auxv" =>
        (enoent <=> errnoAtStart \/ \E j \in 1 .. i - 1 : AuxvPlan[j] \in Real \ host)

\* The three arrays stand one on the other, as far as they are written.
Blocks ==
    /\ pc = "auxv" =>
        /\ i \in 1 .. Len(AuxvPlan)
        /\ EntriesTo(i - 1, rsp)
    /\ pc = "envp" =>
        /\ i \in 1 .. envc + 1
        /\ EnvsFrom(i + 1, rsp)
        /\ EntriesTo(Len(AuxvPlan), rsp + 8 * (envc + 1 - i))
    /\ pc = "argp" =>
        /\ i \in 1 .. argc + 1
        /\ ArgsFrom(i + 1, rsp)
        /\ EnvsFrom(1, rsp + 8 * (argc + 1 - i))
        /\ EntriesTo(Len(AuxvPlan), rsp + 8 * (argc + 1 - i) + 8 * (envc + 1))
    /\ pc = "argc" => 
        /\ ArgsFrom(1, rsp)
        /\ EnvsFrom(1, rsp + 8 * (argc + 1))
        /\ EntriesTo(Len(AuxvPlan), rsp + 8 * (argc + 1) + 8 * (envc + 1))
    /\ pc \in {"regs", "done"} =>
        /\ Holds(rsp, Word(argc))
        /\ ArgsFrom(1, rsp + 8)
        /\ EnvsFrom(1, rsp + 8 + 8 * (argc + 1))
        /\ EntriesTo(Len(AuxvPlan), rsp + 8 + 8 * (argc + 1) + 8 * (envc + 1))
    /\ pc = "done" => regs = [rdi |-> argc, rsi |-> rsp + 8, rdx |-> rsp + 8 + 8 * (argc + 1)]

LEMMA PlanTypes ==
    /\ Len(AuxvPlan) = 12
    /\ \A k \in 1 .. 12 : AuxvPlan[k] \in 0 .. 31
    /\ AuxvPlan[1] = AT_NULL /\ AuxvPlan[9] = AT_PLATFORM
    /\ AuxvPlan[11] = AT_RANDOM /\ AuxvPlan[12] = AT_EXECFN
BY DEF AuxvPlan, AT_NULL, AT_PAGESZ, AT_FLAGS, AT_ENTRY, AT_UID, AT_EUID, AT_GID, AT_EGID,
       AT_PLATFORM, AT_SECURE, AT_RANDOM, AT_EXECFN

LEMMA RankIsCounted ==
    ASSUME NEW k \in Nat, NEW n \in Nat
    PROVE  /\ IsFiniteSet({j \in k + 1 .. n : Delivered(j)})
           /\ Rank(k, n) \in Nat
<1>1. IsFiniteSet(k + 1 .. n)
  BY FS_Interval
<1>2. {j \in k + 1 .. n : Delivered(j)} \subseteq k + 1 .. n
  OBVIOUS
<1>3. IsFiniteSet({j \in k + 1 .. n : Delivered(j)})
  BY <1>1, <1>2, FS_Subset
<1> QED
  BY <1>3, FS_CardinalityType DEF Rank

\* One more entry pushes the earlier ones up by one, if it is delivered.
LEMMA RankGrows ==
    ASSUME NEW k \in Nat, NEW n \in Nat, k < n
    PROVE  Rank(k, n) = IF Delivered(n) THEN Rank(k, n - 1) + 1 ELSE Rank(k, n - 1)
<1> DEFINE Before == {j \in k + 1 .. n - 1 : Delivered(j)}
           Upto == {j \in k + 1 .. n : Delivered(j)}
<1>1. n - 1 \in Nat
  OBVIOUS
<1>2. IsFiniteSet(Before) /\ n \notin Before
  BY <1>1, RankIsCounted
<1>3. \A j : j \in k + 1 .. n <=> j \in k + 1 .. n - 1 \/ j = n
  OBVIOUS
<1>4. CASE Delivered(n)
  <2>1. Upto = Before \cup {n}
    BY <1>3, <1>4
  <2>2. Cardinality(Before \cup {n}) = Cardinality(Before) + 1
    BY <1>2, FS_AddElement
  <2> QED
    BY <1>4, <2>1, <2>2 DEF Rank
<1>5. CASE ~Delivered(n)
  <2>1. Upto = Before
    BY <1>3, <1>5
  <2> QED
    BY <1>5, <2>1 DEF Rank
<1> QED
  BY <1>4, <1>5

LEMMA RankOfLast ==
    ASSUME NEW n \in Nat
    PROVE  Rank(n, n) = 0
<1>1. {j \in n + 1 .. n : Delivered(j)} = {}
  OBVIOUS
<1> QED
  BY <1>1, FS_EmptySet DEF Rank

\* What was delivered ranks below the number of deliveries, the first by one.
LEMMA RankInRange ==
    ASSUME NEW k \in 1 .. 12, Delivered(k)
    PROVE  /\ Rank(k, 12) \in 0 .. Deliveries - 1
           /\ k = 1 => Rank(k, 12) = Deliveries - 1
<1> DEFINE Later == {j \in k + 1 .. 12 : Delivered(j)}
           All == {j \in 1 .. 12 : Delivered(j)}
<1>1. IsFiniteSet(Later) /\ Rank(k, 12) \in Nat
  BY RankIsCounted
<1>2. IsFiniteSet(All)
  <2>1. {j \in 0 + 1 .. 12 : Delivered(j)} = All
    OBVIOUS
  <2> QED
    BY <2>1, RankIsCounted
<1>3. Deliveries = Cardinality(All)
  BY PlanTypes DEF Deliveries
<1>4. Cardinality(Later \cup {k}) = Cardinality(Later) + 1
  <2>1. k \notin Later
    OBVIOUS
  <2> QED
    BY <1>1, <2>1, FS_AddElement
<1>5. Later \cup {k} \subseteq All
  OBVIOUS
<1>6. Cardinality(Later \cup {k}) <= Cardinality(All)
  BY <1>2, <1>5, FS_Subset
<1>7. k = 1 => Later \cup {k} = All
  OBVIOUS
<1>8. Rank(k, 12) = Cardinality(Later)
  BY DEF Rank
<1>9. Deliveries \in Nat
  BY <1>2, <1>3, FS_CardinalityType
<1>10. Rank(k, 12) + 1 <= Deliveries
  BY <1>3, <1>4, <1>6, <1>8
<1>11. k = 1 => Rank(k, 12) + 1 = Deliveries
  BY <1>3, <1>4, <1>7, <1>8
<1> HIDE DEF Later, All
<1> QED
  BY <1>1, <1>9, <1>10, <1>11
\* Once the pointers are noted, what was written of an array stays.
Noted ==
    /\ mem \subseteq mem'
    /\ UNCHANGED <<inputs, argvp, envvp, platform, random>>

LEMMA ArgsStay ==
    ASSUME NEW k, NEW base, Noted, ArgsFrom(k, base)
    PROVE  ArgsFrom(k, base)'
BY DEF Noted, inputs, ArgsFrom, Holds, Object, ArgWord, Word, argc

LEMMA EnvsStay ==
    ASSUME NEW k, NEW base, Noted, EnvsFrom(k, base)
    PROVE  EnvsFrom(k, base)'
BY DEF Noted, inputs, EnvsFrom, Holds, Object, EnvWord, Word, envc

LEMMA DeliveredStays ==
    ASSUME NEW k, Noted
    PROVE  Delivered(k)' <=> Delivered(k)
BY DEF Noted, inputs, Delivered

LEMMA RankStays ==
    ASSUME NEW k, NEW n, Noted
    PROVE  Rank(k, n)' = Rank(k, n)
<1>1. {j \in k + 1 .. n : Delivered(j)'} = {j \in k + 1 .. n : Delivered(j)}
  BY DeliveredStays
<1> QED
  BY <1>1 DEF Rank

LEMMA AuxvWordStays ==
    ASSUME NEW k, Noted
    PROVE  AuxvWord(k)' = AuxvWord(k)
BY DEF Noted, AuxvWord, OwnAuxv

LEMMA EntriesStay ==
    ASSUME NEW n, NEW base, Noted, EntriesTo(n, base)
    PROVE  EntriesTo(n, base)'
<1> SUFFICES ASSUME NEW k \in 1 .. n, Delivered(k)'
             PROVE  /\ Holds(base + 16 * Rank(k, n), Word(AuxvPlan[k]))'
                    /\ Holds(base + 16 * Rank(k, n) + 8, AuxvWord(k))'
  BY DEF EntriesTo
<1>1. Delivered(k) /\ Rank(k, n)' = Rank(k, n) /\ AuxvWord(k)' = AuxvWord(k)
  BY DeliveredStays, RankStays, AuxvWordStays
<1>2. /\ Holds(base + 16 * Rank(k, n), Word(AuxvPlan[k]))
      /\ Holds(base + 16 * Rank(k, n) + 8, AuxvWord(k))
  BY <1>1 DEF EntriesTo
<1> QED
  BY <1>1, <1>2 DEF Noted, Holds, Object, Word

\* A word pushed below an array is its new first one.
LEMMA ArgPushed ==
    ASSUME NEW k \in Int, NEW base \in Int, Noted, argc \in Nat, k <= argc + 1,
           ArgsFrom(k + 1, base), rsp = base, Push(8, ArgWord(k))
    PROVE  ArgsFrom(k, base - 8)'
<1>1. ArgsFrom(k + 1, base)'
  BY ArgsStay
<1>2. argc' = argc /\ argvp' = argvp
  BY DEF Noted, inputs, argc
<1>3. ArgWord(k)' = ArgWord(k)
  BY <1>2 DEF ArgWord, Word
<1>4. Object(base - 8, 8, ArgWord(k)) \in mem'
  BY DEF Push
<1> SUFFICES ASSUME NEW j \in k .. argc + 1
             PROVE  Object(base - 8 + 8 * (j - k), 8, ArgWord(j)') \in mem'
  BY <1>2 DEF ArgsFrom, Holds, Object
<1>5. CASE j = k
  BY <1>3, <1>4, <1>5
<1>6. CASE j # k
  <2>1. j \in k + 1 .. argc + 1
    BY <1>6
  <2>2. Object(base + 8 * (j - (k + 1)), 8, ArgWord(j)') \in mem'
    BY <1>1, <1>2, <2>1 DEF ArgsFrom, Holds, Object
  <2>3. base + 8 * (j - (k + 1)) = base - 8 + 8 * (j - k)
    OBVIOUS
  <2> QED
    BY <2>2, <2>3
<1> QED
  BY <1>5, <1>6

LEMMA EnvPushed ==
    ASSUME NEW k \in Int, NEW base \in Int, Noted, envc \in Nat, k <= envc + 1,
           EnvsFrom(k + 1, base), rsp = base, Push(8, EnvWord(k))
    PROVE  EnvsFrom(k, base - 8)'
<1>1. EnvsFrom(k + 1, base)'
  BY EnvsStay
<1>2. envc' = envc /\ envvp' = envvp
  BY DEF Noted, inputs, envc
<1>3. EnvWord(k)' = EnvWord(k)
  BY <1>2 DEF EnvWord, Word
<1>4. Object(base - 8, 8, EnvWord(k)) \in mem'
  BY DEF Push
<1> SUFFICES ASSUME NEW j \in k .. envc + 1
             PROVE  Object(base - 8 + 8 * (j - k), 8, EnvWord(j)') \in mem'
  BY <1>2 DEF EnvsFrom, Holds, Object
<1>5. CASE j = k
  BY <1>3, <1>4, <1>5
<1>6. CASE j # k
  <2>1. j \in k + 1 .. envc + 1
    BY <1>6
  <2>2. Object(base + 8 * (j - (k + 1)), 8, EnvWord(j)') \in mem'
    BY <1>1, <1>2, <2>1 DEF EnvsFrom, Holds, Object
  <2>3. base + 8 * (j - (k + 1)) = base - 8 + 8 * (j - k)
    OBVIOUS
  <2> QED
    BY <2>2, <2>3
<1> QED
  BY <1>5, <1>6
\* An entry that is delivered goes below the others; one that is not leaves
\* them where they are.
LEMMA EntryPushed ==
    ASSUME NEW n \in Nat \ {0}, NEW base \in Int, Noted, EntriesTo(n - 1, base),
           rsp = base, Delivered(n), PushPair(AuxvWord(n), AuxvPlan[n])
    PROVE  EntriesTo(n, base - 16)'
<1>1. EntriesTo(n - 1, base)'
  BY EntriesStay
<1>2. /\ Object(base - 8, 8, AuxvWord(n)) \in mem'
      /\ Object(base - 16, 8, Word(AuxvPlan[n])) \in mem'
  BY DEF PushPair
<1> SUFFICES ASSUME NEW k \in 1 .. n, Delivered(k)'
             PROVE  /\ Object(base - 16 + 16 * Rank(k, n)', 8, Word(AuxvPlan[k])) \in mem'
                    /\ Object(base - 16 + 16 * Rank(k, n)' + 8, 8, AuxvWord(k)') \in mem'
  BY DEF EntriesTo, Holds, Object, Word
<1>3. Rank(k, n)' = Rank(k, n) /\ AuxvWord(k)' = AuxvWord(k)
  BY RankStays, AuxvWordStays
<1>4. CASE k = n
  <2>1. Rank(n, n) = 0
    BY RankOfLast
  <2>2. base - 16 + 16 * 0 = base - 16 /\ base - 16 + 16 * 0 + 8 = base - 8
    OBVIOUS
  <2> QED
    BY <1>2, <1>3, <1>4, <2>1, <2>2
<1>5. CASE k # n
  <2>1. k \in 1 .. n - 1 /\ k \in Nat /\ k < n /\ n - 1 \in Nat
    BY <1>5
  <2>2. Rank(k, n) = Rank(k, n - 1) + 1 /\ Rank(k, n - 1) \in Nat
    BY <2>1, RankGrows, RankIsCounted
  <2>3. Rank(k, n - 1)' = Rank(k, n - 1)
    BY RankStays
  <2>4. /\ Object(base + 16 * Rank(k, n - 1), 8, Word(AuxvPlan[k])) \in mem'
        /\ Object(base + 16 * Rank(k, n - 1) + 8, 8, AuxvWord(k)') \in mem'
    BY <1>1, <2>1, <2>3 DEF EntriesTo, Holds, Object, Word
  <2>5. PICK q \in Nat : q = Rank(k, n - 1)
    BY <2>2
  <2>6. base - 16 + 16 * (q + 1) = base + 16 * q
    OBVIOUS
  <2> QED
    BY <1>3, <2>2, <2>4, <2>5, <2>6
<1> QED
  BY <1>4, <1>5

LEMMA EntryDropped ==
    ASSUME NEW n \in Nat \ {0}, NEW base \in Int, Noted, EntriesTo(n - 1, base), ~Delivered(n)
    PROVE  EntriesTo(n, base)'
<1>1. EntriesTo(n, base)
  <2> SUFFICES ASSUME NEW k \in 1 .. n, Delivered(k)
               PROVE  /\ Holds(base + 16 * Rank(k, n), Word(AuxvPlan[k]))
                      /\ Holds(base + 16 * Rank(k, n) + 8, AuxvWord(k))
    BY DEF EntriesTo
  <2>1. k \in 1 .. n - 1 /\ k \in Nat /\ k < n
    <3>1. k # n
      OBVIOUS
    <3> QED
      BY <3>1
  <2>2. Rank(k, n) = Rank(k, n - 1)
    BY <2>1, RankGrows
  <2> QED
    BY <2>1, <2>2 DEF EntriesTo
<1> QED
  BY <1>1, EntriesStay

\* AuxvDropped decides as Delivered says.
LEMMA DroppedAsDelivered ==
    ASSUME Errno, pc = "auxv", i \in 1 .. 12
    PROVE  Delivered(i) <=> AuxvPlan[i] \notin Real \/ ~AuxvDropped(AuxvPlan[i])
<1>1. enoent <=> errnoAtStart \/ \E j \in 1 .. i - 1 : AuxvPlan[j] \in Real \ host
  BY DEF Errno
<1>2. \A j : j \in 1 .. i <=> j \in 1 .. i - 1 \/ j = i
  OBVIOUS
<1> QED
  BY <1>1, <1>2, Zenon DEF Delivered, AuxvDropped

LEMMA ErrnoNext ==
    ASSUME Layout, Blocks, Errno, Next
    PROVE  Errno'
<1> USE DEF At, Goto, inputs
<1>1. UNCHANGED inputs
  BY MemGrows
<1>2. CASE PushAuxv
  <2>1. /\ i \in 1 .. 12
        /\ \/ pc' = "auxv" /\ i' = i + 1
           \/ pc' = "envp"
    BY <1>2, PlanTypes DEF PushAuxv, Blocks
  <2>2. enoent <=> errnoAtStart \/ \E j \in 1 .. i - 1 : AuxvPlan[j] \in Real \ host
    BY <1>2 DEF PushAuxv, Errno
  <2>3. enoent' <=> enoent \/ AuxvPlan[i] \in Real \ host
    <3>1. CASE AuxvPlan[i] \in Real
      BY <1>2, <3>1, Zenon DEF PushAuxv
    <3>2. CASE AuxvPlan[i] \notin Real
      BY <1>2, <3>2, Zenon DEF PushAuxv
    <3> QED
      BY <3>1, <3>2
  <2>4. CASE pc' = "auxv"
    <3>1. i' = i + 1 /\ i \in 1 .. 12
      BY <2>1, <2>4
    <3>2. \A j : j \in 1 .. i' - 1 <=> j \in 1 .. i - 1 \/ j = i
      BY <3>1
    <3>3. enoent' <=> errnoAtStart' \/ \E j \in 1 .. i' - 1 : AuxvPlan[j] \in Real \ host'
      BY <1>1, <2>2, <2>3, <3>2, Zenon
    <3> QED
      BY <2>4, <3>3 DEF Errno
  <2>5. CASE pc' = "envp"
    BY <2>5 DEF Errno
  <2> QED
    BY <2>1, <2>4, <2>5
<1>3. CASE Align
  <2>1. /\ enoent <=> errnoAtStart
        /\ pc' = "auxv" /\ i' = 1 /\ UNCHANGED enoent
    BY <1>3 DEF Align, Errno
  <2>2. ~ \E j \in 1 .. i' - 1 : AuxvPlan[j] \in Real \ host'
    BY <2>1
  <2> QED
    BY <1>1, <2>1, <2>2 DEF Errno
<1>4. CASE PushArgv \/ PushEnvv \/ PushPlatform \/ PushRandom
  <2>1. /\ enoent <=> errnoAtStart
        /\ UNCHANGED enoent
        /\ pc' \in {"argv", "envv", "platform", "random", "align"}
    BY <1>4 DEF PushArgv, PushEnvv, PushPlatform, PushRandom, Errno
  <2> QED
    BY <1>1, <2>1 DEF Errno
<1>5. CASE PushEnvp \/ PushArgp \/ PushArgc \/ InitRegs
  <2>1. pc' \in {"envp", "argp", "argc", "regs", "done"}
    BY <1>5 DEF PushEnvp, PushArgp, PushArgc, InitRegs
  <2> QED
    BY <2>1 DEF Errno
<1> QED
  BY <1>2, <1>3, <1>4, <1>5 DEF Next

LEMMA BlocksNext ==
    ASSUME Layout, Strung, Errno, Blocks, Next
    PROVE  Blocks'
<1> USE DEF At, Goto
<1>1. mem \subseteq mem' /\ UNCHANGED inputs
  BY MemGrows
<1>2. argc' = argc /\ envc' = envc /\ argc \in Nat /\ envc \in Nat /\ argc >= 1
  BY <1>1 DEF inputs, argc, envc, Layout, Counters, Strung
<1>3. PICK r \in Int, n \in Nat : r = rsp /\ n = i
  BY DEF Layout, Apart, Counters
<1>4. CASE PushArgv \/ PushEnvv \/ PushPlatform \/ PushRandom
  <2>1. pc' \in {"argv", "envv", "platform", "random", "align"}
    BY <1>4 DEF PushArgv, PushEnvv, PushPlatform, PushRandom
  <2> QED
    BY <2>1 DEF Blocks
<1>5. CASE Align
  <2>1. pc' = "auxv" /\ i' = 1
    BY <1>5 DEF Align
  <2>2. EntriesTo(i - 1, rsp)'
    BY <2>1 DEF EntriesTo
  <2>3. i' \in 1 .. Len(AuxvPlan)
    BY <2>1, PlanTypes
  <2> QED
    BY <2>1, <2>2, <2>3 DEF Blocks
<1>6. ASSUME PushAuxv \/ PushEnvp \/ PushArgp \/ PushArgc \/ InitRegs
      PROVE  Noted
  BY <1>1, <1>6 DEF PushAuxv, PushEnvp, PushArgp, PushArgc, InitRegs, Noted
<1>7. CASE PushAuxv
  <2>1. Noted
    BY <1>6, <1>7
  <2>2. pc = "auxv" /\ n \in 1 .. 12 /\ n \in Nat \ {0} /\ EntriesTo(n - 1, r)
    BY <1>3, <1>7, PlanTypes DEF PushAuxv, Blocks
  <2>3. Delivered(n) <=> AuxvPlan[n] \notin Real \/ ~AuxvDropped(AuxvPlan[n])
    BY <1>3, <2>2, DroppedAsDelivered
  <2>4. EntriesTo(n, rsp)' /\ rsp' \in Int
    <3>1. CASE Delivered(n)
      <4>1. PushPair(AuxvWord(n), AuxvPlan[n])
        BY <1>3, <1>7, <2>3, <3>1 DEF PushAuxv, AuxvWord
      <4>2. EntriesTo(n, r - 16)'
        BY <1>3, <2>1, <2>2, <3>1, <4>1, EntryPushed
      <4>3. rsp' = r - 16
        BY <1>3, <4>1 DEF PushPair
      <4> QED
        BY <4>2, <4>3 DEF EntriesTo, Holds
    <3>2. CASE ~Delivered(n)
      <4>1. rsp' = r
        BY <1>3, <1>7, <2>3, <3>2 DEF PushAuxv
      <4>2. EntriesTo(n, r)'
        BY <2>1, <2>2, <3>2, EntryDropped
      <4> QED
        BY <4>1, <4>2 DEF EntriesTo, Holds
    <3> QED
      BY <3>1, <3>2
  <2>5. CASE i < Len(AuxvPlan)
    <3>1. pc' = "auxv" /\ i' = n + 1 /\ n + 1 \in 1 .. Len(AuxvPlan) /\ i' - 1 = n
      BY <1>3, <1>7, <2>2, <2>5, PlanTypes DEF PushAuxv
    <3>2. EntriesTo(i - 1, rsp)'
      BY <2>4, <3>1 DEF EntriesTo, Rank
    <3> QED
      BY <3>1, <3>2 DEF Blocks
  <2>6. CASE ~(i < Len(AuxvPlan))
    <3>1. pc' = "envp" /\ i' = envc' + 1 /\ n = 12
      BY <1>2, <1>3, <1>7, <2>2, <2>6, PlanTypes DEF PushAuxv
    <3>2. rsp' + 8 * (envc' + 1 - i') = rsp'
      <4>1. envc' + 1 - i' = 0
        BY <1>2, <3>1
      <4> QED
        BY <2>4, <4>1
    <3>3. EntriesTo(Len(AuxvPlan), rsp + 8 * (envc + 1 - i))'
      BY <2>4, <3>1, <3>2, PlanTypes DEF EntriesTo, Holds, Rank
    <3>4. EnvsFrom(i + 1, rsp)'
      BY <1>2, <3>1 DEF EnvsFrom
    <3>5. i' \in 1 .. envc' + 1
      BY <1>2, <3>1
    <3> QED
      BY <3>1, <3>3, <3>4, <3>5 DEF Blocks
  <2> QED
    BY <2>5, <2>6
<1>8. CASE PushEnvp
  <2>1. Noted
    BY <1>6, <1>8
  <2>2. /\ pc = "envp" /\ n \in 1 .. envc + 1
        /\ EnvsFrom(n + 1, r) /\ EntriesTo(12, r + 8 * (envc + 1 - n))
    BY <1>3, <1>8, PlanTypes DEF PushEnvp, Blocks
  <2>3. Push(8, EnvWord(n)) /\ rsp' = r - 8
    BY <1>3, <1>8 DEF PushEnvp, EnvWord, Push
  <2>4. EnvsFrom(n, r - 8)'
    BY <1>2, <1>3, <2>1, <2>2, <2>3, EnvPushed
  <2>5. PICK e \in Int : e = r + 8 * (envc + 1 - n)
    BY <1>2
  <2>6. EntriesTo(12, e)'
    BY <2>1, <2>2, <2>5, EntriesStay
  <2>7. CASE i > 1
    <3>1. pc' = "envp" /\ i' = n - 1 /\ i' + 1 = n
      BY <1>3, <1>8, <2>7 DEF PushEnvp
    <3>2. i' \in 1 .. envc' + 1
      BY <1>2, <1>3, <2>2, <2>7, <3>1
    <3>3. EnvsFrom(i + 1, rsp)'
      BY <2>3, <2>4, <3>1 DEF EnvsFrom, Holds
    <3>4. rsp' + 8 * (envc' + 1 - i') = e
      BY <1>2, <2>3, <2>5, <3>1
    <3>5. EntriesTo(Len(AuxvPlan), rsp + 8 * (envc + 1 - i))'
      BY <2>6, <3>4, PlanTypes DEF EntriesTo, Holds, Rank
    <3> QED
      BY <3>1, <3>2, <3>3, <3>5 DEF Blocks
  <2>8. CASE ~(i > 1)
    <3>1. pc' = "argp" /\ i' = argc' + 1 /\ n = 1 /\ argc' + 1 - i' = 0
      BY <1>2, <1>3, <1>8, <2>2, <2>8 DEF PushEnvp
    <3>2. i' \in 1 .. argc' + 1 /\ ArgsFrom(i + 1, rsp)'
      BY <1>2, <3>1 DEF ArgsFrom
    <3>3. rsp' + 8 * (argc' + 1 - i') = r - 8
      BY <2>3, <3>1
    <3>4. EnvsFrom(1, rsp + 8 * (argc + 1 - i))'
      BY <2>4, <3>1, <3>3 DEF EnvsFrom, Holds
    <3>5. rsp' + 8 * (argc' + 1 - i') + 8 * (envc' + 1) = e
      BY <1>2, <2>5, <3>1, <3>3
    <3>6. EntriesTo(Len(AuxvPlan), rsp + 8 * (argc + 1 - i) + 8 * (envc + 1))'
      BY <2>6, <3>5, PlanTypes DEF EntriesTo, Holds, Rank
    <3> QED
      BY <3>1, <3>2, <3>4, <3>6 DEF Blocks
  <2> QED
    BY <2>7, <2>8
<1>9. CASE PushArgp
  <2>1. Noted
    BY <1>6, <1>9
  <2>2. /\ pc = "argp" /\ n \in 1 .. argc + 1
        /\ ArgsFrom(n + 1, r) /\ EnvsFrom(1, r + 8 * (argc + 1 - n))
        /\ EntriesTo(12, r + 8 * (argc + 1 - n) + 8 * (envc + 1))
    BY <1>3, <1>9, PlanTypes DEF PushArgp, Blocks
  <2>3. Push(8, ArgWord(n)) /\ rsp' = r - 8
    BY <1>3, <1>9 DEF PushArgp, ArgWord, Push
  <2>4. ArgsFrom(n, r - 8)'
    BY <1>2, <1>3, <2>1, <2>2, <2>3, ArgPushed
  <2>5. PICK e \in Int, a \in Int :
          /\ e = r + 8 * (argc + 1 - n)
          /\ a = r + 8 * (argc + 1 - n) + 8 * (envc + 1)
    BY <1>2
  <2>6. EnvsFrom(1, e)' /\ EntriesTo(12, a)'
    BY <2>1, <2>2, <2>5, EnvsStay, EntriesStay
  <2>7. CASE i > 1
    <3>1. pc' = "argp" /\ i' = n - 1 /\ i' + 1 = n
      BY <1>3, <1>9, <2>7 DEF PushArgp
    <3>2. i' \in 1 .. argc' + 1
      BY <1>2, <1>3, <2>2, <2>7, <3>1
    <3>3. ArgsFrom(i + 1, rsp)'
      BY <2>3, <2>4, <3>1 DEF ArgsFrom, Holds
    <3>4. /\ rsp' + 8 * (argc' + 1 - i') = e
          /\ rsp' + 8 * (argc' + 1 - i') + 8 * (envc' + 1) = a
      BY <1>2, <2>3, <2>5, <3>1
    <3>5. EnvsFrom(1, rsp + 8 * (argc + 1 - i))'
      BY <2>6, <3>4 DEF EnvsFrom, Holds
    <3>6. EntriesTo(Len(AuxvPlan), rsp + 8 * (argc + 1 - i) + 8 * (envc + 1))'
      BY <2>6, <3>4, PlanTypes DEF EntriesTo, Holds, Rank
    <3> QED
      BY <3>1, <3>2, <3>3, <3>5, <3>6 DEF Blocks
  <2>8. CASE ~(i > 1)
    <3>1. pc' = "argc" /\ n = 1
      BY <1>3, <1>9, <2>2, <2>8 DEF PushArgp
    <3>2. ArgsFrom(1, rsp)'
      BY <2>3, <2>4, <3>1 DEF ArgsFrom, Holds
    <3>3. /\ rsp' + 8 * (argc' + 1) = e
          /\ rsp' + 8 * (argc' + 1) + 8 * (envc' + 1) = a
      BY <1>2, <2>3, <2>5, <3>1
    <3>4. EnvsFrom(1, rsp + 8 * (argc + 1))'
      BY <2>6, <3>3 DEF EnvsFrom, Holds
    <3>5. EntriesTo(Len(AuxvPlan), rsp + 8 * (argc + 1) + 8 * (envc + 1))'
      BY <2>6, <3>3, PlanTypes DEF EntriesTo, Holds, Rank
    <3> QED
      BY <3>1, <3>2, <3>4, <3>5 DEF Blocks
  <2> QED
    BY <2>7, <2>8
<1>10. CASE PushArgc
  <2>1. Noted
    BY <1>6, <1>10
  <2>2. /\ pc = "argc" /\ pc' = "regs" /\ ArgsFrom(1, r) /\ EnvsFrom(1, r + 8 * (argc + 1))
        /\ EntriesTo(12, r + 8 * (argc + 1) + 8 * (envc + 1))
    BY <1>3, <1>10, PlanTypes DEF PushArgc, Blocks
  <2>3. Holds(rsp, Word(argc))' /\ rsp' = r - 8
    BY <1>2, <1>3, <1>10 DEF PushArgc, Push, Holds, Object, Word
  <2>4. PICK e \in Int, a \in Int :
          e = r + 8 * (argc + 1) /\ a = r + 8 * (argc + 1) + 8 * (envc + 1)
    BY <1>2
  <2>5. ArgsFrom(1, r)' /\ EnvsFrom(1, e)' /\ EntriesTo(12, a)'
    BY <2>1, <2>2, <2>4, ArgsStay, EnvsStay, EntriesStay
  <2>6. /\ rsp' + 8 = r
        /\ rsp' + 8 + 8 * (argc' + 1) = e
        /\ rsp' + 8 + 8 * (argc' + 1) + 8 * (envc' + 1) = a
    BY <1>2, <2>3, <2>4
  <2>7. ArgsFrom(1, rsp + 8)'
    BY <2>5, <2>6 DEF ArgsFrom, Holds
  <2>8. EnvsFrom(1, rsp + 8 + 8 * (argc + 1))'
    BY <2>5, <2>6 DEF EnvsFrom, Holds
  <2>9. EntriesTo(Len(AuxvPlan), rsp + 8 + 8 * (argc + 1) + 8 * (envc + 1))'
    BY <2>5, <2>6, PlanTypes DEF EntriesTo, Holds, Rank
  <2> QED
    BY <2>2, <2>3, <2>7, <2>8, <2>9 DEF Blocks
<1>11. CASE InitRegs
  <2>1. Noted
    BY <1>6, <1>11
  <2>2. /\ pc = "regs" /\ pc' = "done" /\ rsp' = r /\ Holds(r, Word(argc)) /\ ArgsFrom(1, r + 8)
        /\ EnvsFrom(1, r + 8 + 8 * (argc + 1))
        /\ EntriesTo(12, r + 8 + 8 * (argc + 1) + 8 * (envc + 1))
    BY <1>3, <1>11, PlanTypes DEF InitRegs, Blocks
  <2>3. Holds(rsp, Word(argc))'
    BY <1>1, <1>2, <2>2 DEF Holds, Object, Word
  <2>4. PICK g \in Int, e \in Int, a \in Int :
          /\ g = r + 8 /\ e = r + 8 + 8 * (argc + 1)
          /\ a = r + 8 + 8 * (argc + 1) + 8 * (envc + 1)
    BY <1>2
  <2>5. ArgsFrom(1, g)' /\ EnvsFrom(1, e)' /\ EntriesTo(12, a)'
    BY <2>1, <2>2, <2>4, ArgsStay, EnvsStay, EntriesStay
  <2>6. /\ rsp' + 8 = g
        /\ rsp' + 8 + 8 * (argc' + 1) = e
        /\ rsp' + 8 + 8 * (argc' + 1) + 8 * (envc' + 1) = a
    BY <1>2, <2>2, <2>4
  <2>7. ArgsFrom(1, rsp + 8)'
    BY <2>5, <2>6 DEF ArgsFrom, Holds
  <2>8. EnvsFrom(1, rsp + 8 + 8 * (argc + 1))'
    BY <2>5, <2>6 DEF EnvsFrom, Holds
  <2>9. EntriesTo(Len(AuxvPlan), rsp + 8 + 8 * (argc + 1) + 8 * (envc + 1))'
    BY <2>5, <2>6, PlanTypes DEF EntriesTo, Holds, Rank
  <2>10. regs' = [rdi |-> argc', rsi |-> rsp' + 8, rdx |-> rsp' + 8 + 8 * (argc' + 1)]
    BY <1>2, <1>3, <1>11, <2>2 DEF InitRegs
  <2> QED
    BY <2>2, <2>3, <2>7, <2>8, <2>9, <2>10 DEF Blocks
<1> QED
  BY <1>4, <1>5, <1>7, <1>8, <1>9, <1>10, <1>11 DEF Next
\* A read at the address of a word finds that word and no other object.
LEMMA HoldsIsLoaded ==
    ASSUME Apart, NEW addr, NEW w, Holds(addr, w)
    PROVE  Load(addr) = {w}
<1>1. PICK q : q = Object(addr, 8, w)
  OBVIOUS
<1>2. q \in mem /\ q.at = addr /\ q.size = 8 /\ q.val = w
  BY <1>1 DEF Holds, Object
<1>3. ASSUME NEW o \in mem, o.at = addr, o.size = 8
      PROVE  o = q
  <2>1. addr \in Int
    BY <1>3 DEF Apart
  <2> QED
    BY <1>2, <1>3, <2>1 DEF Apart, NothingOverwritten
<1> QED
  BY <1>2, <1>3 DEF Load

LEMMA PointerIsFollowed ==
    ASSUME Apart, NEW addr, NEW p, NEW val, Holds(addr, Word(p)), Begins(p, val)
    PROVE  Points(addr, val)
<1>1. Load(addr) = {Word(p)}
  BY HoldsIsLoaded
<1> QED
  BY <1>1 DEF Points, Begins

LEMMA BlocksAreArguments ==
    ASSUME Layout, Strung, Blocks
    PROVE  ArgumentBlock
<1> SUFFICES ASSUME pc = "done" PROVE ArgumentBlock
  BY DEF ArgumentBlock
<1>1. Apart /\ rsp \in Int /\ argc \in Nat /\ envc \in Nat
  BY DEF Layout, Apart, Counters, argc, envc
<1>2. PICK a \in Int, e \in Int : a = rsp + 8 /\ e = rsp + 8 + 8 * (argc + 1)
  BY <1>1
<1>3. /\ Holds(rsp, Word(argc)) /\ ArgsFrom(1, a) /\ EnvsFrom(1, e)
      /\ regs = [rdi |-> argc, rsi |-> a, rdx |-> e]
  BY <1>2 DEF Blocks
<1>4. regs.rdi = argc /\ regs.rsi = a /\ regs.rdx = e
  BY <1>3
<1>5. /\ Len(argvp) = argc /\ Len(envvp) = envc
      /\ \A k \in 1 .. argc : Begins(argvp[k], <<"argv", k>>)
      /\ \A k \in 1 .. envc : Begins(envvp[k], <<"envv", k>>)
  BY DEF Strung
<1>6. Load(rsp) = {Word(argc)}
  BY <1>1, <1>3, HoldsIsLoaded
<1>7. ASSUME NEW k \in 1 .. argc
      PROVE  Points(a + 8 * (k - 1), <<"argv", k>>)
  <2>1. ArgWord(k) = Word(argvp[k]) /\ k \in 1 .. argc + 1
    BY <1>1 DEF ArgWord
  <2>2. Holds(a + 8 * (k - 1), Word(argvp[k]))
    BY <1>3, <2>1 DEF ArgsFrom
  <2> QED
    BY <1>1, <1>5, <2>2, PointerIsFollowed
<1>8. ASSUME NEW k \in 1 .. envc
      PROVE  Points(e + 8 * (k - 1), <<"envv", k>>)
  <2>1. EnvWord(k) = Word(envvp[k]) /\ k \in 1 .. envc + 1
    BY <1>1 DEF EnvWord
  <2>2. Holds(e + 8 * (k - 1), Word(envvp[k]))
    BY <1>3, <2>1 DEF EnvsFrom
  <2> QED
    BY <1>1, <1>5, <2>2, PointerIsFollowed
<1>9. Load(a + 8 * argc) = {Word(0)}
  <2>1. ArgWord(argc + 1) = Word(0) /\ argc + 1 \in 1 .. argc + 1
    BY <1>1 DEF ArgWord
  <2>2. PICK j \in 1 .. argc + 1 : j = argc + 1 /\ j - 1 = argc
    BY <1>1
  <2>3. Holds(a + 8 * (j - 1), ArgWord(j))
    BY <1>3 DEF ArgsFrom
  <2>4. Holds(a + 8 * argc, Word(0))
    BY <2>1, <2>2, <2>3
  <2> QED
    BY <1>1, <2>4, HoldsIsLoaded
<1>10. Load(e + 8 * envc) = {Word(0)}
  <2>1. EnvWord(envc + 1) = Word(0) /\ envc + 1 \in 1 .. envc + 1
    BY <1>1 DEF EnvWord
  <2>2. PICK j \in 1 .. envc + 1 : j = envc + 1 /\ j - 1 = envc
    BY <1>1
  <2>3. Holds(e + 8 * (j - 1), EnvWord(j))
    BY <1>3 DEF EnvsFrom
  <2>4. Holds(e + 8 * envc, Word(0))
    BY <2>1, <2>2, <2>3
  <2> QED
    BY <1>1, <2>4, HoldsIsLoaded
<1> QED
  BY <1>4, <1>6, <1>7, <1>8, <1>9, <1>10 DEF ArgumentBlock

LEMMA BlocksAreAuxiliary ==
    ASSUME Layout, Strung, Blocks
    PROVE  AuxiliaryVector
<1> SUFFICES ASSUME pc = "done" PROVE AuxiliaryVector
  BY DEF AuxiliaryVector
<1>1. Apart /\ rsp \in Int /\ argc \in Nat /\ envc \in Nat /\ argc >= 1
  BY DEF Layout, Apart, Counters, Strung, argc, envc
<1>2. PICK x \in Int : x = rsp + 8 + 8 * (argc + 1) + 8 * (envc + 1)
  BY <1>1
<1>3. /\ EntriesTo(12, x)
      /\ regs = [rdi |-> argc, rsi |-> rsp + 8, rdx |-> rsp + 8 + 8 * (argc + 1)]
  BY <1>2, PlanTypes DEF Blocks
<1>4. \A k : AuxvAt(k) = x + 16 * k
  <2>1. regs.rdx = rsp + 8 + 8 * (argc + 1)
    BY <1>3
  <2> QED
    BY <1>2, <2>1 DEF AuxvAt
<1>5. ASSUME NEW k \in 1 .. 12, Delivered(k)
      PROVE  /\ AuxvType(Rank(k, 12)) = {AuxvPlan[k]}
             /\ Load(AuxvAt(Rank(k, 12)) + 8) = {AuxvWord(k)}
             /\ Holds(AuxvAt(Rank(k, 12)) + 8, AuxvWord(k))
  <2>1. /\ Holds(AuxvAt(Rank(k, 12)), Word(AuxvPlan[k]))
        /\ Holds(AuxvAt(Rank(k, 12)) + 8, AuxvWord(k))
    BY <1>3, <1>4, <1>5 DEF EntriesTo
  <2>2. /\ Load(AuxvAt(Rank(k, 12))) = {Word(AuxvPlan[k])}
        /\ Load(AuxvAt(Rank(k, 12)) + 8) = {AuxvWord(k)}
    BY <1>1, <2>1, HoldsIsLoaded
  <2>3. \A t : Word(AuxvPlan[k]) = Word(t) <=> AuxvPlan[k] = t
    BY DEF Word
  <2>4. AuxvPlan[k] \in 0 .. 31
    BY PlanTypes
  <2>5. AuxvType(Rank(k, 12)) = {t \in 0 .. 31 : AuxvPlan[k] = t}
    BY <2>2, <2>3 DEF AuxvType
  <2> QED
    BY <2>1, <2>2, <2>4, <2>5
<1>6. \A k \in {1, 9, 11, 12} : Delivered(k)
  <2>1. AT_NULL \notin Real /\ AT_PLATFORM \notin Real /\ AT_RANDOM \notin Real /\ AT_EXECFN \notin Real
    BY DEF Real, AT_NULL, AT_PLATFORM, AT_RANDOM, AT_EXECFN, AT_PAGESZ, AT_FLAGS, AT_UID, AT_EUID,
           AT_GID, AT_EGID, AT_SECURE
  <2> QED
    BY <2>1, PlanTypes DEF Delivered
<1>7. AuxvType(Deliveries - 1) = {AT_NULL}
  BY <1>5, <1>6, RankInRange, PlanTypes
<1>8. ASSUME NEW k \in 1 .. 12, Delivered(k)
      PROVE  /\ AuxvType(Rank(k, 12)) = {AuxvPlan[k]}
             /\ AuxvPlan[k] \in Real => Load(AuxvAt(Rank(k, 12)) + 8) = {Host(AuxvPlan[k])}
  BY <1>5, <1>8 DEF AuxvWord
<1>9. ASSUME NEW k \in {9, 11, 12}, NEW p, NEW val, AuxvWord(k) = Word(p), Begins(p, val)
      PROVE  \E j \in 0 .. Deliveries - 1 : AuxvType(j) = {AuxvPlan[k]} /\ Points(AuxvAt(j) + 8, val)
  <2>1. k \in 1 .. 12 /\ Delivered(k)
    BY <1>6
  <2>2. Rank(k, 12) \in 0 .. Deliveries - 1
    BY <2>1, RankInRange
  <2>3. Holds(AuxvAt(Rank(k, 12)) + 8, Word(p))
    BY <1>5, <1>9, <2>1
  <2>4. Points(AuxvAt(Rank(k, 12)) + 8, val)
    BY <1>1, <1>9, <2>3, PointerIsFollowed
  <2> QED
    BY <1>5, <2>1, <2>2, <2>4
<1>10. /\ AuxvWord(9) = Word(platform) /\ AuxvWord(11) = Word(random)
       /\ AuxvWord(12) = Word(argvp[1])
  BY PlanTypes DEF AuxvWord, OwnAuxv, Real, AT_NULL, AT_ENTRY, AT_PLATFORM, AT_RANDOM, AT_EXECFN,
         AT_PAGESZ, AT_FLAGS, AT_UID, AT_EUID, AT_GID, AT_EGID, AT_SECURE
<1>11. /\ Begins(platform, <<"platform", 0>>) /\ Begins(random, <<"random", 4>>)
       /\ Begins(argvp[1], <<"argv", 1>>)
  BY <1>1 DEF Strung
<1>12. \A k \in 1 .. 12 : {j \in k + 1 .. 12 : Delivered(j)} = {j \in k + 1 .. Len(AuxvPlan) : Delivered(j)}
  BY PlanTypes
<1>13. \E j \in 0 .. Deliveries - 1 : AuxvType(j) = {AT_PLATFORM} /\ Points(AuxvAt(j) + 8, <<"platform", 0>>)
  BY <1>9, <1>10, <1>11, PlanTypes
<1>14. \E j \in 0 .. Deliveries - 1 : AuxvType(j) = {AT_RANDOM} /\ Points(AuxvAt(j) + 8, <<"random", 4>>)
  BY <1>9, <1>10, <1>11, PlanTypes
<1>15. \E j \in 0 .. Deliveries - 1 : AuxvType(j) = {AT_EXECFN} /\ Points(AuxvAt(j) + 8, <<"argv", 1>>)
  BY <1>9, <1>10, <1>11, PlanTypes
<1>16. ASSUME NEW k \in 1 .. Len(AuxvPlan), Delivered(k)
       PROVE  LET type == AuxvPlan[k]
                  rank == Cardinality({j \in k + 1 .. Len(AuxvPlan) : Delivered(j)})
              IN  /\ AuxvType(rank) = {type}
                  /\ type \in Real => Load(AuxvAt(rank) + 8) = {Host(type)}
  BY <1>8, <1>16, PlanTypes DEF Rank
<1> QED
  BY <1>7, <1>13, <1>14, <1>15, <1>16 DEF AuxiliaryVector

\* The stack as x64stack_setup builds it: what lies where, at every push.
StackInv == Layout /\ Strung /\ Errno /\ Blocks

LEMMA StackInvInit == Init => StackInv
<1> SUFFICES ASSUME Init PROVE Errno /\ Blocks
  BY LayoutInit, StrungInit DEF StackInv
<1>1. pc = "argv" /\ (enoent <=> errnoAtStart)
  BY DEF Init
<1> QED
  BY <1>1 DEF Errno, Blocks

LEMMA StackInvNext == StackInv /\ [Next]_vars => StackInv'
<1>1. ASSUME StackInv, Next PROVE StackInv'
  BY <1>1, LayoutNext, StrungNext, ErrnoNext, BlocksNext DEF StackInv
<1>2. ASSUME StackInv, UNCHANGED vars PROVE StackInv'
  <2>1. Noted /\ Layout' /\ UNCHANGED <<pc, i, rsp, argvp, envvp, platform, random, enoent, regs>>
    BY <1>2, LayoutNext DEF StackInv, vars, Noted
  <2>2. argc' = argc /\ envc' = envc
    BY <2>1 DEF Noted, inputs, argc, envc
  <2>3. mem' = mem
    BY <1>2 DEF vars
  <2>4. Strung'
    BY <1>2, <2>1, <2>2, <2>3 DEF StackInv, Strung, Begins
  <2>5. Errno'
    BY <1>2, <2>1 DEF StackInv, Errno, Noted, inputs
  <2>6. Blocks'
    <3>1. /\ \A k, b : ArgsFrom(k, b) => ArgsFrom(k, b)'
          /\ \A k, b : EnvsFrom(k, b) => EnvsFrom(k, b)'
          /\ \A k, b : EntriesTo(k, b) => EntriesTo(k, b)'
      BY <2>1, ArgsStay, EnvsStay, EntriesStay
    <3> QED
      BY <1>2, <2>1, <2>2, <2>3, <3>1 DEF StackInv, Blocks, Holds, Object, Word
  <2> QED
    BY <2>1, <2>4, <2>5, <2>6 DEF StackInv
<1> QED
  BY <1>1, <1>2

\* At every step of x64stack_setup what it wrote so far is where the later
\* steps count on it (stack.c:66-148).
THEOREM StackInvariant == Spec => []StackInv
<1> QED
  BY StackInvInit, StackInvNext, PTL DEF Spec

\* Whatever the arguments, the environment and the host, the guest's start
\* code finds argc, the argument and environment pointers and their
\* terminators where the ABI and the registers of x64emu_init say.
THEOREM ArgumentsAreFound == Spec => []ArgumentBlock
<1>1. StackInv => ArgumentBlock
  BY BlocksAreArguments DEF StackInv
<1> QED
  BY <1>1, StackInvariant, PTL

\* Whatever the host's getauxval knows and whatever errno was, the guest
\* finds exactly the entries that could be delivered, in order, each with its
\* value, and AT_NULL behind the last (stack.c:115-134).
THEOREM AuxvIsFound == Spec => []AuxiliaryVector
<1>1. StackInv => AuxiliaryVector
  BY BlocksAreAuxiliary DEF StackInv
<1> QED
  BY <1>1, StackInvariant, PTL
-----------------------------------------------------------------------------
(* The stack pointer stays inside a stack that has room for its contents.  *)

\* Strings are bounded by m, and the stack has room for what is pushed: below
\* the strings the platform, the random bytes and the padding take 38 bytes,
\* each auxv entry 16 and each word of the arrays 8.
Floor(m) == Top - (MaxArgs + MaxEnvs) * m

RoomFor(m) ==
    /\ m \in Nat /\ StringSizes \subseteq 1 .. m
    /\ Floor(m) >= 38 + 16 * 12 + 8 * (MaxArgs + 1) + 8 * (MaxEnvs + 1) + 8

\* How deep the stack pointer may be at each statement.
Depth(m) ==
    /\ pc = "argv" => i - 1 <= MaxArgs /\ rsp >= Top - (i - 1) * m
    /\ pc = "envv" => i - 1 <= MaxEnvs /\ rsp >= Top - MaxArgs * m - (i - 1) * m
    /\ pc = "platform" => rsp >= Floor(m)
    /\ pc = "random" => rsp >= Floor(m) - 7 - 4 * (i - 1)
    /\ pc = "align" => rsp >= Floor(m) - 23
    /\ pc = "auxv" => rsp >= Floor(m) - 38 - 16 * (i - 1)
    /\ pc = "envp" => rsp >= Floor(m) - 230 - 8 * (envc + 1 - i)
    /\ pc = "argp" => rsp >= Floor(m) - 230 - 8 * (envc + 1) - 8 * (argc + 1 - i)
    /\ pc = "argc" => rsp >= Floor(m) - 230 - 8 * (envc + 1) - 8 * (argc + 1)
    /\ pc \in {"regs", "done"} => rsp >= Floor(m) - 238 - 8 * (envc + 1) - 8 * (argc + 1)

\* Everything is below the top, and what is noted is on the stack.
Below ==
    /\ pc \in {"argv", "envv", "platform", "random", "align", "auxv",
               "envp", "argp", "argc", "regs", "done"}
    /\ pc \in {"platform", "align", "argc", "regs", "done"} => i = 1
    /\ enoent \in BOOLEAN
    /\ rsp <= Top
    /\ \A o \in mem : o.at <= Top /\ o.size > 0
    /\ platform = 0 \/ platform \in rsp .. Top
    /\ random = 0 \/ random \in rsp .. Top

Sized(m) ==
    /\ argc <= MaxArgs /\ envc <= MaxEnvs
    /\ \A k \in 1 .. argc : args[k] <= m
    /\ \A k \in 1 .. envc : envs[k] <= m

LEMMA Products ==
    ASSUME NEW m \in Nat, NEW k \in Nat, NEW n \in Nat
    PROVE  /\ k * m \in Nat
           /\ (k + 1) * m = k * m + m
           /\ (k + n) * m = k * m + n * m
           /\ k <= n => k * m <= n * m
<1>1. k * m \in Nat /\ (k + 1) * m = k * m + m /\ (k + n) * m = k * m + n * m
  OBVIOUS
<1>2. ASSUME k <= n PROVE k * m <= n * m
  <2>1. PICK d \in Nat : n = k + d
    <3>1. n - k \in Nat /\ n = k + (n - k)
      BY <1>2
    <3> QED
      BY <3>1
  <2>2. n * m = k * m + d * m /\ d * m \in Nat /\ k * m \in Nat
    BY <2>1
  <2> QED
    BY <2>2
<1> QED
  BY <1>1, <1>2

LEMMA SizedInit ==
    ASSUME NEW m, RoomFor(m), Init
    PROVE  Sized(m)
<1>1. PICK n \in 1 .. MaxArgs : args \in [1 .. n -> StringSizes]
  BY DEF Init, Strings
<1>2. PICK l \in 0 .. MaxEnvs : envs \in [1 .. l -> StringSizes]
  BY DEF Init, Strings
<1>3. n \in Nat /\ l \in Nat /\ n <= MaxArgs /\ l <= MaxEnvs
  BY <1>1, <1>2, BoundsAssumption
<1>4. Len(args) = n /\ Len(envs) = l
  BY <1>1, <1>2, <1>3
<1>5. \A x \in StringSizes : x <= m
  BY DEF RoomFor
<1> QED
  BY <1>1, <1>2, <1>3, <1>4, <1>5 DEF Sized, argc, envc

\* What the loops push, in the terms of the arithmetic.
LEMMA StringPushed ==
    ASSUME NEW m, RoomFor(m), Sized(m), Layout, NEW s \in {args, envs}, NEW k \in 1 .. Len(s)
    PROVE  s[k] \in Nat \ {0} /\ s[k] <= m
BY DEF Sized, Layout, Counters, Sizes, argc, envc

LEMMA BelowNext ==
    ASSUME StackInv, Below, Next
    PROVE  Below'
<1> USE DEF At, Goto
<1>1. Layout /\ Layout' /\ rsp \in Int /\ rsp' \in Int /\ Top \in Int
  BY LayoutNext, TopAssumption DEF StackInv, Layout, Apart
<1>2. /\ rsp' <= rsp
      /\ \A o \in mem' : o \in mem \/ (o.at <= rsp /\ o.size > 0)
  <2>1. CASE \E size \in Sizes : \E val : Push(size, val)
    <3>1. PICK size \in Sizes : \E val : Push(size, val)
      BY <2>1
    <3>2. PICK val : Push(size, val)
      BY <3>1
    <3>3. size \in Int /\ size > 0
      BY DEF Sizes
    <3> QED
      BY <1>1, <3>2, <3>3 DEF Push, Object
  <2>2. CASE \E val, type : PushPair(val, type)
    <3>1. PICK val, type : PushPair(val, type)
      BY <2>2
    <3>2. mem' = mem \cup {Object(rsp - 8, 8, val), Object(rsp - 16, 8, Word(type))}
      BY <3>1 DEF PushPair
    <3>3. rsp' = rsp - 16
      BY <3>1 DEF PushPair
    <3> QED
      BY <1>1, <3>2, <3>3 DEF Object
  <2>3. CASE PushAlign
    <3>1. rsp' = rsp - (rsp % 16) /\ rsp' <= rsp
      BY <1>1, <2>3 DEF PushAlign
    <3>2. \/ mem' = mem
          \/ mem' = mem \cup {Object(rsp', rsp - rsp', <<"zero", 0>>)} /\ rsp' # rsp
      BY <2>3, <3>1 DEF PushAlign
    <3> QED
      BY <1>1, <3>1, <3>2 DEF Object
  <2>4. CASE UNCHANGED <<rsp, mem>>
    BY <1>1, <2>4
  <2> QED
    BY <1>1, <2>1, <2>2, <2>3, <2>4, StackMoves, Zenon
<1>3. rsp' <= Top /\ \A o \in mem' : o.at <= Top /\ o.size > 0
  <2>1. ASSUME NEW o \in mem' PROVE o.at <= Top /\ o.size > 0
    <3>1. o.at \in Int
      BY <1>1 DEF Layout, Apart
    <3> QED
      BY <1>1, <1>2, <3>1 DEF Below
  <2> QED
    BY <1>1, <1>2, <2>1 DEF Below
<1>4. platform' = 0 \/ platform' \in rsp' .. Top
  <2>1. CASE PushPlatform
    BY <1>1, <1>3, <2>1 DEF PushPlatform
  <2>2. CASE ~PushPlatform
    <3>1. platform' = platform
      BY <2>2 DEF Next, PushArgv, PushEnvv, PushRandom, Align, PushAuxv, PushEnvp, PushArgp,
                  PushArgc, InitRegs
    <3> QED
      BY <1>1, <1>2, <3>1 DEF Below
  <2> QED
    BY <2>1, <2>2
<1>5. random' = 0 \/ random' \in rsp' .. Top
  <2>1. CASE PushRandom
    BY <1>1, <1>3, <2>1 DEF PushRandom
  <2>2. CASE ~PushRandom
    <3>1. random' = random
      BY <2>2 DEF Next, PushArgv, PushEnvv, PushPlatform, Align, PushAuxv, PushEnvp, PushArgp,
                  PushArgc, InitRegs
    <3> QED
      BY <1>1, <1>2, <3>1 DEF Below
  <2> QED
    BY <2>1, <2>2
<1>6. enoent' \in BOOLEAN
  <2>1. CASE PushAuxv
    <3>1. enoent' = (enoent \/ AuxvPlan[i] \notin host) \/ enoent' = enoent
      BY <2>1 DEF PushAuxv
    <3> QED
      BY <3>1, Zenon DEF Below
  <2>2. CASE ~PushAuxv
    <3>1. enoent' = enoent
      BY <2>2 DEF Next, PushArgv, PushEnvv, PushPlatform, PushRandom, Align, PushEnvp, PushArgp,
                  PushArgc, InitRegs
    <3> QED
      BY <3>1 DEF Below
  <2> QED
    BY <2>1, <2>2
<1>7. pc' \in {"argv", "envv", "platform", "random", "align", "auxv",
               "envp", "argp", "argc", "regs", "done"}
  BY DEF Next, PushArgv, PushEnvv, PushPlatform, PushRandom, Align, PushAuxv, PushEnvp, PushArgp,
         PushArgc, InitRegs
<1>8. pc' \in {"platform", "align", "argc", "regs", "done"} => i' = 1
  BY DEF Next, PushArgv, PushEnvv, PushPlatform, PushRandom, Align, PushAuxv, PushEnvp, PushArgp,
         PushArgc, InitRegs
<1> QED
  BY <1>3, <1>4, <1>5, <1>6, <1>7, <1>8 DEF Below
LEMMA DepthInit ==
    ASSUME NEW m, RoomFor(m), Init
    PROVE  Depth(m) /\ Below
<1>1. pc = "argv" /\ i = 1 /\ rsp = Top /\ mem = {} /\ platform = 0 /\ random = 0
  BY DEF Init
<1>2. enoent \in BOOLEAN
  BY Zenon DEF Init
<1>3. m \in Nat /\ 0 * m = 0 /\ 1 - 1 = 0 /\ Top \in Nat /\ MaxArgs \in Nat
  BY TopAssumption, BoundsAssumption DEF RoomFor
<1> QED
  BY <1>1, <1>2, <1>3 DEF Depth, Below

LEMMA DepthNext ==
    ASSUME NEW m, RoomFor(m), Sized(m), StackInv, Depth(m), Below, Next
    PROVE  Depth(m)'
<1> USE DEF At, Goto
<1>1. /\ rsp \in Int /\ rsp' \in Int /\ Top \in Nat /\ m \in Nat /\ MaxArgs \in Nat /\ MaxEnvs \in Nat
      /\ argc \in Nat /\ envc \in Nat /\ i \in Nat
  BY LayoutNext, TopAssumption, BoundsAssumption
     DEF StackInv, Layout, Apart, Counters, RoomFor, argc, envc
<1>2. argc' = argc /\ envc' = envc /\ argc <= MaxArgs /\ envc <= MaxEnvs
  BY MemGrows DEF inputs, argc, envc, Sized
<1>3. /\ MaxArgs * m \in Nat /\ MaxEnvs * m \in Nat
      /\ Floor(m) = Top - (MaxArgs * m + MaxEnvs * m) /\ Floor(m) \in Int
  BY <1>1, Products DEF Floor
<1>4. CASE PushArgv
  <2>1. pc = "argv" /\ i >= 1 /\ i <= argc + 1 /\ rsp >= Top - (i - 1) * m
    BY <1>4 DEF PushArgv, Depth, StackInv, Strung, Layout, Counters
  <2>2. PICK k \in Nat : k = i - 1
    BY <1>1, <2>1
  <2>3. k * m \in Nat /\ (k + 1) * m = k * m + m /\ (k <= MaxArgs => k * m <= MaxArgs * m)
    BY <1>1, Products
  <2>4. CASE i <= argc
    <3>1. args[i] \in Nat /\ args[i] <= m
      BY <1>1, <2>1, <2>4, StringPushed DEF StackInv, argc
    <3>2. pc' = "argv" /\ i' = i + 1 /\ rsp' = rsp - args[i]
      BY <1>4, <2>4 DEF PushArgv, Push
    <3>3. i' - 1 = k + 1 /\ rsp' >= Top - (k + 1) * m /\ i' - 1 <= MaxArgs
      BY <1>1, <1>2, <2>1, <2>2, <2>3, <2>4, <3>1, <3>2
    <3> QED
      BY <3>2, <3>3 DEF Depth
  <2>5. CASE ~(i <= argc)
    <3>1. pc' = "envv" /\ i' = 1 /\ rsp' = rsp
      BY <1>4, <2>5 DEF PushArgv
    <3>2. k <= MaxArgs
      BY <1>1, <1>2, <2>1, <2>2
    <3>3. (i' - 1) * m = 0
      BY <1>1, <3>1
    <3>4. i' - 1 <= MaxEnvs /\ rsp' >= Top - MaxArgs * m - (i' - 1) * m
      BY <1>1, <1>3, <2>1, <2>2, <2>3, <3>1, <3>2, <3>3
    <3> QED
      BY <3>1, <3>4 DEF Depth
  <2> QED
    BY <2>4, <2>5
<1>5. CASE PushEnvv
  <2>1. pc = "envv" /\ i >= 1 /\ i <= envc + 1 /\ rsp >= Top - MaxArgs * m - (i - 1) * m
    BY <1>5 DEF PushEnvv, Depth, StackInv, Strung, Layout, Counters
  <2>2. PICK k \in Nat : k = i - 1
    BY <1>1, <2>1
  <2>3. k * m \in Nat /\ (k + 1) * m = k * m + m /\ (k <= MaxEnvs => k * m <= MaxEnvs * m)
    BY <1>1, Products
  <2>4. CASE i <= envc
    <3>1. envs[i] \in Nat /\ envs[i] <= m
      BY <1>1, <2>1, <2>4, StringPushed DEF StackInv, envc
    <3>2. pc' = "envv" /\ i' = i + 1 /\ rsp' = rsp - envs[i]
      BY <1>5, <2>4 DEF PushEnvv, Push
    <3>3. i' - 1 = k + 1 /\ rsp' >= Top - MaxArgs * m - (k + 1) * m /\ i' - 1 <= MaxEnvs
      BY <1>1, <1>2, <1>3, <2>1, <2>2, <2>3, <2>4, <3>1, <3>2
    <3> QED
      BY <3>2, <3>3 DEF Depth
  <2>5. CASE ~(i <= envc)
    <3>1. pc' = "platform" /\ rsp' = rsp
      BY <1>5, <2>5 DEF PushEnvv
    <3>2. k <= MaxEnvs
      BY <1>1, <1>2, <2>1, <2>2
    <3>3. rsp' >= Floor(m)
      BY <1>1, <1>3, <2>1, <2>2, <2>3, <3>1, <3>2
    <3> QED
      BY <3>1, <3>3 DEF Depth, Floor
  <2> QED
    BY <2>4, <2>5
<1>6. CASE PushPlatform
  <2>1. pc = "platform" /\ pc' = "random" /\ i' = 1 /\ rsp' = rsp - 7
    BY <1>6 DEF PushPlatform, Push
  <2>2. rsp' >= Floor(m) - 7 - 4 * (i' - 1)
    BY <1>1, <1>3, <2>1 DEF Depth
  <2> QED
    BY <2>1, <2>2 DEF Depth, Floor
<1>7. CASE PushRandom
  <2>1. pc = "random" /\ rsp' = rsp - 4 /\ i \in 1 .. 4 /\ rsp >= Floor(m) - 7 - 4 * (i - 1)
    BY <1>7 DEF PushRandom, Push, StackInv, Strung, Depth
  <2>2. CASE i < 4
    <3>1. pc' = "random" /\ i' = i + 1
      BY <1>7, <2>2 DEF PushRandom
    <3>2. rsp' >= Floor(m) - 7 - 4 * (i' - 1)
      BY <1>1, <1>3, <2>1, <3>1
    <3> QED
      BY <3>1, <3>2 DEF Depth, Floor
  <2>3. CASE ~(i < 4)
    <3>1. pc' = "align"
      BY <1>7, <2>3 DEF PushRandom
    <3>2. rsp' >= Floor(m) - 23
      BY <1>1, <1>3, <2>1, <2>3
    <3> QED
      BY <3>1, <3>2 DEF Depth, Floor
  <2> QED
    BY <2>2, <2>3
<1>8. CASE Align
  <2>1. pc = "align" /\ pc' = "auxv" /\ i' = 1 /\ rsp' = rsp - (rsp % 16) /\ rsp >= Floor(m) - 23
    BY <1>8 DEF Align, PushAlign, Depth
  <2>2. rsp' >= rsp - 15
    BY <1>1, <2>1
  <2>3. rsp' >= Floor(m) - 38 - 16 * (i' - 1)
    BY <1>1, <1>3, <2>1, <2>2
  <2> QED
    BY <2>1, <2>3 DEF Depth, Floor
<1>9. CASE PushAuxv
  <2>1. pc = "auxv" /\ i \in 1 .. 12 /\ rsp >= Floor(m) - 38 - 16 * (i - 1)
    BY <1>9, PlanTypes DEF PushAuxv, StackInv, Blocks, Depth
  <2>2. rsp' >= rsp - 16
    <3>1. rsp' = rsp \/ rsp' = rsp - 16
      BY <1>9 DEF PushAuxv, PushPair
    <3> QED
      BY <1>1, <3>1
  <2>3. CASE i < 12
    <3>1. pc' = "auxv" /\ i' = i + 1
      BY <1>9, <2>3, PlanTypes DEF PushAuxv
    <3>2. rsp' >= Floor(m) - 38 - 16 * (i' - 1)
      BY <1>1, <1>3, <2>1, <2>2, <3>1
    <3> QED
      BY <3>1, <3>2 DEF Depth, Floor
  <2>4. CASE ~(i < 12)
    <3>1. pc' = "envp" /\ i' = envc + 1
      BY <1>9, <2>4, PlanTypes DEF PushAuxv
    <3>2. rsp' >= Floor(m) - 230 - 8 * (envc' + 1 - i')
      BY <1>1, <1>2, <1>3, <2>1, <2>2, <2>4, <3>1
    <3> QED
      BY <3>1, <3>2 DEF Depth, Floor
  <2> QED
    BY <2>3, <2>4
<1>10. CASE PushEnvp
  <2>1. /\ pc = "envp" /\ i \in 1 .. envc + 1 /\ rsp' = rsp - 8
        /\ rsp >= Floor(m) - 230 - 8 * (envc + 1 - i)
    BY <1>10 DEF PushEnvp, Push, StackInv, Blocks, Depth
  <2>2. CASE i > 1
    <3>1. pc' = "envp" /\ i' = i - 1
      BY <1>10, <2>2 DEF PushEnvp
    <3>2. rsp' >= Floor(m) - 230 - 8 * (envc' + 1 - i')
      BY <1>1, <1>2, <1>3, <2>1, <3>1
    <3> QED
      BY <3>1, <3>2 DEF Depth, Floor
  <2>3. CASE ~(i > 1)
    <3>1. pc' = "argp" /\ i' = argc + 1
      BY <1>10, <2>3 DEF PushEnvp
    <3>2. rsp' >= Floor(m) - 230 - 8 * (envc' + 1) - 8 * (argc' + 1 - i')
      BY <1>1, <1>2, <1>3, <2>1, <2>3, <3>1
    <3> QED
      BY <3>1, <3>2 DEF Depth, Floor
  <2> QED
    BY <2>2, <2>3
<1>11. CASE PushArgp
  <2>1. /\ pc = "argp" /\ i \in 1 .. argc + 1 /\ rsp' = rsp - 8
        /\ rsp >= Floor(m) - 230 - 8 * (envc + 1) - 8 * (argc + 1 - i)
    BY <1>11 DEF PushArgp, Push, StackInv, Blocks, Depth
  <2>2. CASE i > 1
    <3>1. pc' = "argp" /\ i' = i - 1
      BY <1>11, <2>2 DEF PushArgp
    <3>2. rsp' >= Floor(m) - 230 - 8 * (envc' + 1) - 8 * (argc' + 1 - i')
      BY <1>1, <1>2, <1>3, <2>1, <3>1
    <3> QED
      BY <3>1, <3>2 DEF Depth, Floor
  <2>3. CASE ~(i > 1)
    <3>1. pc' = "argc"
      BY <1>11, <2>3 DEF PushArgp
    <3>2. rsp' >= Floor(m) - 230 - 8 * (envc' + 1) - 8 * (argc' + 1)
      BY <1>1, <1>2, <1>3, <2>1, <2>3
    <3> QED
      BY <3>1, <3>2 DEF Depth, Floor
  <2> QED
    BY <2>2, <2>3
<1>12. CASE PushArgc
  <2>1. /\ pc = "argc" /\ pc' = "regs" /\ rsp' = rsp - 8
        /\ rsp >= Floor(m) - 230 - 8 * (envc + 1) - 8 * (argc + 1)
    BY <1>12 DEF PushArgc, Push, Depth
  <2>2. rsp' >= Floor(m) - 238 - 8 * (envc' + 1) - 8 * (argc' + 1)
    BY <1>1, <1>2, <1>3, <2>1
  <2> QED
    BY <2>1, <2>2 DEF Depth, Floor
<1>13. CASE InitRegs
  <2>1. pc = "regs" /\ pc' = "done" /\ rsp' = rsp
    BY <1>13 DEF InitRegs
  <2> QED
    BY <1>2, <2>1 DEF Depth, Floor
<1> QED
  BY <1>4, <1>5, <1>6, <1>7, <1>8, <1>9, <1>10, <1>11, <1>12, <1>13 DEF Next

LEMMA SeqOfRange ==
    ASSUME NEW S, NEW T, NEW s \in Seq(S), \A k \in 1 .. Len(s) : s[k] \in T
    PROVE  s \in Seq(T)
<1>1. Len(s) \in Nat /\ s \in [1 .. Len(s) -> S]
  OBVIOUS
<1>2. s \in [1 .. Len(s) -> T]
  BY <1>1
<1> QED
  BY <1>1, <1>2

LEMMA RoomMeansTyped ==
    ASSUME NEW m, RoomFor(m), Sized(m), StackInv, Depth(m), Below
    PROVE  TypeOK
<1>1. /\ rsp \in Int /\ Top \in Nat /\ m \in Nat /\ MaxArgs \in Nat /\ MaxEnvs \in Nat
      /\ argc \in Nat /\ envc \in Nat /\ i \in Nat /\ argc <= MaxArgs /\ envc <= MaxEnvs
  BY TopAssumption, BoundsAssumption
     DEF StackInv, Layout, Apart, Counters, RoomFor, Sized, argc, envc
<1>2. /\ MaxArgs * m \in Nat /\ MaxEnvs * m \in Nat
      /\ Floor(m) = Top - (MaxArgs * m + MaxEnvs * m) /\ Floor(m) \in Int
      /\ Floor(m) >= 238 + 8 * (MaxArgs + 1) + 8 * (MaxEnvs + 1)
  BY <1>1, Products DEF Floor, RoomFor
<1>3. rsp >= 0
  <2>1. CASE pc = "argv"
    <3>1. i - 1 \in Nat /\ i - 1 <= MaxArgs /\ rsp >= Top - (i - 1) * m
      BY <1>1, <2>1 DEF Depth, StackInv, Layout, Counters
    <3>2. (i - 1) * m \in Nat /\ (i - 1) * m <= MaxArgs * m
      BY <1>1, <3>1, Products
    <3> QED
      BY <1>1, <1>2, <3>1, <3>2
  <2>2. CASE pc = "envv"
    <3>1. i - 1 \in Nat /\ i - 1 <= MaxEnvs /\ rsp >= Top - MaxArgs * m - (i - 1) * m
      BY <1>1, <2>2 DEF Depth, StackInv, Layout, Counters
    <3>2. (i - 1) * m \in Nat /\ (i - 1) * m <= MaxEnvs * m
      BY <1>1, <3>1, Products
    <3> QED
      BY <1>1, <1>2, <3>1, <3>2
  <2>3. CASE pc \in {"platform", "random", "align", "auxv"}
    <3>1. /\ pc = "random" => i \in 1 .. 4
          /\ pc = "auxv" => i \in 1 .. 12
      BY PlanTypes DEF StackInv, Strung, Blocks
    <3> QED
      BY <1>1, <1>2, <2>3, <3>1 DEF Depth
  <2>4. CASE pc \in {"envp", "argp", "argc", "regs", "done"}
    <3>1. /\ pc = "envp" => i \in 1 .. envc + 1
          /\ pc = "argp" => i \in 1 .. argc + 1
      BY DEF StackInv, Blocks
    <3> QED
      BY <1>1, <1>2, <2>4, <3>1 DEF Depth
  <2> QED
    BY <2>1, <2>2, <2>3, <2>4 DEF Below
<1>4. i \in 0 .. Len(AuxvPlan) + MaxArgs + MaxEnvs
  <2>1. i <= argc + 1 \/ i <= envc + 1 \/ i <= 12
    BY <1>1, PlanTypes DEF StackInv, Strung, Blocks, Below
  <2>2. MaxArgs >= 1
    BY BoundsAssumption
  <2> QED
    BY <1>1, <2>1, <2>2, PlanTypes
<1>5. \A o \in mem : o.at \in rsp .. Top /\ o.size \in Nat \ {0}
  <2>1. ASSUME NEW o \in mem PROVE o.at \in rsp .. Top /\ o.size \in Nat \ {0}
    <3>1. /\ o.at \in Int /\ o.size \in Int /\ o.at >= rsp /\ o.at <= Top /\ o.size > 0
      BY DEF StackInv, Layout, Apart, Below
    <3> QED
      BY <1>1, <3>1
  <2> QED
    BY <2>1
<1>6. \A addr, val : Begins(addr, val) => addr \in 0 .. Top
  BY <1>1, <1>3, <1>5 DEF Begins
<1>7. argvp \in Seq(0 .. Top) /\ Len(argvp) <= argc
  <2>1. argvp \in Seq(Int) /\ \A k \in 1 .. Len(argvp) : argvp[k] \in 0 .. Top
    BY <1>6 DEF StackInv, Strung
  <2>3. argvp \in Seq(0 .. Top)
    BY <2>1, SeqOfRange
  <2>2. Len(argvp) <= argc
    BY <1>1 DEF StackInv, Strung
  <2> QED
    BY <2>2, <2>3
<1>8. envvp \in Seq(0 .. Top) /\ Len(envvp) <= envc
  <2>1. envvp \in Seq(Int) /\ \A k \in 1 .. Len(envvp) : envvp[k] \in 0 .. Top
    BY <1>6 DEF StackInv, Strung
  <2>3. envvp \in Seq(0 .. Top)
    BY <2>1, SeqOfRange
  <2>2. Len(envvp) <= envc
    BY <1>1 DEF StackInv, Strung
  <2> QED
    BY <2>2, <2>3
<1>9. platform \in 0 .. Top /\ random \in 0 .. Top
  BY <1>1, <1>3 DEF Below
<1>10. rsp \in 0 .. Top
  BY <1>1, <1>3 DEF Below
<1> QED
  BY <1>4, <1>5, <1>7, <1>8, <1>9, <1>10 DEF TypeOK, Below
\* If the strings are at most m bytes long and the stack has room for what
\* the bounds allow, every pointer x64stack_setup notes and the stack pointer
\* itself stay inside the stack (the code maps 1 GiB, stack.c:25, and checks
\* no push).
THEOREM StackTyped ==
    ASSUME NEW CONSTANT m, RoomFor(m)
    PROVE  Spec => []TypeOK
<1>1. Init => Sized(m) /\ Depth(m) /\ Below
  BY SizedInit, DepthInit
<1>2. StackInv /\ Sized(m) /\ Depth(m) /\ Below /\ [Next]_vars => (Sized(m) /\ Depth(m) /\ Below)'
  <2>1. ASSUME StackInv, Sized(m), Depth(m), Below, Next
        PROVE  (Sized(m) /\ Depth(m) /\ Below)'
    <3>1. UNCHANGED <<args, envs>>
      BY <2>1, MemGrows DEF inputs
    <3>2. Sized(m)'
      BY <2>1, <3>1 DEF Sized, argc, envc
    <3> QED
      BY <2>1, <3>2, DepthNext, BelowNext
  <2>2. ASSUME Sized(m), Depth(m), Below, UNCHANGED vars
        PROVE  (Sized(m) /\ Depth(m) /\ Below)'
    <3>1. UNCHANGED <<args, envs, pc, i, rsp, mem, platform, random, enoent>>
      BY <2>2 DEF vars, inputs
    <3> QED
      BY <2>2, <3>1 DEF Sized, Depth, Below, Floor, argc, envc
  <2> QED
    BY <2>1, <2>2
<1>3. StackInv /\ Sized(m) /\ Depth(m) /\ Below => TypeOK
  BY RoomMeansTyped
<1> QED
  BY <1>1, <1>2, <1>3, StackInvariant, PTL DEF Spec
=============================================================================
