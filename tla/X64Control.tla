----------------------------- MODULE X64Control -----------------------------
(***************************************************************************)
(* The stack and the control flow of the guest: PUSH, POP, CALL, RET,      *)
(* LEAVE and jumps, in the widths that the prefixes 66 and 67 select, mixed*)
(* with moves of the stack pointer and with stores to the stack.           *)
(*                                                                         *)
(* The unit of memory is the 16-bit cell: addresses count cells, and a cell*)
(* has Base values.  A 64-bit value is four cells, a 32-bit one two.  All  *)
(* instructions are one cell long.  `frames` is a history variable: the    *)
(* places of the return addresses still on the stack.                      *)
(***************************************************************************)
EXTENDS Integers

CONSTANTS
    Base,        \* values of a cell
    Top,         \* the stack is the cells below Top
    Entry,       \* the guest's entry point
    Imms,        \* immediate operands, sign extended
    Rels,        \* distances of relative jumps and calls
    Displs,      \* displacements of operands [rsp + d]
    Adjusts,     \* what the guest adds to rsp, and the operands of RET imm16
    MaxInstrs    \* bound on the instructions of a run

Size == Base * Base * Base * Base
Half == Base * Base
Values == 0 .. Size - 1

ASSUME BaseAssumption == Base \in Nat /\ Base >= 2
ASSUME TopAssumption == Top \in Nat /\ Top < Size /\ Entry \in Values
ASSUME OperandsAssumption ==
    /\ Imms \subseteq Int /\ Rels \subseteq Int /\ Displs \subseteq Int
    /\ Adjusts \subseteq Int
ASSUME MaxInstrsAssumption == MaxInstrs \in Nat

VARIABLES
    rip,         \* r_rip
    rsp,         \* r_rsp
    rbp,         \* r_rbp
    mem,         \* the stack's cells
    frames,      \* history: from addresses of return addresses to their cells
    instrs       \* instructions executed, for the bound alone

vars == <<rip, rsp, rbp, mem, frames, instrs>>

Addresses == 0 .. Top - 1
Cells == 0 .. Base - 1
Registers == {"rsp", "rbp"}

-----------------------------------------------------------------------------
(* Values and cells. *)

\* Mutant: addresses are computed in a wider type.
Wrap_Wider(x) == x

Wrap(x) == x % Size

Cell(v, i) ==
    CASE i = 0 -> v % Base
      [] i = 1 -> (v \div Base) % Base
      [] i = 2 -> ((v \div Base) \div Base) % Base
      [] i = 3 -> (((v \div Base) \div Base) \div Base) % Base

\* The value of the n cells at an address.
Read(m, a, n) ==
    CASE n = 1 -> m[a]
      [] n = 2 -> m[a] + Base * m[a + 1]
      [] n = 4 -> m[a] + Base * (m[a + 1] + Base * (m[a + 2] + Base * m[a + 3]))

Write(m, a, v, n) ==
    [x \in Addresses |-> IF x \in a .. a + n - 1 THEN Cell(v, x - a) ELSE m[x]]

\* A write to the low n cells of a register keeps the others.
Modulus(n) == CASE n = 1 -> Base [] n = 2 -> Half [] n = 4 -> Size
Insert(v, low, n) == (v - (v % Modulus(n))) + (low % Modulus(n))

\* Beyond the stack's memory the process faults.
Mapped(a, n) == a >= 0 /\ a + n <= Top

Reg(r) == IF r = "rsp" THEN rsp ELSE rbp

-----------------------------------------------------------------------------
(* One instruction: what the decoder and the bound do, and which return    *)
(* addresses are still on the stack.  `new` is a frame it adds.            *)

Fall == Wrap(rip + 1)

NoFrame == [a \in {} |-> 0]

Frames(new, sp) ==
    [a \in {b \in DOMAIN frames \cup DOMAIN new : b >= sp} |->
        IF a \in DOMAIN new THEN new[a] ELSE frames[a]]

Instr(new) ==
    /\ instrs < MaxInstrs
    /\ instrs' = instrs + 1
    /\ frames' = Frames(new, rsp')

\* The guest does not store over a return address.
Spares(a, n) == \A f \in DOMAIN frames : f + frames[f] <= a \/ a + n <= f

-----------------------------------------------------------------------------
(* push_16, push_32, push_64: the stack pointer moves first. *)

\* Mutant: the value is stored where the stack pointer was.
Push_StoresFirst(v, n) ==
    /\ Mapped(rsp - n, n) /\ Mapped(rsp, n)
    /\ rsp' = rsp - n
    /\ mem' = Write(mem, rsp, v, n)

Push(v, n) ==
    /\ Mapped(rsp - n, n)
    /\ rsp' = rsp - n
    /\ mem' = Write(mem, rsp - n, v, n)

PushReg(r, n) ==
    /\ Push(Reg(r), n)
    /\ rip' = Fall
    /\ UNCHANGED rbp
    /\ Instr(NoFrame)

PushImm(imm, n) ==
    /\ Push(Wrap(imm), n)
    /\ rip' = Fall
    /\ UNCHANGED rbp
    /\ Instr(NoFrame)

\* The register is written after the stack pointer has moved: POP rsp loads.
PopReg(r, n) ==
    LET v == Read(mem, rsp, n)
    IN  /\ Mapped(rsp, n)
        /\ rsp' = IF r = "rsp" THEN Insert(rsp + n, v, n) ELSE rsp + n
        /\ rbp' = IF r = "rbp" THEN Insert(rbp, v, n) ELSE rbp
        /\ rip' = Fall
        /\ UNCHANGED mem
        /\ Instr(NoFrame)

\* POP [rsp + d]: the destination is computed before the stack pointer moves.
PopMem(d, n) ==
    /\ Mapped(rsp, n) /\ Mapped(rsp + d, n) /\ Spares(rsp + d, n)
    /\ rsp' = rsp + n
    /\ mem' = Write(mem, rsp + d, Read(mem, rsp, n), n)
    /\ rip' = Fall
    /\ UNCHANGED rbp
    /\ Instr(NoFrame)

\* With prefix 66 r_sp = r_bp and r_bp = pop_16: the low cells alone.
Leave(n) ==
    LET from == IF n = 1 THEN Insert(rsp, rbp, 1) ELSE rbp
    IN  /\ Mapped(from, n)
        /\ rsp' = from + n
        /\ rbp' = Insert(rbp, Read(mem, from, n), n)
        /\ rip' = Fall
        /\ UNCHANGED mem
        /\ Instr(NoFrame)

-----------------------------------------------------------------------------
(* Control flow.  With prefix 67 CALL and RET push and pop r_eip. *)

Called(n) == [a \in {rsp - n} |-> n]

CallRel(rel, n) ==
    /\ Push(Fall, n)
    /\ rip' = Wrap(Fall + rel)
    /\ UNCHANGED rbp
    /\ Instr(Called(n))

\* CALL rsp, CALL rbp: the register is read after the push.
CallReg(r, n) ==
    /\ Push(Fall, n)
    /\ rip' = IF r = "rsp" THEN rsp' ELSE rbp
    /\ UNCHANGED rbp
    /\ Instr(Called(n))

\* Mutant: the address, too, is computed after the push.
CallMem_AddressLate(d) ==
    /\ Push(Fall, 4)
    /\ Mapped(rsp + d, 4) /\ Mapped(rsp - 4 + d, 4)
    /\ rip' = Read(mem', rsp' + d, 4)
    /\ UNCHANGED rbp
    /\ Instr(Called(4))

\* CALL [rsp + d]: the address is computed before the push, the target read
\* from memory after it.  (With prefix 67 the address is NULL: the guest ends.)
CallMem(d) ==
    /\ Push(Fall, 4)
    /\ Mapped(rsp + d, 4)
    /\ rip' = Read(mem', rsp + d, 4)
    /\ UNCHANGED rbp
    /\ Instr(Called(4))

\* JMP rel and Jcc, taken; a Jcc that is not taken is a step to Fall.
JmpRel(rel) ==
    /\ rip' = Wrap(Fall + rel)
    /\ UNCHANGED <<rsp, rbp, mem>>
    /\ Instr(NoFrame)

JmpReg(r) ==
    /\ rip' = Reg(r)
    /\ UNCHANGED <<rsp, rbp, mem>>
    /\ Instr(NoFrame)

JmpMem(d) ==
    /\ Mapped(rsp + d, 4)
    /\ rip' = Read(mem, rsp + d, 4)
    /\ UNCHANGED <<rsp, rbp, mem>>
    /\ Instr(NoFrame)

\* The guest returns where it was called, in the width of the call.
Ret(n, imm) ==
    /\ rsp \in DOMAIN frames /\ frames[rsp] = n
    /\ imm >= 0 /\ rsp + n + imm <= Top
    /\ rip' = Insert(Fall, Read(mem, rsp, n), n)
    /\ rsp' = rsp + n + imm
    /\ UNCHANGED <<rbp, mem>>
    /\ Instr(NoFrame)

-----------------------------------------------------------------------------
(* What else a guest does to its stack. *)

\* MOV rbp, rsp and MOV rsp, rbp
MovReg(dst, src) ==
    /\ dst # src
    /\ rsp' = IF dst = "rsp" THEN rbp ELSE rsp
    /\ rbp' = IF dst = "rbp" THEN rsp ELSE rbp
    /\ rip' = Fall
    /\ UNCHANGED mem
    /\ Instr(NoFrame)

\* ADD rsp, imm and SUB rsp, imm
Adjust(k) ==
    /\ rsp' = Wrap(rsp + k)
    /\ rip' = Fall
    /\ UNCHANGED <<rbp, mem>>
    /\ Instr(NoFrame)

\* MOV [rsp + d], imm
StoreImm(d, imm) ==
    /\ Mapped(rsp + d, 4) /\ Spares(rsp + d, 4)
    /\ mem' = Write(mem, rsp + d, Wrap(imm), 4)
    /\ rip' = Fall
    /\ UNCHANGED <<rsp, rbp>>
    /\ Instr(NoFrame)

-----------------------------------------------------------------------------
Init ==
    /\ rip = Entry
    /\ rsp = Top
    /\ rbp = 0
    /\ mem = [a \in Addresses |-> 0]
    /\ frames = NoFrame
    /\ instrs = 0

Next ==
    \/ \E r \in Registers, n \in {1, 4} : PushReg(r, n) \/ PopReg(r, n)
    \/ \E imm \in Imms, n \in {1, 4} : PushImm(imm, n)
    \/ \E d \in Displs, n \in {1, 4} : PopMem(d, n)
    \/ \E n \in {1, 4} : Leave(n)
    \/ \E rel \in Rels, n \in {2, 4} : CallRel(rel, n)
    \/ \E r \in Registers, n \in {2, 4} : CallReg(r, n)
    \/ \E d \in Displs : CallMem(d)
    \/ \E rel \in Rels : JmpRel(rel)
    \/ \E r \in Registers : JmpReg(r)
    \/ \E d \in Displs : JmpMem(d)
    \/ \E n \in {2, 4}, imm \in Adjusts \cup {0} : Ret(n, imm)
    \/ \E dst, src \in Registers : MovReg(dst, src)
    \/ \E k \in Adjusts : Adjust(k)
    \/ \E d \in Displs, imm \in Imms : StoreImm(d, imm)

Spec == Init /\ [][Next]_vars

-----------------------------------------------------------------------------
(* Return addresses lie on the stack, above the stack pointer and apart    *)
(* from each other, for all that the widths are mixed and rsp is moved.    *)
FramesOK ==
    \A a \in DOMAIN frames :
        /\ rsp <= a /\ a + frames[a] <= Top
        /\ \A b \in DOMAIN frames : a < b => a + frames[a] <= b

TypeOK ==
    /\ rip \in Values /\ rsp \in Values /\ rbp \in Values
    /\ mem \in [Addresses -> Cells]
    /\ frames \in [DOMAIN frames -> {2, 4}]
    /\ DOMAIN frames \subseteq Addresses
    /\ instrs \in 0 .. MaxInstrs
    /\ FramesOK

(* A guest that returns where it was called, in the width of the call, and *)
(* does not store over return addresses gets the call stack it expects:    *)
(* every RET goes behind the CALL that made its frame, whatever was pushed,*)
(* popped, left or moved in between.  A frame's return address is read from*)
(* memory, so this is about what pushes and pops write.                    *)
CallStack == INSTANCE X64CallStack WITH
    pc <- rip,
    callers <- [a \in DOMAIN frames |->
                   [whole |-> frames[a] = 4, ret |-> Read(mem, a, frames[a])]],
    Positions <- Values

CallsReturn == CallStack!Spec

(* Instructions whose operand depends on the stack pointer they move: PUSH *)
(* stores the value from before; CALL goes where its operand pointed before*)
(* the return address was pushed, unless the operand is rsp itself or lies *)
(* in the cells pushed, which is where the code departs from the           *)
(* architecture; POP to memory writes where the operand pointed before,    *)
(* n cells below the architecture's place.                                 *)
OperandsOfRsp ==
    [][/\ \A r \in Registers, n \in {1, 4} :
             PushReg(r, n) => Read(mem', rsp', n) = Reg(r) % Modulus(n)
       /\ \A r \in Registers, n \in {2, 4} :
             CallReg(r, n) => (rip' = Reg(r) <=> r # "rsp")
       /\ \A d \in Displs :
             (CallMem(d) /\ (d >= 0 \/ d <= 0 - 8)) => rip' = Read(mem, rsp + d, 4)
       /\ \A d \in Displs, n \in {1, 4} :
             PopMem(d, n) =>
                /\ Read(mem', (rsp' + d) - n, n) = Read(mem, rsp, n)
                /\ \A a \in Addresses \ (rsp + d .. rsp + d + n - 1) :
                      mem'[a] = mem[a]]_vars
=============================================================================
