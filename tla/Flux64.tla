------------------------------- MODULE Flux64 -------------------------------
(***************************************************************************)
(* The life of a flux64 process (main.c): the context and its stack are    *)
(* set up, the binary is loaded (ElfLoader), the guest runs, and what was  *)
(* mapped is released, from main or from the guest's exit system call.     *)
(* Every munmap may fail; releasing goes on with the rest.                 *)
(*                                                                         *)
(* The stack is one mapping here (X64Stack has its contents), and the      *)
(* guest is a program that may run forever, stop, exit or crash.           *)
(***************************************************************************)
EXTENDS ElfLoader

CONSTANT Statuses    \* EDI as the guest passes it to its exit system call

ASSUME StatusesAssumption == Statuses \subseteq Nat

VARIABLES
    main,        \* what the process is doing
    stack,       \* ctx->stack: "none" or "mapped"
    freeing,     \* the segment segments_free is at
    failures,    \* the segments whose munmap failed, and 0 for the stack's
    status,      \* the status passed to the exit system call, NoStatus before
    exit         \* exit status of the process, NoStatus before

NoStatus == -1
Killed == 256     \* by a signal: no exit status of its own

mainVars == <<main, stack, freeing, failures, status, exit>>
vars == <<loaderVars, mainVars>>

-----------------------------------------------------------------------------
(* main *)

Exit(code) == main' = "exited" /\ exit' = code

\* No argument: the usage is printed.
Usage ==
    /\ main = "start"
    /\ Exit(1)
    /\ UNCHANGED <<loaderVars, stack, freeing, failures, status>>

\* x64context_init, x64stack_init: the mmap of the stack.
ContextInit ==
    /\ main = "start"
    /\ \/ stack' = "mapped" /\ main' = "load" /\ UNCHANGED exit
       \/ Exit(1) /\ UNCHANGED stack
    /\ UNCHANGED <<loaderVars, freeing, failures, status>>

Load ==
    /\ main = "load" /\ pc \notin {"loaded", "failed", "crashed"}
    /\ LoaderNext
    /\ UNCHANGED mainVars

LoadFails ==
    /\ main = "load" /\ pc = "failed"
    /\ Exit(1)
    /\ UNCHANGED <<loaderVars, stack, freeing, failures, status>>

\* A fault of the loader is one of the process.
LoadCrashes ==
    /\ main = "load" /\ pc = "crashed"
    /\ Exit(Killed)
    /\ UNCHANGED <<loaderVars, stack, freeing, failures, status>>

\* Mutant: the result of elfloader_load is not looked at.
EmuInit_Unchecked ==
    /\ main = "load" /\ pc \in {"loaded", "failed"}
    /\ main' = "run"
    /\ UNCHANGED <<loaderVars, stack, freeing, failures, status, exit>>

\* x64emu_init fails for a missing argument only.
EmuInit ==
    /\ main = "load" /\ pc = "loaded"
    /\ main' = "run"
    /\ UNCHANGED <<loaderVars, stack, freeing, failures, status, exit>>

\* x64emu_run returns: an opcode or a system call is not implemented.
RunReturns ==
    /\ main = "run"
    /\ main' = "freeStack"
    /\ UNCHANGED <<loaderVars, stack, freeing, failures, status, exit>>

\* SYS_exit releases everything from inside the guest's instruction.
SysExit ==
    /\ main = "run"
    /\ status' \in Statuses
    /\ main' = "freeStack"
    /\ UNCHANGED <<loaderVars, stack, freeing, failures, exit>>

\* A fault of the guest is one of the emulator.
GuestCrashes ==
    /\ main = "run"
    /\ Exit(Killed)
    /\ UNCHANGED <<loaderVars, stack, freeing, failures, status>>

-----------------------------------------------------------------------------
(* x64context_free *)

\* x64stack_free
FreeStack ==
    /\ main = "freeStack"
    /\ \/ stack' = "none" /\ UNCHANGED failures
       \/ failures' = {0} /\ UNCHANGED stack
    /\ main' = "freeSegments"
    /\ UNCHANGED <<loaderVars, freeing, status, exit>>

\* munmap of whole pages.
Unmap(range) ==
    /\ mem' = [a \in Addrs |-> IF a \in range THEN Unmapped ELSE mem[a]]
    /\ rights' = [p \in Pages |-> IF \E a \in range : Page(a) = p THEN {} ELSE rights[p]]

\* Mutant: the index is forgotten.
unmapped_First == Block(segments[1].base, segments[1].size)

unmapped == Block(segments[freeing].base, segments[freeing].size)

\* Mutant: the loop stops at the first munmap that fails.
FreeSegment_StopsAtFailure ==
    /\ main = "freeSegments" /\ freeing <= segmentsLen
    /\ \/ /\ Unmap(unmapped)
          /\ freeing' = freeing + 1
          /\ UNCHANGED failures
       \/ /\ failures' = failures \cup {freeing}
          /\ freeing' = segmentsLen + 1
          /\ UNCHANGED <<mem, rights>>
    /\ UNCHANGED <<table, pc, k, file, segments, segmentsLen, array, ioError,
                   main, stack, status, exit>>

\* Mutant: the loop counter is not advanced.
FreeSegment_Stays ==
    /\ main = "freeSegments" /\ freeing <= segmentsLen
    /\ \/ /\ Unmap(unmapped)
          /\ UNCHANGED failures
       \/ failures' = failures \cup {freeing} /\ UNCHANGED <<mem, rights>>
    /\ UNCHANGED <<table, pc, k, file, segments, segmentsLen, array, ioError,
                   main, stack, freeing, status, exit>>

\* The loop of segments_free.
FreeSegment ==
    /\ main = "freeSegments" /\ freeing <= segmentsLen
    /\ \/ /\ Unmap(unmapped)
          /\ UNCHANGED failures
       \/ failures' = failures \cup {freeing} /\ UNCHANGED <<mem, rights>>
    /\ freeing' = freeing + 1
    /\ UNCHANGED <<table, pc, k, file, segments, segmentsLen, array, ioError,
                   main, stack, status, exit>>

\* The segments whose munmap failed.
lost == failures \ {0}

\* Mutant: the exit status of the guest is only used when releasing succeeds.
Leave_StatusIfFreed ==
    /\ main = "freeSegments" /\ freeing > segmentsLen
    /\ Exit(IF failures # {} THEN 1 ELSE IF status # NoStatus THEN status % 256 ELSE 0)
    /\ IF lost # {} THEN UNCHANGED <<segments, segmentsLen>>
                    ELSE segments' = <<>> /\ segmentsLen' = 0
    /\ UNCHANGED <<table, pc, k, file, mem, rights, array, ioError,
                   stack, freeing, failures, status>>

\* Mutant: the array is not freed.
Leave_KeepsArray ==
    /\ main = "freeSegments" /\ freeing > segmentsLen
    /\ Exit(IF status # NoStatus THEN status % 256 ELSE IF failures = {} THEN 0 ELSE 1)
    /\ segmentsLen' = IF lost # {} THEN segmentsLen ELSE 0
    /\ UNCHANGED <<table, pc, k, file, mem, rights, segments, array, ioError,
                   stack, freeing, failures, status>>

\* The end of segments_free, and back in main or in x64syscall.  The array
\* is freed only if all of its segments were unmapped.
Leave ==
    /\ main = "freeSegments" /\ freeing > segmentsLen
    /\ Exit(IF status # NoStatus THEN status % 256 ELSE IF failures = {} THEN 0 ELSE 1)
    /\ IF lost # {} THEN UNCHANGED <<segments, segmentsLen>>
                    ELSE segments' = <<>> /\ segmentsLen' = 0
    /\ UNCHANGED <<table, pc, k, file, mem, rights, array, ioError,
                   stack, freeing, failures, status>>

-----------------------------------------------------------------------------
Init ==
    /\ LoaderInit
    /\ main = "start" /\ stack = "none"
    /\ freeing = 1 /\ failures = {}
    /\ status = NoStatus /\ exit = NoStatus

\* What the emulator does on its own; how long the guest runs is up to it.
Setup == Usage \/ ContextInit \/ Load \/ LoadFails \/ LoadCrashes \/ EmuInit
Guest == RunReturns \/ SysExit \/ GuestCrashes
Release == FreeStack \/ FreeSegment \/ Leave

Next == Setup \/ Guest \/ Release

Spec == Init /\ [][Next]_vars /\ WF_vars(Setup \/ Release)

-----------------------------------------------------------------------------
TypeOK ==
    /\ LoaderTypeOK
    /\ main \in {"start", "load", "run", "freeStack", "freeSegments", "exited"}
    /\ stack \in {"none", "mapped"}
    /\ freeing \in 1 .. Len(table) + 1
    /\ failures \subseteq 0 .. Len(table)
    /\ status \in Statuses \cup {NoStatus}
    /\ exit \in -1 .. Killed

\* The guest only runs with everything in place: a stack, the whole binary,
\* and a record of it for segments_free (main.c:14-27).
RunsWhenLoaded ==
    main = "run" =>
        /\ stack = "mapped" /\ ImageComplete /\ pc = "loaded"
        /\ Mapped = UNION {Block(segments[s].base, segments[s].size) : s \in 1 .. segmentsLen}

BlocksOf(S) == UNION {Block(segments[s].base, segments[s].size) : s \in S}

\* What is left when a process ends after a run is what a munmap failed for,
\* exactly: a failure, of the stack or of a segment, does not keep the rest
\* from being released (context.c:19-27, 57-63), and the array that says
\* where the segments are is given up only if none of them is left.  A
\* process whose loading failed (main.c:18) releases nothing of what it
\* recorded: that is left to the kernel.
ReleasesEverything ==
    /\ main = "exited" /\ pc = "loaded" /\ exit # Killed =>
          /\ stack = "mapped" <=> 0 \in failures
          /\ lost = {} => Mapped = {} /\ segmentsLen = 0
          /\ lost # {} =>
                /\ lost \subseteq 1 .. segmentsLen
                /\ Mapped = BlocksOf(lost) \ BlocksOf(1 .. segmentsLen \ lost)
    /\ main = "exited" /\ pc \in {"failed", "crashed"} =>
          stack = "mapped" /\ BlocksOf(1 .. Len(segments)) \subseteq Mapped

\* No page is unmapped that is not one of the binary's: when blocks are
\* disjoint, each munmap of segments_free finds its whole block mapped.
UnmapsOnlyMapped ==
    main = "freeSegments" /\ freeing <= segmentsLen /\ BlocksDisjoint => unmapped \subseteq Mapped

\* What the parent process learns: the low byte of the guest's status if it
\* exited, whatever munmap said; 1 if it never ran; and after a run that
\* ended otherwise whether all was released (main.c:29-33).
ExitStatus ==
    main = "exited" /\ exit # Killed =>
        exit = IF status # NoStatus THEN status % 256
               ELSE IF pc = "loaded" /\ failures = {} THEN 0 ELSE 1

\* The setup comes to an end, and so does the release: after the guest, the
\* process exits.
ProcessEnds ==
    /\ <>(main \in {"run", "exited"})
    /\ (main = "freeStack") ~> (main = "exited")
=============================================================================
