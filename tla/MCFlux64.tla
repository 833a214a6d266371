------------------------------ MODULE MCFlux64 ------------------------------
(***************************************************************************)
(* Binaries of up to three program headers: text, data that starts inside  *)
(* its block, read-only data, a header to skip, a shared block.            *)
(***************************************************************************)
EXTENDS Flux64

Header(load, vaddr, memsz, filesz, offset, align, r) ==
    [load |-> load, vaddr |-> vaddr, memsz |-> memsz, filesz |-> filesz,
     offset |-> offset, align |-> align, rights |-> r]

MCHeaders == {
    Header(TRUE, 0, 3, 3, 0, 2, {"R", "X"}),
    Header(TRUE, 5, 3, 1, 3, 4, {"R", "W"}),        \* starts inside its block
    Header(TRUE, 9, 2, 2, 1, 2, {"R"}),
    Header(TRUE, 3, 1, 1, 2, 2, {"R", "W"}),        \* in the last page of the first
    Header(FALSE, 0, 2, 2, 0, 4, {"R"})}

MCTables == UNION {[1 .. n -> MCHeaders] : n \in 0 .. 3}
=============================================================================
