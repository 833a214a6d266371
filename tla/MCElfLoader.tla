---------------------------- MODULE MCElfLoader ----------------------------
(***************************************************************************)
(* Binaries of up to three program headers on pages of two bytes: text and *)
(* data with and without zeros behind the file's bytes, unaligned starts,  *)
(* blocks of one and two pages, shared blocks, headers to skip.            *)
(***************************************************************************)
EXTENDS ElfLoader

Header(load, vaddr, memsz, filesz, offset, align, r) ==
    [load |-> load, vaddr |-> vaddr, memsz |-> memsz, filesz |-> filesz,
     offset |-> offset, align |-> align, rights |-> r]

Text == Header(TRUE, 0, 3, 3, 0, 2, {"R", "X"})
Data == Header(TRUE, 5, 3, 1, 3, 4, {"R", "W"})        \* starts inside its block
Rodata == Header(TRUE, 9, 2, 2, 1, 2, {"R"})
Bss == Header(TRUE, 8, 2, 0, 0, 2, {"R", "W"})         \* nothing in the file
Shared == Header(TRUE, 3, 1, 1, 2, 2, {"R", "W"})      \* in the last page of Text
Packed == Header(TRUE, 7, 2, 2, 0, 1, {"R"})           \* alignment below the page size
Unaligned == Header(TRUE, 3, 2, 2, 1, 0, {"R"})        \* p_align = 0
Truncated == Header(TRUE, 4, 3, 3, 3, 2, {"R"})        \* ends behind the file
Note == Header(FALSE, 0, 2, 2, 0, 4, {"R"})
Empty == Header(TRUE, 2, 0, 0, 0, 2, {"R"})
NoRights == Header(TRUE, 2, 1, 1, 0, 2, {})

MCHeaders == {Text, Data, Rodata, Bss, Shared, Packed, Unaligned, Truncated, Note, Empty, NoRights}
MCTables == UNION {[1 .. n -> MCHeaders] : n \in 0 .. 3}
=============================================================================
