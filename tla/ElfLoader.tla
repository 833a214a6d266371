----------------------------- MODULE ElfLoader -----------------------------
(***************************************************************************)
(* elfloader_load: the program headers of a binary are read, and each      *)
(* loadable segment is mapped over its alignment block, filled from the    *)
(* file, extended with zeros and protected.  Any call into the system may  *)
(* fail, between any two steps.                                            *)
(*                                                                         *)
(* Memory maps an address to what is there: Unmapped, 0, or o + 1 for the  *)
(* byte at offset o of the file.  The access rights of a page are a set.   *)
(***************************************************************************)
EXTENDS Integers, Sequences, FiniteSets

CONSTANTS
    Tables,      \* the program header tables that a binary may have
    FileLen,     \* length of the binary
    PageSize,    \* ctx->page_size
    Addresses    \* number of addresses modelled, a multiple of PageSize

Unmapped == -1

\* A program header: load is p_type = PT_LOAD, rights are the three p_flags.
Headers == [load : BOOLEAN, vaddr : Nat, memsz : Nat, filesz : Nat, offset : Nat,
            align : Nat, rights : SUBSET {"R", "W", "X"}]

ASSUME SizesAssumption ==
    /\ PageSize \in Nat \ {0} /\ Addresses \in Nat /\ FileLen \in Nat
    /\ Addresses % PageSize = 0

PowerOfTwo(n) == n > 0 /\ \A d \in 2 .. n : n % d = 0 => d % 2 = 0

\* The ELF specification: a segment has no more bytes in the file than in
\* memory, p_align is 0 or a power of two, and the segment's alignment block
\* lies in the address space.
ASSUME TablesAssumption ==
    /\ Tables \subseteq Seq(Headers)
    /\ \A t \in Tables : \A n \in 1 .. Len(t) :
        /\ t[n].filesz <= t[n].memsz
        /\ t[n].align = 0 \/ PowerOfTwo(t[n].align)
        /\ t[n].vaddr + t[n].memsz <= Addresses

VARIABLES
    table,       \* phdrs: the program header table of the binary
    pc,          \* the call that elfloader_load makes next
    k,           \* the program header it is at
    file,        \* fd: "closed" or "open"
    mem,         \* address -> what is there
    rights,      \* page -> access rights
    segments,    \* ctx->segments filled in so far
    segmentsLen, \* ctx->segments_len
    array,       \* whether ctx->segments has memory to be filled in
    ioError      \* history: a call into the system failed

loaderVars == <<table, pc, k, file, mem, rights, segments, segmentsLen, array, ioError>>

-----------------------------------------------------------------------------
Addrs == 0 .. Addresses - 1
Pages == 0 .. (Addresses \div PageSize) - 1
Page(a) == a \div PageSize

NeedToLoad(ph) == ph.load /\ ph.memsz # 0 /\ ph.rights # {}

Loadable == {j \in 1 .. Len(table) : NeedToLoad(table[j])}

\* p_vaddr & ~(p_align - 1), for the p_align that TablesAssumption admits;
\* 0 masks everything.
AlignedAddr(ph) == IF ph.align = 0 THEN 0 ELSE ph.vaddr - (ph.vaddr % ph.align)

AlignedSize(ph) == ph.memsz + (ph.vaddr - AlignedAddr(ph))

\* The addresses that mmap, mprotect and munmap touch: whole pages.
Block(base, size) == {a \in Addrs : Page(a) \in Page(base) .. Page(base + size - 1)}

ph == table[k]
block == Block(AlignedAddr(ph), AlignedSize(ph))

\* Mutant: load_program_headers is trusted to close the file.
Fail_KeepsFile ==
    /\ pc' = "failed"
    /\ UNCHANGED <<table, k, file, mem, rights, segments, segmentsLen, array>>

\* A call fails: elfloader_load reports it, closes the file and gives up.
Fail ==
    /\ pc' = "failed"
    /\ file' = "closed"
    /\ UNCHANGED <<table, k, mem, rights, segments, segmentsLen, array>>

IoFail == Fail /\ ioError' = TRUE

-----------------------------------------------------------------------------
(* elfloader_load *)

Open ==
    /\ pc = "open"
    /\ \/ file' = "open" /\ pc' = "header" /\ UNCHANGED ioError
       \/ file' = file /\ pc' = "failed" /\ ioError' = TRUE
    /\ UNCHANGED <<table, k, mem, rights, segments, segmentsLen, array>>

\* read_elf_header; a binary with a wrong header counts as unreadable.
ReadHeader ==
    /\ pc = "header"
    /\ \/ pc' = "table" /\ UNCHANGED <<table, k, file, mem, rights, segments, segmentsLen, array, ioError>>
       \/ IoFail

\* Mutant: the loop that counts is left out.
ReadTable_NoCount ==
    /\ pc = "table"
    /\ \/ /\ array' \in BOOLEAN
          /\ pc' = "next"
          /\ UNCHANGED <<table, k, file, mem, rights, segments, segmentsLen, ioError>>
       \/ IoFail

\* The table is read, its loadable segments are counted and the array for
\* them is allocated; whether calloc returned one is not looked at.  The
\* refusal of a context that has segments already (elfloader.c:107-110) is
\* left out: main loads one binary into a context of zeros.
ReadTable ==
    /\ pc = "table"
    /\ \/ /\ segmentsLen' = Cardinality(Loadable)
          /\ array' \in BOOLEAN
          /\ pc' = "next"
          /\ UNCHANGED <<table, k, file, mem, rights, segments, ioError>>
       \/ IoFail

\* Mutant: the loop variable is only advanced with a segment.
SkipHeader_Stays ==
    /\ pc = "next" /\ k <= Len(table) /\ ~NeedToLoad(ph)
    /\ UNCHANGED loaderVars

\* The head of the loop over the program headers.
SkipHeader ==
    /\ pc = "next" /\ k <= Len(table) /\ ~NeedToLoad(ph)
    /\ k' = k + 1
    /\ UNCHANGED <<table, pc, file, mem, rights, segments, segmentsLen, array, ioError>>

\* Mutant: the address is asked to be aligned.
RefuseAlignment_OfAddress ==
    /\ pc = "next" /\ k <= Len(table) /\ NeedToLoad(ph)
    /\ ph.vaddr % PageSize # 0
    /\ Fail /\ UNCHANGED ioError

RefuseAlignment ==
    /\ pc = "next" /\ k <= Len(table) /\ NeedToLoad(ph)
    /\ ph.align % PageSize # 0
    /\ Fail /\ UNCHANGED ioError

\* mmap with MAP_FIXED | MAP_ANONYMOUS: zeros, whatever was there before.
MapSegment ==
    /\ pc = "next" /\ k <= Len(table) /\ NeedToLoad(ph)
    /\ ph.align % PageSize = 0
    /\ \/ /\ mem' = [a \in Addrs |-> IF a \in block THEN 0 ELSE mem[a]]
          /\ rights' = [p \in Pages |-> IF \E a \in block : Page(a) = p THEN {"R", "W"} ELSE rights[p]]
          /\ pc' = "read"
          /\ UNCHANGED <<table, k, file, segments, segmentsLen, array, ioError>>
       \/ IoFail

\* fread of one item of p_filesz bytes: none at all for an item of no bytes.
ReadSegment ==
    /\ pc = "read"
    /\ \/ /\ ph.filesz > 0 /\ ph.offset + ph.filesz <= FileLen
          /\ mem' = [a \in Addrs |-> IF a \in ph.vaddr .. ph.vaddr + ph.filesz - 1
                                     THEN ph.offset + (a - ph.vaddr) + 1 ELSE mem[a]]
          /\ pc' = "extend"
          /\ UNCHANGED <<table, k, file, rights, segments, segmentsLen, array, ioError>>
       \/ /\ ph.filesz = 0
          /\ Fail /\ UNCHANGED ioError
       \/ IoFail

\* Mutant: the zeros go over the bytes of the file as well.
ExtendSegment_FromStart ==
    /\ pc = "extend"
    /\ mem' = [a \in Addrs |-> IF /\ ph.memsz > ph.filesz
                                  /\ a \in ph.vaddr .. ph.vaddr + ph.memsz - ph.filesz - 1
                               THEN 0 ELSE mem[a]]
    /\ pc' = "protect"
    /\ UNCHANGED <<table, k, file, rights, segments, segmentsLen, array, ioError>>

ExtendSegment ==
    /\ pc = "extend"
    /\ mem' = [a \in Addrs |-> IF a \in ph.vaddr + ph.filesz .. ph.vaddr + ph.memsz - 1
                               THEN 0 ELSE mem[a]]
    /\ pc' = "protect"
    /\ UNCHANGED <<table, k, file, rights, segments, segmentsLen, array, ioError>>

ProtectedRights ==
    [p \in Pages |-> IF \E a \in block : Page(a) = p THEN ph.rights ELSE rights[p]]

\* Mutant: what is recorded is the segment and not its block.
ProtectSegment_RecordsSegment ==
    /\ pc = "protect"
    /\ \/ /\ array
          /\ rights' = ProtectedRights
          /\ segments' = Append(segments, [base |-> ph.vaddr, size |-> ph.memsz])
          /\ k' = k + 1
          /\ pc' = "next"
          /\ UNCHANGED <<table, file, mem, segmentsLen, array, ioError>>
       \/ IoFail

\* mprotect, and the segment is recorded for segments_free: a null pointer is
\* written through if there is no array.
ProtectSegment ==
    /\ pc = "protect"
    /\ \/ /\ array
          /\ rights' = ProtectedRights
          /\ segments' = Append(segments, [base |-> AlignedAddr(ph), size |-> AlignedSize(ph)])
          /\ k' = k + 1
          /\ pc' = "next"
          /\ UNCHANGED <<table, file, mem, segmentsLen, array, ioError>>
       \/ /\ ~array
          /\ rights' = ProtectedRights
          /\ pc' = "crashed"
          /\ UNCHANGED <<table, k, file, mem, segments, segmentsLen, array, ioError>>
       \/ IoFail

Finish ==
    /\ pc = "next" /\ k > Len(table)
    /\ file' = "closed"
    /\ pc' = "loaded"
    /\ UNCHANGED <<table, k, mem, rights, segments, segmentsLen, array, ioError>>

-----------------------------------------------------------------------------
LoaderInit ==
    /\ table \in Tables
    /\ pc = "open" /\ k = 1
    /\ file = "closed"
    /\ mem = [a \in Addrs |-> Unmapped]
    /\ rights = [p \in Pages |-> {}]
    /\ segments = <<>> /\ segmentsLen = 0 /\ array = FALSE
    /\ ioError = FALSE

LoaderNext ==
    \/ Open \/ ReadHeader \/ ReadTable
    \/ SkipHeader \/ RefuseAlignment \/ MapSegment \/ ReadSegment
    \/ ExtendSegment \/ ProtectSegment \/ Finish

\* One thread, and no call into the system blocks forever.
LoaderSpec == LoaderInit /\ [][LoaderNext]_loaderVars /\ WF_loaderVars(LoaderNext)

-----------------------------------------------------------------------------
LoaderTypeOK ==
    /\ table \in Tables
    /\ pc \in {"open", "header", "table", "next", "read", "extend", "protect",
              "loaded", "failed", "crashed"}
    /\ k \in 1 .. Len(table) + 1
    /\ file \in {"open", "closed"}
    /\ mem \in [Addrs -> -1 .. FileLen]
    /\ rights \in [Pages -> SUBSET {"R", "W", "X"}]
    /\ segmentsLen \in 0 .. Len(table) /\ Len(segments) <= segmentsLen
    /\ array \in BOOLEAN /\ ioError \in BOOLEAN

Mapped == {a \in Addrs : mem[a] # Unmapped}

BlockOf(ph1) == Block(AlignedAddr(ph1), AlignedSize(ph1))

\* No two segments share an alignment block.  Others are outside what the
\* loader supports: the later block is mapped over the earlier segment.
BlocksDisjoint ==
    \A i, j \in Loadable : i # j => BlockOf(table[i]) \cap BlockOf(table[j]) = {}

\* A loaded binary is in memory as its program headers say: the bytes of the
\* file, zeros up to the size in memory, with the rights of the segment, and
\* nothing but zeros beside it (elfloader.c:150-176).
ImageComplete ==
    pc = "loaded" /\ BlocksDisjoint =>
        /\ \A j \in Loadable : \A a \in table[j].vaddr .. table[j].vaddr + table[j].memsz - 1 :
              /\ mem[a] = IF a < table[j].vaddr + table[j].filesz
                          THEN table[j].offset + (a - table[j].vaddr) + 1 ELSE 0
              /\ rights[Page(a)] = table[j].rights
        /\ \A a \in Addrs : mem[a] > 0 =>
              \E j \in Loadable : a \in table[j].vaddr .. table[j].vaddr + table[j].memsz - 1

\* What segments_free will unmap is what has been mapped, even where blocks
\* overlap: as long as the loader has not failed, every mapped page belongs
\* to a recorded segment or to the one being loaded, and a loaded binary has
\* as many recorded as counted (elfloader.c:112-117, 181-183).  Without memory
\* for the record no binary is loaded that needs one: the loader crashes at
\* its first segment, which stays mapped.  Where it fails, all it recorded is
\* mapped, and at most the block of the header it stopped at is not recorded.
MappingsRecorded ==
    LET recorded == UNION {Block(segments[s].base, segments[s].size) : s \in 1 .. Len(segments)}
        current == IF pc \in {"read", "extend", "protect", "crashed"} THEN block ELSE {}
        stoppedAt == IF k <= Len(table) THEN block ELSE {}
    IN  /\ pc # "failed" => Mapped = recorded \cup current
        /\ pc = "loaded" => Len(segments) = segmentsLen /\ (Loadable # {} => array)
        /\ pc = "crashed" => segments = <<>> /\ ~array
        /\ pc = "failed" => recorded \subseteq Mapped /\ Mapped \subseteq recorded \cup stoppedAt

\* The file is open from fopen to the return of elfloader_load, and closed
\* once it has returned, on each of its paths.
FileClosed == file = "open" <=> pc \notin {"open", "loaded", "failed"}

\* A binary is refused for a reason: a call failed, an alignment is not a
\* multiple of the page size, or a loadable segment has nothing in the file.
RefusedForAReason ==
    pc = "failed" =>
        \/ ioError
        \/ \E j \in Loadable : table[j].align % PageSize # 0 \/ table[j].filesz = 0

\* elfloader_load always returns, unless it crashes without an array.
LoaderReturns == <>(pc \in {"loaded", "failed"} \/ (pc = "crashed" /\ ~array))

\* "Check whether this a loadable segment, with non-zero size and valid
\* flags": a segment with a size in memory and flags can be loaded; it only
\* fails when the system does or its alignment is not supported.
LoadableSegmentsLoad ==
    pc = "failed" => ioError \/ \E j \in Loadable : table[j].align % PageSize # 0
=============================================================================
