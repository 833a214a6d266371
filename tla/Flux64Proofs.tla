----------------------------- MODULE Flux64Proofs -----------------------------
(***************************************************************************)
(* Proofs about ElfLoader, for every set of program header tables, file    *)
(* length and page size, and then about the life of a process, for every   *)
(* set of binaries and every status a guest may exit with.  Up to the      *)
(* release, what is shown of the loader is an invariant of the process.    *)
(***************************************************************************)
EXTENDS Flux64, FiniteSetTheorems, TLAPS

-----------------------------------------------------------------------------
(* Division by the page size. *)

LEMMA Quotient ==
    ASSUME NEW a \in Int, NEW d \in Nat \ {0}
    PROVE  a \div d \in Int /\ d * (a \div d) <= a /\ a < d * (a \div d) + d
OBVIOUS

LEMMA NextMultiple ==
    ASSUME NEW d \in Nat \ {0}, NEW p \in Int, NEW q \in Int, p + 1 <= q
    PROVE  d * p + d <= d * q
OBVIOUS

LEMMA QuotientMonotone ==
    ASSUME NEW a \in Int, NEW b \in Int, NEW d \in Nat \ {0}, a <= b
    PROVE  a \div d <= b \div d
<1> DEFINE p == b \div d
           q == a \div d
<1>1. p \in Int /\ b < d * p + d
  BY Quotient
<1>2. q \in Int /\ d * q <= a
  BY Quotient
<1> HIDE DEF p, q
<1>3. SUFFICES ASSUME ~(q <= p) PROVE FALSE
  BY DEF p, q
<1>4. d * p + d <= d * q
  BY <1>1, <1>2, <1>3, NextMultiple
<1>5. d * p \in Int /\ d * q \in Int /\ d \in Int
  BY <1>1, <1>2
<1> QED
  BY <1>1, <1>2, <1>4, <1>5

LEMMA Remainder ==
    ASSUME NEW a \in Nat, NEW d \in Nat \ {0}
    PROVE  a % d \in Nat /\ a % d <= a
OBVIOUS

-----------------------------------------------------------------------------
(* Blocks. *)

LEMMA AlignedBelow ==
    ASSUME NEW h \in Headers
    PROVE  /\ AlignedAddr(h) \in Nat /\ AlignedAddr(h) <= h.vaddr
           /\ AlignedSize(h) \in Nat
           /\ AlignedAddr(h) + AlignedSize(h) = h.vaddr + h.memsz
<1>1. h.vaddr \in Nat /\ h.memsz \in Nat /\ h.align \in Nat
  BY DEF Headers
<1>2. CASE h.align = 0
  BY <1>1, <1>2 DEF AlignedAddr, AlignedSize
<1>3. CASE h.align # 0
  <2>1. h.vaddr % h.align \in Nat /\ h.vaddr % h.align <= h.vaddr
    BY <1>1, <1>3, Remainder
  <2>2. AlignedAddr(h) = h.vaddr - (h.vaddr % h.align)
    BY <1>3 DEF AlignedAddr
  <2>3. AlignedAddr(h) \in Nat /\ AlignedAddr(h) <= h.vaddr
    BY <1>1, <2>1, <2>2
  <2>4. AlignedSize(h) = h.memsz + (h.vaddr - AlignedAddr(h))
    BY DEF AlignedSize
  <2> QED
    BY <1>1, <2>3, <2>4
<1> QED
  BY <1>2, <1>3

\* A segment lies in its alignment block.
LEMMA BlockCoversSegment ==
    ASSUME NEW h \in Headers, NEW a \in Addrs, h.vaddr <= a, a <= h.vaddr + h.memsz - 1
    PROVE  a \in Block(AlignedAddr(h), AlignedSize(h))
<1> DEFINE base == AlignedAddr(h)
           size == AlignedSize(h)
<1>1. h.vaddr \in Nat /\ h.memsz \in Nat /\ a \in Int
  BY DEF Headers, Addrs
<1>2. base \in Int /\ base <= a
  BY <1>1, AlignedBelow
<1>3. base + size - 1 \in Int /\ a <= base + size - 1
  <2>1. base \in Int /\ size \in Int /\ base + size = h.vaddr + h.memsz
    BY AlignedBelow
  <2> HIDE DEF base, size
  <2> QED
    BY <1>1, <2>1
<1>4. PageSize \in Nat \ {0}
  BY SizesAssumption
<1> HIDE DEF base, size
<1>5. Page(base) <= Page(a)
  BY <1>1, <1>2, <1>4, QuotientMonotone DEF Page
<1>6. Page(a) <= Page(base + size - 1)
  BY <1>1, <1>3, <1>4, QuotientMonotone DEF Page
<1>7. Page(a) \in Int /\ Page(base) \in Int /\ Page(base + size - 1) \in Int
  BY <1>1, <1>2, <1>3, <1>4, Quotient DEF Page
<1>8. a \in Block(base, size)
  BY <1>5, <1>6, <1>7 DEF Block
<1> QED
  BY <1>8 DEF base, size

-----------------------------------------------------------------------------
(* Where the loader is, and what it keeps. *)

Rights == SUBSET {"R", "W", "X"}
Records == [base : Nat, size : Nat]

Typed ==
    /\ table \in Tables
    /\ pc \in {"open", "header", "table", "next", "read", "extend", "protect",
              "loaded", "failed", "crashed"}
    /\ k \in 1 .. Len(table) + 1
    /\ file \in {"open", "closed"}
    /\ mem \in [Addrs -> -1 .. FileLen]
    /\ rights \in [Pages -> Rights]
    /\ segments \in Seq(Records)
    /\ segmentsLen \in 0 .. Len(table)
    /\ array \in BOOLEAN /\ ioError \in BOOLEAN

\* The segment being loaded is a header of the table.
Working == pc \in {"read", "extend", "protect", "crashed"} => k <= Len(table) /\ NeedToLoad(ph)

LEMMA HeaderFacts ==
    ASSUME table \in Tables, k \in 1 .. Len(table) + 1, k <= Len(table)
    PROVE  /\ k \in 1 .. Len(table)
           /\ ph \in Headers /\ ph.filesz <= ph.memsz /\ ph.vaddr + ph.memsz <= Addresses
           /\ ph.vaddr \in Nat /\ ph.memsz \in Nat /\ ph.filesz \in Nat /\ ph.offset \in Nat
           /\ ph.rights \in Rights
<1>1. table \in Seq(Headers)
  BY TablesAssumption
<1>2. k \in 1 .. Len(table)
  BY <1>1
<1>3. ph \in Headers
  BY <1>1, <1>2 DEF ph
<1>4. ph.filesz <= ph.memsz /\ ph.vaddr + ph.memsz <= Addresses
  BY <1>2, TablesAssumption DEF ph
<1> QED
  BY <1>2, <1>3, <1>4 DEF Headers, Rights

LEMMA LoadableFacts ==
    ASSUME table \in Tables
    PROVE  /\ Len(table) \in Nat /\ IsFiniteSet(Loadable)
           /\ Cardinality(Loadable) \in 0 .. Len(table)
<1>1. Len(table) \in Nat
  BY TablesAssumption
<1>2. IsFiniteSet(1 .. Len(table)) /\ Cardinality(1 .. Len(table)) = Len(table)
  <2> DEFINE n == Len(table)
  <2>1. 1 \in Int /\ n \in Int
    BY <1>1
  <2>2. IsFiniteSet(1 .. n) /\ Cardinality(1 .. n) = IF 1 > n THEN 0 ELSE n - 1 + 1
    BY <2>1, FS_Interval
  <2> HIDE DEF n
  <2>3. Cardinality(1 .. n) = IF 1 > n THEN 0 ELSE n - 1 + 1
    BY <2>2
  <2>4. n \in Nat
    BY <1>1 DEF n
  <2>5. (IF 1 > n THEN 0 ELSE n - 1 + 1) = n
    BY <2>4
  <2> QED
    BY <2>2, <2>3, <2>5 DEF n
<1>3. Loadable \in SUBSET (1 .. Len(table))
  BY DEF Loadable
<1>4. IsFiniteSet(Loadable) /\ Cardinality(Loadable) <= Len(table)
  BY <1>2, <1>3, FS_Subset
<1>5. Cardinality(Loadable) \in Nat
  BY <1>4, FS_CardinalityType
<1> QED
  BY <1>1, <1>4, <1>5

LEMMA FailKeepsTyped ==
    ASSUME Typed, Fail, ioError' \in BOOLEAN
    PROVE  Typed'
BY DEF Fail, Typed

LEMMA FileByte ==
    ASSUME NEW v \in Nat, NEW f \in Nat, NEW o \in Nat, NEW n \in Nat, o + f <= n,
           NEW a \in v .. v + f - 1
    PROVE  o + (a - v) + 1 \in -1 .. n
<1>1. a \in Int /\ v <= a /\ a <= v + f - 1
  OBVIOUS
<1>2. 0 <= a - v /\ a - v + 1 <= f
  BY <1>1
<1>3. -1 <= o + (a - v) + 1 /\ o + (a - v) + 1 <= n
  BY <1>1, <1>2
<1> QED
  BY <1>1, <1>3

LEMMA TypedInit == LoaderInit => Typed
<1> SUFFICES ASSUME LoaderInit PROVE Typed
  OBVIOUS
<1>1. Len(table) \in Nat
  BY TablesAssumption DEF LoaderInit
<1>2. FileLen \in Nat
  BY SizesAssumption
<1>3. [a \in Addrs |-> Unmapped] \in [Addrs -> -1 .. FileLen]
  BY <1>2 DEF Unmapped
<1>4. [p \in Pages |-> {}] \in [Pages -> Rights]
  BY DEF Rights
<1>5. 1 \in 1 .. Len(table) + 1 /\ 0 \in 0 .. Len(table)
  BY <1>1
<1>6. table \in Tables /\ pc = "open" /\ k \in 1 .. Len(table) + 1 /\ file = "closed"
  BY <1>5 DEF LoaderInit
<1>7. mem \in [Addrs -> -1 .. FileLen] /\ rights \in [Pages -> Rights]
  BY <1>3, <1>4 DEF LoaderInit
<1>8. segments \in Seq(Records) /\ segmentsLen \in 0 .. Len(table)
  BY <1>5 DEF LoaderInit
<1>9. array \in BOOLEAN /\ ioError \in BOOLEAN
  BY Zenon DEF LoaderInit
<1> QED
  BY <1>6, <1>7, <1>8, <1>9 DEF Typed

LEMMA TypedNext ==
    ASSUME Typed, Working, LoaderNext
    PROVE  Typed'
<1>1. Len(table) \in Nat /\ k \in Nat /\ FileLen \in Nat /\ table \in Tables
  BY LoadableFacts, SizesAssumption DEF Typed
<1>2. CASE Open
  BY <1>2 DEF Open, Typed
<1>3. CASE ReadHeader
  BY <1>3, FailKeepsTyped DEF ReadHeader, IoFail, Typed
<1>4. CASE ReadTable
  <2>1. CASE IoFail
    BY <2>1, FailKeepsTyped DEF IoFail
  <2>2. CASE ~IoFail
    BY <1>1, <1>4, <2>2, LoadableFacts DEF ReadTable, Typed
  <2> QED
    BY <2>1, <2>2
<1>5. CASE SkipHeader
  BY <1>1, <1>5 DEF SkipHeader, Typed
<1>6. CASE RefuseAlignment
  BY <1>6, FailKeepsTyped DEF RefuseAlignment, Typed
<1>7. CASE MapSegment
  <2>1. CASE IoFail
    BY <2>1, FailKeepsTyped DEF IoFail
  <2>2. CASE ~IoFail
    <3>1. /\ mem' = [a \in Addrs |-> IF a \in block THEN 0 ELSE mem[a]]
          /\ rights' = [p \in Pages |-> IF \E a \in block : Page(a) = p
                                        THEN {"R", "W"} ELSE rights[p]]
          /\ pc' = "read"
          /\ UNCHANGED <<table, k, file, segments, segmentsLen, array, ioError>>
      BY <1>7, <2>2 DEF MapSegment
    <3>2. mem' \in [Addrs -> -1 .. FileLen]
      BY <1>1, <3>1 DEF Typed
    <3>3. rights' \in [Pages -> Rights]
      BY <3>1 DEF Typed, Rights
    <3> QED
      BY <3>1, <3>2, <3>3 DEF Typed
  <2> QED
    BY <2>1, <2>2
<1>8. CASE ReadSegment
  <2>1. CASE Fail /\ ioError' \in BOOLEAN
    BY <2>1, FailKeepsTyped
  <2>2. CASE pc' = "extend"
    <3>1. /\ ph.offset + ph.filesz <= FileLen
          /\ mem' = [a \in Addrs |-> IF a \in ph.vaddr .. ph.vaddr + ph.filesz - 1
                                     THEN ph.offset + (a - ph.vaddr) + 1 ELSE mem[a]]
          /\ UNCHANGED <<table, k, file, rights, segments, segmentsLen, array, ioError>>
      BY <1>8, <2>2 DEF ReadSegment, IoFail, Fail
    <3>2. ph.vaddr \in Nat /\ ph.filesz \in Nat /\ ph.offset \in Nat
      BY <1>8, HeaderFacts DEF ReadSegment, Typed, Working
    <3>3. \A a \in ph.vaddr .. ph.vaddr + ph.filesz - 1 :
              ph.offset + (a - ph.vaddr) + 1 \in -1 .. FileLen
      BY <1>1, <3>1, <3>2, FileByte
    <3>4. mem' \in [Addrs -> -1 .. FileLen]
      BY <3>1, <3>3 DEF Typed
    <3> QED
      BY <2>2, <3>1, <3>4 DEF Typed
  <2> QED
    BY <1>8, <2>1, <2>2 DEF ReadSegment, IoFail, Typed
<1>9. CASE ExtendSegment
  <2>1. mem' \in [Addrs -> -1 .. FileLen]
    BY <1>1, <1>9 DEF ExtendSegment, Typed
  <2> QED
    BY <1>9, <2>1 DEF ExtendSegment, Typed
<1>10. CASE ProtectSegment
  <2>1. CASE IoFail
    BY <2>1, FailKeepsTyped DEF IoFail
  <2> SUFFICES ASSUME ~IoFail PROVE Typed'
    BY <2>1
  <2>2. rights' = ProtectedRights /\ k <= Len(table) /\ UNCHANGED <<table, file, mem, segmentsLen, array, ioError>>
    BY <1>10 DEF ProtectSegment, Working
  <2>3. ph \in Headers /\ ph.rights \in Rights
    BY <2>2, HeaderFacts DEF Typed
  <2>4. rights' \in [Pages -> Rights]
    BY <2>2, <2>3 DEF Typed, ProtectedRights
  <2>5. CASE array
    <3>1. /\ segments' = Append(segments, [base |-> AlignedAddr(ph), size |-> AlignedSize(ph)])
          /\ k' = k + 1 /\ pc' = "next"
      BY <1>10, <2>5 DEF ProtectSegment
    <3>2. [base |-> AlignedAddr(ph), size |-> AlignedSize(ph)] \in Records
      BY <2>3, AlignedBelow DEF Records
    <3>3. segments' \in Seq(Records)
      BY <3>1, <3>2 DEF Typed
    <3>4. k' \in 1 .. Len(table') + 1
      BY <1>1, <2>2, <3>1 DEF Typed
    <3> QED
      BY <2>2, <2>4, <3>1, <3>3, <3>4 DEF Typed
  <2>6. CASE ~array
    <3>1. pc' = "crashed" /\ UNCHANGED <<k, segments>>
      BY <1>10, <2>6 DEF ProtectSegment
    <3> QED
      BY <2>2, <2>4, <3>1 DEF Typed
  <2> QED
    BY <2>5, <2>6
<1>11. CASE Finish
  BY <1>11 DEF Finish, Typed
<1> QED
  BY <1>2, <1>3, <1>4, <1>5, <1>6, <1>7, <1>8, <1>9, <1>10, <1>11 DEF LoaderNext

LEMMA WorkingNext ==
    ASSUME Typed, Working, LoaderNext
    PROVE  Working'
<1> USE DEF Working, ph, NeedToLoad
<1>1. CASE Open \/ ReadHeader \/ ReadTable \/ RefuseAlignment \/ SkipHeader \/ Finish
  BY <1>1 DEF Open, ReadHeader, ReadTable, RefuseAlignment, SkipHeader, Finish, IoFail, Fail
<1>2. CASE MapSegment
  BY <1>2 DEF MapSegment, IoFail, Fail
<1>3. CASE ReadSegment
  BY <1>3 DEF ReadSegment, IoFail, Fail
<1>4. CASE ExtendSegment
  BY <1>4 DEF ExtendSegment
<1>5. CASE ProtectSegment
  BY <1>5 DEF ProtectSegment, IoFail, Fail
<1> QED
  BY <1>1, <1>2, <1>3, <1>4, <1>5 DEF LoaderNext

-----------------------------------------------------------------------------
(* The segments recorded are the loadable headers passed. *)

Passed == {j \in 1 .. k - 1 : NeedToLoad(table[j])}

Counted ==
    /\ pc \in {"open", "header", "table"} => k = 1 /\ segments = <<>> /\ segmentsLen = 0
    /\ pc \in {"next", "read", "extend", "protect", "loaded"} =>
          segmentsLen = Cardinality(Loadable) /\ Len(segments) = Cardinality(Passed)
    /\ pc = "loaded" => k = Len(table) + 1
    /\ Len(segments) <= segmentsLen
    /\ segments # <<>> => array
    /\ pc = "crashed" => ~array

LEMMA PassedFacts ==
    ASSUME Typed
    PROVE  /\ IsFiniteSet(Passed) /\ Cardinality(Passed) \in Nat
           /\ Cardinality(Passed) <= Cardinality(Loadable)
           /\ k = Len(table) + 1 => Passed = Loadable
           /\ k = 1 => Cardinality(Passed) = 0
<1>1. Len(table) \in Nat /\ IsFiniteSet(Loadable) /\ k \in 1 .. Len(table) + 1
  BY LoadableFacts DEF Typed
<1>2. Passed \in SUBSET Loadable
  BY <1>1 DEF Passed, Loadable
<1>3. IsFiniteSet(Passed) /\ Cardinality(Passed) <= Cardinality(Loadable)
  BY <1>1, <1>2, FS_Subset
<1>4. Cardinality(Passed) \in Nat
  BY <1>3, FS_CardinalityType
<1>5. ASSUME k = Len(table) + 1 PROVE Passed = Loadable
  BY <1>1, <1>5 DEF Passed, Loadable
<1>6. ASSUME k = 1 PROVE Cardinality(Passed) = 0
  <2>1. Passed = {}
    BY <1>6 DEF Passed
  <2> QED
    BY <2>1, FS_EmptySet
<1> QED
  BY <1>3, <1>4, <1>5, <1>6

\* Passing a header counts it when it is loadable.
LEMMA PassedGrows ==
    ASSUME Typed, k <= Len(table), k' = k + 1, table' = table
    PROVE  /\ Passed' = IF NeedToLoad(ph) THEN Passed \cup {k} ELSE Passed
           /\ k \notin Passed
<1>1. k \in Nat \ {0}
  BY LoadableFacts DEF Typed
<1>2. k \notin Passed
  BY <1>1 DEF Passed
<1>3. CASE NeedToLoad(ph)
  BY <1>1, <1>2, <1>3 DEF Passed, ph, NeedToLoad
<1>4. CASE ~NeedToLoad(ph)
  BY <1>1, <1>2, <1>4 DEF Passed, ph, NeedToLoad
<1> QED
  BY <1>3, <1>4

LEMMA PassedStep ==
    ASSUME Typed, k <= Len(table), k' = k + 1, table' = table
    PROVE  Cardinality(Passed') = IF NeedToLoad(ph) THEN Cardinality(Passed) + 1
                                  ELSE Cardinality(Passed)
<1>1. CASE NeedToLoad(ph)
  <2>1. Cardinality(Passed \cup {k}) = Cardinality(Passed) + 1
    BY PassedGrows, PassedFacts, FS_AddElement
  <2> QED
    BY <1>1, <2>1, PassedGrows
<1>2. CASE ~NeedToLoad(ph)
  BY <1>2, PassedGrows
<1> QED
  BY <1>1, <1>2

LEMMA FailKeepsCounted ==
    ASSUME Counted, Fail
    PROVE  Counted'
BY DEF Counted, Fail

LEMMA CountedNext ==
    ASSUME Typed, Working, Counted, LoaderNext
    PROVE  Counted'
<1>1. Len(table) \in Nat /\ k \in 1 .. Len(table) + 1 /\ segments \in Seq(Records)
  BY LoadableFacts DEF Typed
<1>2. CASE Open
  BY <1>2 DEF Open, Counted
<1>3. CASE ReadHeader
  BY <1>3, FailKeepsCounted DEF ReadHeader, IoFail, Counted
<1>4. CASE ReadTable
  <2>1. CASE IoFail
    BY <2>1, FailKeepsCounted DEF IoFail
  <2>2. CASE ~IoFail
    <3>1. /\ k = 1 /\ segments = <<>> /\ segmentsLen' = Cardinality(Loadable)
          /\ pc' = "next" /\ UNCHANGED <<table, k, segments>>
      BY <1>4, <2>2 DEF ReadTable, Counted
    <3>2. Len(segments) = 0 /\ Cardinality(Passed) = 0 /\ Cardinality(Loadable) \in Nat
      BY <3>1, PassedFacts, LoadableFacts DEF Typed
    <3>3. Passed' = Passed /\ Loadable' = Loadable
      BY <3>1 DEF Passed, Loadable
    <3> QED
      BY <3>1, <3>2, <3>3 DEF Counted
  <2> QED
    BY <2>1, <2>2
<1>5. CASE SkipHeader
  <2>1. /\ pc = "next" /\ k <= Len(table) /\ ~NeedToLoad(ph) /\ k' = k + 1
        /\ UNCHANGED <<table, pc, segments, segmentsLen, array>>
    BY <1>5 DEF SkipHeader
  <2>2. Cardinality(Passed') = Cardinality(Passed) /\ Loadable' = Loadable
    BY <2>1, PassedStep DEF Loadable
  <2> QED
    BY <2>1, <2>2 DEF Counted
<1>6. CASE RefuseAlignment
  BY <1>6, FailKeepsCounted DEF RefuseAlignment
<1>7. CASE MapSegment \/ ReadSegment \/ ExtendSegment
  <2>1. CASE Fail
    BY <2>1, FailKeepsCounted
  <2>2. CASE ~Fail
    <3>1. /\ pc \in {"next", "read", "extend"} /\ pc' \in {"read", "extend", "protect"}
          /\ UNCHANGED <<table, k, segments, segmentsLen, array>>
      BY <1>7, <2>2 DEF MapSegment, ReadSegment, ExtendSegment, IoFail
    <3>2. Passed' = Passed /\ Loadable' = Loadable
      BY <3>1 DEF Passed, Loadable
    <3> QED
      BY <3>1, <3>2 DEF Counted
  <2> QED
    BY <2>1, <2>2
<1>8. CASE ProtectSegment
  <2>1. CASE IoFail
    BY <2>1, FailKeepsCounted DEF IoFail
  <2>2. CASE ~IoFail /\ ~array
    BY <1>8, <2>2 DEF ProtectSegment, Counted
  <2>3. CASE ~IoFail /\ array
    <3>1. /\ pc = "protect" /\ k <= Len(table) /\ NeedToLoad(ph) /\ k' = k + 1 /\ pc' = "next"
          /\ segments' = Append(segments, [base |-> AlignedAddr(ph), size |-> AlignedSize(ph)])
          /\ UNCHANGED <<table, segmentsLen, array>>
      BY <1>8, <2>3 DEF ProtectSegment, Working
    <3>2. Len(segments') = Len(segments) + 1
      BY <1>1, <3>1
    <3>3. Cardinality(Passed') = Cardinality(Passed) + 1 /\ Loadable' = Loadable
      BY <3>1, PassedStep DEF Loadable
    <3>4. Passed' \in SUBSET Loadable
      BY <1>1, <3>1 DEF Passed, Loadable
    <3>5. Cardinality(Passed') <= Cardinality(Loadable')
      BY <3>3, <3>4, LoadableFacts, FS_Subset DEF Typed
    <3> QED
      BY <2>3, <3>1, <3>2, <3>3, <3>5 DEF Counted
  <2> QED
    BY <2>1, <2>2, <2>3
<1>9. CASE Finish
  <2>1. /\ pc = "next" /\ k > Len(table) /\ pc' = "loaded"
        /\ UNCHANGED <<table, k, segments, segmentsLen, array>>
    BY <1>9 DEF Finish
  <2>2. k' = Len(table') + 1
    BY <1>1, <2>1
  <2>3. Passed' = Passed /\ Loadable' = Loadable
    BY <2>1 DEF Passed, Loadable
  <2> QED
    BY <2>1, <2>2, <2>3 DEF Counted
<1> QED
  BY <1>2, <1>3, <1>4, <1>5, <1>6, <1>7, <1>8, <1>9 DEF LoaderNext

-----------------------------------------------------------------------------
(* The addresses mapped are those recorded and those of the segment being  *)
(* loaded.                                                                 *)

Recorded == UNION {Block(segments[s].base, segments[s].size) : s \in 1 .. Len(segments)}
Current == IF pc \in {"read", "extend", "protect", "crashed"} THEN block ELSE {}

AllRecorded == pc # "failed" => Mapped = Recorded \cup Current

LEMMA RecordedAppend ==
    ASSUME segments \in Seq(Records), NEW r \in Records, segments' = Append(segments, r)
    PROVE  Recorded' = Recorded \cup Block(r.base, r.size)
<1>1. Len(segments) \in Nat /\ Len(segments') = Len(segments) + 1
  OBVIOUS
<1>2. \A s \in 1 .. Len(segments) : segments'[s] = segments[s]
  OBVIOUS
<1>3. segments'[Len(segments) + 1] = r
  OBVIOUS
<1>4. 1 .. Len(segments') = (1 .. Len(segments)) \cup {Len(segments) + 1}
  BY <1>1
<1>5. ASSUME NEW a PROVE a \in Recorded' <=> a \in Recorded \cup Block(r.base, r.size)
  <2>1. a \in Recorded' <=>
          \E s \in 1 .. Len(segments') : a \in Block(segments'[s].base, segments'[s].size)
    BY DEF Recorded, Block, Addrs, Page
  <2>2. a \in Recorded <=>
          \E s \in 1 .. Len(segments) : a \in Block(segments[s].base, segments[s].size)
    BY DEF Recorded
  <2> QED
    BY <2>1, <2>2, <1>2, <1>3, <1>4, Zenon
<1> QED
  BY <1>5

\* A write into mapped addresses of anything but Unmapped maps no other address.
LEMMA MappedKept ==
    ASSUME NEW S \in SUBSET Mapped, mem \in [Addrs -> Int], mem' \in [Addrs -> Int],
           \A a \in Addrs : IF a \in S THEN mem'[a] # Unmapped ELSE mem'[a] = mem[a]
    PROVE  Mapped' = Mapped
BY DEF Mapped, Addrs

LEMMA AllRecordedNext ==
    ASSUME Typed, Working, AllRecorded, LoaderNext
    PROVE  AllRecorded'
<1>1. FileLen \in Nat /\ mem \in [Addrs -> -1 .. FileLen] /\ segments \in Seq(Records)
  BY SizesAssumption DEF Typed
<1>2. CASE Fail
  BY <1>2 DEF Fail, AllRecorded
<1>3. CASE Open \/ ReadHeader \/ ReadTable \/ SkipHeader \/ Finish
  <2>1. SUFFICES ASSUME ~Fail, pc' # "failed" PROVE Mapped' = Recorded' \cup Current'
    BY <1>2 DEF AllRecorded
  <2>2. /\ pc \in {"open", "header", "table", "next"}
        /\ pc' \in {"header", "table", "next", "loaded"}
        /\ UNCHANGED <<mem, segments>>
    BY <1>3, <2>1 DEF Open, ReadHeader, ReadTable, SkipHeader, Finish, IoFail
  <2>3. Mapped' = Mapped /\ Recorded' = Recorded
    BY <2>2 DEF Mapped, Recorded, Block, Addrs, Page
  <2>4. Current = {} /\ Current' = {}
    BY <2>2 DEF Current
  <2> QED
    BY <2>2, <2>3, <2>4 DEF AllRecorded
<1>4. CASE MapSegment /\ ~Fail
  <2>1. /\ pc = "next" /\ pc' = "read" /\ UNCHANGED <<table, k, segments>>
        /\ mem' = [a \in Addrs |-> IF a \in block THEN 0 ELSE mem[a]]
    BY <1>4 DEF MapSegment, IoFail
  <2>2. Recorded' = Recorded /\ Current = {} /\ Current' = block
    BY <2>1 DEF Recorded, Current, Block, Addrs, Page, block, AlignedAddr, AlignedSize, ph
  <2>3. block \subseteq Addrs
    BY DEF block, Block
  <2>4. Mapped' = Mapped \cup block
    <3>1. ASSUME NEW a \in Addrs PROVE mem'[a] # Unmapped <=> mem[a] # Unmapped \/ a \in block
      BY <2>1 DEF Unmapped
    <3> QED
      BY <2>3, <3>1 DEF Mapped
  <2>5. Mapped = Recorded \cup Current
    BY <2>1 DEF AllRecorded
  <2> QED
    BY <2>2, <2>4, <2>5 DEF AllRecorded
<1>5. CASE (ReadSegment \/ ExtendSegment) /\ ~Fail
  <2>1. /\ pc \in {"read", "extend"} /\ pc' \in {"extend", "protect"}
        /\ UNCHANGED <<table, k, segments>>
    BY <1>5 DEF ReadSegment, ExtendSegment, IoFail
  <2>2. Recorded' = Recorded /\ Current = block /\ Current' = block
    BY <2>1 DEF Recorded, Current, Block, Addrs, Page, block, AlignedAddr, AlignedSize, ph
  <2>3. Mapped = Recorded \cup Current
    BY <2>1 DEF AllRecorded
  <2> DEFINE Segment == {a \in Addrs : ph.vaddr <= a /\ a <= ph.vaddr + ph.memsz - 1}
  <2>4. k \in 1 .. Len(table) + 1 /\ k <= Len(table) /\ table \in Tables
    BY <2>1 DEF Typed, Working
  <2>5. /\ ph \in Headers /\ ph.filesz <= ph.memsz
        /\ ph.vaddr \in Nat /\ ph.memsz \in Nat /\ ph.filesz \in Nat /\ ph.offset \in Nat
    BY <2>4, HeaderFacts
  <2>6. Segment \subseteq Mapped
    BY <2>2, <2>3, <2>5, BlockCoversSegment DEF block
  <2>7. \A a \in Addrs : a \in Int
    BY DEF Addrs
  <2>8. CASE ReadSegment
    <3>1. mem' = [a \in Addrs |-> IF a \in ph.vaddr .. ph.vaddr + ph.filesz - 1
                                  THEN ph.offset + (a - ph.vaddr) + 1 ELSE mem[a]]
      BY <1>5, <2>8 DEF ReadSegment, IoFail
    <3> DEFINE S == {a \in Addrs : a \in ph.vaddr .. ph.vaddr + ph.filesz - 1}
    <3>2. S \subseteq Segment
      BY <2>5, <2>7
    <3>3. \A a \in S : ph.offset + (a - ph.vaddr) + 1 \in Int \ {Unmapped}
      BY <2>5, <2>7 DEF Unmapped
    <3>4. mem' \in [Addrs -> Int] /\ mem \in [Addrs -> Int]
      BY <1>1, <3>1, <3>3
    <3>5. \A a \in Addrs : IF a \in S THEN mem'[a] # Unmapped ELSE mem'[a] = mem[a]
      BY <3>1, <3>3
    <3> HIDE DEF S, Segment
    <3>6. Mapped' = Mapped
      BY <2>6, <3>2, <3>4, <3>5, MappedKept
    <3> QED
      BY <2>2, <2>3, <3>6 DEF AllRecorded
  <2>9. CASE ExtendSegment
    <3>1. mem' = [a \in Addrs |-> IF a \in ph.vaddr + ph.filesz .. ph.vaddr + ph.memsz - 1
                                  THEN 0 ELSE mem[a]]
      BY <2>9 DEF ExtendSegment
    <3> DEFINE S == {a \in Addrs : a \in ph.vaddr + ph.filesz .. ph.vaddr + ph.memsz - 1}
    <3>2. S \subseteq Segment
      BY <2>5, <2>7
    <3>3. mem' \in [Addrs -> Int] /\ mem \in [Addrs -> Int]
      BY <1>1, <3>1
    <3>4. \A a \in Addrs : IF a \in S THEN mem'[a] # Unmapped ELSE mem'[a] = mem[a]
      BY <3>1 DEF Unmapped
    <3> HIDE DEF S, Segment
    <3>5. Mapped' = Mapped
      BY <2>6, <3>2, <3>3, <3>4, MappedKept
    <3> QED
      BY <2>2, <2>3, <3>5 DEF AllRecorded
  <2> QED
    BY <1>5, <2>8, <2>9
<1>6. CASE ProtectSegment /\ ~Fail /\ array
  <2> DEFINE r == [base |-> AlignedAddr(ph), size |-> AlignedSize(ph)]
  <2>1. /\ pc = "protect" /\ pc' = "next" /\ UNCHANGED mem /\ segments' = Append(segments, r)
    BY <1>6 DEF ProtectSegment, IoFail
  <2>2. ph \in Headers
    BY <2>1, HeaderFacts DEF Typed, Working
  <2>3. r \in Records /\ r.base = AlignedAddr(ph) /\ r.size = AlignedSize(ph)
    BY <2>2, AlignedBelow DEF Records
  <2> HIDE DEF r
  <2>4. Recorded' = Recorded \cup block
    BY <1>1, <2>1, <2>3, RecordedAppend DEF block
  <2>5. Mapped' = Mapped /\ Current = block /\ Current' = {}
    BY <2>1 DEF Mapped, Current, Addrs
  <2> QED
    BY <2>1, <2>4, <2>5 DEF AllRecorded
<1>7. CASE RefuseAlignment
  BY <1>2, <1>7 DEF RefuseAlignment
<1>8. CASE ProtectSegment /\ ~Fail /\ ~array
  <2>1. /\ pc = "protect" /\ pc' = "crashed" /\ UNCHANGED <<table, k, mem, segments>>
    BY <1>8 DEF ProtectSegment, IoFail
  <2>2. Mapped' = Mapped /\ Recorded' = Recorded /\ Current' = Current
    BY <2>1 DEF Mapped, Recorded, Current, Block, Addrs, Page, block, AlignedAddr, AlignedSize, ph
  <2> QED
    BY <2>1, <2>2 DEF AllRecorded
<1> QED
  BY <1>2, <1>3, <1>4, <1>5, <1>6, <1>7, <1>8 DEF LoaderNext

\* What a loader that gave up has mapped beyond its record.
StoppedAt == IF k <= Len(table) THEN block ELSE {}

FailedRecorded == pc = "failed" => Mapped \subseteq Recorded \cup StoppedAt

LEMMA FailedRecordedNext ==
    ASSUME Typed, Working, AllRecorded, LoaderNext
    PROVE  FailedRecorded'
<1> SUFFICES ASSUME pc' = "failed" PROVE Mapped' \subseteq Recorded' \cup StoppedAt'
  BY DEF FailedRecorded
<1>1. pc # "failed" /\ UNCHANGED <<table, k, mem, segments>>
  BY DEF LoaderNext, Open, ReadHeader, ReadTable, SkipHeader, RefuseAlignment,
         MapSegment, ReadSegment, ExtendSegment, ProtectSegment, Finish, IoFail, Fail
<1>2. Mapped = Recorded \cup Current
  BY <1>1 DEF AllRecorded
<1>3. Current \subseteq StoppedAt
  BY DEF Current, StoppedAt, Working
<1>4. Mapped' = Mapped /\ Recorded' = Recorded
  BY <1>1 DEF Mapped, Recorded, Block, Addrs, Page
<1>5. StoppedAt' = StoppedAt
  BY <1>1 DEF StoppedAt, block, ph, Block, Addrs, Page, AlignedAddr, AlignedSize
<1> QED
  BY <1>2, <1>3, <1>4, <1>5

-----------------------------------------------------------------------------
(* The segments loaded so far are in memory as their headers say.          *)

Segment(h) == h.vaddr .. h.vaddr + h.memsz - 1

Contents(h, a) == IF a < h.vaddr + h.filesz THEN h.offset + (a - h.vaddr) + 1 ELSE 0

InPlace(h) == \A a \in Segment(h) : mem[a] = Contents(h, a) /\ rights[Page(a)] = h.rights

\* The part of the current segment that has its contents.
FilledTo == CASE pc = "extend" -> ph.vaddr + ph.filesz
              [] pc = "protect" -> ph.vaddr + ph.memsz
              [] OTHER -> ph.vaddr

Filling == IF pc \in {"extend", "protect"} THEN {k} ELSE {}

PassedInPlace == \A j \in Passed : InPlace(table[j])
CurrentFilled ==
    pc \in {"extend", "protect"} =>
        \A a \in Segment(ph) : a < FilledTo => mem[a] = Contents(ph, a)
NothingBeside == \A a \in Addrs : mem[a] > 0 => \E j \in Passed \cup Filling : a \in Segment(table[j])

ImageInv ==
    pc \notin {"failed", "crashed"} /\ BlocksDisjoint =>
        PassedInPlace /\ CurrentFilled /\ NothingBeside

\* A block is a set of whole pages.
LEMMA BlockOfPages ==
    ASSUME NEW base, NEW size, NEW a \in Addrs, NEW b \in Block(base, size), Page(a) = Page(b)
    PROVE  a \in Block(base, size)
BY DEF Block

LEMMA PassedHeaders ==
    ASSUME Typed, NEW j \in Passed \cup {k}, j <= Len(table)
    PROVE  /\ j \in 1 .. Len(table) /\ table[j] \in Headers
           /\ table[j].vaddr \in Nat /\ table[j].memsz \in Nat /\ table[j].filesz \in Nat
           /\ table[j].offset \in Nat /\ table[j].filesz <= table[j].memsz
           /\ Segment(table[j]) \subseteq BlockOf(table[j])
           /\ BlockOf(table[j]) \subseteq Addrs
<1>1. table \in Seq(Headers) /\ table \in Tables /\ Len(table) \in Nat /\ k \in 1 .. Len(table) + 1
  BY LoadableFacts, TablesAssumption DEF Typed
<1>2. j \in 1 .. Len(table)
  BY <1>1 DEF Passed
<1>3. table[j] \in Headers /\ table[j].filesz <= table[j].memsz
      /\ table[j].vaddr + table[j].memsz <= Addresses
  BY <1>1, <1>2, TablesAssumption
<1> DEFINE h == table[j]
<1>4. h \in Headers /\ h.vaddr \in Nat /\ h.memsz \in Nat /\ h.filesz \in Nat /\ h.offset \in Nat
  BY <1>3 DEF Headers
<1>5. h.vaddr + h.memsz <= Addresses /\ Addresses \in Nat
  BY <1>3, SizesAssumption
<1> HIDE DEF h
<1>6. ASSUME NEW a \in Segment(h) PROVE a \in BlockOf(h)
  <2>1. a \in Addrs /\ h.vaddr <= a /\ a <= h.vaddr + h.memsz - 1
    BY <1>4, <1>5 DEF Segment, Addrs
  <2> QED
    BY <1>4, <2>1, BlockCoversSegment DEF BlockOf
<1>7. BlockOf(h) \subseteq Addrs
  BY DEF BlockOf, Block
<1> QED
  BY <1>2, <1>3, <1>4, <1>6, <1>7 DEF h

\* A header passed and the current one do not share a page.
LEMMA PassedApart ==
    ASSUME Typed, BlocksDisjoint, k <= Len(table), NeedToLoad(ph), NEW j \in Passed,
           NEW a \in Segment(table[j])
    PROVE  a \in Addrs /\ a \notin block /\ ~\E b \in block : Page(b) = Page(a)
<1>1. j \in 1 .. k - 1 /\ NeedToLoad(table[j]) /\ k \in 1 .. Len(table) /\ Len(table) \in Nat
  BY LoadableFacts DEF Passed, Typed
<1>2. j \in Loadable /\ k \in Loadable /\ j # k /\ j <= Len(table)
  BY <1>1 DEF Loadable, ph
<1>3. a \in BlockOf(table[j]) /\ a \in Addrs
  BY <1>2, PassedHeaders
<1>4. BlockOf(table[j]) \cap block = {}
  BY <1>2 DEF BlocksDisjoint, BlockOf, block, ph
<1>5. ASSUME NEW b \in block, Page(b) = Page(a) PROVE FALSE
  <2>1. b \in BlockOf(table[j])
    BY <1>3, <1>5, BlockOfPages DEF BlockOf, block, Block
  <2> QED
    BY <1>4, <1>5, <2>1
<1> QED
  BY <1>3, <1>4, <1>5

\* The pages of the addresses modelled are modelled.
LEMMA PageModelled ==
    ASSUME NEW a \in Addrs
    PROVE  Page(a) \in Pages
<1> DEFINE n == Addresses \div PageSize
           p == a \div PageSize
<1>1. PageSize \in Nat \ {0} /\ Addresses \in Nat /\ Addresses % PageSize = 0
  BY SizesAssumption
<1>2. a \in Nat /\ a < Addresses
  BY <1>1 DEF Addrs
<1>3. n \in Int /\ Addresses = PageSize * n
  BY <1>1
<1>4. p \in Nat /\ PageSize * p <= a
  BY <1>1, <1>2
<1> HIDE DEF n, p
<1>5. SUFFICES ASSUME n <= p PROVE FALSE
  <2>1. ~(n <= p) => p \in 0 .. n - 1
    BY <1>3, <1>4
  <2> QED
    BY <1>5, <2>1 DEF Page, Pages, p, n
<1>6. PageSize * n <= PageSize * p
  BY <1>1, <1>3, <1>4, <1>5
<1>7. PageSize * n \in Int /\ PageSize * p \in Int
  BY <1>1, <1>3, <1>4
<1> QED
  BY <1>2, <1>3, <1>4, <1>6, <1>7

LEMMA ImageNext ==
    ASSUME Typed, Working, ImageInv, LoaderNext
    PROVE  ImageInv'
<1>1. SUFFICES ASSUME pc' \notin {"failed", "crashed"}, BlocksDisjoint'
               PROVE  PassedInPlace' /\ CurrentFilled' /\ NothingBeside'
  BY DEF ImageInv
<1>2. ~Fail /\ pc \notin {"failed", "crashed"} /\ table' = table
  BY <1>1 DEF LoaderNext, Open, ReadHeader, ReadTable, SkipHeader, RefuseAlignment, MapSegment,
              ReadSegment, ExtendSegment, ProtectSegment, Finish, IoFail, Fail
<1>3. BlocksDisjoint
  BY <1>1, <1>2 DEF BlocksDisjoint, Loadable, BlockOf, Block, Addrs, Page
<1>4. PassedInPlace /\ CurrentFilled /\ NothingBeside
  BY <1>2, <1>3 DEF ImageInv
<1>5. mem \in [Addrs -> -1 .. FileLen] /\ rights \in [Pages -> Rights] /\ table \in Tables
      /\ k \in 1 .. Len(table) + 1
  BY DEF Typed
<1>6. CASE Open \/ ReadHeader \/ ReadTable \/ SkipHeader \/ RefuseAlignment \/ Finish
  <2>1. /\ UNCHANGED <<mem, rights>>
        /\ pc \in {"open", "header", "table", "next"}
        /\ pc' \in {"header", "table", "next", "loaded"}
        /\ k' = k \/ (k <= Len(table) /\ ~NeedToLoad(ph) /\ k' = k + 1)
    BY <1>1, <1>2, <1>6 DEF Open, ReadHeader, ReadTable, SkipHeader, RefuseAlignment, Finish, IoFail
  <2>2. Passed' = Passed
    BY <1>2, <2>1, PassedGrows DEF Passed
  <2>3. Filling = {} /\ Filling' = {}
    BY <2>1 DEF Filling
  <2>4. PassedInPlace'
    BY <1>2, <1>4, <2>1, <2>2 DEF PassedInPlace, InPlace
  <2>5. NothingBeside'
    BY <1>2, <1>4, <2>1, <2>2, <2>3 DEF NothingBeside
  <2> QED
    BY <2>1, <2>4, <2>5 DEF CurrentFilled
<1>7. CASE MapSegment \/ ReadSegment \/ ExtendSegment \/ ProtectSegment
  <2>1. k <= Len(table) /\ NeedToLoad(ph)
    BY <1>2, <1>7 DEF MapSegment, ReadSegment, ExtendSegment, ProtectSegment, Working
  <2>2. /\ ph.vaddr \in Nat /\ ph.memsz \in Nat /\ ph.filesz \in Nat /\ ph.offset \in Nat
        /\ ph.filesz <= ph.memsz /\ Segment(ph) \subseteq block /\ block \subseteq Addrs
    BY <2>1, PassedHeaders DEF ph, block, BlockOf
  <2>3. \A j \in Passed : \A a \in Segment(table[j]) :
            a \in Addrs /\ a \notin block /\ ~\E b \in block : Page(b) = Page(a)
    BY <1>3, <2>1, PassedApart
  <2>4. \A a \in Addrs : a \in Int
    BY DEF Addrs
  <2>5. CASE MapSegment
    <3>1. /\ mem' = [a \in Addrs |-> IF a \in block THEN 0 ELSE mem[a]]
          /\ rights' = [p \in Pages |-> IF \E a \in block : Page(a) = p
                                        THEN {"R", "W"} ELSE rights[p]]
          /\ pc = "next" /\ pc' = "read" /\ k' = k
      BY <1>2, <2>5 DEF MapSegment, IoFail
    <3>2. Passed' = Passed /\ Filling = {} /\ Filling' = {}
      BY <1>2, <3>1 DEF Passed, Filling
    <3>3. ASSUME NEW j \in Passed, NEW a \in Segment(table[j])
          PROVE  mem'[a] = mem[a] /\ rights'[Page(a)] = rights[Page(a)]
      <4>1. a \in Addrs /\ Page(a) \in Pages
        BY <2>3, PageModelled
      <4> QED
        BY <2>3, <3>1, <4>1
    <3>4. PassedInPlace'
      BY <1>2, <1>4, <3>2, <3>3 DEF PassedInPlace, InPlace
    <3>5. ASSUME NEW a \in Addrs, mem'[a] > 0 PROVE mem[a] > 0
      BY <3>1, <3>5
    <3>6. NothingBeside'
      BY <1>2, <1>4, <3>2, <3>5 DEF NothingBeside, Addrs
    <3> QED
      BY <3>1, <3>4, <3>6 DEF CurrentFilled
  <2>6. CASE ReadSegment
    <3> DEFINE written == ph.vaddr .. ph.vaddr + ph.filesz - 1
    <3>1. /\ mem' = [a \in Addrs |-> IF a \in written
                                     THEN ph.offset + (a - ph.vaddr) + 1 ELSE mem[a]]
          /\ pc = "read" /\ pc' = "extend" /\ UNCHANGED <<k, rights>>
      BY <1>2, <2>6 DEF ReadSegment, IoFail
    <3>2. Passed' = Passed /\ Filling = {} /\ Filling' = {k}
      BY <1>2, <3>1 DEF Passed, Filling
    <3>3. written \subseteq Segment(ph)
      BY <2>2 DEF Segment
    <3>4. ph' = ph
      BY <1>2, <3>1 DEF ph
    <3>5. PassedInPlace'
      <4>1. \A j \in Passed : \A a \in Segment(table[j]) : mem'[a] = mem[a]
        BY <2>2, <2>3, <3>1, <3>3
      <4> QED
        BY <1>2, <1>4, <3>1, <3>2, <4>1 DEF PassedInPlace, InPlace
    <3>6. ASSUME NEW a \in Segment(ph), a < ph.vaddr + ph.filesz
          PROVE  mem'[a] = Contents(ph, a)
      <4>1. a \in Addrs /\ a \in written
        BY <2>2, <3>6 DEF Segment
      <4> QED
        BY <3>1, <3>6, <4>1 DEF Contents
    <3>7. CurrentFilled'
      BY <3>1, <3>4, <3>6 DEF CurrentFilled, FilledTo
    <3>8. ASSUME NEW a \in Addrs, mem'[a] > 0
          PROVE  \E j \in Passed \cup {k} : a \in Segment(table[j])
      <4>1. CASE a \in written
        BY <3>3, <4>1 DEF ph
      <4>2. CASE a \notin written
        BY <1>4, <3>1, <3>2, <3>8, <4>2 DEF NothingBeside
      <4> QED
        BY <4>1, <4>2
    <3>9. NothingBeside'
      BY <1>2, <3>2, <3>8 DEF NothingBeside, Addrs
    <3> QED
      BY <3>5, <3>7, <3>9
  <2>7. CASE ExtendSegment
    <3> DEFINE written == ph.vaddr + ph.filesz .. ph.vaddr + ph.memsz - 1
    <3>1. /\ mem' = [a \in Addrs |-> IF a \in written THEN 0 ELSE mem[a]]
          /\ pc = "extend" /\ pc' = "protect" /\ UNCHANGED <<k, rights>>
      BY <2>7 DEF ExtendSegment
    <3>2. Passed' = Passed /\ Filling = {k} /\ Filling' = {k}
      BY <1>2, <3>1 DEF Passed, Filling
    <3>3. written \subseteq Segment(ph)
      BY <2>2 DEF Segment
    <3>4. ph' = ph
      BY <1>2, <3>1 DEF ph
    <3>5. PassedInPlace'
      <4>1. \A j \in Passed : \A a \in Segment(table[j]) : mem'[a] = mem[a]
        BY <2>2, <2>3, <3>1, <3>3
      <4> QED
        BY <1>2, <1>4, <3>1, <3>2, <4>1 DEF PassedInPlace, InPlace
    <3>6. ASSUME NEW a \in Segment(ph) PROVE mem'[a] = Contents(ph, a)
      <4>1. a \in Addrs /\ a \in Int /\ a <= ph.vaddr + ph.memsz - 1
        BY <2>2, <3>6 DEF Segment
      <4>2. CASE a < ph.vaddr + ph.filesz
        <5>1. mem[a] = Contents(ph, a)
          BY <1>4, <3>1, <3>6, <4>2 DEF CurrentFilled, FilledTo
        <5>2. a \notin written
          BY <2>2, <4>1, <4>2
        <5> QED
          BY <3>1, <4>1, <5>1, <5>2
      <4>3. CASE ~(a < ph.vaddr + ph.filesz)
        <5>1. a \in written
          BY <2>2, <4>1, <4>3
        <5> QED
          BY <3>1, <4>1, <4>3, <5>1 DEF Contents
      <4> QED
        BY <4>2, <4>3
    <3>7. CurrentFilled'
      BY <3>1, <3>4, <3>6 DEF CurrentFilled
    <3>8. ASSUME NEW a \in Addrs, mem'[a] > 0 PROVE mem[a] > 0
      BY <3>1, <3>8
    <3>9. NothingBeside'
      BY <1>2, <1>4, <3>2, <3>8 DEF NothingBeside, Addrs
    <3> QED
      BY <3>5, <3>7, <3>9
  <2>8. CASE ProtectSegment
    <3>1. /\ rights' = ProtectedRights
          /\ pc = "protect" /\ pc' = "next" /\ k' = k + 1 /\ mem' = mem
      BY <1>1, <1>2, <2>8 DEF ProtectSegment, IoFail
    <3>2. Passed' = Passed \cup {k} /\ Filling = {k} /\ Filling' = {}
      BY <1>2, <2>1, <3>1, PassedGrows DEF Filling
    <3>3. ASSUME NEW j \in Passed, NEW a \in Segment(table[j])
          PROVE  mem'[a] = mem[a] /\ rights'[Page(a)] = rights[Page(a)]
      <4>1. a \in Addrs /\ Page(a) \in Pages
        BY <2>3, PageModelled
      <4> QED
        BY <2>3, <3>1, <4>1 DEF ProtectedRights
    <3>4. ASSUME NEW a \in Segment(ph)
          PROVE  mem'[a] = Contents(ph, a) /\ rights'[Page(a)] = ph.rights
      <4>1. a \in Addrs /\ a \in block /\ Page(a) \in Pages
        BY <2>2, PageModelled
      <4>2. a < ph.vaddr + ph.memsz
        BY <2>2 DEF Segment
      <4>3. mem[a] = Contents(ph, a)
        BY <1>4, <3>1, <4>2 DEF CurrentFilled, FilledTo
      <4> QED
        BY <3>1, <4>1, <4>3 DEF ProtectedRights
    <3>5. PassedInPlace'
      BY <1>2, <1>4, <3>2, <3>3, <3>4 DEF PassedInPlace, InPlace, ph
    <3>6. NothingBeside'
      BY <1>2, <1>4, <3>1, <3>2 DEF NothingBeside
    <3> QED
      BY <3>1, <3>5, <3>6 DEF CurrentFilled
  <2> QED
    BY <1>7, <2>5, <2>6, <2>7, <2>8
<1> QED
  BY <1>6, <1>7 DEF LoaderNext

-----------------------------------------------------------------------------
(* What is recorded: mapped blocks of headers passed, each header once.    *)

BlockAt(s) == Block(segments[s].base, segments[s].size)

RecordedMapped == Recorded \subseteq Mapped

RecordedHeaders ==
    \A s \in 1 .. Len(segments) : \E j \in Passed : BlockAt(s) = BlockOf(table[j])

RecordedApart ==
    BlocksDisjoint =>
        \A s, t \in 1 .. Len(segments) : s # t => BlockAt(s) \cap BlockAt(t) = {}

Released == RecordedMapped /\ RecordedHeaders /\ RecordedApart

LEMMA ReleasedNext ==
    ASSUME Typed, Working, AllRecorded, Released, LoaderNext
    PROVE  Released'
<1>1. RecordedMapped'
  <2>1. CASE pc' # "failed"
    BY <2>1, AllRecordedNext DEF AllRecorded, RecordedMapped
  <2>2. CASE pc' = "failed"
    <3>1. UNCHANGED <<mem, segments>>
      BY <2>2 DEF LoaderNext, Open, ReadHeader, ReadTable, SkipHeader, RefuseAlignment,
                  MapSegment, ReadSegment, ExtendSegment, ProtectSegment, Finish, IoFail, Fail
    <3> QED
      BY <3>1 DEF Released, RecordedMapped, Recorded, Mapped
  <2> QED
    BY <2>1, <2>2
<1>2. CASE UNCHANGED segments /\ (k' = k \/ (k <= Len(table) /\ k' = k + 1)) /\ table' = table
  <2>1. Passed \subseteq Passed'
    BY <1>2, PassedGrows DEF Passed
  <2>2. \A s \in 1 .. Len(segments) : BlockAt(s)' = BlockAt(s)
    BY <1>2 DEF BlockAt
  <2>3. \A j \in Passed : BlockOf(table[j])' = BlockOf(table[j])
    BY <1>2 DEF BlockOf, Block, Addrs, Page, AlignedAddr, AlignedSize
  <2>4. RecordedHeaders'
    BY <1>2, <2>1, <2>2, <2>3 DEF Released, RecordedHeaders
  <2>5. BlocksDisjoint' <=> BlocksDisjoint
    BY <1>2 DEF BlocksDisjoint, Loadable
  <2>6. RecordedApart'
    BY <1>2, <2>2, <2>5 DEF Released, RecordedApart
  <2> QED
    BY <1>1, <2>4, <2>6 DEF Released
<1>3. CASE ProtectSegment /\ k' = k + 1
  <2> DEFINE r == [base |-> AlignedAddr(ph), size |-> AlignedSize(ph)]
  <2>0. PICK n \in Nat : n = Len(segments)
    BY DEF Typed
  <2>1. segments' = Append(segments, r) /\ pc = "protect" /\ table' = table
    BY <1>3 DEF ProtectSegment, IoFail, Fail, Typed
  <2>2. k <= Len(table) /\ NeedToLoad(ph)
    BY <2>1 DEF Working
  <2>3. Passed' = Passed \cup {k} /\ k \notin Passed
    BY <1>3, <2>1, <2>2, PassedGrows
  <2>4. n \in Nat /\ Len(segments') = n + 1 /\ segments'[n + 1] = r
        /\ \A s \in 1 .. n : segments'[s] = segments[s]
    BY <2>0, <2>1 DEF Typed
  <2>5. r.base = AlignedAddr(ph) /\ r.size = AlignedSize(ph)
    OBVIOUS
  <2> HIDE DEF r
  <2>6. 1 .. Len(segments') = (1 .. n) \cup {n + 1}
    BY <2>4
  <2>7. BlockAt(n + 1)' = BlockOf(table[k])
    BY <2>4, <2>5 DEF BlockAt, BlockOf, ph
  <2>8. \A s \in 1 .. n : BlockAt(s)' = BlockAt(s)
    BY <2>4 DEF BlockAt
  <2>9. RecordedHeaders'
    <3>1. ASSUME NEW s \in (1 .. n) \cup {n + 1}
          PROVE  \E j \in Passed' : BlockAt(s)' = BlockOf(table[j])
      <4>1. CASE s \in 1 .. n
        BY <2>3, <2>8, <2>0, <4>1 DEF Released, RecordedHeaders
      <4>2. CASE s = n + 1
        BY <2>3, <2>7, <4>2
      <4> QED
        BY <4>1, <4>2
    <3> QED
      BY <2>1, <2>6, <3>1 DEF RecordedHeaders
  <2>10. ASSUME BlocksDisjoint, NEW s \in 1 .. n
         PROVE  BlockAt(s) \cap BlockOf(table[k]) = {}
    <3>1. PICK j \in Passed : BlockAt(s) = BlockOf(table[j])
      BY <2>0, <2>10 DEF Released, RecordedHeaders
    <3>2. j \in Loadable /\ k \in Loadable /\ j # k
      <4>1. k \in 1 .. Len(table) /\ Len(table) \in Nat
        BY <2>2, LoadableFacts DEF Typed
      <4> QED
        BY <2>2, <2>3, <4>1 DEF Passed, Loadable, ph
    <3> QED
      BY <2>10, <3>1, <3>2 DEF BlocksDisjoint
  <2>11. RecordedApart'
    <3>1. SUFFICES ASSUME BlocksDisjoint, NEW s \in (1 .. n) \cup {n + 1},
                          NEW t \in (1 .. n) \cup {n + 1}, s # t
                   PROVE  BlockAt(s)' \cap BlockAt(t)' = {}
      <4>1. BlocksDisjoint' <=> BlocksDisjoint
        BY <2>1 DEF BlocksDisjoint, Loadable
      <4> QED
        BY <2>6, <4>1 DEF RecordedApart
    <3>2. CASE s \in 1 .. n /\ t \in 1 .. n
      BY <2>8, <2>0, <3>1, <3>2 DEF Released, RecordedApart
    <3>3. CASE s \in 1 .. n /\ t = n + 1
      BY <2>7, <2>8, <2>10, <3>1, <3>3
    <3>4. CASE s = n + 1 /\ t \in 1 .. n
      BY <2>7, <2>8, <2>10, <3>1, <3>4
    <3> QED
      BY <3>1, <3>2, <3>3, <3>4
  <2> QED
    BY <1>1, <2>9, <2>11 DEF Released
<1>4. CASE ~(ProtectSegment /\ k' = k + 1)
  <2>1. UNCHANGED segments /\ (k' = k \/ (k <= Len(table) /\ k' = k + 1)) /\ table' = table
    <3>1. k \in Nat
      BY LoadableFacts DEF Typed
    <3>2. CASE Open \/ ReadHeader \/ ReadTable \/ SkipHeader \/ RefuseAlignment
      BY <3>2 DEF Open, ReadHeader, ReadTable, SkipHeader, RefuseAlignment, IoFail, Fail
    <3>3. CASE MapSegment \/ ReadSegment \/ ExtendSegment \/ ProtectSegment \/ Finish
      BY <1>4, <3>3 DEF MapSegment, ReadSegment, ExtendSegment, ProtectSegment, Finish,
                        IoFail, Fail
    <3> QED
      BY <3>2, <3>3 DEF LoaderNext
  <2> QED
    BY <1>2, <2>1
<1> QED
  BY <1>3, <1>4

-----------------------------------------------------------------------------
(* The file, and the reasons to refuse a binary. *)

LEMMA FileClosedNext ==
    ASSUME Typed, FileClosed, LoaderNext
    PROVE  FileClosed'
<1>1. CASE Open \/ ReadHeader \/ ReadTable \/ SkipHeader \/ RefuseAlignment
  BY <1>1 DEF Open, ReadHeader, ReadTable, SkipHeader, RefuseAlignment, IoFail, Fail,
              FileClosed, Typed
<1>2. CASE MapSegment \/ ReadSegment \/ ExtendSegment \/ ProtectSegment \/ Finish
  BY <1>2 DEF MapSegment, ReadSegment, ExtendSegment, ProtectSegment, Finish, IoFail, Fail,
              FileClosed, Typed
<1> QED
  BY <1>1, <1>2 DEF LoaderNext

LEMMA RefusedNext ==
    ASSUME Typed, Working, LoaderNext
    PROVE  RefusedForAReason'
<1>1. SUFFICES ASSUME pc' = "failed", ~ioError'
               PROVE  \E j \in Loadable' : table'[j].align % PageSize # 0 \/ table'[j].filesz = 0
  BY DEF RefusedForAReason
<1>2. \/ RefuseAlignment /\ Fail
      \/ pc = "read" /\ ph.filesz = 0 /\ Fail
  BY <1>1 DEF LoaderNext, Open, ReadHeader, ReadTable, SkipHeader, RefuseAlignment, MapSegment,
              ReadSegment, ExtendSegment, ProtectSegment, Finish, IoFail
<1>3. k <= Len(table) /\ NeedToLoad(ph) /\ (ph.align % PageSize # 0 \/ ph.filesz = 0)
  BY <1>2 DEF RefuseAlignment, Working
<1>4. k \in 1 .. Len(table)
  BY <1>3, LoadableFacts DEF Typed
<1>5. Loadable' = Loadable /\ table' = table
  BY <1>2 DEF Fail, Loadable
<1>6. k \in Loadable
  BY <1>3, <1>4 DEF Loadable, ph
<1> QED
  BY <1>3, <1>5, <1>6 DEF ph

-----------------------------------------------------------------------------
LoaderInv ==
    /\ Typed /\ Working /\ Counted /\ AllRecorded /\ ImageInv /\ Released
    /\ FileClosed /\ RefusedForAReason /\ FailedRecorded

LEMMA InvInit == LoaderInit => LoaderInv
<1> SUFFICES ASSUME LoaderInit PROVE LoaderInv
  OBVIOUS
<1>1. Typed
  BY TypedInit
<1>2. Working /\ RefusedForAReason /\ FileClosed /\ FailedRecorded
  BY DEF LoaderInit, Working, RefusedForAReason, FileClosed, FailedRecorded
<1>3. Counted
  BY DEF LoaderInit, Counted
<1>4. Mapped = {} /\ Recorded = {} /\ Current = {}
  BY DEF LoaderInit, Mapped, Recorded, Current
<1>5. Passed = {} /\ Len(segments) = 0 /\ \A a \in Addrs : mem[a] = -1
  BY DEF LoaderInit, Passed, Unmapped
<1>6. ImageInv
  BY <1>5 DEF LoaderInit, ImageInv, PassedInPlace, CurrentFilled, NothingBeside
<1>7. Released
  BY <1>4, <1>5 DEF Released, RecordedMapped, RecordedHeaders, RecordedApart
<1> QED
  BY <1>1, <1>2, <1>3, <1>4, <1>6, <1>7 DEF LoaderInv, AllRecorded

\* The invariant is about the variables of the loader only.
LEMMA InvStutter ==
    ASSUME LoaderInv, UNCHANGED loaderVars
    PROVE  LoaderInv'
<1> USE DEF loaderVars, LoaderInv
<1>1. Typed'
  BY DEF Typed
<1>2. Working' /\ FileClosed' /\ RefusedForAReason'
  BY DEF Working, ph, FileClosed, RefusedForAReason, Loadable
<1>3. Counted'
  BY DEF Counted, Passed, Loadable
<1>4. Mapped' = Mapped /\ Recorded' = Recorded /\ Current' = Current
  BY DEF Mapped, Recorded, Current, block, ph
<1>5. AllRecorded' /\ FailedRecorded'
  BY <1>4 DEF AllRecorded, FailedRecorded, StoppedAt, block, ph
<1>6. (BlocksDisjoint' <=> BlocksDisjoint) /\ Passed' = Passed /\ Filling' = Filling
      /\ ph' = ph /\ FilledTo' = FilledTo
  BY DEF BlocksDisjoint, Loadable, Passed, Filling, ph, FilledTo
<1>7. ImageInv'
  BY <1>6 DEF ImageInv, PassedInPlace, InPlace, CurrentFilled, NothingBeside
<1>8. Released'
  BY <1>4, <1>6 DEF Released, RecordedMapped, RecordedHeaders, RecordedApart, BlockAt
<1> QED
  BY <1>1, <1>2, <1>3, <1>5, <1>7, <1>8

LEMMA InvNext == LoaderInv /\ [LoaderNext]_loaderVars => LoaderInv'
<1> SUFFICES ASSUME LoaderInv, [LoaderNext]_loaderVars PROVE LoaderInv'
  OBVIOUS
<1>1. CASE LoaderNext
  BY <1>1, TypedNext, WorkingNext, CountedNext, AllRecordedNext, ImageNext, ReleasedNext,
     FileClosedNext, RefusedNext, FailedRecordedNext DEF LoaderInv
<1> QED
  BY <1>1, InvStutter

\* Each state of the loader satisfies the invariant that its actions keep.
THEOREM LoaderInvariant == LoaderSpec => []LoaderInv
BY InvInit, InvNext, PTL DEF LoaderSpec

\* Variables keep their types: the array of segments that the counting loop
\* sizes is never written past its end, whatever the program header table
\* (elfloader.c:112-117).
THEOREM SegmentsFit == LoaderSpec => []LoaderTypeOK
<1>1. LoaderInv => LoaderTypeOK
  <2> SUFFICES ASSUME LoaderInv PROVE LoaderTypeOK
    OBVIOUS
  <2>1. Typed /\ Len(segments) <= segmentsLen
    BY DEF LoaderInv, Counted
  <2> QED
    BY <2>1 DEF Typed, Rights, LoaderTypeOK
<1> QED
  BY <1>1, LoaderInvariant, PTL

LEMMA InvImpliesRecords ==
    ASSUME LoaderInv
    PROVE  MappingsRecorded
<1>1. pc # "failed" => Mapped = Recorded \cup Current
  BY DEF LoaderInv, AllRecorded
<1>2. ASSUME pc = "loaded" PROVE Len(segments) = segmentsLen /\ (Loadable # {} => array)
  <2>1. /\ Len(segments) = segmentsLen /\ segmentsLen = Cardinality(Loadable)
        /\ segments # <<>> => array
    BY <1>2, PassedFacts DEF LoaderInv, Counted
  <2>2. Loadable # {} => Cardinality(Loadable) # 0
    BY LoadableFacts, FS_EmptySet DEF LoaderInv, Typed
  <2>3. segments = <<>> => Len(segments) = 0
    OBVIOUS
  <2> QED
    BY <2>1, <2>2, <2>3
<1>3. ASSUME pc = "crashed" PROVE segments = <<>> /\ ~array
  BY <1>3 DEF LoaderInv, Counted
<1>4. ASSUME pc = "failed" PROVE Recorded \subseteq Mapped /\ Mapped \subseteq Recorded \cup StoppedAt
  BY <1>4 DEF LoaderInv, Released, RecordedMapped, FailedRecorded
<1> QED
  BY <1>1, <1>2, <1>3, <1>4 DEF MappingsRecorded, Recorded, Current, StoppedAt

\* What segments_free will unmap is what has been mapped, for any layout of
\* the segments, overlapping blocks included (elfloader.c:112-117, 181-183).
THEOREM RecordsWhatItMaps == LoaderSpec => []MappingsRecorded
BY LoaderInvariant, InvImpliesRecords, PTL

\* A loaded binary has each byte of its segments where its headers say, zeros
\* behind them, the rights asked for, and nothing else of the file anywhere,
\* whatever was mapped, filled or protected after it (elfloader.c:150-176).
LEMMA InvImpliesImage ==
    ASSUME LoaderInv
    PROVE  ImageComplete
<1>1. SUFFICES ASSUME pc = "loaded", BlocksDisjoint
               PROVE  /\ \A j \in Loadable : InPlace(table[j])
                      /\ \A a \in Addrs : mem[a] > 0 => \E j \in Loadable : a \in Segment(table[j])
  BY DEF ImageComplete, InPlace, Segment, Contents
<1>2. PassedInPlace /\ NothingBeside
  BY <1>1 DEF LoaderInv, ImageInv
<1>3. Passed = Loadable /\ Filling = {}
  BY <1>1, PassedFacts DEF LoaderInv, Counted, Filling
<1> QED
  BY <1>2, <1>3 DEF PassedInPlace, NothingBeside

\* What a loaded binary looks like in memory, for every binary whose blocks
\* are disjoint (elfloader.c:150-176).
THEOREM LoadedAsItsHeadersSay == LoaderSpec => []ImageComplete
BY LoaderInvariant, InvImpliesImage, PTL

\* The binary is open exactly while it is being loaded, on every path out
\* (elfloader.c:185-197).
THEOREM FileNeverLeaks == LoaderSpec => []FileClosed
BY LoaderInvariant, PTL DEF LoaderInv

\* A binary is refused for one of the reasons the loader has (elfloader.c:129-152).
THEOREM RefusalsHaveReasons == LoaderSpec => []RefusedForAReason
BY LoaderInvariant, PTL DEF LoaderInv

-----------------------------------------------------------------------------
(* Where the process is. *)

\* The loader's variables are untouched until segments_free starts.
LoaderKept == main \notin {"freeSegments", "exited"} => LoaderInv

Phases ==
    /\ main = "start" => pc = "open"
    /\ main \in {"load", "run", "freeStack"} => stack = "mapped"
    /\ main \in {"run", "freeStack", "freeSegments"} => pc = "loaded"
    /\ main \notin {"freeSegments", "exited"} => freeing = 1 /\ failures = {}
    /\ status # NoStatus => main \in {"freeStack", "freeSegments", "exited"}

\* In the middle of segments_free: mapped are the blocks still to come and
\* the blocks lost, but for what was released since.
Kept == BlocksOf(lost) \cup BlocksOf(freeing .. segmentsLen)
Gone == BlocksOf((1 .. freeing - 1) \ lost)

Releasing ==
    main = "freeSegments" =>
        /\ Len(segments) = segmentsLen /\ freeing <= segmentsLen + 1
        /\ stack = "mapped" <=> 0 \in failures
        /\ failures \subseteq 0 .. freeing - 1
        /\ Mapped = Kept \ Gone
        /\ RecordedApart
        /\ BlocksDisjoint => \A s \in freeing .. segmentsLen : BlockAt(s) \subseteq Mapped

ProcessInv ==
    /\ Typed /\ TypeOK
    /\ LoaderKept /\ Phases /\ Releasing
    /\ ReleasesEverything /\ ExitStatus

LEMMA ProcessInit == Init => ProcessInv
<1> SUFFICES ASSUME Init PROVE ProcessInv
  OBVIOUS
<1>1. LoaderInv /\ main = "start" /\ stack = "none" /\ freeing = 1 /\ failures = {}
      /\ status = NoStatus /\ exit = NoStatus
  BY InvInit DEF Init
<1>2. Typed /\ Len(segments) <= segmentsLen /\ Len(table) \in Nat
  BY <1>1, LoadableFacts DEF LoaderInv, Typed, Counted
<1>3. TypeOK
  BY <1>1, <1>2 DEF TypeOK, LoaderTypeOK, Typed, Rights, NoStatus, Killed
<1>4. pc = "open"
  BY DEF Init, LoaderInit
<1>5. LoaderKept /\ Phases
  BY <1>1, <1>4 DEF LoaderKept, Phases
<1>6. Releasing /\ ReleasesEverything /\ ExitStatus
  BY <1>1 DEF Releasing, ReleasesEverything, ExitStatus
<1> QED
  BY <1>2, <1>3, <1>5, <1>6 DEF ProcessInv

-----------------------------------------------------------------------------
(* The set-up and the guest. *)

\* What a step leaves alone outside of the loader.
LEMMA LoaderUnchanged ==
    ASSUME ProcessInv, UNCHANGED loaderVars
    PROVE  /\ Typed' /\ LoaderTypeOK'
           /\ LoaderInv => LoaderInv'
           /\ Len(table') + 1 = Len(table) + 1
<1>1. Typed'
  BY DEF ProcessInv, Typed, loaderVars
<1>2. LoaderTypeOK'
  BY DEF ProcessInv, TypeOK, LoaderTypeOK, loaderVars
<1> QED
  BY <1>1, <1>2, InvStutter DEF loaderVars

\* The array of segments of a process that gave up still says what is mapped.
LEMMA GivenUp ==
    ASSUME LoaderInv
    PROVE  BlocksOf(1 .. Len(segments)) \subseteq Mapped
BY DEF LoaderInv, Released, RecordedMapped, Recorded, BlocksOf

LEMMA SetupNext ==
    ASSUME ProcessInv, Usage \/ ContextInit \/ LoadFails \/ LoadCrashes \/ EmuInit
    PROVE  ProcessInv'
<1>1. UNCHANGED loaderVars /\ UNCHANGED <<freeing, failures, status>>
  BY DEF Usage, ContextInit, LoadFails, LoadCrashes, EmuInit
<1>2. /\ main \in {"start", "load"} /\ main' \in {"load", "run", "exited"}
      /\ main' = "load" => stack' = "mapped"
      /\ main' = "run" => main = "load" /\ stack' = stack /\ pc = "loaded"
      /\ main' = "exited" => exit' \in {1, Killed} /\ pc # "loaded" /\ stack' = stack
      /\ main' = "exited" /\ main = "start" => pc = "open"
      /\ main' # "exited" => exit' = exit
  BY DEF Usage, ContextInit, LoadFails, LoadCrashes, EmuInit, Exit, ProcessInv, Phases
<1>3. stack' \in {"none", "mapped"} /\ exit' \in -1 .. Killed
  <2>1. stack \in {"none", "mapped"} /\ exit \in -1 .. Killed
    BY DEF ProcessInv, TypeOK
  <2>2. stack' = stack \/ stack' = "mapped"
    BY <1>2
  <2>3. exit' = exit \/ exit' = 1 \/ exit' = Killed
    BY <1>2
  <2> QED
    BY <2>1, <2>2, <2>3 DEF Killed
<1>4. pc' = pc /\ table' = table /\ segments' = segments /\ mem' = mem
  BY <1>1 DEF loaderVars
<1>5. LoaderInv /\ LoaderInv'
  BY <1>1, <1>2, LoaderUnchanged DEF ProcessInv, LoaderKept
<1>6. Typed' /\ TypeOK'
  BY <1>1, <1>2, <1>3, LoaderUnchanged DEF ProcessInv, TypeOK
<1>7. Phases'
  BY <1>1, <1>2, <1>4 DEF ProcessInv, Phases
<1>8. ReleasesEverything'
  <2>1. main' = "exited" /\ pc' \in {"failed", "crashed"} => stack' = "mapped"
    BY <1>2, <1>4 DEF ProcessInv, Phases
  <2>2. (BlocksOf(1 .. Len(segments)) \subseteq Mapped)'
    BY <1>5 DEF LoaderInv, Released, RecordedMapped, Recorded, BlocksOf
  <2> QED
    BY <1>2, <1>4, <2>1, <2>2 DEF ReleasesEverything
<1>9. ExitStatus'
  <2>1. status' = NoStatus /\ pc' = pc
    BY <1>1, <1>2, <1>4 DEF ProcessInv, Phases
  <2>2. CASE main' = "exited"
    <3>1. exit' \in {1, Killed} /\ pc' # "loaded"
      BY <1>2, <2>1, <2>2
    <3> QED
      BY <2>1, <2>2, <3>1 DEF ExitStatus
  <2>3. CASE main' # "exited"
    BY <2>3 DEF ExitStatus
  <2> QED
    BY <2>2, <2>3
<1> QED
  BY <1>2, <1>5, <1>6, <1>7, <1>8, <1>9 DEF ProcessInv, LoaderKept, Releasing

LEMMA LoadNext ==
    ASSUME ProcessInv, Load
    PROVE  ProcessInv'
<1>1. main = "load" /\ LoaderNext /\ UNCHANGED mainVars /\ LoaderInv
  BY DEF Load, ProcessInv, LoaderKept
<1>2. LoaderInv'
  BY <1>1, InvNext
<1>3. Typed' /\ LoaderTypeOK'
  BY <1>2 DEF LoaderInv, Typed, Counted, LoaderTypeOK, Rights
<1>4. Len(table') = Len(table)
  BY <1>1 DEF LoaderNext, Open, ReadHeader, ReadTable, SkipHeader, RefuseAlignment,
              MapSegment, ReadSegment, ExtendSegment, ProtectSegment, Finish, IoFail, Fail
<1>5. TypeOK'
  BY <1>1, <1>3, <1>4 DEF ProcessInv, TypeOK, mainVars
<1>6. Phases'
  BY <1>1 DEF ProcessInv, Phases, mainVars
<1> QED
  BY <1>1, <1>2, <1>3, <1>5, <1>6 DEF ProcessInv, LoaderKept, Releasing, ReleasesEverything,
                                      ExitStatus, mainVars

LEMMA GuestNext ==
    ASSUME ProcessInv, Guest
    PROVE  ProcessInv'
<1>1. UNCHANGED loaderVars /\ UNCHANGED <<stack, freeing, failures>> /\ main = "run"
  BY DEF Guest, RunReturns, SysExit, GuestCrashes
<1>2. /\ main' \in {"freeStack", "exited"}
      /\ status' \in Statuses \cup {NoStatus}
      /\ main' = "exited" => exit' = Killed
      /\ main' # "exited" => exit' = exit
  BY DEF Guest, RunReturns, SysExit, GuestCrashes, Exit, ProcessInv, TypeOK
<1>3. exit' \in -1 .. Killed
  <2>1. exit \in -1 .. Killed
    BY DEF ProcessInv, TypeOK
  <2>2. exit' = exit \/ exit' = Killed
    BY <1>2
  <2> QED
    BY <2>1, <2>2 DEF Killed
<1>4. pc' = pc /\ table' = table /\ pc = "loaded"
  BY <1>1 DEF loaderVars, ProcessInv, Phases
<1>5. LoaderInv'
  BY <1>1, LoaderUnchanged DEF ProcessInv, LoaderKept
<1>6. Typed' /\ TypeOK'
  BY <1>1, <1>2, <1>3, LoaderUnchanged DEF ProcessInv, TypeOK
<1>7. Phases'
  BY <1>1, <1>2, <1>4 DEF ProcessInv, Phases
<1> QED
  BY <1>2, <1>4, <1>5, <1>6, <1>7 DEF ProcessInv, LoaderKept, Releasing, ReleasesEverything,
                                      ExitStatus

-----------------------------------------------------------------------------
(* The release. *)

\* A loaded binary: all that is mapped is recorded, each block once.
LEMMA FreeStackNext ==
    ASSUME ProcessInv, FreeStack
    PROVE  ProcessInv'
<1>1. /\ main = "freeStack" /\ main' = "freeSegments"
      /\ UNCHANGED loaderVars /\ UNCHANGED <<freeing, status, exit>>
      /\ \/ stack' = "none" /\ failures' = failures
         \/ stack' = stack /\ failures' = {0}
  BY DEF FreeStack
<1>2. LoaderInv /\ pc = "loaded" /\ freeing = 1 /\ failures = {}
  BY <1>1 DEF ProcessInv, LoaderKept, Phases
<1>3. Mapped = Recorded /\ Len(segments) = segmentsLen
  BY <1>2, InvImpliesRecords DEF MappingsRecorded, Recorded
<1>4. pc' = pc /\ table' = table /\ segments' = segments /\ segmentsLen' = segmentsLen /\ mem' = mem
  BY <1>1 DEF loaderVars
<1>5. /\ Mapped' = Mapped
      /\ \A s : BlockAt(s)' = BlockAt(s)
      /\ RecordedApart' <=> RecordedApart
      /\ BlocksDisjoint' <=> BlocksDisjoint
  <2>1. Mapped' = Mapped
    BY <1>4 DEF Mapped
  <2>2. \A s : BlockAt(s)' = BlockAt(s)
    BY <1>4 DEF BlockAt
  <2>4. BlocksDisjoint' <=> BlocksDisjoint
    BY <1>4 DEF BlocksDisjoint, Loadable
  <2>5. RecordedApart' <=> RecordedApart
    BY <1>4, <2>2, <2>4 DEF RecordedApart
  <2> QED
    BY <2>1, <2>2, <2>4, <2>5
<1>9. failures' \subseteq {0} /\ lost' = {}
  BY <1>1, <1>2 DEF lost
<1>6. Releasing'
  <2>1. \A s \in 1 .. segmentsLen : BlockAt(s) \subseteq Mapped
    BY <1>3 DEF Recorded, BlockAt
  <2>2. segmentsLen \in Nat /\ RecordedApart
    BY <1>2, LoadableFacts DEF LoaderInv, Typed, Released
  <2>3. freeing' = 1 /\ segmentsLen' = Len(segments) /\ 1 - 1 = 0 /\ 1 .. 0 = {}
    BY <1>1, <1>2, <1>3, <1>4
  <2>4. Kept' = Recorded
    <3>1. Kept' = UNION {Block(segments[s].base, segments[s].size) : s \in 1 .. Len(segments)}
      BY <1>4, <1>9, <2>3 DEF Kept, BlocksOf
    <3> QED
      BY <3>1, Zenon DEF Recorded
  <2>5. Gone' = {}
    BY <1>9, <2>3 DEF Gone, BlocksOf
  <2>6. stack' = "mapped" <=> 0 \in failures'
    BY <1>1, <1>2 DEF ProcessInv, Phases
  <2>7. (BlocksDisjoint => \A s \in freeing .. segmentsLen : BlockAt(s) \subseteq Mapped)'
    BY <1>4, <1>5, <2>1, <2>3, <1>3
  <2>8. (Mapped = Kept \ Gone)'
    BY <1>3, <1>5, <2>4, <2>5
  <2>9. (failures \subseteq 0 .. freeing - 1)'
    BY <1>9, <2>3
  <2> QED
    BY <1>3, <1>4, <1>5, <2>2, <2>3, <2>6, <2>7, <2>8, <2>9 DEF Releasing
<1>7. Typed' /\ TypeOK'
  <2>1. failures' \subseteq 0 .. Len(table')
    BY <1>2, <1>4, <1>9, LoadableFacts DEF LoaderInv, Typed
  <2> QED
    BY <1>1, <1>2, <2>1, LoaderUnchanged DEF ProcessInv, TypeOK
<1>8. Phases'
  BY <1>1, <1>2, <1>4 DEF ProcessInv, Phases
<1> QED
  BY <1>1, <1>6, <1>7, <1>8 DEF ProcessInv, LoaderKept, ReleasesEverything, ExitStatus

LEMMA UnmapRemoves ==
    ASSUME NEW range \in SUBSET Addrs, Typed, Unmap(range)
    PROVE  /\ Mapped' = Mapped \ range
           /\ mem' \in [Addrs -> -1 .. FileLen] /\ rights' \in [Pages -> Rights]
<1>1. mem' = [a \in Addrs |-> IF a \in range THEN Unmapped ELSE mem[a]]
  BY DEF Unmap
<1>2. FileLen \in Nat /\ mem \in [Addrs -> -1 .. FileLen]
  BY SizesAssumption DEF Typed
<1>3. \A a \in Addrs : mem'[a] # Unmapped <=> mem[a] # Unmapped /\ a \notin range
  BY <1>1
<1>4. Mapped' = Mapped \ range
  BY <1>3 DEF Mapped, Addrs
<1>5. mem' \in [Addrs -> -1 .. FileLen]
  BY <1>1, <1>2 DEF Unmapped
<1>6. rights' \in [Pages -> Rights]
  BY DEF Unmap, Typed, Rights
<1> QED
  BY <1>4, <1>5, <1>6

\* One round of the loop: the block at hand is released or lost.
LEMMA KeptAndGone ==
    ASSUME freeing \in Nat \ {0}, segmentsLen \in Nat, freeing <= segmentsLen,
           failures \subseteq 0 .. freeing - 1, Mapped = Kept \ Gone,
           UNCHANGED <<segments, segmentsLen>>, freeing' = freeing + 1,
           \/ Mapped' = Mapped \ BlockAt(freeing) /\ failures' = failures
           \/ Mapped' = Mapped /\ failures' = failures \cup {freeing}
    PROVE  Mapped' = Kept' \ Gone' /\ failures' \subseteq 0 .. freeing
<1> DEFINE R == (1 .. freeing - 1) \ lost
           C == freeing + 1 .. segmentsLen
<1>1. \A S, T : BlocksOf(S \cup T) = BlocksOf(S) \cup BlocksOf(T)
  BY DEF BlocksOf
<1>2. BlocksOf({freeing}) = BlockAt(freeing)
  BY DEF BlocksOf, BlockAt
<1>3. \A S : BlocksOf(S)' = BlocksOf(S)
  BY DEF BlocksOf
<1>4. freeing .. segmentsLen = {freeing} \cup C /\ freeing' .. segmentsLen' = C
  OBVIOUS
<1>5. Kept = BlocksOf(lost) \cup BlockAt(freeing) \cup BlocksOf(C)
  BY <1>1, <1>2, <1>4 DEF Kept
<1>6. Kept' = BlocksOf(lost') \cup BlocksOf(C)
  BY <1>3, <1>4 DEF Kept, BlocksOf
<1>7. Gone = BlocksOf(R) /\ Gone' = BlocksOf((1 .. freeing) \ lost')
  BY <1>3 DEF Gone, BlocksOf
<1>8. CASE Mapped' = Mapped \ BlockAt(freeing) /\ failures' = failures
  <2>1. lost' = lost /\ (1 .. freeing) \ lost' = R \cup {freeing}
    BY <1>8 DEF lost
  <2>2. Gone' = BlocksOf(R) \cup BlockAt(freeing) /\ Kept' = BlocksOf(lost) \cup BlocksOf(C)
    BY <1>1, <1>2, <1>6, <1>7, <2>1
  <2>3. Kept' \ Gone' = (Kept \ Gone) \ BlockAt(freeing)
    <3> HIDE DEF R, C
    <3> QED BY <1>5, <1>7, <2>2
  <2>4. failures' \subseteq 0 .. freeing
    BY <1>8
  <2> QED
    BY <1>8, <2>3, <2>4
<1>9. CASE Mapped' = Mapped /\ failures' = failures \cup {freeing}
  <2>1. lost' = lost \cup {freeing} /\ (1 .. freeing) \ lost' = R
    BY <1>9 DEF lost
  <2>2. BlocksOf(lost') = BlocksOf(lost) \cup BlockAt(freeing)
    <3>1. BlocksOf(lost \cup {freeing}) = BlocksOf(lost) \cup BlocksOf({freeing})
      BY <1>1
    <3> QED BY <1>2, <2>1, <3>1
  <2>3. Gone' = Gone
    BY <1>7, <2>1
  <2>4. Kept' \ Gone' = Kept \ Gone
    <3> HIDE DEF R, C
    <3> QED BY <1>5, <1>6, <2>2, <2>3
  <2>5. failures' \subseteq 0 .. freeing
    BY <1>9
  <2> QED
    BY <1>9, <2>4, <2>5
<1> QED
  BY <1>8, <1>9

LEMMA FreeSegmentNext ==
    ASSUME ProcessInv, FreeSegment
    PROVE  ProcessInv'
<1>1. /\ main = "freeSegments" /\ freeing <= segmentsLen /\ freeing' = freeing + 1
      /\ UNCHANGED <<table, pc, k, file, segments, segmentsLen, array, ioError>>
      /\ UNCHANGED <<main, stack, status, exit>>
  BY DEF FreeSegment
<1>2. \/ Unmap(unmapped) /\ failures' = failures
      \/ failures' = failures \cup {freeing} /\ UNCHANGED <<mem, rights>>
  BY DEF FreeSegment
<1>3. Typed /\ segmentsLen \in Nat /\ freeing \in Nat \ {0} /\ segmentsLen <= Len(table)
      /\ Len(table) \in Nat /\ Len(segments) = segmentsLen
  BY <1>1, LoadableFacts DEF ProcessInv, Typed, TypeOK, Releasing
<1>4. unmapped = BlockAt(freeing) /\ unmapped \subseteq Addrs
  BY DEF unmapped, BlockAt, Block
<1>5. \/ Mapped' = Mapped \ unmapped /\ failures' = failures
      \/ Mapped' = Mapped /\ failures' = failures \cup {freeing}
  BY <1>2, <1>3, <1>4, UnmapRemoves DEF Mapped
<1>6. mem' \in [Addrs -> -1 .. FileLen] /\ rights' \in [Pages -> Rights]
  BY <1>2, <1>3, <1>4, UnmapRemoves DEF Typed
<1>7. Typed' /\ TypeOK'
  <2>1. Typed'
    BY <1>1, <1>3, <1>6 DEF Typed
  <2>2. LoaderTypeOK'
    BY <1>1, <2>1 DEF ProcessInv, TypeOK, LoaderTypeOK, Typed, Rights
  <2>3. freeing' \in 1 .. Len(table') + 1
    BY <1>1, <1>3
  <2>4. failures' \subseteq 0 .. Len(table')
    <3>1. failures \subseteq 0 .. Len(table) /\ freeing \in 0 .. Len(table) /\ table' = table
      BY <1>1, <1>3 DEF ProcessInv, TypeOK
    <3> QED
      BY <1>2, <3>1
  <2> QED
    BY <1>1, <2>1, <2>2, <2>3, <2>4 DEF ProcessInv, TypeOK
<1>8. Phases'
  BY <1>1 DEF ProcessInv, Phases
<1>9. Releasing'
  <2>1. \A s \in 1 .. segmentsLen : BlockAt(s)' = BlockAt(s)
    BY <1>1 DEF BlockAt
  <2>2. freeing .. segmentsLen = {freeing} \cup (freeing' .. segmentsLen)
    BY <1>1, <1>3
  <2>3. freeing' .. segmentsLen \subseteq 1 .. segmentsLen
    BY <1>1, <1>3
  <2>4. failures \subseteq 0 .. freeing - 1 /\ Mapped = Kept \ Gone
    BY <1>1 DEF ProcessInv, Releasing
  <2>5. (Mapped = Kept \ Gone)' /\ failures' \subseteq 0 .. freeing
    BY <1>1, <1>3, <1>4, <1>5, <2>4, KeptAndGone
  <2>6. (RecordedApart' <=> RecordedApart) /\ (BlocksDisjoint' <=> BlocksDisjoint) /\ RecordedApart
    BY <1>1 DEF RecordedApart, BlocksDisjoint, Loadable, BlockAt, ProcessInv, Releasing
  <2>7. ASSUME BlocksDisjoint, NEW s \in freeing' .. segmentsLen
        PROVE  BlockAt(s) \subseteq Mapped'
    <3>1. BlockAt(s) \subseteq Mapped
      BY <1>1, <2>2, <2>7 DEF ProcessInv, Releasing
    <3>2. s # freeing /\ s \in 1 .. Len(segments) /\ freeing \in 1 .. Len(segments)
      BY <1>1, <1>3
    <3>3. BlockAt(s) \cap unmapped = {}
      BY <1>4, <2>6, <2>7, <3>2 DEF RecordedApart
    <3> QED
      BY <1>5, <3>1, <3>3
  <2>8. stack' = "mapped" <=> 0 \in failures'
    BY <1>1, <1>2, <1>3 DEF ProcessInv, Releasing
  <2>9. freeing' <= segmentsLen + 1
    BY <1>1, <1>3
  <2>10. (BlocksDisjoint => \A s \in freeing .. segmentsLen : BlockAt(s) \subseteq Mapped)'
    BY <1>1, <2>1, <2>3, <2>6, <2>7
  <2> QED
    <3>1. (failures \subseteq 0 .. freeing - 1)'
      BY <1>1, <1>3, <2>5
    <3> QED
      BY <1>1, <1>3, <2>5, <2>6, <2>8, <2>9, <2>10, <3>1 DEF Releasing
<1> QED
  BY <1>1, <1>7, <1>8, <1>9 DEF ProcessInv, LoaderKept, ReleasesEverything, ExitStatus

LEMMA LeaveNext ==
    ASSUME ProcessInv, Leave
    PROVE  ProcessInv'
<1>1. /\ main = "freeSegments" /\ freeing > segmentsLen /\ main' = "exited"
      /\ exit' = IF status # NoStatus THEN status % 256 ELSE IF failures = {} THEN 0 ELSE 1
      /\ IF lost # {} THEN UNCHANGED <<segments, segmentsLen>>
                      ELSE segments' = <<>> /\ segmentsLen' = 0
      /\ UNCHANGED <<table, pc, k, file, mem, rights, array, ioError>>
      /\ UNCHANGED <<stack, freeing, failures, status>>
  BY DEF Leave, Exit
<1>2. Typed /\ segmentsLen \in Nat /\ freeing \in Nat /\ Len(table) \in Nat /\ pc = "loaded"
  BY <1>1, LoadableFacts DEF ProcessInv, Typed, TypeOK, Phases
<1>3. exit' \in 0 .. 255
  <2>1. status \in Statuses \cup {NoStatus}
    BY DEF ProcessInv, TypeOK
  <2>2. status # NoStatus => status \in Nat
    BY <2>1, StatusesAssumption
  <2>3. \A n \in Nat : n % 256 \in 0 .. 255
    OBVIOUS
  <2>4. CASE status # NoStatus
    BY <1>1, <2>2, <2>3, <2>4
  <2>5. CASE status = NoStatus
    BY <1>1, <2>5
  <2> QED
    BY <2>4, <2>5
<1>4. Typed' /\ TypeOK'
  <2>1. segments' \in Seq(Records) /\ segmentsLen' \in 0 .. Len(table') /\ Len(segments') <= segmentsLen'
    <3>1. segments \in Seq(Records) /\ segmentsLen \in 0 .. Len(table) /\ Len(segments) <= segmentsLen
      BY DEF ProcessInv, Typed, TypeOK, LoaderTypeOK
    <3>2. <<>> \in Seq(Records) /\ Len(<<>>) = 0 /\ 0 \in 0 .. Len(table)
      BY <1>2
    <3>3. CASE lost # {}
      BY <1>1, <3>1, <3>3
    <3>4. CASE lost = {}
      BY <1>1, <3>2, <3>4
    <3> QED
      BY <3>3, <3>4
  <2>2. Typed'
    BY <1>1, <1>2, <2>1 DEF Typed
  <2>3. LoaderTypeOK'
    BY <2>1, <2>2 DEF LoaderTypeOK, Typed, Rights
  <2> QED
    BY <1>1, <1>3, <2>2, <2>3 DEF ProcessInv, TypeOK, Killed
<1>5. Phases'
  BY <1>1 DEF Phases
<1>6. ReleasesEverything'
  <2>1. /\ freeing = segmentsLen + 1 /\ failures \subseteq 0 .. freeing - 1
        /\ Mapped = Kept \ Gone /\ (stack = "mapped" <=> 0 \in failures)
    BY <1>1, <1>2 DEF ProcessInv, Releasing
  <2>2. freeing .. segmentsLen = {} /\ 1 .. freeing - 1 = 1 .. segmentsLen
    BY <1>2, <2>1
  <2>3. Mapped = BlocksOf(lost) \ BlocksOf(1 .. segmentsLen \ lost)
    BY <2>1, <2>2 DEF Kept, Gone, BlocksOf
  <2>4. Mapped' = Mapped /\ lost' = lost
    BY <1>1 DEF Mapped, lost
  <2>5. lost \subseteq 1 .. segmentsLen
    BY <1>2, <2>1 DEF lost
  <2>6. CASE lost = {}
    <3>1. Mapped = {}
      BY <2>3, <2>6 DEF BlocksOf
    <3> QED
      BY <1>1, <1>2, <2>1, <2>4, <2>6, <3>1 DEF ReleasesEverything
  <2>7. CASE lost # {}
    <3>1. \A S : BlocksOf(S)' = BlocksOf(S)
      BY <1>1, <2>7 DEF BlocksOf
    <3>2. BlocksOf(lost)' = BlocksOf(lost)
          /\ BlocksOf(1 .. segmentsLen \ lost)' = BlocksOf(1 .. segmentsLen \ lost)
      BY <1>1, <2>4, <2>7 DEF BlocksOf
    <3> QED
      BY <1>1, <1>2, <2>1, <2>3, <2>4, <2>5, <2>7, <3>2 DEF ReleasesEverything
  <2> QED
    BY <2>6, <2>7
<1>7. ExitStatus'
  BY <1>1, <1>2 DEF ExitStatus
<1> QED
  BY <1>1, <1>4, <1>5, <1>6, <1>7 DEF ProcessInv, LoaderKept, Releasing

-----------------------------------------------------------------------------
(* The process. *)

LEMMA ProcessStutter ==
    ASSUME ProcessInv, UNCHANGED vars
    PROVE  ProcessInv'
<1>1. UNCHANGED loaderVars /\ UNCHANGED mainVars
  BY DEF vars
<1>2. Typed' /\ TypeOK' /\ (LoaderInv => LoaderInv')
  BY <1>1, LoaderUnchanged DEF ProcessInv, TypeOK, mainVars, loaderVars
<1>3. LoaderKept' /\ Phases'
  BY <1>1, <1>2 DEF ProcessInv, LoaderKept, Phases, mainVars, loaderVars
<1>4. Mapped' = Mapped /\ Kept' = Kept /\ Gone' = Gone /\ lost' = lost
      /\ (RecordedApart' <=> RecordedApart)
      /\ (BlocksDisjoint' <=> BlocksDisjoint)
      /\ \A s : BlockAt(s)' = BlockAt(s)
  BY <1>1 DEF Mapped, Kept, Gone, lost, BlocksOf, RecordedApart, BlockAt, BlocksDisjoint, Loadable,
              mainVars, loaderVars
<1>5. Releasing'
  BY <1>1, <1>4 DEF ProcessInv, Releasing, mainVars, loaderVars
<1>6. ReleasesEverything' /\ ExitStatus'
  BY <1>1, <1>4 DEF ProcessInv, ReleasesEverything, ExitStatus, BlocksOf, mainVars, loaderVars
<1> QED
  BY <1>2, <1>3, <1>5, <1>6 DEF ProcessInv

\* Each state of the process satisfies the invariant that its actions keep.
THEOREM ProcessInvariant == Spec => []ProcessInv
<1>1. ProcessInv /\ [Next]_vars => ProcessInv'
  <2> SUFFICES ASSUME ProcessInv, [Next]_vars PROVE ProcessInv'
    OBVIOUS
  <2>1. CASE Setup
    BY <2>1, SetupNext, LoadNext DEF Setup
  <2>2. CASE Guest
    BY <2>2, GuestNext
  <2>3. CASE Release
    BY <2>3, FreeStackNext, FreeSegmentNext, LeaveNext DEF Release
  <2>4. CASE UNCHANGED vars
    BY <2>4, ProcessStutter
  <2> QED
    BY <2>1, <2>2, <2>3, <2>4 DEF Next
<1> QED
  BY <1>1, ProcessInit, PTL DEF Spec

\* Variables keep their types, the index of segments_free included: it stays
\* within the array (main.c, context.c:19-25).
THEOREM ProcessTyped == Spec => []TypeOK
BY ProcessInvariant, PTL DEF ProcessInv

\* The guest's first instruction runs with a stack, the whole binary and a
\* complete record of it (main.c:14-27).
THEOREM GuestFindsItsImage == Spec => []RunsWhenLoaded
<1>1. ProcessInv => RunsWhenLoaded
  <2> SUFFICES ASSUME ProcessInv, main = "run" PROVE RunsWhenLoaded
    BY DEF RunsWhenLoaded
  <2>1. LoaderInv /\ pc = "loaded" /\ stack = "mapped"
    BY DEF ProcessInv, LoaderKept, Phases
  <2>2. Mapped = Recorded /\ Len(segments) = segmentsLen
    BY <2>1, InvImpliesRecords DEF MappingsRecorded, Recorded
  <2> QED
    BY <2>1, <2>2, InvImpliesImage DEF RunsWhenLoaded, Recorded
<1> QED
  BY <1>1, ProcessInvariant, PTL

\* What a process leaves mapped when it ends after a run is exactly what its
\* failed munmaps were for: whichever of them failed, in whatever order, all
\* the others released theirs (context.c:19-27, 57-63).  One whose loading
\* failed leaves all of it mapped (main.c:18).
THEOREM NothingLeftBehind == Spec => []ReleasesEverything
BY ProcessInvariant, PTL DEF ProcessInv

\* segments_free finds each block mapped that it unmaps, for every binary
\* whose blocks are disjoint (context.c:19-25).
THEOREM NoForeignUnmap == Spec => []UnmapsOnlyMapped
<1>1. ProcessInv => UnmapsOnlyMapped
  <2> SUFFICES ASSUME ProcessInv, main = "freeSegments", freeing <= segmentsLen, BlocksDisjoint
               PROVE  unmapped \subseteq Mapped
    BY DEF UnmapsOnlyMapped
  <2>1. freeing \in Nat /\ segmentsLen \in Nat
    BY LoadableFacts DEF ProcessInv, Typed, TypeOK
  <2>2. freeing \in freeing .. segmentsLen
    BY <2>1
  <2> QED
    BY <2>2 DEF ProcessInv, Releasing, unmapped, BlockAt
<1> QED
  BY <1>1, ProcessInvariant, PTL

\* What the parent of the process learns, whatever fails on the way
\* (main.c:8-34, syscall.c:30-34).
THEOREM ParentIsTold == Spec => []ExitStatus
BY ProcessInvariant, PTL DEF ProcessInv
=============================================================================
