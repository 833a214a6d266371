--------------------------- MODULE X64MovesProofs ---------------------------
(***************************************************************************)
(* Proofs about X64Moves, for every register content, every set of memory  *)
(* operands and every size of the memory.                                  *)
(***************************************************************************)
EXTENDS X64Moves, SequenceTheorems, NaturalsInduction, WellFoundedInduction, TLAPS

-----------------------------------------------------------------------------
(* Induction over the copies of an instruction.  The library's induction   *)
(* theorems take the formula as a parameter; here it is over the members   *)
(* of a set, from the well-foundedness of < on the naturals.               *)

LessThan == {p \in Nat \X Nat : p[1] < p[2]}

LEMMA LessThanWellFounded == IsWellFoundedOn(LessThan, Nat)
<1>1. OpToRel(<, Nat) = LessThan
  BY DEF OpToRel, LessThan
<1> QED
  BY <1>1, NatLessThanWellFounded

LEMMA LeastNumber ==
    ASSUME NEW T \in SUBSET Nat, T # {}
    PROVE  \E x \in T : \A y \in T : x <= y
<1>1. PICK x \in T : \A y \in T : ~(<<y, x>> \in LessThan)
  BY LessThanWellFounded, WFMin
<1>2. ASSUME NEW y \in T, y < x
      PROVE  <<y, x>> \in LessThan
  <2>1. <<y, x>> \in Nat \X Nat /\ <<y, x>>[1] = y /\ <<y, x>>[2] = x
    OBVIOUS
  <2> QED
    BY <1>2, <2>1 DEF LessThan
<1>3. ASSUME NEW y \in T
      PROVE  x <= y
  <2>1. x \in Nat /\ y \in Nat /\ ~(y < x)
    BY <1>1, <1>2
  <2> QED
    BY <2>1
<1> QED
  BY <1>3

\* A set that holds 0 and, with every number, the next one up to n.
LEMMA UpTo ==
    ASSUME NEW n \in Nat, NEW T, 0 \in T,
           \A i \in 1 .. n : i - 1 \in T => i \in T
    PROVE  0 .. n \subseteq T
<1> DEFINE missed == (0 .. n) \ T
<1> SUFFICES ASSUME missed # {} PROVE FALSE
  OBVIOUS
<1>1. missed \in SUBSET Nat
  OBVIOUS
<1>2. PICK x \in missed : \A y \in missed : x <= y
  <2> HIDE DEF missed
  <2> QED
    BY <1>1, LeastNumber
<1>3. x \in 1 .. n /\ x - 1 \in 0 .. n /\ x - 1 \notin missed
  BY <1>2
<1> QED
  BY <1>2, <1>3

-----------------------------------------------------------------------------
(* Copies. *)

LEMMA JoinedNone == ASSUME NEW x PROVE <<x>> \o <<>> = <<x>>
OBVIOUS

LEMMA JoinedOnes ==
    ASSUME NEW x, NEW y
    PROVE  <<x>> \o <<y>> = <<x, y>>
<1>1. PICK s, t, u : s = <<x>> /\ t = <<y>> /\ u = <<x, y>>
  OBVIOUS
<1>2. /\ s \in Seq({x, y}) /\ t \in Seq({x, y}) /\ u \in Seq({x, y})
      /\ Len(s) = 1 /\ Len(t) = 1 /\ Len(u) = 2 /\ s[1] = x /\ t[1] = y /\ u[1] = x /\ u[2] = y
  BY <1>1
<1>3. PICK v : v = s \o t
  OBVIOUS
<1>4. /\ v \in Seq({x, y}) /\ Len(v) = Len(s) + Len(t)
      /\ \A i \in 1 .. Len(s) + Len(t) : v[i] = IF i <= Len(s) THEN s[i] ELSE t[i - Len(s)]
  BY <1>2, <1>3, ConcatProperties
<1>5. v = u
  BY <1>2, <1>4, SeqEqual
<1> QED
  BY <1>1, <1>3, <1>5

LEMMA JoinedTwos ==
    ASSUME NEW x, NEW y, NEW z, NEW w
    PROVE  <<x, y>> \o <<z, w>> = <<x, y, z, w>>
<1>1. PICK s, t, u : s = <<x, y>> /\ t = <<z, w>> /\ u = <<x, y, z, w>>
  OBVIOUS
<1> DEFINE S == {x, y, z, w}
<1>2. /\ s \in Seq(S) /\ t \in Seq(S) /\ u \in Seq(S)
      /\ Len(s) = 2 /\ Len(t) = 2 /\ Len(u) = 4 /\ s[1] = x /\ s[2] = y /\ t[1] = z /\ t[2] = w
      /\ u[1] = x /\ u[2] = y /\ u[3] = z /\ u[4] = w
  BY <1>1
<1> HIDE DEF S
<1>3. PICK v : v = s \o t
  OBVIOUS
<1>4. /\ v \in Seq(S) /\ Len(v) = Len(s) + Len(t)
      /\ \A i \in 1 .. Len(s) + Len(t) : v[i] = IF i <= Len(s) THEN s[i] ELSE t[i - Len(s)]
  BY <1>2, <1>3, ConcatProperties
<1>5. Len(v) = 4 /\ v[1] = x /\ v[2] = y /\ v[3] = z /\ v[4] = w
  BY <1>2, <1>4
<1>6. Len(v) = Len(u) /\ \A i \in 1 .. Len(v) : v[i] = u[i]
  BY <1>2, <1>5
<1>7. v = u
  BY <1>2, <1>4, <1>6, SeqEqual
<1> QED
  BY <1>1, <1>3, <1>7

StoreOK(st) == DOMAIN st = Files /\ \A f \in Files : DOMAIN st[f] = Addresses(f)

\* The byte that copy m writes at address a.
Written(st, m, a) == IF m.sign THEN Sign(Read(st, m.from, 0)) ELSE Read(st, m.from, a - m.to.at)

LEMMA MovedBytes ==
    ASSUME NEW st, StoreOK(st), NEW m, m.to.file \in Files
    PROVE  /\ StoreOK(Moved(st, m))
           /\ \A f \in Files \ {m.to.file} : Moved(st, m)[f] = st[f]
           /\ \A a \in Addresses(m.to.file) :
                 Moved(st, m)[m.to.file][a] =
                    IF a \in Span(m.to, m.n) THEN Written(st, m, a) ELSE st[m.to.file][a]
<1> DEFINE f == m.to.file
           new == [a \in DOMAIN st[f] |->
                     IF a \notin m.to.at .. m.to.at + m.n - 1 THEN st[f][a]
                     ELSE IF m.sign THEN Sign(Read(st, m.from, 0))
                     ELSE Read(st, m.from, a - m.to.at)]
<1>1. Moved(st, m) = [st EXCEPT ![f] = new]
  BY DEF Moved
<1>2. DOMAIN new = Addresses(f)
  BY DEF StoreOK
<1>3. \A a \in Addresses(f) : new[a] = IF a \in Span(m.to, m.n) THEN Written(st, m, a) ELSE st[f][a]
  BY DEF StoreOK, Span, Written
<1> HIDE DEF new
<1> QED
  BY <1>1, <1>2, <1>3 DEF StoreOK

\* The stores a run of n copies passes through.
Traced(a, st, copies, n) ==
    /\ a[0] = st
    /\ \A k \in 1 .. n : a[k] = Moved(a[k - 1], copies[k])
    /\ Run(st, copies) = a[n]

LEMMA RunSteps ==
    ASSUME NEW st, NEW copies, NEW n \in Nat, Len(copies) = n
    PROVE  \E a : Traced(a, st, copies, n)
<1> DEFINE Stepped(f, i) == [k \in 0 .. i |-> IF k = 0 THEN st ELSE Moved(f[k - 1], copies[k])]
           after == CHOOSE f : f = Stepped(f, n)
           T == {i \in 0 .. n : \E f : f = Stepped(f, i)}
<1>1. 0 \in T
  <2>1. [k \in {0} |-> st] = Stepped([k \in {0} |-> st], 0)
    OBVIOUS
  <2> HIDE DEF Stepped
  <2> QED
    BY <2>1
<1>2. ASSUME NEW i \in 1 .. n, i - 1 \in T
      PROVE  i \in T
  <2>1. PICK f : f = Stepped(f, i - 1)
    BY <1>2
  <2> DEFINE g == [k \in 0 .. i |-> IF k = i THEN Moved(f[i - 1], copies[i]) ELSE f[k]]
  <2>2. \A k \in 0 .. i - 1 : f[k] = IF k = 0 THEN st ELSE Moved(f[k - 1], copies[k])
    BY <2>1
  <2>3. \A k \in 0 .. i - 1 : g[k] = f[k]
    OBVIOUS
  <2>4. g[i] = Moved(f[i - 1], copies[i])
    OBVIOUS
  <2>5. g = [k \in 0 .. i |-> g[k]]
    OBVIOUS
  <2> HIDE DEF g
  <2>6. \A k \in 0 .. i : g[k] = IF k = 0 THEN st ELSE Moved(g[k - 1], copies[k])
    BY <2>2, <2>3, <2>4
  <2>7. g = Stepped(g, i)
    BY <2>5, <2>6
  <2> QED
    <3> HIDE DEF Stepped
    <3> QED
      BY <2>7
<1>3. n \in T
  <2> HIDE DEF T
  <2>1. 0 .. n \subseteq T
    BY <1>1, <1>2, UpTo
  <2> QED
    BY <2>1
<1>4. PICK a : a = after /\ a = Stepped(a, n)
  <2> HIDE DEF Stepped
  <2> QED
    BY <1>3
<1>5. Run(st, copies) = a[n]
  BY <1>4 DEF Run
<1> HIDE DEF after
<1>6. \A k \in 0 .. n : a[k] = IF k = 0 THEN st ELSE Moved(a[k - 1], copies[k])
  BY <1>4
<1> QED
  BY <1>5, <1>6 DEF Traced

LEMMA RunNone == ASSUME NEW st PROVE Run(st, <<>>) = st
BY RunSteps DEF Traced

LEMMA RunOne == ASSUME NEW st, NEW m PROVE Run(st, <<m>>) = Moved(st, m)
<1>1. Len(<<m>>) = 1 /\ <<m>>[1] = m
  OBVIOUS
<1> QED
  BY <1>1, RunSteps DEF Traced

LEMMA RunTwo ==
    ASSUME NEW st, NEW m1, NEW m2
    PROVE  Run(st, <<m1, m2>>) = Moved(Moved(st, m1), m2)
<1>0. PICK c, n : c = <<m1, m2>> /\ n = 2
  OBVIOUS
<1>1. n \in Nat /\ Len(c) = n /\ c[1] = m1 /\ c[2] = m2
  BY <1>0
<1>2. PICK a : Traced(a, st, c, n)
  BY <1>1, RunSteps
<1>3. a[1] = Moved(a[0], c[1]) /\ a[2] = Moved(a[1], c[2])
  BY <1>0, <1>2 DEF Traced
<1>4. a[0] = st /\ Run(st, c) = a[2]
  BY <1>0, <1>2 DEF Traced
<1> QED
  BY <1>0, <1>1, <1>3, <1>4

LEMMA RunFour ==
    ASSUME NEW st, NEW m1, NEW m2, NEW m3, NEW m4
    PROVE  Run(st, <<m1, m2, m3, m4>>) = Moved(Moved(Moved(Moved(st, m1), m2), m3), m4)
<1>0. PICK c, n : c = <<m1, m2, m3, m4>> /\ n = 4
  OBVIOUS
<1>1. n \in Nat /\ Len(c) = n /\ c[1] = m1 /\ c[2] = m2 /\ c[3] = m3 /\ c[4] = m4
  BY <1>0
<1>2. PICK a : Traced(a, st, c, n)
  BY <1>1, RunSteps
<1>3. /\ a[1] = Moved(a[0], c[1]) /\ a[2] = Moved(a[1], c[2])
      /\ a[3] = Moved(a[2], c[3]) /\ a[4] = Moved(a[3], c[4])
  BY <1>0, <1>2 DEF Traced
<1>4. a[0] = st /\ Run(st, c) = a[4]
  BY <1>0, <1>2 DEF Traced
<1> QED
  BY <1>0, <1>1, <1>3, <1>4

-----------------------------------------------------------------------------
(* What a run of copies does to the n bytes at a place.                    *)

Fits(p, n) == p.file \in Files /\ p.at \in Int /\ n \in Nat /\ Span(p, n) \subseteq Addresses(p.file)

\* Store t is store st with the bytes new at d.
Put(st, t, d, n, new) ==
    /\ StoreOK(t)
    /\ \A f \in Files \ {d.file} : t[f] = st[f]
    /\ \A a \in Addresses(d.file) :
          t[d.file][a] = IF a \in Span(d, n) THEN new[a - d.at] ELSE st[d.file][a]

LEMMA PlaceRead ==
    ASSUME NEW st, NEW p, NEW b, p.file \in Files
    PROVE  Read(st, p, b) = st[p.file][p.at + b]
BY DEF Read, Files

LEMMA ElemFits ==
    ASSUME NEW p, NEW n, NEW i \in Nat, NEW m \in Nat, Fits(p, n), i + m <= n
    PROVE  /\ Fits(Elem(p, i, 1), m)
           /\ Elem(p, i, 1).file = p.file /\ Elem(p, i, 1).at = p.at + i
<1>1. Elem(p, i, 1).file = p.file /\ Elem(p, i, 1).at = p.at + i * 1
  BY DEF Elem, At
<1>2. p.at \in Int /\ n \in Nat /\ p.at + i * 1 = p.at + i
  BY DEF Fits
<1>3. Span(Elem(p, i, 1), m) \subseteq Span(p, n)
  BY <1>1, <1>2 DEF Span
<1> QED
  BY <1>1, <1>2, <1>3 DEF Fits

LEMMA CopyPuts ==
    ASSUME NEW st, StoreOK(st), NEW d, NEW s, NEW n, Fits(d, n),
           NEW new, \A b \in 0 .. n - 1 : new[b] = Read(st, s, b)
    PROVE  Put(st, Moved(st, Copy(d, s, n)), d, n, new)
<1> DEFINE m == Copy(d, s, n)
<1>0. m.to = d /\ m.n = n
  BY DEF Copy, SignFill
<1>1. m.from = s /\ m.sign = FALSE
  BY DEF Copy
<1>2. \A a \in Span(d, n) : Written(st, m, a) = new[a - d.at]
  BY <1>0, <1>1 DEF Written, Span, Fits
<1> HIDE DEF m
<1>3. /\ StoreOK(Moved(st, m))
      /\ \A f \in Files \ {d.file} : Moved(st, m)[f] = st[f]
      /\ \A a \in Addresses(d.file) :
            Moved(st, m)[d.file][a] = IF a \in Span(d, n) THEN Written(st, m, a) ELSE st[d.file][a]
  <2>1. m.to.file \in Files
    BY <1>0 DEF Fits
  <2>2. /\ StoreOK(Moved(st, m))
        /\ \A f \in Files \ {m.to.file} : Moved(st, m)[f] = st[f]
        /\ \A a \in Addresses(m.to.file) :
              Moved(st, m)[m.to.file][a] =
                 IF a \in Span(m.to, m.n) THEN Written(st, m, a) ELSE st[m.to.file][a]
    BY <2>1, MovedBytes
  <2> QED
    BY <1>0, <2>2
<1>4. Put(st, Moved(st, m), d, n, new)
  BY <1>2, <1>3 DEF Put
<1> QED
  BY <1>4 DEF m

LEMMA SignPuts ==
    ASSUME NEW st, StoreOK(st), NEW d, NEW s, NEW n, Fits(d, n),
           NEW new, \A b \in 0 .. n - 1 : new[b] = Sign(Read(st, s, 0))
    PROVE  Put(st, Moved(st, SignFill(d, s, n)), d, n, new)
<1> DEFINE m == SignFill(d, s, n)
<1>0. m.to = d /\ m.n = n
  BY DEF Copy, SignFill
<1>1. m.from = s /\ m.sign = TRUE
  BY DEF SignFill
<1>2. \A a \in Span(d, n) : Written(st, m, a) = new[a - d.at]
  BY <1>0, <1>1 DEF Written, Span, Fits
<1> HIDE DEF m
<1>3. /\ StoreOK(Moved(st, m))
      /\ \A f \in Files \ {d.file} : Moved(st, m)[f] = st[f]
      /\ \A a \in Addresses(d.file) :
            Moved(st, m)[d.file][a] = IF a \in Span(d, n) THEN Written(st, m, a) ELSE st[d.file][a]
  <2>1. m.to.file \in Files
    BY <1>0 DEF Fits
  <2>2. /\ StoreOK(Moved(st, m))
        /\ \A f \in Files \ {m.to.file} : Moved(st, m)[f] = st[f]
        /\ \A a \in Addresses(m.to.file) :
              Moved(st, m)[m.to.file][a] =
                 IF a \in Span(m.to, m.n) THEN Written(st, m, a) ELSE st[m.to.file][a]
    BY <2>1, MovedBytes
  <2> QED
    BY <1>0, <2>2
<1>4. Put(st, Moved(st, m), d, n, new)
  BY <1>2, <1>3 DEF Put
<1> QED
  BY <1>4 DEF m

LEMMA ClearPuts ==
    ASSUME NEW st, StoreOK(st), NEW d, NEW n, Fits(d, n),
           NEW new, \A b \in 0 .. n - 1 : new[b] = Zero
    PROVE  Put(st, Moved(st, Clear(d, n)), d, n, new)
<1>1. \A b \in 0 .. n - 1 : Read(st, Bit(Zero), b) = Zero
  BY DEF Read, Bit, At
<1>2. \A b \in 0 .. n - 1 : new[b] = Read(st, Bit(Zero), b)
  BY <1>1
<1> QED
  BY <1>2, CopyPuts DEF Clear

\* Two pieces, one behind the other.
LEMMA PutTwice ==
    ASSUME NEW st, NEW t, NEW u, NEW d, NEW n, NEW k \in 0 .. n, Fits(d, n),
           NEW new1, NEW new2, NEW new,
           Put(st, t, d, k, new1), Put(t, u, Elem(d, k, 1), n - k, new2),
           \A b \in 0 .. n - 1 : new[b] = IF b < k THEN new1[b] ELSE new2[b - k]
    PROVE  Put(st, u, d, n, new)
<1> DEFINE e == Elem(d, k, 1)
<1>1. e.file = d.file /\ e.at = d.at + k /\ d.at \in Int /\ n \in Nat
  BY ElemFits DEF Fits
<1> HIDE DEF e
<1>2. StoreOK(u) /\ \A f \in Files \ {d.file} : u[f] = st[f]
  BY <1>1 DEF Put, e
<1>3. ASSUME NEW a \in Addresses(d.file)
      PROVE  u[d.file][a] = IF a \in Span(d, n) THEN new[a - d.at] ELSE st[d.file][a]
  <2>1. u[d.file][a] = IF a \in Span(e, n - k) THEN new2[a - e.at] ELSE t[d.file][a]
    BY <1>1, <1>3 DEF Put, e
  <2>2. t[d.file][a] = IF a \in Span(d, k) THEN new1[a - d.at] ELSE st[d.file][a]
    BY <1>3 DEF Put
  <2>3. CASE a \in Span(d, k)
    <3>1. a \in Int /\ a - d.at \in 0 .. n - 1 /\ a - d.at < k
      BY <1>1, <2>3 DEF Span
    <3>2. a \notin Span(e, n - k) /\ a \in Span(d, n)
      BY <1>1, <2>3 DEF Span
    <3> QED
      BY <2>1, <2>2, <2>3, <3>1, <3>2
  <2>4. CASE a \in Span(e, n - k)
    <3>1. a \in Int /\ a - d.at \in 0 .. n - 1 /\ ~(a - d.at < k) /\ a - e.at = (a - d.at) - k
      BY <1>1, <2>4 DEF Span
    <3>2. a \in Span(d, n)
      BY <1>1, <2>4 DEF Span
    <3> QED
      BY <2>1, <2>4, <3>1, <3>2
  <2>5. CASE a \notin Span(d, k) /\ a \notin Span(e, n - k)
    <3>1. a \notin Span(d, n)
      BY <1>1, <2>5 DEF Span
    <3> QED
      BY <2>1, <2>2, <2>5, <3>1
  <2> QED
    BY <2>3, <2>4, <2>5
<1> QED
  BY <1>2, <1>3 DEF Put

LEMMA PutBecomes ==
    ASSUME NEW d, NEW n, NEW new, Fits(d, n), StoreOK(store), Put(store, store', d, n, new)
    PROVE  Becomes(d, n, new)
<1>1. d.at \in Int /\ n \in Nat /\ d.file \in Files
  BY DEF Fits
<1>2. ASSUME NEW b \in 0 .. n - 1
      PROVE  New(d, b) = new[b]
  <2>1. d.at + b \in Span(d, n) /\ (d.at + b) - d.at = b
    BY <1>1 DEF Span
  <2>2. New(d, b) = store'[d.file][d.at + b]
    BY <1>1, PlaceRead DEF New
  <2> QED
    BY <2>1, <2>2 DEF Put, Fits
<1>3. \A f \in Files : Kept(f, IF f = d.file THEN Span(d, n) ELSE {})
  BY <1>1 DEF Kept, Put, StoreOK
<1> QED
  BY <1>2, <1>3 DEF Becomes

-----------------------------------------------------------------------------
(* Numbers. *)

LEMMA Division ==
    ASSUME NEW a \in Int, NEW d \in Nat \ {0}
    PROVE  a \div d \in Int /\ a % d \in 0 .. d - 1 /\ a = d * (a \div d) + (a % d)
OBVIOUS

LEMMA Distributes ==
    ASSUME NEW d \in Int, NEW p \in Int, NEW q \in Int
    PROVE  d * (p + q) = d * p + d * q
OBVIOUS

\* Only one multiple of d is that close.
LEMMA OneDivision ==
    ASSUME NEW d \in Nat \ {0}, NEW p \in Int, NEW q \in Int,
           NEW r \in 0 .. d - 1, NEW u \in 0 .. d - 1, d * p + r = d * q + u
    PROVE  r = u /\ p = q
<1>1. ASSUME NEW x \in Int, NEW y \in Int, x < y
      PROVE  d * x + d <= d * y
  <2>1. PICK z \in Nat : y = x + (1 + z)
    <3>1. y - x - 1 \in Nat /\ y = x + (1 + (y - x - 1))
      BY <1>1
    <3> QED
      BY <3>1
  <2>2. d * y = d * x + d * (1 + z) /\ d * (1 + z) = d + d * z
    BY <2>1, Distributes
  <2>3. d * z \in Nat /\ d * x \in Int
    BY <2>1
  <2> QED
    BY <2>2, <2>3
<1>2. d * p \in Int /\ d * q \in Int
  OBVIOUS
<1>3. ~(p < q)
  BY <1>1, <1>2
<1>4. ~(q < p)
  BY <1>1, <1>2
<1> QED
  BY <1>2, <1>3, <1>4

LEMMA OneQuotient ==
    ASSUME NEW d \in Nat \ {0}, NEW p \in Int, NEW q \in Int,
           NEW r \in 0 .. d - 1, NEW u \in 0 .. d - 1, d * p + r = d * q + u
    PROVE  r = u
BY OneDivision

LEMMA RemainderOfSum ==
    ASSUME NEW d \in Nat \ {0}, NEW a \in Int, NEW b \in Int
    PROVE  ((a % d) + b) % d = (a + b) % d
<1> DEFINE q == a \div d
           u == a % d
           v == (u + b) \div d
           w == (a + b) \div d
<1>1. q \in Int /\ u \in 0 .. d - 1 /\ a = d * q + u
  BY Division
<1> HIDE DEF q, u
<1>2. v \in Int /\ (u + b) % d \in 0 .. d - 1 /\ u + b = d * v + ((u + b) % d)
  <2>1. u + b \in Int
    BY <1>1
  <2> QED
    BY <2>1, Division
<1>3. w \in Int /\ (a + b) % d \in 0 .. d - 1 /\ a + b = d * w + ((a + b) % d)
  BY Division
<1> HIDE DEF v, w
<1>4. d * (q + v) = d * q + d * v
  BY <1>1, <1>2, Distributes
<1>5. d * q \in Int /\ d * v \in Int /\ d * w \in Int
  BY <1>1, <1>2, <1>3
<1> DEFINE r1 == (u + b) % d
           r2 == (a + b) % d
<1>6. r1 \in 0 .. d - 1 /\ r2 \in 0 .. d - 1 /\ u + b = d * v + r1 /\ a + b = d * w + r2
  BY <1>2, <1>3
<1> HIDE DEF r1, r2
<1>7. d * (q + v) + r1 = d * w + r2
  BY <1>1, <1>4, <1>5, <1>6
<1>8. q + v \in Int
  BY <1>1, <1>2
<1>9. r1 = r2
  BY <1>3, <1>6, <1>7, <1>8, OneQuotient
<1> QED
  BY <1>9 DEF r1, r2, u

LEMMA RemainderOfRemainder ==
    ASSUME NEW d \in Nat \ {0}, NEW a \in 0 .. d - 1
    PROVE  a % d = a
OBVIOUS

\* With the low part replaced a number below a multiple of the part's size
\* still is.
LEMMA LowPart ==
    ASSUME NEW v \in Nat \ {0}, NEW size \in Nat \ {0}, size % v = 0,
           NEW old \in 0 .. size - 1, NEW new \in 0 .. v - 1
    PROVE  (old - (old % v)) + new \in 0 .. size - 1
<1> DEFINE k == size \div v
           q == old \div v
           r == old % v
<1>1. k \in Int /\ size = v * k
  BY Division
<1>2. q \in Int /\ r \in 0 .. v - 1 /\ old = v * q + r
  BY Division
<1> HIDE DEF k, q, r
<1>3. v * k \in Int /\ v * q \in Int
  BY <1>1, <1>2
<1>4. q < k
  <2> SUFFICES ASSUME k <= q PROVE FALSE
    BY <1>1, <1>2
  <2>1. PICK z \in Nat : q = k + z
    <3>1. q - k \in Nat /\ q = k + (q - k)
      BY <1>1, <1>2
    <3> QED
      BY <3>1
  <2>2. v * q = v * k + v * z /\ v * z \in Nat
    BY <1>1, <2>1, Distributes
  <2> QED
    BY <1>1, <1>2, <1>3, <2>2
<1>5. v * q + v <= v * k
  <2>1. PICK z \in Nat : k = q + (1 + z)
    <3>1. k - q - 1 \in Nat /\ k = q + (1 + (k - q - 1))
      BY <1>1, <1>2, <1>4
    <3> QED
      BY <3>1
  <2>2. v * k = v * q + v * (1 + z) /\ v * (1 + z) = v + v * z /\ v * z \in Nat
    BY <1>2, <2>1, Distributes
  <2> QED
    BY <1>3, <2>2
<1>6. 0 <= v * q
  <2>1. q >= 0
    <3> SUFFICES ASSUME q <= 0 - 1 PROVE FALSE
      BY <1>2
    <3>1. PICK z \in Nat : 0 = q + (1 + z)
      <4>1. 0 - q - 1 \in Nat /\ 0 = q + (1 + (0 - q - 1))
        BY <1>2
      <4> QED
        BY <4>1
    <3>2. v * 0 = v * q + v * (1 + z) /\ v * (1 + z) = v + v * z /\ v * z \in Nat /\ v * 0 = 0
      BY <1>2, <3>1, Distributes
    <3> QED
      BY <1>2, <1>3, <3>2
  <2> QED
    BY <1>2, <2>1
<1>7. old - r = v * q
  BY <1>2, <1>3
<1>8. (v * q) + new \in 0 .. size - 1
  BY <1>1, <1>3, <1>5, <1>6
<1> QED
  BY <1>7, <1>8 DEF r

LEMMA SizeFacts ==
    /\ Size \in Nat \ {0} /\ Half \in Nat \ {0} /\ Word \in Nat \ {0}
    /\ Size % Size = 0 /\ Size % Half = 0 /\ Size % Word = 0
<1>1. Size \in Nat \ {0} /\ Half \in Nat \ {0} /\ Word \in Nat \ {0} /\ Half % Word = 0 /\ Size % Half = 0
  BY SizesAssumption
<1> DEFINE k == Half \div Word
           l == Size \div Half
<1>2. k \in Int /\ Half = Word * k
  BY <1>1, Division
<1>3. l \in Int /\ Size = Half * l
  BY <1>1, Division
<1> HIDE DEF k, l
<1>4. Size = Word * (k * l)
  BY <1>1, <1>2, <1>3
<1>5. k * l \in Int
  BY <1>2, <1>3
<1> DEFINE m == Size % Word
           w == Size \div Word
<1>6. w \in Int /\ m \in 0 .. Word - 1 /\ Size = Word * w + m
  BY <1>1, Division
<1> HIDE DEF m, w
<1>7. m = 0
  <2>1. PICK p, r : p = k * l /\ p \in Int /\ r = 0
    BY <1>5
  <2>0. Word * p = Size
    BY <1>4, <2>1
  <2>2. Word * p + r = Word * w + m /\ r \in 0 .. Word - 1
    BY <1>1, <1>6, <2>0, <2>1
  <2>3. r = m
    BY <1>1, <1>6, <2>1, <2>2, OneQuotient
  <2> QED
    BY <2>1, <2>3
<1>8. Size % Size = 0
  BY <1>1
<1> QED
  BY <1>1, <1>7, <1>8 DEF m

LEMMA ValuesFacts ==
    ASSUME NEW n \in WordWidths
    PROVE  Values(n) \in Nat \ {0} /\ Size % Values(n) = 0
BY SizeFacts DEF Values, WordWidths

LEMMA PartTyped ==
    ASSUME NEW n \in WordWidths, NEW old \in 0 .. Size - 1, NEW new \in Int
    PROVE  Part(old, new, n) \in 0 .. Size - 1
<1>1. new % Values(n) \in 0 .. Values(n) - 1
  BY ValuesFacts, Division
<1> QED
  BY <1>1, LowPart, ValuesFacts, SizeFacts DEF Part

\* Part is what it says: the new number below, the old one above.
LEMMA PartParts ==
    ASSUME NEW n \in WordWidths, NEW old \in 0 .. Size - 1, NEW new \in Int
    PROVE  /\ Part(old, new, n) % Values(n) = new % Values(n)
           /\ Part(old, new, n) \div Values(n) = old \div Values(n)
<1> DEFINE v == Values(n)
           part == Part(old, new, n)
           q == old \div v
           u == new % v
           w == part \div v
           m == part % v
<1>1. v \in Nat \ {0} /\ part \in Int /\ old \in Int
  BY ValuesFacts, PartTyped, SizeFacts
<1>2. part = (old - (old % v)) + u
  BY DEF Part
<1> HIDE DEF v, part
<1>3. q \in Int /\ old % v \in 0 .. v - 1 /\ old = v * q + (old % v)
  BY <1>1, Division
<1>4. u \in 0 .. v - 1
  BY <1>1, Division
<1>5. w \in Int /\ m \in 0 .. v - 1 /\ part = v * w + m
  BY <1>1, Division
<1> HIDE DEF q, u, w, m
<1>6. v * q \in Int /\ v * w \in Int
  BY <1>1, <1>3, <1>5
<1>7. v * w + m = v * q + u
  BY <1>2, <1>3, <1>4, <1>5, <1>6
<1>8. m = u /\ w = q
  BY <1>1, <1>3, <1>4, <1>5, <1>7, OneDivision
<1> QED
  BY <1>8 DEF v, part, q, u, w, m

-----------------------------------------------------------------------------
(* Memory operands. *)

LEMMA EncodingFacts ==
    ASSUME NEW e \in Addressing \cup Leas
    PROVE  WellFormed(e)
BY EncodingsAssumption

LEMMA ScaledTyped ==
    ASSUME NEW p \in 0 .. Size - 1, NEW k \in 0 .. 3
    PROVE  p * 2 ^ k \in Int
<1>1. 2 ^ k \in Int
  OBVIOUS
<1> QED
  BY <1>1

LEMMA IndirectAgrees ==
    ASSUME NEW e, WellFormed(e), TypeOK, rip' = (rip + 1) % Size
    PROVE  Indirect(e) \in 0 .. Size - 1 /\ Indirect(e) = EffectiveAddress(e)
<1> DEFINE base == (IF e.rm = 4 THEN e.base ELSE e.rm) + e.b
           indexed == e.rm = 4 /\ e.index + e.x # 4
           scaled == IF indexed THEN ptr[e.index + e.x] * 2 ^ e.scale ELSE 0
<1>1. /\ e.displ \in Int /\ e.scale \in 0 .. 3 /\ rip \in Int
      /\ \A r \in Numeric : ptr[r] \in 0 .. Size - 1
      /\ e.index \in 0 .. 7 /\ e.x \in {0, 8} /\ e.mod \in 0 .. 2
  BY DEF WellFormed, TypeOK
<1>2. scaled \in Int
  <2>1. CASE indexed
    <3>1. ptr[e.index + e.x] \in 0 .. Size - 1
      BY <1>1, <2>1 DEF WellFormed
    <3> QED
      BY <1>1, <2>1, <3>1, ScaledTyped
  <2>2. CASE ~indexed
    BY <2>2
  <2> QED
    BY <2>1, <2>2
<1>3. e.rm = 4 => ScaledIndex(e) = scaled
  BY <1>1 DEF ScaledIndex
<1>4. e.rm # 4 => scaled = 0
  OBVIOUS
<1>5. EffectiveAddress(e) =
        ((IF e.mod = 0 /\ e.rm = 5 THEN rip' ELSE IF e.mod = 0 /\ e.rm = 4 /\ e.base = 5 THEN 0 ELSE ptr[base])
          + scaled + e.displ) % Size
  BY DEF EffectiveAddress
<1>6. ~Baseless(e) => ptr[base] \in Int /\ (e.mod = 0 => e.displ = 0)
  BY <1>1 DEF WellFormed
<1>7. PICK sum \in Int : Indirect(e) = sum % Size /\ EffectiveAddress(e) = sum % Size
  <2>1. CASE e.mod = 0 /\ e.rm = 5
    <3>1. Indirect(e) = (rip + 1 + e.displ) % Size
      BY <2>1 DEF Indirect
    <3>2. EffectiveAddress(e) = (((rip + 1) % Size) + e.displ) % Size
      <4>1. scaled = 0
        BY <1>4, <2>1
      <4>2. (rip + 1) % Size \in Int
        BY <1>1, SizeFacts, Division
      <4> HIDE DEF scaled
      <4>3. EffectiveAddress(e) = (((rip + 1) % Size) + 0 + e.displ) % Size
        BY <1>5, <2>1, <4>1
      <4> QED
        BY <1>1, <4>2, <4>3
    <3>3. EffectiveAddress(e) = (rip + 1 + e.displ) % Size
      <4>1. rip + 1 \in Int
        BY <1>1
      <4> QED
        BY <1>1, <3>2, <4>1, SizeFacts, RemainderOfSum
    <3> QED
      BY <1>1, <3>1, <3>3
  <2>2. CASE e.mod = 0 /\ e.rm = 4 /\ e.base = 5
    <3> HIDE DEF scaled
    <3>1. Indirect(e) = (scaled + e.displ) % Size
      BY <1>3, <2>2 DEF Indirect, Sib00
    <3>2. EffectiveAddress(e) = (0 + scaled + e.displ) % Size
      BY <1>5, <2>2
    <3> QED
      BY <1>1, <1>2, <3>1, <3>2
  <2>3. CASE ~Baseless(e)
    <3>0. ptr[base] \in Int /\ (e.mod = 0 => e.displ = 0)
      BY <1>6, <2>3
    <3>1. EffectiveAddress(e) = (ptr[base] + scaled + e.displ) % Size
      BY <1>5, <2>3 DEF Baseless
    <3>2. CASE e.mod = 0 /\ e.rm = 4
      <4>1. Indirect(e) = (ScaledIndex(e) + ptr[base]) % Size
        BY <2>3, <3>2 DEF Indirect, Sib00, SibBase, Baseless
      <4> HIDE DEF scaled, base
      <4> QED
        BY <1>1, <1>2, <1>3, <3>0, <3>1, <3>2, <4>1
    <3>3. CASE e.mod = 0 /\ e.rm # 4
      <4>1. Indirect(e) = ptr[base] % Size
        BY <2>3, <3>3 DEF Indirect, BaseRm, Baseless
      <4>2. scaled = 0
        BY <1>4, <3>3
      <4> HIDE DEF scaled, base
      <4> QED
        BY <1>1, <3>0, <3>1, <3>3, <4>1, <4>2
    <3>4. CASE e.mod # 0 /\ e.rm = 4
      <4>1. Indirect(e) = ((ScaledIndex(e) + ptr[base]) + e.displ) % Size
        BY <1>1, <3>4 DEF Indirect, Sib01or10, SibBase
      <4> HIDE DEF scaled, base
      <4> QED
        BY <1>1, <1>2, <1>3, <3>0, <3>1, <3>4, <4>1
    <3>5. CASE e.mod # 0 /\ e.rm # 4
      <4>1. Indirect(e) = (ptr[base] + e.displ) % Size
        BY <1>1, <3>5 DEF Indirect, BaseRm
      <4>2. scaled = 0
        BY <1>4, <3>5
      <4> HIDE DEF scaled, base
      <4> QED
        BY <1>1, <3>0, <3>1, <4>1, <4>2
    <3> QED
      BY <3>2, <3>3, <3>4, <3>5
  <2> QED
    BY <2>1, <2>2, <2>3 DEF Baseless
<1> QED
  BY <1>7, SizeFacts, Division

-----------------------------------------------------------------------------
(* Operands. *)

Apart(p, q, n) == p.file # q.file \/ p.at + n <= q.at \/ q.at + n <= p.at

LEMMA GprFits ==
    ASSUME NEW r \in Gprs
    PROVE  r.file = "gpr" /\ r.at \in {0, 16, 48} /\ Fits(r, 8)
<1>1. r.file = "gpr" /\ r.at \in {0, 16, 48} /\ r.at + 0 = r.at
  BY DEF Gprs, Rax, Rdx, Rsi, Gpr, At
<1>2. "gpr" \in Files
  BY DEF Files
<1>3. Addresses("gpr") = {p.at + b : p \in Gprs, b \in 0 .. 7}
  BY DEF Addresses
<1>4. ASSUME NEW a \in Span(r, 8)
      PROVE  a \in Addresses("gpr")
  <2>1. a - r.at \in 0 .. 7 /\ a = r.at + (a - r.at)
    BY <1>1, <1>4 DEF Span
  <2> QED
    BY <1>3, <2>1
<1> QED
  BY <1>1, <1>2, <1>4 DEF Fits

LEMMA XmmFits ==
    ASSUME NEW r \in Xmms
    PROVE  r.file = "xmm" /\ r.at \in {0, 16} /\ Fits(r, 16)
<1>1. r.file = "xmm" /\ r.at \in {0, 16}
  BY DEF Xmms, Xmm, At
<1>2. Addresses("xmm") = 0 .. 31 /\ "xmm" \in Files
  BY DEF Addresses, Files
<1> QED
  BY <1>1, <1>2 DEF Fits, Span

LEMMA MmxFits ==
    ASSUME NEW r \in Mmxs
    PROVE  r.file = "mmx" /\ r.at \in {0, 8} /\ Fits(r, 8)
<1>1. r.file = "mmx" /\ r.at \in {0, 8}
  BY DEF Mmxs, Mmx, At
<1>2. Addresses("mmx") = 0 .. 15 /\ "mmx" \in Files
  BY DEF Addresses, Files
<1> QED
  BY <1>1, <1>2 DEF Fits, Span

LEMMA TmpFits == Tmp.file = "tmp" /\ Tmp.at = 0 /\ Fits(Tmp, 8)
<1>1. Tmp.file = "tmp" /\ Tmp.at = 0
  BY DEF Tmp, At
<1>2. Addresses("tmp") = 0 .. 7 /\ "tmp" \in Files
  BY DEF Addresses, Files
<1> QED
  BY <1>1, <1>2 DEF Fits, Span

LEMMA MemFits ==
    ASSUME NEW p, p.file = "mem", Mapped(p)
    PROVE  p.at \in 0 .. Cells - 16 /\ Fits(p, 16)
<1>1. p.at \in 0 .. Cells - 16 /\ Cells \in Nat
  BY MemoryAssumption DEF Mapped
<1>2. Addresses("mem") = 0 .. Cells - 1 /\ "mem" \in Files
  BY DEF Addresses, Files
<1> QED
  BY <1>1, <1>2 DEF Fits, Span

LEMMA FitsLess ==
    ASSUME NEW p, NEW n, NEW m \in Nat, Fits(p, n), m <= n
    PROVE  Fits(p, m)
BY DEF Fits, Span

\* An operand is a register or the place of a memory operand.
LEMMA OperandPlaces ==
    ASSUME NEW regs, NEW p \in RM(regs), p # Null, Mapped(p)
    PROVE  p \in regs \/ (p.file = "mem" /\ Fits(p, 16))
<1>1. CASE p \notin regs
  <2>1. PICK e \in Addressing : p = Operand(e)
    BY <1>1 DEF RM
  <2>2. p.file = "mem"
    BY <2>1 DEF Operand, Mem, At
  <2> QED
    BY <2>2, MemFits
<1> QED
  BY <1>1

\* Registers of one file, and registers and memory, do not overlap.
LEMMA GprPlaces ==
    ASSUME NEW r \in Gprs, NEW p \in RM(Gprs), p # Null, Mapped(p)
    PROVE  /\ Fits(r, 8) /\ Fits(p, 8) /\ r.file # "tmp" /\ p.file # "tmp"
           /\ r = p \/ Apart(r, p, 8)
           /\ r = p \/ Apart(p, r, 8)
<1>1. r.file = "gpr" /\ r.at \in {0, 16, 48} /\ Fits(r, 8)
  BY GprFits
<1>2. CASE p \in Gprs
  <2>1. p.file = "gpr" /\ p.at \in {0, 16, 48} /\ Fits(p, 8)
    BY <1>2, GprFits
  <2>2. r = p \/ r.at # p.at
    BY <1>2 DEF Gprs, Rax, Rdx, Rsi, Gpr, At
  <2> QED
    BY <1>1, <2>1, <2>2 DEF Apart
<1>3. CASE p \notin Gprs
  <2>1. p.file = "mem" /\ Fits(p, 16)
    BY <1>3, OperandPlaces
  <2>2. Fits(p, 8)
    BY <2>1, FitsLess
  <2> QED
    BY <1>1, <2>1, <2>2 DEF Apart
<1> QED
  BY <1>2, <1>3

LEMMA XmmPlaces ==
    ASSUME NEW r \in Xmms, NEW p \in RM(Xmms), p # Null, Mapped(p)
    PROVE  /\ Fits(r, 16) /\ Fits(p, 16) /\ r.file = "xmm" /\ p.file \in {"xmm", "mem"}
           /\ r = p \/ Apart(r, p, 16)
           /\ r = p \/ Apart(p, r, 16)
<1>1. r.file = "xmm" /\ r.at \in {0, 16} /\ Fits(r, 16)
  BY XmmFits
<1>2. CASE p \in Xmms
  <2>1. p.file = "xmm" /\ p.at \in {0, 16} /\ Fits(p, 16)
    BY <1>2, XmmFits
  <2>2. r = p \/ r.at # p.at
    BY <1>2 DEF Xmms, Xmm, At
  <2> QED
    BY <1>1, <2>1, <2>2 DEF Apart
<1>3. CASE p \notin Xmms
  <2>1. p.file = "mem" /\ Fits(p, 16)
    BY <1>3, OperandPlaces
  <2> QED
    BY <1>1, <2>1 DEF Apart
<1> QED
  BY <1>2, <1>3

LEMMA MmxPlaces ==
    ASSUME NEW r \in Mmxs, NEW p \in RM(Mmxs), p # Null, Mapped(p)
    PROVE  /\ Fits(r, 8) /\ Fits(p, 8) /\ r.file = "mmx" /\ p.file \in {"mmx", "mem"}
           /\ r = p \/ Apart(r, p, 8)
           /\ r = p \/ Apart(p, r, 8)
<1>1. r.file = "mmx" /\ r.at \in {0, 8} /\ Fits(r, 8)
  BY MmxFits
<1>2. CASE p \in Mmxs
  <2>1. p.file = "mmx" /\ p.at \in {0, 8} /\ Fits(p, 8)
    BY <1>2, MmxFits
  <2>2. r = p \/ r.at # p.at
    BY <1>2 DEF Mmxs, Mmx, At
  <2> QED
    BY <1>1, <2>1, <2>2 DEF Apart
<1>3. CASE p \notin Mmxs
  <2>1. p.file = "mem" /\ Fits(p, 16)
    BY <1>3, OperandPlaces
  <2>2. Fits(p, 8)
    BY <2>1, FitsLess
  <2> QED
    BY <1>1, <2>1, <2>2 DEF Apart
<1> QED
  BY <1>2, <1>3

-----------------------------------------------------------------------------
(* One and two copies. *)

LEMMA ReadWritten ==
    ASSUME NEW st, NEW t, NEW d, NEW n, NEW new, Fits(d, n), Put(st, t, d, n, new),
           NEW b \in 0 .. n - 1
    PROVE  Read(t, d, b) = new[b]
<1>1. d.file \in Files /\ d.at \in Int /\ n \in Nat /\ Span(d, n) \subseteq Addresses(d.file)
  BY DEF Fits
<1>2. d.at + b \in Span(d, n) /\ (d.at + b) - d.at = b
  BY <1>1 DEF Span
<1> QED
  BY <1>1, <1>2, PlaceRead DEF Put

LEMMA ReadElsewhere ==
    ASSUME NEW st, NEW t, NEW d, NEW n, NEW new, Fits(d, n), Put(st, t, d, n, new),
           NEW s, NEW m, Fits(s, m), NEW b \in 0 .. m - 1,
           s.file # d.file \/ s.at + m <= d.at \/ d.at + n <= s.at
    PROVE  Read(t, s, b) = Read(st, s, b)
<1>1. d.file \in Files /\ d.at \in Int /\ n \in Nat
  BY DEF Fits
<1>2. s.file \in Files /\ s.at \in Int /\ m \in Nat /\ s.at + b \in Addresses(s.file)
  BY DEF Fits, Span
<1>3. Read(t, s, b) = t[s.file][s.at + b] /\ Read(st, s, b) = st[s.file][s.at + b]
  BY <1>2, PlaceRead
<1>4. s.file = d.file => s.at + b \notin Span(d, n)
  BY <1>1, <1>2 DEF Span
<1> QED
  BY <1>2, <1>3, <1>4 DEF Put

LEMMA ReadFixed ==
    ASSUME NEW st, NEW t, NEW s, NEW b, s.file \in {"imm", "bit"}
    PROVE  Read(t, s, b) = Read(st, s, b)
BY DEF Read

LEMMA ReadElem ==
    ASSUME NEW st, NEW s, NEW i \in Nat, NEW b \in Int, s = Imm \/ (s.file \in Files /\ s.at \in Int)
    PROVE  Read(st, Elem(s, i, 1), b) = Read(st, s, i + b)
<1>1. CASE s = Imm
  BY <1>1 DEF Imm, At, Elem, Read
<1>2. CASE s.file \in Files /\ s.at \in Int
  <2>1. Elem(s, i, 1).file = s.file /\ Elem(s, i, 1).at = s.at + i * 1
    BY DEF Elem, At
  <2>2. (s.at + i * 1) + b = s.at + (i + b)
    BY <1>2
  <2> QED
    BY <1>2, <2>1, <2>2, PlaceRead
<1> QED
  BY <1>1, <1>2

\* The source of a copy of n bytes: an immediate, or a place that is the
\* destination or lies apart from it.
Source(d, s, n) == s = Imm \/ (Fits(s, n) /\ (s = d \/ Apart(d, s, n)))

LEMMA ExtendedPuts ==
    ASSUME NEW st, NEW d, NEW s, NEW n, NEW k \in 1 .. n, StoreOK(st), Fits(d, n), Source(d, s, n),
           NEW new, \A b \in 0 .. n - 1 :
                       new[b] = IF b < k THEN Read(st, s, b) ELSE Sign(Read(st, s, k - 1))
    PROVE  Put(st, Run(st, Extended(d, s, k, n)), d, n, new)
<1> DEFINE t == Moved(st, Copy(d, s, k))
           e == Elem(d, k, 1)
           u == Moved(t, SignFill(e, Elem(s, k - 1, 1), n - k))
           new2 == [b \in 0 .. n - k - 1 |-> new[k + b]]
<1>1. n \in Nat /\ d.at \in Int /\ d.file \in Files
  BY DEF Fits
<1>2. Fits(d, k) /\ k \in Nat /\ k - 1 \in 0 .. k - 1
  BY <1>1, FitsLess
<1>3. Put(st, t, d, k, new)
  BY <1>1, <1>2, CopyPuts
<1>4. StoreOK(t)
  BY <1>3 DEF Put
<1>5. CASE n = k
  <2>1. Extended(d, s, k, n) = <<Copy(d, s, k)>>
    <3>0. ~(n > k)
      BY <1>1, <1>5
    <3>1. Extended(d, s, k, n) = <<Copy(d, s, k)>> \o <<>>
      BY <3>0, Zenon DEF Extended
    <3> QED
      BY <3>1, JoinedNone
  <2> QED
    BY <1>3, <1>5, <2>1, RunOne
<1>6. CASE n # k
  <2>1. Extended(d, s, k, n) = <<Copy(d, s, k), SignFill(e, Elem(s, k - 1, 1), n - k)>>
    <3>1. Extended(d, s, k, n) = <<Copy(d, s, k)>> \o <<SignFill(e, Elem(s, k - 1, 1), n - k)>>
      BY <1>1, <1>6 DEF Extended
    <3> HIDE DEF e
    <3> QED
      BY <3>1, JoinedOnes
  <2>2. Run(st, Extended(d, s, k, n)) = u
    BY <2>1, RunTwo
  <2>3. Fits(e, n - k)
    BY <1>1, ElemFits
  <2>4. s = Imm \/ (s.file \in Files /\ s.at \in Int)
    BY DEF Source, Fits
  <2>5. Read(t, s, k - 1) = Read(st, s, k - 1)
    <3>1. CASE s = Imm
      BY <3>1, ReadFixed DEF Imm, At
    <3>2. CASE s = d
      <4>1. Read(t, d, k - 1) = new[k - 1]
        BY <1>2, <1>3, ReadWritten
      <4> QED
        BY <1>1, <3>2, <4>1
    <3>3. CASE Fits(s, n) /\ Apart(d, s, n)
      <4>1. s.file # d.file \/ s.at + n <= d.at \/ d.at + k <= s.at
        BY <1>1, <3>3 DEF Apart, Fits
      <4>2. k - 1 \in 0 .. n - 1
        BY <1>1
      <4> HIDE DEF t
      <4> QED
        BY <1>2, <1>3, <3>3, <4>1, <4>2, ReadElsewhere
    <3> QED
      BY <3>1, <3>2, <3>3 DEF Source
  <2>6. Read(t, Elem(s, k - 1, 1), 0) = Read(t, s, k - 1)
    <3>1. k - 1 \in Nat /\ 0 \in Int /\ (k - 1) + 0 = k - 1
      BY <1>1
    <3>2. Read(t, Elem(s, k - 1, 1), 0) = Read(t, s, (k - 1) + 0)
      BY <2>4, <3>1, ReadElem
    <3> QED
      BY <3>1, <3>2
  <2>7. \A b \in 0 .. n - k - 1 : new2[b] = Sign(Read(t, Elem(s, k - 1, 1), 0))
    <3> SUFFICES ASSUME NEW b \in 0 .. n - k - 1
                 PROVE  new2[b] = Sign(Read(t, Elem(s, k - 1, 1), 0))
      OBVIOUS
    <3>1. new2[b] = new[k + b] /\ k + b \in 0 .. n - 1 /\ ~(k + b < k)
      BY <1>1
    <3> HIDE DEF t, new2
    <3> QED
      BY <2>5, <2>6, <3>1
  <2>8. Put(t, u, e, n - k, new2)
    <3> HIDE DEF t, e, new2
    <3> QED
      BY <1>4, <2>3, <2>7, SignPuts
  <2>9. \A b \in 0 .. n - 1 : new[b] = IF b < k THEN new[b] ELSE new2[b - k]
    <3> SUFFICES ASSUME NEW b \in 0 .. n - 1, ~(b < k) PROVE new[b] = new2[b - k]
      OBVIOUS
    <3>1. b - k \in 0 .. n - k - 1 /\ k + (b - k) = b
      BY <1>1
    <3> QED
      BY <3>1
  <2> HIDE DEF t, u, e, new2
  <2>10. Put(st, u, d, n, new)
    <3>1. k \in 0 .. n /\ Put(t, u, Elem(d, k, 1), n - k, new2)
      BY <1>1, <2>8 DEF e
    <3> QED
      BY <1>3, <2>9, <3>1, PutTwice
  <2> QED
    BY <2>2, <2>10
<1> QED
  BY <1>5, <1>6

LEMMA PaddedPuts ==
    ASSUME NEW st, NEW d, NEW s, NEW n, NEW k \in 0 .. n, StoreOK(st), Fits(d, n),
           NEW new, \A b \in 0 .. n - 1 : new[b] = IF b < k THEN Read(st, s, b) ELSE Zero
    PROVE  Put(st, Run(st, Padded(d, s, k, n)), d, n, new)
<1> DEFINE t == Moved(st, Copy(d, s, k))
           e == Elem(d, k, 1)
           u == Moved(t, Clear(e, n - k))
           new2 == [b \in 0 .. n - k - 1 |-> new[k + b]]
<1>1. n \in Nat /\ d.at \in Int /\ d.file \in Files
  BY DEF Fits
<1>2. Fits(d, k) /\ k \in Nat
  BY <1>1, FitsLess
<1>3. Put(st, t, d, k, new)
  BY <1>1, <1>2, CopyPuts
<1>4. StoreOK(t)
  BY <1>3 DEF Put
<1>5. CASE n = k
  <2>1. Padded(d, s, k, n) = <<Copy(d, s, k)>>
    <3>0. ~(n > k)
      BY <1>1, <1>5
    <3>1. Padded(d, s, k, n) = <<Copy(d, s, k)>> \o <<>>
      BY <3>0, Zenon DEF Padded
    <3> QED
      BY <3>1, JoinedNone
  <2> QED
    BY <1>3, <1>5, <2>1, RunOne
<1>6. CASE n # k
  <2>1. Padded(d, s, k, n) = <<Copy(d, s, k), Clear(e, n - k)>>
    <3>1. Padded(d, s, k, n) = <<Copy(d, s, k)>> \o <<Clear(e, n - k)>>
      BY <1>1, <1>6 DEF Padded
    <3> HIDE DEF e
    <3> QED
      BY <3>1, JoinedOnes
  <2>2. Run(st, Padded(d, s, k, n)) = u
    BY <2>1, RunTwo
  <2>3. Fits(e, n - k)
    BY <1>1, ElemFits
  <2>7. \A b \in 0 .. n - k - 1 : new2[b] = Zero
    <3> SUFFICES ASSUME NEW b \in 0 .. n - k - 1 PROVE new2[b] = Zero
      OBVIOUS
    <3>1. new2[b] = new[k + b] /\ k + b \in 0 .. n - 1 /\ ~(k + b < k)
      BY <1>1
    <3> QED
      BY <3>1
  <2>8. Put(t, u, e, n - k, new2)
    <3> HIDE DEF t, e, new2
    <3> QED
      BY <1>4, <2>3, <2>7, ClearPuts
  <2>9. \A b \in 0 .. n - 1 : new[b] = IF b < k THEN new[b] ELSE new2[b - k]
    <3> SUFFICES ASSUME NEW b \in 0 .. n - 1, ~(b < k) PROVE new[b] = new2[b - k]
      OBVIOUS
    <3>1. b - k \in 0 .. n - k - 1 /\ k + (b - k) = b
      BY <1>1
    <3> QED
      BY <3>1
  <2> HIDE DEF t, u, e, new2
  <2>10. Put(st, u, d, n, new)
    <3>1. Put(t, u, Elem(d, k, 1), n - k, new2)
      BY <2>8 DEF e
    <3> QED
      BY <1>3, <2>9, <3>1, PutTwice
  <2> QED
    BY <2>2, <2>10
<1> QED
  BY <1>5, <1>6

-----------------------------------------------------------------------------
(* The invariant: a STOS that was the last instruction left rdi where it   *)
(* was, so the next one starts at the same place.                          *)

LastStos == ins.op = "STOS" => ins.d = Mem(IF ins.adsz THEN ptr[rdi] % Half ELSE ptr[rdi])

MovesInv == TypeOK /\ LastStos

\* What has to be shown of every step.
StepAgrees == MovesInv' /\ MovesStep /\ LanesStep

LEMMA StoreFits == TypeOK => StoreOK(store)
BY DEF TypeOK, StoreOK

\* The numbers keep their types.
LEMMA NumbersTyped ==
    ASSUME TypeOK, NEW i, Instr(i), StoreOK(store'),
           \A a \in Addresses("tmp") : store'["tmp"][a] = Zero,
           ptr' \in [Numeric -> 0 .. Size - 1], faulted' \in BOOLEAN
    PROVE  TypeOK'
<1>1. rip + 1 \in Int /\ rip' = (rip + 1) % Size
  BY DEF TypeOK, Instr
<1>2. rip' \in 0 .. Size - 1
  BY <1>1, SizeFacts, Division
<1>3. instrs' \in 0 .. MaxInstrs
  BY MemoryAssumption DEF TypeOK, Instr
<1>4. df' \in BOOLEAN
  BY DEF TypeOK, Instr
<1>5. DOMAIN store' = Files /\ \A f \in Files : DOMAIN store'[f] = Addresses(f)
  BY DEF StoreOK
<1> QED
  BY <1>2, <1>3, <1>4, <1>5 DEF TypeOK

\* An instruction whose operands cannot be used, and what one with operands
\* that can be has done.
LEMMA MakesWhat ==
    ASSUME NEW operands, NEW copies, Makes(operands, copies)
    PROVE  /\ faulted' \in BOOLEAN
           /\ faulted' => store' = store
           /\ ~faulted' => /\ Null \notin operands /\ \A p \in operands : Mapped(p)
                           /\ store' = Run(store, copies)
<1> DEFINE ok == Null \notin operands /\ \A p \in operands : Mapped(p)
<1>1. faulted' = ~ok /\ store' = IF ok THEN Run(store, copies) ELSE store
  BY DEF Makes
<1>2. ok \in BOOLEAN
  OBVIOUS
<1> HIDE DEF ok
<1>3. faulted' \in BOOLEAN /\ (faulted' => store' = store) /\ (~faulted' => ok /\ store' = Run(store, copies))
  BY <1>1, <1>2
<1> QED
  BY <1>3 DEF ok

LEMMA ExecutesWhat ==
    ASSUME NEW op, NEW d, NEW s, NEW n, NEW copies, Executes(op, d, s, n, copies), TypeOK
    PROVE  /\ ins' = [op |-> op, d |-> d, s |-> s, n |-> n]
           /\ Instr(ins') /\ ptr' = ptr /\ faulted' \in BOOLEAN
           /\ faulted' => store' = store
           /\ ~faulted' => /\ d # Null /\ s # Null /\ Mapped(d) /\ Mapped(s)
                           /\ store' = Run(store, copies)
<1>1. Instr([op |-> op, d |-> d, s |-> s, n |-> n]) /\ ptr' = ptr /\ Makes({d, s}, copies)
  BY DEF Executes
<1>2. ins' = [op |-> op, d |-> d, s |-> s, n |-> n]
  BY <1>1 DEF Instr
<1> QED
  BY <1>1, <1>2, MakesWhat

\* A faulting instruction does nothing.
LEMMA FaultAgrees ==
    ASSUME TypeOK, NEW op, NEW d, NEW s, NEW n, NEW copies, op # "STOS",
           Executes(op, d, s, n, copies), faulted'
    PROVE  StepAgrees
<1>1. /\ ins' = [op |-> op, d |-> d, s |-> s, n |-> n]
      /\ Instr(ins') /\ ptr' = ptr /\ faulted' \in BOOLEAN /\ store' = store
  BY ExecutesWhat
<1>2. TypeOK'
  <2>1. ptr' \in [Numeric -> 0 .. Size - 1] /\ StoreOK(store')
        /\ \A a \in Addresses("tmp") : store'["tmp"][a] = Zero
    BY <1>1, StoreFits DEF TypeOK
  <2> QED
    BY <1>1, <2>1, NumbersTyped
<1>3. LastStos'
  BY <1>1 DEF LastStos
<1>4. MovesStep
  BY <1>1 DEF MovesStep, Kept
<1>5. LanesStep
  BY DEF LanesStep
<1> QED
  BY <1>2, <1>3, <1>4, <1>5 DEF StepAgrees, MovesInv

\* One that does not fault and writes one place keeps the types.
LEMMA PutTyped ==
    ASSUME TypeOK, NEW op, NEW d, NEW s, NEW n, NEW copies, op # "STOS",
           Executes(op, d, s, n, copies),
           NEW p, NEW m, NEW new, p.file # "tmp", Put(store, store', p, m, new)
    PROVE  MovesInv'
<1>1. /\ ins' = [op |-> op, d |-> d, s |-> s, n |-> n]
      /\ Instr(ins') /\ ptr' = ptr /\ faulted' \in BOOLEAN
  BY ExecutesWhat
<1>2. "tmp" \in Files
  BY DEF Files
<1>3. StoreOK(store') /\ store'["tmp"] = store["tmp"]
  BY <1>2 DEF Put
<1>4. TypeOK'
  <2>1. ptr' \in [Numeric -> 0 .. Size - 1] /\ \A a \in Addresses("tmp") : store'["tmp"][a] = Zero
    BY <1>1, <1>3 DEF TypeOK
  <2> QED
    BY <1>1, <1>3, <2>1, NumbersTyped
<1>5. LastStos'
  BY <1>1 DEF LastStos
<1> QED
  BY <1>4, <1>5 DEF MovesInv

-----------------------------------------------------------------------------
(* General moves: one action after the other. *)

LEMMA MovAgrees ==
    ASSUME TypeOK, NEW d, NEW s, NEW n, NEW from, Executes("MOV", d, s, n, <<Copy(d, from, n)>>), ~faulted',
           Fits(d, n), d.file # "tmp", \A b \in 0 .. n - 1 : Read(store, from, b) = Read(store, s, b)
    PROVE  StepAgrees
<1> DEFINE new == ZeroExtended(s, n, n)
<1>1. /\ ins' = [op |-> "MOV", d |-> d, s |-> s, n |-> n] /\ d # Null /\ s # Null
      /\ store' = Run(store, <<Copy(d, from, n)>>)
  BY ExecutesWhat
<1>2. n \in Nat
  BY DEF Fits
<1>3. \A b \in 0 .. n - 1 : new[b] = Read(store, from, b)
  BY <1>2 DEF ZeroExtended, Old
<1> HIDE DEF new
<1>4. Put(store, store', d, n, new)
  BY <1>1, <1>3, StoreFits, RunOne, CopyPuts
<1>5. Becomes(d, n, new)
  BY <1>4, StoreFits, PutBecomes
<1>6. MovesInv'
  BY <1>4, PutTyped
<1>7. MovesStep
  BY <1>1, <1>5 DEF MovesStep, new
<1>8. LanesStep
  BY <1>1 DEF LanesStep
<1> QED
  BY <1>6, <1>7, <1>8 DEF StepAgrees

LEMMA ExtendedAgrees ==
    ASSUME TypeOK, NEW op, NEW d, NEW s, NEW n, NEW k \in 1 .. n,
           Executes(op, d, s, n, Extended(d, s, k, n)), ~faulted',
           Fits(d, n), d.file # "tmp", Source(d, s, n),
           \/ op \in {"MOVI", "MOVSXD"} /\ (k = 4 \/ (k = n /\ n < 4))
           \/ op \in {"CBW", "CWD"} /\ s = Rax /\ k = n \div 2
    PROVE  StepAgrees
<1> DEFINE new == SignExtended(s, k, n)
<1>1. /\ ins' = [op |-> op, d |-> d, s |-> s, n |-> n] /\ d # Null /\ s # Null
      /\ store' = Run(store, Extended(d, s, k, n))
  BY ExecutesWhat
<1>2. n \in Nat
  BY DEF Fits
<1>3. \A b \in 0 .. n - 1 :
         new[b] = IF b < k THEN Read(store, s, b) ELSE Sign(Read(store, s, k - 1))
  BY <1>2 DEF SignExtended, Old
<1>4. op \in {"MOVI", "MOVSXD"} => SignExtended(s, 4, n) = new
  <2>1. CASE k = 4
    BY <2>1
  <2>2. CASE k = n /\ n < 4
    <3>1. \A b \in 0 .. n - 1 : b < 4 /\ b < k
      BY <1>2, <2>2
    <3> QED
      BY <3>1 DEF SignExtended
  <2> QED
    BY <2>1, <2>2
<1> HIDE DEF new
<1>5. Put(store, store', d, n, new)
  BY <1>1, <1>3, StoreFits, ExtendedPuts
<1>6. Becomes(d, n, new)
  BY <1>5, StoreFits, PutBecomes
<1>7. MovesInv'
  BY <1>5, PutTyped
<1>8. MovesStep
  <2>1. CASE op \in {"MOVI", "MOVSXD"}
    <3>1. Becomes(d, n, SignExtended(s, 4, n))
      BY <1>4, <1>6, <2>1
    <3> QED
      BY <1>1, <2>1, <3>1 DEF MovesStep
  <2>2. CASE op \in {"CBW", "CWD"} /\ s = Rax /\ k = n \div 2
    <3>1. Becomes(d, n, SignExtended(Rax, n \div 2, n))
      BY <1>6, <2>2 DEF new
    <3> QED
      BY <1>1, <2>2, <3>1 DEF MovesStep
  <2> QED
    BY <2>1, <2>2
<1>9. LanesStep
  BY <1>1 DEF LanesStep
<1> QED
  BY <1>7, <1>8, <1>9 DEF StepAgrees

LEMMA MovzxAgrees ==
    ASSUME TypeOK, NEW d, NEW s, NEW n, NEW k \in {1, 2}, Movzx(d, s, k, n), ~faulted',
           Fits(d, n), d.file # "tmp", k <= n
    PROVE  StepAgrees
<1> DEFINE new == ZeroExtended(s, k, n)
           op == IF k = 1 THEN "MOVZX8" ELSE "MOVZX16"
<1>0. Executes(op, d, s, n, Padded(d, s, k, n)) /\ op # "STOS"
  BY DEF Movzx
<1>1. /\ ins' = [op |-> op, d |-> d, s |-> s, n |-> n] /\ d # Null /\ s # Null
      /\ store' = Run(store, Padded(d, s, k, n))
  <2> HIDE DEF op
  <2> QED
    BY <1>0, ExecutesWhat
<1>2. n \in Nat /\ k \in 0 .. n
  BY DEF Fits
<1>3. \A b \in 0 .. n - 1 : new[b] = IF b < k THEN Read(store, s, b) ELSE Zero
  BY <1>2 DEF ZeroExtended, Old
<1> HIDE DEF new
<1>4. Put(store, store', d, n, new)
  BY <1>1, <1>2, <1>3, StoreFits, PaddedPuts
<1>5. Becomes(d, n, new)
  BY <1>4, StoreFits, PutBecomes
<1>6. MovesInv'
  <2> HIDE DEF op
  <2> QED
    BY <1>0, <1>4, PutTyped
<1>7. MovesStep
  BY <1>1, <1>5 DEF MovesStep, new
<1>8. LanesStep
  BY <1>1 DEF LanesStep
<1> QED
  BY <1>6, <1>7, <1>8 DEF StepAgrees

LEMMA CmovNotTaken ==
    ASSUME TypeOK, NEW d, NEW n, Executes("CMOVN", d, None, n, <<>>)
    PROVE  StepAgrees
<1>1. /\ ins' = [op |-> "CMOVN", d |-> d, s |-> None, n |-> n]
      /\ Instr(ins') /\ ptr' = ptr /\ faulted' \in BOOLEAN
      /\ ~faulted' => d # Null /\ None # Null
  BY ExecutesWhat
<1>2. store' = store
  BY ExecutesWhat, RunNone
<1>3. TypeOK'
  <2>1. ptr' \in [Numeric -> 0 .. Size - 1] /\ StoreOK(store')
        /\ \A a \in Addresses("tmp") : store'["tmp"][a] = Zero
    BY <1>1, <1>2, StoreFits DEF TypeOK
  <2> QED
    BY <1>1, <1>2, <2>1, NumbersTyped
<1>4. MovesInv'
  BY <1>1, <1>3 DEF MovesInv, LastStos
<1>5. MovesStep
  BY <1>1, <1>2 DEF MovesStep, Kept
<1>6. LanesStep
  BY <1>1 DEF LanesStep
<1> QED
  BY <1>4, <1>5, <1>6 DEF StepAgrees

\* XCHG leaves nothing in its temporary.
LEMMA XchgAgrees ==
    ASSUME TypeOK, NEW d, NEW s, NEW n, Xchg(d, s, n), ~faulted',
           Fits(d, n), Fits(s, n), n <= 8, d.file # "tmp", s.file # "tmp",
           s = d \/ Apart(d, s, n)
    PROVE  StepAgrees
<1> DEFINE m1 == Copy(Tmp, d, n)
           m2 == Copy(d, s, n)
           m3 == Copy(s, Tmp, n)
           m4 == Clear(Tmp, n)
           ofD == [b \in 0 .. n - 1 |-> Read(store, d, b)]
           ofS == [b \in 0 .. n - 1 |-> Read(store, s, b)]
           zeros == [b \in 0 .. n - 1 |-> Zero]
<1>1. Executes("XCHG", d, s, n, <<m1, m2, m3, m4>>)
  BY DEF Xchg
<1>2. /\ ins' = [op |-> "XCHG", d |-> d, s |-> s, n |-> n] /\ d # Null /\ s # Null
      /\ Instr(ins') /\ ptr' = ptr /\ faulted' \in BOOLEAN
      /\ store' = Run(store, <<m1, m2, m3, m4>>)
  <2> HIDE DEF m1, m2, m3, m4
  <2> QED
    BY <1>1, ExecutesWhat
<1>3. Fits(Tmp, n) /\ Tmp.file = "tmp" /\ n \in Nat
  BY TmpFits, FitsLess DEF Fits
<1>4. PICK t1, t2, t3 : t1 = Moved(store, m1) /\ t2 = Moved(t1, m2) /\ t3 = Moved(t2, m3)
                        /\ store' = Moved(t3, m4)
  <2> HIDE DEF m1, m2, m3, m4
  <2> QED
    BY <1>2, RunFour
<1>5. Put(store, t1, Tmp, n, ofD)
  BY <1>3, <1>4, StoreFits, CopyPuts
<1>6. Put(t1, t2, d, n, ofS)
  <2>1. \A b \in 0 .. n - 1 : Read(t1, s, b) = Read(store, s, b)
    <3> HIDE DEF ofD
    <3> QED
      BY <1>3, <1>5, ReadElsewhere
  <2>2. \A b \in 0 .. n - 1 : ofS[b] = Read(t1, s, b)
    BY <2>1
  <2> HIDE DEF ofS
  <2> QED
    BY <1>4, <1>5, <2>2, CopyPuts DEF Put
<1>7. Put(t2, t3, s, n, ofD)
  <2>1. \A b \in 0 .. n - 1 : Read(t1, Tmp, b) = ofD[b]
    <3> HIDE DEF ofD
    <3> QED
      BY <1>3, <1>5, ReadWritten
  <2> HIDE DEF ofD, ofS
  <2>2. \A b \in 0 .. n - 1 : Read(t2, Tmp, b) = Read(t1, Tmp, b)
    BY <1>3, <1>6, ReadElsewhere
  <2>3. \A b \in 0 .. n - 1 : ofD[b] = Read(t2, Tmp, b)
    BY <2>1, <2>2
  <2> QED
    BY <1>4, <1>6, <2>3, CopyPuts DEF Put
<1>8. Put(t3, store', Tmp, n, zeros)
  <2>1. StoreOK(t3) /\ \A b \in 0 .. n - 1 : zeros[b] = Zero
    BY <1>7 DEF Put
  <2> HIDE DEF zeros
  <2> QED
    BY <1>3, <1>4, <2>1, ClearPuts
<1> HIDE DEF ofD, ofS, zeros
<1>9. ASSUME NEW b \in 0 .. n - 1
      PROVE  New(d, b) = Old(s, b) /\ New(s, b) = Old(d, b)
  <2>1. Read(store', s, b) = Read(t3, s, b) /\ Read(store', d, b) = Read(t3, d, b)
    BY <1>3, <1>8, ReadElsewhere
  <2>2. Read(t3, s, b) = ofD[b] /\ ofD[b] = Read(store, d, b)
    <3>1. ofD[b] = Read(store, d, b)
      BY DEF ofD
    <3> QED
      BY <1>7, <3>1, ReadWritten
  <2>3. Read(t2, d, b) = ofS[b] /\ ofS[b] = Read(store, s, b)
    <3>1. ofS[b] = Read(store, s, b)
      BY DEF ofS
    <3> QED
      BY <1>6, <3>1, ReadWritten
  <2>4. CASE s = d
    BY <2>1, <2>2, <2>4 DEF New, Old
  <2>5. CASE Apart(d, s, n)
    <3>1. d.file # s.file \/ d.at + n <= s.at \/ s.at + n <= d.at
      BY <2>5 DEF Apart
    <3>2. Read(t3, d, b) = Read(t2, d, b)
      BY <1>7, <3>1, ReadElsewhere
    <3> QED
      BY <2>1, <2>2, <2>3, <3>2 DEF New, Old
  <2> QED
    BY <2>4, <2>5
<1>10. \A a \in Addresses("tmp") : store'["tmp"][a] = Zero /\ store["tmp"][a] = Zero
  <2> SUFFICES ASSUME NEW a \in Addresses("tmp")
               PROVE  store'["tmp"][a] = Zero /\ store["tmp"][a] = Zero
    OBVIOUS
  <2>0. "tmp" \in Files
    BY DEF Files
  <2>1. t3["tmp"] = t2["tmp"] /\ t2["tmp"] = t1["tmp"]
    BY <1>6, <1>7, <2>0 DEF Put
  <2>2. t1["tmp"][a] = IF a \in Span(Tmp, n) THEN ofD[a - Tmp.at] ELSE store["tmp"][a]
    BY <1>3, <1>5 DEF Put
  <2>3. store'["tmp"][a] = IF a \in Span(Tmp, n) THEN zeros[a - Tmp.at] ELSE t3["tmp"][a]
    BY <1>3, <1>8 DEF Put
  <2>4. a \in Span(Tmp, n) => zeros[a - Tmp.at] = Zero
    BY <1>3, TmpFits DEF Span, zeros
  <2>5. store["tmp"][a] = Zero
    BY DEF TypeOK
  <2> QED
    BY <2>1, <2>2, <2>3, <2>4, <2>5
<1>11. ASSUME NEW f \in Files
       PROVE  Kept(f, UNION {Span(p, n) : p \in {q \in {d, s} : q.file = f}})
  <2> SUFFICES ASSUME NEW a \in DOMAIN store[f], 
                      d.file = f => a \notin Span(d, n),
                      s.file = f => a \notin Span(s, n)
               PROVE  store'[f][a] = store[f][a]
    BY DEF Kept
  <2>1. a \in Addresses(f)
    BY StoreFits DEF StoreOK
  <2>2. CASE f = "tmp"
    BY <1>10, <2>1, <2>2
  <2>3. CASE f # "tmp"
    <3>1. t1[f] = store[f] /\ store'[f] = t3[f]
      BY <1>3, <1>5, <1>8, <2>3 DEF Put
    <3>2. t2[f][a] = t1[f][a]
      BY <1>6, <2>1 DEF Put
    <3>3. t3[f][a] = t2[f][a]
      BY <1>7, <2>1 DEF Put
    <3> QED
      BY <3>1, <3>2, <3>3
  <2> QED
    BY <2>2, <2>3
<1>12. TypeOK'
  <2>1. StoreOK(store') /\ ptr' \in [Numeric -> 0 .. Size - 1]
    BY <1>2, <1>8 DEF Put, TypeOK
  <2> QED
    BY <1>2, <1>10, <2>1, NumbersTyped
<1>13. MovesInv'
  BY <1>2, <1>12 DEF MovesInv, LastStos
<1>14. MovesStep
  BY <1>2, <1>9, <1>11 DEF MovesStep
<1>15. LanesStep
  BY <1>2 DEF LanesStep
<1> QED
  BY <1>13, <1>14, <1>15 DEF StepAgrees

LEMMA CpuidAgrees ==
    ASSUME TypeOK, Cpuid
    PROVE  StepAgrees
<1> DEFINE m1 == Clear(Rax, 4)
           m2 == Clear(Rdx, 4)
<1>1. /\ Instr([op |-> "CPUID", d |-> None, s |-> None, n |-> 4])
      /\ store' = Moved(Moved(store, m1), m2)
      /\ ptr' = [ptr EXCEPT ![rcx] = Part(@, 0, 4)] /\ faulted' = faulted
  BY RunTwo DEF Cpuid
<1>2. ins' = [op |-> "CPUID", d |-> None, s |-> None, n |-> 4] /\ ~faulted'
  BY <1>1 DEF Instr
<1>3. m1.to.file = "gpr" /\ m2.to.file = "gpr" /\ "gpr" \in Files /\ "tmp" \in Files
  BY DEF Clear, Copy, Rax, Rdx, Gpr, At, Files
<1> HIDE DEF m1, m2
<1>4. StoreOK(Moved(store, m1)) /\ Moved(store, m1)["tmp"] = store["tmp"]
  BY <1>3, StoreFits, MovedBytes
<1>5. StoreOK(store') /\ store'["tmp"] = store["tmp"]
  BY <1>1, <1>3, <1>4, MovedBytes
<1>6. ptr' \in [Numeric -> 0 .. Size - 1]
  <2>1. Part(ptr[rcx], 0, 4) \in 0 .. Size - 1
    BY PartTyped DEF TypeOK, WordWidths, Numeric, rcx
  <2> QED
    BY <1>1, <2>1 DEF TypeOK
<1>7. TypeOK'
  <2>1. faulted' \in BOOLEAN /\ \A a \in Addresses("tmp") : store'["tmp"][a] = Zero
    BY <1>1, <1>5 DEF TypeOK
  <2> QED
    BY <1>1, <1>5, <1>6, <2>1, NumbersTyped
<1>8. MovesInv'
  BY <1>2, <1>7 DEF MovesInv, LastStos
<1>11. /\ \A b \in 0 .. 3 : New(Rax, b) = Zero /\ New(Rdx, b) = Zero
       /\ \A f \in Files :
             Kept(f, IF f = "gpr" THEN Span(Rax, 4) \cup Span(Rdx, 4) ELSE {})
  <2> DEFINE zeros == [b \in 0 .. 3 |-> Zero]
             t == Moved(store, m1)
  <2>1. Fits(Rax, 4) /\ Fits(Rdx, 4)
    BY GprFits, FitsLess DEF Gprs
  <2>2. \A b \in 0 .. 4 - 1 : zeros[b] = Zero
    OBVIOUS
  <2>3. Put(store, t, Rax, 4, zeros)
    BY <2>1, <2>2, StoreFits, ClearPuts DEF m1
  <2>4. Put(t, store', Rdx, 4, zeros)
    BY <1>1, <1>4, <2>1, <2>2, ClearPuts DEF m2
  <2>5. /\ Rax.file = "gpr" /\ Rdx.file = "gpr" /\ Rax.at = 0 /\ Rdx.at = 16
        /\ Span(Rax, 4) = 0 .. 3 /\ Span(Rdx, 4) = 16 .. 19
    BY DEF Rax, Rdx, Gpr, At, Span
  <2>6. /\ \A f \in Files \ {"gpr"} : store'[f] = store[f]
        /\ \A a \in Addresses("gpr") :
              store'["gpr"][a] = IF a \in 0 .. 3 \cup 16 .. 19 THEN Zero ELSE store["gpr"][a]
    <3>1. \A f \in Files \ {"gpr"} : store'[f] = t[f] /\ t[f] = store[f]
      BY <2>3, <2>4, <2>5 DEF Put
    <3>2. \A a \in Addresses("gpr") :
             t["gpr"][a] = IF a \in 0 .. 3 THEN Zero ELSE store["gpr"][a]
      BY <2>3, <2>5 DEF Put
    <3>3. \A a \in Addresses("gpr") :
             store'["gpr"][a] = IF a \in 16 .. 19 THEN Zero ELSE t["gpr"][a]
      BY <2>4, <2>5 DEF Put
    <3> QED
      BY <3>1, <3>2, <3>3
  <2>7. 0 .. 3 \cup 16 .. 19 \subseteq Addresses("gpr")
    BY <2>1, <2>5 DEF Fits
  <2>8. ASSUME NEW b \in 0 .. 3
        PROVE  New(Rax, b) = Zero /\ New(Rdx, b) = Zero
    <3>1. New(Rax, b) = store'["gpr"][0 + b] /\ New(Rdx, b) = store'["gpr"][16 + b]
      BY <1>3, <2>5, PlaceRead DEF New
    <3>2. 0 + b \in 0 .. 3 /\ 16 + b \in 16 .. 19
      OBVIOUS
    <3> QED
      BY <2>6, <2>7, <3>1, <3>2
  <2>9. \A f \in Files : DOMAIN store[f] = Addresses(f)
    BY StoreFits DEF StoreOK
  <2>10. \A f \in Files :
             Kept(f, IF f = "gpr" THEN Span(Rax, 4) \cup Span(Rdx, 4) ELSE {})
    BY <2>5, <2>6, <2>9 DEF Kept
  <2> QED
    BY <2>8, <2>10
<1>12. /\ ptr'[rcx] % Half = 0 /\ ptr'[rcx] \div Half = ptr[rcx] \div Half
       /\ \A r \in Numeric \ {rcx} : ptr'[r] = ptr[r]
  <2>1. ptr'[rcx] = Part(ptr[rcx], 0, 4) /\ ptr[rcx] \in 0 .. Size - 1
    BY <1>1 DEF TypeOK, Numeric, rcx
  <2>2. Values(4) = Half /\ 4 \in WordWidths
    BY DEF Values, WordWidths
  <2>3. ptr'[rcx] % Half = 0 % Half /\ ptr'[rcx] \div Half = ptr[rcx] \div Half
    BY <2>1, <2>2, PartParts
  <2>4. 0 % Half = 0
    BY SizeFacts
  <2>5. \A r \in Numeric \ {rcx} : ptr'[r] = ptr[r]
    BY <1>1 DEF TypeOK
  <2> QED
    BY <2>3, <2>4, <2>5
<1>9. MovesStep
  <2>1. Null \notin {None}
    BY DEF None, Null, At
  <2> QED
    BY <1>2, <1>11, <1>12, <2>1 DEF MovesStep
<1>10. LanesStep
  BY <1>2 DEF LanesStep
<1> QED
  BY <1>8, <1>9, <1>10 DEF StepAgrees

LEMMA LeaAgrees ==
    ASSUME TypeOK, NEW r \in Numeric, NEW e \in Leas, NEW n \in WordWidths, Lea(r, e, n)
    PROVE  StepAgrees
<1> DEFINE to == IF e.adsz THEN 0 ELSE Indirect(e)
           i == [op |-> "LEA", d |-> At("ptr", r), s |-> None, n |-> n, e |-> e]
<1>1. /\ Instr(i) /\ ptr' = [ptr EXCEPT ![r] = Part(@, to, n)]
      /\ store' = store /\ faulted' = faulted
  BY DEF Lea
<1>2. ins' = i /\ ~faulted' /\ rip' = (rip + 1) % Size
  BY <1>1 DEF Instr
<1>3. Indirect(e) \in 0 .. Size - 1 /\ Indirect(e) = EffectiveAddress(e)
  BY <1>2, EncodingFacts, IndirectAgrees
<1>4. to \in 0 .. Size - 1 /\ to = IF e.adsz THEN 0 ELSE EffectiveAddress(e)
  BY <1>3, SizeFacts
<1> HIDE DEF to
<1>5. ptr[r] \in 0 .. Size - 1
  BY DEF TypeOK
<1>6. Part(ptr[r], to, n) \in 0 .. Size - 1
  BY <1>4, <1>5, PartTyped
<1>7. ptr' \in [Numeric -> 0 .. Size - 1]
  BY <1>1, <1>6 DEF TypeOK
<1>8. /\ ptr'[r] % Values(n) = to % Values(n)
      /\ ptr'[r] \div Values(n) = ptr[r] \div Values(n)
  <2>1. ptr'[r] = Part(ptr[r], to, n)
    BY <1>1 DEF TypeOK
  <2>2. to \in Int
    BY <1>4, SizeFacts
  <2> QED
    BY <1>5, <2>1, <2>2, PartParts
<1>9. \A q \in Numeric \ {r} : ptr'[q] = ptr[q]
  BY <1>1 DEF TypeOK
<1>10. TypeOK'
  <2>1. faulted' \in BOOLEAN /\ StoreOK(store') /\ \A a \in Addresses("tmp") : store'["tmp"][a] = Zero
    BY <1>1, StoreFits DEF TypeOK
  <2> QED
    BY <1>1, <1>7, <2>1, NumbersTyped
<1>11. ins'.op = "LEA" /\ ins'.d = At("ptr", r) /\ ins'.s = None /\ ins'.n = n /\ ins'.e = e
       /\ At("ptr", r).at = r
  BY <1>2 DEF At
<1>12. MovesInv'
  BY <1>10, <1>11 DEF MovesInv, LastStos
<1>13. Null \notin {At("ptr", r), None}
  BY DEF Null, None, At
<1>14. MovesStep
  BY <1>1, <1>2, <1>4, <1>8, <1>9, <1>11, <1>13 DEF MovesStep
<1>15. LanesStep
  BY <1>11 DEF LanesStep
<1> QED
  BY <1>12, <1>14, <1>15 DEF StepAgrees

-----------------------------------------------------------------------------
(* STOS: the elements it stores lie next to each other. *)

LEMMA ElementOffsets ==
    ASSUME NEW n \in Widths, NEW k \in Nat
    PROVE  /\ k * n \in Nat /\ (k + 1) * n = k * n + n /\ 0 * n = 0
           /\ \A b \in 0 .. n - 1 : b % n = b /\ (k * n + b) % n = b
           /\ \A y \in Int : (y - n) % n = y % n
BY DEF Widths

\* Where the k elements stored first start.
Lowest(at, k, n) == IF df THEN at - (k - 1) * n ELSE at

\* Store t, after k elements.
Stored(t, at, k, n) ==
    /\ StoreOK(t)
    /\ \A f \in Files \ {"mem"} : t[f] = store[f]
    /\ \A a \in Addresses("mem") :
          t["mem"][a] = IF a \in Lowest(at, k, n) .. Lowest(at, k, n) + k * n - 1
                        THEN Read(store, Rax, (a - Lowest(at, k, n)) % n)
                        ELSE store["mem"][a]

LEMMA NextStored ==
    ASSUME NEW n \in Widths, NEW at \in Int, NEW k \in Nat \ {0}, NEW t, NEW p, NEW u, df \in BOOLEAN,
           p.file = "mem", p.at = at + (IF df THEN 0 - (k - 1) * n ELSE (k - 1) * n), Fits(p, n),
           Stored(t, at, k - 1, n), u = Moved(t, Copy(p, Rax, n))
    PROVE  Stored(u, at, k, n)
<1> DEFINE new == [b \in 0 .. n - 1 |-> Read(store, Rax, b)]
           m == (k - 1) * n
           below == Lowest(at, k - 1, n)
           low == Lowest(at, k, n)
<1>1. /\ k - 1 \in Nat /\ m \in Nat /\ k * n = m + n /\ n \in Nat /\ n <= 8
      /\ \A b \in 0 .. n - 1 : b % n = b /\ (m + b) % n = b
      /\ \A y \in Int : (y - n) % n = y % n
  <2>1. PICK j \in Nat : j = k - 1 /\ k = j + 1
    OBVIOUS
  <2> QED
    BY <2>1, ElementOffsets DEF Widths
<1>2. (k - 1 - 1) * n = m - n
  <2>1. PICK j \in Int : j = k - 1
    OBVIOUS
  <2>2. (j - 1) * n = j * n - n
    BY <1>1, <2>1 DEF Widths
  <2> QED
    BY <2>1, <2>2
<1>3. /\ low = IF df THEN at - m ELSE at
      /\ below = IF df THEN at - (m - n) ELSE at
      /\ p.at = IF df THEN at - m ELSE at + m
  BY <1>1, <1>2 DEF Lowest
<1>4. \A b \in 0 .. n - 1 : new[b] = Read(t, Rax, b)
  <2>1. Rax.file = "gpr" /\ "gpr" \in Files
    BY DEF Rax, Gpr, At, Files
  <2>2. \A b \in 0 .. n - 1 : Read(t, Rax, b) = Read(store, Rax, b)
    BY <2>1, PlaceRead DEF Stored
  <2> QED
    BY <2>2
<1>5. Put(t, u, p, n, new)
  <2> HIDE DEF new
  <2> QED
    BY <1>4, CopyPuts DEF Stored
<1>6. ASSUME NEW a \in Addresses("mem")
      PROVE  u["mem"][a] = IF a \in low .. low + k * n - 1
                           THEN Read(store, Rax, (a - low) % n) ELSE store["mem"][a]
  <2>0. a \in Int
    BY MemoryAssumption DEF Addresses
  <2>1. u["mem"][a] = IF a \in Span(p, n) THEN new[a - p.at] ELSE t["mem"][a]
    BY <1>5 DEF Put
  <2>2. t["mem"][a] = IF a \in below .. below + m - 1
                      THEN Read(store, Rax, (a - below) % n) ELSE store["mem"][a]
    BY DEF Stored
  <2>3. CASE a \in Span(p, n)
    <3>0. a - p.at \in 0 .. n - 1
      BY <1>1, <1>3, <2>0, <2>3 DEF Span
    <3>1. a - p.at \in 0 .. n - 1 /\ u["mem"][a] = Read(store, Rax, a - p.at)
      BY <2>1, <2>3, <3>0
    <3> HIDE DEF m, low, below
    <3>2. a \in low .. low + k * n - 1
      BY <1>1, <1>3, <2>0, <2>3 DEF Span
    <3>3. (a - low) % n = a - p.at
      <4>1. CASE df
        <5>1. low = p.at
          BY <1>3, <4>1
        <5> QED
          BY <1>1, <3>1, <5>1
      <4>2. CASE ~df
        <5>1. a - low = m + (a - p.at)
          BY <1>1, <1>3, <2>0, <4>2
        <5> QED
          BY <1>1, <3>1, <5>1
      <4> QED
        BY <4>1, <4>2
    <3> QED
      BY <3>1, <3>2, <3>3
  <2>4. CASE a \notin Span(p, n) /\ a \in below .. below + m - 1
    <3> HIDE DEF m, low, below
    <3>1. a \in low .. low + k * n - 1
      BY <1>1, <1>3, <2>0, <2>4
    <3>2. (a - low) % n = (a - below) % n
      <4>1. CASE df
        <5>1. a - below = (a - low) - n /\ a - low \in Int
          BY <1>1, <1>3, <2>0, <4>1
        <5> QED
          BY <1>1, <5>1
      <4>2. CASE ~df
        BY <1>3, <4>2
      <4> QED
        BY <4>1, <4>2
    <3> QED
      BY <2>1, <2>2, <2>4, <3>1, <3>2
  <2>5. CASE a \notin Span(p, n) /\ a \notin below .. below + m - 1
    <3> HIDE DEF m, low, below
    <3>1. a \notin low .. low + k * n - 1
      BY <1>1, <1>3, <2>0, <2>5 DEF Span
    <3> QED
      BY <2>1, <2>2, <2>5, <3>1
  <2> QED
    BY <2>3, <2>4, <2>5
<1>7. StoreOK(u) /\ \A f \in Files \ {"mem"} : u[f] = store[f]
  BY <1>5 DEF Put, Stored
<1> QED
  BY <1>6, <1>7 DEF Stored

LEMMA StosStores ==
    ASSUME TypeOK, NEW n \in Widths, NEW at \in Int, NEW times \in Nat, NEW to,
           \A k \in 1 .. times : /\ to[k].file = "mem" /\ Mapped(to[k])
                                 /\ to[k].at = at + (IF df THEN 0 - (k - 1) * n ELSE (k - 1) * n),
           NEW a, a[0] = store, \A k \in 1 .. times : a[k] = Moved(a[k - 1], Copy(to[k], Rax, n))
    PROVE  Stored(a[times], at, times, n)
<1> DEFINE T == {k \in 0 .. times : Stored(a[k], at, k, n)}
<1>2. 0 \in T
  <2>1. n \in Nat /\ 0 * n = 0 /\ Lowest(at, 0, n) \in Int
    <3>1. (0 - 1) * n \in Int
      BY DEF Widths
    <3> QED
      BY <3>1 DEF Widths, Lowest
  <2>2. Lowest(at, 0, n) .. Lowest(at, 0, n) + 0 * n - 1 = {}
    BY <2>1
  <2>3. Stored(a[0], at, 0, n)
    BY <2>2, StoreFits DEF Stored
  <2> QED
    BY <2>3
<1>3. ASSUME NEW k \in 1 .. times, k - 1 \in T
      PROVE  k \in T
  <2>1. Stored(a[k - 1], at, k - 1, n) /\ k \in Nat \ {0}
    BY <1>3
  <2>2. Fits(to[k], n)
    <3>1. n \in Nat /\ n <= 16
      BY DEF Widths
    <3> QED
      BY <3>1, MemFits, FitsLess
  <2>3. a[k] = Moved(a[k - 1], Copy(to[k], Rax, n))
    OBVIOUS
  <2>4. df \in BOOLEAN
    BY DEF TypeOK
  <2>5. to[k].file = "mem" /\ to[k].at = at + (IF df THEN 0 - (k - 1) * n ELSE (k - 1) * n)
    OBVIOUS
  <2>6. Stored(a[k], at, k, n)
    BY <2>1, <2>2, <2>3, <2>4, <2>5, NextStored
  <2> QED
    BY <2>6
<1>4. times \in T
  <2> HIDE DEF T
  <2>1. 0 .. times \subseteq T
    BY <1>2, <1>3, UpTo
  <2> QED
    BY <2>1
<1> QED
  BY <1>4

LEMMA StosAgrees ==
    ASSUME MovesInv, NEW n \in Widths, NEW rep \in BOOLEAN, NEW adsz \in BOOLEAN, Stos(n, rep, adsz)
    PROVE  StepAgrees
<1> DEFINE low(r) == IF adsz THEN ptr[r] % Half ELSE ptr[r]
           times == IF rep THEN low(rcx) ELSE 1
           at == low(rdi)
           to == [k \in 1 .. times |-> Mem(at + (IF df THEN 0 - (k - 1) * n ELSE (k - 1) * n))]
           copies == [k \in 1 .. times |-> Copy(to[k], Rax, n)]
           i == [op |-> "STOS", d |-> Mem(at), s |-> Rax, n |-> n, times |-> times, adsz |-> adsz]
<1>0. TypeOK /\ LastStos
  BY DEF MovesInv
<1>1. ptr[rcx] \in 0 .. Size - 1 /\ ptr[rdi] \in 0 .. Size - 1 /\ rcx # rdi /\ {rcx, rdi} \subseteq Numeric
  BY <1>0 DEF TypeOK, Numeric, rcx, rdi
<1>2. low(rcx) \in 0 .. ptr[rcx] /\ low(rdi) \in Nat
  BY <1>1, SizeFacts
<1>3. times \in Nat /\ at \in Nat /\ (rep => times <= ptr[rcx])
  BY <1>2
<1>4. /\ Instr(i)
      /\ ptr' = IF rep THEN [ptr EXCEPT ![rcx] = @ - times] ELSE ptr
  BY DEF Stos
<1>5. Makes({Mem(at + (IF df THEN 0 - (k - 1) * n ELSE (k - 1) * n)) : k \in 1 .. times},
            [k \in 1 .. times |-> Copy(Mem(at + (IF df THEN 0 - (k - 1) * n ELSE (k - 1) * n)), Rax, n)])
  BY DEF Stos
<1>6. copies = [k \in 1 .. times |-> Copy(Mem(at + (IF df THEN 0 - (k - 1) * n ELSE (k - 1) * n)), Rax, n)]
  OBVIOUS
<1>7. {Mem(at + (IF df THEN 0 - (k - 1) * n ELSE (k - 1) * n)) : k \in 1 .. times} = {to[k] : k \in 1 .. times}
  OBVIOUS
<1>8. Makes({to[k] : k \in 1 .. times}, copies)
  BY <1>5, <1>6, <1>7
<1>9. \A k \in 1 .. times : /\ to[k].file = "mem"
                            /\ to[k].at = at + (IF df THEN 0 - (k - 1) * n ELSE (k - 1) * n)
  BY DEF Mem, At
<1>10. Len(copies) = times /\ \A k \in 1 .. times : copies[k] = Copy(to[k], Rax, n)
  BY <1>3
<1> HIDE DEF to, copies, at, times
<1>11. /\ faulted' \in BOOLEAN /\ (faulted' => store' = store)
       /\ ~faulted' => /\ \A k \in 1 .. times : Mapped(to[k])
                       /\ store' = Run(store, copies)
  BY <1>8, MakesWhat
<1>12. ~faulted' => Stored(store', at, times, n)
  <2> SUFFICES ASSUME ~faulted' PROVE Stored(store', at, times, n)
    OBVIOUS
  <2>1. \A k \in 1 .. times : /\ to[k].file = "mem" /\ Mapped(to[k])
                              /\ to[k].at = at + (IF df THEN 0 - (k - 1) * n ELSE (k - 1) * n)
    BY <1>9, <1>11
  <2>2. PICK c, st : c = copies /\ st = store
    OBVIOUS
  <2>3. Len(c) = times
    BY <1>10, <2>2
  <2> PICK a : Traced(a, st, c, times)
    BY <1>3, <2>3, RunSteps
  <2>4. /\ a[0] = st
        /\ \A k \in 1 .. times : a[k] = Moved(a[k - 1], c[k])
        /\ Run(st, c) = a[times]
    BY DEF Traced
  <2>5. \A k \in 1 .. times : a[k] = Moved(a[k - 1], Copy(to[k], Rax, n))
    BY <1>10, <2>2, <2>4
  <2>6. Stored(a[times], at, times, n)
    <3>1. PICK x, y, p : x = at /\ y = times /\ p = to
      OBVIOUS
    <3>2. x \in Int /\ y \in Nat /\ a[0] = store
      BY <1>3, <2>2, <2>4, <3>1
    <3>3. \A k \in 1 .. y : /\ p[k].file = "mem" /\ Mapped(p[k])
                            /\ p[k].at = x + (IF df THEN 0 - (k - 1) * n ELSE (k - 1) * n)
      BY <2>1, <3>1
    <3>4. \A k \in 1 .. y : a[k] = Moved(a[k - 1], Copy(p[k], Rax, n))
      BY <2>5, <3>1
    <3>5. Stored(a[y], x, y, n)
      BY <1>0, <3>2, <3>3, <3>4, StosStores
    <3> QED
      BY <3>1, <3>5
  <2> QED
    BY <1>11, <2>2, <2>4, <2>6
<1>13. ptr' \in [Numeric -> 0 .. Size - 1] /\ ptr'[rdi] = ptr[rdi]
  <2>1. CASE rep
    <3>0. PICK c : c = ptr[rcx]
      OBVIOUS
    <3>1. c - times \in 0 .. Size - 1
      <4>1. c \in 0 .. Size - 1 /\ times \in Nat /\ times <= c
        BY <1>1, <1>3, <2>1, <3>0
      <4> QED
        BY <4>1, SizeFacts
    <3> QED
      BY <1>0, <1>1, <1>4, <2>1, <3>0, <3>1 DEF TypeOK
  <2>2. CASE ~rep
    BY <1>0, <1>4, <2>2 DEF TypeOK
  <2> QED
    BY <2>1, <2>2
<1>14. TypeOK'
  <2>1. StoreOK(store') /\ store'["tmp"] = store["tmp"]
    BY <1>0, <1>11, <1>12, StoreFits DEF Stored, Files
  <2>2. \A a \in Addresses("tmp") : store'["tmp"][a] = Zero
    BY <1>0, <2>1 DEF TypeOK
  <2> QED
    BY <1>0, <1>4, <1>11, <1>13, <2>1, <2>2, NumbersTyped
<1>15. ins'.op = "STOS" /\ ins'.d = Mem(at) /\ ins'.s = Rax /\ ins'.n = n /\ ins'.times = times
       /\ ins'.adsz = adsz
  BY <1>4 DEF Instr
<1>16. at = IF adsz THEN ptr[rdi] % Half ELSE ptr[rdi]
  BY DEF at
<1>17. LastStos'
  BY <1>13, <1>15, <1>16 DEF LastStos, Mem, At
<1>18. (ins.op = "STOS" /\ ins.adsz = adsz) => ins.d = Mem(at)
  BY <1>0, <1>16 DEF LastStos
<1>19. LanesStep
  BY <1>15 DEF LanesStep
<1>20. CASE faulted'
  BY <1>11, <1>14, <1>17, <1>19, <1>20 DEF StepAgrees, MovesInv, MovesStep, Kept
<1>21. CASE ~faulted'
  <2> DEFINE first == IF df THEN at - (times - 1) * n ELSE at
             all == first .. first + times * n - 1
  <2>1. Stored(store', at, times, n) /\ first = Lowest(at, times, n)
    BY <1>12, <1>21 DEF Lowest
  <2>2. all \subseteq Addresses("mem")
    <3>1. CASE times = 0
      <4>1. times * n = 0 /\ first \in Int
        <5>1. times * n = 0 /\ (times - 1) * n \in Int
          BY <3>1 DEF Widths
        <5> QED
          BY <1>3, <5>1
      <4> HIDE DEF first
      <4> QED
        BY <4>1
    <3>2. CASE times # 0
      <4> DEFINE m == (times - 1) * n
      <4>1. m \in Nat /\ times * n = m + n /\ n <= 8 /\ n \in Nat
        <5>1. PICK j \in Nat : j = times - 1 /\ times = j + 1
          BY <1>3, <3>2
        <5> QED
          BY <5>1, ElementOffsets DEF Widths
      <4>2. 1 \in 1 .. times /\ times \in 1 .. times
        BY <1>3, <3>2
      <4>3. to[1].at \in 0 .. Cells - 16 /\ to[times].at \in 0 .. Cells - 16
        BY <1>9, <1>11, <1>21, <4>2, MemFits
      <4>4. to[1].at = at
        <5>1. (1 - 1) * n = 0
          BY DEF Widths
        <5> QED
          BY <1>3, <1>9, <4>2, <5>1
      <4>5. to[times].at = IF df THEN at - m ELSE at + m
        BY <1>3, <1>9, <4>1, <4>2
      <4> HIDE DEF m
      <4>6. first = IF df THEN at - m ELSE at
        BY DEF m
      <4>7. all = first .. first + (m + n) - 1
        BY <4>1
      <4> HIDE DEF first, all
      <4>8. Addresses("mem") = 0 .. Cells - 1 /\ Cells \in Nat
        BY MemoryAssumption DEF Addresses
      <4> QED
        BY <1>3, <4>1, <4>3, <4>4, <4>5, <4>6, <4>7, <4>8
    <3> QED
      BY <3>1, <3>2
  <2>3. \A a \in all : store'["mem"][a] = Old(Rax, (a - first) % n)
    BY <2>1, <2>2 DEF Stored, Old
  <2>4. \A f \in Files : Kept(f, IF f = "mem" THEN all ELSE {})
    BY <1>0, <2>1, StoreFits DEF Stored, Kept, StoreOK
  <2> HIDE DEF first, all
  <2>5. Null \notin {Mem(at), Rax} /\ Mem(at).at = at
    BY DEF Null, Mem, Rax, Gpr, At
  <2>6. MovesStep
    BY <1>13, <1>15, <1>18, <1>21, <2>3, <2>4, <2>5 DEF MovesStep, first, all
  <2> QED
    BY <1>14, <1>17, <1>19, <2>6 DEF StepAgrees, MovesInv
<1> QED
  BY <1>20, <1>21

-----------------------------------------------------------------------------
(* SSE and MMX moves that copy some of the bytes of a register. *)

LEMMA PaddedAgrees ==
    ASSUME TypeOK, NEW op \in {"MOVZ", "MOVD"}, NEW d, NEW s, NEW size, NEW n \in 0 .. size,
           Executes(op, d, s, n, Padded(d, s, n, size)), ~faulted',
           Fits(d, size), d.file # "tmp", size = IF d.file = "xmm" THEN 16 ELSE 8
    PROVE  StepAgrees
<1> DEFINE new == ZeroExtended(s, n, size)
<1>1. /\ ins' = [op |-> op, d |-> d, s |-> s, n |-> n] /\ d # Null /\ s # Null
      /\ store' = Run(store, Padded(d, s, n, size))
  BY ExecutesWhat
<1>2. size \in Nat
  BY DEF Fits
<1>3. \A b \in 0 .. size - 1 : new[b] = IF b < n THEN Read(store, s, b) ELSE Zero
  BY <1>2 DEF ZeroExtended, Old
<1> HIDE DEF new
<1>4. Put(store, store', d, size, new)
  BY <1>1, <1>3, StoreFits, PaddedPuts
<1>5. Becomes(d, size, new)
  BY <1>4, StoreFits, PutBecomes
<1>6. MovesInv'
  BY <1>4, PutTyped
<1>7. MovesStep
  BY <1>1 DEF MovesStep
<1>8. LanesStep
  BY <1>1, <1>5 DEF LanesStep, new
<1> QED
  BY <1>6, <1>7, <1>8 DEF StepAgrees

LEMMA UpperHalf ==
    ASSUME NEW p, Fits(p, 16)
    PROVE  Fits(Elem(p, 1, 8), 8) /\ Elem(p, 1, 8).file = p.file /\ Elem(p, 1, 8).at = p.at + 8
<1>1. Elem(p, 1, 8).file = p.file /\ Elem(p, 1, 8).at = p.at + 8
  BY DEF Elem, At
<1> QED
  BY <1>1 DEF Fits, Span

LEMMA MovhpsAgrees ==
    ASSUME TypeOK, NEW op \in {"MOVHPS", "MOVHPSTORE"}, NEW d, NEW s,
           Executes(op, d, s, 8, <<Copy(Elem(d, 1, 8), s, 8)>>), ~faulted',
           Fits(d, 16), d.file # "tmp"
    PROVE  StepAgrees
<1> DEFINE new == ZeroExtended(s, 8, 8)
           e == Elem(d, 1, 8)
<1>1. /\ ins' = [op |-> op, d |-> d, s |-> s, n |-> 8] /\ d # Null /\ s # Null
      /\ store' = Run(store, <<Copy(e, s, 8)>>)
  BY ExecutesWhat
<1>2. Fits(e, 8) /\ e.file # "tmp"
  BY UpperHalf
<1>3. \A b \in 0 .. 8 - 1 : new[b] = Read(store, s, b)
  BY DEF ZeroExtended, Old
<1> HIDE DEF new, e
<1>4. Put(store, store', e, 8, new)
  BY <1>1, <1>2, <1>3, StoreFits, RunOne, CopyPuts
<1>5. Becomes(e, 8, new)
  BY <1>2, <1>4, StoreFits, PutBecomes
<1>6. MovesInv'
  BY <1>2, <1>4, PutTyped DEF e
<1>7. MovesStep
  BY <1>1 DEF MovesStep
<1>8. LanesStep
  BY <1>1, <1>5 DEF LanesStep, new, e
<1> QED
  BY <1>6, <1>7, <1>8 DEF StepAgrees

-----------------------------------------------------------------------------
(* Lanes: L lanes of n bytes each, of two operands that are the same or    *)
(* apart.                                                                  *)

Laned(d, s, L, n) ==
    /\ n \in Widths /\ L \in Nat
    /\ Fits(d, L * n) /\ Fits(s, L * n) /\ (s = d \/ Apart(d, s, L * n))

Bytes(st, p, n) == [b \in 0 .. n - 1 |-> Read(st, p, b)]
Lane(st, p, l, n) == Bytes(st, Elem(p, l, n), n)

\* Store t is store st but for the m bytes at d.
Frame(st, t, d, m) ==
    /\ StoreOK(t)
    /\ \A f \in Files \ {d.file} : t[f] = st[f]
    /\ \A a \in Addresses(d.file) \ Span(d, m) : t[d.file][a] = st[d.file][a]

LEMMA FrameKept ==
    ASSUME NEW st, NEW t, NEW u, NEW d, NEW m, Frame(st, t, d, m), Frame(t, u, d, m)
    PROVE  Frame(st, u, d, m)
BY DEF Frame

LEMMA LaneOffsets ==
    ASSUME NEW n \in Widths, NEW L \in Nat, NEW l \in 0 .. L - 1
    PROVE  /\ n \in Nat \ {0} /\ L * n \in Nat /\ l * n \in Nat /\ l * n + n <= L * n
           /\ \A i \in 0 .. L - 1 : i # l => i * n + n <= l * n \/ l * n + n <= i * n
BY DEF Widths

LEMMA LaneFits ==
    ASSUME NEW n \in Widths, NEW L \in Nat, NEW l \in 0 .. L - 1, NEW p, Fits(p, L * n)
    PROVE  /\ Elem(p, l, n).file = p.file /\ Elem(p, l, n).at = p.at + l * n
           /\ Fits(Elem(p, l, n), n)
           /\ Span(Elem(p, l, n), n) \subseteq Span(p, L * n)
<1>1. Elem(p, l, n).file = p.file /\ Elem(p, l, n).at = p.at + l * n
  BY DEF Elem, At
<1>2. n \in Nat \ {0} /\ L * n \in Nat /\ l * n \in Nat /\ l * n + n <= L * n
  BY LaneOffsets
<1>3. p.at \in Int /\ p.file \in Files /\ Span(p, L * n) \subseteq Addresses(p.file)
  BY DEF Fits
<1>4. Span(Elem(p, l, n), n) \subseteq Span(p, L * n)
  BY <1>1, <1>2, <1>3 DEF Span
<1> QED
  BY <1>1, <1>2, <1>3, <1>4 DEF Fits

\* A copy to lane i of d.
LEMMA LaneMoved ==
    ASSUME NEW n, NEW L, NEW d, NEW s, Laned(d, s, L, n), NEW st, StoreOK(st),
           NEW i \in 0 .. L - 1, NEW p, NEW t, t = Moved(st, Copy(Elem(d, i, n), p, n))
    PROVE  /\ Frame(st, t, d, L * n)
           /\ Lane(t, d, i, n) = Bytes(st, p, n)
           /\ \A l \in 0 .. L - 1 : l # i => Lane(t, d, l, n) = Lane(st, d, l, n)
           /\ s # d => \A l \in 0 .. L - 1 : Lane(t, s, l, n) = Lane(st, s, l, n)
<1> DEFINE e == Elem(d, i, n)
           new == Bytes(st, p, n)
<1>0. n \in Widths /\ L \in Nat /\ Fits(d, L * n) /\ Fits(s, L * n)
  BY DEF Laned
<1>1. e.file = d.file /\ e.at = d.at + i * n /\ Fits(e, n) /\ Span(e, n) \subseteq Span(d, L * n)
  BY <1>0, LaneFits
<1>2. \A b \in 0 .. n - 1 : new[b] = Read(st, p, b)
  BY DEF Bytes
<1> HIDE DEF e
<1>3. Put(st, t, e, n, new)
  <2> HIDE DEF new
  <2> QED
    BY <1>1, <1>2, CopyPuts DEF e
<1>4. Frame(st, t, d, L * n)
  BY <1>1, <1>3 DEF Put, Frame
<1>5. Lane(t, d, i, n) = Bytes(st, p, n)
  <2>1. \A b \in 0 .. n - 1 : Read(t, e, b) = new[b]
    <3> HIDE DEF new
    <3> QED
      BY <1>1, <1>3, ReadWritten
  <2> QED
    BY <1>2, <2>1 DEF Lane, Bytes, e
<1>6. ASSUME NEW q, q \in {d, s}, NEW l \in 0 .. L - 1, q # d \/ l # i
      PROVE  Lane(t, q, l, n) = Lane(st, q, l, n)
  <2> DEFINE g == Elem(q, l, n)
  <2>1. g.file = q.file /\ g.at = q.at + l * n /\ Fits(g, n)
    BY <1>0, <1>6, LaneFits
  <2>2. g.file # e.file \/ g.at + n <= e.at \/ e.at + n <= g.at
    <3>1. /\ n \in Nat /\ L * n \in Nat /\ l * n \in Nat /\ i * n \in Nat
          /\ l * n + n <= L * n /\ i * n + n <= L * n
          /\ l # i => i * n + n <= l * n \/ l * n + n <= i * n
      BY <1>0, LaneOffsets
    <3>2. d.at \in Int /\ q.at \in Int
      BY <1>0, <1>6 DEF Fits
    <3>3. CASE q = d
      <4>1. l # i
        BY <1>6, <3>3
      <4> HIDE DEF g
      <4> QED
        BY <1>1, <2>1, <3>1, <3>2, <3>3, <4>1
    <3>4. CASE q # d
      <4>1. q.file # d.file \/ d.at + L * n <= q.at \/ q.at + L * n <= d.at
        BY <1>6, <3>4 DEF Laned, Apart
      <4> HIDE DEF g
      <4> QED
        BY <1>1, <2>1, <3>1, <3>2, <4>1
    <3> QED
      BY <3>3, <3>4
  <2>3. \A b \in 0 .. n - 1 : Read(t, g, b) = Read(st, g, b)
    <3> HIDE DEF g, new
    <3> QED
      BY <1>1, <1>3, <2>1, <2>2, ReadElsewhere
  <2> QED
    BY <2>3 DEF Lane, Bytes
<1> QED
  BY <1>4, <1>5, <1>6

LEMMA LaneOfByte ==
    ASSUME NEW n \in Widths, NEW L \in Nat, NEW b \in 0 .. L * n - 1
    PROVE  b \div n \in 0 .. L - 1 /\ b % n \in 0 .. n - 1 /\ b = (b \div n) * n + (b % n)
BY DEF Widths

LEMMA ReadLane ==
    ASSUME NEW st, NEW p, NEW l, NEW n, NEW b \in 0 .. n - 1
    PROVE  Lane(st, p, l, n)[b] = Read(st, Elem(p, l, n), b)
BY DEF Lane, Bytes

\* If every lane is what lane says the operand is gathered from there.
LEMMA GatheredBecomes ==
    ASSUME NEW n, NEW L, NEW d, NEW s, Laned(d, s, L, n), StoreOK(store),
           Frame(store, store', d, L * n), NEW lane,
           \A l \in 0 .. L - 1 : Lane(store', d, l, n) = Bytes(store, lane[l], n)
    PROVE  Becomes(d, L * n, Gathered(lane, L, n))
<1> DEFINE new == Gathered(lane, L, n)
<1>1. n \in Widths /\ L \in Nat /\ Fits(d, L * n)
  BY DEF Laned
<1>2. d.file \in Files /\ d.at \in Int /\ L * n \in Nat
  BY <1>1 DEF Fits
<1>3. ASSUME NEW b \in 0 .. L * n - 1
      PROVE  New(d, b) = new[b]
  <2> DEFINE l == b \div n
             c == b % n
  <2>1. l \in 0 .. L - 1 /\ c \in 0 .. n - 1 /\ b = l * n + c
    BY <1>1, LaneOfByte
  <2>2. new[b] = Read(store, lane[l], c)
    BY DEF Gathered, Old
  <2> HIDE DEF l, c, new
  <2>3. Lane(store', d, l, n)[c] = Read(store, lane[l], c)
    BY <2>1 DEF Bytes
  <2>4. Lane(store', d, l, n)[c] = Read(store', Elem(d, l, n), c)
    BY <2>1, ReadLane
  <2>5. Elem(d, l, n).file = d.file /\ Elem(d, l, n).at = d.at + l * n
    BY DEF Elem, At
  <2>6. Read(store', Elem(d, l, n), c) = store'[d.file][(d.at + l * n) + c]
    BY <1>2, <2>5, PlaceRead
  <2>7. (d.at + l * n) + c = d.at + b
    <3>1. l * n \in Nat
      BY <1>1, <2>1, LaneOffsets
    <3> QED
      BY <1>1, <1>2, <2>1, <3>1
  <2>8. New(d, b) = store'[d.file][d.at + b]
    BY <1>2, PlaceRead DEF New
  <2> QED
    BY <2>2, <2>3, <2>4, <2>6, <2>7, <2>8
<1>4. \A f \in Files : Kept(f, IF f = d.file THEN Span(d, L * n) ELSE {})
  BY <1>2 DEF Kept, Frame, StoreOK
<1> QED
  BY <1>3, <1>4 DEF Becomes

LEMMA FrameTyped ==
    ASSUME TypeOK, NEW op, NEW d, NEW s, NEW n, NEW copies, op # "STOS",
           Executes(op, d, s, n, copies),
           NEW p, NEW m, p.file # "tmp", Fits(p, m), Frame(store, store', p, m)
    PROVE  MovesInv'
<1> DEFINE new == [b \in 0 .. m - 1 |-> Read(store', p, b)]
<1>1. p.file \in Files /\ p.at \in Int /\ m \in Nat
  BY DEF Fits
<1>2. ASSUME NEW a \in Addresses(p.file)
      PROVE  store'[p.file][a] = IF a \in Span(p, m) THEN new[a - p.at] ELSE store[p.file][a]
  <2>1. CASE a \in Span(p, m)
    <3>1. a - p.at \in 0 .. m - 1 /\ p.at + (a - p.at) = a
      BY <1>1, <2>1 DEF Span
    <3>2. new[a - p.at] = Read(store', p, a - p.at)
      BY <3>1
    <3>3. Read(store', p, a - p.at) = store'[p.file][p.at + (a - p.at)]
      BY <1>1, PlaceRead
    <3> QED
      BY <2>1, <3>1, <3>2, <3>3
  <2>2. CASE a \notin Span(p, m)
    BY <1>2, <2>2 DEF Frame
  <2> QED
    BY <2>1, <2>2
<1>3. Put(store, store', p, m, new)
  <2> HIDE DEF new
  <2> QED
    BY <1>2 DEF Frame, Put
<1> HIDE DEF new
<1> QED
  BY <1>3, PutTyped

\* The first lane of an operand starts where the operand does.
LEMMA FirstLane ==
    ASSUME NEW st, NEW p, NEW n \in Nat, p.file \in Files, p.at \in Int
    PROVE  Lane(st, p, 0, n) = Bytes(st, p, n)
<1>1. \A b \in 0 .. n - 1 : Read(st, Elem(p, 0, n), b) = Read(st, p, b)
  <2>1. Elem(p, 0, n).file = p.file /\ Elem(p, 0, n).at = p.at + 0 * n
    BY DEF Elem, At
  <2>2. ASSUME NEW b \in 0 .. n - 1
        PROVE  (p.at + 0 * n) + b = p.at + b
    OBVIOUS
  <2> QED
    BY <2>1, <2>2, PlaceRead
<1> QED
  BY <1>1 DEF Lane, Bytes

\* dest->ud[b] = src->ud[i], and dest->ud[a] the same.
LEMMA BothMoved ==
    ASSUME NEW n, NEW L, NEW d, NEW s, Laned(d, s, L, n), NEW st, StoreOK(st),
           NEW a \in 0 .. L - 1, NEW b \in 0 .. L - 1, NEW i \in 0 .. L - 1, a # b,
           NEW m1, NEW m2, <<m1, m2>> = Both(d, a, b, s, i, n),
           NEW t, t = Moved(Moved(st, m1), m2)
    PROVE  /\ Frame(st, t, d, L * n)
           /\ Lane(t, d, a, n) = Lane(st, s, i, n) /\ Lane(t, d, b, n) = Lane(st, s, i, n)
           /\ \A l \in 0 .. L - 1 : l # a /\ l # b => Lane(t, d, l, n) = Lane(st, d, l, n)
           /\ s # d => \A l \in 0 .. L - 1 : Lane(t, s, l, n) = Lane(st, s, l, n)
<1>1. m1 = Copy(Elem(d, b, n), Elem(s, i, n), n) /\ m2 = Copy(Elem(d, a, n), Elem(d, b, n), n)
  BY DEF Both
<1>2. PICK u : u = Moved(st, m1)
  OBVIOUS
<1>3. /\ Frame(st, u, d, L * n)
      /\ Lane(u, d, b, n) = Lane(st, s, i, n)
      /\ \A l \in 0 .. L - 1 : l # b => Lane(u, d, l, n) = Lane(st, d, l, n)
      /\ s # d => \A l \in 0 .. L - 1 : Lane(u, s, l, n) = Lane(st, s, l, n)
  BY <1>1, <1>2, LaneMoved DEF Lane
<1>4. StoreOK(u)
  BY <1>3 DEF Frame
<1>5. /\ Frame(u, t, d, L * n)
      /\ Lane(t, d, a, n) = Lane(u, d, b, n)
      /\ \A l \in 0 .. L - 1 : l # a => Lane(t, d, l, n) = Lane(u, d, l, n)
      /\ s # d => \A l \in 0 .. L - 1 : Lane(t, s, l, n) = Lane(u, s, l, n)
  BY <1>1, <1>2, <1>4, LaneMoved DEF Lane
<1>6. Frame(st, t, d, L * n)
  BY <1>3, <1>5, FrameKept
<1> QED
  BY <1>3, <1>5, <1>6

\* The lanes of a step of one of the operations that gather lanes.
LEMMA GatheredAgrees ==
    ASSUME TypeOK, NEW op, NEW d, NEW s, NEW n, NEW copies, Executes(op, d, s, n, copies), ~faulted',
           NEW L, Laned(d, s, L, n), d.file # "tmp", Frame(store, store', d, L * n),
           NEW lane, \A l \in 0 .. L - 1 : Lane(store', d, l, n) = Bytes(store, lane[l], n),
           \/ op = "MOVSLDUP" /\ L = 4
              /\ lane = [l \in 0 .. 3 |-> Elem(s, IF d = s THEN 0 ELSE l \div 2, 4)]
           \/ op = "MOVSHDUP" /\ L = 4 /\ lane = [l \in 0 .. 3 |-> Elem(s, 2 * (l \div 2) + 1, 4)]
           \/ op = "MOVDDUP" /\ L = 2 /\ lane = [l \in 0 .. 1 |-> s]
           \/ op \in {"MOVHLPS", "MOVHPD"} /\ L = 1 /\ lane = [l \in {0} |-> Elem(s, 1, 8)]
    PROVE  StepAgrees
<1>1. ins' = [op |-> op, d |-> d, s |-> s, n |-> n] /\ d # Null /\ s # Null
  BY ExecutesWhat
<1>2. Becomes(d, L * n, Gathered(lane, L, n))
  BY StoreFits, GatheredBecomes
<1>3. MovesInv'
  <2>1. Fits(d, L * n) /\ op # "STOS"
    BY DEF Laned
  <2> QED
    BY <2>1, FrameTyped
<1>4. MovesStep
  BY <1>1 DEF MovesStep
<1>5. LanesStep
  <2>1. CASE op = "MOVSLDUP" /\ L = 4
              /\ lane = [l \in 0 .. 3 |-> Elem(s, IF d = s THEN 0 ELSE l \div 2, 4)]
    BY <1>1, <1>2, <2>1 DEF LanesStep
  <2>2. CASE op = "MOVSHDUP" /\ L = 4 /\ lane = [l \in 0 .. 3 |-> Elem(s, 2 * (l \div 2) + 1, 4)]
    BY <1>1, <1>2, <2>2 DEF LanesStep
  <2>3. CASE op = "MOVDDUP" /\ L = 2 /\ lane = [l \in 0 .. 1 |-> s]
    BY <1>1, <1>2, <2>3 DEF LanesStep
  <2>4. CASE op \in {"MOVHLPS", "MOVHPD"} /\ L = 1 /\ lane = [l \in {0} |-> Elem(s, 1, 8)]
    BY <1>1, <1>2, <2>4 DEF LanesStep
  <2> QED
    BY <2>1, <2>2, <2>3, <2>4
<1> QED
  BY <1>3, <1>4, <1>5 DEF StepAgrees

\* MOVHLPS with two registers, and MOVHPD: the upper half of the operand.
LEMMA UpperHalfAgrees ==
    ASSUME TypeOK, NEW op \in {"MOVHLPS", "MOVHPD"}, NEW d, NEW s,
           Executes(op, d, s, 8, <<Copy(d, Elem(s, 1, 8), 8)>>), ~faulted',
           Fits(d, 8), Fits(s, 8), d.file # "tmp", s = d \/ Apart(d, s, 8), d = At(d.file, d.at)
    PROVE  StepAgrees
<1> DEFINE from == Elem(s, 1, 8)
           lane == [l \in {0} |-> Elem(s, 1, 8)]
<1>1. store' = Moved(store, Copy(d, from, 8))
  <2>1. store' = Run(store, <<Copy(d, from, 8)>>)
    BY ExecutesWhat
  <2> QED
    BY <2>1, RunOne
<1>2. Laned(d, s, 1, 8)
  BY DEF Laned, Widths
<1>3. Elem(d, 0, 8) = d
  <2>1. d.at + 0 * 8 = d.at
    BY DEF Fits
  <2> QED
    BY <2>1 DEF Elem
<1>4. Frame(store, store', d, 1 * 8) /\ Lane(store', d, 0, 8) = Bytes(store, from, 8)
  <2>1. 0 \in 0 .. 1 - 1 /\ store' = Moved(store, Copy(Elem(d, 0, 8), from, 8))
    BY <1>1, <1>3
  <2> HIDE DEF from
  <2> QED
    BY <1>2, <2>1, StoreFits, LaneMoved
<1>5. \A l \in 0 .. 1 - 1 : Lane(store', d, l, 8) = Bytes(store, lane[l], 8)
  BY <1>4
<1>6. PICK c, L, n, g : c = <<Copy(d, from, 8)>> /\ L = 1 /\ n = 8 /\ g = lane
  OBVIOUS
<1>7. Executes(op, d, s, n, c) /\ Laned(d, s, L, n) /\ Frame(store, store', d, L * n)
      /\ \A l \in 0 .. L - 1 : Lane(store', d, l, n) = Bytes(store, g[l], n)
  BY <1>2, <1>4, <1>5, <1>6
<1>8. op \in {"MOVHLPS", "MOVHPD"} /\ L = 1 /\ g = [l \in {0} |-> Elem(s, 1, 8)]
  BY <1>6
<1> HIDE DEF from, lane
<1> QED
  BY <1>7, <1>8, GatheredAgrees

LEMMA MovddupAgrees ==
    ASSUME TypeOK, NEW d, NEW s, Movddup(d, s), ~faulted',
           Laned(d, s, 2, 8), d.file # "tmp"
    PROVE  StepAgrees
<1> DEFINE lane == [l \in 0 .. 1 |-> s]
<1>1. PICK m1, m2 : <<m1, m2>> = Both(d, 0, 1, s, 0, 8)
  BY DEF Both
<1>2. Executes("MOVDDUP", d, s, 8, <<m1, m2>>)
  BY <1>1 DEF Movddup
<1>3. store' = Moved(Moved(store, m1), m2)
  <2>1. store' = Run(store, <<m1, m2>>)
    BY <1>2, ExecutesWhat
  <2> QED
    BY <2>1, RunTwo
<1>4. /\ Frame(store, store', d, 2 * 8)
      /\ Lane(store', d, 0, 8) = Lane(store, s, 0, 8) /\ Lane(store', d, 1, 8) = Lane(store, s, 0, 8)
  <2>1. 0 \in 0 .. 2 - 1 /\ 1 \in 0 .. 2 - 1 /\ 0 # 1
    OBVIOUS
  <2> QED
    BY <1>1, <1>3, <2>1, StoreFits, BothMoved
<1>5. Lane(store, s, 0, 8) = Bytes(store, s, 8)
  BY FirstLane DEF Laned, Fits
<1>6. \A l \in 0 .. 2 - 1 : Lane(store', d, l, 8) = Bytes(store, lane[l], 8)
  <2>1. \A l \in 0 .. 2 - 1 : (l = 0 \/ l = 1) /\ lane[l] = s
    OBVIOUS
  <2> HIDE DEF lane
  <2> QED
    BY <1>4, <1>5, <2>1
<1>7. PICK op, c, L, n, g : op = "MOVDDUP" /\ c = <<m1, m2>> /\ L = 2 /\ n = 8 /\ g = lane
  OBVIOUS
<1>8. Executes(op, d, s, n, c) /\ Laned(d, s, L, n) /\ Frame(store, store', d, L * n)
      /\ \A l \in 0 .. L - 1 : Lane(store', d, l, n) = Bytes(store, g[l], n)
  BY <1>2, <1>4, <1>6, <1>7
<1>9. op = "MOVDDUP" /\ L = 2 /\ g = [l \in 0 .. 1 |-> s]
  BY <1>7
<1> HIDE DEF lane
<1> QED
  BY <1>8, <1>9, GatheredAgrees

LEMMA MovldupsAgree ==
    ASSUME TypeOK, NEW d, NEW s, NEW op, NEW i, NEW j,
           \/ op = "MOVSLDUP" /\ i = 0 /\ j = 1
           \/ op = "MOVSHDUP" /\ i = 1 /\ j = 3,
           Executes(op, d, s, 4, Both(d, 0, 1, s, i, 4) \o Both(d, 2, 3, s, j, 4)),
           ~faulted', Laned(d, s, 4, 4), d.file # "tmp"
    PROVE  StepAgrees
<1>1. PICK m1, m2, m3, m4 : <<m1, m2>> = Both(d, 0, 1, s, i, 4) /\ <<m3, m4>> = Both(d, 2, 3, s, j, 4)
  BY DEF Both
<1>2. Executes(op, d, s, 4, <<m1, m2, m3, m4>>)
  BY <1>1, JoinedTwos
<1>3. PICK u : u = Moved(Moved(store, m1), m2) /\ store' = Moved(Moved(u, m3), m4)
  <2>1. store' = Run(store, <<m1, m2, m3, m4>>)
    BY <1>2, ExecutesWhat
  <2> QED
    BY <2>1, RunFour
<1>4. /\ Frame(store, u, d, 4 * 4)
      /\ Lane(u, d, 0, 4) = Lane(store, s, i, 4) /\ Lane(u, d, 1, 4) = Lane(store, s, i, 4)
      /\ \A l \in 0 .. 4 - 1 : l # 0 /\ l # 1 => Lane(u, d, l, 4) = Lane(store, d, l, 4)
      /\ s # d => \A l \in 0 .. 4 - 1 : Lane(u, s, l, 4) = Lane(store, s, l, 4)
  <2>1. 0 \in 0 .. 4 - 1 /\ 1 \in 0 .. 4 - 1 /\ 0 # 1 /\ i \in 0 .. 4 - 1
    OBVIOUS
  <2> QED
    BY <1>1, <1>3, <2>1, StoreFits, BothMoved
<1>5. /\ Frame(u, store', d, 4 * 4)
      /\ Lane(store', d, 2, 4) = Lane(u, s, j, 4) /\ Lane(store', d, 3, 4) = Lane(u, s, j, 4)
      /\ \A l \in 0 .. 4 - 1 : l # 2 /\ l # 3 => Lane(store', d, l, 4) = Lane(u, d, l, 4)
  <2>1. 2 \in 0 .. 4 - 1 /\ 3 \in 0 .. 4 - 1 /\ 2 # 3 /\ j \in 0 .. 4 - 1
    OBVIOUS
  <2>2. StoreOK(u)
    BY <1>4 DEF Frame
  <2> QED
    BY <1>1, <1>3, <2>1, <2>2, BothMoved
<1>6. Frame(store, store', d, 4 * 4)
  BY <1>4, <1>5, FrameKept
<1> DEFINE k == IF d = s /\ j = 1 THEN i ELSE j
<1>7. Lane(u, s, j, 4) = Lane(store, s, k, 4)
  <2>1. CASE d = s /\ j = 1
    BY <1>4, <2>1
  <2>2. CASE d = s /\ j # 1
    <3>1. j = 3 /\ 3 \in 0 .. 4 - 1
      BY <2>2
    <3> QED
      BY <1>4, <2>2, <3>1
  <2>3. CASE d # s
    <3>1. j \in 0 .. 4 - 1
      OBVIOUS
    <3> QED
      BY <1>4, <2>3, <3>1
  <2> QED
    BY <2>1, <2>2, <2>3
<1>8. /\ Lane(store', d, 0, 4) = Lane(store, s, i, 4) /\ Lane(store', d, 1, 4) = Lane(store, s, i, 4)
      /\ Lane(store', d, 2, 4) = Lane(store, s, k, 4) /\ Lane(store', d, 3, 4) = Lane(store, s, k, 4)
  <2>1. 0 \in 0 .. 4 - 1 /\ 1 \in 0 .. 4 - 1
    OBVIOUS
  <2> QED
    BY <1>4, <1>5, <1>7, <2>1
<1> DEFINE lane == IF op = "MOVSLDUP" THEN [l \in 0 .. 3 |-> Elem(s, IF d = s THEN 0 ELSE l \div 2, 4)]
                   ELSE [l \in 0 .. 3 |-> Elem(s, 2 * (l \div 2) + 1, 4)]
<1>9. /\ lane[0] = Elem(s, i, 4) /\ lane[1] = Elem(s, i, 4)
      /\ lane[2] = Elem(s, k, 4) /\ lane[3] = Elem(s, k, 4)
  <2>1. 0 \div 2 = 0 /\ 1 \div 2 = 0 /\ 2 \div 2 = 1 /\ 3 \div 2 = 1
    OBVIOUS
  <2>2. CASE op = "MOVSLDUP"
    BY <2>1, <2>2
  <2>3. CASE op = "MOVSHDUP"
    BY <2>1, <2>3
  <2> QED
    BY <2>2, <2>3
<1>10. \A l \in 0 .. 4 - 1 : Lane(store', d, l, 4) = Bytes(store, lane[l], 4)
  <2>1. \A l \in 0 .. 4 - 1 : l = 0 \/ l = 1 \/ l = 2 \/ l = 3
    OBVIOUS
  <2> HIDE DEF lane, k
  <2> QED
    BY <1>8, <1>9, <2>1 DEF Lane
<1>11. PICK c, L, n, g : c = <<m1, m2, m3, m4>> /\ L = 4 /\ n = 4 /\ g = lane
  OBVIOUS
<1>12. Executes(op, d, s, n, c) /\ Laned(d, s, L, n) /\ Frame(store, store', d, L * n)
       /\ \A l \in 0 .. L - 1 : Lane(store', d, l, n) = Bytes(store, g[l], n)
  <2> HIDE DEF lane
  <2> QED
    BY <1>2, <1>6, <1>10, <1>11
<1>13. \/ op = "MOVSLDUP" /\ L = 4 /\ g = [l \in 0 .. 3 |-> Elem(s, IF d = s THEN 0 ELSE l \div 2, 4)]
       \/ op = "MOVSHDUP" /\ L = 4 /\ g = [l \in 0 .. 3 |-> Elem(s, 2 * (l \div 2) + 1, 4)]
  BY <1>11
<1> HIDE DEF lane, k
<1> QED
  BY <1>12, <1>13, GatheredAgrees

-----------------------------------------------------------------------------
(* Interleaves: copy k writes lane k - 1. *)

\* After k copies of a high interleave: the lanes written are what they are
\* to be, and those still to be read are as they were.
HighDone(t, d, s, L, n, k) ==
    /\ Frame(store, t, d, L * n)
    /\ \A l \in 0 .. L - 1 :
          Lane(t, d, l, n) = IF l < k THEN Lane(store, IF l % 2 = 0 THEN d ELSE s, (l + L) \div 2, n)
                             ELSE Lane(store, d, l, n)
    /\ s # d => \A l \in 0 .. L - 1 : Lane(t, s, l, n) = Lane(store, s, l, n)

LEMMA HalfOf ==
    ASSUME NEW times \in Nat, NEW k \in 1 .. 2 * times
    PROVE  /\ k - 1 \in 0 .. 2 * times - 1
           /\ (k - 1) \div 2 + times \in k - 1 .. 2 * times - 1
           /\ ((k - 1) + 2 * times) \div 2 = (k - 1) \div 2 + times
           /\ (k - 1) \div 2 \in 0 .. k - 1 /\ (k > 1 => (k - 1) \div 2 < k - 1)
           /\ (k % 2 = 1) <=> ((k - 1) % 2 = 0)
           /\ (k % 2 = 1) <=> ((k - 1) % 2 # 1)
OBVIOUS

LEMMA HighNext ==
    ASSUME NEW times \in Nat, NEW L, L = 2 * times, NEW n, NEW d, NEW s, Laned(d, s, L, n),
           NEW k \in 1 .. L, NEW t, HighDone(t, d, s, L, n, k - 1), NEW u,
           u = Moved(t, Copy(Elem(d, k - 1, n),
                             Elem(IF k % 2 = 1 THEN d ELSE s, (k - 1) \div 2 + times, n), n))
    PROVE  HighDone(u, d, s, L, n, k)
<1> DEFINE i == k - 1
           j == (k - 1) \div 2 + times
           q == IF k % 2 = 1 THEN d ELSE s
<1>1. /\ i \in 0 .. L - 1 /\ j \in i .. L - 1 /\ (i + L) \div 2 = j /\ j \in 0 .. L - 1
      /\ q = IF i % 2 = 0 THEN d ELSE s
  <2>1. k \in 1 .. 2 * times
    OBVIOUS
  <2> QED
    BY <2>1, HalfOf
<1>2. u = Moved(t, Copy(Elem(d, i, n), Elem(q, j, n), n))
  OBVIOUS
<1>3. k \in Nat /\ i \in Nat /\ k = i + 1
  OBVIOUS
<1> HIDE DEF i, j, q
<1>4. StoreOK(t)
  BY DEF HighDone, Frame
<1>5. /\ Frame(t, u, d, L * n)
      /\ Lane(u, d, i, n) = Lane(t, q, j, n)
      /\ \A l \in 0 .. L - 1 : l # i => Lane(u, d, l, n) = Lane(t, d, l, n)
      /\ s # d => \A l \in 0 .. L - 1 : Lane(u, s, l, n) = Lane(t, s, l, n)
  BY <1>1, <1>2, <1>4, LaneMoved DEF Lane
<1>6. /\ Frame(store, t, d, L * n)
      /\ \A l \in 0 .. L - 1 :
            Lane(t, d, l, n) = IF l < i THEN Lane(store, IF l % 2 = 0 THEN d ELSE s, (l + L) \div 2, n)
                               ELSE Lane(store, d, l, n)
      /\ s # d => \A l \in 0 .. L - 1 : Lane(t, s, l, n) = Lane(store, s, l, n)
  BY DEF HighDone, i
<1>7. Lane(t, q, j, n) = Lane(store, q, j, n)
  <2>1. CASE q = d
    <3>1. ~(j < i)
      BY <1>1, <1>3
    <3> QED
      BY <1>1, <1>6, <2>1, <3>1
  <2>2. CASE q # d
    <3>1. q = s /\ s # d
      BY <1>1, <2>2
    <3> QED
      BY <1>1, <1>6, <3>1
  <2> QED
    BY <2>1, <2>2
<1>8. Frame(store, u, d, L * n)
  BY <1>5, <1>6, FrameKept
<1>9. ASSUME NEW l \in 0 .. L - 1
      PROVE  Lane(u, d, l, n) = IF l < k THEN Lane(store, IF l % 2 = 0 THEN d ELSE s, (l + L) \div 2, n)
                                ELSE Lane(store, d, l, n)
  <2>1. CASE l = i
    <3>1. l < k
      BY <1>3, <2>1
    <3>2. Lane(u, d, l, n) = Lane(store, q, j, n)
      BY <1>5, <1>7, <2>1
    <3> QED
      BY <1>1, <2>1, <3>1, <3>2
  <2>2. CASE l # i
    <3>1. (l < k) <=> (l < i)
      BY <1>3, <2>2
    <3> QED
      BY <1>5, <1>6, <2>2, <3>1
  <2> QED
    BY <2>1, <2>2
<1>10. s # d => \A l \in 0 .. L - 1 : Lane(u, s, l, n) = Lane(store, s, l, n)
  BY <1>5, <1>6
<1> QED
  BY <1>8, <1>9, <1>10 DEF HighDone

LEMMA HighInterleaved ==
    ASSUME TypeOK, NEW times \in Nat, NEW L, L = 2 * times, NEW n, NEW d, NEW s, Laned(d, s, L, n),
           NEW a, a[0] = store,
           \A k \in 1 .. L :
              a[k] = Moved(a[k - 1],
                           Copy(Elem(d, k - 1, n),
                                Elem(IF k % 2 = 1 THEN d ELSE s, (k - 1) \div 2 + times, n), n))
    PROVE  HighDone(a[L], d, s, L, n, L)
<1> DEFINE T == {k \in 0 .. L : HighDone(a[k], d, s, L, n, k)}
<1>0. L \in Nat
  OBVIOUS
<1>1. 0 \in T
  <2>1. \A l \in 0 .. L - 1 : ~(l < 0)
    BY <1>0
  <2>2. HighDone(a[0], d, s, L, n, 0)
    BY <2>1, StoreFits DEF HighDone, Frame
  <2> QED
    BY <1>0, <2>2
<1>2. ASSUME NEW k \in 1 .. L, k - 1 \in T
      PROVE  k \in T
  <2>1. HighDone(a[k - 1], d, s, L, n, k - 1)
    BY <1>2
  <2>2. HighDone(a[k], d, s, L, n, k)
    BY <2>1, HighNext
  <2> QED
    BY <1>0, <2>2
<1>3. L \in T
  <2> HIDE DEF T
  <2>1. 0 .. L \subseteq T
    BY <1>0, <1>1, <1>2, UpTo
  <2> QED
    BY <1>0, <2>1
<1> QED
  BY <1>3

\* After k copies of a low interleave: an even lane repeats the lane of half
\* its number, an odd one is that lane of the source, lane 0 is as it was.
LowDone(t, d, s, L, n, k) ==
    /\ Frame(store, t, d, L * n)
    /\ \A l \in 0 .. L - 1 : (l = 0 \/ l >= k) => Lane(t, d, l, n) = Lane(store, d, l, n)
    /\ \A l \in 1 .. L - 1 : l < k /\ l % 2 = 0 => Lane(t, d, l, n) = Lane(t, d, l \div 2, n)
    /\ \A l \in 1 .. L - 1 : l < k /\ l % 2 = 1 =>
          Lane(t, d, l, n) = IF d = s THEN Lane(store, s, 0, n) ELSE Lane(store, s, l \div 2, n)
    /\ d = s => \A l \in 0 .. L - 1 : l < k => Lane(t, d, l, n) = Lane(store, d, 0, n)
    /\ s # d => \A l \in 0 .. L - 1 : Lane(t, s, l, n) = Lane(store, s, l, n)

LEMMA LowNext ==
    ASSUME NEW times \in Nat, NEW L, L = 2 * times, NEW n, NEW d, NEW s, Laned(d, s, L, n),
           NEW k \in 1 .. L, NEW t, LowDone(t, d, s, L, n, k - 1), NEW u,
           u = Moved(t, Copy(Elem(d, k - 1, n), Elem(IF k % 2 = 1 THEN d ELSE s, (k - 1) \div 2, n), n))
    PROVE  LowDone(u, d, s, L, n, k)
<1> DEFINE i == k - 1
           j == (k - 1) \div 2
           q == IF k % 2 = 1 THEN d ELSE s
<1>1. /\ i \in 0 .. L - 1 /\ j \in 0 .. i /\ j \in 0 .. L - 1 /\ i \div 2 = j /\ (i > 0 => j < i)
      /\ q = IF i % 2 = 1 THEN s ELSE d
  <2>1. k \in 1 .. 2 * times
    OBVIOUS
  <2> QED
    BY <2>1, HalfOf
<1>2. u = Moved(t, Copy(Elem(d, i, n), Elem(q, j, n), n))
  OBVIOUS
<1>3. k \in Nat /\ i \in Nat /\ k = i + 1 /\ L \in Nat
  OBVIOUS
<1>6. /\ Frame(store, t, d, L * n)
      /\ \A l \in 0 .. L - 1 : (l = 0 \/ l >= i) => Lane(t, d, l, n) = Lane(store, d, l, n)
      /\ \A l \in 1 .. L - 1 : l < i /\ l % 2 = 0 => Lane(t, d, l, n) = Lane(t, d, l \div 2, n)
      /\ \A l \in 1 .. L - 1 : l < i /\ l % 2 = 1 =>
            Lane(t, d, l, n) = IF d = s THEN Lane(store, s, 0, n) ELSE Lane(store, s, l \div 2, n)
      /\ d = s => \A l \in 0 .. L - 1 : l < i => Lane(t, d, l, n) = Lane(store, d, 0, n)
      /\ s # d => \A l \in 0 .. L - 1 : Lane(t, s, l, n) = Lane(store, s, l, n)
  BY DEF LowDone
<1> HIDE DEF i, j, q
<1>4. StoreOK(t)
  BY <1>6 DEF Frame
<1>5. /\ Frame(t, u, d, L * n)
      /\ Lane(u, d, i, n) = Lane(t, q, j, n)
      /\ \A l \in 0 .. L - 1 : l # i => Lane(u, d, l, n) = Lane(t, d, l, n)
      /\ s # d => \A l \in 0 .. L - 1 : Lane(u, s, l, n) = Lane(t, s, l, n)
  BY <1>1, <1>2, <1>4, LaneMoved DEF Lane
<1>8. Frame(store, u, d, L * n)
  BY <1>5, <1>6, FrameKept
<1>9. ASSUME NEW l \in 0 .. L - 1, l = 0 \/ l >= k
      PROVE  Lane(u, d, l, n) = Lane(store, d, l, n)
  <2>1. CASE l = i
    <3>1. l = 0 /\ i = 0 /\ j = 0 /\ q = d
      <4>1. l = 0 /\ i = 0
        BY <1>3, <1>9, <2>1
      <4> QED
        BY <1>1, <4>1
    <3> QED
      BY <1>1, <1>5, <1>6, <3>1
  <2>2. CASE l # i
    <3>1. l = 0 \/ l >= i
      BY <1>3, <1>9
    <3> QED
      BY <1>5, <1>6, <2>2, <3>1
  <2> QED
    BY <2>1, <2>2
<1>10. ASSUME NEW l \in 1 .. L - 1, l < k, l % 2 = 0
       PROVE  Lane(u, d, l, n) = Lane(u, d, l \div 2, n)
  <2>1. l \in 0 .. L - 1 /\ l \div 2 \in 0 .. L - 1 /\ l \div 2 < l /\ l \in Nat /\ l > 0
    BY <1>3, <1>10
  <2>2. l \div 2 # i
    BY <1>3, <1>10, <2>1
  <2>3. Lane(u, d, l \div 2, n) = Lane(t, d, l \div 2, n)
    BY <1>5, <2>1, <2>2
  <2>4. CASE l = i
    <3>1. q = d /\ j = l \div 2
      BY <1>1, <1>10, <2>4
    <3> QED
      BY <1>5, <2>3, <2>4, <3>1
  <2>5. CASE l # i
    <3>1. l < i
      BY <1>3, <1>10, <2>1, <2>5
    <3>2. Lane(t, d, l, n) = Lane(t, d, l \div 2, n)
      BY <1>6, <1>10, <3>1
    <3> QED
      BY <1>5, <2>1, <2>3, <2>5, <3>2
  <2> QED
    BY <2>4, <2>5
<1>11. d = s => Lane(t, q, j, n) = Lane(store, d, 0, n)
  <2> SUFFICES ASSUME d = s PROVE Lane(t, q, j, n) = Lane(store, d, 0, n)
    OBVIOUS
  <2>1. q = d
    BY <1>1
  <2>2. CASE j = 0
    BY <1>1, <1>6, <2>1, <2>2
  <2>3. CASE j # 0
    <3>1. j < i
      BY <1>1, <1>3, <2>3
    <3> QED
      BY <1>1, <1>6, <2>1, <3>1
  <2> QED
    BY <2>2, <2>3
<1>12. ASSUME NEW l \in 1 .. L - 1, l < k, l % 2 = 1
       PROVE  Lane(u, d, l, n) = IF d = s THEN Lane(store, s, 0, n) ELSE Lane(store, s, l \div 2, n)
  <2>1. l \in 0 .. L - 1
    BY <1>3, <1>12
  <2>4. CASE l = i
    <3>1. q = s /\ j = l \div 2
      BY <1>1, <1>12, <2>4
    <3>2. CASE d = s
      BY <1>5, <1>11, <2>4, <3>2
    <3>3. CASE d # s
      BY <1>1, <1>5, <1>6, <2>4, <3>1, <3>3
    <3> QED
      BY <3>2, <3>3
  <2>5. CASE l # i
    <3>1. l < i
      BY <1>3, <1>12, <2>1, <2>5
    <3> QED
      BY <1>5, <1>6, <1>12, <2>1, <2>5, <3>1
  <2> QED
    BY <2>4, <2>5
<1>13. ASSUME d = s, NEW l \in 0 .. L - 1, l < k
       PROVE  Lane(u, d, l, n) = Lane(store, d, 0, n)
  <2>4. CASE l = i
    BY <1>5, <1>11, <1>13, <2>4
  <2>5. CASE l # i
    <3>1. l < i
      BY <1>3, <1>13, <2>5
    <3> QED
      BY <1>5, <1>6, <1>13, <2>5, <3>1
  <2> QED
    BY <2>4, <2>5
<1>14. s # d => \A l \in 0 .. L - 1 : Lane(u, s, l, n) = Lane(store, s, l, n)
  BY <1>5, <1>6
<1> QED
  BY <1>8, <1>9, <1>10, <1>12, <1>13, <1>14 DEF LowDone

LEMMA LowInterleaved ==
    ASSUME TypeOK, NEW times \in Nat, NEW L, L = 2 * times, NEW n, NEW d, NEW s, Laned(d, s, L, n),
           NEW a, a[0] = store,
           \A k \in 1 .. L :
              a[k] = Moved(a[k - 1],
                           Copy(Elem(d, k - 1, n), Elem(IF k % 2 = 1 THEN d ELSE s, (k - 1) \div 2, n), n))
    PROVE  LowDone(a[L], d, s, L, n, L)
<1> DEFINE T == {k \in 0 .. L : LowDone(a[k], d, s, L, n, k)}
<1>0. L \in Nat
  OBVIOUS
<1>1. 0 \in T
  <2>1. \A l \in 0 .. L - 1 : ~(l < 0)
    BY <1>0
  <2>2. \A l \in 1 .. L - 1 : ~(l < 0)
    BY <1>0
  <2>3. LowDone(a[0], d, s, L, n, 0)
    BY <2>1, <2>2, StoreFits DEF LowDone, Frame
  <2> QED
    BY <1>0, <2>3
<1>2. ASSUME NEW k \in 1 .. L, k - 1 \in T
      PROVE  k \in T
  <2>1. LowDone(a[k - 1], d, s, L, n, k - 1)
    BY <1>2
  <2>2. LowDone(a[k], d, s, L, n, k)
    BY <2>1, LowNext
  <2> QED
    BY <1>0, <2>2
<1>3. L \in T
  <2> HIDE DEF T
  <2>1. 0 .. L \subseteq T
    BY <1>0, <1>1, <1>2, UpTo
  <2> QED
    BY <1>0, <2>1
<1> QED
  BY <1>3

\* The stores a high, or a low, interleave of L lanes passes through.
HighSteps(a, st, d, s, n, times, L) ==
    /\ a[0] = st
    /\ \A k \in 1 .. L :
          a[k] = Moved(a[k - 1],
                       Copy(Elem(d, k - 1, n), Elem(IF k % 2 = 1 THEN d ELSE s, (k - 1) \div 2 + times, n), n))

LEMMA HighTrace ==
    ASSUME NEW st, NEW d, NEW s, NEW n, NEW times \in Nat, NEW L \in Nat, L = 2 * times
    PROVE  \E a : HighSteps(a, st, d, s, n, times, L) /\ Run(st, InterleaveHigh(d, s, n, times)) = a[L]
<1>1. PICK c : c = InterleaveHigh(d, s, n, times)
  OBVIOUS
<1>2. Len(c) = L
  BY <1>1 DEF InterleaveHigh
<1>3. PICK a : Traced(a, st, c, L)
  BY <1>2, RunSteps
<1>4. \A k \in 1 .. L :
         c[k] = Copy(Elem(d, k - 1, n), Elem(IF k % 2 = 1 THEN d ELSE s, (k - 1) \div 2 + times, n), n)
  BY <1>1 DEF InterleaveHigh
<1>5. a[0] = st /\ (\A k \in 1 .. L : a[k] = Moved(a[k - 1], c[k])) /\ Run(st, c) = a[L]
  BY <1>3 DEF Traced
<1>6. HighSteps(a, st, d, s, n, times, L)
  BY <1>4, <1>5 DEF HighSteps
<1> QED
  BY <1>1, <1>5, <1>6

LowSteps(a, st, d, s, n, L) ==
    /\ a[0] = st
    /\ \A k \in 1 .. L :
          a[k] = Moved(a[k - 1],
                       Copy(Elem(d, k - 1, n), Elem(IF k % 2 = 1 THEN d ELSE s, (k - 1) \div 2, n), n))

LEMMA LowTrace ==
    ASSUME NEW st, NEW d, NEW s, NEW n, NEW times \in Nat, NEW L \in Nat, L = 2 * times
    PROVE  \E a : LowSteps(a, st, d, s, n, L) /\ Run(st, InterleaveLow(d, s, n, times)) = a[L]
<1>1. PICK c : c = InterleaveLow(d, s, n, times)
  OBVIOUS
<1>2. Len(c) = L
  BY <1>1 DEF InterleaveLow
<1>3. PICK a : Traced(a, st, c, L)
  BY <1>2, RunSteps
<1>4. \A k \in 1 .. L :
         c[k] = Copy(Elem(d, k - 1, n), Elem(IF k % 2 = 1 THEN d ELSE s, (k - 1) \div 2, n), n)
  BY <1>1 DEF InterleaveLow
<1>5. a[0] = st /\ (\A k \in 1 .. L : a[k] = Moved(a[k - 1], c[k])) /\ Run(st, c) = a[L]
  BY <1>3 DEF Traced
<1>6. LowSteps(a, st, d, s, n, L)
  BY <1>4, <1>5 DEF LowSteps
<1> QED
  BY <1>1, <1>5, <1>6

LEMMA PunpckhAgrees ==
    ASSUME TypeOK, NEW times \in Nat, NEW L \in Nat, L = 2 * times, NEW n, NEW d, NEW s,
           Laned(d, s, L, n), d.file # "tmp", (IF d.file = "xmm" THEN 16 ELSE 8) \div n = L,
           Punpckh(d, s, n, times), ~faulted'
    PROVE  StepAgrees
<1> DEFINE c == InterleaveHigh(d, s, n, times)
<1>2. Executes("UNPCKH", d, s, n, c)
  BY DEF Punpckh
<1> HIDE DEF c
<1>4. ins' = [op |-> "UNPCKH", d |-> d, s |-> s, n |-> n] /\ d # Null /\ s # Null /\ store' = Run(store, c)
  BY <1>2, ExecutesWhat
<1>5. PICK a : HighSteps(a, store, d, s, n, times, L) /\ Run(store, c) = a[L]
  BY HighTrace DEF c
<1>6. a[0] = store /\ \A k \in 1 .. L :
         a[k] = Moved(a[k - 1],
                      Copy(Elem(d, k - 1, n), Elem(IF k % 2 = 1 THEN d ELSE s, (k - 1) \div 2 + times, n), n))
  BY <1>5 DEF HighSteps
<1>7. HighDone(store', d, s, L, n, L)
  <2>1. HighDone(a[L], d, s, L, n, L)
    BY <1>6, HighInterleaved
  <2> QED
    BY <1>4, <1>5, <2>1
<1> DEFINE lane == [l \in 0 .. L - 1 |-> Elem(IF l % 2 = 0 THEN d ELSE s, (l + L) \div 2, n)]
<1>8. \A l \in 0 .. L - 1 : Lane(store', d, l, n) = Bytes(store, lane[l], n)
  <2> SUFFICES ASSUME NEW l \in 0 .. L - 1
               PROVE  Lane(store', d, l, n) = Bytes(store, lane[l], n)
    OBVIOUS
  <2>1. l < L
    OBVIOUS
  <2>2. Lane(store', d, l, n) = Lane(store, IF l % 2 = 0 THEN d ELSE s, (l + L) \div 2, n)
    BY <1>7, <2>1 DEF HighDone
  <2>3. lane[l] = Elem(IF l % 2 = 0 THEN d ELSE s, (l + L) \div 2, n)
    OBVIOUS
  <2> QED
    BY <2>2, <2>3 DEF Lane
<1>9. Frame(store, store', d, L * n)
  BY <1>7 DEF HighDone
<1>10. Becomes(d, L * n, Gathered(lane, L, n))
  <2> HIDE DEF lane
  <2> QED
    BY <1>8, <1>9, StoreFits, GatheredBecomes
<1>11. MovesInv'
  <2>1. Fits(d, L * n)
    BY DEF Laned
  <2> QED
    BY <1>2, <1>9, <2>1, FrameTyped
<1>12. MovesStep
  BY <1>4 DEF MovesStep
<1>13. LanesStep
  BY <1>4, <1>10 DEF LanesStep
<1> QED
  BY <1>11, <1>12, <1>13 DEF StepAgrees

LEMMA PunpcklAgrees ==
    ASSUME TypeOK, NEW times \in Nat \ {0}, NEW L \in Nat, L = 2 * times, NEW n, NEW d, NEW s,
           Laned(d, s, L, n), d.file # "tmp", (IF d.file = "xmm" THEN 16 ELSE 8) \div n = L,
           Punpckl(d, s, n, times), ~faulted'
    PROVE  StepAgrees
<1> DEFINE c == InterleaveLow(d, s, n, times)
<1>2. Executes("UNPCKL", d, s, n, c)
  BY DEF Punpckl
<1> HIDE DEF c
<1>4. ins' = [op |-> "UNPCKL", d |-> d, s |-> s, n |-> n] /\ d # Null /\ s # Null /\ store' = Run(store, c)
  BY <1>2, ExecutesWhat
<1>5. PICK a : LowSteps(a, store, d, s, n, L) /\ Run(store, c) = a[L]
  BY LowTrace DEF c
<1>6. a[0] = store /\ \A k \in 1 .. L :
         a[k] = Moved(a[k - 1],
                      Copy(Elem(d, k - 1, n), Elem(IF k % 2 = 1 THEN d ELSE s, (k - 1) \div 2, n), n))
  BY <1>5 DEF LowSteps
<1>7. LowDone(store', d, s, L, n, L)
  <2>1. LowDone(a[L], d, s, L, n, L)
    BY <1>6, LowInterleaved
  <2> QED
    BY <1>4, <1>5, <2>1
<1>8. /\ Frame(store, store', d, L * n)
      /\ Lane(store', d, 0, n) = Lane(store, d, 0, n)
      /\ \A l \in 1 .. L - 1 : l % 2 = 0 => Lane(store', d, l, n) = Lane(store', d, l \div 2, n)
      /\ \A l \in 1 .. L - 1 : l % 2 = 1 =>
            Lane(store', d, l, n) = IF d = s THEN Lane(store, s, 0, n) ELSE Lane(store, s, l \div 2, n)
  BY <1>7 DEF LowDone
<1>9. /\ n \in Nat /\ n \in Widths
      /\ d.file \in Files /\ d.at \in Int /\ s.file \in Files /\ s.at \in Int /\ Fits(d, L * n)
  BY DEF Laned, Fits, Widths
<1>10. Lane(store, s, 0, n) = Bytes(store, s, n) /\ Lane(store, d, 0, n) = Bytes(store, d, n)
       /\ Lane(store', d, 0, n) = Bytes(store', d, n)
  BY <1>9, FirstLane
<1>11. MovesInv'
  BY <1>2, <1>8, <1>9, FrameTyped
<1>12. MovesStep
  BY <1>4 DEF MovesStep
<1>13. CASE L = 2
  <2> DEFINE lane == [l \in 0 .. 1 |-> IF l = 0 THEN d ELSE s]
  <2>1. Lane(store', d, 0, n) = Bytes(store, d, n)
    BY <1>8, <1>10
  <2>2. Lane(store', d, 1, n) = Bytes(store, s, n)
    <3>1. 1 \in 1 .. L - 1 /\ 1 % 2 = 1 /\ 1 \div 2 = 0
      BY <1>13
    <3> QED
      BY <1>8, <1>10, <3>1
  <2>3. \A l \in 0 .. L - 1 : Lane(store', d, l, n) = Bytes(store, lane[l], n)
    <3>1. \A l \in 0 .. L - 1 : l = 0 \/ l = 1
      BY <1>13
    <3>2. lane[0] = d /\ lane[1] = s
      OBVIOUS
    <3> HIDE DEF lane
    <3> QED
      BY <2>1, <2>2, <3>1, <3>2
  <2>4. Becomes(d, L * n, Gathered(lane, L, n))
    <3> HIDE DEF lane
    <3> QED
      BY <1>8, <2>3, StoreFits, GatheredBecomes
  <2>5. LanesStep
    BY <1>4, <1>13, <2>4 DEF LanesStep
  <2> QED
    BY <1>11, <1>12, <2>5 DEF StepAgrees
<1>14. CASE L # 2
  <2>1. ASSUME NEW l \in 1 .. L - 1, l % 2 = 0, NEW b \in 0 .. n - 1
        PROVE  New(Elem(d, l, n), b) = New(Elem(d, l \div 2, n), b)
    <3>1. Lane(store', d, l, n) = Lane(store', d, l \div 2, n)
      BY <1>8, <2>1
    <3>2. New(Elem(d, l, n), b) = Lane(store', d, l, n)[b]
      BY ReadLane DEF New
    <3>3. New(Elem(d, l \div 2, n), b) = Lane(store', d, l \div 2, n)[b]
      BY ReadLane DEF New
    <3> QED
      BY <3>1, <3>2, <3>3
  <2>2. ASSUME NEW l \in 1 .. L - 1, l % 2 = 1, NEW b \in 0 .. n - 1
        PROVE  New(Elem(d, l, n), b) = IF d = s THEN Old(s, b) ELSE Old(Elem(s, l \div 2, n), b)
    <3>1. Lane(store', d, l, n) = IF d = s THEN Bytes(store, s, n) ELSE Lane(store, s, l \div 2, n)
      BY <1>8, <1>10, <2>2
    <3>2. New(Elem(d, l, n), b) = Lane(store', d, l, n)[b]
      BY ReadLane DEF New
    <3>3. Old(Elem(s, l \div 2, n), b) = Lane(store, s, l \div 2, n)[b]
      BY ReadLane DEF Old
    <3>4. Old(s, b) = Bytes(store, s, n)[b]
      BY DEF Bytes, Old
    <3> QED
      BY <3>1, <3>2, <3>3, <3>4
  <2>3. ASSUME NEW b \in 0 .. n - 1
        PROVE  New(d, b) = Old(d, b)
    <3>1. New(d, b) = Bytes(store', d, n)[b] /\ Old(d, b) = Bytes(store, d, n)[b]
      BY DEF Bytes, Old, New
    <3> QED
      BY <1>8, <1>10, <3>1
  <2>4. \A f \in Files : Kept(f, IF f = d.file THEN Span(d, L * n) ELSE {})
    BY <1>8, <1>9, StoreFits DEF Kept, Frame, StoreOK
  <2>5. LanesStep
    BY <1>4, <1>14, <2>1, <2>2, <2>3, <2>4 DEF LanesStep
  <2> QED
    BY <1>11, <1>12, <2>5 DEF StepAgrees
<1> QED
  BY <1>13, <1>14

-----------------------------------------------------------------------------
(* Every action of Next agrees with the reference.  A step that faults     *)
(* does by FaultAgrees; the places of the other operands are those of      *)
(* GprPlaces, XmmPlaces and MmxPlaces, which are for the widest operand.   *)

LEMMA ApartLess ==
    ASSUME NEW p, NEW q, NEW n \in Nat, NEW m \in Nat, m <= n, p.at \in Int, q.at \in Int, Apart(p, q, n)
    PROVE  Apart(p, q, m)
BY DEF Apart

LEMMA GprOperands ==
    ASSUME NEW r \in Gprs, NEW p \in RM(Gprs), p # Null, Mapped(p), NEW n \in Widths
    PROVE  /\ Fits(r, n) /\ Fits(p, n) /\ r.file # "tmp" /\ p.file # "tmp"
           /\ r = p \/ Apart(r, p, n)
           /\ r = p \/ Apart(p, r, n)
<1>1. n \in Nat /\ n <= 8
  BY DEF Widths
<1>2. /\ Fits(r, 8) /\ Fits(p, 8) /\ r.file # "tmp" /\ p.file # "tmp"
      /\ r = p \/ Apart(r, p, 8)
      /\ r = p \/ Apart(p, r, 8)
  BY GprPlaces
<1>3. Fits(r, n) /\ Fits(p, n)
  BY <1>1, <1>2, FitsLess
<1>4. r.at \in Int /\ p.at \in Int
  BY <1>2 DEF Fits
<1> QED
  BY <1>1, <1>2, <1>3, <1>4, ApartLess

LEMMA XmmOperands ==
    ASSUME NEW r \in Xmms, NEW p \in RM(Xmms), p # Null, Mapped(p), NEW n \in 0 .. 16
    PROVE  /\ Fits(r, n) /\ Fits(p, n) /\ r.file = "xmm" /\ p.file \in {"xmm", "mem"}
           /\ r = p \/ Apart(r, p, n)
           /\ r = p \/ Apart(p, r, n)
<1>1. /\ Fits(r, 16) /\ Fits(p, 16) /\ r.file = "xmm" /\ p.file \in {"xmm", "mem"}
      /\ r = p \/ Apart(r, p, 16)
      /\ r = p \/ Apart(p, r, 16)
  BY XmmPlaces
<1>2. Fits(r, n) /\ Fits(p, n)
  BY <1>1, FitsLess
<1>3. r.at \in Int /\ p.at \in Int
  BY <1>1 DEF Fits
<1> QED
  BY <1>1, <1>2, <1>3, ApartLess

LEMMA MmxOperands ==
    ASSUME NEW r \in Mmxs, NEW p \in RM(Mmxs), p # Null, Mapped(p), NEW n \in 0 .. 8
    PROVE  /\ Fits(r, n) /\ Fits(p, n) /\ r.file = "mmx" /\ p.file \in {"mmx", "mem"}
           /\ r = p \/ Apart(r, p, n)
           /\ r = p \/ Apart(p, r, n)
<1>1. /\ Fits(r, 8) /\ Fits(p, 8) /\ r.file = "mmx" /\ p.file \in {"mmx", "mem"}
      /\ r = p \/ Apart(r, p, 8)
      /\ r = p \/ Apart(p, r, 8)
  BY MmxPlaces
<1>2. Fits(r, n) /\ Fits(p, n)
  BY <1>1, FitsLess
<1>3. r.at \in Int /\ p.at \in Int
  BY <1>1 DEF Fits
<1> QED
  BY <1>1, <1>2, <1>3, ApartLess

\* MOV between a register and an r/m operand, both ways.
LEMMA MovsAgree ==
    ASSUME TypeOK, NEW r \in Gprs, NEW p \in RM(Gprs), NEW n \in Widths,
           NEW d, NEW s, \/ d = r /\ s = p
                         \/ d = p /\ s = r,
           Executes("MOV", d, s, n, <<Copy(d, s, n)>>)
    PROVE  StepAgrees
<1>1. CASE faulted'
  BY <1>1, FaultAgrees
<1>2. CASE ~faulted'
  <2>1. p # Null /\ Mapped(p)
    BY <1>2, ExecutesWhat
  <2>2. Fits(d, n) /\ d.file # "tmp"
    BY <2>1, GprOperands
  <2> QED
    BY <1>2, <2>2, MovAgrees
<1> QED
  BY <1>1, <1>2

\* A move to an operand of what is no place: an immediate or a bit.
LEMMA FixedAgrees ==
    ASSUME TypeOK, NEW p \in RM(Gprs), NEW n \in Widths, NEW s,
           Executes("MOV", p, s, n, <<Copy(p, s, n)>>)
    PROVE  StepAgrees
<1>1. CASE faulted'
  BY <1>1, FaultAgrees
<1>2. CASE ~faulted'
  <2>1. p # Null /\ Mapped(p)
    BY <1>2, ExecutesWhat
  <2>2. Rax \in Gprs
    BY DEF Gprs
  <2>3. Fits(p, n) /\ p.file # "tmp"
    BY <2>1, <2>2, GprOperands
  <2> QED
    BY <1>2, <2>3, MovAgrees
<1> QED
  BY <1>1, <1>2

LEMMA XchgsAgree ==
    ASSUME TypeOK, NEW r \in Gprs, NEW p \in RM(Gprs), NEW n \in Widths, Xchg(r, p, n)
    PROVE  StepAgrees
<1>0. PICK c : Executes("XCHG", r, p, n, c)
  BY DEF Xchg
<1>1. CASE faulted'
  BY <1>0, <1>1, FaultAgrees
<1>2. CASE ~faulted'
  <2>1. p # Null /\ Mapped(p)
    BY <1>0, <1>2, ExecutesWhat
  <2>2. /\ Fits(r, n) /\ Fits(p, n) /\ r.file # "tmp" /\ p.file # "tmp"
        /\ p = r \/ Apart(r, p, n)
    BY <2>1, GprOperands
  <2>3. n <= 8
    BY DEF Widths
  <2> QED
    BY <1>2, <2>2, <2>3, XchgAgrees
<1> QED
  BY <1>1, <1>2

LEMMA MovImmAgrees ==
    ASSUME TypeOK, NEW p \in RM(Gprs), NEW n \in Widths, MovImm(p, n)
    PROVE  StepAgrees
<1>0. PICK k : /\ k = IF n = 8 THEN 4 ELSE n
               /\ Executes("MOVI", p, Imm, n, Extended(p, Imm, k, n))
  BY DEF MovImm
<1>1. CASE faulted'
  BY <1>0, <1>1, FaultAgrees
<1>2. CASE ~faulted'
  <2>1. p # Null /\ Mapped(p)
    BY <1>0, <1>2, ExecutesWhat
  <2>2. Rax \in Gprs
    BY DEF Gprs
  <2>3. Fits(p, n) /\ p.file # "tmp"
    BY <2>1, <2>2, GprOperands
  <2>4. k \in 1 .. n /\ (k = 4 \/ (k = n /\ n < 4))
    BY <1>0 DEF Widths
  <2>5. Source(p, Imm, n)
    BY DEF Source
  <2> QED
    BY <1>0, <1>2, <2>3, <2>4, <2>5, ExtendedAgrees
<1> QED
  BY <1>1, <1>2

LEMMA MovsxdAgrees ==
    ASSUME TypeOK, NEW r \in Gprs, NEW p \in RM(Gprs), NEW n \in WordWidths, Movsxd(r, p, n)
    PROVE  StepAgrees
<1>0. PICK k : /\ k = IF n = 8 THEN 4 ELSE n
               /\ Executes("MOVSXD", r, p, n, Extended(r, p, k, n))
  BY DEF Movsxd
<1>1. CASE faulted'
  BY <1>0, <1>1, FaultAgrees
<1>2. CASE ~faulted'
  <2>1. p # Null /\ Mapped(p) /\ n \in Widths
    BY <1>0, <1>2, ExecutesWhat DEF Widths, WordWidths
  <2>2. Fits(r, n) /\ Fits(p, n) /\ r.file # "tmp" /\ (r = p \/ Apart(r, p, n))
    BY <2>1, GprOperands
  <2>3. k \in 1 .. n /\ (k = 4 \/ (k = n /\ n < 4))
    BY <1>0 DEF WordWidths
  <2>4. Source(r, p, n)
    BY <2>2 DEF Source
  <2> QED
    BY <1>0, <1>2, <2>2, <2>3, <2>4, ExtendedAgrees
<1> QED
  BY <1>1, <1>2

LEMMA MovzxsAgree ==
    ASSUME TypeOK, NEW r \in Gprs, NEW p \in RM(Gprs), NEW n \in WordWidths, NEW k \in {1, 2},
           Movzx(r, p, k, n)
    PROVE  StepAgrees
<1>0. PICK op, c : op # "STOS" /\ Executes(op, r, p, n, c)
  BY DEF Movzx
<1>1. CASE faulted'
  BY <1>0, <1>1, FaultAgrees
<1>2. CASE ~faulted'
  <2>1. p # Null /\ Mapped(p) /\ n \in Widths /\ k <= n
    BY <1>0, <1>2, ExecutesWhat DEF Widths, WordWidths
  <2>2. Fits(r, n) /\ r.file # "tmp"
    BY <2>1, GprOperands
  <2> QED
    BY <1>2, <2>1, <2>2, MovzxAgrees
<1> QED
  BY <1>1, <1>2

LEMMA CmovAgrees ==
    ASSUME TypeOK, NEW r \in Gprs, NEW p \in RM(Gprs), NEW n \in WordWidths, NEW taken \in BOOLEAN,
           Cmov(r, p, n, taken)
    PROVE  StepAgrees
<1>1. CASE taken
  BY <1>1, MovsAgree DEF Cmov, Widths, WordWidths
<1>2. CASE ~taken
  <2>1. Executes("CMOVN", r, None, n, <<>>)
    BY <1>2 DEF Cmov
  <2> QED
    BY <2>1, CmovNotTaken
<1> QED
  BY <1>1, <1>2

LEMMA CbwCwdAgree ==
    ASSUME TypeOK, NEW n \in WordWidths, Cbw(n) \/ Cwd(n)
    PROVE  StepAgrees
<1>0. PICK op, d : /\ (op = "CBW" /\ d = Rax) \/ (op = "CWD" /\ d = Rdx)
                   /\ Executes(op, d, Rax, n, Extended(d, Rax, n \div 2, n))
  BY DEF Cbw, Cwd
<1>1. CASE faulted'
  BY <1>0, <1>1, FaultAgrees
<1>2. CASE ~faulted'
  <2>1. d \in Gprs /\ Rax \in Gprs
    BY <1>0 DEF Gprs
  <2>2. d.file = "gpr" /\ Rax.file = "gpr" /\ Fits(d, 8) /\ Fits(Rax, 8)
    BY <2>1, GprFits
  <2>3. n \in Nat /\ n <= 8 /\ n \div 2 \in 1 .. n
    BY DEF WordWidths
  <2>4. Fits(d, n) /\ Fits(Rax, n)
    BY <2>2, <2>3, FitsLess
  <2>5. Rax = d \/ Apart(d, Rax, n)
    BY <1>0, <2>3 DEF Apart, Rax, Rdx, Gpr, At
  <2>6. Source(d, Rax, n)
    BY <2>4, <2>5 DEF Source
  <2>7. op \in {"CBW", "CWD"}
    BY <1>0
  <2> QED
    BY <1>0, <1>2, <2>2, <2>3, <2>4, <2>6, <2>7, ExtendedAgrees
<1> QED
  BY <1>1, <1>2

-----------------------------------------------------------------------------
(* The vector moves; r and p are the operands of XmmOperands or of         *)
(* MmxOperands, in the order of the action.                                *)

\* Two vector operands of size bytes, used as d and s.
VectorPair(d, s, size) ==
    \/ size = 16 /\ \E r \in Xmms, p \in XmmM : (d = r /\ s = p) \/ (d = p /\ s = r)
    \/ size = 8 /\ \E r \in Mmxs, p \in MmxM : (d = r /\ s = p) \/ (d = p /\ s = r)

LEMMA VectorOperands ==
    ASSUME TypeOK, NEW size, NEW d, NEW s, VectorPair(d, s, size), NEW n \in 0 .. size,
           NEW op, NEW k, NEW c, Executes(op, d, s, k, c), ~faulted'
    PROVE  /\ Fits(d, n) /\ Fits(s, n) /\ d.file # "tmp" /\ s.file # "tmp"
           /\ s = d \/ Apart(d, s, n)
<1>0. d # Null /\ Mapped(d) /\ s # Null /\ Mapped(s)
  BY ExecutesWhat
<1>1. CASE size = 16 /\ \E r \in Xmms, p \in XmmM : (d = r /\ s = p) \/ (d = p /\ s = r)
  <2>1. PICK r \in Xmms, p \in XmmM : (d = r /\ s = p) \/ (d = p /\ s = r)
    BY <1>1
  <2>2. /\ Fits(r, n) /\ Fits(p, n) /\ r.file = "xmm" /\ p.file \in {"xmm", "mem"}
        /\ r = p \/ Apart(r, p, n)
        /\ r = p \/ Apart(p, r, n)
    BY <1>0, <1>1, <2>1, XmmOperands DEF XmmM
  <2> QED
    BY <2>1, <2>2
<1>2. CASE size = 8 /\ \E r \in Mmxs, p \in MmxM : (d = r /\ s = p) \/ (d = p /\ s = r)
  <2>1. PICK r \in Mmxs, p \in MmxM : (d = r /\ s = p) \/ (d = p /\ s = r)
    BY <1>2
  <2>2. /\ Fits(r, n) /\ Fits(p, n) /\ r.file = "mmx" /\ p.file \in {"mmx", "mem"}
        /\ r = p \/ Apart(r, p, n)
        /\ r = p \/ Apart(p, r, n)
    BY <1>0, <1>2, <2>1, MmxOperands DEF MmxM
  <2> QED
    BY <2>1, <2>2
<1> QED
  BY <1>1, <1>2 DEF VectorPair

\* The register r of the operands is the destination, with its size.
VectorLoad(r, p, size) ==
    \/ size = 16 /\ r \in Xmms /\ p \in XmmM
    \/ size = 8 /\ r \in Mmxs /\ p \in MmxM

LEMMA LoadPairs ==
    ASSUME NEW r, NEW p, NEW size, VectorLoad(r, p, size)
    PROVE  /\ VectorPair(r, p, size) /\ VectorPair(p, r, size) /\ size \in {8, 16}
           /\ size = IF r.file = "xmm" THEN 16 ELSE 8
<1>1. VectorPair(r, p, size) /\ VectorPair(p, r, size) /\ size \in {8, 16}
  BY DEF VectorLoad, VectorPair
<1>2. CASE size = 16 /\ r \in Xmms
  BY <1>1, <1>2, XmmFits
<1>3. CASE size = 8 /\ r \in Mmxs
  BY <1>1, <1>3, MmxFits
<1> QED
  BY <1>1, <1>2, <1>3 DEF VectorLoad

LEMMA MovVecAgrees ==
    ASSUME TypeOK, NEW size \in {8, 16}, NEW d, NEW s, VectorPair(d, s, size), NEW n \in 0 .. size,
           Executes("MOV", d, s, n, <<Copy(d, s, n)>>)
    PROVE  StepAgrees
<1>1. CASE faulted'
  BY <1>1, FaultAgrees
<1>2. CASE ~faulted'
  <2>1. Fits(d, n) /\ d.file # "tmp"
    BY <1>2, VectorOperands
  <2> QED
    BY <1>2, <2>1, MovAgrees
<1> QED
  BY <1>1, <1>2

\* MOVD, and MOVSS and MOVSD that load from memory.
LEMMA PaddedLoadAgrees ==
    ASSUME TypeOK, NEW op \in {"MOVZ", "MOVD"}, NEW size, NEW r, NEW p, VectorLoad(r, p, size),
           NEW n \in 0 .. size, Executes(op, r, p, n, Padded(r, p, n, size))
    PROVE  StepAgrees
<1>0. VectorPair(r, p, size) /\ size \in {8, 16} /\ size = IF r.file = "xmm" THEN 16 ELSE 8
  BY LoadPairs
<1>1. CASE faulted'
  BY <1>1, FaultAgrees
<1>2. CASE ~faulted'
  <2>1. size \in 0 .. size
    BY <1>0
  <2>2. Fits(r, size) /\ r.file # "tmp"
    BY <1>0, <1>2, <2>1, VectorOperands
  <2> QED
    BY <1>0, <1>2, <2>2, PaddedAgrees
<1> QED
  BY <1>1, <1>2

LEMMA MovScalarAgrees ==
    ASSUME TypeOK, NEW r \in Xmms, NEW p \in XmmM, NEW n \in {4, 8}, NEW d, NEW s,
           \/ d = r /\ s = p
           \/ d = p /\ s = r,
           MovScalar(d, s, n)
    PROVE  StepAgrees
<1>1. VectorLoad(r, p, 16) /\ VectorPair(d, s, 16) /\ n \in 0 .. 16
  BY DEF VectorLoad, VectorPair
<1>2. CASE s.file = "xmm"
  <2>1. Executes("MOV", d, s, n, <<Copy(d, s, n)>>)
    BY <1>2 DEF MovScalar
  <2> QED
    BY <1>1, <2>1, MovVecAgrees
<1>3. CASE s.file # "xmm"
  <2>1. d = r /\ s = p
    BY <1>3, XmmFits
  <2>2. Executes("MOVZ", d, s, n, Padded(d, s, n, 16))
    BY <1>3 DEF MovScalar
  <2> QED
    BY <1>1, <2>1, <2>2, PaddedLoadAgrees
<1> QED
  BY <1>2, <1>3

LEMMA MovldupLoadsAgree ==
    ASSUME TypeOK, NEW r \in Xmms, NEW p \in XmmM, Movsldup(r, p) \/ Movshdup(r, p)
    PROVE  StepAgrees
<1>0. PICK op, i, j : /\ \/ op = "MOVSLDUP" /\ i = 0 /\ j = 1
                         \/ op = "MOVSHDUP" /\ i = 1 /\ j = 3
                      /\ Executes(op, r, p, 4, Both(r, 0, 1, p, i, 4) \o Both(r, 2, 3, p, j, 4))
  BY DEF Movsldup, Movshdup
<1>1. CASE faulted'
  BY <1>0, <1>1, FaultAgrees
<1>2. CASE ~faulted'
  <2>1. VectorPair(r, p, 16)
    BY DEF VectorPair
  <2>2. /\ Fits(r, 16) /\ Fits(p, 16) /\ r.file # "tmp"
        /\ p = r \/ Apart(r, p, 16)
    BY <1>0, <1>2, <2>1, VectorOperands
  <2>3. Laned(r, p, 4, 4)
    BY <2>2 DEF Laned, Widths
  <2> QED
    BY <1>0, <1>2, <2>2, <2>3, MovldupsAgree
<1> QED
  BY <1>1, <1>2

LEMMA MovddupsAgree ==
    ASSUME TypeOK, NEW r \in Xmms, NEW p \in XmmM, Movddup(r, p)
    PROVE  StepAgrees
<1>0. PICK c : Executes("MOVDDUP", r, p, 8, c)
  BY DEF Movddup
<1>1. CASE faulted'
  BY <1>0, <1>1, FaultAgrees
<1>2. CASE ~faulted'
  <2>1. VectorPair(r, p, 16)
    BY DEF VectorPair
  <2>2. /\ Fits(r, 16) /\ Fits(p, 16) /\ r.file # "tmp"
        /\ p = r \/ Apart(r, p, 16)
    BY <1>0, <1>2, <2>1, VectorOperands
  <2>3. Laned(r, p, 2, 8)
    BY <2>2 DEF Laned, Widths
  <2> QED
    BY <1>2, <2>2, <2>3, MovddupAgrees
<1> QED
  BY <1>1, <1>2

LEMMA XmmIsAt ==
    ASSUME NEW r \in Xmms
    PROVE  r = At(r.file, r.at)
BY DEF Xmms, Xmm, At

\* MOVHLPS and MOVHPD: the upper half of the operand.
LEMMA UpperHalvesAgree ==
    ASSUME TypeOK, NEW r \in Xmms, NEW p \in XmmM, NEW op \in {"MOVHLPS", "MOVHPD"},
           Executes(op, r, p, 8, <<Copy(r, Elem(p, 1, 8), 8)>>)
    PROVE  StepAgrees
<1>1. CASE faulted'
  BY <1>1, FaultAgrees
<1>2. CASE ~faulted'
  <2>1. VectorPair(r, p, 16)
    BY DEF VectorPair
  <2>2. /\ Fits(r, 8) /\ Fits(p, 8) /\ r.file # "tmp"
        /\ p = r \/ Apart(r, p, 8)
    BY <1>2, <2>1, VectorOperands
  <2> QED
    BY <1>2, <2>2, UpperHalfAgrees, XmmIsAt
<1> QED
  BY <1>1, <1>2

\* MOVHPS and MOVLHPS, and MOVHPS to memory.
LEMMA MovhpsesAgree ==
    ASSUME TypeOK, NEW d, NEW s, VectorPair(d, s, 16), NEW op \in {"MOVHPS", "MOVHPSTORE"},
           Executes(op, d, s, 8, <<Copy(Elem(d, 1, 8), s, 8)>>)
    PROVE  StepAgrees
<1>1. CASE faulted'
  BY <1>1, FaultAgrees
<1>2. CASE ~faulted'
  <2>1. Fits(d, 16) /\ d.file # "tmp"
    BY <1>2, VectorOperands
  <2> QED
    BY <1>2, <2>1, MovhpsAgrees
<1> QED
  BY <1>1, <1>2

LEMMA MovlpAgrees ==
    ASSUME TypeOK, NEW r \in Xmms, NEW p \in XmmM, NEW opsz \in BOOLEAN, Movlp(r, p, opsz)
    PROVE  StepAgrees
<1>1. CASE ~opsz /\ p.file = "xmm"
  <2>1. Executes("MOVHLPS", r, p, 8, <<Copy(r, Elem(p, 1, 8), 8)>>)
    BY <1>1 DEF Movlp
  <2> QED
    BY <2>1, UpperHalvesAgree
<1>2. CASE ~(~opsz /\ p.file = "xmm")
  <2>1. Executes("MOV", r, p, 8, <<Copy(r, Elem(p, 0, 8), 8)>>)
    BY <1>2 DEF Movlp
  <2>2. CASE faulted'
    BY <2>1, <2>2, FaultAgrees
  <2>3. CASE ~faulted'
    <3>1. VectorPair(r, p, 16)
      BY DEF VectorPair
    <3>2. Fits(r, 8) /\ Fits(p, 8) /\ r.file # "tmp"
      BY <2>1, <2>3, <3>1, VectorOperands
    <3>3. Elem(p, 0, 8).file = p.file /\ Elem(p, 0, 8).at = p.at
      BY <3>2 DEF Elem, At, Fits
    <3>4. \A b \in 0 .. 8 - 1 : Read(store, Elem(p, 0, 8), b) = Read(store, p, b)
      BY <3>3 DEF Read
    <3> QED
      BY <2>1, <2>3, <3>2, <3>4, MovAgrees
  <2> QED
    BY <2>2, <2>3
<1> QED
  BY <1>1, <1>2

LEMMA MovhpAgrees ==
    ASSUME TypeOK, NEW r \in Xmms, NEW p \in XmmM, NEW opsz \in BOOLEAN, Movhp(r, p, opsz)
    PROVE  StepAgrees
<1>1. CASE opsz
  <2>1. Executes("MOVHPD", r, p, 8, <<Copy(r, Elem(p, 1, 8), 8)>>)
    BY <1>1 DEF Movhp
  <2> QED
    BY <2>1, UpperHalvesAgree
<1>2. CASE ~opsz
  <2>1. Executes("MOVHPS", r, p, 8, <<Copy(Elem(r, 1, 8), p, 8)>>)
    BY <1>2 DEF Movhp
  <2>2. VectorPair(r, p, 16)
    BY DEF VectorPair
  <2> QED
    BY <2>1, <2>2, MovhpsesAgree
<1> QED
  BY <1>1, <1>2

\* Interleaves: as many lanes of n bytes as the register has.
LEMMA PunpcksAgree ==
    ASSUME TypeOK, NEW size, NEW r, NEW p, VectorLoad(r, p, size), NEW n \in Widths,
           NEW times \in {1, 2, 4, 8}, 2 * times * n = size,
           Punpckl(r, p, n, times) \/ Punpckh(r, p, n, times)
    PROVE  StepAgrees
<1>0. PICK op, c : op # "STOS" /\ Executes(op, r, p, n, c)
  BY DEF Punpckl, Punpckh
<1>1. VectorPair(r, p, size) /\ size \in {8, 16} /\ size = IF r.file = "xmm" THEN 16 ELSE 8
  BY LoadPairs
<1>2. CASE faulted'
  BY <1>0, <1>2, FaultAgrees
<1>3. CASE ~faulted'
  <2>1. size \in 0 .. size
    BY <1>1
  <2>2. /\ Fits(r, size) /\ Fits(p, size) /\ r.file # "tmp"
        /\ p = r \/ Apart(r, p, size)
    BY <1>0, <1>1, <1>3, <2>1, VectorOperands
  <2>3. PICK L \in Nat : L = 2 * times /\ L * n = size /\ size \div n = L
    <3>1. 2 * times \in Nat /\ (2 * times) * n = size /\ size \div n = 2 * times
      BY <1>1 DEF Widths
    <3> QED
      BY <3>1
  <2>4. Laned(r, p, L, n)
    BY <2>2, <2>3 DEF Laned
  <2>5. (IF r.file = "xmm" THEN 16 ELSE 8) \div n = L
    BY <1>1, <2>3
  <2>6. times \in Nat \ {0}
    OBVIOUS
  <2>7. CASE Punpckl(r, p, n, times)
    BY <1>3, <2>2, <2>3, <2>4, <2>5, <2>6, <2>7, PunpcklAgrees
  <2>8. CASE Punpckh(r, p, n, times)
    BY <1>3, <2>2, <2>3, <2>4, <2>5, <2>6, <2>8, PunpckhAgrees
  <2> QED
    BY <2>7, <2>8
<1> QED
  BY <1>2, <1>3

-----------------------------------------------------------------------------
(* The theorems.                                                           *)

LEMMA GeneralMovesAgree ==
    ASSUME MovesInv, GeneralMoves
    PROVE  StepAgrees
<1>0. TypeOK
  BY DEF MovesInv
<1>1. ASSUME NEW n \in Widths, NEW r \in Gprs, NEW p \in RM(Gprs), Mov(r, p, n)
      PROVE  StepAgrees
  BY <1>0, <1>1, MovsAgree DEF Mov
<1>2. ASSUME NEW n \in Widths, NEW r \in Gprs, NEW p \in RM(Gprs), Mov(p, r, n)
      PROVE  StepAgrees
  BY <1>0, <1>2, MovsAgree DEF Mov
<1>3. ASSUME NEW n \in Widths, NEW r \in Gprs, NEW p \in RM(Gprs), Xchg(r, p, n)
      PROVE  StepAgrees
  BY <1>0, <1>3, XchgsAgree
<1>4. ASSUME NEW n \in Widths, NEW p \in RM(Gprs), MovImm(p, n)
      PROVE  StepAgrees
  BY <1>0, <1>4, MovImmAgrees
<1>5. ASSUME NEW n \in Widths, NEW r \in Gprs, MovImmFull(r, n)
      PROVE  StepAgrees
  <2>1. r \in RM(Gprs)
    BY DEF RM
  <2>2. Executes("MOV", r, Imm, n, <<Copy(r, Imm, n)>>)
    BY <1>5 DEF MovImmFull
  <2> QED
    BY <1>0, <2>1, <2>2, FixedAgrees
<1>6. ASSUME NEW n \in WordWidths, NEW r \in Gprs, NEW p \in RM(Gprs), Movsxd(r, p, n)
      PROVE  StepAgrees
  BY <1>0, <1>6, MovsxdAgrees
<1>7. ASSUME NEW n \in WordWidths, NEW r \in Gprs, NEW p \in RM(Gprs), NEW k \in {1, 2}, Movzx(r, p, k, n)
      PROVE  StepAgrees
  BY <1>0, <1>7, MovzxsAgree
<1>8. ASSUME NEW n \in WordWidths, NEW r \in Gprs, NEW p \in RM(Gprs), NEW taken \in BOOLEAN,
             Cmov(r, p, n, taken)
      PROVE  StepAgrees
  BY <1>0, <1>8, CmovAgrees
<1>9. ASSUME NEW holds \in BOOLEAN, NEW p \in RM(Gprs), Setcc(p, holds)
      PROVE  StepAgrees
  <2>1. PICK bit : Executes("MOV", p, bit, 1, <<Copy(p, bit, 1)>>)
    BY <1>9 DEF Setcc
  <2>2. 1 \in Widths
    BY DEF Widths
  <2> QED
    BY <1>0, <2>1, <2>2, FixedAgrees
<1>10. ASSUME NEW n \in WordWidths, Cbw(n) \/ Cwd(n)
       PROVE  StepAgrees
  BY <1>0, <1>10, CbwCwdAgree
<1>11. ASSUME NEW n \in WordWidths, NEW r \in Numeric, NEW e \in Leas, Lea(r, e, n)
       PROVE  StepAgrees
  BY <1>0, <1>11, LeaAgrees
<1>12. ASSUME Cpuid
       PROVE  StepAgrees
  BY <1>0, <1>12, CpuidAgrees
<1>13. ASSUME NEW n \in Widths, NEW rep \in BOOLEAN, NEW adsz \in BOOLEAN, Stos(n, rep, adsz)
       PROVE  StepAgrees
  BY <1>13, StosAgrees
<1> QED
  BY <1>1, <1>2, <1>3, <1>4, <1>5, <1>6, <1>7, <1>8, <1>9, <1>10, <1>11, <1>12, <1>13
     DEF GeneralMoves

LEMMA XmmMovesAgree ==
    ASSUME TypeOK, NEW r \in Xmms, NEW p \in XmmM,
           \/ \E shape \in {<<1, 8>>, <<2, 4>>, <<4, 2>>, <<8, 1>>} :
                 Punpckl(r, p, shape[1], shape[2]) \/ Punpckh(r, p, shape[1], shape[2])
           \/ MovVec(r, p, 16) \/ MovVec(p, r, 16)
           \/ \E n \in {4, 8} : MovScalar(r, p, n) \/ MovScalar(p, r, n) \/ Movd(r, p, n, 16)
           \/ Movsldup(r, p) \/ Movshdup(r, p) \/ Movddup(r, p)
           \/ \E opsz \in BOOLEAN : Movlp(r, p, opsz) \/ Movhp(r, p, opsz)
           \/ MovVec(p, r, 8) \/ MovhpStore(p, r)
    PROVE  StepAgrees
<1>0. VectorLoad(r, p, 16) /\ VectorPair(r, p, 16) /\ VectorPair(p, r, 16)
  BY LoadPairs DEF VectorLoad
<1>1. ASSUME NEW shape \in {<<1, 8>>, <<2, 4>>, <<4, 2>>, <<8, 1>>},
             Punpckl(r, p, shape[1], shape[2]) \/ Punpckh(r, p, shape[1], shape[2])
      PROVE  StepAgrees
  <2>1. shape[1] \in Widths /\ shape[2] \in {1, 2, 4, 8} /\ 2 * shape[2] * shape[1] = 16
    BY DEF Widths
  <2> QED
    BY <1>0, <1>1, <2>1, PunpcksAgree
<1>2. ASSUME NEW n \in {8, 16}, MovVec(r, p, n) \/ MovVec(p, r, n)
      PROVE  StepAgrees
  <2>1. n \in 0 .. 16
    OBVIOUS
  <2> QED
    BY <1>0, <1>2, <2>1, MovVecAgrees DEF MovVec
<1>3. ASSUME NEW n \in {4, 8}, MovScalar(r, p, n) \/ MovScalar(p, r, n)
      PROVE  StepAgrees
  BY <1>3, MovScalarAgrees
<1>4. ASSUME NEW n \in {4, 8}, Movd(r, p, n, 16)
      PROVE  StepAgrees
  BY <1>0, <1>4, PaddedLoadAgrees DEF Movd
<1>5. ASSUME Movsldup(r, p) \/ Movshdup(r, p)
      PROVE  StepAgrees
  BY <1>5, MovldupLoadsAgree
<1>6. ASSUME Movddup(r, p)
      PROVE  StepAgrees
  BY <1>6, MovddupsAgree
<1>7. ASSUME NEW opsz \in BOOLEAN, Movlp(r, p, opsz) \/ Movhp(r, p, opsz)
      PROVE  StepAgrees
  BY <1>7, MovlpAgrees, MovhpAgrees
<1>8. ASSUME MovhpStore(p, r)
      PROVE  StepAgrees
  BY <1>0, <1>8, MovhpsesAgree DEF MovhpStore
<1> QED
  BY <1>1, <1>2, <1>3, <1>4, <1>5, <1>6, <1>7, <1>8

LEMMA MmxMovesAgree ==
    ASSUME TypeOK, NEW r \in Mmxs, NEW p \in MmxM,
           \/ \E shape \in {<<1, 4>>, <<2, 2>>, <<4, 1>>} :
                 Punpckl(r, p, shape[1], shape[2]) \/ Punpckh(r, p, shape[1], shape[2])
           \/ MovVec(r, p, 8)
           \/ \E n \in {4, 8} : Movd(r, p, n, 8)
    PROVE  StepAgrees
<1>0. VectorLoad(r, p, 8) /\ VectorPair(r, p, 8)
  BY LoadPairs DEF VectorLoad
<1>1. ASSUME NEW shape \in {<<1, 4>>, <<2, 2>>, <<4, 1>>},
             Punpckl(r, p, shape[1], shape[2]) \/ Punpckh(r, p, shape[1], shape[2])
      PROVE  StepAgrees
  <2>1. shape[1] \in Widths /\ shape[2] \in {1, 2, 4, 8} /\ 2 * shape[2] * shape[1] = 8
    BY DEF Widths
  <2> QED
    BY <1>0, <1>1, <2>1, PunpcksAgree
<1>2. ASSUME MovVec(r, p, 8)
      PROVE  StepAgrees
  <2>1. 8 \in 0 .. 8 /\ 8 \in {8, 16}
    OBVIOUS
  <2>2. Executes("MOV", r, p, 8, <<Copy(r, p, 8)>>)
    BY <1>2 DEF MovVec
  <2> QED
    BY <1>0, <2>1, <2>2, MovVecAgrees
<1>3. ASSUME NEW n \in {4, 8}, Movd(r, p, n, 8)
      PROVE  StepAgrees
  BY <1>0, <1>3, PaddedLoadAgrees DEF Movd
<1> QED
  BY <1>1, <1>2, <1>3

LEMMA VectorMovesAgree ==
    ASSUME TypeOK, VectorMoves
    PROVE  StepAgrees
BY XmmMovesAgree, MmxMovesAgree DEF VectorMoves

LEMMA NextAgrees ==
    ASSUME MovesInv, Next
    PROVE  StepAgrees
BY GeneralMovesAgree, VectorMovesAgree DEF Next, MovesInv

LEMMA InitMovesInv == Init => MovesInv
<1> SUFFICES ASSUME Init PROVE MovesInv
  OBVIOUS
<1>1. DOMAIN store = Files /\ \A f \in Files : DOMAIN store[f] = Addresses(f)
  BY DEF Init, InitStore
<1>2. \A a \in Addresses("tmp") : store["tmp"][a] = Zero
  BY DEF Init, InitStore, Files
<1>3. ptr \in [Numeric -> 0 .. Size - 1]
  BY PointersAssumption DEF Init
<1>4. rip \in 0 .. Size - 1 /\ instrs \in 0 .. MaxInstrs
  BY SizesAssumption, MemoryAssumption DEF Init
<1>6. df \in BOOLEAN /\ faulted \in BOOLEAN
  BY DEF Init
<1>5. LastStos
  BY DEF Init, LastStos
<1> QED
  BY <1>1, <1>2, <1>3, <1>4, <1>5, <1>6 DEF MovesInv, TypeOK

LEMMA MovesInvariant == Spec => []MovesInv
<1>1. MovesInv /\ [Next]_vars => MovesInv'
  <2> SUFFICES ASSUME MovesInv, [Next]_vars PROVE MovesInv'
    OBVIOUS
  <2>1. CASE Next
    BY <2>1, NextAgrees DEF StepAgrees
  <2>2. CASE UNCHANGED vars
    BY <2>2 DEF vars, MovesInv, TypeOK, LastStos
  <2> QED
    BY <2>1, <2>2
<1> QED
  BY InitMovesInv, <1>1, PTL DEF Spec

\* Numbers stay in their types whatever parts of them are replaced, and no
\* byte is left in the temporary of XCHG.
THEOREM MovesTyped == Spec => []TypeOK
<1>1. MovesInv => TypeOK
  BY DEF MovesInv
<1> QED
  BY MovesInvariant, <1>1, PTL

\* Every general move makes of every byte of registers and memory what the
\* reference says, whatever the sizes, the encodings and the pointers.
THEOREM MovesAreRight == Spec => MovesAgree
<1>1. MovesInv /\ [Next]_vars => [MovesStep]_vars
  BY NextAgrees DEF StepAgrees
<1> QED
  BY MovesInvariant, <1>1, PTL DEF Spec, MovesAgree

\* The same for the lanes of the SSE and MMX moves.
THEOREM LanesAreRight == Spec => LanesAgree
<1>1. MovesInv /\ [Next]_vars => [LanesStep]_vars
  BY NextAgrees DEF StepAgrees
<1> QED
  BY MovesInvariant, <1>1, PTL DEF Spec, LanesAgree
=============================================================================
