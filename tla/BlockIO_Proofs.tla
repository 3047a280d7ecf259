--------------------------- MODULE BlockIO_Proofs ---------------------------
(***************************************************************************)
(* Theorems about BlockFileIO over any layer that reads and writes single  *)
(* blocks as LayerKeeps says: a read returns the bytes asked for, a write  *)
(* replaces bytes up to where it failed and fills its gap with zeros, a    *)
(* truncation pads with zeros and rewrites the last block with what it     *)
(* had.  Files_Proofs instantiates them with both layers.                  *)
(***************************************************************************)
EXTENDS BlockIO, SequenceTheorems, WellFoundedInduction, TLAPS

CONSTANTS Good(_),      \* the files the layer handles
          ByteAt(_, _), \* the plain bytes of a file, from 1 to its size
          Reads(_),     \* how many reads of a block will not fail: 0 if one may, and
                        \* less where reading may upset the node
          Writes(_),    \* how many writes of a block will succeed
          Stays(_, _),  \* from one file to a later one, what else a layer promises
          Top           \* the last block that is cached

\* The same plain bytes.
Same(f, g) ==
    /\ SizeOf(g) = SizeOf(f)
    /\ \A i \in 1..SizeOf(f) : ByteAt(g, i) = ByteAt(f, i)

\* The bytes of f, and zeros after them.
ByteOr0(f, i) == IF i <= SizeOf(f) THEN ByteAt(f, i) ELSE 0

\* How many bytes of a block there are.
Has(f, b) == IF SizeOf(f) <= b * BS THEN 0 ELSE Least(BS, SizeOf(f) - b * BS)

\* s is n bytes of f after off.
IsPart(s, f, off, n) ==
    s \in Seq(Int) /\ Len(s) = n /\ \A i \in 1..n : s[i] = ByteAt(f, off + i)

\* g is f with d written after off bytes.
Put(f, off, d, g) ==
    /\ SizeOf(g) = Most(SizeOf(f), off + Len(d))
    /\ \A i \in 1..SizeOf(g) :
         ByteAt(g, i) = IF i \in off + 1 .. off + Len(d) THEN d[i - off] ELSE ByteOr0(f, i)

\* g is f with zeros after it.
Grown(f, g) ==
    /\ SizeOf(g) >= SizeOf(f)
    /\ \A i \in 1..SizeOf(g) : ByteAt(g, i) = ByteOr0(f, i)

\* A block lies beside the end of the file or in it, or where a hole may come.
Reached(f, b) ==
    SizeOf(f) >= b * BS \/ (AllowHoles /\ SizeOf(f) % BS = 0)

----------------------------------------------------------------------------
(* What a layer provides.                                                  *)

\* A file has its types.
LayerTyped ==
    /\ BS \in Nat \ {0} /\ AllowHoles \in BOOLEAN /\ Top \in Nat
    /\ \A f : Good(f) =>
         /\ SizeOf(f) \in Nat /\ Reads(f) \in Int /\ Writes(f) \in Nat
         /\ f.cblk \in Nat /\ f.cdata \in Seq(Int) /\ Len(f.cdata) <= BS
         /\ f.ok \in BOOLEAN /\ f.threw \in BOOLEAN
         /\ \A i \in 1..SizeOf(f) : ByteAt(f, i) \in Int

\* What is promised of later files is of still later ones.
LayerStays ==
    /\ \A f : Good(f) => Stays(f, f)
    /\ \A f, g, h : Stays(f, g) /\ Stays(g, h) => Stays(f, h)

\* The cache and the outcome of the last write are no part of what is on disk.
Beside(f, g) ==
    /\ Good(g) /\ Same(f, g) /\ Stays(f, g)
    /\ Reads(g) = Reads(f) /\ Writes(g) = Writes(f) /\ g.threw = f.threw
CacheTo(f, b, d) == [f EXCEPT !.cblk = b, !.cdata = d]
NoCache(f) == [f EXCEPT !.cdata = <<>>]
AsOk(f) == [f EXCEPT !.ok = TRUE]
LayerCache ==
    \A f : Good(f) =>
      /\ \A b \in 0..Top, d \in Seq(Int) :
           LET g == CacheTo(f, b, d)
           IN Len(d) <= BS => Beside(f, g) /\ g.cblk = b /\ g.cdata = d /\ g.ok = f.ok
      /\ LET g == NoCache(f)
         IN Beside(f, g) /\ g.cblk = f.cblk /\ g.cdata = <<>> /\ g.ok = f.ok
      /\ LET g == AsOk(f)
         IN Beside(f, g) /\ g.cblk = f.cblk /\ g.cdata = f.cdata /\ g.ok

\* A block read is what there is of it, or the read fails: it may throw, and else
\* does so only when no more reads are sure to succeed.
LayerRead ==
    \A f : \A b \in Nat : Good(f) /\ ~f.threw /\ Reads(f) >= 0 =>
      LET r == ReadOne(f, b)
      IN /\ Good(r.f) /\ Same(f, r.f) /\ Stays(f, r.f) /\ Writes(r.f) = Writes(f)
         /\ r.f.cblk = f.cblk /\ r.f.cdata = f.cdata /\ r.f.ok = f.ok
         /\ r.failed \in BOOLEAN
         /\ ~r.failed => /\ IsPart(r.data, f, b * BS, Has(f, b))
                         /\ ~r.f.threw /\ Reads(r.f) >= Reads(f) - 1
                         /\ r.data # <<>> => Reads(r.f) >= 0
         /\ r.failed => r.data = <<>> /\ (r.f.threw \/ Reads(f) = 0)

\* A block written that covers what there was of it, next to the others or after a
\* hole, is there; once a write has failed the others do.
OneWritten(f, b, d, g) ==
    Good(f) /\ ~f.threw /\ d # <<>> /\ Len(d) <= BS =>
        /\ Writes(f) = 0 => /\ Good(g) /\ Same(f, g) /\ Stays(f, g) /\ ~g.ok /\ ~g.threw
                            /\ Writes(g) = 0 /\ Reads(g) >= Reads(f)
        /\ /\ Writes(f) > 0 /\ Reached(f, b)
           /\ Len(d) = BS \/ SizeOf(f) <= b * BS + Len(d)
           => /\ Good(g) /\ Put(f, b * BS, d, g) /\ Stays(f, g) /\ g.ok /\ ~g.threw
              /\ Writes(g) = Writes(f) - 1 /\ Reads(g) >= Reads(f)
LayerWrite == \A f : \A b \in Nat, d \in Seq(Int) : OneWritten(f, b, d, WriteOne(f, b, d))

LayerKeeps == LayerTyped /\ LayerStays /\ LayerCache /\ LayerRead /\ LayerWrite

\* The cache holds what is on disk, as far as there is something; with holes, it
\* holds nothing else.
Coherent(f) ==
    f.cdata # <<>> /\ f.cblk * BS < SizeOf(f) =>
        IsPart(f.cdata, f, f.cblk * BS, Has(f, f.cblk))
Within(f) == AllowHoles /\ f.cdata # <<>> => f.cblk * BS < SizeOf(f)
Cached(f) == Coherent(f) /\ Within(f)

\* A block that is cached from before the file was cut.
Stale(f, b) == f.cdata # <<>> /\ f.cblk = b /\ SizeOf(f) <= b * BS

\* A file that calls may go on with.
Sound(f) == Good(f) /\ Cached(f)

----------------------------------------------------------------------------
(* Numbers and sequences.                                                  *)

\* A set of numbers that is not empty has a least one.
LEMMA LeastNumber ==
    ASSUME NEW T, T \subseteq Nat, T # {}
    PROVE  \E x \in T : \A y \in T : x <= y
<1> DEFINE R == OpToRel(<, Nat)
<1>1. IsWellFoundedOn(R, Nat)
  BY NatLessThanWellFounded
<1> HIDE DEF R
<1>2. PICK x \in T : \A y \in T : ~(<<y, x>> \in R)
  BY <1>1, WFMin
<1>3. ASSUME NEW y \in T PROVE x <= y
  <2>1. ~(y < x)
    BY <1>2 DEF OpToRel, R
  <2> QED
    BY <2>1
<1> QED
  BY <1>3

\* Induction up to n, over a set of numbers.
LEMMA UpTo ==
    ASSUME NEW n \in Nat, NEW K, 0 \in K, \A k \in 1..n : k - 1 \in K => k \in K
    PROVE  n \in K
<1> DEFINE T == {k \in 0..n : k \notin K}
<1>1. SUFFICES ASSUME T # {} PROVE FALSE
  OBVIOUS
<1>2. T \subseteq Nat
  OBVIOUS
<1>3. PICK k \in T : \A j \in T : k <= j
  <2> HIDE DEF T
  <2> QED
    BY <1>1, <1>2, LeastNumber
<1>4. k \in 1..n
  OBVIOUS
<1>5. k - 1 \in 0..n /\ k - 1 \notin T
  BY <1>3, <1>4
<1> QED
  BY <1>4, <1>5

\* A part of a sequence.
LEMMA PartIs ==
    ASSUME NEW S, NEW s \in Seq(S), NEW m \in Nat \ {0}, NEW n \in Int, n <= Len(s)
    PROVE  LET p == SubSeq(s, m, n)
           IN /\ p \in Seq(S) /\ Len(p) = (IF m <= n THEN n - m + 1 ELSE 0)
              /\ \A i \in 1..Len(p) : p[i] = s[m + i - 1]
<1>1. \A i \in m..n : s[i] \in S
  BY LenProperties, ElementOfSeq
<1>2. /\ SubSeq(s, m, n) \in Seq(S)
      /\ Len(SubSeq(s, m, n)) = IF m <= n THEN n - m + 1 ELSE 0
      /\ \A i \in 1 .. n - m + 1 : SubSeq(s, m, n)[i] = s[m + i - 1]
  BY <1>1, SubSeqProperties
<1> QED
  BY <1>2

\* What a number is made of.
LEMMA DivUnique ==
    ASSUME NEW d \in Nat \ {0}, NEW n \in Nat, NEW q \in Nat, NEW r \in Nat, r < d, n = q * d + r
    PROVE  n \div d = q /\ n % d = r
<1> DEFINE e == n \div d
           x == n % d
<1>1. e \in Nat /\ x \in Nat /\ x < d /\ n = e * d + x
  OBVIOUS
<1> HIDE DEF e, x
<1>2. \A a, b \in Nat : a + 1 <= b => a * d + d <= b * d
  <2> SUFFICES ASSUME NEW a \in Nat, NEW b \in Nat, a + 1 <= b PROVE a * d + d <= b * d
    OBVIOUS
  <2>1. (a + 1) * d = a * d + d /\ (a + 1) * d <= b * d
    OBVIOUS
  <2> QED
    BY <2>1
<1>3. q * d \in Nat /\ e * d \in Nat
  BY <1>1
<1>4. e = q
  <2>1. CASE e + 1 <= q
    <3>1. e * d + d <= q * d
      BY <1>1, <1>2, <2>1
    <3> QED
      BY <1>1, <1>3, <3>1
  <2>2. CASE q + 1 <= e
    <3>1. q * d + d <= e * d
      BY <1>1, <1>2, <2>2
    <3> QED
      BY <1>1, <1>3, <3>1
  <2> QED
    BY <1>1, <2>1, <2>2
<1> QED
  BY <1>1, <1>3, <1>4 DEF e, x

\* Offsets and blocks.
LEMMA DivIs ==
    ASSUME LayerTyped, NEW n \in Nat
    PROVE  /\ n \div BS \in Nat /\ n % BS \in Nat /\ n % BS < BS
           /\ n = (n \div BS) * BS + (n % BS)
BY DEF LayerTyped

\* Blocks lie one after the other.
LEMMA TimesIs ==
    ASSUME LayerTyped, NEW a \in Nat, NEW b \in Nat
    PROVE  /\ a * BS \in Nat /\ (a + 1) * BS = a * BS + BS
           /\ a <= b => a * BS <= b * BS
           /\ a < b => a * BS + BS <= b * BS
           /\ a * BS < b * BS => a < b
           /\ (a * BS) % BS = 0 /\ a <= a * BS
<1>1. BS \in Nat /\ BS >= 1
  BY DEF LayerTyped
<1>2. a * BS \in Nat /\ b * BS \in Nat /\ (a + 1) * BS = a * BS + BS
  BY <1>1
<1>3. a <= b => a * BS <= b * BS
  BY <1>1
<1>4. a < b => a * BS + BS <= b * BS
  <2> SUFFICES ASSUME a < b PROVE a * BS + BS <= b * BS
    OBVIOUS
  <2>1. (a + 1) * BS <= b * BS
    BY <1>1
  <2> QED
    BY <1>2, <2>1
<1>5. a * BS < b * BS => a < b
  <2>1. b <= a => b * BS <= a * BS
    BY <1>1
  <2> QED
    BY <1>1, <1>2, <2>1
<1>6. (a * BS) % BS = 0
  <2>1. a * BS = a * BS + 0 /\ 0 \in Nat /\ 0 < BS /\ BS \in Nat \ {0} /\ a * BS \in Nat
    BY <1>1, <1>2
  <2> QED
    BY <2>1, DivUnique
<1>7. a <= a * BS
  <2>1. a * 1 <= a * BS /\ a * 1 = a
    BY <1>1
  <2> QED
    BY <2>1
<1> QED
  BY <1>2, <1>3, <1>4, <1>5, <1>6, <1>7

----------------------------------------------------------------------------
(* Files.                                                                  *)

\* The types of a file.
LEMMA Typed ==
    ASSUME LayerKeeps, NEW f, Good(f)
    PROVE  /\ BS \in Nat \ {0} /\ AllowHoles \in BOOLEAN /\ Top \in Nat
           /\ SizeOf(f) \in Nat /\ Reads(f) \in Int /\ Writes(f) \in Nat
           /\ f.cblk \in Nat /\ f.cdata \in Seq(Int) /\ Len(f.cdata) \in Nat /\ Len(f.cdata) <= BS
           /\ f.ok \in BOOLEAN /\ f.threw \in BOOLEAN
           /\ \A i \in 1..SizeOf(f) : ByteAt(f, i) \in Int
           /\ Stays(f, f)
BY LenProperties DEF LayerKeeps, LayerTyped, LayerStays

\* What is promised from step to step is promised of the last.
LEMMA Later ==
    ASSUME LayerKeeps, NEW f, NEW g, NEW h, Stays(f, g), Stays(g, h)
    PROVE  Stays(f, h)
BY DEF LayerKeeps, LayerStays

\* So are the plain bytes.
LEMMA SameAsSame ==
    ASSUME NEW f, NEW g, NEW h, Same(f, g), Same(g, h)
    PROVE  Same(f, h) /\ Same(g, f)
BY DEF Same

\* A block has at most BS bytes, and they are in the file.
LEMMA HasIs ==
    ASSUME LayerKeeps, NEW f, Good(f), NEW b \in Nat
    PROVE  /\ b * BS \in Nat /\ Has(f, b) \in Nat /\ Has(f, b) <= BS
           /\ Has(f, b) # 0 <=> b * BS < SizeOf(f)
           /\ Has(f, b) # 0 => b * BS + Has(f, b) <= SizeOf(f)
           /\ Has(f, b) < BS => SizeOf(f) <= b * BS + Has(f, b)
<1> DEFINE at == b * BS
           n == SizeOf(f)
<1>1. at \in Nat /\ BS \in Nat \ {0} /\ n \in Nat
  BY Typed, TimesIs DEF LayerKeeps
<1>2. Has(f, b) = IF n <= at THEN 0 ELSE Least(BS, n - at)
  BY DEF Has
<1> HIDE DEF at, n
<1>3. /\ at \in Nat /\ Has(f, b) \in Nat /\ Has(f, b) <= BS
      /\ Has(f, b) # 0 <=> at < n
      /\ Has(f, b) # 0 => at + Has(f, b) <= n
      /\ Has(f, b) < BS => n <= at + Has(f, b)
  BY <1>1, <1>2 DEF Least
<1> QED
  BY <1>3 DEF at, n

\* A part of the bytes of a file is one of any with the same.
LEMMA SamePart ==
    ASSUME NEW f, NEW g, Same(f, g), SizeOf(f) \in Nat, NEW off \in Nat, NEW n \in Nat,
           n = 0 \/ off + n <= SizeOf(f), NEW s, IsPart(s, f, off, n)
    PROVE  IsPart(s, g, off, n)
<1>1. \A i \in 1..n : off + i \in 1..SizeOf(f)
  OBVIOUS
<1> QED
  BY <1>1 DEF Same, IsPart

\* What is cached stays true when the plain bytes stay.
LEMMA StillCached ==
    ASSUME NEW f, NEW g, Same(f, g), g.cblk = f.cblk, g.cdata = f.cdata,
           LayerKeeps, Sound(f), Good(g)
    PROVE  Sound(g)
<1> DEFINE b == f.cblk
<1>1. Good(f) /\ b \in Nat /\ SizeOf(f) \in Nat /\ SizeOf(g) = SizeOf(f)
  BY Typed DEF Sound, Same
<1>2. Has(g, b) = Has(f, b)
  BY <1>1 DEF Has
<1>3. /\ b * BS \in Nat /\ Has(f, b) \in Nat
      /\ Has(f, b) = 0 \/ b * BS + Has(f, b) <= SizeOf(f)
  BY <1>1, HasIs
<1>4. Cached(f)
  BY DEF Sound
<1>5. ASSUME IsPart(f.cdata, f, b * BS, Has(f, b)) PROVE IsPart(f.cdata, g, b * BS, Has(g, b))
  <2> DEFINE at == b * BS
             n == Has(f, b)
  <2>1. at \in Nat /\ n \in Nat /\ (n = 0 \/ at + n <= SizeOf(f)) /\ IsPart(f.cdata, f, at, n)
    BY <1>3, <1>5
  <2> HIDE DEF at, n
  <2>2. IsPart(f.cdata, g, at, n)
    BY <1>1, <2>1, SamePart
  <2> QED
    BY <1>2, <2>2 DEF at, n
<1> QED
  BY <1>1, <1>4, <1>5 DEF Sound, Cached, Coherent, Within

\* Nothing cached.
LEMMA Uncached ==
    ASSUME NEW g, Good(g), g.cdata = <<>> PROVE Sound(g)
BY DEF Sound, Cached, Coherent, Within

\* The cache set, the rest left.
LEMMA CacheSet ==
    ASSUME LayerKeeps, NEW f, Good(f), NEW b \in Nat, b <= Top, NEW d \in Seq(Int), Len(d) <= BS
    PROVE  LET g == CacheTo(f, b, d)
           IN Beside(f, g) /\ g.cblk = b /\ g.cdata = d /\ g.ok = f.ok
<1>1. b \in 0..Top
  BY DEF LayerKeeps, LayerTyped
<1> QED
  BY <1>1 DEF LayerKeeps, LayerCache

\* The cache cleared, the rest left.
LEMMA CacheCleared ==
    ASSUME LayerKeeps, NEW f, Good(f)
    PROVE  LET g == NoCache(f)
           IN Beside(f, g) /\ g.cblk = f.cblk /\ g.cdata = <<>> /\ g.ok = f.ok
BY DEF LayerKeeps, LayerCache

\* The outcome of the last write forgotten.
LEMMA OkSet ==
    ASSUME LayerKeeps, NEW f, Sound(f)
    PROVE  LET g == AsOk(f)
           IN Sound(g) /\ Beside(f, g) /\ g.ok
<1> DEFINE g == AsOk(f)
<1>1. Good(f)
  BY DEF Sound
<1>2. Beside(f, g) /\ g.cblk = f.cblk /\ g.cdata = f.cdata /\ g.ok
  BY <1>1 DEF LayerKeeps, LayerCache
<1> HIDE DEF g
<1>3. Sound(g)
  BY <1>2, StillCached DEF Beside
<1> QED
  BY <1>2, <1>3 DEF g

----------------------------------------------------------------------------
(* One block through the cache.                                            *)

\* The first bytes of a part.
LEMMA SomeIs ==
    ASSUME NEW f, NEW off \in Nat, NEW m \in Nat, NEW s, IsPart(s, f, off, m), NEW n \in Nat
    PROVE  LET t == SubSeq(s, 1, Least(n, Len(s)))
           IN IsPart(t, f, off, Least(n, m)) /\ (t = <<>> <=> Least(n, m) = 0)
<1> DEFINE k == Least(n, m)
           t == SubSeq(s, 1, k)
<1>1. s \in Seq(Int) /\ Len(s) = m /\ \A i \in 1..m : s[i] = ByteAt(f, off + i)
  BY DEF IsPart
<1>2. k \in Nat /\ k <= m
  BY DEF Least
<1> HIDE DEF k
<1>3. t \in Seq(Int) /\ Len(t) = k /\ \A i \in 1..k : t[i] = s[i]
  <2>1. /\ t \in Seq(Int) /\ Len(t) = (IF 1 <= k THEN k - 1 + 1 ELSE 0)
        /\ \A i \in 1..Len(t) : t[i] = s[1 + i - 1]
    BY <1>1, <1>2, PartIs
  <2>2. Len(t) = k
    BY <1>2, <2>1
  <2> HIDE DEF t
  <2>3. \A i \in 1..k : 1 + i - 1 = i
    BY <1>2
  <2> QED
    BY <2>1, <2>2, <2>3
<1>4. \A i \in 1..k : i \in 1..m
  BY <1>2
<1>5. IsPart(t, f, off, k)
  BY <1>1, <1>3, <1>4 DEF IsPart
<1>6. t = <<>> <=> k = 0
  BY <1>3, EmptySeq
<1> QED
  BY <1>1, <1>5, <1>6 DEF k, t

\* One block through the cache (BlockFileIO.cpp:51-87): what comes back is what there
\* is of it, unless the read failed.
LEMMA CacheReadIs ==
    ASSUME LayerKeeps, NEW f, Sound(f), ~f.threw, Reads(f) >= 0,
           NEW b \in Nat, b <= Top \/ SizeOf(f) <= b * BS,
           NEW n \in Nat, n <= BS, n = 0 \/ ~Stale(f, b)
    PROVE  LET r == CacheRead(f, b, n)
           IN /\ Sound(r.f) /\ Same(f, r.f) /\ Stays(f, r.f)
              /\ Writes(r.f) = Writes(f) /\ r.f.ok = f.ok /\ r.failed \in BOOLEAN
              /\ ~r.failed => /\ IsPart(r.data, f, b * BS, Least(n, Has(f, b)))
                              /\ ~r.f.threw /\ Reads(r.f) >= Reads(f) - 1
                              /\ r.data # <<>> => Reads(r.f) >= 0 /\ r.f.cblk = b
              /\ r.failed => r.data = <<>> /\ (r.f.threw \/ Reads(f) = 0)
<1> DEFINE Some(s) == SubSeq(s, 1, Least(n, Len(s)))
           hit == f.cdata # <<>> /\ f.cblk = b
           e == NoCache(f)
           r == ReadOne(e, b)
           at == b * BS
           has == Has(f, b)
           g == CacheTo(r.f, b, r.data)
           q == CacheRead(f, b, n)
<1>1. /\ Good(f) /\ Cached(f) /\ at \in Nat /\ has \in Nat /\ has <= BS /\ BS \in Nat \ {0}
      /\ (has # 0 <=> at < SizeOf(f)) /\ SizeOf(f) \in Nat /\ Top \in Nat
      /\ (has # 0 => at + has <= SizeOf(f)) /\ Reads(f) \in Int /\ Stays(f, f)
      /\ f.cdata \in Seq(Int)
  BY HasIs, Typed DEF Sound
<1>2. q = IF hit THEN [f |-> f, data |-> Some(f.cdata), failed |-> FALSE]
          ELSE IF r.data = <<>> THEN r
          ELSE [f |-> g, data |-> Some(r.data), failed |-> FALSE]
  BY DEF CacheRead, NoCache, CacheTo
<1>3. Same(f, f)
  BY DEF Same
<1>4. CASE hit
  <2>1. q.f = f /\ q.data = Some(f.cdata) /\ q.failed = FALSE
    <3> HIDE DEF hit, Some, q
    <3> QED
      BY <1>2, <1>4
  <2>2. IsPart(Some(f.cdata), f, at, Least(n, has))
    <3>1. CASE n = 0
      <4>1. Least(n, Len(f.cdata)) = 0 /\ Least(n, has) = 0
        BY <1>1, <3>1, LenProperties DEF Least
      <4>2. Some(f.cdata) = <<>>
        BY <4>1, SubSeqEmpty
      <4> QED
        BY <4>1, <4>2, EmptySeq DEF IsPart
    <3>2. CASE n # 0
      <4>1. at < SizeOf(f)
        BY <1>1, <1>4, <3>2 DEF Stale
      <4>2. IsPart(f.cdata, f, at, has)
        BY <1>1, <1>4, <4>1 DEF Cached, Coherent
      <4> QED
        BY <1>1, <4>2, SomeIs
    <3> QED
      BY <3>1, <3>2
  <2> HIDE DEF q, Some
  <2>3. Sound(q.f) /\ Same(f, q.f) /\ Stays(f, q.f) /\ q.f.cblk = b /\ Reads(q.f) >= 0
        /\ Writes(q.f) = Writes(f) /\ q.f.ok = f.ok /\ q.failed = FALSE /\ ~q.f.threw
        /\ Reads(q.f) >= Reads(f) - 1
    BY <1>1, <1>3, <1>4, <2>1
  <2> QED
    BY <2>1, <2>2, <2>3 DEF q
<1>5. ASSUME ~hit
      PROVE  /\ Good(r.f) /\ Same(f, r.f) /\ Stays(f, r.f) /\ Writes(r.f) = Writes(f)
             /\ r.f.cdata = <<>> /\ r.f.ok = f.ok /\ r.failed \in BOOLEAN
             /\ ~r.failed => /\ IsPart(r.data, f, at, has)
                             /\ ~r.f.threw /\ Reads(r.f) >= Reads(f) - 1
                             /\ r.data # <<>> => Reads(r.f) >= 0
             /\ r.failed => r.data = <<>> /\ (r.f.threw \/ Reads(f) = 0)
  <2>1. Beside(f, e) /\ e.cdata = <<>> /\ e.ok = f.ok
    BY <1>1, CacheCleared
  <2> HIDE DEF e
  <2>2. /\ Good(e) /\ ~e.threw /\ Reads(e) >= 0 /\ Reads(e) = Reads(f) /\ Same(f, e)
        /\ Stays(f, e) /\ Writes(e) = Writes(f)
    BY <2>1 DEF Beside
  <2>3. /\ Good(r.f) /\ Same(e, r.f) /\ Stays(e, r.f) /\ Writes(r.f) = Writes(e)
        /\ r.f.cdata = e.cdata /\ r.f.ok = e.ok /\ r.failed \in BOOLEAN
        /\ ~r.failed => /\ IsPart(r.data, e, b * BS, Has(e, b))
                        /\ ~r.f.threw /\ Reads(r.f) >= Reads(e) - 1
                        /\ r.data # <<>> => Reads(r.f) >= 0
        /\ r.failed => r.data = <<>> /\ (r.f.threw \/ Reads(e) = 0)
    BY <2>2 DEF LayerKeeps, LayerRead
  <2>4. Has(e, b) = has /\ SizeOf(e) = SizeOf(f)
    BY <2>2 DEF Has, Same
  <2>5. Same(e, f) /\ Same(f, r.f)
    BY <2>2, <2>3, SameAsSame
  <2>6. Stays(f, r.f)
    BY <2>2, <2>3, Later
  <2>7. ASSUME IsPart(r.data, e, at, has) PROVE IsPart(r.data, f, at, has)
    <3> HIDE DEF at, has, r
    <3>1. SizeOf(e) \in Nat /\ (has = 0 \/ at + has <= SizeOf(e))
      BY <1>1, <2>4
    <3> QED
      BY <1>1, <2>5, <2>7, <3>1, SamePart
  <2> HIDE DEF r
  <2> QED
    BY <2>1, <2>2, <2>3, <2>4, <2>5, <2>6, <2>7
<1>6. CASE ~hit /\ r.data = <<>>
  <2>1. q = r
    BY <1>2, <1>6
  <2> HIDE DEF q, r, hit, at, has
  <2>2. Sound(r.f)
    BY <1>5, <1>6, Uncached
  <2>3. ASSUME ~r.failed PROVE IsPart(r.data, f, at, Least(n, has))
    <3>1. IsPart(r.data, f, at, has) /\ Len(r.data) = has /\ Len(r.data) = 0
      BY <1>5, <1>6, <2>3, EmptySeq DEF IsPart
    <3>2. Least(n, has) = has
      BY <1>1, <3>1 DEF Least
    <3> QED
      BY <3>1, <3>2
  <2> QED
    BY <1>5, <1>6, <2>1, <2>2, <2>3 DEF q, at, has
<1>7. CASE ~hit /\ r.data # <<>>
  <2>1. q = [f |-> g, data |-> Some(r.data), failed |-> FALSE]
    BY <1>2, <1>7
  <2>2. q.f = g /\ q.data = Some(r.data) /\ q.failed = FALSE
    <3> HIDE DEF q, g, Some
    <3> QED
      BY <2>1
  <2> HIDE DEF hit, at, has, r, q
  <2>3. /\ IsPart(r.data, f, at, has) /\ ~r.failed /\ ~r.f.threw /\ Reads(r.f) >= Reads(f) - 1
        /\ Reads(r.f) >= 0
    BY <1>5, <1>7
  <2>4. r.data \in Seq(Int) /\ Len(r.data) = has /\ Len(r.data) <= BS /\ has # 0
    BY <1>1, <1>7, <2>3, EmptySeq DEF IsPart
  <2>5. b <= Top
    BY <1>1, <2>4 DEF at
  <2>6. Beside(r.f, g) /\ g.cblk = b /\ g.cdata = r.data /\ g.ok = r.f.ok
    BY <1>5, <1>7, <2>4, <2>5, CacheSet
  <2> HIDE DEF g
  <2>7. /\ Good(g) /\ Same(r.f, g) /\ Stays(r.f, g) /\ Reads(g) = Reads(r.f)
        /\ Writes(g) = Writes(r.f) /\ g.threw = r.f.threw
    BY <2>6 DEF Beside
  <2>8. Same(f, g) /\ Stays(f, g)
    BY <1>5, <1>7, <2>7, SameAsSame, Later
  <2>9. Has(g, b) = has /\ SizeOf(g) = SizeOf(f)
    BY <2>8 DEF Same, Has, has
  <2>10. IsPart(r.data, g, at, has)
    BY <1>1, <2>3, <2>8, SamePart
  <2>11. Sound(g)
    BY <1>1, <2>4, <2>6, <2>7, <2>9, <2>10 DEF Sound, Cached, Coherent, Within, at
  <2>12. IsPart(Some(r.data), f, at, Least(n, has))
    BY <1>1, <2>3, SomeIs
  <2> HIDE DEF Some
  <2> QED
    BY <1>5, <1>7, <2>2, <2>3, <2>6, <2>7, <2>8, <2>11, <2>12 DEF q, at, has
<1> QED
  BY <1>4, <1>6, <1>7

\* What was written, seen through another cache.
LEMMA PutSame ==
    ASSUME NEW f, NEW off, NEW d, NEW h, Put(f, off, d, h), NEW g, Same(h, g)
    PROVE  Put(f, off, d, g)
BY DEF Put, Same

\* One block written through the cache (BlockFileIO.cpp:89-100): it is on disk and
\* cached, or neither.
LEMMA CacheWriteIs ==
    ASSUME LayerKeeps, NEW f, Good(f), ~f.threw, NEW b \in Nat, b <= Top,
           NEW d \in Seq(Int), d # <<>>, Len(d) <= BS,
           Writes(f) = 0 \/ (Reached(f, b) /\ (Len(d) = BS \/ SizeOf(f) <= b * BS + Len(d)))
    PROVE  LET g == CacheWrite(f, b, d)
           IN /\ Sound(g) /\ Stays(f, g) /\ ~g.threw /\ Reads(g) >= Reads(f)
              /\ Writes(f) = 0 => ~g.ok /\ Same(f, g) /\ Writes(g) = 0
              /\ Writes(f) > 0 => g.ok /\ Put(f, b * BS, d, g) /\ Writes(g) = Writes(f) - 1
<1> DEFINE h == WriteOne(f, b, d)
           x == IF h.ok THEN d ELSE <<>>
           g == CacheTo(h, b, x)
           at == b * BS
<1>1. Writes(f) \in Nat /\ at \in Nat /\ BS \in Nat \ {0} /\ Len(d) \in Nat \ {0} /\ SizeOf(f) \in Nat
  BY Typed, TimesIs, LenProperties, EmptySeq DEF LayerKeeps
<1>2. CacheWrite(f, b, d) = g
  BY DEF CacheWrite, CacheTo
<1>3. /\ Good(h) /\ Stays(f, h) /\ ~h.threw /\ Reads(h) >= Reads(f)
      /\ Writes(f) = 0 => Same(f, h) /\ ~h.ok /\ Writes(h) = 0
      /\ Writes(f) > 0 => Put(f, at, d, h) /\ h.ok /\ Writes(h) = Writes(f) - 1
  <2>1. Writes(f) = 0 => /\ Good(h) /\ Same(f, h) /\ Stays(f, h) /\ ~h.ok /\ ~h.threw
                         /\ Writes(h) = 0 /\ Reads(h) >= Reads(f)
    BY DEF LayerKeeps, LayerWrite, OneWritten
  <2>2. Writes(f) > 0 => /\ Good(h) /\ Put(f, at, d, h) /\ Stays(f, h) /\ h.ok /\ ~h.threw
                         /\ Writes(h) = Writes(f) - 1 /\ Reads(h) >= Reads(f)
    BY <1>1 DEF LayerKeeps, LayerWrite, OneWritten
  <2> HIDE DEF h
  <2> QED
    BY <1>1, <2>1, <2>2
<1> HIDE DEF h
<1>4. x \in Seq(Int) /\ Len(x) <= BS
  BY <1>1, EmptySeq
<1>5. Beside(h, g) /\ g.cblk = b /\ g.cdata = x /\ g.ok = h.ok
  <2> HIDE DEF x
  <2> QED
    BY <1>3, <1>4, CacheSet
<1> HIDE DEF g
<1>6. /\ Good(g) /\ Same(h, g) /\ Stays(h, g) /\ Reads(g) = Reads(h) /\ Writes(g) = Writes(h)
      /\ g.threw = h.threw
  BY <1>5 DEF Beside
<1>7. Stays(f, g)
  BY <1>3, <1>6, Later
<1>8. CASE Writes(f) = 0
  <2>1. Same(f, g) /\ g.cdata = <<>>
    BY <1>3, <1>5, <1>6, <1>8, SameAsSame
  <2>2. Sound(g)
    BY <1>6, <2>1, Uncached
  <2> QED
    BY <1>1, <1>2, <1>3, <1>5, <1>6, <1>7, <1>8, <2>1, <2>2
<1>9. CASE Writes(f) # 0
  <2>0. Writes(f) > 0
    BY <1>1, <1>9
  <2>1. Put(f, at, d, g) /\ g.cdata = d /\ g.ok /\ Writes(g) = Writes(f) - 1
    BY <1>3, <1>5, <1>6, <2>0, PutSame
  <2>2. /\ SizeOf(g) = Most(SizeOf(f), at + Len(d))
        /\ \A i \in 1..SizeOf(g) :
             ByteAt(g, i) = IF i \in at + 1 .. at + Len(d) THEN d[i - at] ELSE ByteOr0(f, i)
    BY <2>1 DEF Put
  <2>3. Has(g, b) = IF SizeOf(g) <= at THEN 0 ELSE Least(BS, SizeOf(g) - at)
    BY DEF Has
  <2>4. Len(d) = BS \/ SizeOf(f) <= at + Len(d)
    BY <1>9
  <2> HIDE DEF at
  <2>5. at < SizeOf(g) /\ Has(g, b) = Len(d)
    BY <1>1, <2>2, <2>3, <2>4 DEF Least, Most
  <2>6. \A i \in 1..Len(d) : /\ at + i \in 1..SizeOf(g) /\ at + i \in at + 1 .. at + Len(d)
                             /\ at + i - at = i
    BY <1>1, <2>2, <2>4 DEF Most
  <2>7. ASSUME NEW i \in 1..Len(d) PROVE ByteAt(g, at + i) = d[i]
    <3> DEFINE j == at + i
    <3>1. j \in 1..SizeOf(g) /\ j \in at + 1 .. at + Len(d) /\ j - at = i
      BY <1>1, <2>2, <2>6, <2>7 DEF Most
    <3> HIDE DEF j
    <3>2. ByteAt(g, j) = d[j - at]
      BY <2>2, <3>1
    <3> QED
      BY <3>1, <3>2 DEF j
  <2>8. IsPart(d, g, at, Len(d))
    BY <2>7 DEF IsPart
  <2>9. Sound(g)
    BY <1>5, <1>6, <2>1, <2>5, <2>8 DEF Sound, Cached, Coherent, Within, at
  <2> QED
    BY <1>2, <1>3, <1>6, <1>7, <2>0, <2>1, <2>9 DEF at
<1> QED
  BY <1>8, <1>9

\* Nothing runs after an exception.
LEMMA NothingWritten ==
    ASSUME NEW f, f.threw, NEW b, NEW d PROVE CacheWrite(f, b, d) = f
BY DEF CacheWrite

----------------------------------------------------------------------------
(* Zeros.                                                                  *)

\* Zeros written.
LEMMA ZerosAre ==
    ASSUME NEW n \in Nat
    PROVE  Zeros(n) \in Seq(Int) /\ Len(Zeros(n)) = n /\ \A i \in 1..n : Zeros(n)[i] = 0
<1> DEFINE z == [i \in 1..n |-> 0]
<1>1. z \in [1..n -> Int]
  OBVIOUS
<1>2. z \in Seq(Int)
  BY <1>1, SeqDef
<1>3. Len(z) = n
  BY <1>1, <1>2, LenProperties
<1> QED
  BY <1>2, <1>3 DEF Zeros

\* A block filled up with zeros.
LEMMA PaddedIs ==
    ASSUME NEW s \in Seq(Int), NEW n \in Nat, Len(s) <= n
    PROVE  /\ Padded(s, n) \in Seq(Int) /\ Len(Padded(s, n)) = n
           /\ \A i \in 1..n : Padded(s, n)[i] = IF i <= Len(s) THEN s[i] ELSE 0
<1> DEFINE k == n - Len(s)
           z == Zeros(k)
           p == s \o z
<1>1. Len(s) \in Nat /\ k \in Nat
  BY LenProperties
<1> HIDE DEF k
<1>2. z \in Seq(Int) /\ Len(z) = k /\ \A i \in 1..k : z[i] = 0
  BY <1>1, ZerosAre
<1> HIDE DEF z
<1>3. /\ p \in Seq(Int) /\ Len(p) = Len(s) + Len(z)
      /\ \A i \in 1..(Len(s) + Len(z)) : p[i] = IF i <= Len(s) THEN s[i] ELSE z[i - Len(s)]
  BY <1>2, ConcatProperties
<1>4. Len(s) + k = n
  BY <1>1 DEF k
<1>5. Padded(s, n) = p
  BY DEF Padded, p, z, k
<1> HIDE DEF p
<1>6. ASSUME NEW i \in 1..n PROVE p[i] = IF i <= Len(s) THEN s[i] ELSE 0
  <2>1. i \in 1..(Len(s) + Len(z))
    BY <1>2, <1>4
  <2>2. ~(i <= Len(s)) => i - Len(s) \in 1..k
    BY <1>1, <1>4
  <2> QED
    BY <1>2, <1>3, <2>1, <2>2
<1> QED
  BY <1>2, <1>3, <1>4, <1>5, <1>6

\* A file as it was has grown by nothing, and what has grown may grow on.
LEMMA GrownBack ==
    ASSUME LayerKeeps, NEW f, NEW g, Good(f), Good(g)
    PROVE  /\ Same(f, g) => Grown(f, g)
           /\ \A h : Good(h) /\ Grown(f, g) /\ Grown(g, h) => Grown(f, h)
<1>1. SizeOf(f) \in Nat /\ SizeOf(g) \in Nat
  BY Typed
<1>2. Same(f, g) => Grown(f, g)
  BY <1>1 DEF Same, Grown, ByteOr0
<1>3. ASSUME NEW h, Good(h), Grown(f, g), Grown(g, h) PROVE Grown(f, h)
  <2>1. SizeOf(h) \in Nat
    BY <1>3, Typed
  <2>2. /\ SizeOf(g) >= SizeOf(f) /\ SizeOf(h) >= SizeOf(g)
        /\ \A i \in 1..SizeOf(g) : ByteAt(g, i) = ByteOr0(f, i)
        /\ \A i \in 1..SizeOf(h) : ByteAt(h, i) = ByteOr0(g, i)
    BY <1>3 DEF Grown
  <2>3. ASSUME NEW i \in 1..SizeOf(h) PROVE ByteAt(h, i) = ByteOr0(f, i)
    <3>1. CASE i <= SizeOf(g)
      <4>1. i \in 1..SizeOf(g)
        BY <1>1, <2>1, <3>1
      <4> QED
        BY <2>2, <3>1, <4>1 DEF ByteOr0
    <3>2. CASE ~(i <= SizeOf(g))
      <4>1. ~(i <= SizeOf(f))
        BY <1>1, <2>1, <2>2, <3>2
      <4> QED
        BY <2>2, <3>2, <4>1 DEF ByteOr0
    <3> QED
      BY <3>1, <3>2
  <2>4. SizeOf(h) >= SizeOf(f)
    BY <1>1, <2>1, <2>2
  <2> QED
    BY <2>3, <2>4 DEF Grown
<1> QED
  BY <1>2, <1>3

\* What was written is zeros, or what was there, so that the file has only grown.
LEMMA PutGrown ==
    ASSUME LayerKeeps, NEW f, Good(f), NEW off \in Nat, NEW d \in Seq(Int), NEW g, Good(g),
           Put(f, off, d, g), \A i \in 1..Len(d) : d[i] = ByteOr0(f, off + i)
    PROVE  Grown(f, g)
<1>1. SizeOf(f) \in Nat /\ SizeOf(g) \in Nat /\ Len(d) \in Nat
  BY Typed, LenProperties
<1>2. /\ SizeOf(g) = Most(SizeOf(f), off + Len(d))
      /\ \A i \in 1..SizeOf(g) :
           ByteAt(g, i) = IF i \in off + 1 .. off + Len(d) THEN d[i - off] ELSE ByteOr0(f, i)
  BY DEF Put
<1>3. \A i \in 1..Len(d) : d[i] = ByteOr0(f, off + i)
  OBVIOUS
<1>4. ASSUME NEW i \in 1..SizeOf(g) PROVE ByteAt(g, i) = ByteOr0(f, i)
  <2>1. CASE i \in off + 1 .. off + Len(d)
    <3>1. i - off \in 1..Len(d) /\ off + (i - off) = i
      BY <1>1, <2>1
    <3>2. d[i - off] = ByteOr0(f, i)
      BY <1>3, <3>1
    <3> QED
      BY <1>2, <2>1, <3>2
  <2>2. CASE i \notin off + 1 .. off + Len(d)
    BY <1>2, <2>2
  <2> QED
    BY <2>1, <2>2
<1>5. SizeOf(g) >= SizeOf(f)
  BY <1>1, <1>2 DEF Most
<1> QED
  BY <1>4, <1>5 DEF Grown

----------------------------------------------------------------------------
(* Loops as chains of states.                                              *)

\* One round of a loop, and the states after 0, 1, ... n rounds of it.
Round(loop, s) ==
    IF loop = "read" THEN ReadRound(s)
    ELSE IF loop = "write" THEN WriteRound(s) ELSE PadRound(s)

IsChain(g, loop, start, n) ==
    g = [k \in 0..n |-> IF k = 0 THEN start ELSE Round(loop, g[k - 1])]

\* The states after every number of rounds up to n.
LEMMA ChainThere ==
    ASSUME NEW loop, NEW start, NEW n \in Nat
    PROVE  \E g : IsChain(g, loop, start, n)
<1> DEFINE Chain(g, m) == g = [k \in 0..m |-> IF k = 0 THEN start ELSE Round(loop, g[k - 1])]
           T == {m \in 0..n : ~ \E g : Chain(g, m)}
<1> SUFFICES ASSUME T # {} PROVE FALSE
  <2>1. n \notin T => \E g : Chain(g, n)
    <3> HIDE DEF Chain
    <3> QED
      OBVIOUS
  <2> QED
    BY <2>1 DEF IsChain
<1>1. PICK m \in T : \A y \in T : m <= y
  <2>1. T \subseteq Nat
    OBVIOUS
  <2> HIDE DEF T
  <2> QED
    BY <2>1, LeastNumber
<1>2. CASE m = 0
  <2> DEFINE g == [k \in 0..0 |-> start]
  <2>1. Chain(g, 0)
    OBVIOUS
  <2> HIDE DEF g, Chain
  <2> QED
    BY <1>2, <2>1
<1>3. CASE m # 0
  <2>1. m - 1 \in 0..n /\ m - 1 \notin T
    BY <1>1, <1>3
  <2>2. PICK f : Chain(f, m - 1)
    BY <2>1
  <2> DEFINE g == [k \in 0..m |-> IF k = m THEN Round(loop, f[m - 1]) ELSE f[k]]
  <2>3. \A k \in 0..m : g[k] = IF k = 0 THEN start ELSE Round(loop, g[k - 1])
    <3> SUFFICES ASSUME NEW k \in 0..m PROVE g[k] = IF k = 0 THEN start ELSE Round(loop, g[k - 1])
      OBVIOUS
    <3>1. CASE k = m
      BY <1>3, <3>1
    <3>2. CASE k # m
      <4>1. k \in 0..(m - 1) /\ (k # 0 => k - 1 \in 0..(m - 1) /\ k - 1 # m)
        BY <3>2
      <4>2. f[k] = IF k = 0 THEN start ELSE Round(loop, f[k - 1])
        BY <2>2, <4>1
      <4> QED
        BY <3>2, <4>1, <4>2
    <3> QED
      BY <3>1, <3>2
  <2>4. Chain(g, m)
    BY <2>3
  <2> HIDE DEF g, Chain
  <2> QED
    BY <2>4
<1> QED
  BY <1>2, <1>3

\* What every round of a read keeps holds after all of them; so it does
LEMMA ReadRounds ==
    ASSUME NEW start, NEW n \in Nat
    PROVE  \E g : /\ g[0] = start
                  /\ \A k \in 1..n : g[k] = ReadRound(g[k - 1])
                  /\ Rounds(ReadRound, start, n) = g[n]
<1> DEFINE after == CHOOSE g : g = [k \in 0..n |-> IF k = 0 THEN start ELSE ReadRound(g[k - 1])]
<1>1. PICK g : IsChain(g, "read", start, n)
  BY ChainThere
<1>2. \A s : Round("read", s) = ReadRound(s)
  BY DEF Round
<1>3. g = [k \in 0..n |-> IF k = 0 THEN start ELSE ReadRound(g[k - 1])]
  BY <1>1, <1>2 DEF IsChain
<1>4. after = [k \in 0..n |-> IF k = 0 THEN start ELSE ReadRound(after[k - 1])]
  BY <1>3
<1>5. Rounds(ReadRound, start, n) = after[n]
  BY DEF Rounds
<1> HIDE DEF after
<1>6. after[0] = start /\ \A k \in 1..n : after[k] = ReadRound(after[k - 1])
  BY <1>4
<1> QED
  BY <1>5, <1>6

\* of a write,
LEMMA WriteRounds ==
    ASSUME NEW start, NEW n \in Nat
    PROVE  \E g : /\ g[0] = start
                  /\ \A k \in 1..n : g[k] = WriteRound(g[k - 1])
                  /\ Rounds(WriteRound, start, n) = g[n]
<1> DEFINE after == CHOOSE g : g = [k \in 0..n |-> IF k = 0 THEN start ELSE WriteRound(g[k - 1])]
<1>1. PICK g : IsChain(g, "write", start, n)
  BY ChainThere
<1>2. \A s : Round("write", s) = WriteRound(s)
  BY DEF Round
<1>3. g = [k \in 0..n |-> IF k = 0 THEN start ELSE WriteRound(g[k - 1])]
  BY <1>1, <1>2 DEF IsChain
<1>4. after = [k \in 0..n |-> IF k = 0 THEN start ELSE WriteRound(after[k - 1])]
  BY <1>3
<1>5. Rounds(WriteRound, start, n) = after[n]
  BY DEF Rounds
<1> HIDE DEF after
<1>6. after[0] = start /\ \A k \in 1..n : after[k] = WriteRound(after[k - 1])
  BY <1>4
<1> QED
  BY <1>5, <1>6

\* and of the padding of whole blocks.
LEMMA PadRounds ==
    ASSUME NEW start, NEW n \in Nat
    PROVE  \E g : /\ g[0] = start
                  /\ \A k \in 1..n : g[k] = PadRound(g[k - 1])
                  /\ Rounds(PadRound, start, n) = g[n]
<1> DEFINE after == CHOOSE g : g = [k \in 0..n |-> IF k = 0 THEN start ELSE PadRound(g[k - 1])]
<1>1. PICK g : IsChain(g, "pad", start, n)
  BY ChainThere
<1>2. \A s : Round("pad", s) = PadRound(s)
  BY DEF Round
<1>3. g = [k \in 0..n |-> IF k = 0 THEN start ELSE PadRound(g[k - 1])]
  BY <1>1, <1>2 DEF IsChain
<1>4. after = [k \in 0..n |-> IF k = 0 THEN start ELSE PadRound(after[k - 1])]
  BY <1>3
<1>5. Rounds(PadRound, start, n) = after[n]
  BY DEF Rounds
<1> HIDE DEF after
<1>6. after[0] = start /\ \A k \in 1..n : after[k] = PadRound(after[k - 1])
  BY <1>4
<1> QED
  BY <1>5, <1>6

----------------------------------------------------------------------------
(* Padding.                                                                *)

\* A file f padded from one block to another: as far as writes succeeded.
PadInv(f, from, g, b) ==
    /\ Sound(g) /\ Stays(f, g) /\ Grown(f, g) /\ ~g.threw
    /\ Reads(g) >= Reads(f) /\ Writes(g) + (b - from) >= Writes(f)
    /\ SizeOf(g) = b * BS \/ (Writes(g) = 0 /\ SizeOf(g) <= b * BS)

\* One block of the padding (BlockFileIO.cpp:339-350).
LEMMA PadRoundKeeps ==
    ASSUME LayerKeeps, NEW f, Good(f), NEW from \in Nat, NEW g,
           NEW b \in Nat, b <= Top, PadInv(f, from, g, b)
    PROVE  PadInv(f, from, CacheWrite(g, b, Zeros(BS)), b + 1)
<1> DEFINE z == Zeros(BS)
           h == CacheWrite(g, b, z)
           at == b * BS
<1>1. Sound(g) /\ Good(g) /\ ~g.threw /\ Stays(f, g) /\ Grown(f, g)
  BY DEF PadInv, Sound
<1>2. /\ BS \in Nat \ {0} /\ at \in Nat /\ (b + 1) * BS = at + BS
      /\ SizeOf(g) \in Nat /\ Reads(f) \in Int /\ Reads(g) \in Int
      /\ Writes(f) \in Nat /\ Writes(g) \in Nat
  BY <1>1, Typed, TimesIs DEF LayerKeeps
<1>3. z \in Seq(Int) /\ Len(z) = BS /\ z # <<>> /\ \A i \in 1..BS : z[i] = 0
  BY <1>2, ZerosAre, EmptySeq
<1>4. SizeOf(g) = at \/ (Writes(g) = 0 /\ SizeOf(g) <= at)
  BY DEF PadInv
<1>5. Writes(g) = 0 \/ Reached(g, b)
  BY <1>2, <1>4 DEF Reached
<1> HIDE DEF z, h
<1>6. /\ Sound(h) /\ Stays(g, h) /\ ~h.threw /\ Reads(h) >= Reads(g)
      /\ Writes(g) = 0 => ~h.ok /\ Same(g, h) /\ Writes(h) = 0
      /\ Writes(g) > 0 => h.ok /\ Put(g, at, z, h) /\ Writes(h) = Writes(g) - 1
  <2>1. /\ Sound(h) /\ Stays(g, h) /\ ~h.threw /\ Reads(h) >= Reads(g)
        /\ Writes(g) = 0 => ~h.ok /\ Same(g, h) /\ Writes(h) = 0
        /\ Writes(g) > 0 => h.ok /\ Put(g, b * BS, z, h) /\ Writes(h) = Writes(g) - 1
    BY <1>1, <1>2, <1>3, <1>5, CacheWriteIs DEF h
  <2> QED
    BY <2>1
<1> HIDE DEF at
<1>7. Good(h) /\ Reads(h) \in Int /\ Writes(h) \in Nat
  BY <1>6, Typed DEF Sound
<1>8. Grown(g, h) /\ (SizeOf(h) = at + BS \/ (Writes(h) = 0 /\ SizeOf(h) <= at + BS))
  <2>1. CASE Writes(g) = 0
    <3>1. Same(g, h) /\ Grown(g, h) /\ Writes(h) = 0
      BY <1>1, <1>6, <1>7, <2>1, GrownBack
    <3> QED
      BY <1>2, <1>4, <3>1 DEF Same
  <2>2. CASE Writes(g) > 0
    <3>1. Put(g, at, z, h) /\ SizeOf(g) = at
      BY <1>2, <1>4, <1>6, <2>2
    <3>2. \A i \in 1..Len(z) : z[i] = ByteOr0(g, at + i)
      BY <1>2, <1>3, <3>1 DEF ByteOr0
    <3>3. Grown(g, h)
      BY <1>1, <1>2, <1>3, <1>7, <3>1, <3>2, PutGrown
    <3>4. SizeOf(h) = at + BS
      BY <1>2, <1>3, <3>1 DEF Put, Most
    <3> QED
      BY <3>3, <3>4
  <2> QED
    BY <1>2, <2>1, <2>2
<1>9. Grown(f, h)
  BY <1>1, <1>7, <1>8, GrownBack
<1>10. Stays(f, h)
  BY <1>1, <1>6, Later
<1>11. Reads(h) >= Reads(f) /\ Writes(h) + (b + 1 - from) >= Writes(f)
  <2>1. Reads(g) >= Reads(f) /\ Writes(g) + (b - from) >= Writes(f)
    BY DEF PadInv
  <2> QED
    BY <1>2, <1>6, <1>7, <2>1
<1>12. SizeOf(h) = (b + 1) * BS \/ (Writes(h) = 0 /\ SizeOf(h) <= (b + 1) * BS)
  BY <1>2, <1>8
<1> QED
  BY <1>6, <1>9, <1>10, <1>11, <1>12 DEF PadInv, h, z

\* padFile's loop over whole blocks.
LEMMA PadBlocksIs ==
    ASSUME LayerKeeps, NEW f, Sound(f), NEW from \in Nat, NEW last \in Nat, from <= last,
           last <= Top
    PROVE  LET g == PadBlocks(f, from, last)
           IN /\ f.threw => g = f
              /\ ~f.threw /\ (SizeOf(f) = from * BS \/ (Writes(f) = 0 /\ SizeOf(f) <= from * BS))
                   => PadInv(f, from, g, last)
<1> DEFINE n == last - from
           start == [f |-> f, blk |-> from]
<1>1. n \in Nat /\ Top \in Nat
  BY DEF LayerKeeps, LayerTyped
<1>2. PICK g : /\ g[0] = start
               /\ \A k \in 1..n : g[k] = PadRound(g[k - 1])
               /\ Rounds(PadRound, start, n) = g[n]
  <2> HIDE DEF n, start
  <2> QED
    BY <1>1, PadRounds
<1>3. PadBlocks(f, from, last) = g[n].f
  BY <1>2 DEF PadBlocks
<1>4. \A s : PadRound(s).f = CacheWrite(s.f, s.blk, Zeros(BS)) /\ PadRound(s).blk = s.blk + 1
  BY DEF PadRound
<1>5. g[0].f = f /\ g[0].blk = from
  BY <1>2
<1> HIDE DEF start
<1>6. ASSUME f.threw PROVE g[n].f = f
  <2> DEFINE K == {k \in 0..n : g[k].f = f}
  <2>1. 0 \in K
    BY <1>1, <1>5
  <2>2. ASSUME NEW k \in 1..n, k - 1 \in K PROVE k \in K
    <3>1. g[k - 1].f = f /\ k \in 0..n
      BY <1>1, <2>2
    <3>2. g[k].f = CacheWrite(f, g[k - 1].blk, Zeros(BS))
      BY <1>2, <1>4, <3>1
    <3> QED
      BY <1>6, <3>1, <3>2, NothingWritten
  <2> HIDE DEF n
  <2>3. n \in K
    <3> HIDE DEF K
    <3> QED
      BY <1>1, <2>1, <2>2, UpTo
  <2> QED
    BY <2>3
<1>7. ASSUME ~f.threw, SizeOf(f) = from * BS \/ (Writes(f) = 0 /\ SizeOf(f) <= from * BS)
      PROVE  PadInv(f, from, g[n].f, last)
  <2> DEFINE K == {k \in 0..n : g[k].blk = from + k /\ PadInv(f, from, g[k].f, from + k)}
  <2>0. Good(f) /\ Reads(f) \in Int /\ Writes(f) \in Nat /\ Stays(f, f) /\ Grown(f, f)
    <3>1. Good(f) /\ Same(f, f)
      BY DEF Sound, Same
    <3> QED
      BY <3>1, Typed, GrownBack
  <2>1. 0 \in K
    <3>1. PadInv(f, from, f, from)
      BY <1>7, <2>0 DEF PadInv
    <3>2. from + 0 = from
      OBVIOUS
    <3> QED
      BY <1>1, <1>5, <3>1, <3>2
  <2>2. ASSUME NEW k \in 1..n, k - 1 \in K PROVE k \in K
    <3> DEFINE b == from + (k - 1)
    <3>1. /\ g[k - 1].blk = b /\ PadInv(f, from, g[k - 1].f, b)
          /\ b \in Nat /\ b <= Top /\ b + 1 = from + k /\ k \in 0..n
      BY <1>1, <2>2
    <3> HIDE DEF b, n
    <3>2. g[k].f = CacheWrite(g[k - 1].f, b, Zeros(BS)) /\ g[k].blk = b + 1
      BY <1>2, <1>4, <3>1
    <3>3. PadInv(f, from, g[k].f, b + 1)
      BY <2>0, <3>1, <3>2, PadRoundKeeps
    <3> QED
      BY <3>1, <3>2, <3>3
  <2>3. from + n = last
    BY <1>1
  <2> HIDE DEF n
  <2>4. n \in K
    <3> HIDE DEF K
    <3> QED
      BY <1>1, <2>1, <2>2, UpTo
  <2> QED
    BY <2>3, <2>4
<1> QED
  BY <1>3, <1>6, <1>7

\* A file f whose last block, at most, was made full, and blocks of zeros put after it,
\* before the block b.
FilledTo(f, g, b) ==
    /\ Sound(g) /\ Stays(f, g) /\ Grown(f, g)
    /\ g.threw => Same(f, g)
    /\ ~g.threw => /\ Reads(g) >= Reads(f) - 1 /\ Writes(g) + b >= Writes(f)
                   /\ SizeOf(g) <= b * BS

\* The block the old end is in, filled up with zeros (BlockFileIO.cpp:313-338).
LEMMA FillIs ==
    ASSUME LayerKeeps, NEW f, Sound(f), ~f.threw, Reads(f) >= 1, SizeOf(f) \div BS <= Top,
           NEW n \in Nat \ {0}, SizeOf(f) % BS <= n, n <= BS
    PROVE  LET first == SizeOf(f) \div BS
               kept == CacheRead(f, first, SizeOf(f) % BS)
               g == CacheWrite(kept.f, first, Padded(kept.data, n))
           IN /\ Sound(g) /\ Stays(f, g) /\ Grown(f, g)
              /\ g.threw => Same(f, g)
              /\ ~g.threw => /\ Reads(g) >= Reads(f) - 1 /\ Writes(g) + 1 >= Writes(f)
                             /\ SizeOf(g) <= first * BS + n
                             /\ SizeOf(g) = first * BS + n \/ (Writes(f) = 0 /\ Writes(g) = 0)
<1> DEFINE old == SizeOf(f)
           b == old \div BS
           part == old % BS
           at == b * BS
           kept == CacheRead(f, b, part)
           h == kept.f
           p == Padded(kept.data, n)
           g == CacheWrite(h, b, p)
<1>1. /\ BS \in Nat \ {0} /\ Good(f) /\ old \in Nat /\ Reads(f) \in Int /\ Writes(f) \in Nat
      /\ Top \in Nat
  BY Typed DEF Sound
<1>2. b \in Nat /\ part \in Nat /\ part < BS /\ old = at + part /\ at \in Nat /\ b <= Top
  <2>1. b \in Nat /\ part \in Nat /\ part < BS /\ old = at + part
    BY <1>1, DivIs DEF LayerKeeps
  <2>2. at \in Nat
    BY <2>1, TimesIs DEF LayerKeeps
  <2> QED
    BY <2>1, <2>2
<1>3. Has(f, b) = IF old <= at THEN 0 ELSE Least(BS, old - at)
  BY DEF Has
<1>4. part <= n
  OBVIOUS
<1>5. /\ Sound(h) /\ Same(f, h) /\ Stays(f, h) /\ Writes(h) = Writes(f)
      /\ kept.failed \in BOOLEAN
      /\ ~kept.failed => /\ IsPart(kept.data, f, at, part)
                         /\ ~h.threw /\ Reads(h) >= Reads(f) - 1
      /\ kept.failed => h.threw
  <2>1. Least(part, Has(f, b)) = part
    <3> HIDE DEF old, b, part, at
    <3> QED
      BY <1>1, <1>2, <1>3 DEF Least
  <2>2. part = 0 \/ ~Stale(f, b)
    <3>1. Stale(f, b) => old <= at
      BY DEF Stale
    <3> HIDE DEF old, b, part, at
    <3> QED
      BY <1>1, <1>2, <3>1
  <2>3. Reads(f) >= 0 /\ Reads(f) # 0 /\ part <= BS
    <3> HIDE DEF old, b, part, at
    <3> QED
      BY <1>1, <1>2
  <2> HIDE DEF b, part
  <2>4. LET r == CacheRead(f, b, part)
        IN /\ Sound(r.f) /\ Same(f, r.f) /\ Stays(f, r.f)
           /\ Writes(r.f) = Writes(f) /\ r.f.ok = f.ok /\ r.failed \in BOOLEAN
           /\ ~r.failed => /\ IsPart(r.data, f, b * BS, Least(part, Has(f, b)))
                           /\ ~r.f.threw /\ Reads(r.f) >= Reads(f) - 1
                           /\ r.data # <<>> => Reads(r.f) >= 0 /\ r.f.cblk = b
           /\ r.failed => r.data = <<>> /\ (r.f.threw \/ Reads(f) = 0)
    BY <1>2, <2>2, <2>3, CacheReadIs
  <2> QED
    BY <2>1, <2>3, <2>4
<1> HIDE DEF old, b, part, at, kept
<1>6. CASE kept.failed
  <2>1. g = h /\ h.threw
    BY <1>5, <1>6, NothingWritten
  <2> HIDE DEF g, h
  <2>2. Grown(f, g) /\ Sound(g) /\ Stays(f, g) /\ Same(f, g) /\ g.threw
    BY <1>1, <1>5, <2>1, GrownBack DEF Sound
  <2> QED
    BY <2>2 DEF g, h, p, kept, b, part, old
<1>7. CASE ~kept.failed
  <2>1. /\ IsPart(kept.data, f, at, part) /\ ~h.threw /\ Reads(h) >= Reads(f) - 1
        /\ kept.data \in Seq(Int) /\ Len(kept.data) = part
    BY <1>5, <1>7 DEF IsPart
  <2>2. /\ p \in Seq(Int) /\ Len(p) = n
        /\ \A i \in 1..n : p[i] = IF i <= part THEN kept.data[i] ELSE 0
    BY <1>4, <2>1, PaddedIs
  <2> HIDE DEF p, h
  <2>3. /\ Good(h) /\ SizeOf(h) = old /\ Writes(h) = Writes(f) /\ Reads(h) \in Int
        /\ \A i \in 1..old : ByteAt(h, i) = ByteAt(f, i)
    BY <1>5, Typed DEF Sound, Same, old
  <2>4. p # <<>> /\ Len(p) <= BS /\ Reached(h, b) /\ SizeOf(h) <= at + Len(p)
    BY <1>1, <1>2, <1>4, <2>2, <2>3, EmptySeq DEF Reached, at
  <2> HIDE DEF g
  <2>5. /\ Sound(g) /\ Stays(h, g) /\ ~g.threw /\ Reads(g) >= Reads(h)
        /\ Writes(h) = 0 => ~g.ok /\ Same(h, g) /\ Writes(g) = 0
        /\ Writes(h) > 0 => g.ok /\ Put(h, at, p, g) /\ Writes(g) = Writes(h) - 1
    BY <1>2, <2>1, <2>2, <2>3, <2>4, CacheWriteIs DEF g, at
  <2>6. Good(g) /\ Reads(g) \in Int /\ Writes(g) \in Nat /\ SizeOf(g) \in Nat
    BY <2>5, Typed DEF Sound
  <2>7. Stays(f, g) /\ Reads(g) >= Reads(f) - 1 /\ Writes(g) + 1 >= Writes(f)
    BY <1>1, <1>5, <2>1, <2>3, <2>5, <2>6, Later
  <2>8. /\ Grown(h, g) /\ SizeOf(g) <= at + n
        /\ SizeOf(g) = at + n \/ (Writes(f) = 0 /\ Writes(g) = 0)
    <3>1. CASE Writes(h) = 0
      <4>1. Same(h, g) /\ Writes(g) = 0
        BY <2>5, <3>1
      <4>2. Grown(h, g) /\ SizeOf(g) = old
        BY <2>3, <2>6, <4>1, GrownBack DEF Same
      <4> QED
        BY <1>1, <1>2, <1>4, <2>3, <3>1, <4>1, <4>2
    <3>2. CASE Writes(h) # 0
      <4>1. Put(h, at, p, g)
        BY <1>1, <2>3, <2>5, <3>2
      <4>2. ASSUME NEW i \in 1..Len(p) PROVE p[i] = ByteOr0(h, at + i)
        <5>1. CASE i <= part
          <6>1. at + i \in 1..old /\ i \in 1..part /\ i \in 1..n
            BY <1>1, <1>2, <2>2, <5>1
          <6>2. p[i] = ByteAt(f, at + i)
            BY <2>1, <2>2, <5>1, <6>1 DEF IsPart
          <6>3. ByteOr0(h, at + i) = ByteAt(f, at + i)
            BY <2>3, <6>1 DEF ByteOr0
          <6> QED
            BY <6>2, <6>3
        <5>2. CASE ~(i <= part)
          <6>1. ~(at + i <= old) /\ i \in 1..n
            BY <1>1, <1>2, <2>2, <5>2
          <6> QED
            BY <2>2, <2>3, <5>2, <6>1 DEF ByteOr0
        <5> QED
          BY <5>1, <5>2
      <4>3. Grown(h, g)
        BY <1>2, <2>2, <2>3, <2>6, <4>1, <4>2, PutGrown
      <4>4. SizeOf(g) = at + n
        BY <1>1, <1>2, <1>4, <2>2, <2>3, <4>1 DEF Put, Most
      <4> QED
        BY <1>2, <4>3, <4>4
    <3> QED
      BY <3>1, <3>2
  <2>9. Grown(f, g)
    <3>1. Grown(f, h)
      BY <1>1, <1>5, <2>3, GrownBack
    <3> QED
      BY <1>1, <2>3, <2>6, <2>8, <3>1, GrownBack
  <2> QED
    BY <2>5, <2>7, <2>8, <2>9 DEF g, h, p, kept, b, part, at, old
<1> QED
  BY <1>5, <1>6, <1>7

\* Everything before the block the new end is in (BlockFileIO.cpp:313-356).
LEMMA MiddleIs ==
    ASSUME LayerKeeps, NEW f, Sound(f), ~f.threw, Reads(f) >= 1,
           NEW new \in Nat, SizeOf(f) \div BS < new \div BS, new \div BS <= Top
    PROVE  LET old == SizeOf(f)
               first == old \div BS
               last == new \div BS
               kept == CacheRead(f, first, old % BS)
               full == IF old % BS = 0 THEN f
                       ELSE CacheWrite(kept.f, first, Padded(kept.data, BS))
               from == IF old % BS = 0 THEN first ELSE first + 1
               middle == IF AllowHoles THEN full ELSE PadBlocks(full, from, last)
           IN /\ FilledTo(f, middle, last)
              /\ ~middle.threw => \/ SizeOf(middle) = last * BS
                                  \/ AllowHoles /\ SizeOf(middle) % BS = 0
                                  \/ Writes(middle) = 0
<1> DEFINE old == SizeOf(f)
           first == old \div BS
           last == new \div BS
           part == old % BS
           kept == CacheRead(f, first, part)
           full == IF part = 0 THEN f ELSE CacheWrite(kept.f, first, Padded(kept.data, BS))
           from == IF part = 0 THEN first ELSE first + 1
           middle == IF AllowHoles THEN full ELSE PadBlocks(full, from, last)
           all == last * BS
           at == from * BS
<1>1. /\ BS \in Nat \ {0} /\ Good(f) /\ old \in Nat /\ Reads(f) \in Int /\ Writes(f) \in Nat
      /\ Top \in Nat /\ AllowHoles \in BOOLEAN /\ Stays(f, f) /\ Same(f, f)
  BY Typed DEF Sound, Same
<1>2. /\ first \in Nat /\ part \in Nat /\ part < BS /\ old = first * BS + part
      /\ last \in Nat /\ first < last /\ last <= Top
  BY <1>1, DivIs DEF LayerKeeps
<1>3. from \in Nat /\ from <= last /\ from <= first + 1 /\ (part # 0 => from = first + 1)
      /\ (part = 0 => from = first)
  <2> HIDE DEF part, old, first, last
  <2> QED
    BY <1>2
<1> HIDE DEF part, old, first, last
<1>4. /\ all \in Nat /\ at \in Nat /\ at <= all /\ first * BS \in Nat
      /\ (part # 0 => at = first * BS + BS) /\ at % BS = 0 /\ old <= at
  <2>1. /\ from * BS \in Nat /\ from * BS <= last * BS /\ (from * BS) % BS = 0
        /\ first * BS \in Nat /\ (first + 1) * BS = first * BS + BS /\ last * BS \in Nat
    <3> HIDE DEF from
    <3> QED
      BY <1>2, <1>3, TimesIs DEF LayerKeeps
  <2> QED
    BY <1>1, <1>2, <1>3, <2>1
<1> HIDE DEF at, all, from
<1>5. /\ Sound(full) /\ Stays(f, full) /\ Grown(f, full)
      /\ full.threw => Same(f, full)
      /\ ~full.threw => /\ Reads(full) >= Reads(f) - 1 /\ Writes(full) + (from - first) >= Writes(f)
                        /\ SizeOf(full) <= at
                        /\ SizeOf(full) = at \/ Writes(full) = 0
  <2>1. CASE part = 0
    <3>1. full = f
      BY <2>1
    <3>2. Grown(f, f)
      BY <1>1, GrownBack
    <3>3. SizeOf(f) = at
      <4>1. from * BS = first * BS
        BY <1>3, <2>1
      <4> QED
        BY <1>2, <1>4, <2>1, <4>1 DEF at, old
    <3> QED
      BY <1>1, <1>2, <1>3, <1>4, <2>1, <3>1, <3>2, <3>3 DEF old
  <2>2. CASE part # 0
    <3>1. BS \in Nat \ {0} /\ part <= BS /\ BS <= BS /\ first <= Top
      BY <1>1, <1>2
    <3>2. LET g == CacheWrite(kept.f, first, Padded(kept.data, BS))
          IN /\ Sound(g) /\ Stays(f, g) /\ Grown(f, g)
             /\ g.threw => Same(f, g)
             /\ ~g.threw => /\ Reads(g) >= Reads(f) - 1 /\ Writes(g) + 1 >= Writes(f)
                            /\ SizeOf(g) <= first * BS + BS
                            /\ SizeOf(g) = first * BS + BS \/ (Writes(f) = 0 /\ Writes(g) = 0)
      BY <3>1, FillIs DEF part, first, old
    <3>3. full = CacheWrite(kept.f, first, Padded(kept.data, BS))
      BY <2>2
    <3> HIDE DEF full, kept
    <3>4. from - first = 1 /\ at = first * BS + BS
      BY <1>2, <1>3, <1>4, <2>2
    <3> QED
      BY <3>2, <3>3, <3>4
  <2> QED
    BY <2>1, <2>2
<1> HIDE DEF full, kept
<1>6. Good(full) /\ Reads(full) \in Int /\ Writes(full) \in Nat /\ SizeOf(full) \in Nat
  BY <1>5, Typed DEF Sound
<1>7. CASE AllowHoles
  <2>1. middle = full
    BY <1>7
  <2> HIDE DEF middle
  <2>2. FilledTo(f, middle, last)
    <3>1. ~full.threw => Writes(full) + last >= Writes(f) /\ SizeOf(full) <= all
      BY <1>1, <1>2, <1>3, <1>4, <1>5, <1>6
    <3> QED
      BY <1>5, <2>1, <3>1 DEF FilledTo, all
  <2>3. ~middle.threw => (AllowHoles /\ SizeOf(middle) % BS = 0) \/ Writes(middle) = 0
    BY <1>4, <1>5, <1>7, <2>1
  <2> QED
    BY <2>2, <2>3 DEF middle, full, kept, from, last, first, part, old
<1>8. CASE ~AllowHoles
  <2>1. middle = PadBlocks(full, from, last)
    BY <1>8
  <2> HIDE DEF middle
  <2>2. /\ full.threw => middle = full
        /\ ~full.threw /\ (SizeOf(full) = at \/ (Writes(full) = 0 /\ SizeOf(full) <= at))
             => PadInv(full, from, middle, last)
    BY <1>2, <1>3, <1>5, <2>1, PadBlocksIs DEF at
  <2>3. CASE full.threw
    <3>1. middle = full
      BY <2>2, <2>3
    <3>2. FilledTo(f, middle, last)
      BY <1>5, <2>3, <3>1 DEF FilledTo
    <3> QED
      BY <2>3, <3>1, <3>2 DEF middle, full, kept, from, last, first, part, old
  <2>4. CASE ~full.threw
    <3>1. PadInv(full, from, middle, last)
      BY <1>4, <1>5, <2>2, <2>4
    <3>2. /\ Sound(middle) /\ Stays(full, middle) /\ Grown(full, middle) /\ ~middle.threw
          /\ Reads(middle) >= Reads(full) /\ Writes(middle) + (last - from) >= Writes(full)
          /\ SizeOf(middle) = all \/ (Writes(middle) = 0 /\ SizeOf(middle) <= all)
      BY <3>1 DEF PadInv, all
    <3>3. Good(middle) /\ Reads(middle) \in Int /\ Writes(middle) \in Nat /\ SizeOf(middle) \in Nat
      BY <3>2, Typed DEF Sound
    <3>4. Grown(f, middle)
      BY <1>1, <1>5, <1>6, <3>2, <3>3, GrownBack
    <3>5. Stays(f, middle)
      BY <1>5, <3>2, Later
    <3>6. Reads(middle) >= Reads(f) - 1 /\ Writes(middle) + last >= Writes(f) /\ SizeOf(middle) <= all
      BY <1>1, <1>2, <1>3, <1>4, <1>5, <1>6, <2>4, <3>2, <3>3
    <3>7. FilledTo(f, middle, last)
      BY <3>2, <3>4, <3>5, <3>6 DEF FilledTo, all
    <3> QED
      BY <3>2, <3>7 DEF middle, full, kept, from, last, first, part, old, all
  <2> QED
    BY <2>3, <2>4
<1> QED
  BY <1>1, <1>7, <1>8

\* padFile (BlockFileIO.cpp:293-360): the file grows by zeros, to before the block its new
\* end is to be in, or, if asked for it, to that end.
LEMMA PadFileIs ==
    ASSUME LayerKeeps, NEW f, Sound(f), ~f.threw, Reads(f) >= 1,
           NEW new \in Nat, SizeOf(f) < new, new \div BS <= Top, NEW force \in BOOLEAN,
           force => Writes(f) >= new + 2
    PROVE  LET g == PadFile(f, SizeOf(f), new, force)
               last == new \div BS
           IN /\ Sound(g) /\ Stays(f, g) /\ Grown(f, g)
              /\ g.threw => Same(f, g)
              /\ ~g.threw => Reads(g) >= Reads(f) - 1
              /\ ~g.threw /\ ~force => /\ SizeOf(g) <= Most(SizeOf(f), last * BS)
                                       /\ Writes(g) = 0 \/ Reached(g, last)
              /\ ~g.threw /\ force =>
                   \/ SizeOf(g) = new
                   \/ AllowHoles /\ new % BS = 0 /\ SizeOf(g) % BS = 0 /\ SizeOf(g) <= new
<1> DEFINE old == SizeOf(f)
           first == old \div BS
           last == new \div BS
           part == old % BS
           rest == new % BS
           kept == CacheRead(f, first, part)
           full == IF part = 0 THEN f ELSE CacheWrite(kept.f, first, Padded(kept.data, BS))
           from == IF part = 0 THEN first ELSE first + 1
           middle == IF AllowHoles THEN full ELSE PadBlocks(full, from, last)
           g == PadFile(f, old, new, force)
           at == last * BS
           ends == force /\ rest # 0
<1>1. /\ BS \in Nat \ {0} /\ Good(f) /\ old \in Nat /\ Reads(f) \in Int /\ Writes(f) \in Nat
      /\ Top \in Nat /\ AllowHoles \in BOOLEAN /\ Stays(f, f) /\ Same(f, f) /\ Grown(f, f)
  <2>1. Good(f) /\ Same(f, f)
    BY DEF Sound, Same
  <2> QED
    BY <2>1, Typed, GrownBack
<1>2. /\ first \in Nat /\ part \in Nat /\ part < BS /\ old = first * BS + part
      /\ last \in Nat /\ rest \in Nat /\ rest < BS /\ new = at + rest /\ last <= Top
  BY <1>1, DivIs DEF LayerKeeps
<1>3. g = IF first = last
            THEN IF ends THEN CacheWrite(kept.f, first, Padded(kept.data, rest)) ELSE f
            ELSE IF ends THEN CacheWrite(middle, last, Zeros(rest)) ELSE middle
  BY DEF PadFile
<1>4. old < new
  OBVIOUS
<1> HIDE DEF old, first, last, part, rest, g
<1>5. /\ at \in Nat /\ first * BS \in Nat /\ last <= at /\ first <= last /\ at % BS = 0
      /\ (first < last => first * BS + BS <= at) /\ first <= Top
  <2>1. /\ last * BS \in Nat /\ first * BS \in Nat /\ last <= last * BS /\ (last * BS) % BS = 0
        /\ first < last => first * BS + BS <= last * BS
        /\ last < first => last * BS + BS <= first * BS
    BY <1>2, TimesIs DEF LayerKeeps
  <2>2. ~(last < first)
    BY <1>1, <1>2, <1>4, <2>1
  <2> QED
    BY <1>1, <1>2, <2>1, <2>2
<1>6. CASE first = last /\ ends
  <2>1. first * BS = at /\ rest # 0 /\ force /\ part <= rest
    <3>1. first * BS = at /\ rest # 0 /\ force
      BY <1>6
    <3> HIDE DEF at
    <3> QED
      BY <1>1, <1>2, <1>4, <1>5, <3>1
  <2>2. rest \in Nat \ {0} /\ part <= rest /\ rest <= BS /\ first <= Top
    BY <1>1, <1>2, <1>5, <2>1
  <2>3. LET h == CacheWrite(kept.f, first, Padded(kept.data, rest))
        IN /\ Sound(h) /\ Stays(f, h) /\ Grown(f, h)
           /\ h.threw => Same(f, h)
           /\ ~h.threw => /\ Reads(h) >= Reads(f) - 1 /\ Writes(h) + 1 >= Writes(f)
                          /\ SizeOf(h) <= first * BS + rest
                          /\ SizeOf(h) = first * BS + rest \/ (Writes(f) = 0 /\ Writes(h) = 0)
    BY <2>2, FillIs DEF part, first, old
  <2>4. g = CacheWrite(kept.f, first, Padded(kept.data, rest))
    BY <1>3, <1>6
  <2>5. Writes(f) # 0
    BY <1>1, <2>1
  <2> HIDE DEF kept
  <2>6. ~g.threw => SizeOf(g) = new
    BY <1>2, <2>1, <2>3, <2>4, <2>5
  <2> QED
    BY <2>1, <2>3, <2>4, <2>6 DEF g, old
<1>7. CASE first = last /\ ~ends
  <2>1. g = f
    BY <1>3, <1>7
  <2>2. first * BS = at
    BY <1>7
  <2>3. ~force
    <3> SUFFICES ASSUME force PROVE FALSE
      OBVIOUS
    <3>1. rest = 0
      BY <1>7
    <3> HIDE DEF at
    <3> QED
      BY <1>1, <1>2, <1>4, <1>5, <2>2, <3>1
  <2>4. Reached(f, last) /\ old <= Most(old, at)
    <3>1. old >= at /\ old <= Most(old, at)
      <4> HIDE DEF at
      <4> QED
        BY <1>1, <1>2, <1>5, <2>2 DEF Most
    <3> QED
      BY <3>1 DEF Reached, old, at
  <2>5. Reads(f) >= Reads(f) - 1
    BY <1>1
  <2> QED
    BY <1>1, <2>1, <2>3, <2>4, <2>5 DEF g, old, at, last
<1>8. ASSUME first # last
      PROVE  /\ FilledTo(f, middle, last)
             /\ ~middle.threw => \/ SizeOf(middle) = at
                                 \/ AllowHoles /\ SizeOf(middle) % BS = 0
                                 \/ Writes(middle) = 0
  <2>1. first < last
    BY <1>2, <1>5, <1>8
  <2> QED
    BY <1>2, <2>1, MiddleIs DEF first, last, old, part
<1> HIDE DEF kept, full, from, middle, at
<1>9. ASSUME first # last
      PROVE  /\ Good(middle) /\ Reads(middle) \in Int /\ Writes(middle) \in Nat /\ SizeOf(middle) \in Nat
             /\ Sound(middle) /\ Stays(f, middle) /\ Grown(f, middle)
             /\ middle.threw => Same(f, middle)
             /\ ~middle.threw => /\ Reads(middle) >= Reads(f) - 1 /\ Writes(middle) + last >= Writes(f)
                                 /\ SizeOf(middle) <= at
                                 /\ Writes(middle) = 0 \/ Reached(middle, last)
                                 /\ force => Writes(middle) > 0
  <2>1. /\ Sound(middle) /\ Stays(f, middle) /\ Grown(f, middle)
        /\ middle.threw => Same(f, middle)
        /\ ~middle.threw => /\ Reads(middle) >= Reads(f) - 1 /\ Writes(middle) + last >= Writes(f)
                            /\ SizeOf(middle) <= at
    BY <1>8, <1>9 DEF FilledTo, at
  <2>2. Good(middle) /\ Reads(middle) \in Int /\ Writes(middle) \in Nat /\ SizeOf(middle) \in Nat
    BY <2>1, Typed DEF Sound
  <2>3. ~middle.threw => Writes(middle) = 0 \/ Reached(middle, last)
    BY <1>5, <1>8, <1>9, <2>2 DEF Reached, at
  <2>4. ~middle.threw /\ force => Writes(middle) > 0
    BY <1>1, <1>2, <1>5, <2>1, <2>2
  <2> QED
    BY <2>1, <2>2, <2>3, <2>4
<1>10. CASE first # last /\ ~ends
  <2>1. g = middle
    BY <1>3, <1>10
  <2>2. ~middle.threw => SizeOf(middle) <= Most(old, at)
    BY <1>1, <1>5, <1>9, <1>10 DEF Most
  <2>3. ~middle.threw /\ force => \/ SizeOf(middle) = new
                                  \/ /\ AllowHoles /\ rest = 0 /\ SizeOf(middle) % BS = 0
                                     /\ SizeOf(middle) <= new
    <3> SUFFICES ASSUME ~middle.threw, force
                 PROVE  \/ SizeOf(middle) = new
                        \/ AllowHoles /\ rest = 0 /\ SizeOf(middle) % BS = 0 /\ SizeOf(middle) <= new
      OBVIOUS
    <3>1. rest = 0 /\ new = at
      <4>1. rest = 0
        BY <1>10
      <4> QED
        BY <1>2, <1>5, <4>1 DEF at
    <3>2. Writes(middle) # 0 /\ SizeOf(middle) <= at
      BY <1>9, <1>10
    <3> QED
      BY <1>8, <1>10, <3>1, <3>2
  <2> QED
    BY <1>9, <1>10, <2>1, <2>2, <2>3 DEF g, old, at, last, rest
<1>11. CASE first # last /\ ends
  <2> DEFINE z == Zeros(rest)
  <2>1. g = CacheWrite(middle, last, z) /\ force /\ rest # 0
    BY <1>3, <1>11
  <2>2. CASE middle.threw
    <3>1. g = middle
      BY <2>1, <2>2, NothingWritten
    <3> QED
      BY <1>9, <1>11, <2>1, <2>2, <3>1 DEF g, old
  <2>3. CASE ~middle.threw
    <3>1. z \in Seq(Int) /\ Len(z) = rest /\ z # <<>> /\ \A i \in 1..rest : z[i] = 0
      BY <1>2, <2>1, ZerosAre, EmptySeq
    <3> HIDE DEF z
    <3>2. /\ Good(middle) /\ Reached(middle, last) /\ Writes(middle) > 0 /\ Len(z) <= BS
          /\ SizeOf(middle) <= at + Len(z)
      BY <1>1, <1>2, <1>5, <1>9, <1>11, <2>1, <2>3, <3>1
    <3>3. /\ Sound(g) /\ Stays(middle, g) /\ ~g.threw /\ Reads(g) >= Reads(middle)
          /\ Writes(middle) > 0 => g.ok /\ Put(middle, at, z, g) /\ Writes(g) = Writes(middle) - 1
      BY <1>2, <2>1, <2>3, <3>1, <3>2, CacheWriteIs DEF at
    <3>4. Put(middle, at, z, g) /\ Good(g) /\ Reads(g) \in Int
      BY <3>2, <3>3, Typed DEF Sound
    <3>5. SizeOf(g) = new
      BY <1>2, <1>5, <1>9, <1>11, <3>1, <3>2, <3>4 DEF Put, Most, at
    <3>6. Grown(middle, g)
      <4>1. \A i \in 1..Len(z) : z[i] = ByteOr0(middle, at + i)
        <5>1. SizeOf(middle) <= at
          BY <1>9, <1>11, <2>3
        <5> QED
          BY <1>2, <1>5, <1>9, <1>11, <3>1, <5>1 DEF ByteOr0
      <4> QED
        BY <1>5, <3>1, <3>2, <3>4, <4>1, PutGrown
    <3>7. Grown(f, g) /\ Stays(f, g)
      BY <1>1, <1>9, <1>11, <3>3, <3>4, <3>6, GrownBack, Later
    <3>8. Reads(g) >= Reads(f) - 1
      BY <1>1, <1>9, <1>11, <2>3, <3>3, <3>4
    <3> QED
      BY <2>1, <3>3, <3>5, <3>7, <3>8 DEF g, old
  <2> QED
    BY <2>2, <2>3
<1> QED
  BY <1>6, <1>7, <1>10, <1>11

----------------------------------------------------------------------------
(* Writing.                                                                *)

\* A chunk merged into a block.
LEMMA MergeIs ==
    ASSUME NEW old \in Seq(Int), NEW part \in Nat, NEW chunk \in Seq(Int)
    PROVE  LET m == Merge(old, part, chunk)
           IN /\ m \in Seq(Int) /\ Len(m) = Most(Len(old), part + Len(chunk))
              /\ \A i \in 1..Len(m) :
                   m[i] = IF i \in part + 1 .. part + Len(chunk) THEN chunk[i - part]
                          ELSE IF i <= Len(old) THEN old[i] ELSE 0
<1> DEFINE n == Most(Len(old), part + Len(chunk))
           x(i) == IF i \in part + 1 .. part + Len(chunk) THEN chunk[i - part]
                   ELSE IF i <= Len(old) THEN old[i] ELSE 0
           m == [i \in 1..n |-> x(i)]
<1>1. Len(old) \in Nat /\ Len(chunk) \in Nat
  BY LenProperties
<1>2. n \in Nat
  BY <1>1 DEF Most
<1>3. Merge(old, part, chunk) = m
  BY DEF Merge
<1> HIDE DEF n
<1>4. ASSUME NEW i \in 1..n PROVE x(i) \in Int
  <2>1. CASE i \in part + 1 .. part + Len(chunk)
    <3>1. i - part \in 1..Len(chunk)
      BY <1>1, <2>1
    <3>2. chunk[i - part] \in Int
      BY <3>1, ElementOfSeq
    <3> QED
      BY <2>1, <3>2
  <2>2. CASE i \notin part + 1 .. part + Len(chunk) /\ i <= Len(old)
    <3>1. i \in 1..Len(old)
      BY <1>1, <1>2, <2>2
    <3>2. old[i] \in Int
      BY <3>1, ElementOfSeq
    <3> QED
      BY <2>2, <3>2
  <2> QED
    BY <2>1, <2>2
<1> HIDE DEF x
<1>5. m \in [1..n -> Int]
  BY <1>4
<1>6. m \in Seq(Int)
  BY <1>2, <1>5, SeqDef
<1>7. Len(m) = n
  BY <1>2, <1>5, <1>6, LenProperties
<1>8. \A i \in 1..n : m[i] = x(i)
  OBVIOUS
<1> HIDE DEF m
<1> QED
  BY <1>3, <1>6, <1>7, <1>8 DEF n, x

\* Writing the block that a chunk was merged into what there was of it, is writing the
\* chunk, with zeros before it if it begins beyond the end.
LEMMA MergedPut ==
    ASSUME LayerKeeps, NEW f, Good(f), NEW at \in Nat, NEW k \in Nat, NEW old, IsPart(old, f, at, k),
           k = 0 \/ at + k <= SizeOf(f),
           NEW part \in Nat, part <= k \/ SizeOf(f) <= at + k,
           NEW chunk \in Seq(Int), chunk # <<>>,
           NEW g, Good(g), Put(f, at, Merge(old, part, chunk), g)
    PROVE  Put(f, at + part, chunk, g)
<1> DEFINE m == Merge(old, part, chunk)
           n == Len(chunk)
           all == SizeOf(f)
<1>1. /\ old \in Seq(Int) /\ Len(old) = k /\ \A i \in 1..k : old[i] = ByteAt(f, at + i)
      /\ n \in Nat \ {0} /\ all \in Nat /\ SizeOf(g) \in Nat
  BY Typed, LenProperties, EmptySeq DEF IsPart
<1>2. /\ m \in Seq(Int) /\ Len(m) = Most(k, part + n)
      /\ \A i \in 1..Len(m) :
           m[i] = IF i \in part + 1 .. part + n THEN chunk[i - part]
                  ELSE IF i <= k THEN old[i] ELSE 0
  <2>1. /\ m \in Seq(Int) /\ Len(m) = Most(Len(old), part + Len(chunk))
        /\ \A i \in 1..Len(m) :
             m[i] = IF i \in part + 1 .. part + Len(chunk) THEN chunk[i - part]
                    ELSE IF i <= Len(old) THEN old[i] ELSE 0
    BY <1>1, MergeIs
  <2> HIDE DEF m
  <2> QED
    BY <1>1, <2>1
<1> HIDE DEF m
<1>3. /\ SizeOf(g) = Most(all, at + Len(m))
      /\ \A i \in 1..SizeOf(g) :
           ByteAt(g, i) = IF i \in at + 1 .. at + Len(m) THEN m[i - at] ELSE ByteOr0(f, i)
  BY DEF Put, m
<1>4. k = 0 \/ at + k <= all
  OBVIOUS
<1>5. part <= k \/ all <= at + k
  OBVIOUS
<1> HIDE DEF n, all
<1>6. SizeOf(g) = Most(all, at + part + n) /\ Len(m) \in Nat
  BY <1>1, <1>2, <1>3, <1>4 DEF Most
<1>7. ASSUME NEW i \in 1..SizeOf(g)
      PROVE  ByteAt(g, i) = IF i \in at + part + 1 .. at + part + n THEN chunk[i - (at + part)]
                            ELSE ByteOr0(f, i)
  <2> DEFINE j == i - at
  <2>1. i \in Nat /\ i >= 1 /\ j \in Int /\ i = at + j
    BY <1>1, <1>7
  <2> HIDE DEF j
  <2>2. CASE i \in at + part + 1 .. at + part + n
    <3>1. /\ j \in 1..Len(m) /\ j \in part + 1 .. part + n /\ i \in at + 1 .. at + Len(m)
          /\ i - at = j /\ i - (at + part) = j - part
      BY <1>1, <1>2, <2>1, <2>2 DEF Most
    <3>2. ByteAt(g, i) = m[j]
      BY <1>3, <1>7, <3>1
    <3>3. m[j] = chunk[j - part]
      BY <1>2, <3>1
    <3> QED
      BY <2>2, <3>1, <3>2, <3>3
  <2>3. CASE i \notin at + part + 1 .. at + part + n /\ i \in at + 1 .. at + Len(m)
    <3>1. j \in 1..Len(m) /\ j \notin part + 1 .. part + n /\ i - at = j
      BY <1>1, <1>6, <2>1, <2>3
    <3>2. ByteAt(g, i) = IF j <= k THEN old[j] ELSE 0
      BY <1>2, <1>3, <1>7, <2>3, <3>1
    <3>3. CASE j <= k
      <4>1. j \in 1..k /\ i <= all
        BY <1>1, <1>4, <2>1, <3>1, <3>3
      <4>2. old[j] = ByteAt(f, i)
        BY <1>1, <2>1, <4>1
      <4> QED
        BY <2>3, <3>2, <3>3, <4>1, <4>2 DEF ByteOr0, all
    <3>4. CASE ~(j <= k)
      <4>1. ~(i <= all)
        BY <1>1, <1>2, <1>5, <1>6, <2>1, <3>1, <3>4 DEF Most
      <4> QED
        BY <2>3, <3>2, <3>4, <4>1 DEF ByteOr0, all
    <3> QED
      BY <3>3, <3>4
  <2>4. CASE i \notin at + part + 1 .. at + part + n /\ i \notin at + 1 .. at + Len(m)
    BY <1>3, <1>7, <2>4
  <2> QED
    BY <2>2, <2>3, <2>4
<1>8. at + part \in Nat
  OBVIOUS
<1> QED
  BY <1>6, <1>7 DEF Put, n, all

\* The last block with bytes in it.
LEMMA LastIs ==
    ASSUME LayerKeeps, NEW size \in Nat, NEW b \in Nat
    PROVE  b > LastNonEmpty(size) <=> size <= b * BS
<1> DEFINE q == size \div BS
           r == size % BS
           at == b * BS
           all == q * BS
<1>1. q \in Nat /\ r \in Nat /\ r < BS /\ size = all + r /\ BS \in Nat \ {0}
  BY DivIs DEF LayerKeeps, LayerTyped
<1>2. /\ at \in Nat /\ all \in Nat /\ (b < q => at + BS <= all) /\ (q < b => all + BS <= at)
      /\ (b = q => at = all)
  BY <1>1, TimesIs DEF LayerKeeps
<1>3. LastNonEmpty(size) = IF r = 0 THEN q - 1 ELSE q
  BY DEF LastNonEmpty
<1> HIDE DEF q, r, at, all
<1>4. b > LastNonEmpty(size) <=> size <= at
  BY <1>1, <1>2, <1>3
<1> QED
  BY <1>4 DEF at

\* What was written to a file with the same plain bytes.
LEMMA PutFrom ==
    ASSUME NEW f, NEW h, Same(f, h), SizeOf(f) \in Nat, NEW off, NEW d, NEW g, Put(h, off, d, g),
           SizeOf(g) \in Nat
    PROVE  Put(f, off, d, g)
<1>1. SizeOf(h) = SizeOf(f) /\ \A i \in 1..SizeOf(f) : ByteAt(h, i) = ByteAt(f, i)
  BY DEF Same
<1>2. \A i \in 1..SizeOf(g) : ByteOr0(h, i) = ByteOr0(f, i)
  BY <1>1 DEF ByteOr0
<1> QED
  BY <1>1, <1>2 DEF Put

\* A chunk within a block was written, or not: the write failed, or the read of what
\* it was to be merged into threw.
Wrote(f, off, chunk, g) ==
    /\ Sound(g) /\ Stays(f, g)
    /\ g.ok /\ ~g.threw => Put(f, off, chunk, g) /\ Reads(g) >= Reads(f) - 1
    /\ ~g.ok \/ g.threw => Same(f, g)

\* One block of a write that goes to disk as it is.
LEMMA BlockWrote ==
    ASSUME LayerKeeps, NEW f, Good(f), ~f.threw, NEW b \in Nat, b <= Top,
           NEW d \in Seq(Int), d # <<>>, Len(d) <= BS, Writes(f) = 0 \/ Reached(f, b),
           Len(d) = BS \/ SizeOf(f) <= b * BS + Len(d)
    PROVE  LET g == CacheWrite(f, b, d)
           IN /\ Sound(g) /\ Stays(f, g) /\ ~g.threw /\ Reads(g) >= Reads(f)
              /\ g.ok => Put(f, b * BS, d, g)
              /\ ~g.ok => Same(f, g)
<1>1. Writes(f) \in Nat
  BY Typed
<1>2. LET g == CacheWrite(f, b, d)
      IN /\ Sound(g) /\ Stays(f, g) /\ ~g.threw /\ Reads(g) >= Reads(f)
         /\ Writes(f) = 0 => ~g.ok /\ Same(f, g) /\ Writes(g) = 0
         /\ Writes(f) > 0 => g.ok /\ Put(f, b * BS, d, g) /\ Writes(g) = Writes(f) - 1
  BY CacheWriteIs
<1> QED
  BY <1>1, <1>2

\* One block of a write (BlockFileIO.cpp:226-277).
LEMMA ChunkIs ==
    ASSUME LayerKeeps, NEW f, Sound(f), ~f.threw, Reads(f) >= 1,
           NEW b \in Nat, b <= Top, NEW part \in Nat, NEW chunk \in Seq(Int), chunk # <<>>,
           part + Len(chunk) <= BS,
           NEW size \in Nat, size <= SizeOf(f), SizeOf(f) <= Most(size, b * BS),
           Writes(f) = 0 \/ Reached(f, b)
    PROVE  LET n == Len(chunk)
               r == CacheRead(f, b, BS)
               g == IF n = BS \/ (part = 0 /\ b * BS + n >= size) THEN CacheWrite(f, b, chunk)
                    ELSE IF b > LastNonEmpty(size) THEN CacheWrite(f, b, Merge(<<>>, part, chunk))
                    ELSE CacheWrite(r.f, b, Merge(r.data, part, chunk))
           IN Wrote(f, b * BS + part, chunk, g)
<1> DEFINE n == Len(chunk)
           at == b * BS
           all == SizeOf(f)
           direct == n = BS \/ (part = 0 /\ at + n >= size)
           beyond == b > LastNonEmpty(size)
           r == CacheRead(f, b, BS)
           m == Merge(<<>>, part, chunk)
           k == Merge(r.data, part, chunk)
           has == Has(f, b)
<1>1. /\ BS \in Nat \ {0} /\ Good(f) /\ all \in Nat /\ Reads(f) \in Int /\ Writes(f) \in Nat
      /\ Top \in Nat /\ n \in Nat \ {0} /\ at \in Nat /\ Same(f, f)
  BY Typed, TimesIs, LenProperties, EmptySeq DEF Sound, Same, LayerKeeps
<1>2. size <= all /\ all <= Most(size, at) /\ part + n <= BS /\ Reads(f) >= 1
  OBVIOUS
<1>3. Writes(f) = 0 \/ Reached(f, b)
  OBVIOUS
<1> HIDE DEF n, at, all
<1>4. ASSUME direct PROVE Wrote(f, at + part, chunk, CacheWrite(f, b, chunk))
  <2> DEFINE g == CacheWrite(f, b, chunk)
  <2>1. part = 0 /\ at + part = at /\ (n = BS \/ all <= at + n)
    BY <1>1, <1>2, <1>4 DEF Most
  <2> HIDE DEF g
  <2>2. /\ Sound(g) /\ Stays(f, g) /\ ~g.threw /\ Reads(g) >= Reads(f)
        /\ g.ok => Put(f, at, chunk, g)
        /\ ~g.ok => Same(f, g)
    BY <1>1, <1>2, <1>3, <2>1, BlockWrote DEF g, n, all, at
  <2>3. Reads(g) \in Int
    BY <2>2, Typed DEF Sound
  <2> QED
    BY <1>1, <2>1, <2>2, <2>3 DEF Wrote, g
<1>5. ASSUME ~direct, beyond PROVE Wrote(f, at + part, chunk, CacheWrite(f, b, m))
  <2> DEFINE g == CacheWrite(f, b, m)
  <2>1. size <= at
    BY <1>5, LastIs DEF at
  <2>2. all <= at
    BY <1>1, <1>2, <2>1 DEF Most
  <2>3. <<>> \in Seq(Int) /\ Len(<<>>) = 0 /\ IsPart(<<>>, f, at, 0)
    BY EmptySeq DEF IsPart
  <2>4. m \in Seq(Int) /\ Len(m) = part + n
    <3>1. m \in Seq(Int) /\ Len(m) = Most(0, part + n)
      BY <2>3, MergeIs DEF n
    <3> QED
      BY <1>1, <3>1 DEF Most
  <2> HIDE DEF m, g
  <2>5. m # <<>> /\ Len(m) <= BS /\ all <= at + Len(m)
    BY <1>1, <1>2, <2>2, <2>4, EmptySeq
  <2>6. /\ Sound(g) /\ Stays(f, g) /\ ~g.threw /\ Reads(g) >= Reads(f)
        /\ g.ok => Put(f, at, m, g)
        /\ ~g.ok => Same(f, g)
    BY <1>1, <1>3, <2>4, <2>5, BlockWrote DEF g, all, at
  <2>7. Reads(g) \in Int /\ Good(g)
    BY <2>6, Typed DEF Sound
  <2>8. ASSUME g.ok PROVE Put(f, at + part, chunk, g)
    <3>1. /\ 0 \in Nat /\ (0 = 0 \/ at + 0 <= all) /\ (part <= 0 \/ all <= at + 0)
          /\ Put(f, at, Merge(<<>>, part, chunk), g)
      BY <1>1, <2>2, <2>6, <2>8 DEF m
    <3> QED
      BY <1>1, <2>3, <2>7, <3>1, MergedPut DEF all
  <2> QED
    BY <1>1, <2>6, <2>7, <2>8 DEF Wrote, g
<1>6. ASSUME ~direct, ~beyond PROVE Wrote(f, at + part, chunk, CacheWrite(r.f, b, k))
  <2> DEFINE h == r.f
             g == CacheWrite(h, b, k)
  <2>1. ~(size <= at)
    BY <1>6, LastIs DEF at
  <2>2. at < all
    BY <1>1, <1>2, <2>1
  <2>3. /\ has \in Nat /\ has <= BS /\ (has < BS => all <= at + has) /\ at + has <= all /\ has # 0
    BY <1>1, <2>2, HasIs DEF at, all
  <2>4. ~Stale(f, b) /\ Least(BS, has) = has
    <3>1. Stale(f, b) => all <= at
      BY DEF Stale, all, at
    <3> HIDE DEF has
    <3> QED
      BY <1>1, <2>2, <2>3, <3>1 DEF Least
  <2>5. /\ Sound(h) /\ Same(f, h) /\ Stays(f, h)
        /\ Writes(h) = Writes(f) /\ r.failed \in BOOLEAN
        /\ ~r.failed => IsPart(r.data, f, at, has) /\ ~h.threw /\ Reads(h) >= Reads(f) - 1
        /\ r.failed => h.threw
    <3>1. /\ BS \in Nat /\ BS <= BS /\ (BS = 0 \/ ~Stale(f, b)) /\ Reads(f) >= 0 /\ Reads(f) # 0
          /\ b <= Top \/ SizeOf(f) <= b * BS
      BY <1>1, <1>2, <2>4
    <3>2. /\ Sound(r.f) /\ Same(f, r.f) /\ Stays(f, r.f)
          /\ Writes(r.f) = Writes(f) /\ r.failed \in BOOLEAN
          /\ ~r.failed => /\ IsPart(r.data, f, b * BS, Least(BS, Has(f, b)))
                          /\ ~r.f.threw /\ Reads(r.f) >= Reads(f) - 1
          /\ r.failed => r.data = <<>> /\ (r.f.threw \/ Reads(f) = 0)
      BY <3>1, CacheReadIs
    <3> HIDE DEF r
    <3> QED
      BY <2>4, <3>1, <3>2 DEF at
  <2> HIDE DEF r, has
  <2>6. CASE r.failed
    <3>1. g = h /\ h.threw
      BY <2>5, <2>6, NothingWritten
    <3> HIDE DEF g, h
    <3> QED
      BY <2>5, <3>1 DEF Wrote, g, h
  <2>7. CASE ~r.failed
    <3>1. /\ IsPart(r.data, f, at, has) /\ ~h.threw /\ Reads(h) >= Reads(f) - 1
          /\ r.data \in Seq(Int) /\ Len(r.data) = has
      BY <2>5, <2>7 DEF IsPart
    <3> HIDE DEF h
    <3>2. Good(h) /\ SizeOf(h) = all /\ Reads(h) \in Int
      BY <2>5, Typed DEF Sound, Same, all
    <3>3. IsPart(r.data, h, at, has)
      BY <1>1, <2>3, <2>5, <3>1, SamePart DEF all
    <3>4. k \in Seq(Int) /\ Len(k) = Most(has, part + n)
      BY <3>1, MergeIs DEF n
    <3> HIDE DEF k, g
    <3>5. /\ k # <<>> /\ Len(k) <= BS /\ (Len(k) = BS \/ all <= at + Len(k))
          /\ part <= has \/ all <= at + has
      BY <1>1, <1>2, <2>3, <3>4, EmptySeq DEF Most
    <3>6. Reached(h, b)
      BY <1>1, <2>2, <3>2 DEF Reached, at
    <3>7. /\ Sound(g) /\ Stays(h, g) /\ ~g.threw /\ Reads(g) >= Reads(h)
          /\ g.ok => Put(h, at, k, g)
          /\ ~g.ok => Same(h, g)
      BY <3>1, <3>2, <3>4, <3>5, <3>6, BlockWrote DEF g, at
    <3>8. Good(g) /\ Reads(g) \in Int /\ Stays(f, g)
      BY <2>5, <3>7, Typed, Later DEF Sound
    <3>9. ASSUME g.ok PROVE Put(f, at + part, chunk, g)
      <4>1. Put(h, at, Merge(r.data, part, chunk), g)
        BY <3>7, <3>9 DEF k
      <4>2. Put(h, at + part, chunk, g)
        BY <1>1, <2>3, <3>2, <3>3, <3>5, <3>8, <4>1, MergedPut
      <4>3. SizeOf(g) \in Nat /\ SizeOf(f) \in Nat
        BY <1>1, <3>8, Typed DEF all
      <4> QED
        BY <2>5, <4>2, <4>3, PutFrom
    <3>10. ~g.ok => Same(f, g)
      BY <2>5, <3>7, SameAsSame
    <3> QED
      BY <1>1, <3>1, <3>2, <3>7, <3>8, <3>9, <3>10 DEF Wrote, g, h
  <2> QED
    BY <2>5, <2>6, <2>7
<1> QED
  BY <1>4, <1>5, <1>6 DEF n, at

\* The first m bytes of data were written.
WroteTo(f, g, off, data, m) ==
    /\ SizeOf(g) = IF m = 0 THEN SizeOf(f) ELSE Most(SizeOf(f), off + m)
    /\ \A i \in 1..SizeOf(g) :
         ByteAt(g, i) = IF i \in off + 1 .. off + m THEN data[i - off] ELSE ByteOr0(f, i)

\* A chunk written after m bytes.
LEMMA WroteOn ==
    ASSUME LayerKeeps, NEW f, Good(f), NEW g, Good(g), NEW off \in Nat, NEW data, NEW m \in Nat,
           WroteTo(f, g, off, data, m),
           NEW chunk \in Seq(Int), chunk # <<>>, \A j \in 1..Len(chunk) : chunk[j] = data[m + j],
           NEW h, Good(h), Put(g, off + m, chunk, h)
    PROVE  WroteTo(f, h, off, data, m + Len(chunk))
<1> DEFINE n == Len(chunk)
           e == off + m
<1>1. /\ n \in Nat \ {0} /\ e \in Nat /\ SizeOf(f) \in Nat /\ SizeOf(g) \in Nat /\ SizeOf(h) \in Nat
  BY Typed, LenProperties, EmptySeq
<1>2. /\ SizeOf(g) = IF m = 0 THEN SizeOf(f) ELSE Most(SizeOf(f), e)
      /\ \A i \in 1..SizeOf(g) :
           ByteAt(g, i) = IF i \in off + 1 .. e THEN data[i - off] ELSE ByteOr0(f, i)
  BY DEF WroteTo
<1>3. /\ SizeOf(h) = Most(SizeOf(g), e + n)
      /\ \A i \in 1..SizeOf(h) :
           ByteAt(h, i) = IF i \in e + 1 .. e + n THEN chunk[i - e] ELSE ByteOr0(g, i)
  BY DEF Put
<1>4. \A j \in 1..n : chunk[j] = data[m + j]
  OBVIOUS
<1> HIDE DEF n
<1>5. SizeOf(h) = Most(SizeOf(f), e + n) /\ m + n # 0 /\ off + (m + n) = e + n
  BY <1>1, <1>2, <1>3 DEF Most
<1>6. ASSUME NEW i \in 1..SizeOf(h)
      PROVE  ByteAt(h, i) = IF i \in off + 1 .. e + n THEN data[i - off] ELSE ByteOr0(f, i)
  <2>0. i \in Nat /\ i >= 1
    BY <1>1, <1>6
  <2>1. CASE i \in e + 1 .. e + n
    <3>1. i - e \in 1..n /\ m + (i - e) = i - off /\ i \in off + 1 .. e + n
      BY <1>1, <2>1
    <3>2. chunk[i - e] = data[i - off]
      BY <1>4, <3>1
    <3> QED
      BY <1>3, <1>6, <2>1, <3>1, <3>2
  <2>2. CASE i \notin e + 1 .. e + n /\ i <= SizeOf(g)
    <3>1. i \in 1..SizeOf(g)
      BY <1>1, <2>0, <2>2
    <3>2. i \in off + 1 .. e <=> i \in off + 1 .. e + n
      BY <1>1, <2>0, <2>2
    <3>3. ByteAt(h, i) = ByteAt(g, i)
      BY <1>3, <1>6, <2>2 DEF ByteOr0
    <3> QED
      BY <1>2, <3>1, <3>2, <3>3
  <2>3. CASE i \notin e + 1 .. e + n /\ ~(i <= SizeOf(g))
    <3>1. ByteAt(h, i) = 0
      BY <1>3, <1>6, <2>3 DEF ByteOr0
    <3>2. ~(i <= SizeOf(f)) /\ i \notin off + 1 .. e + n
      BY <1>1, <1>2, <1>3, <1>6, <2>0, <2>3 DEF Most
    <3> QED
      BY <3>1, <3>2 DEF ByteOr0
  <2> QED
    BY <2>1, <2>2, <2>3
<1> QED
  BY <1>5, <1>6 DEF WroteTo, n

\* A loop that has written m bytes and goes on, and one that has ended.
Going(f, off, data, size, s, m) ==
    /\ m \in Nat /\ s.data \in Seq(Int) /\ s.data # <<>> /\ m + Len(s.data) = Len(data)
    /\ \A j \in 1..Len(s.data) : s.data[j] = data[m + j]
    /\ s.blk \in Nat /\ s.part \in Nat /\ s.part < BS /\ s.blk * BS + s.part = off + m
    /\ Sound(s.f) /\ Stays(f, s.f) /\ ~s.f.threw /\ WroteTo(f, s.f, off, data, m)
    /\ s.size = size /\ size <= SizeOf(s.f) /\ SizeOf(s.f) <= Most(size, s.blk * BS)
    /\ Reads(s.f) >= Len(s.data) /\ (Writes(s.f) = 0 \/ Reached(s.f, s.blk))

Ended(f, off, data, s, m) ==
    /\ m \in 0..Len(data) /\ s.data = <<>>
    /\ Sound(s.f) /\ Stays(f, s.f) /\ WroteTo(f, s.f, off, data, m)
    /\ s.f.ok /\ ~s.f.threw => m = Len(data)

\* The bytes written stay.
LEMMA WroteSame ==
    ASSUME NEW f, NEW g, NEW off, NEW data, NEW m, WroteTo(f, g, off, data, m), NEW h, Same(g, h)
    PROVE  WroteTo(f, h, off, data, m)
BY DEF WroteTo, Same

\* One round (BlockFileIO.cpp:226-283).
LEMMA WriteRoundIs ==
    ASSUME LayerKeeps, NEW f, Good(f), NEW off \in Nat, NEW data \in Seq(Int), NEW size \in Nat,
           off + Len(data) <= Top, NEW s, NEW m, Going(f, off, data, size, s, m)
    PROVE  LET t == WriteRound(s)
           IN \/ \E k : Going(f, off, data, size, t, k) /\ t.blk = s.blk + 1
              \/ \E k : Ended(f, off, data, t, k)
<1> DEFINE part == s.part
           b == s.blk
           at == b * BS
           left == Len(s.data)
           n == Least(BS - part, left)
           chunk == SubSeq(s.data, 1, n)
           rest == SubSeq(s.data, n + 1, left)
           direct == n = BS \/ (part = 0 /\ at + n >= s.size)
           r == CacheRead(s.f, b, BS)
           g == IF direct THEN CacheWrite(s.f, b, chunk)
                ELSE IF b > LastNonEmpty(s.size) THEN CacheWrite(s.f, b, Merge(<<>>, part, chunk))
                ELSE CacheWrite(r.f, b, Merge(r.data, part, chunk))
           t == WriteRound(s)
           e == Len(data)
<1>1. /\ m \in Nat /\ s.data \in Seq(Int) /\ s.data # <<>> /\ m + left = e
      /\ \A j \in 1..left : s.data[j] = data[m + j]
      /\ b \in Nat /\ part \in Nat /\ part < BS /\ at + part = off + m
      /\ Sound(s.f) /\ Stays(f, s.f) /\ ~s.f.threw /\ WroteTo(f, s.f, off, data, m)
      /\ s.size = size /\ size <= SizeOf(s.f) /\ SizeOf(s.f) <= Most(size, at)
      /\ Reads(s.f) >= left /\ (Writes(s.f) = 0 \/ Reached(s.f, b))
  BY DEF Going
<1>2. /\ BS \in Nat \ {0} /\ Top \in Nat /\ Good(s.f) /\ SizeOf(s.f) \in Nat
      /\ Reads(s.f) \in Int /\ SizeOf(f) \in Nat
  BY <1>1, Typed DEF Sound
<1>3. at \in Nat /\ b <= at /\ left \in Nat \ {0} /\ e \in Nat /\ (b + 1) * BS = at + BS
  BY <1>1, TimesIs, LenProperties, EmptySeq DEF LayerKeeps
<1>4. off + e <= Top
  OBVIOUS
<1> HIDE DEF part, b, at, left, e
<1>20. /\ m \in Nat /\ part \in Nat /\ part < BS /\ at + part = off + m /\ m + left = e
       /\ size <= SizeOf(s.f) /\ SizeOf(s.f) <= Most(size, at) /\ Reads(s.f) >= left
  BY <1>1
<1>5. n \in Nat \ {0} /\ n <= left /\ part + n <= BS /\ (n = left \/ part + n = BS)
  <2>1. n = Least(BS - part, left)
    OBVIOUS
  <2> HIDE DEF n
  <2> QED
    BY <1>2, <1>3, <1>20, <2>1 DEF Least
<1> HIDE DEF n
<1>6. /\ chunk \in Seq(Int) /\ Len(chunk) = n /\ chunk # <<>>
      /\ \A j \in 1..n : chunk[j] = data[m + j]
  <2>1. n \in Int /\ n <= Len(s.data) /\ 1 \in Nat \ {0} /\ 1 <= n
    BY <1>3, <1>5 DEF left
  <2>2. /\ chunk \in Seq(Int) /\ Len(chunk) = (IF 1 <= n THEN n - 1 + 1 ELSE 0)
        /\ \A i \in 1..Len(chunk) : chunk[i] = s.data[1 + i - 1]
    BY <1>1, <2>1, PartIs
  <2> HIDE DEF chunk
  <2>3. Len(chunk) = n /\ chunk # <<>>
    BY <1>5, <2>1, <2>2, EmptySeq
  <2>4. \A j \in 1..n : 1 + j - 1 = j /\ j \in 1..left
    BY <1>3, <1>5
  <2> QED
    BY <1>1, <2>2, <2>3, <2>4
<1>7. /\ rest \in Seq(Int) /\ Len(rest) = left - n
      /\ \A j \in 1..Len(rest) : rest[j] = data[m + n + j]
  <2>1. n + 1 \in Nat \ {0} /\ left \in Int /\ left <= Len(s.data)
    BY <1>3, <1>5 DEF left
  <2>2. /\ rest \in Seq(Int) /\ Len(rest) = (IF n + 1 <= left THEN left - (n + 1) + 1 ELSE 0)
        /\ \A i \in 1..Len(rest) : rest[i] = s.data[n + 1 + i - 1]
    <3> DEFINE q == n + 1
    <3>1. q \in Nat \ {0}
      BY <2>1
    <3> HIDE DEF q
    <3>2. LET p == SubSeq(s.data, q, left)
          IN /\ p \in Seq(Int) /\ Len(p) = (IF q <= left THEN left - q + 1 ELSE 0)
             /\ \A i \in 1..Len(p) : p[i] = s.data[q + i - 1]
      BY <1>1, <2>1, <3>1, PartIs
    <3> QED
      BY <3>2 DEF q
  <2> HIDE DEF rest
  <2>3. Len(rest) = left - n
    BY <1>3, <1>5, <2>2
  <2>4. \A j \in 1..Len(rest) : n + 1 + j - 1 = n + j /\ n + j \in 1..left /\ m + (n + j) = m + n + j
    BY <1>1, <1>3, <1>5, <2>3
  <2> QED
    BY <1>1, <2>2, <2>3, <2>4
<1> HIDE DEF chunk, rest
<1>8. Wrote(s.f, at + part, chunk, g)
  <2>1. /\ Sound(s.f) /\ ~s.f.threw /\ Reads(s.f) >= 1 /\ b \in Nat /\ b <= Top /\ part \in Nat
        /\ chunk \in Seq(Int) /\ chunk # <<>> /\ part + Len(chunk) <= BS
        /\ s.size \in Nat /\ s.size <= SizeOf(s.f) /\ SizeOf(s.f) <= Most(s.size, b * BS)
        /\ Writes(s.f) = 0 \/ Reached(s.f, b)
    <3>1. b <= Top
      BY <1>1, <1>2, <1>3, <1>4
    <3>2. Reads(s.f) >= 1
      BY <1>1, <1>2, <1>3
    <3> QED
      BY <1>1, <1>5, <1>6, <3>1, <3>2 DEF at
  <2>2. LET k == Len(chunk)
            x == CacheRead(s.f, b, BS)
            y == IF k = BS \/ (part = 0 /\ b * BS + k >= s.size) THEN CacheWrite(s.f, b, chunk)
                 ELSE IF b > LastNonEmpty(s.size) THEN CacheWrite(s.f, b, Merge(<<>>, part, chunk))
                 ELSE CacheWrite(x.f, b, Merge(x.data, part, chunk))
        IN Wrote(s.f, b * BS + part, chunk, y)
    BY <2>1, ChunkIs
  <2> QED
    BY <1>6, <2>2 DEF at
<1>9. t = [f |-> g, blk |-> b + 1, part |-> 0, size |-> s.size,
           data |-> IF ~g.ok \/ g.threw THEN <<>> ELSE rest]
  BY <1>1 DEF WriteRound, chunk, n, left, rest, at, b, part
<1>10. /\ t.f = g /\ t.blk = b + 1 /\ t.part = 0 /\ t.size = s.size
       /\ t.data = IF ~g.ok \/ g.threw THEN <<>> ELSE rest
  <2> HIDE DEF g, t
  <2> QED
    BY <1>9
<1> HIDE DEF g, t
<1>11. /\ Sound(g) /\ Stays(s.f, g)
       /\ g.ok /\ ~g.threw => Put(s.f, at + part, chunk, g) /\ Reads(g) >= Reads(s.f) - 1
       /\ ~g.ok \/ g.threw => Same(s.f, g)
  BY <1>8 DEF Wrote
<1>12. /\ Good(g) /\ Reads(g) \in Int /\ SizeOf(g) \in Nat /\ Stays(f, g)
  BY <1>1, <1>11, Typed, Later DEF Sound
<1>13. CASE ~g.ok \/ g.threw
  <2>1. WroteTo(f, g, off, data, m)
    BY <1>1, <1>11, <1>13, WroteSame
  <2>2. m \in 0..e
    BY <1>1, <1>3
  <2>3. Ended(f, off, data, t, m)
    BY <1>10, <1>11, <1>12, <1>13, <2>1, <2>2 DEF Ended, e
  <2> QED
    BY <2>3 DEF t
<1>14. CASE g.ok /\ ~g.threw
  <2>0. Put(s.f, off + m, chunk, g) /\ Reads(g) >= Reads(s.f) - 1
    BY <1>1, <1>11, <1>14
  <2>1. WroteTo(f, g, off, data, m + n)
    BY <1>1, <1>2, <1>6, <1>12, <2>0, WroteOn
  <2>2. t.data = rest
    BY <1>10, <1>14
  <2>3. CASE n = left
    <3>1. rest = <<>> /\ m + n = e /\ e \in 0..e
      BY <1>1, <1>3, <1>7, <2>3, EmptySeq
    <3>2. Ended(f, off, data, t, m + n)
      BY <1>10, <1>11, <1>12, <2>1, <2>2, <3>1 DEF Ended, e
    <3> QED
      BY <3>2 DEF t
  <2>4. CASE n # left
    <3> DEFINE k == m + n
               c == b + 1
    <3>1. part + n = BS /\ n < left
      BY <1>3, <1>5, <2>4
    <3>2. rest # <<>> /\ k \in Nat /\ k + Len(rest) = e /\ c * BS + 0 = off + k /\ c * BS = at + BS
      <4>1. c * BS = at + BS
        BY <1>3
      <4>2. Len(rest) = left - n
        BY <1>7
      <4>3. rest # <<>> /\ k \in Nat /\ k + Len(rest) = e
        BY <1>3, <1>5, <1>20, <3>1, <4>2, EmptySeq
      <4>4. at + BS = off + k
        BY <1>2, <1>3, <1>5, <1>20, <3>1
      <4> HIDE DEF c, k
      <4> QED
        BY <1>2, <1>3, <4>1, <4>3, <4>4
    <3>3. SizeOf(g) = Most(SizeOf(s.f), at + BS)
      <4>1. SizeOf(g) = Most(SizeOf(s.f), off + m + n)
        BY <1>6, <2>0 DEF Put
      <4>2. off + m + n = at + BS
        BY <1>2, <1>3, <1>5, <1>20, <3>1
      <4> QED
        BY <4>1, <4>2
    <3>4. size <= SizeOf(g) /\ SizeOf(g) <= Most(size, c * BS) /\ SizeOf(g) >= c * BS
      <4>1. c * BS = at + BS
        BY <1>3
      <4> HIDE DEF c
      <4> QED
        BY <1>2, <1>3, <1>20, <3>3, <4>1 DEF Most
    <3>5. Reached(g, c) /\ Reads(g) >= Len(rest)
      <4>1. Reached(g, c)
        BY <3>4 DEF Reached
      <4>2. Len(rest) = left - n
        BY <1>7
      <4> QED
        BY <1>2, <1>3, <1>5, <1>12, <1>20, <2>0, <4>1, <4>2
    <3>6. c \in Nat /\ 0 \in Nat /\ 0 < BS
      BY <1>1, <1>2
    <3> HIDE DEF k, c
    <3>7. Going(f, off, data, size, t, k)
      BY <1>1, <1>7, <1>10, <1>11, <1>12, <1>14, <2>1, <2>2, <3>2, <3>4, <3>5, <3>6
         DEF Going, k, c, e
    <3> QED
      BY <1>10, <3>7 DEF t, b
  <2> QED
    BY <2>3, <2>4
<1> QED
  BY <1>13, <1>14

\* A round of a loop that has ended.
LEMMA WriteRoundOver ==
    ASSUME NEW s, s.data = <<>> PROVE WriteRound(s) = s
BY DEF WriteRound

\* Blocks add up.
LEMMA BlocksAdd ==
    ASSUME LayerKeeps, NEW a \in Nat, NEW b \in Nat
    PROVE  (a + b) * BS = a * BS + b * BS /\ a * BS \in Nat /\ b * BS \in Nat
<1>1. BS \in Nat
  BY DEF LayerKeeps, LayerTyped
<1> QED
  BY <1>1

\* The loop over the blocks of a write: it ends when all is written, a write fails or a
\* read throws.
LEMMA WriteLoopIs ==
    ASSUME LayerKeeps, NEW f, Sound(f), ~f.threw,
           NEW off \in Nat, NEW data \in Seq(Int), data # <<>>,
           Reads(f) >= Len(data), off + Len(data) <= Top,
           NEW size \in Nat, size <= SizeOf(f), SizeOf(f) <= Most(size, (off \div BS) * BS),
           Writes(f) = 0 \/ Reached(f, off \div BS)
    PROVE  LET g == WriteLoop(f, off, data, size)
           IN \E m \in 0..Len(data) :
                /\ Sound(g) /\ Stays(f, g) /\ WroteTo(f, g, off, data, m)
                /\ g.ok /\ ~g.threw => m = Len(data)
<1> DEFINE first == off \div BS
           left == Len(data)
           a == AsOk(f)
           start == [f |-> a, blk |-> first, part |-> off % BS, size |-> size, data |-> data]
           n == RoundsFor(left)
           g == WriteLoop(f, off, data, size)
<1>1. /\ BS \in Nat \ {0} /\ Good(f) /\ left \in Nat /\ SizeOf(f) \in Nat
  BY Typed, LenProperties DEF Sound
<1>2. first \in Nat /\ off % BS \in Nat /\ off % BS < BS /\ off = first * BS + (off % BS)
  BY DivIs DEF LayerKeeps
<1>3. n \in Nat /\ left < n * BS - BS
  <2> DEFINE q == left \div BS
  <2>1. q \in Nat /\ left % BS \in Nat /\ left % BS < BS /\ left = q * BS + (left % BS) /\ n = q + 2
    BY <1>1, DivIs DEF LayerKeeps, RoundsFor
  <2> HIDE DEF q, n
  <2>2. (q + 2) * BS = q * BS + 2 * BS /\ q * BS \in Nat
    BY <2>1, BlocksAdd
  <2> QED
    BY <1>1, <2>1, <2>2
<1>4. Sound(a) /\ Beside(f, a) /\ a.ok
  BY OkSet
<1> HIDE DEF n, a
<1>5. PICK h : /\ h[0] = start
               /\ \A k \in 1..n : h[k] = WriteRound(h[k - 1])
               /\ Rounds(WriteRound, start, n) = h[n]
  <2> HIDE DEF start
  <2> QED
    BY <1>3, WriteRounds
<1>6. g = h[n].f
  BY <1>5 DEF WriteLoop, AsOk, a, n
<1> HIDE DEF g
<1>7. Going(f, off, data, size, start, 0)
  <2>1. /\ start.f = a /\ start.blk = first /\ start.part = off % BS /\ start.size = size
        /\ start.data = data
    OBVIOUS
  <2>2. Good(a) /\ SizeOf(a) = SizeOf(f) /\ \A i \in 1..SizeOf(f) : ByteAt(a, i) = ByteAt(f, i)
    BY <1>4 DEF Beside, Same
  <2>3. WroteTo(f, a, off, data, 0)
    BY <1>1, <2>2 DEF WroteTo, ByteOr0
  <2>4. Reached(f, first) => Reached(a, first)
    BY <2>2 DEF Reached
  <2>5. /\ Stays(f, a) /\ Reads(a) = Reads(f) /\ Writes(a) = Writes(f) /\ ~a.threw
    BY <1>4 DEF Beside
  <2>6. /\ 0 \in Nat /\ 0 + Len(data) = Len(data) /\ \A j \in 1..Len(data) : data[j] = data[0 + j]
        /\ first * BS + (off % BS) = off + 0
    BY <1>1, <1>2
  <2> HIDE DEF start, first, left
  <2> QED
    BY <1>2, <1>4, <2>1, <2>2, <2>3, <2>4, <2>5, <2>6 DEF Going, first
<1> HIDE DEF start
<1> DEFINE K == {k \in 0..n : \/ \E m : Going(f, off, data, size, h[k], m) /\ h[k].blk = first + k
                              \/ \E m : Ended(f, off, data, h[k], m)}
<1>8. 0 \in K
  <2>1. start.blk = first + 0
    BY <1>2 DEF start
  <2> QED
    BY <1>3, <1>5, <1>7, <2>1
<1>9. ASSUME NEW k \in 1..n, k - 1 \in K PROVE k \in K
  <2> DEFINE s == h[k - 1]
             t == h[k]
  <2>0. k \in 0..n
    BY <1>3
  <2>1. t = WriteRound(s)
    BY <1>5
  <2>2. \/ \E m : Going(f, off, data, size, s, m) /\ s.blk = first + (k - 1)
        \/ \E m : Ended(f, off, data, s, m)
    BY <1>9
  <2> HIDE DEF s, t
  <2>3. CASE \E m : Going(f, off, data, size, s, m) /\ s.blk = first + (k - 1)
    <3>1. PICK m : Going(f, off, data, size, s, m) /\ s.blk = first + (k - 1)
      BY <2>3
    <3>2. \/ \E x : Going(f, off, data, size, t, x) /\ t.blk = s.blk + 1
          \/ \E x : Ended(f, off, data, t, x)
      BY <1>1, <2>1, <3>1, WriteRoundIs
    <3>3. s.blk + 1 = first + k
      BY <1>2, <1>3, <3>1
    <3> QED
      BY <2>0, <3>2, <3>3 DEF t
  <2>4. CASE \E m : Ended(f, off, data, s, m)
    <3>1. t = s
      BY <2>1, <2>4, WriteRoundOver DEF Ended
    <3> QED
      BY <2>0, <2>4, <3>1 DEF t
  <2> QED
    BY <2>2, <2>3, <2>4
<1>10. n \in K
  <2> HIDE DEF K
  <2> QED
    BY <1>3, <1>8, <1>9, UpTo
<1>11. ASSUME NEW m, Going(f, off, data, size, h[n], m), h[n].blk = first + n PROVE FALSE
  <2> DEFINE d == h[n].data
             part == h[n].part
  <2>1. /\ m \in Nat /\ d \in Seq(Int) /\ d # <<>> /\ m + Len(d) = left /\ part \in Nat
        /\ (first + n) * BS + part = off + m
    BY <1>11 DEF Going
  <2> HIDE DEF d, part, left, first
  <2>2. Len(d) \in Nat \ {0}
    BY <2>1, LenProperties, EmptySeq
  <2>3. (first + n) * BS = first * BS + n * BS /\ first * BS \in Nat /\ n * BS \in Nat
    BY <1>2, <1>3, BlocksAdd DEF first
  <2>4. first \in Nat /\ off % BS \in Nat /\ off % BS < BS /\ off = first * BS + (off % BS)
    BY <1>2
  <2> QED
    BY <1>1, <1>3, <2>1, <2>2, <2>3, <2>4
<1>12. PICK m : Ended(f, off, data, h[n], m)
  BY <1>10, <1>11
<1> QED
  BY <1>6, <1>12 DEF Ended, g

\* A write to a file that threw.
LEMMA WriteLoopOver ==
    ASSUME LayerKeeps, NEW f, Good(f), f.threw, NEW off, NEW data \in Seq(Int), NEW size
    PROVE  WriteLoop(f, off, data, size) = AsOk(f)
<1> DEFINE a == AsOk(f)
           start == [f |-> a, blk |-> off \div BS, part |-> off % BS, size |-> size, data |-> data]
           n == RoundsFor(Len(data))
<1>1. n \in Nat
  <2>1. Len(data) \in Nat /\ LayerTyped
    BY LenProperties DEF LayerKeeps
  <2>2. Len(data) \div BS \in Nat
    BY <2>1, DivIs
  <2> QED
    BY <2>2 DEF RoundsFor
<1>2. a.threw
  BY DEF LayerKeeps, LayerCache, Beside
<1> HIDE DEF n, a
<1>3. PICK h : /\ h[0] = start
               /\ \A k \in 1..n : h[k] = WriteRound(h[k - 1])
               /\ Rounds(WriteRound, start, n) = h[n]
  <2> HIDE DEF start
  <2> QED
    BY <1>1, WriteRounds
<1>4. \A s : s.f.threw => WriteRound(s).f = s.f
  <2> SUFFICES ASSUME NEW s, s.f.threw PROVE WriteRound(s).f = s.f
    OBVIOUS
  <2>1. CacheRead(s.f, s.blk, BS).f = s.f
    BY DEF CacheRead
  <2>2. \A d : CacheWrite(s.f, s.blk, d) = s.f
    BY DEF CacheWrite
  <2> QED
    BY <2>1, <2>2 DEF WriteRound
<1> DEFINE K == {k \in 0..n : h[k].f = a}
<1>5. 0 \in K
  BY <1>1, <1>3
<1>6. \A k \in 1..n : k - 1 \in K => k \in K
  BY <1>1, <1>2, <1>3, <1>4
<1>7. n \in K
  <2> HIDE DEF K
  <2> QED
    BY <1>1, <1>5, <1>6, UpTo
<1> QED
  BY <1>3, <1>7 DEF WriteLoop, AsOk, a, n

\* write (BlockFileIO.cpp:190-287): the file grows by zeros to before the data, and the
\* data is written up to some byte, which is its last unless it failed.
LEMMA WriteFileIs ==
    ASSUME LayerKeeps, NEW f, Sound(f), ~f.threw,
           NEW off \in Nat, NEW data \in Seq(Int), data # <<>>,
           Reads(f) >= Len(data) + 1, off + Len(data) <= Top
    PROVE  LET g == WriteFile(f, off, data)
               end == off + Len(data)
           IN \E m \in 0..end :
                /\ Sound(g) /\ Stays(f, g)
                /\ SizeOf(g) = Most(SizeOf(f), m)
                /\ \A i \in 1..SizeOf(g) :
                     ByteAt(g, i) = IF i <= m /\ i \in off + 1 .. end THEN data[i - off]
                                    ELSE ByteOr0(f, i)
                /\ g.ok /\ ~g.threw => m = end
<1> DEFINE size == SizeOf(f)
           left == Len(data)
           end == off + left
           first == off \div BS
           at == first * BS
           p == IF off > size THEN PadFile(f, size, off, FALSE) ELSE f
           g == WriteLoop(p, off, data, size)
           Content(m) == \A i \in 1..SizeOf(g) :
                ByteAt(g, i) = IF i <= m /\ i \in off + 1 .. end THEN data[i - off] ELSE ByteOr0(f, i)
<1>1. /\ BS \in Nat \ {0} /\ Good(f) /\ size \in Nat /\ Reads(f) \in Int /\ Top \in Nat
      /\ left \in Nat \ {0} /\ Stays(f, f)
  BY Typed, LenProperties, EmptySeq DEF Sound
<1>2. /\ first \in Nat /\ off % BS \in Nat /\ off = at + (off % BS) /\ at \in Nat /\ first <= at
  BY DivIs, TimesIs DEF LayerKeeps
<1>3. WriteFile(f, off, data) = g
  BY DEF WriteFile
<1>4. end <= Top /\ Reads(f) >= left + 1
  OBVIOUS
<1> HIDE DEF g, size, left, first, at
<1>5. /\ Sound(p) /\ Stays(f, p) /\ Grown(f, p)
      /\ p.threw => Same(f, p)
      /\ ~p.threw => /\ Reads(p) >= left /\ size <= SizeOf(p) /\ SizeOf(p) <= Most(size, at)
                      /\ (Writes(p) = 0 \/ Reached(p, first))
      /\ off <= size => p = f
  <2>1. CASE off > size
    <3>1. p = PadFile(f, SizeOf(f), off, FALSE)
      BY <2>1 DEF size
    <3> HIDE DEF p
    <3>2. SizeOf(f) < off /\ first <= Top /\ FALSE \in BOOLEAN /\ Reads(f) >= 1
      BY <1>1, <1>2, <1>4, <2>1 DEF size
    <3>3. /\ Sound(p) /\ Stays(f, p) /\ Grown(f, p)
          /\ p.threw => Same(f, p)
          /\ ~p.threw => Reads(p) >= Reads(f) - 1
          /\ ~p.threw => SizeOf(p) <= Most(SizeOf(f), at) /\ (Writes(p) = 0 \/ Reached(p, first))
      <4>1. LET x == PadFile(f, SizeOf(f), off, FALSE)
                last == off \div BS
            IN /\ Sound(x) /\ Stays(f, x) /\ Grown(f, x)
               /\ x.threw => Same(f, x)
               /\ ~x.threw => Reads(x) >= Reads(f) - 1
               /\ ~x.threw /\ ~FALSE => /\ SizeOf(x) <= Most(SizeOf(f), last * BS)
                                        /\ Writes(x) = 0 \/ Reached(x, last)
        BY <3>2, PadFileIs DEF first
      <4>2. at = (off \div BS) * BS /\ first = off \div BS
        BY DEF at, first
      <4> DEFINE x == PadFile(f, SizeOf(f), off, FALSE)
                 last == off \div BS
                 to == last * BS
      <4>3. /\ Sound(x) /\ Stays(f, x) /\ Grown(f, x)
            /\ x.threw => Same(f, x)
            /\ ~x.threw => Reads(x) >= Reads(f) - 1
            /\ ~x.threw => SizeOf(x) <= Most(SizeOf(f), to) /\ (Writes(x) = 0 \/ Reached(x, last))
        BY <4>1
      <4>4. p = x /\ at = to /\ first = last
        BY <3>1, <4>2
      <4> HIDE DEF x, last, to
      <4> QED
        BY <4>3, <4>4
    <3>4. Reads(p) \in Int
      BY <3>3, Typed DEF Sound
    <3>5. ~p.threw => Reads(p) >= left
      BY <1>1, <1>4, <3>3, <3>4
    <3>6. size <= SizeOf(p) /\ ~(off <= size)
      BY <1>1, <2>1, <3>3 DEF Grown, size
    <3> QED
      BY <3>3, <3>5, <3>6 DEF size
  <2>2. CASE off <= size
    <3>1. ~(off > size)
      BY <1>1, <2>2
    <3>6. p = f
      BY <3>1
    <3> HIDE DEF p
    <3>2. Reached(f, first)
      <4>1. size >= at
        BY <1>1, <1>2, <2>2
      <4> QED
        BY <4>1 DEF Reached, size, at
    <3>3. Same(f, f) /\ Grown(f, f)
      BY <1>1, GrownBack DEF Same
    <3>4. Reads(f) >= left /\ size <= size /\ size <= Most(size, at)
      BY <1>1, <1>2, <1>4 DEF Most
    <3> QED
      BY <1>1, <3>6, <3>2, <3>3, <3>4 DEF size
  <2>3. off > size \/ off <= size
    BY <1>1
  <2> QED
    BY <2>1, <2>2, <2>3
<1> HIDE DEF p
<1>6. SizeOf(p) \in Nat /\ Good(p)
  BY <1>5, Typed DEF Sound
<1>7. CASE p.threw
  <2>1. g = AsOk(p)
    BY <1>6, <1>7, WriteLoopOver DEF g
  <2>2. Sound(g) /\ Beside(p, g)
    BY <1>5, <2>1, OkSet
  <2>3. Same(f, g) /\ Stays(f, g) /\ g.threw
    BY <1>5, <1>7, <2>2, SameAsSame, Later DEF Beside
  <2>4. SizeOf(g) = size /\ \A i \in 1..SizeOf(g) : ByteAt(g, i) = ByteOr0(f, i)
    BY <1>1, <2>3 DEF Same, ByteOr0, size
  <2>5. 0 \in 0..end /\ SizeOf(g) = Most(size, 0)
    BY <1>1, <2>4 DEF Most
  <2>6. \A i \in 1..SizeOf(g) : ~(i <= 0)
    BY <1>1, <2>4
  <2> QED
    BY <1>3, <2>2, <2>3, <2>4, <2>5, <2>6 DEF size, left
<1>8. CASE ~p.threw
  <2>1. PICK m \in 0..left : /\ Sound(g) /\ Stays(p, g) /\ WroteTo(p, g, off, data, m)
                             /\ g.ok /\ ~g.threw => m = left
    <3>1. /\ Reads(p) >= Len(data) /\ off + Len(data) <= Top /\ size \in Nat /\ size <= SizeOf(p)
          /\ SizeOf(p) <= Most(size, (off \div BS) * BS)
          /\ Writes(p) = 0 \/ Reached(p, off \div BS)
      BY <1>1, <1>4, <1>5, <1>8 DEF left, at, first
    <3> QED
      BY <1>5, <1>8, <3>1, WriteLoopIs DEF g, left
  <2> DEFINE to == IF m = 0 THEN IF off <= size THEN 0 ELSE SizeOf(p) ELSE off + m
  <2>2. /\ SizeOf(g) = IF m = 0 THEN SizeOf(p) ELSE Most(SizeOf(p), off + m)
        /\ \A i \in 1..SizeOf(g) :
             ByteAt(g, i) = IF i \in off + 1 .. off + m THEN data[i - off] ELSE ByteOr0(p, i)
    BY <2>1 DEF WroteTo
  <2>3. SizeOf(g) \in Nat /\ Stays(f, g)
    BY <1>5, <2>1, Typed, Later DEF Sound
  <2>4. size <= SizeOf(p) /\ SizeOf(p) <= Most(size, off) /\ (off <= size => SizeOf(p) = size)
    <3>1. SizeOf(p) <= Most(size, at)
      BY <1>5, <1>8
    <3>2. off <= size => SizeOf(p) = size
      BY <1>5 DEF size
    <3> QED
      BY <1>1, <1>2, <1>5, <1>6, <1>8, <3>1, <3>2 DEF Most
  <2>5. /\ to \in 0..end /\ SizeOf(g) = Most(size, to)
        /\ \A i \in 1..SizeOf(g) : i \in off + 1 .. off + m <=> i <= to /\ i \in off + 1 .. end
    BY <1>1, <1>6, <2>1, <2>2, <2>3, <2>4 DEF Most
  <2>6. \A i \in 1..SizeOf(g) : ByteOr0(p, i) = ByteOr0(f, i)
    <3> SUFFICES ASSUME NEW i \in 1..SizeOf(g) PROVE ByteOr0(p, i) = ByteOr0(f, i)
      OBVIOUS
    <3>1. CASE i <= SizeOf(p)
      <4>1. i \in 1..SizeOf(p)
        BY <1>6, <2>3, <3>1
      <4> QED
        BY <1>5, <3>1, <4>1 DEF Grown, ByteOr0
    <3>2. CASE ~(i <= SizeOf(p))
      <4>1. ~(i <= size)
        BY <1>1, <1>6, <2>3, <2>4, <3>2
      <4> QED
        BY <3>2, <4>1 DEF ByteOr0, size
    <3> QED
      BY <3>1, <3>2
  <2>7. g.ok /\ ~g.threw => to = end
    BY <1>1, <2>1
  <2> HIDE DEF to
  <2>8. Content(to)
    BY <2>2, <2>5, <2>6
  <2> QED
    BY <1>3, <2>1, <2>3, <2>5, <2>7, <2>8 DEF size, left
<1> QED
  BY <1>7, <1>8

----------------------------------------------------------------------------
(* Reading.                                                                *)

\* Parts of the bytes one after the other.
LEMMA PartsJoined ==
    ASSUME NEW f, NEW off \in Nat, NEW m \in Nat, NEW k \in Nat,
           NEW s, IsPart(s, f, off, m), NEW t, IsPart(t, f, off + m, k)
    PROVE  IsPart(s \o t, f, off, m + k)
<1> DEFINE u == s \o t
<1>1. /\ s \in Seq(Int) /\ Len(s) = m /\ \A i \in 1..m : s[i] = ByteAt(f, off + i)
      /\ t \in Seq(Int) /\ Len(t) = k /\ \A i \in 1..k : t[i] = ByteAt(f, off + m + i)
  BY DEF IsPart
<1>2. /\ u \in Seq(Int) /\ Len(u) = Len(s) + Len(t)
      /\ \A i \in 1..(Len(s) + Len(t)) : u[i] = IF i <= Len(s) THEN s[i] ELSE t[i - Len(s)]
  BY <1>1, ConcatProperties
<1> HIDE DEF u
<1>3. ASSUME NEW i \in 1..(m + k) PROVE u[i] = ByteAt(f, off + i)
  <2>1. CASE i <= m
    BY <1>1, <1>2, <2>1
  <2>2. CASE ~(i <= m)
    <3>1. i - m \in 1..k /\ off + m + (i - m) = off + i
      BY <2>2
    <3> QED
      BY <1>1, <1>2, <2>2, <3>1
  <2> QED
    BY <2>1, <2>2
<1> QED
  BY <1>1, <1>2, <1>3 DEF IsPart, u

\* A part of a part of the bytes.
LEMMA PartOfPart ==
    ASSUME NEW f, NEW off \in Nat, NEW m \in Nat, NEW s, IsPart(s, f, off, m),
           NEW from \in Nat, NEW k \in Nat, from + k <= m
    PROVE  IsPart(SubSeq(s, from + 1, from + k), f, off + from, k)
<1> DEFINE a == from + 1
           b == from + k
           t == SubSeq(s, a, b)
<1>1. s \in Seq(Int) /\ Len(s) = m /\ \A i \in 1..m : s[i] = ByteAt(f, off + i)
  BY DEF IsPart
<1>2. a \in Nat \ {0} /\ b \in Int /\ b <= Len(s)
  BY <1>1
<1> HIDE DEF a, b
<1>3. /\ t \in Seq(Int) /\ Len(t) = (IF a <= b THEN b - a + 1 ELSE 0)
      /\ \A i \in 1..Len(t) : t[i] = s[a + i - 1]
  BY <1>1, <1>2, PartIs
<1> HIDE DEF t
<1>4. Len(t) = k
  BY <1>3 DEF a, b
<1>5. ASSUME NEW i \in 1..k PROVE t[i] = ByteAt(f, off + from + i)
  <2>1. a + i - 1 = from + i /\ from + i \in 1..m /\ off + (from + i) = off + from + i
    BY DEF a
  <2> QED
    BY <1>1, <1>3, <1>4, <2>1
<1> QED
  BY <1>3, <1>4, <1>5 DEF IsPart, t, a, b

\* A loop that has read m bytes and goes on, and one that has ended.
Reading(f, off, n, s, m) ==
    /\ m \in Nat /\ s.size \in Nat \ {0} /\ m + s.size = n /\ s.failed = FALSE
    /\ IsPart(s.out, f, off, m) /\ off + m <= SizeOf(f)
    /\ s.blk \in Nat /\ s.part \in Nat /\ s.part < BS /\ s.blk * BS + s.part = off + m
    /\ s.blk * BS < SizeOf(f) \/ s.f.cblk # s.blk
    /\ Sound(s.f) /\ Same(f, s.f) /\ Stays(f, s.f) /\ ~s.f.threw
    /\ Reads(s.f) >= SizeOf(f) + 1 - m

ReadOver(f, off, n, s) ==
    /\ s.size = 0 /\ s.failed \in BOOLEAN
    /\ Sound(s.f) /\ Same(f, s.f) /\ Stays(f, s.f)
    /\ ~s.failed => IsPart(s.out, f, off, Least(n, SizeOf(f) - off))

\* One round (BlockFileIO.cpp:156-184).
LEMMA ReadRoundIs ==
    ASSUME LayerKeeps, NEW f, Good(f), SizeOf(f) <= Top, NEW off \in Nat, NEW n \in Nat,
           NEW s, NEW m, Reading(f, off, n, s, m)
    PROVE  LET t == ReadRound(s)
           IN \/ \E k : Reading(f, off, n, t, k) /\ t.blk = s.blk + 1
              \/ ReadOver(f, off, n, t)
<1> DEFINE b == s.blk
           part == s.part
           size == s.size
           at == b * BS
           all == SizeOf(f)
           has == Has(f, b)
           r == CacheRead(s.f, b, BS)
           copied == Least(has - part, size)
           piece == SubSeq(r.data, part + 1, part + copied)
           out == s.out \o piece
           t == ReadRound(s)
           more == [f |-> r.f, blk |-> b + 1, part |-> 0, size |-> size - copied, out |-> out,
                    failed |-> FALSE]
<1>1. /\ m \in Nat /\ size \in Nat \ {0} /\ m + size = n /\ s.failed = FALSE
      /\ IsPart(s.out, f, off, m) /\ off + m <= all
      /\ b \in Nat /\ part \in Nat /\ part < BS /\ at + part = off + m
      /\ (at < all \/ s.f.cblk # b)
      /\ Sound(s.f) /\ Same(f, s.f) /\ Stays(f, s.f) /\ ~s.f.threw
      /\ Reads(s.f) >= all + 1 - m
  BY DEF Reading
<1>2. /\ BS \in Nat \ {0} /\ Top \in Nat /\ all \in Nat /\ Good(s.f) /\ Reads(s.f) \in Int
      /\ SizeOf(s.f) = all
  BY <1>1, Typed DEF Sound, Same
<1>3. at \in Nat /\ b <= at /\ (b + 1) * BS = at + BS /\ b + 1 \in Nat
  BY <1>1, TimesIs DEF LayerKeeps
<1>4. /\ has \in Nat /\ has <= BS /\ (has # 0 => at + has <= all) /\ (has < BS => all <= at + has)
  BY <1>1, HasIs
<1>5. all <= Top
  OBVIOUS
<1>6. Has(s.f, b) = has
  BY <1>2 DEF Has
<1> HIDE DEF b, part, size, at, all, has
<1>20. /\ m \in Nat /\ b \in Nat /\ size \in Nat \ {0} /\ m + size = n /\ off + m <= all
       /\ part \in Nat /\ part < BS /\ at + part = off + m /\ Reads(s.f) >= all + 1 - m
  BY <1>1
<1>7. /\ Sound(r.f) /\ Same(f, r.f) /\ Stays(f, r.f) /\ r.failed \in BOOLEAN
      /\ ~r.failed => /\ IsPart(r.data, f, at, has)
                      /\ ~r.f.threw /\ Reads(r.f) >= Reads(s.f) - 1
                      /\ r.data # <<>> => r.f.cblk = b
      /\ r.failed => r.data = <<>> /\ r.f.threw
  <2>1. Reads(s.f) >= 0 /\ Reads(s.f) # 0
    BY <1>2, <1>20
  <2>2. b <= Top \/ SizeOf(s.f) <= b * BS
    <3>1. b <= Top \/ all <= at
      BY <1>2, <1>3, <1>5, <1>20
    <3> QED
      BY <1>2, <3>1 DEF at
  <2>3. ~Stale(s.f, b)
    <3>1. Stale(s.f, b) => s.f.cblk = b /\ all <= at
      BY <1>2 DEF Stale, at
    <3> QED
      BY <1>1, <1>2, <1>3, <3>1
  <2>4. BS \in Nat /\ BS <= BS /\ b \in Nat
    BY <1>1, <1>2
  <2> HIDE DEF r
  <2>5. /\ Sound(r.f) /\ Same(s.f, r.f) /\ Stays(s.f, r.f) /\ r.failed \in BOOLEAN
        /\ ~r.failed => /\ IsPart(r.data, s.f, at, Least(BS, has))
                        /\ ~r.f.threw /\ Reads(r.f) >= Reads(s.f) - 1
                        /\ r.data # <<>> => r.f.cblk = b
        /\ r.failed => r.data = <<>> /\ (r.f.threw \/ Reads(s.f) = 0)
    BY <1>1, <1>6, <2>1, <2>2, <2>3, <2>4, CacheReadIs DEF r, at
  <2>6. Same(f, r.f) /\ Stays(f, r.f) /\ Same(s.f, f)
    BY <1>1, <2>5, SameAsSame, Later
  <2>7. Least(BS, has) = has
    BY <1>2, <1>4 DEF Least
  <2>8. ASSUME ~r.failed PROVE IsPart(r.data, f, at, has)
    <3>1. IsPart(r.data, s.f, at, has)
      BY <2>5, <2>7, <2>8
    <3>2. has = 0 \/ at + has <= SizeOf(s.f)
      BY <1>2, <1>4
    <3>3. SizeOf(s.f) \in Nat
      BY <1>2
    <3> QED
      BY <1>3, <1>4, <2>6, <3>1, <3>2, <3>3, SamePart
  <2> QED
    BY <2>1, <2>5, <2>6, <2>8
<1>8. Good(r.f) /\ Reads(r.f) \in Int
  BY <1>7, Typed DEF Sound
<1>9. /\ Len(r.data) <= part => t = [s EXCEPT !.f = r.f, !.size = 0, !.failed = r.f.threw]
      /\ Len(r.data) > part /\ Len(r.data) = has => t = IF has < BS THEN [more EXCEPT !.size = 0] ELSE more
  <2>1. s.size # 0
    BY <1>1 DEF size
  <2>2. Len(r.data) \in Nat
    BY <1>7, EmptySeq DEF IsPart
  <2>3. t = LET got == Len(r.data)
                c == Least(got - part, size)
                next == [f |-> r.f, blk |-> b + 1, part |-> 0, size |-> size - c,
                         out |-> s.out \o SubSeq(r.data, part + 1, part + c),
                         failed |-> FALSE]
            IN CASE size = 0 -> s
                 [] size # 0 /\ got <= part -> [s EXCEPT !.f = r.f, !.size = 0, !.failed = r.f.threw]
                 [] size # 0 /\ got > part /\ got < BS -> [next EXCEPT !.size = 0]
                 [] OTHER -> next
    BY DEF ReadRound, b, part, size
  <2>4. ASSUME Len(r.data) <= part
        PROVE  t = [s EXCEPT !.f = r.f, !.size = 0, !.failed = r.f.threw]
    <3>1. size # 0 /\ ~(Len(r.data) > part)
      BY <1>20, <2>2, <2>4
    <3> HIDE DEF r, t
    <3> QED
      BY <2>3, <2>4, <3>1
  <2>5. ASSUME Len(r.data) > part, Len(r.data) = has
        PROVE  t = IF has < BS THEN [more EXCEPT !.size = 0] ELSE more
    <3>1. size # 0 /\ ~(Len(r.data) <= part)
      BY <1>20, <2>2, <2>5
    <3> HIDE DEF r, t
    <3> QED
      BY <2>3, <2>5, <3>1 DEF more, copied, out, piece
  <2> QED
    BY <2>4, <2>5
<1> HIDE DEF r, t
<1>10. CASE r.failed
  <2>1. r.data = <<>> /\ r.f.threw /\ Len(r.data) <= part
    BY <1>7, <1>10, <1>20, EmptySeq
  <2>2. t = [s EXCEPT !.f = r.f, !.size = 0, !.failed = r.f.threw]
    BY <1>9, <2>1
  <2>3. t.f = r.f /\ t.size = 0 /\ t.failed
    BY <2>1, <2>2
  <2> QED
    BY <1>7, <2>3 DEF ReadOver, t
<1>11. CASE ~r.failed /\ has <= part
  <2>1. IsPart(r.data, f, at, has) /\ Len(r.data) = has /\ ~r.f.threw
    BY <1>7, <1>11 DEF IsPart
  <2>2. t = [s EXCEPT !.f = r.f, !.size = 0, !.failed = r.f.threw]
    BY <1>9, <1>11, <2>1
  <2>3. t.f = r.f /\ t.size = 0 /\ t.out = s.out /\ t.failed = r.f.threw
    BY <2>2
  <2>4. Least(n, all - off) = m
    BY <1>2, <1>3, <1>4, <1>11, <1>20 DEF Least
  <2>5. r.f.threw \in BOOLEAN
    BY <1>8, Typed
  <2> QED
    BY <1>1, <1>7, <2>1, <2>3, <2>4, <2>5 DEF ReadOver, t, all
<1>12. CASE ~r.failed /\ has > part
  <2>1. IsPart(r.data, f, at, has) /\ r.data \in Seq(Int) /\ Len(r.data) = has /\ ~r.f.threw
    BY <1>7, <1>12 DEF IsPart
  <2>2. t = IF has < BS THEN [more EXCEPT !.size = 0] ELSE more
    BY <1>9, <1>12, <2>1
  <2>3. /\ copied \in Nat \ {0} /\ part + copied <= has /\ copied <= size
        /\ (copied = size \/ copied = has - part)
    BY <1>4, <1>12, <1>20 DEF Least
  <2>4. /\ t.f = r.f /\ t.blk = b + 1 /\ t.part = 0 /\ t.out = out /\ t.failed = FALSE
        /\ t.size = IF has < BS THEN 0 ELSE size - copied
    <3> HIDE DEF out, copied
    <3> QED
      BY <2>2
  <2> HIDE DEF copied
  <2>5. IsPart(out, f, off, m + copied)
    <3>1. IsPart(piece, f, at + part, copied)
      BY <1>3, <1>4, <1>20, <2>1, <2>3, PartOfPart
    <3>2. IsPart(piece, f, off + m, copied) /\ copied \in Nat
      BY <1>20, <2>3, <3>1
    <3> HIDE DEF piece
    <3> QED
      BY <1>1, <3>2, PartsJoined
  <2> HIDE DEF out
  <2>6. at + has <= all
    BY <1>4, <1>12, <1>20
  <2>7. CASE t.size = 0
    <3>1. Least(n, all - off) = m + copied
      <4>1. has < BS \/ size = copied
        BY <1>2, <1>4, <1>20, <2>3, <2>4, <2>7
      <4>2. CASE size = copied
        BY <1>2, <1>3, <1>4, <1>20, <2>3, <2>6, <4>2 DEF Least
      <4>3. CASE has < BS /\ copied = has - part
        <5>1. all = at + has
          BY <1>2, <1>3, <1>4, <2>6, <4>3
        <5> QED
          BY <1>2, <1>3, <1>4, <1>20, <2>3, <4>3, <5>1 DEF Least
      <4> QED
        BY <2>3, <4>1, <4>2, <4>3
    <3>2. IsPart(t.out, f, off, Least(n, SizeOf(f) - off))
      BY <2>4, <2>5, <3>1 DEF all
    <3> QED
      BY <1>7, <2>4, <2>7, <3>2 DEF ReadOver, t
  <2>8. CASE t.size # 0
    <3> DEFINE k == m + copied
               c == b + 1
    <3>1. has = BS /\ t.size = size - copied /\ copied = BS - part
      BY <1>2, <1>4, <1>20, <2>3, <2>4, <2>8
    <3>2. /\ k \in Nat /\ t.size \in Nat \ {0} /\ k + t.size = n /\ off + k <= all
          /\ at + BS = off + k
      BY <1>2, <1>3, <1>20, <2>3, <2>6, <2>8, <3>1
    <3>3. c \in Nat /\ c * BS + 0 = off + k /\ 0 < BS /\ 0 \in Nat
      <4>1. c * BS = at + BS /\ c \in Nat
        BY <1>3
      <4> HIDE DEF c, k
      <4> QED
        BY <1>2, <1>3, <3>2, <4>1
    <3>4. Reads(r.f) >= all + 1 - k
      BY <1>2, <1>7, <1>8, <1>12, <1>20, <2>3
    <3>5. r.f.cblk # c
      <4>1. r.data # <<>>
        BY <1>20, <1>12, <1>4, <2>1, EmptySeq
      <4>2. r.f.cblk = b
        BY <1>7, <1>12, <4>1
      <4> QED
        BY <1>1, <4>2
    <3> HIDE DEF k, c
    <3>6. Reading(f, off, n, t, k) /\ t.blk = b + 1
      <4>1. IsPart(t.out, f, off, k) /\ t.blk = c
        BY <2>4, <2>5 DEF k, c
      <4> QED
        BY <1>7, <2>1, <2>4, <3>2, <3>3, <3>4, <3>5, <4>1 DEF Reading, all, c
    <3> QED
      BY <3>6 DEF t, b
  <2> QED
    BY <2>7, <2>8
<1>13. has <= part \/ has > part
  BY <1>4, <1>20
<1> QED
  BY <1>7, <1>10, <1>11, <1>12, <1>13

\* A round of a loop that has ended.
LEMMA ReadRoundOver ==
    ASSUME NEW s, s.size = 0 PROVE ReadRound(s) = s
BY DEF ReadRound

\* The loop over the blocks of a read: enough reads succeed for it to meet the end of
\* the file, unless one throws.
LEMMA ReadLoopIs ==
    ASSUME LayerKeeps, NEW f, Sound(f), ~f.threw, Reads(f) >= SizeOf(f) + 1,
           NEW off \in Nat, off < SizeOf(f), SizeOf(f) <= Top, NEW n \in Nat
    PROVE  LET r == ReadLoop(f, off, n)
           IN /\ Sound(r.f) /\ Same(f, r.f) /\ Stays(f, r.f) /\ r.failed \in BOOLEAN
              /\ ~r.failed => IsPart(r.data, f, off, Least(n, SizeOf(f) - off))
<1> DEFINE first == off \div BS
           start == [f |-> f, blk |-> first, part |-> off % BS, size |-> n, out |-> <<>>,
                     failed |-> FALSE]
           rounds == RoundsFor(n)
           r == ReadLoop(f, off, n)
<1>1. /\ BS \in Nat \ {0} /\ Good(f) /\ SizeOf(f) \in Nat /\ Same(f, f) /\ Stays(f, f)
  BY Typed DEF Sound, Same
<1>2. first \in Nat /\ off % BS \in Nat /\ off % BS < BS /\ off = first * BS + (off % BS)
  BY DivIs DEF LayerKeeps
<1>3. rounds \in Nat /\ n < rounds * BS - BS
  <2> DEFINE q == n \div BS
  <2>1. q \in Nat /\ n % BS \in Nat /\ n % BS < BS /\ n = q * BS + (n % BS) /\ rounds = q + 2
    BY DivIs DEF LayerKeeps, RoundsFor
  <2> HIDE DEF q, rounds
  <2>2. (q + 2) * BS = q * BS + 2 * BS /\ q * BS \in Nat
    BY <2>1, BlocksAdd
  <2> QED
    BY <1>1, <2>1, <2>2
<1> HIDE DEF rounds
<1>5. PICK h : /\ h[0] = start
               /\ \A k \in 1..rounds : h[k] = ReadRound(h[k - 1])
               /\ Rounds(ReadRound, start, rounds) = h[rounds]
  <2> HIDE DEF start
  <2> QED
    BY <1>3, ReadRounds
<1>6. r.f = h[rounds].f /\ r.data = h[rounds].out /\ r.failed = h[rounds].failed
  BY <1>5 DEF ReadLoop, rounds
<1> HIDE DEF r
<1>7. Reading(f, off, n, start, 0) \/ ReadOver(f, off, n, start)
  <2>1. /\ start.f = f /\ start.blk = first /\ start.part = off % BS /\ start.size = n
        /\ start.out = <<>> /\ start.failed = FALSE
    OBVIOUS
  <2>2. IsPart(<<>>, f, off, 0)
    BY EmptySeq DEF IsPart
  <2>3. off < SizeOf(f) /\ Sound(f) /\ ~f.threw /\ Reads(f) >= SizeOf(f) + 1
    OBVIOUS
  <2> HIDE DEF start, first
  <2>4. CASE n = 0
    <3>1. Least(n, SizeOf(f) - off) = 0
      BY <1>1, <2>3, <2>4 DEF Least
    <3> QED
      BY <1>1, <2>1, <2>2, <2>3, <2>4, <3>1 DEF ReadOver
  <2>5. CASE n # 0
    <3>1. /\ 0 \in Nat /\ n \in Nat \ {0} /\ 0 + n = n /\ off + 0 <= SizeOf(f)
          /\ first * BS + (off % BS) = off + 0 /\ first * BS < SizeOf(f)
          /\ SizeOf(f) + 1 - 0 = SizeOf(f) + 1
      <4> DEFINE at == first * BS
      <4>1. at \in Nat /\ off % BS \in Nat /\ off = at + (off % BS)
        BY <1>2, TimesIs DEF LayerKeeps
      <4> HIDE DEF at
      <4>2. /\ 0 \in Nat /\ n \in Nat \ {0} /\ 0 + n = n /\ off + 0 <= SizeOf(f)
            /\ at + (off % BS) = off + 0 /\ at < SizeOf(f)
            /\ SizeOf(f) + 1 - 0 = SizeOf(f) + 1
        BY <1>1, <2>3, <2>5, <4>1
      <4> QED
        BY <4>2 DEF at
    <3> QED
      BY <1>1, <1>2, <2>1, <2>2, <2>3, <3>1 DEF Reading
  <2> QED
    BY <2>4, <2>5
<1> HIDE DEF start
<1> DEFINE K == {k \in 0..rounds : \/ \E m : Reading(f, off, n, h[k], m) /\ h[k].blk = first + k
                                   \/ ReadOver(f, off, n, h[k])}
<1>8. 0 \in K
  <2>1. start.blk = first + 0
    BY <1>2 DEF start
  <2> QED
    BY <1>3, <1>5, <1>7, <2>1
<1>9. ASSUME NEW k \in 1..rounds, k - 1 \in K PROVE k \in K
  <2> DEFINE s == h[k - 1]
             t == h[k]
  <2>0. k \in 0..rounds
    BY <1>3
  <2>1. t = ReadRound(s)
    BY <1>5
  <2>2. \/ \E m : Reading(f, off, n, s, m) /\ s.blk = first + (k - 1)
        \/ ReadOver(f, off, n, s)
    BY <1>9
  <2> HIDE DEF s, t
  <2>3. CASE \E m : Reading(f, off, n, s, m) /\ s.blk = first + (k - 1)
    <3>1. PICK m : Reading(f, off, n, s, m) /\ s.blk = first + (k - 1)
      BY <2>3
    <3>2. \/ \E x : Reading(f, off, n, t, x) /\ t.blk = s.blk + 1
          \/ ReadOver(f, off, n, t)
      BY <1>1, <2>1, <3>1, ReadRoundIs
    <3>3. s.blk + 1 = first + k
      BY <1>2, <1>3, <3>1
    <3> QED
      BY <2>0, <3>2, <3>3 DEF t
  <2>4. CASE ReadOver(f, off, n, s)
    <3>1. t = s
      BY <2>1, <2>4, ReadRoundOver DEF ReadOver
    <3> QED
      BY <2>0, <2>4, <3>1 DEF t
  <2> QED
    BY <2>2, <2>3, <2>4
<1>10. rounds \in K
  <2> HIDE DEF K
  <2> QED
    BY <1>3, <1>8, <1>9, UpTo
<1>11. ASSUME NEW m, Reading(f, off, n, h[rounds], m), h[rounds].blk = first + rounds PROVE FALSE
  <2> DEFINE part == h[rounds].part
             size == h[rounds].size
  <2>1. /\ m \in Nat /\ size \in Nat \ {0} /\ m + size = n /\ part \in Nat
        /\ (first + rounds) * BS + part = off + m
    BY <1>11 DEF Reading
  <2> HIDE DEF part, size, first
  <2>3. /\ (first + rounds) * BS = first * BS + rounds * BS
        /\ first * BS \in Nat /\ rounds * BS \in Nat
    BY <1>2, <1>3, BlocksAdd DEF first
  <2>4. first \in Nat /\ off % BS \in Nat /\ off % BS < BS /\ off = first * BS + (off % BS)
    BY <1>2
  <2> QED
    BY <1>1, <1>3, <2>1, <2>3, <2>4
<1>12. ReadOver(f, off, n, h[rounds])
  BY <1>10, <1>11
<1> QED
  BY <1>6, <1>12 DEF ReadOver, r

\* read (BlockFileIO.cpp:134-188): the bytes asked for, as far as they are there.
LEMMA ReadFileIs ==
    ASSUME LayerKeeps, NEW f, Sound(f), ~f.threw, Reads(f) >= 0,
           NEW off \in Nat, off < SizeOf(f), SizeOf(f) <= Top, NEW n \in Nat,
           (off % BS = 0 /\ n <= BS) \/ Reads(f) >= SizeOf(f) + 1
    PROVE  LET r == ReadFile(f, off, n)
           IN /\ Sound(r.f) /\ Same(f, r.f) /\ Stays(f, r.f) /\ r.failed \in BOOLEAN
              /\ ~r.failed => IsPart(r.data, f, off, Least(n, SizeOf(f) - off))
<1>1. CASE off % BS = 0 /\ n <= BS
  <2> DEFINE b == off \div BS
             at == b * BS
             r == CacheRead(f, b, n)
             has == Has(f, b)
  <2>1. BS \in Nat \ {0} /\ Good(f) /\ SizeOf(f) \in Nat /\ Top \in Nat
    BY Typed DEF Sound
  <2>2. b \in Nat /\ off = at /\ b <= at /\ at \in Nat
    <3>1. b \in Nat /\ off = at + (off % BS)
      BY DivIs DEF LayerKeeps
    <3>2. at \in Nat /\ b <= at
      BY <3>1, TimesIs DEF LayerKeeps
    <3> HIDE DEF at
    <3> QED
      BY <1>1, <3>1, <3>2
  <2>3. has = Least(BS, SizeOf(f) - off)
    <3>1. has = IF SizeOf(f) <= at THEN 0 ELSE Least(BS, SizeOf(f) - at)
      BY DEF Has
    <3> HIDE DEF at, has
    <3> QED
      BY <2>1, <2>2, <3>1
  <2>4. ReadFile(f, off, n) = r
    BY <1>1 DEF ReadFile
  <2>5. b <= Top
    <3> HIDE DEF b, at
    <3> QED
      BY <2>1, <2>2
  <2>6. ~Stale(f, b)
    <3>1. Stale(f, b) => SizeOf(f) <= at
      BY DEF Stale
    <3> HIDE DEF b, at
    <3> QED
      BY <2>1, <2>2, <3>1
  <2>7. Least(n, has) = Least(n, SizeOf(f) - off)
    <3> HIDE DEF has
    <3> QED
      BY <1>1, <2>1, <2>3 DEF Least
  <2> HIDE DEF r
  <2>8. /\ Sound(r.f) /\ Same(f, r.f) /\ Stays(f, r.f) /\ r.failed \in BOOLEAN
        /\ ~r.failed => IsPart(r.data, f, at, Least(n, has))
    BY <1>1, <2>2, <2>5, <2>6, CacheReadIs DEF r
  <2> HIDE DEF at, has
  <2>9. ~r.failed => IsPart(r.data, f, off, Least(n, SizeOf(f) - off))
    BY <2>2, <2>7, <2>8
  <2> QED
    BY <2>4, <2>8, <2>9
<1>2. CASE ~(off % BS = 0 /\ n <= BS)
  <2>1. ReadFile(f, off, n) = ReadLoop(f, off, n)
    BY <1>2 DEF ReadFile
  <2>2. Reads(f) >= SizeOf(f) + 1
    BY <1>2
  <2> QED
    BY <2>1, <2>2, ReadLoopIs
<1> QED
  BY <1>1, <1>2

----------------------------------------------------------------------------
(* Truncating.  What the layers do to the files below them differs, so     *)
(* here is what they build on.                                             *)

\* The block a truncation cuts in two, and what is left of it.
Kept(f, n) == CacheRead(f, n \div BS, BS)
LeftOf(f, n) ==
    LET kept == Kept(f, n)
    IN SubSeq(Padded(kept.data, Most(n % BS, Len(kept.data))), 1, n % BS)

\* Inside a block, what is left of it is read first (BlockFileIO.cpp:405-418).
LEMMA LeftIs ==
    ASSUME LayerKeeps, NEW f, Sound(f), ~f.threw, Reads(f) >= 1, SizeOf(f) <= Top,
           NEW n \in Nat, n < SizeOf(f), n % BS # 0
    PROVE  LET r == Kept(f, n)
           IN /\ Sound(r.f) /\ Same(f, r.f) /\ Stays(f, r.f) /\ Writes(r.f) = Writes(f)
              /\ ~r.f.threw => /\ Reads(r.f) >= Reads(f) - 1
                               /\ IsPart(LeftOf(f, n), f, (n \div BS) * BS, n % BS)
<1> DEFINE q == n \div BS
           part == n % BS
           at == q * BS
           has == Has(f, q)
           r == Kept(f, n)
           all == SizeOf(f)
<1>1. BS \in Nat \ {0} /\ Good(f) /\ all \in Nat /\ Reads(f) \in Int /\ Top \in Nat
  BY Typed DEF Sound
<1>2. q \in Nat /\ part \in Nat /\ part < BS /\ n = at + part
  BY DivIs DEF LayerKeeps
<1>3. at \in Nat /\ q <= at
  BY <1>2, TimesIs DEF LayerKeeps
<1>4. has \in Nat /\ has <= BS /\ (has < BS => all <= at + has)
  BY <1>1, <1>2, HasIs
<1>5. q <= Top /\ ~Stale(f, q) /\ Least(BS, has) = has /\ part < has /\ part # 0
  <2>1. Stale(f, q) => all <= at
    BY DEF Stale
  <2>2. n < all /\ all <= Top /\ part # 0
    OBVIOUS
  <2> HIDE DEF at, all, q, part, has
  <2> QED
    BY <1>1, <1>2, <1>3, <1>4, <2>1, <2>2 DEF Least
<1>6. /\ Sound(r.f) /\ Same(f, r.f) /\ Stays(f, r.f) /\ Writes(r.f) = Writes(f)
      /\ r.failed \in BOOLEAN
      /\ ~r.failed => IsPart(r.data, f, at, has) /\ ~r.f.threw /\ Reads(r.f) >= Reads(f) - 1
      /\ r.failed => r.f.threw
  <2>1. Reads(f) >= 0 /\ Reads(f) # 0 /\ BS \in Nat /\ BS <= BS
    BY <1>1
  <2> HIDE DEF r
  <2>2. /\ Sound(r.f) /\ Same(f, r.f) /\ Stays(f, r.f) /\ Writes(r.f) = Writes(f)
        /\ r.failed \in BOOLEAN
        /\ ~r.failed => /\ IsPart(r.data, f, q * BS, Least(BS, Has(f, q)))
                        /\ ~r.f.threw /\ Reads(r.f) >= Reads(f) - 1
        /\ r.failed => r.data = <<>> /\ (r.f.threw \/ Reads(f) = 0)
    <3>1. /\ Sound(f) /\ ~f.threw /\ Reads(f) >= 0 /\ q \in Nat /\ BS \in Nat /\ BS <= BS
          /\ q <= Top \/ SizeOf(f) <= q * BS
          /\ BS = 0 \/ ~Stale(f, q)
      BY <1>2, <1>5, <2>1
    <3>2. r = CacheRead(f, q, BS)
      BY DEF r, Kept
    <3> HIDE DEF q
    <3> QED
      BY <3>1, <3>2, CacheReadIs
  <2> QED
    BY <1>5, <2>1, <2>2
<1> HIDE DEF r, at, q, part, has, all
<1>7. ASSUME ~r.failed PROVE IsPart(LeftOf(f, n), f, at, part)
  <2>1. IsPart(r.data, f, at, has) /\ r.data \in Seq(Int) /\ Len(r.data) = has
    BY <1>6, <1>7 DEF IsPart
  <2>2. Most(part, Len(r.data)) = has
    BY <1>2, <1>4, <1>5, <2>1 DEF Most
  <2>3. IsPart(Padded(r.data, has), f, at, has)
    <3>1. /\ Padded(r.data, has) \in Seq(Int) /\ Len(Padded(r.data, has)) = has
          /\ \A i \in 1..has : Padded(r.data, has)[i] = IF i <= Len(r.data) THEN r.data[i] ELSE 0
      BY <1>4, <2>1, PaddedIs
    <3>2. \A i \in 1..has : i <= Len(r.data)
      BY <1>4, <2>1
    <3> QED
      BY <2>1, <3>1, <3>2 DEF IsPart
  <2>4. IsPart(SubSeq(Padded(r.data, has), 0 + 1, 0 + part), f, at + 0, part)
    BY <1>2, <1>3, <1>4, <1>5, <2>3, PartOfPart
  <2>5. LeftOf(f, n) = SubSeq(Padded(r.data, has), 1, part)
    BY <2>2 DEF LeftOf, r, part
  <2>6. 0 + 1 = 1 /\ 0 + part = part /\ at + 0 = at
    BY <1>2, <1>3
  <2> QED
    BY <2>4, <2>5, <2>6
<1> QED
  BY <1>6, <1>7 DEF r, at, q, part

\* A block cut in two, with what is left of it cached.
LEMMA TrimmedSound ==
    ASSUME LayerKeeps, NEW f, NEW g, Good(g), NEW b \in Nat, NEW k \in Nat \ {0}, k <= BS,
           SizeOf(g) = b * BS + k, \A i \in 1..SizeOf(g) : ByteAt(g, i) = ByteAt(f, i),
           NEW d, IsPart(d, f, b * BS, k), g.cblk = b, g.cdata = d
    PROVE  Sound(g)
<1> DEFINE at == b * BS
<1>1. at \in Nat /\ BS \in Nat \ {0} /\ SizeOf(g) = at + k
  BY Typed, TimesIs DEF LayerKeeps
<1>2. Has(g, b) = IF SizeOf(g) <= at THEN 0 ELSE Least(BS, SizeOf(g) - at)
  BY DEF Has
<1>3. IsPart(d, f, at, k)
  OBVIOUS
<1> HIDE DEF at
<1>4. Has(g, b) = k /\ at < SizeOf(g)
  BY <1>1, <1>2 DEF Least
<1>5. \A i \in 1..k : at + i \in 1..SizeOf(g)
  BY <1>1
<1>6. IsPart(d, g, at, k)
  BY <1>3, <1>5 DEF IsPart
<1> QED
  BY <1>4, <1>6 DEF Sound, Cached, Coherent, Within, at

\* Whole blocks cut off, where a hole may not come: what is cached from behind the end
\* is not looked at before it is written.
LEMMA CutSound ==
    ASSUME LayerKeeps, NEW f, Sound(f), NEW g, Good(g), g.cblk = f.cblk, g.cdata = f.cdata,
           ~AllowHoles, SizeOf(g) <= SizeOf(f), SizeOf(g) % BS = 0,
           \A i \in 1..SizeOf(g) : ByteAt(g, i) = ByteAt(f, i)
    PROVE  Sound(g)
<1> DEFINE b == f.cblk
           at == b * BS
           n == SizeOf(g)
           q == n \div BS
<1>1. /\ b \in Nat /\ BS \in Nat \ {0} /\ n \in Nat /\ SizeOf(f) \in Nat /\ Good(f)
  BY Typed DEF Sound
<1>2. q \in Nat /\ n = q * BS
  <2>1. q \in Nat /\ n = q * BS + (n % BS) /\ n % BS = 0
    BY <1>1, DivIs DEF LayerKeeps
  <2>2. q * BS \in Nat
    BY <2>1, TimesIs DEF LayerKeeps
  <2> QED
    BY <2>1, <2>2
<1>3. at \in Nat /\ (at < q * BS => b < q) /\ (b < q => at + BS <= q * BS)
  BY <1>1, <1>2, TimesIs DEF LayerKeeps
<1>4. SUFFICES ASSUME f.cdata # <<>>, at < n PROVE IsPart(f.cdata, g, at, Has(g, b))
  BY DEF Sound, Cached, Coherent, Within
<1>5. /\ Has(g, b) = IF n <= at THEN 0 ELSE Least(BS, n - at)
      /\ Has(f, b) = IF SizeOf(f) <= at THEN 0 ELSE Least(BS, SizeOf(f) - at)
  BY DEF Has
<1>6. at + BS <= n /\ n <= SizeOf(f)
  BY <1>2, <1>3, <1>4
<1>7. IsPart(f.cdata, f, at, Has(f, b))
  <2>1. at < SizeOf(f)
    <3> HIDE DEF at, n
    <3> QED
      BY <1>1, <1>3, <1>4, <1>6
  <2> QED
    BY <1>4, <2>1 DEF Sound, Cached, Coherent
<1>8. \A i \in 1..n : ByteAt(g, i) = ByteAt(f, i)
  OBVIOUS
<1> HIDE DEF at, n, b, q
<1>9. Has(f, b) = BS /\ Has(g, b) = BS
  BY <1>1, <1>3, <1>5, <1>6 DEF Least
<1>10. \A i \in 1..BS : at + i \in 1..n
  BY <1>1, <1>3, <1>6
<1> QED
  BY <1>7, <1>8, <1>9, <1>10 DEF IsPart

\* Holes after whole blocks.
LEMMA GrownSound ==
    ASSUME LayerKeeps, NEW f, Sound(f), NEW g, Good(g), g.cblk = f.cblk, g.cdata = f.cdata,
           AllowHoles, SizeOf(f) % BS = 0, Grown(f, g)
    PROVE  Sound(g)
<1> DEFINE b == f.cblk
           at == b * BS
           n == SizeOf(f)
           q == n \div BS
<1>1. /\ b \in Nat /\ BS \in Nat \ {0} /\ n \in Nat /\ SizeOf(g) \in Nat /\ Good(f)
      /\ n <= SizeOf(g)
  BY Typed DEF Sound, Grown
<1>2. q \in Nat /\ n = q * BS
  <2>1. q \in Nat /\ n = q * BS + (n % BS) /\ n % BS = 0
    BY <1>1, DivIs DEF LayerKeeps
  <2>2. q * BS \in Nat
    BY <2>1, TimesIs DEF LayerKeeps
  <2> QED
    BY <2>1, <2>2
<1>3. at \in Nat /\ (at < q * BS => b < q) /\ (b < q => at + BS <= q * BS)
  BY <1>1, <1>2, TimesIs DEF LayerKeeps
<1>4. CASE f.cdata = <<>>
  BY <1>4, Uncached
<1>5. CASE f.cdata # <<>>
  <2>1. at < n /\ IsPart(f.cdata, f, at, Has(f, b))
    BY <1>5 DEF Sound, Cached, Coherent, Within
  <2>2. /\ Has(g, b) = IF SizeOf(g) <= at THEN 0 ELSE Least(BS, SizeOf(g) - at)
        /\ Has(f, b) = IF n <= at THEN 0 ELSE Least(BS, n - at)
    BY DEF Has
  <2>3. at + BS <= n
    BY <1>2, <1>3, <2>1
  <2> HIDE DEF at, n, b, q
  <2>4. Has(f, b) = BS /\ Has(g, b) = BS /\ at < SizeOf(g)
    BY <1>1, <1>3, <2>2, <2>3 DEF Least
  <2>5. \A i \in 1..BS : at + i \in 1..SizeOf(g) /\ at + i <= n
    BY <1>1, <1>3, <2>3
  <2>6. \A i \in 1..BS : ByteAt(g, at + i) = ByteAt(f, at + i)
    BY <2>5 DEF Grown, ByteOr0, n
  <2>7. IsPart(f.cdata, g, at, Has(g, b))
    BY <2>1, <2>4, <2>6 DEF IsPart
  <2> QED
    BY <2>4, <2>7 DEF Sound, Cached, Coherent, Within, at, b
<1> QED
  BY <1>4, <1>5
=============================================================================
