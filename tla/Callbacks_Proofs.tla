--------------------------- MODULE Callbacks_Proofs ---------------------------
(***************************************************************************)
(* What Dokan calls once a file is open, and on directories.               *)
(*                                                                         *)
(* The byte-range locks, and the reads and writes over them, are here for  *)
(* any handles, threads and lengths and any size of chunk.  For the locks  *)
(* alone (RangeLocks) the inductive invariant is the three checked ones    *)
(* together: that ranges are disjoint is what makes the two neighbours     *)
(* lock_file looks at enough.  The calls over them (FuseIO) are checked in *)
(* one step and done in others; what carries over is that no other handle  *)
(* locks a byte of an access that was let through, the one thing a run may *)
(* leave out (Unsafe).                                                     *)
(*                                                                         *)
(* What is proved of FuseDirs and RenameTree for any constants holds of    *)
(* the instances the run of MCCallbacks has.  The instances here are those *)
(* of MCCallbacks under other names, so a step of the one is a step of the *)
(* other by their definitions.                                             *)
(***************************************************************************)
EXTENDS MCCallbacks, SequenceTheorems, TLAPS

----------------------------------------------------------------------------
(* RangeLocks.                                                             *)

IInv == TypeOK /\ OnlyListedLock /\ Disjoint

Ranges == [start : Offsets, len : Nat \ {0}]
Apart(R) == \A q, r \in R : Overlap(q, r.start, r.len) => q = r

\* What a range is made of.
LEMMA RangeType ==
    ASSUME NEW r \in Ranges
    PROVE  r.start \in Offsets /\ r.start \in Int /\ r.len \in Int /\ r.len > 0
<1>1. r.start \in Offsets /\ r.len \in Nat \ {0}
  BY DEF Ranges
<1>2. Offsets \subseteq Nat
  BY OffsetsAssumption
<1>3. r.start \in Nat
  BY <1>1, <1>2
<1> QED
  BY <1>1, <1>3

\* The first range at or after s is the one lower_bound finds (fusemain.cpp:990).
LEMMA FirstAfter ==
    ASSUME NEW R \in SUBSET Ranges, NEW s \in Offsets, After(R, s) # {}
    PROVE  \E j \in After(R, s) : \A k \in After(R, s) : j.start <= k.start
<1> DEFINE S == {r.start : r \in After(R, s)}
<1>1. S \in SUBSET Offsets /\ S # {}
  BY DEF After, Ranges
<1>2. PICK lo \in S : \A x \in S : lo <= x
  BY <1>1, OffsetsAssumption
<1>3. PICK j \in After(R, s) : j.start = lo
  BY <1>2
<1> QED
  BY <1>2, <1>3

\* The last range before s is the one before it in the map.
LEMMA LastBefore ==
    ASSUME NEW R \in SUBSET Ranges, NEW s \in Offsets, Before(R, s) # {}
    PROVE  \E j \in Before(R, s) : \A k \in Before(R, s) : k.start <= j.start
<1> DEFINE S == {r.start : r \in Before(R, s)}
<1>1. S \in SUBSET Offsets /\ S # {}
  BY DEF Before, Ranges
<1>2. PICK hi \in S : \A x \in S : x <= hi
  BY <1>1, OffsetsAssumption
<1>3. PICK j \in Before(R, s) : j.start = hi
  BY <1>2
<1> QED
  BY <1>2, <1>3

\* Looking at the two neighbours of a range is looking at every range, when the
\* ranges of the map are disjoint (fusemain.cpp:983-1016).
LEMMA TwoNeighbours ==
    ASSUME NEW R \in SUBSET Ranges, Apart(R),
           NEW s \in Offsets, NEW n \in Int, n > 0
    PROVE  Conflict(R, s, n) <=> \E r \in R : Overlap(r, s, n)
<1>a. s \in Int
  BY OffsetsAssumption
<1>b. \A r \in R : r.start \in Int /\ r.len \in Int /\ r.len > 0
  BY RangeType
<1>1. ASSUME HitsNext(R, s, n)
      PROVE  \E r \in R : Overlap(r, s, n)
  <2>1. PICK j \in After(R, s) : n > j.start - s
    BY <1>1 DEF HitsNext
  <2>2. j \in R /\ j.start >= s /\ j.start \in Int /\ j.len \in Int /\ j.len > 0 /\ s \in Int
    BY <1>a, <1>b DEF After
  <2> QED
    BY <2>1, <2>2 DEF Overlap, End
<1>2. ASSUME HitsPrevious(R, s)
      PROVE  \E r \in R : Overlap(r, s, n)
  <2>1. PICK j \in Before(R, s) : j.len > s - j.start
    BY <1>2 DEF HitsPrevious
  <2>2. j \in R /\ j.start < s /\ j.start \in Int /\ j.len \in Int /\ s \in Int
    BY <1>a, <1>b DEF Before
  <2> QED
    BY <2>1, <2>2 DEF Overlap, End
<1>3. ASSUME NEW r \in R, Overlap(r, s, n), r.start >= s
      PROVE  HitsNext(R, s, n)
  <2>1. r \in After(R, s)
    BY <1>3 DEF After
  <2>2. PICK j \in After(R, s) : \A k \in After(R, s) : j.start <= k.start
    BY <2>1, FirstAfter
  <2>3. j.start <= r.start /\ j.start \in Int /\ r.start \in Int /\ s \in Int
    BY <1>a, <1>b, <2>1, <2>2 DEF After
  <2>4. n > j.start - s
    BY <1>3, <2>3 DEF Overlap
  <2> QED
    BY <2>2, <2>4 DEF HitsNext
<1>4. ASSUME NEW r \in R, Overlap(r, s, n), r.start < s
      PROVE  HitsPrevious(R, s)
  <2>1. r \in Before(R, s)
    BY <1>4 DEF Before
  <2>2. PICK j \in Before(R, s) : \A k \in Before(R, s) : k.start <= j.start
    BY <2>1, LastBefore
  <2>3. /\ j \in R /\ r.start <= j.start /\ j.start < s
        /\ j.start \in Int /\ j.len \in Int /\ j.len > 0
        /\ r.start \in Int /\ r.len \in Int /\ s \in Int
    BY <1>a, <1>b, <2>1, <2>2 DEF Before
  <2>4. s < r.start + r.len
    BY <1>4 DEF Overlap, End
  <2>5. Overlap(r, j.start, j.len)
    BY <2>3, <2>4 DEF Overlap, End
  <2>6. r = j
    BY <2>3, <2>5 DEF Apart
  <2>7. j.len > s - j.start
    BY <2>3, <2>4, <2>6
  <2> QED
    BY <2>2, <2>7 DEF HitsPrevious
<1>5. \A r \in R : r.start >= s \/ r.start < s
  BY <1>a, <1>b
<1> QED
  BY <1>1, <1>2, <1>3, <1>4, <1>5 DEF Conflict

LEMMA InitInv == Init => IInv
  BY DEF Init, IInv, TypeOK, OnlyListedLock, Disjoint

\* A lock is granted only where no handle has one.
LEMMA GrantedIsFree ==
    ASSUME IInv, NEW h \in Handles, NEW s \in Offsets, NEW n \in Lengths,
           Granted(h, s, n)
    PROVE  \A g \in Handles : \A r \in locks[g] : ~Overlap(r, s, n)
<1>1. n \in Int /\ n > 0
  BY OffsetsAssumption DEF Granted
<1> SUFFICES ASSUME NEW g \in Handles
             PROVE  \A r \in locks[g] : ~Overlap(r, s, n)
  OBVIOUS
<1>2. CASE g \in listed
  <2>1. locks[g] \in SUBSET Ranges
    BY DEF IInv, TypeOK, Ranges
  <2>2. Apart(locks[g])
    BY DEF IInv, Disjoint, Apart
  <2>3. ~Conflict(locks[g], s, n)
    BY <1>2 DEF Granted, Locked
  <2> QED
    BY <1>1, <2>1, <2>2, <2>3, TwoNeighbours
<1>3. CASE g \notin listed
  BY <1>3 DEF IInv, OnlyListedLock
<1> QED
  BY <1>2, <1>3

LEMMA NextInv == IInv /\ [Next]_vars => IInv'
<1> SUFFICES ASSUME IInv, [Next]_vars
             PROVE  IInv'
  OBVIOUS
<1> USE DEF IInv
<1>1. ASSUME NEW h \in Handles, AddFile(h)
      PROVE  IInv'
  BY <1>1 DEF AddFile, TypeOK, OnlyListedLock, Disjoint
<1>2. ASSUME NEW h \in Handles, RemoveFile(h)
      PROVE  IInv'
  BY <1>2 DEF RemoveFile, TypeOK, OnlyListedLock, Disjoint
<1>3. ASSUME NEW h \in Handles, NEW s \in Offsets, NEW n \in Lengths, LockFile(h, s, n)
      PROVE  IInv'
  <2> DEFINE new == [start |-> s, len |-> n]
  <2>1. /\ n \in Nat \ {0} /\ s \in Int /\ n \in Int /\ new \in Ranges
        /\ h \in listed /\ listed' = listed
        /\ locks' = [locks EXCEPT ![h] = {r \in locks[h] : r.start # s} \cup {new}]
    BY <1>3, OffsetsAssumption DEF LockFile, Granted, Ranges
  <2>2. TypeOK'
    BY <2>1 DEF TypeOK, Ranges
  <2>3. OnlyListedLock'
    BY <2>1 DEF OnlyListedLock, TypeOK
  <2>4. \A g \in Handles : \A r \in locks[g] : ~Overlap(r, s, n)
    BY <1>3, GrantedIsFree DEF LockFile
  <2>5. \A g \in Handles : \A r \in locks'[g] : r \in locks[g] \/ (g = h /\ r = new)
    BY <2>1 DEF TypeOK
  <2>6. ASSUME NEW g \in Handles, NEW q \in locks[g], Overlap(new, q.start, q.len)
        PROVE  FALSE
    <3>1. /\ q.start \in Int /\ q.len \in Int
          /\ s < q.start + q.len /\ q.start < s + n
      <4>1. q \in Ranges
        BY DEF TypeOK, Ranges
      <4>2. q.start \in Int /\ q.len \in Int
        BY <4>1, RangeType
      <4> QED
        BY <2>6, <4>2 DEF Overlap, End
    <3> QED
      BY <2>4, <2>6, <3>1 DEF Overlap, End
  <2>7. ASSUME NEW f \in Handles, NEW g \in Handles,
               NEW q \in locks'[f], NEW r \in locks'[g], Overlap(q, r.start, r.len)
        PROVE  f = g /\ q = r
    <3>1. CASE q \in locks[f] /\ r \in locks[g]
      BY <2>7, <3>1 DEF Disjoint
    <3>2. CASE q \in locks[f] /\ g = h /\ r = new
      BY <2>4, <2>7, <3>2
    <3>3. CASE f = h /\ q = new /\ r \in locks[g]
      BY <2>6, <2>7, <3>3
    <3>4. CASE f = h /\ q = new /\ g = h /\ r = new
      BY <3>4
    <3> QED
      BY <2>5, <3>1, <3>2, <3>3, <3>4
  <2>8. Disjoint'
    BY <2>7 DEF Disjoint, Overlap, End
  <2> QED
    BY <2>2, <2>3, <2>8
<1>4. ASSUME NEW h \in Handles, NEW s \in Offsets, NEW n \in Lengths, UnlockFile(h, s, n)
      PROVE  IInv'
  BY <1>4 DEF UnlockFile, TypeOK, OnlyListedLock, Disjoint
<1>5. CASE UNCHANGED vars
  BY <1>5 DEF vars, TypeOK, OnlyListedLock, Disjoint
<1> QED
  BY <1>1, <1>2, <1>3, <1>4, <1>5 DEF Next

\* Looking at two neighbours refuses the accesses that touch a lock, and no others.
LEMMA ExactInv == IInv => AccessExact
<1> SUFFICES ASSUME IInv, NEW h \in listed, NEW s \in Offsets, NEW n \in Lengths, n > 0
             PROVE  MayAccess(h, s, n) <=>
                      \A g \in listed \ {h} : \A r \in locks[g] : ~Overlap(r, s, n)
  BY DEF AccessExact
<1>1. n \in Int
  BY OffsetsAssumption
<1>2. ASSUME NEW g \in listed
      PROVE  Conflict(locks[g], s, n) <=> \E r \in locks[g] : Overlap(r, s, n)
  <2>1. locks[g] \in SUBSET Ranges
    BY DEF IInv, TypeOK, Ranges
  <2>2. Apart(locks[g])
    BY DEF IInv, TypeOK, Disjoint, Apart
  <2> QED
    BY <1>1, <2>1, <2>2, TwoNeighbours
<1> QED
  BY <1>2 DEF MayAccess, Locked

\* The inductive invariant of the locks of one path (fusemain.cpp:928-1038).
THEOREM Invariant == Spec => []IInv
<1> QED
  BY InitInv, NextInv, PTL DEF Spec

\* Every range kept starts at an offset and is not empty (fusemain.cpp:984).
THEOREM TypeCorrect == Spec => []TypeOK
<1>1. IInv => TypeOK
  BY DEF IInv
<1> QED
  BY <1>1, Invariant, PTL

\* No byte is locked twice, for any number of handles and any ranges
\* (fusemain.cpp:983-1016).
THEOREM LocksDisjoint == Spec => []Disjoint
<1>1. IInv => Disjoint
  BY DEF IInv
<1> QED
  BY <1>1, Invariant, PTL

\* The check before a read or a write refuses it exactly when it touches a byte
\* another handle has locked (fusemain.cpp:493, 541, 983-1016).
THEOREM AccessIsExact == Spec => []AccessExact
BY ExactInv, Invariant, PTL

----------------------------------------------------------------------------
(* FuseIO.                                                                 *)

Bytes == Handles \cup {NoHandle}
Accesses == [op : {"none", "read", "write", "cut"}, handle : Bytes, start : Nat, len : Int,
             data : Seq(Bytes), guarded : BOOLEAN]

\* An access belongs to an open handle, and is let through only where no other has locked.
OfListed(c) == /\ c.op = "none" => c.handle = NoHandle
               /\ c.op # "none" => c.handle \in listed
Free(c) == c.op \in {"read", "write"} =>
             \A h \in Handles \ {c.handle} : \A r \in locks[h] : ~Overlap(r, c.start, c.len)
\* A guarded read is in a range of its handle, and has what is there.
Guard(c) == c.guarded =>
              c.op = "read" /\ \E r \in locks[c.handle] : Covers(r, c.start, c.len)
Whole(c) == c.guarded =>
              /\ Len(c.data) <= c.len
              /\ \A k \in 1..Len(c.data) : /\ c.start + k <= Len(content)
                                           /\ c.data[k] = content[c.start + k]
AccessOf(c) == OfListed(c) /\ Free(c) /\ Guard(c) /\ Whole(c)

IOInv ==
    /\ IInv
    /\ content \in Seq(Bytes)
    /\ pending \in [Threads -> Accesses]
    /\ \A t \in Threads : AccessOf(pending[t])

----------------------------------------------------------------------------
(* The operators.                                                          *)

LEMMA NoneIs ==
    /\ None \in Accesses /\ None.op = "none" /\ None.handle = NoHandle /\ ~None.guarded
<1>1. <<>> \in Seq(Bytes)
  BY EmptySeq
<1>2. None.op = "none" /\ None.handle = NoHandle
  BY DEF None
<1>3. None \in Accesses
  BY <1>1 DEF None, Accesses, Bytes
<1>4. ~None.guarded
  BY DEF None
<1> QED
  BY <1>2, <1>3, <1>4

LEMMA LeastIs == \A a, b \in Int : Least(a, b) \in {a, b} /\ Least(a, b) <= a /\ Least(a, b) <= b
BY DEF Least

LEMMA FilledIs ==
    ASSUME NEW n \in Nat, NEW b \in Bytes
    PROVE  LET s == [i \in 1..n |-> b]
           IN s \in Seq(Bytes) /\ Len(s) = n /\ \A i \in 1..n : s[i] = b
<1> DEFINE s == [i \in 1..n |-> b]
<1>1. s \in [1..n -> Bytes]
  OBVIOUS
<1>2. s \in Seq(Bytes)
  BY <1>1, SeqDef
<1>3. Len(s) = n
  BY <1>1, <1>2, LenProperties
<1> QED
  BY <1>2, <1>3

\* A part of a sequence.
LEMMA PartIs ==
    ASSUME NEW s \in Seq(Bytes), NEW m \in Nat \ {0}, NEW n \in Int, n <= Len(s)
    PROVE  LET p == SubSeq(s, m, n)
           IN /\ p \in Seq(Bytes) /\ Len(p) = (IF m <= n THEN n - m + 1 ELSE 0)
              /\ \A i \in 1..Len(p) : p[i] = s[m + i - 1]
<1>1. \A i \in m..n : s[i] \in Bytes
  BY LenProperties, ElementOfSeq
<1>2. /\ SubSeq(s, m, n) \in Seq(Bytes)
      /\ Len(SubSeq(s, m, n)) = IF m <= n THEN n - m + 1 ELSE 0
      /\ \A i \in 1 .. n - m + 1 : SubSeq(s, m, n)[i] = s[m + i - 1]
  BY <1>1, SubSeqProperties
<1> QED
  BY <1>2

LEMMA ResizeIs ==
    ASSUME NEW s \in Seq(Bytes), NEW n \in Nat
    PROVE  LET r == Resize(s, n)
           IN /\ r \in Seq(Bytes) /\ Len(r) = n
              /\ \A i \in 1..Least(Len(s), n) : r[i] = s[i]
<1>1. Len(s) \in Nat
  BY LenProperties
<1>2. CASE n <= Len(s)
  <2>1. Resize(s, n) = SubSeq(s, 1, n)
    BY <1>2 DEF Resize
  <2>2. /\ SubSeq(s, 1, n) \in Seq(Bytes) /\ Len(SubSeq(s, 1, n)) = n
        /\ \A i \in 1..n : SubSeq(s, 1, n)[i] = s[i]
    BY <1>1, <1>2, PartIs
  <2> QED
    BY <1>1, <1>2, <2>1, <2>2 DEF Least
<1>3. CASE n > Len(s)
  <2> DEFINE g == Gap(n - Len(s))
  <2>1. g \in Seq(Bytes) /\ Len(g) = n - Len(s)
    BY <1>1, <1>3, FilledIs DEF Gap, Bytes
  <2>2. Resize(s, n) = s \o g
    BY <1>1, <1>3 DEF Resize
  <2> HIDE DEF g
  <2>3. /\ s \o g \in Seq(Bytes) /\ Len(s \o g) = Len(s) + Len(g)
        /\ \A i \in 1..(Len(s) + Len(g)) : (s \o g)[i] = IF i <= Len(s) THEN s[i] ELSE g[i - Len(s)]
    BY <2>1, ConcatProperties
  <2>4. Len(s) + Len(g) = n /\ \A i \in 1..Len(s) : i \in 1..n /\ i <= Len(s)
    BY <1>1, <1>3, <2>1
  <2> QED
    BY <1>1, <1>3, <2>2, <2>3, <2>4 DEF Least
<1> QED
  BY <1>1, <1>2, <1>3

\* Writing changes the bytes written and takes none away.
LEMMA OverlayIs ==
    ASSUME NEW s \in Seq(Bytes), NEW off \in Nat, NEW d \in Seq(Bytes)
    PROVE  LET o == Overlay(s, off, d)
           IN /\ o \in Seq(Bytes) /\ Len(o) >= Len(s)
              /\ \A i \in 1..Len(s) :
                   o[i] = IF off < i /\ i <= off + Len(d) THEN d[i - off] ELSE s[i]
<1> DEFINE b == IF off > Len(s) THEN Resize(s, off) ELSE s
           head == SubSeq(b, 1, off)
           tail == SubSeq(b, off + Len(d) + 1, Len(b))
           o == Overlay(s, off, d)
<1>1. Len(s) \in Nat /\ Len(d) \in Nat
  BY LenProperties
<1>2. /\ b \in Seq(Bytes) /\ Len(b) >= Len(s) /\ Len(b) >= off
      /\ \A i \in 1..Len(s) : b[i] = s[i]
  <2>1. CASE off > Len(s)
    <3>1. /\ Resize(s, off) \in Seq(Bytes) /\ Len(Resize(s, off)) = off
          /\ \A i \in 1..Least(Len(s), off) : Resize(s, off)[i] = s[i]
      BY ResizeIs
    <3>2. Least(Len(s), off) = Len(s) /\ b = Resize(s, off)
      BY <1>1, <2>1 DEF Least
    <3> QED
      BY <1>1, <2>1, <3>1, <3>2
  <2>2. CASE ~(off > Len(s))
    BY <1>1, <2>2
  <2> QED
    BY <2>1, <2>2
<1>3. Overlay(s, off, d) = head \o d \o tail
  BY DEF Overlay
<1> HIDE DEF b
<1>4. Len(b) \in Nat
  BY <1>2, LenProperties
<1>5. head \in Seq(Bytes) /\ Len(head) = off /\ \A i \in 1..off : head[i] = b[i]
  BY <1>2, <1>4, PartIs
<1>6. /\ tail \in Seq(Bytes)
      /\ Len(tail) = IF off + Len(d) + 1 <= Len(b) THEN Len(b) - off - Len(d) ELSE 0
      /\ \A i \in 1..Len(tail) : tail[i] = b[off + Len(d) + i]
  <2> DEFINE m == off + Len(d) + 1
  <2>1. m \in Nat \ {0}
    BY <1>1
  <2>2. /\ tail \in Seq(Bytes) /\ Len(tail) = (IF m <= Len(b) THEN Len(b) - m + 1 ELSE 0)
        /\ \A i \in 1..Len(tail) : tail[i] = b[m + i - 1]
    BY <1>2, <1>4, <2>1, PartIs
  <2>3. Len(tail) \in Nat
    BY <2>2, LenProperties
  <2>4. \A i \in 1..Len(tail) : m + i - 1 = off + Len(d) + i
    BY <1>1, <2>3
  <2> QED
    BY <1>1, <1>4, <2>2, <2>4
<1> HIDE DEF head, tail
<1>7. /\ head \o d \in Seq(Bytes) /\ Len(head \o d) = off + Len(d)
      /\ \A i \in 1..(off + Len(d)) : (head \o d)[i] = IF i <= off THEN head[i] ELSE d[i - off]
  BY <1>5, ConcatProperties
<1>8. /\ o \in Seq(Bytes) /\ Len(o) = off + Len(d) + Len(tail)
      /\ \A i \in 1..(off + Len(d) + Len(tail)) :
           o[i] = IF i <= off + Len(d) THEN (head \o d)[i] ELSE tail[i - (off + Len(d))]
  <2> DEFINE h == head \o d
  <2>1. o = h \o tail
    BY <1>3
  <2>2. h \in Seq(Bytes) /\ Len(h) = off + Len(d)
    BY <1>7
  <2> HIDE DEF h, o
  <2>3. /\ h \o tail \in Seq(Bytes) /\ Len(h \o tail) = Len(h) + Len(tail)
        /\ \A i \in 1..(Len(h) + Len(tail)) :
             (h \o tail)[i] = IF i <= Len(h) THEN h[i] ELSE tail[i - Len(h)]
    BY ZenonT(30), <1>6, <2>2, ConcatProperties
  <2>4. /\ o \in Seq(Bytes) /\ Len(o) = off + Len(d) + Len(tail)
        /\ \A i \in 1..(off + Len(d) + Len(tail)) :
             o[i] = IF i <= off + Len(d) THEN h[i] ELSE tail[i - (off + Len(d))]
    BY <2>1, <2>2, <2>3
  <2> QED
    BY <2>4 DEF h
<1>9. Len(tail) \in Nat
  BY <1>6, LenProperties
<1> HIDE DEF o
<1>10. Len(o) >= Len(s)
  <2>1. Len(tail) >= Len(b) - off - Len(d)
    BY <1>1, <1>4, <1>6
  <2> QED
    BY <1>1, <1>2, <1>4, <1>8, <1>9, <2>1
<1>11. ASSUME NEW i \in 1..Len(s)
       PROVE  o[i] = IF off < i /\ i <= off + Len(d) THEN d[i - off] ELSE s[i]
  <2>1. i \in Nat /\ i >= 1 /\ i <= Len(b) /\ i <= Len(o) /\ b[i] = s[i]
    BY <1>1, <1>2, <1>4, <1>8, <1>9, <1>10
  <2>2. CASE i <= off
    BY <1>1, <1>5, <1>7, <1>8, <1>9, <2>1, <2>2
  <2>3. CASE off < i /\ i <= off + Len(d)
    BY SMTT(30), <1>1, <1>7, <1>8, <1>9, <2>1, <2>3
  <2>4. CASE off + Len(d) < i
    <3>1. i - (off + Len(d)) \in 1..Len(tail)
      BY <1>1, <1>4, <1>6, <2>1, <2>4
    <3>2. o[i] = tail[i - (off + Len(d))]
      BY <1>1, <1>8, <1>9, <2>1, <2>4, <3>1
    <3>3. off + Len(d) + (i - (off + Len(d))) = i
      BY <1>1, <2>1
    <3> QED
      BY <1>1, <1>6, <2>1, <2>4, <3>1, <3>2, <3>3
  <2> QED
    BY <1>1, <2>1, <2>2, <2>3, <2>4
<1>12. /\ o \in Seq(Bytes) /\ Len(o) >= Len(s)
       /\ \A i \in 1..Len(s) : o[i] = IF off < i /\ i <= off + Len(d) THEN d[i - off] ELSE s[i]
  BY <1>8, <1>10, <1>11
<1> QED
  BY <1>12 DEF o

----------------------------------------------------------------------------
(* The steps.                                                              *)

LEMMA OverlapIs ==
    ASSUME NEW a, NEW m, NEW s, NEW n
    PROVE  Overlap([start |-> a, len |-> m], s, n) <=> a < s + n /\ s < a + m
BY DEF Overlap, End

\* Two ranges touch or do not, from whichever side one looks.
LEMMA OverlapSymmetric ==
    ASSUME NEW a \in Int, NEW m \in Int, NEW s \in Int, NEW n \in Int
    PROVE  Overlap([start |-> a, len |-> m], s, n) <=> Overlap([start |-> s, len |-> n], a, m)
BY DEF Overlap, End

\* A step of t on its own access.
LEMMA AccessStep ==
    ASSUME IOInv, NEW t \in Threads, NEW c \in Accesses, AccessOf(c),
           pending' = [pending EXCEPT ![t] = c], UNCHANGED <<listed, locks, content>>
    PROVE  IOInv'
<1>1. IInv'
  BY DEF IOInv, IInv, TypeOK, OnlyListedLock, Disjoint
<1>2. pending' \in [Threads -> Accesses]
  BY DEF IOInv
<1>3. \A u \in Threads : AccessOf(pending'[u])
  BY DEF IOInv
<1>4. \A u \in Threads : AccessOf(pending[u])'
  BY <1>3 DEF AccessOf, OfListed, Free, Guard, Whole
<1> QED
  BY <1>1, <1>2, <1>4 DEF IOInv

LEMMA ReturnStep ==
    ASSUME IOInv, NEW t \in Threads, Return(t), UNCHANGED <<listed, locks, content>>
    PROVE  IOInv'
<1>1. AccessOf(None)
  BY NoneIs DEF AccessOf, OfListed, Free, Guard, Whole
<1> QED
  BY <1>1, NoneIs, AccessStep DEF Return

\* An access that passes the check is free of the ranges of others.
LEMMA CheckedIsFree ==
    ASSUME IOInv, NEW h \in listed, NEW s \in Offsets, NEW n \in Lengths, CheckLock(h, s, n)
    PROVE  /\ n \in Int /\ n > 0 /\ s \in Nat /\ h \in Handles
           /\ \A g \in Handles \ {h} : \A r \in locks[g] : ~Overlap(r, s, n)
<1>1. n \in Int /\ s \in Nat /\ n > 0
  BY OffsetsAssumption DEF CheckLock, MayAccess
<1>2. h \in Handles /\ OnlyListedLock
  BY DEF IOInv, IInv, TypeOK
<1>3. \A g \in listed \ {h} : \A r \in locks[g] : ~Overlap(r, s, n)
  BY <1>1, ExactInv DEF IOInv, AccessExact, CheckLock
<1> QED
  BY <1>1, <1>2, <1>3 DEF OnlyListedLock

LEMMA ReadFileStep ==
    ASSUME IOInv, NEW t \in Threads, NEW h \in Handles, NEW s \in Offsets, NEW n \in Lengths,
           ReadFile(t, h, s, n)
    PROVE  IOInv'
<1> DEFINE g == \E r \in locks[h] : Covers(r, s, n)
           c == [op |-> "read", handle |-> h, start |-> s, len |-> n, data |-> <<>>, guarded |-> g]
<1>1. /\ n \in Int /\ n > 0 /\ s \in Nat
      /\ \A f \in Handles \ {h} : \A r \in locks[f] : ~Overlap(r, s, n)
  BY CheckedIsFree DEF ReadFile
<1>2. <<>> \in Seq(Bytes) /\ Len(<<>>) = 0
  BY EmptySeq
<1>3. /\ c.op = "read" /\ c.handle = h /\ c.start = s /\ c.len = n /\ c.data = <<>>
      /\ c \in Accesses
  BY <1>1, <1>2 DEF Accesses, Bytes
<1>4. c.guarded => \E r \in locks[h] : Covers(r, s, n)
  OBVIOUS
<1>5. pending' = [pending EXCEPT ![t] = c] /\ UNCHANGED <<listed, locks, content>> /\ h \in listed
  BY DEF ReadFile
<1> HIDE DEF c
<1>6. OfListed(c) /\ Free(c) /\ Guard(c)
  BY <1>1, <1>3, <1>4, <1>5 DEF OfListed, Free, Guard
<1>7. Whole(c)
  BY <1>1, <1>2, <1>3 DEF Whole
<1> QED
  BY <1>3, <1>5, <1>6, <1>7, AccessStep DEF AccessOf

LEMMA WriteFileStep ==
    ASSUME IOInv, NEW t \in Threads, NEW h \in Handles, NEW s \in Offsets, NEW n \in Lengths,
           WriteFile(t, h, s, n)
    PROVE  IOInv'
<1> DEFINE c == [None EXCEPT !.op = "write", !.handle = h, !.start = s, !.len = n]
<1>1. /\ n \in Int /\ n > 0 /\ s \in Nat
      /\ \A f \in Handles \ {h} : \A r \in locks[f] : ~Overlap(r, s, n)
  BY CheckedIsFree DEF WriteFile
<1>2. c.op = "write" /\ c.handle = h /\ c.start = s /\ c.len = n /\ c \in Accesses
  BY <1>1, NoneIs DEF Accesses, Bytes
<1>3. ~c.guarded
  BY NoneIs DEF Accesses
<1>4. pending' = [pending EXCEPT ![t] = c] /\ UNCHANGED <<listed, locks, content>> /\ h \in listed
  BY DEF WriteFile
<1> HIDE DEF c
<1>5. AccessOf(c)
  BY <1>1, <1>2, <1>3, <1>4 DEF AccessOf, OfListed, Free, Guard, Whole
<1> QED
  BY <1>2, <1>4, <1>5, AccessStep

LEMMA SetEndOfFileStep ==
    ASSUME IOInv, NEW t \in Threads, NEW h \in Handles, NEW n \in 0..MaxSize,
           SetEndOfFile(t, h, n)
    PROVE  IOInv'
<1> DEFINE c == [None EXCEPT !.op = "cut", !.handle = h, !.len = 0, !.start = n]
<1>1. n \in Nat
  BY ReadAssumption
<1>2. c.op = "cut" /\ c.handle = h /\ c \in Accesses
  <2>1. 0 \in Int /\ h \in Bytes
    BY DEF Bytes
  <2>2. c \in Accesses
    BY <1>1, <2>1, NoneIs DEF Accesses
  <2> QED
    BY <2>2, NoneIs DEF Accesses
<1>3. ~c.guarded
  BY NoneIs DEF Accesses
<1>4. pending' = [pending EXCEPT ![t] = c] /\ UNCHANGED <<listed, locks, content>> /\ h \in listed
  BY DEF SetEndOfFile
<1> HIDE DEF c
<1>5. AccessOf(c)
  BY <1>2, <1>3, <1>4 DEF AccessOf, OfListed, Free, Guard, Whole
<1> QED
  BY <1>2, <1>4, <1>5, AccessStep

\* A chunk is what the file holds where the read has got to.
LEMMA ChunkIs ==
    ASSUME IOInv, NEW c \in Accesses, Len(c.data) < c.len
    PROVE  /\ Chunk(c) \in Seq(Bytes)
           /\ Len(c.data) + Len(Chunk(c)) <= c.len
           /\ \A i \in 1..Len(Chunk(c)) : /\ c.start + Len(c.data) + i <= Len(content)
                                          /\ Chunk(c)[i] = content[c.start + Len(c.data) + i]
<1> DEFINE from == c.start + Len(c.data)
           want == Least(c.len - Len(c.data), MaxRead)
           upto == Least(from + want, Len(content))
           m == from + 1
<1>1. c.start \in Nat /\ c.len \in Int /\ c.data \in Seq(Bytes) /\ content \in Seq(Bytes)
  BY DEF Accesses, IOInv
<1>2. Len(c.data) \in Nat /\ Len(content) \in Nat
  BY <1>1, LenProperties
<1>3. want \in Nat /\ want <= c.len - Len(c.data)
  BY <1>1, <1>2, ReadAssumption DEF Least
<1>4. from \in Nat /\ m \in Nat \ {0}
  BY <1>1, <1>2
<1> HIDE DEF want
<1>5. upto \in Int /\ upto <= from + want /\ upto <= Len(content)
  BY <1>2, <1>3, <1>4 DEF Least
<1>6. Chunk(c) = SubSeq(content, m, upto)
  BY DEF Chunk, want
<1> HIDE DEF upto
<1>7. /\ Chunk(c) \in Seq(Bytes)
      /\ Len(Chunk(c)) = (IF m <= upto THEN upto - m + 1 ELSE 0)
      /\ \A i \in 1..Len(Chunk(c)) : Chunk(c)[i] = content[m + i - 1]
  BY <1>1, <1>4, <1>5, <1>6, PartIs
<1>8. \A i \in 1..Len(Chunk(c)) : m + i - 1 = c.start + Len(c.data) + i /\ from + i <= upto
  BY SMTT(30), <1>1, <1>2, <1>4, <1>5, <1>7
<1>9. Len(c.data) + Len(Chunk(c)) <= c.len
  BY SMTT(30), <1>1, <1>2, <1>3, <1>4, <1>5, <1>7
<1>10. \A i \in 1..Len(Chunk(c)) : c.start + Len(c.data) + i <= Len(content)
  BY <1>1, <1>2, <1>4, <1>5, <1>7, <1>8
<1> QED
  BY <1>7, <1>8, <1>9, <1>10

LEMMA ReadChunkStep ==
    ASSUME IOInv, NEW t \in Threads, ReadChunk(t) PROVE IOInv'
<1> DEFINE c == pending[t]
           k == Chunk(c)
           d == [c EXCEPT !.data = @ \o k]
<1>1. c \in Accesses /\ AccessOf(c) /\ c.op = "read" /\ Len(c.data) < c.len
  BY DEF IOInv, ReadChunk
<1>2. /\ k \in Seq(Bytes) /\ Len(c.data) + Len(k) <= c.len
      /\ \A i \in 1..Len(k) : /\ c.start + Len(c.data) + i <= Len(content)
                              /\ k[i] = content[c.start + Len(c.data) + i]
  BY <1>1, ChunkIs
<1>3. /\ c.data \in Seq(Bytes) /\ c.start \in Nat /\ Len(c.data) \in Nat /\ Len(k) \in Nat
  BY <1>1, <1>2, LenProperties DEF Accesses
<1>4. pending' = [pending EXCEPT ![t] = d] /\ UNCHANGED <<listed, locks, content>>
  BY DEF ReadChunk
<1> HIDE DEF k
<1>5. /\ c.data \o k \in Seq(Bytes) /\ Len(c.data \o k) = Len(c.data) + Len(k)
      /\ \A i \in 1..(Len(c.data) + Len(k)) :
           (c.data \o k)[i] = IF i <= Len(c.data) THEN c.data[i] ELSE k[i - Len(c.data)]
  BY <1>2, <1>3, ConcatProperties
<1>6. /\ d \in Accesses /\ d.op = "read" /\ d.handle = c.handle /\ d.start = c.start
      /\ d.len = c.len /\ d.data = c.data \o k /\ d.guarded = c.guarded
  BY <1>1, <1>5 DEF Accesses
<1> HIDE DEF d
<1>7. OfListed(d) /\ Free(d) /\ Guard(d)
  BY <1>1, <1>6 DEF AccessOf, OfListed, Free, Guard
<1>8. Whole(d)
  <2> SUFFICES ASSUME c.guarded, NEW i \in 1..(Len(c.data) + Len(k))
               PROVE  /\ c.start + i <= Len(content)
                      /\ (c.data \o k)[i] = content[c.start + i]
    BY <1>2, <1>5, <1>6 DEF Whole
  <2>1. CASE i <= Len(c.data)
    BY <1>1, <1>3, <1>5, <2>1 DEF AccessOf, Whole
  <2>2. CASE i > Len(c.data)
    <3> DEFINE j == i - Len(c.data)
    <3>1. j \in 1..Len(k) /\ c.start + Len(c.data) + j = c.start + i
      BY <1>3, <2>2
    <3>2. (c.data \o k)[i] = k[j]
      BY <1>3, <1>5, <2>2
    <3> HIDE DEF j
    <3>3. c.start + Len(c.data) + j <= Len(content) /\ k[j] = content[c.start + Len(c.data) + j]
      BY <1>2, <3>1
    <3> QED
      BY <3>1, <3>2, <3>3
  <2> QED
    BY <1>3, <2>1, <2>2
<1> QED
  BY <1>4, <1>6, <1>7, <1>8, AccessStep DEF AccessOf

----------------------------------------------------------------------------
(* The steps that change the locks or the bytes.                           *)

\* An access that has ended, or whose bytes are no longer promised, keeps its part of
\* the invariant as long as no lock is added.
LEMMA LetGo ==
    ASSUME IOInv, NEW t \in Threads, listed' = listed,
           \A g \in Handles : locks'[g] \subseteq locks[g],
           pending'[t] \in {None, [pending[t] EXCEPT !.guarded = FALSE]}
    PROVE  pending'[t] \in Accesses /\ AccessOf(pending[t])'
<1> DEFINE c == pending[t]
           d == [c EXCEPT !.guarded = FALSE]
<1>1. c \in Accesses /\ OfListed(c) /\ Free(c)
  BY DEF IOInv, AccessOf
<1>2. CASE pending'[t] = None
  BY <1>2, NoneIs DEF AccessOf, OfListed, Free, Guard, Whole
<1>3. CASE pending'[t] = d
  <2>1. /\ d \in Accesses /\ d.op = c.op /\ d.handle = c.handle /\ d.start = c.start
        /\ d.len = c.len
    BY <1>1 DEF Accesses
  <2>2. ~d.guarded
    BY <1>1 DEF Accesses
  <2> HIDE DEF d
  <2> QED
    BY <1>1, <1>3, <2>1, <2>2 DEF AccessOf, OfListed, Free, Guard, Whole
<1> QED
  BY <1>2, <1>3

LEMMA OpenStep == ASSUME IOInv, NEW h \in Handles, Open(h) PROVE IOInv'
<1>1. IInv'
  <2>1. AddFile(h)
    BY DEF Open
  <2> QED
    BY <2>1, NextInv DEF IOInv, Next
<1>2. locks' = locks
  BY DEF Open, AddFile, IOInv, IInv, OnlyListedLock, TypeOK
<1>3. listed \subseteq listed' /\ pending' = pending /\ content' = content
  BY DEF Open, AddFile
<1>4. ASSUME NEW t \in Threads PROVE AccessOf(pending[t])'
  <2>1. AccessOf(pending[t])
    BY DEF IOInv
  <2> QED
    BY <1>2, <1>3, <2>1 DEF AccessOf, OfListed, Free, Guard, Whole
<1> QED
  BY <1>1, <1>3, <1>4 DEF IOInv

LEMMA CloseStep == ASSUME IOInv, NEW h \in Handles, Close(h) PROVE IOInv'
<1>1. IInv'
  <2>1. RemoveFile(h)
    BY DEF Close
  <2> QED
    BY <2>1, NextInv DEF IOInv, Next
<1>2. /\ listed' = listed \ {h} /\ pending' = pending /\ content' = content
      /\ \A g \in Handles : locks'[g] = IF g = h THEN {} ELSE locks[g]
  BY DEF Close, RemoveFile, IOInv, IInv, TypeOK
<1>3. ASSUME NEW t \in Threads PROVE AccessOf(pending[t])'
  <2>1. AccessOf(pending[t]) /\ pending[t].handle # h /\ listed \subseteq Handles
    BY DEF IOInv, IInv, TypeOK, Close, Busy
  <2>2. OfListed(pending[t])' /\ Free(pending[t])' /\ Whole(pending[t])'
    BY <1>2, <2>1 DEF AccessOf, OfListed, Free, Whole
  <2>3. Guard(pending[t])'
    BY <1>2, <2>1 DEF AccessOf, OfListed, Guard
  <2> QED
    BY <2>2, <2>3 DEF AccessOf
<1> QED
  BY <1>1, <1>2, <1>3 DEF IOInv

LEMMA LockStep ==
    ASSUME IOInv, NEW h \in Handles, NEW s \in Offsets, NEW n \in Lengths, Lock(h, s, n),
           ~LetThrough(h, s, n)
    PROVE  IOInv'
<1> DEFINE new == [start |-> s, len |-> n]
<1>1. IInv'
  <2>1. LockFile(h, s, n)
    BY DEF Lock
  <2> QED
    BY <2>1, NextInv DEF IOInv, Next
<1>2. /\ s \in Int /\ n \in Int /\ n > 0
      /\ \A g \in Handles : \A r \in locks[g] : ~Overlap(r, s, n)
  <2>1. Granted(h, s, n) /\ IInv
    BY DEF Lock, LockFile, IOInv
  <2>2. \A g \in Handles : \A r \in locks[g] : ~Overlap(r, s, n)
    BY <2>1, GrantedIsFree
  <2>3. s \in Int /\ n \in Int
    BY OffsetsAssumption
  <2> QED
    BY <2>1, <2>2, <2>3 DEF Granted
<1>3. \A r \in locks[h] : r.start # s
  <2> SUFFICES ASSUME NEW r \in locks[h], r.start = s PROVE FALSE
    OBVIOUS
  <2>1. r \in Ranges
    BY DEF IOInv, IInv, TypeOK, Ranges
  <2>2. r.len \in Int /\ r.len > 0
    BY <2>1, RangeType
  <2>3. ~Overlap(r, s, n)
    BY <1>2
  <2> QED
    BY <1>2, <2>2, <2>3 DEF Overlap, End
<1>4. /\ listed' = listed /\ pending' = pending /\ content' = content
      /\ \A g \in Handles : locks'[g] = IF g = h THEN locks[g] \cup {new} ELSE locks[g]
  BY <1>3 DEF Lock, LockFile, IOInv, IInv, TypeOK
<1>5. ASSUME NEW t \in Threads PROVE AccessOf(pending[t])'
  <2> DEFINE c == pending[t]
  <2>1. AccessOf(c) /\ c \in Accesses
    BY DEF IOInv
  <2>2. ASSUME c.op \in {"read", "write"}, c.handle # h PROVE ~Overlap(new, c.start, c.len)
    <3>1. c.handle \in Handles /\ c.handle # NoHandle
      BY <2>1, <2>2, ReadAssumption DEF AccessOf, OfListed, IOInv, IInv, TypeOK
    <3>2. ~Overlap([start |-> c.start, len |-> c.len], s, n)
      BY <2>2, <3>1 DEF LetThrough
    <3>3. c.start \in Int /\ c.len \in Int
      <4>1. c.start \in Nat /\ c.len \in Int
        BY <2>1 DEF Accesses
      <4> QED
        BY <4>1
    <3> QED
      BY <1>2, <3>2, <3>3, OverlapSymmetric
  <2>3. Free(c)'
    BY <1>4, <2>1, <2>2 DEF AccessOf, Free
  <2>4. Guard(c)'
    <3> SUFFICES ASSUME c.guarded
                 PROVE  c.op = "read" /\ \E r \in locks'[c.handle] : Covers(r, c.start, c.len)
      BY <1>4 DEF Guard
    <3>1. c.op = "read" /\ \E r \in locks[c.handle] : Covers(r, c.start, c.len)
      BY <2>1 DEF AccessOf, Guard
    <3>2. c.handle \in Handles
      BY <2>1, <3>1 DEF AccessOf, OfListed, IOInv, IInv, TypeOK
    <3> QED
      BY <1>4, <3>1, <3>2
  <2>5. OfListed(c)' /\ Whole(c)'
    BY <1>4, <2>1 DEF AccessOf, OfListed, Whole
  <2> QED
    BY <2>3, <2>4, <2>5 DEF AccessOf
<1> QED
  BY <1>1, <1>4, <1>5 DEF IOInv

LEMMA UnlockStep ==
    ASSUME IOInv, NEW h \in Handles, NEW s \in Offsets, NEW n \in Lengths, Unlock(h, s, n)
    PROVE  IOInv'
<1>1. IInv'
  <2>1. UnlockFile(h, s, n)
    BY DEF Unlock
  <2> QED
    BY <2>1, NextInv DEF IOInv, Next
<1>2. /\ listed' = listed /\ content' = content
      /\ \A g \in Handles : /\ locks'[g] \subseteq locks[g]
                            /\ g # h => locks'[g] = locks[g]
  BY DEF Unlock, UnlockFile, IOInv, IInv, TypeOK
<1>3. /\ pending' = [t \in Threads |-> pending'[t]]
      /\ \A t \in Threads : pending'[t] = IF pending[t].handle = h
                                          THEN [pending[t] EXCEPT !.guarded = FALSE]
                                          ELSE pending[t]
  BY DEF Unlock, Unguarded
<1>4. ASSUME NEW t \in Threads PROVE pending'[t] \in Accesses /\ AccessOf(pending[t])'
  <2>1. CASE pending[t].handle = h
    BY <1>2, <1>3, <2>1, LetGo
  <2>2. CASE pending[t].handle # h
    <3>1. /\ pending[t] \in Accesses /\ AccessOf(pending[t]) /\ pending'[t] = pending[t]
          /\ listed \subseteq Handles
      BY <1>3, <2>2 DEF IOInv, IInv, TypeOK
    <3>2. OfListed(pending[t])' /\ Free(pending[t])' /\ Whole(pending[t])'
      BY <1>2, <3>1 DEF AccessOf, OfListed, Free, Whole
    <3>3. Guard(pending[t])'
      BY <1>2, <2>2, <3>1 DEF AccessOf, OfListed, Guard
    <3> QED
      BY <3>1, <3>2, <3>3 DEF AccessOf
  <2> QED
    BY <2>1, <2>2
<1> QED
  BY <1>1, <1>2, <1>3, <1>4 DEF IOInv

LEMMA FTruncateStep == ASSUME IOInv, NEW t \in Threads, FTruncate(t) PROVE IOInv'
<1>1. listed' = listed /\ locks' = locks /\ \A g \in Handles : locks'[g] \subseteq locks[g]
  BY DEF FTruncate
<1>2. IInv'
  BY <1>1, NextInv DEF IOInv, vars
<1>3. content' \in Seq(Bytes)
  <2>1. content' = Resize(content, pending[t].start) /\ pending[t].start \in Nat
    BY DEF FTruncate, IOInv, Accesses
  <2> QED
    BY <2>1, ResizeIs DEF IOInv
<1>4. /\ pending' = [u \in Threads |-> pending'[u]]
      /\ \A u \in Threads : pending'[u] \in {None, [pending[u] EXCEPT !.guarded = FALSE]}
  BY DEF FTruncate
<1>5. \A u \in Threads : pending'[u] \in Accesses /\ AccessOf(pending[u])'
  BY <1>1, <1>4, LetGo
<1> QED
  BY <1>2, <1>3, <1>4, <1>5 DEF IOInv

\* What a write does to the bytes there were.
LEMMA WriteIs ==
    ASSUME IOInv, NEW t \in Threads, Write(t)
    PROVE  /\ content' \in Seq(Bytes) /\ Len(content') >= Len(content)
           /\ \A i \in 1..Len(content) :
                \/ content'[i] = content[i]
                \/ /\ content'[i] = pending[t].handle
                   /\ pending[t].start < i /\ i <= pending[t].start + pending[t].len
<1> DEFINE c == pending[t]
<1>1. c \in Accesses /\ c.op = "write" /\ content \in Seq(Bytes)
  BY DEF Write, IOInv
<1>2. c.start \in Nat /\ c.len \in Int /\ c.handle \in Bytes
  BY <1>1 DEF Accesses
<1>3. Len(content) \in Nat
  BY <1>1, LenProperties
<1>4. PICK k \in 0..c.len :
         content' = IF k = 0 THEN content
                    ELSE Overlay(content, c.start, [i \in 1..k |-> c.handle])
  BY DEF Write
<1>5. CASE k = 0
  BY <1>1, <1>3, <1>4, <1>5
<1>6. CASE k # 0
  <2> DEFINE d == [i \in 1..k |-> c.handle]
  <2>1. k \in Nat /\ k <= c.len
    BY <1>2
  <2>2. d \in Seq(Bytes) /\ Len(d) = k /\ \A i \in 1..k : d[i] = c.handle
    BY <1>2, <2>1, FilledIs
  <2>3. content' = Overlay(content, c.start, d)
    BY <1>4, <1>6
  <2> HIDE DEF d
  <2>4. /\ content' \in Seq(Bytes) /\ Len(content') >= Len(content)
        /\ \A i \in 1..Len(content) :
             content'[i] = IF c.start < i /\ i <= c.start + k THEN d[i - c.start] ELSE content[i]
    BY SMTT(30), <1>1, <1>2, <2>2, <2>3, OverlayIs
  <2>5. ASSUME NEW i \in 1..Len(content), c.start < i, i <= c.start + k
        PROVE  content'[i] = c.handle /\ i <= c.start + c.len
    <3> DEFINE j == i - c.start
    <3>1. j \in 1..k /\ i <= c.start + c.len
      BY <1>2, <1>3, <2>1, <2>5
    <3>2. content'[i] = d[j]
      BY <2>4, <2>5
    <3> HIDE DEF j
    <3> QED
      BY <2>2, <3>1, <3>2
  <2> QED
    BY <2>4, <2>5
<1> QED
  BY <1>5, <1>6

\* A write is to bytes that no other handle has locked, so what it changes is no part of
\* a locked range of another.
LEMMA WriteSpares ==
    ASSUME IOInv, NEW t \in Threads, Write(t),
           NEW h \in Handles, h # pending[t].handle, NEW r \in locks[h], NEW i \in Int,
           r.start < i, i <= End(r)
    PROVE  ~(pending[t].start < i /\ i <= pending[t].start + pending[t].len)
<1> DEFINE c == pending[t]
<1>1. c \in Accesses /\ AccessOf(c) /\ c.op = "write"
  BY DEF Write, IOInv
<1>2. c.start \in Nat /\ c.len \in Int
  BY <1>1 DEF Accesses
<1>3. ~Overlap(r, c.start, c.len)
  BY <1>1 DEF AccessOf, Free
<1>4. r.start \in Int /\ r.len \in Int
  <2>1. r \in Ranges
    BY DEF IOInv, IInv, TypeOK, Ranges
  <2> QED
    BY <2>1, RangeType
<1> QED
  BY <1>2, <1>3, <1>4 DEF Overlap, End

LEMMA WriteStep == ASSUME IOInv, NEW t \in Threads, Write(t) PROVE IOInv'
<1> DEFINE c == pending[t]
<1>1. listed' = listed /\ locks' = locks /\ \A g \in Handles : locks'[g] \subseteq locks[g]
  BY DEF Write
<1>2. IInv'
  BY <1>1, NextInv DEF IOInv, vars
<1>3. /\ pending' = [u \in Threads |-> pending'[u]]
      /\ \A u \in Threads : pending'[u] = IF u = t THEN None
                                          ELSE IF pending[u].handle = c.handle
                                          THEN [pending[u] EXCEPT !.guarded = FALSE]
                                          ELSE pending[u]
  BY DEF Write, Unguarded
<1>4. ASSUME NEW u \in Threads PROVE pending'[u] \in Accesses /\ AccessOf(pending[u])'
  <2> DEFINE d == pending[u]
  <2>1. CASE u = t \/ d.handle = c.handle
    BY <1>1, <1>3, <2>1, LetGo
  <2>2. CASE u # t /\ d.handle # c.handle
    <3>1. pending'[u] = d /\ d \in Accesses /\ AccessOf(d)
      BY <1>3, <2>2 DEF IOInv
    <3>2. OfListed(d)' /\ Free(d)' /\ Guard(d)'
      BY <1>1, <3>1 DEF AccessOf, OfListed, Free, Guard
    <3>3. ASSUME d.guarded, NEW k \in 1..Len(d.data)
          PROVE  d.start + k <= Len(content') /\ d.data[k] = content'[d.start + k]
      <4> DEFINE i == d.start + k
      <4>1. d.start \in Nat /\ d.len \in Int /\ d.data \in Seq(Bytes)
        BY <3>1 DEF Accesses
      <4>2. Len(d.data) \in Nat /\ Len(content) \in Nat
        BY <4>1, LenProperties DEF IOInv
      <4>3. /\ Len(d.data) <= d.len /\ i <= Len(content) /\ d.data[k] = content[i]
            /\ d.op = "read"
        BY <3>1, <3>3 DEF AccessOf, Guard, Whole
      <4>4. PICK r \in locks[d.handle] : Covers(r, d.start, d.len)
        BY <3>1, <3>3 DEF AccessOf, Guard
      <4>5. d.handle \in Handles
        BY <3>1, <4>3 DEF AccessOf, OfListed, IOInv, IInv, TypeOK
      <4>6. r.start \in Int /\ r.len \in Int
        <5>1. r \in Ranges
          BY <4>5 DEF IOInv, IInv, TypeOK, Ranges
        <5> QED
          BY <5>1, RangeType
      <4>7. i \in 1..Len(content) /\ i \in Int /\ r.start < i /\ i <= End(r)
        <5>1. r.start <= d.start /\ d.start + d.len <= End(r) /\ End(r) \in Int
          BY <4>4, <4>6 DEF Covers, End
        <5>2. k \in Nat /\ k >= 1 /\ k <= Len(d.data)
          BY <4>2
        <5>3. i \in Nat /\ i > d.start /\ i <= d.start + d.len
          BY SMTT(30), <4>1, <4>2, <4>3, <5>2
        <5>4. i \in 1..Len(content)
          BY <4>1, <4>2, <4>3, <5>2
        <5> QED
          BY <4>1, <4>6, <5>1, <5>3, <5>4
      <4> HIDE DEF i
      <4>8. ~(c.start < i /\ i <= c.start + c.len)
        BY <2>2, <4>5, <4>7, WriteSpares
      <4>9. content'[i] = content[i] /\ content' \in Seq(Bytes) /\ Len(content') >= Len(content)
        BY <4>7, <4>8, WriteIs
      <4>10. Len(content') \in Nat
        BY <4>9, LenProperties
      <4>11. i <= Len(content') /\ d.data[k] = content'[i]
        BY <4>2, <4>3, <4>7, <4>9, <4>10
      <4> QED
        BY <4>11 DEF i
    <3>4. Whole(d)'
      BY <3>1, <3>3 DEF AccessOf, Whole
    <3> QED
      BY <3>1, <3>2, <3>4 DEF AccessOf
  <2> QED
    BY <2>1, <2>2
<1> QED
  BY <1>2, <1>3, <1>4, WriteIs DEF IOInv

----------------------------------------------------------------------------
(* The theorems.                                                           *)

LEMMA IOInitInv == IOInit => IOInv
<1> SUFFICES ASSUME IOInit PROVE IOInv
  OBVIOUS
<1>1. IInv
  BY InitInv DEF IOInit
<1>2. content \in Seq(Bytes)
  BY EmptySeq DEF IOInit
<1>3. \A t \in Threads : pending[t] = None
  BY DEF IOInit
<1>4. pending \in [Threads -> Accesses]
  BY NoneIs DEF IOInit
<1>5. \A t \in Threads : AccessOf(pending[t])
  BY <1>3, NoneIs DEF AccessOf, OfListed, Free, Guard, Whole
<1> QED
  BY <1>1, <1>2, <1>4, <1>5 DEF IOInv

LEMMA IONextInv == ASSUME "granted in between" \notin Unsafe
                   PROVE  IOInv /\ [IONext]_iovars => IOInv'
<1> SUFFICES ASSUME IOInv, [IONext]_iovars PROVE IOInv'
  OBVIOUS
<1>1. ASSUME NEW h \in Handles, Open(h) PROVE IOInv'
  BY <1>1, OpenStep
<1>2. ASSUME NEW h \in Handles, Close(h) PROVE IOInv'
  BY <1>2, CloseStep
<1>3. ASSUME NEW h \in Handles, NEW s \in Offsets, NEW n \in Lengths, Lock(h, s, n) PROVE IOInv'
  <2>1. ~LetThrough(h, s, n)
    BY <1>3 DEF Lock
  <2> QED
    BY <1>3, <2>1, LockStep
<1>4. ASSUME NEW h \in Handles, NEW s \in Offsets, NEW n \in Lengths, Unlock(h, s, n) PROVE IOInv'
  BY <1>4, UnlockStep
<1>5. ASSUME NEW h \in Handles, NEW s \in Offsets, NEW n \in Lengths, NEW t \in Threads,
             ReadFile(t, h, s, n)
      PROVE  IOInv'
  BY <1>5, ReadFileStep
<1>6. ASSUME NEW h \in Handles, NEW s \in Offsets, NEW n \in Lengths, NEW t \in Threads,
             WriteFile(t, h, s, n)
      PROVE  IOInv'
  BY <1>6, WriteFileStep
<1>7. ASSUME NEW h \in Handles, NEW t \in Threads, NEW n \in 0..MaxSize, SetEndOfFile(t, h, n)
      PROVE  IOInv'
  BY <1>7, SetEndOfFileStep
<1>8. ASSUME NEW t \in Threads, ReadChunk(t) PROVE IOInv'
  BY <1>8, ReadChunkStep
<1>9. ASSUME NEW t \in Threads, ReadEnd(t) \/ FTruncateFails(t) PROVE IOInv'
  BY <1>9, ReturnStep DEF ReadEnd, FTruncateFails
<1>10. ASSUME NEW t \in Threads, Write(t) PROVE IOInv'
  BY <1>10, WriteStep
<1>11. ASSUME NEW t \in Threads, FTruncate(t) PROVE IOInv'
  BY <1>11, FTruncateStep
<1>12. CASE UNCHANGED iovars
  <2>1. IInv'
    BY <1>12, NextInv DEF IOInv, vars, iovars
  <2> QED
    BY <1>12, <2>1 DEF IOInv, iovars, AccessOf, OfListed, Free, Guard, Whole
<1> QED
  BY <1>1, <1>2, <1>3, <1>4, <1>5, <1>6, <1>7, <1>8, <1>9, <1>10, <1>11, <1>12 DEF IONext

\* The inductive invariant of the reads and writes of one file.
THEOREM IOInvariant == ASSUME "granted in between" \notin Unsafe PROVE IOSpec => []IOInv
<1>1. IOInv /\ [IONext]_iovars => IOInv'
  BY IONextInv
<1> QED
  BY <1>1, IOInitInv, PTL DEF IOSpec

\* A read in chunks, of any size, of a range its handle has locked returns what the file
\* holds although other calls run between the chunks (fusemain.cpp:500-513).
THEOREM ReadsWhole == ASSUME "granted in between" \notin Unsafe PROVE IOSpec => []LockedReadWhole
<1>1. IOInv => LockedReadWhole
  BY DEF IOInv, AccessOf, Whole, LockedReadWhole
<1> QED
  BY <1>1, IOInvariant, PTL

LEMMA StepProtects == IOInv /\ [IONext]_iovars => Protected
<1> SUFFICES ASSUME IOInv, [IONext]_iovars, NEW h \in Handles, NEW r \in locks[h],
                    NEW i \in 1..Least(Len(content), Len(content')),
                    r.start < i, i <= End(r), content'[i] # content[i]
             PROVE  content'[i] = h
  BY DEF Protected
<1>1. content \in Seq(Bytes) /\ Len(content) \in Nat
  BY LenProperties DEF IOInv
<1>2. ASSUME NEW t \in Threads, Write(t) PROVE content'[i] = h
  <2>1. content' \in Seq(Bytes) /\ Len(content') \in Nat
    BY <1>2, WriteIs, LenProperties
  <2>2. i \in Int /\ i \in 1..Len(content)
    BY <1>1, <2>1 DEF Least
  <2>3. /\ content'[i] = pending[t].handle
        /\ pending[t].start < i /\ i <= pending[t].start + pending[t].len
    BY <1>2, <2>2, WriteIs
  <2> QED
    BY <1>2, <2>2, <2>3, WriteSpares
<1>3. ASSUME NEW t \in Threads, FTruncate(t) PROVE FALSE
  <2>1. content' = Resize(content, pending[t].start) /\ pending[t].start \in Nat
    BY <1>3 DEF FTruncate, IOInv, Accesses
  <2>2. /\ Len(content') = pending[t].start
        /\ \A j \in 1..Least(Len(content), pending[t].start) : content'[j] = content[j]
    BY <1>1, <2>1, ResizeIs
  <2> QED
    BY <2>2
<1>4. CASE UNCHANGED content
  BY <1>4
<1> QED
  BY ZenonT(30), <1>2, <1>3, <1>4
     DEF IONext, iovars, Open, Close, Lock, Unlock, ReadFile, WriteFile, SetEndOfFile, ReadChunk,
         ReadEnd, FTruncateFails

\* What a handle has locked is changed by that handle only, although the lock is looked at
\* before the write and not while it runs (fusemain.cpp:540).
THEOREM LockedBytesAlwaysStay ==
    ASSUME "granted in between" \notin Unsafe PROVE IOSpec => LockedBytesStay
<1>1. IOSpec => []IOInv
  BY IOInvariant
<1> QED
  BY <1>1, StepProtects, PTL DEF IOSpec, LockedBytesStay

\* Whatever the calls that read and write do, and whatever is let through in between, the
\* locks go through the steps of RangeLocks and no others (fusemain.cpp:928-1038).
THEOREM IOImplementsLocks == IOSpec => Spec
<1>1. IOInit => Init
  BY DEF IOInit
<1>2. [IONext]_iovars => [Next]_vars
  BY ZenonT(30) DEF IONext, iovars, Next, vars, Open, Close, Lock, Unlock, ReadFile, WriteFile, SetEndOfFile,
         ReadChunk, ReadEnd, Write, FTruncate, FTruncateFails
<1> QED
  BY <1>1, <1>2, PTL DEF IOSpec, Spec

----------------------------------------------------------------------------
(* The instance for RenameTree and FuseDirs.                               *)

RP == INSTANCE Directories_Proofs
        WITH Entries <- {top, sub, f1, f2, f3}, Files <- {f1, f2, f3}, Names <- {n1, n2},
             Chain <- Tree, Orders <- Listings, MaxRefusals <- 2,
             Dirs <- {d1, d2}, Kids <- {k1, k2}, Callers <- {lister, changer}, Mishaps <- {},
             chained <- dChained, held <- dHeld, calls <- dCalls

CallbacksInv ==
    /\ part = "tree" => RP!TreeInv
    /\ part = "dirs" => RP!DirInv

----------------------------------------------------------------------------
(* The steps of a rename and their counterparts.                           *)

LEMMA SameTree == RP!TreeAssumption
<1>1. T!TreeAssumption => RP!TreeAssumption
  BY DEF T!TreeAssumption, RP!TreeAssumption, T!Below, RP!Below
<1> QED
  BY <1>1, TreeAssumption

LEMMA SameInit == T!Init => RP!Init
BY DEF T!Init, RP!Init, T!Start, RP!Start, T!Depth, RP!Depth

LEMMA SameOpen == ASSUME NEW f, T!Open(f) PROVE RP!Open(f)
BY DEF T!Open, RP!Open, T!Visible, RP!Visible, T!tree, RP!tree, T!FoundAs, RP!FoundAs

LEMMA SameClose == ASSUME NEW f, T!Close(f) PROVE RP!Close(f)
BY DEF T!Close, RP!Close, T!tree, RP!tree

LEMMA SameRename == ASSUME NEW e, T!Rename(e) PROVE RP!Rename(e)
BY DEF T!Rename, RP!Rename, T!Visible, RP!Visible, T!Depth, RP!Depth, T!Below, RP!Below,
       T!Queue, RP!Queue, T!Finish, RP!Finish, T!tree, RP!tree, T!FoundAs, RP!FoundAs,
       T!El, RP!El, T!Listed, RP!Listed, T!Cardinality, RP!Cardinality

LEMMA SameRenameNode == T!RenameNode => RP!RenameNode
BY DEF T!RenameNode, RP!RenameNode, T!Forward, RP!Forward, T!El, RP!El, T!ForwardFails,
       RP!ForwardFails, T!Last, RP!Last, T!Finish, RP!Finish, T!UndoFrom, RP!UndoFrom,
       T!Reaches, RP!Reaches, T!NodeAt, RP!NodeAt, T!SetName, RP!SetName, T!MayRefuse,
       RP!MayRefuse, T!Refuse, RP!Refuse, T!FoundAs, RP!FoundAs, T!InTable, RP!InTable,
       T!Garbled, RP!Garbled

LEMMA SameRenameDisk == T!RenameDisk => RP!RenameDisk
BY DEF T!RenameDisk, RP!RenameDisk, T!Moves, RP!Moves, T!El, RP!El, T!Last, RP!Last,
       T!Finish, RP!Finish, T!NamedIn, RP!NamedIn, T!DirOf, RP!DirOf, T!Busy, RP!Busy,
       T!Counted, RP!Counted, T!Refuse, RP!Refuse, T!FoundAs, RP!FoundAs, T!Below,
       RP!Below

LEMMA SameRenameNodeBack == T!RenameNodeBack => RP!RenameNodeBack
BY DEF T!RenameNodeBack, RP!RenameNodeBack, T!Backward, RP!Backward, T!El, RP!El,
       T!UndoFrom, RP!UndoFrom, T!BackwardFails, RP!BackwardFails, T!Last, RP!Last,
       T!Finish, RP!Finish, T!Reaches, RP!Reaches, T!NodeAt, RP!NodeAt, T!SetName,
       RP!SetName, T!MayRefuse, RP!MayRefuse, T!Refuse, RP!Refuse, T!InTable,
       RP!InTable, T!FoundAs, RP!FoundAs, T!Garbled, RP!Garbled

LEMMA SameUndoDisk == T!UndoDisk => RP!UndoDisk
BY DEF T!UndoDisk, RP!UndoDisk, T!NamedIn, RP!NamedIn, T!El, RP!El, T!DirOf, RP!DirOf,
       T!Busy, RP!Busy, T!Counted, RP!Counted, T!Refuse, RP!Refuse, T!FoundAs,
       RP!FoundAs, T!Below, RP!Below

LEMMA SameUndoNode == T!UndoNode => RP!UndoNode
BY DEF T!UndoNode, RP!UndoNode, T!Backward, RP!Backward, T!El, RP!El, T!BackwardFails,
       RP!BackwardFails, T!UndoFrom, RP!UndoFrom, T!Reaches, RP!Reaches, T!NodeAt,
       RP!NodeAt, T!SetName, RP!SetName, T!MayRefuse, RP!MayRefuse, T!Refuse, RP!Refuse,
       T!InTable, RP!InTable, T!Finish, RP!Finish, T!FoundAs, RP!FoundAs, T!Garbled,
       RP!Garbled

LEMMA SameNext == T!Next => RP!Next
<1>1. T!Lookup => RP!Lookup
  BY DEF T!Lookup, RP!Lookup, T!vars, RP!vars
<1> QED
  BY <1>1, SameOpen, SameClose, SameRename, SameRenameNode, SameRenameDisk, SameRenameNodeBack,
     SameUndoDisk, SameUndoNode DEF T!Next, RP!Next

----------------------------------------------------------------------------
(* The callbacks on directories and their counterparts.                    *)

LEMMA SameDirs == RP!D!DirsAssumption
<1>1. D!DirsAssumption => RP!D!DirsAssumption
  BY DEF D!DirsAssumption, RP!D!DirsAssumption
<1> QED
  BY <1>1, DirsAssumption

LEMMA SameDirInit == D!DirInit => RP!D!DirInit
BY DEF D!DirInit, RP!D!DirInit, D!NoDir, RP!D!NoDir, D!NoCall, RP!D!NoCall

LEMMA SameDirNext == D!DirNext => RP!D!DirNext
BY DEF D!DirNext, RP!D!DirNext, D!Return, RP!D!Return, D!OpenDir, RP!D!OpenDir, D!GetdirEnd,
       RP!D!GetdirEnd, D!Attributes, RP!D!Attributes, D!WalkEnd, RP!D!WalkEnd, D!Set, RP!D!Set,
       D!Rmdir, RP!D!Rmdir, D!RenameEntry, RP!D!RenameEntry, D!RenameDirectory,
       RP!D!RenameDirectory, D!Undo, RP!D!Undo, D!RenameFails, RP!D!RenameFails, D!Getdir,
       RP!D!Getdir, D!WalkDirectory, RP!D!WalkDirectory, D!FindFiles, RP!D!FindFiles,
       D!CreateDirectory, RP!D!CreateDirectory, D!DeleteDirectory, RP!D!DeleteDirectory,
       D!Rename, RP!D!Rename, D!GetFileInformation, RP!D!GetFileInformation, D!Remove,
       RP!D!Remove, D!SetFileAttributes, RP!D!SetFileAttributes, D!SetFileTime,
       RP!D!SetFileTime, D!Kinds, RP!D!Kinds, D!Create, RP!D!Create, D!Move, RP!D!Move,
       D!NoCall, RP!D!NoCall, D!At, RP!D!At, D!Exists, RP!D!Exists, D!Sees, RP!D!Sees, D!Ends,
       RP!D!Ends, D!Find, RP!D!Find, D!About, RP!D!About, D!Walks, RP!D!Walks, D!Fields,
       RP!D!Fields, D!Put, RP!D!Put, D!Finish, RP!D!Finish, D!Without, RP!D!Without, D!Recode,
       RP!D!Recode, D!IV, RP!D!IV, D!Goes, RP!D!Goes, D!CannotRecode, RP!D!CannotRecode,
       D!Getattr, RP!D!Getattr, D!OnItsWay, RP!D!OnItsWay, D!Begin, RP!D!Begin, D!Does,
       RP!D!Does, D!NoRename, RP!D!NoRename, D!Lists, RP!D!Lists, D!Idle, RP!D!Idle,
       D!GenRenameList, RP!D!GenRenameList, D!Change, RP!D!Change, D!NoDir, RP!D!NoDir, D!End,
       RP!D!End, D!Plain, RP!D!Plain, D!OnDisk, RP!D!OnDisk, D!Observe, RP!D!Observe, D!Renames,
       RP!D!Renames

----------------------------------------------------------------------------
(* The run.                                                                *)

LEMMA CallbacksInit == MCInit => CallbacksInv
<1> SUFFICES ASSUME MCInit PROVE CallbacksInv
  OBVIOUS
<1>1. RP!Init /\ RP!D!DirInit
  BY SameInit, SameDirInit DEF MCInit
<1>2. RP!TreeInv
  BY <1>1, SameTree, RP!TreeInvInit
<1>3. RP!DirInv
  BY <1>1, SameDirs, RP!DirInvInit
<1> QED
  BY <1>2, <1>3 DEF CallbacksInv

LEMMA CallbacksNext ==
    ASSUME CallbacksInv, [MCNext]_<<part, iovars, dVars, tVars>>
    PROVE  CallbacksInv'
<1>1. part' = part
  BY DEF MCNext
<1>2. ASSUME part = "tree" PROVE RP!TreeInv'
  <2>1. T!Next \/ UNCHANGED tVars
    BY <1>2 DEF MCNext
  <2>2. [RP!Next]_(RP!vars)
    BY <2>1, SameNext DEF tVars, RP!vars
  <2> QED
    BY <1>2, <2>2, SameTree, RP!TreeInvNext DEF CallbacksInv
<1>3. ASSUME part = "dirs" PROVE RP!DirInv'
  <2>1. D!DirNext \/ UNCHANGED dVars
    BY <1>3 DEF MCNext
  <2>2. [RP!D!DirNext]_(RP!D!dirvars)
    BY <2>1, SameDirNext DEF dVars, RP!D!dirvars
  <2> QED
    BY <1>3, <2>2, SameDirs, RP!DirInvNext DEF CallbacksInv
<1> QED
  BY <1>1, <1>2, <1>3 DEF CallbacksInv

\* The invariants of a rename and of the callbacks on directories hold in the run, as they
\* do for any volume (DirNode.cpp:217-356, fusemain.cpp:224-320).
THEOREM CallbacksInvariant == MCSpec => []CallbacksInv
BY CallbacksInit, CallbacksNext, PTL DEF MCSpec

\* A rename moves the whole tree or nothing of it, and headers and open nodes go along
\* (DirNode.cpp:217-356, 614-684).
THEOREM AlwaysAllOrNothing == MCSpec => []AllOrNothing
<1>1. CallbacksInv => AllOrNothing
  <2>1. RP!AllOrNothing => T!AllOrNothing
    BY DEF T!AllOrNothing, RP!AllOrNothing, T!Rested, RP!Rested, T!Visible, RP!Visible,
           T!FoundAs, RP!FoundAs
  <2> QED
    BY <2>1, SameTree, RP!RestIs DEF CallbacksInv, AllOrNothing
<1> QED
  BY <1>1, CallbacksInvariant, PTL

\* No header is lost, and after one refusal at most one is not its name's
\* (CipherFileIO.cpp:101-150, DirNode.cpp:221-304).
THEOREM HeadersAlwaysFollow == MCSpec => []HeadersFollow
<1>1. CallbacksInv => HeadersFollow
  <2>1. RP!HeadersFollow => T!HeadersFollow
    BY DEF T!HeadersFollow, RP!HeadersFollow, T!Cardinality, RP!Cardinality, T!Garbled,
           RP!Garbled
  <2> QED
    BY <2>1, SameTree, RP!HeadersAre DEF CallbacksInv, HeadersFollow
<1> QED
  BY <1>1, CallbacksInvariant, PTL

\* A rename fails only when it has been refused something (DirNode.cpp:217-304).
THEOREM AlwaysFailsForCause == MCSpec => []FailsForCause
<1>1. CallbacksInv => FailsForCause
  <2>1. RP!FailsForCause => T!FailsForCause
    BY DEF T!FailsForCause, RP!FailsForCause
  <2> QED
    BY <2>1, RP!CauseIs DEF CallbacksInv, FailsForCause
<1> QED
  BY <1>1, CallbacksInvariant, PTL

\* With no directory on its way every entry bears a name its directory's path decodes
\* (DirNode.cpp:441-556, 614-684).
THEOREM EntriesAlwaysKept == MCSpec => []EntriesKept
<1>1. CallbacksInv => EntriesKept
  <2>1. RP!D!EntriesKept => D!EntriesKept
    BY DEF D!EntriesKept, RP!D!EntriesKept, D!NoRename, RP!D!NoRename, D!IV, RP!D!IV, D!Renames,
           RP!D!Renames
  <2> QED
    BY <2>1, RP!EntriesAre DEF CallbacksInv, EntriesKept
<1> QED
  BY <1>1, CallbacksInvariant, PTL

\* A listing has all that was there all the while, as it was meanwhile
\* (fusemain.cpp:224-320, DirNode.cpp:123-139).
THEOREM ListingAlwaysStands == MCSpec => []ListingStands
<1>1. CallbacksInv => ListingStands
  <2>1. RP!D!ListingStands => D!ListingStands
    BY DEF D!ListingStands, RP!D!ListingStands, D!Done, RP!D!Done, D!Fields, RP!D!Fields
  <2> QED
    BY <2>1, RP!ListingIs DEF CallbacksInv, ListingStands
<1> QED
  BY <1>1, CallbacksInvariant, PTL

\* Directories, callbacks and renames have their types (fusemain.cpp:224-320,
\* DirNode.cpp:140-356).
THEOREM TypesAlwaysOK == MCSpec => []TypesOK
<1>1. CallbacksInv => TypesOK
  <2>1. RP!TypeOK => T!TypeOK
    BY DEF T!TypeOK, RP!TypeOK, T!Places, RP!Places, T!PathOf, RP!PathOf, T!Garbled,
           RP!Garbled, T!Nodes, RP!Nodes, T!Depth, RP!Depth
  <2>2. RP!D!DirTypeOK => D!DirTypeOK
    BY DEF D!DirTypeOK, RP!D!DirTypeOK, D!Entry, RP!D!Entry, D!IV, RP!D!IV, D!Kinds, RP!D!Kinds,
           D!Fields, RP!D!Fields
  <2>3. RP!TreeInv => RP!TypeOK
    BY DEF RP!TreeInv
  <2>4. RP!DirInv => RP!D!DirTypeOK
    BY RP!TypesAre
  <2> QED
    BY <2>1, <2>2, <2>3, <2>4 DEF CallbacksInv, TypesOK
<1> QED
  BY <1>1, CallbacksInvariant, PTL
=============================================================================
