---------------------------- MODULE Files_Proofs ----------------------------
(***************************************************************************)
(* Theorems about the layers every encrypted file is written through, as   *)
(* the run instantiates them, for files and writes of any length.          *)
(* RawFileIO: what it remembers of the file is true after any sequence of  *)
(* calls, and to the layer above it is a plain file.  BlockFileIO and      *)
(* CipherFileIO: a cached block is what is on disk, the header is one that *)
(* the node's path decodes, and to its callers it is a plain file.         *)
(* MACFileIO: a block is refused only if it was altered, and to the layer  *)
(* above it is a plain file.  What both do with their blocks is what       *)
(* BlockIO_Proofs says of any layer that reads and writes one block as it  *)
(* should.                                                                 *)
(***************************************************************************)
EXTENDS MCFiles, SequenceTheorems, FiniteSetTheorems, WellFoundedInduction, TLAPS

----------------------------------------------------------------------------
(* Sequences of bytes.                                                     *)

\* A part of a sequence.
LEMMA PartIs ==
    ASSUME NEW S, NEW s \in Seq(S), NEW m \in Nat \ {0}, NEW n \in Int, n <= Len(s)
    PROVE  LET p == SubSeq(s, m, n)
           IN /\ p \in Seq(S) /\ Len(p) = (IF m <= n THEN n - m + 1 ELSE 0)
              /\ \A i \in 1..Len(p) : p[i] = s[m + i - 1]
<1>1. \A i \in m..n : s[i] \in S
  BY LenProperties, ElementOfSeq
<1>2. /\ SubSeq(s, m, n) \in Seq(S)
      /\ Len(SubSeq(s, m, n)) = IF m <= n THEN n - m + 1 ELSE 0
      /\ \A i \in 1 .. n - m + 1 : SubSeq(s, m, n)[i] = s[m + i - 1]
  BY <1>1, SubSeqProperties
<1> QED
  BY <1>2

\* A buffer of zeros.
LEMMA ZerosIs ==
    ASSUME NEW S, 0 \in S, NEW n \in Nat
    PROVE  /\ Raw!Zeros(n) \in Seq(S) /\ Len(Raw!Zeros(n)) = n
           /\ \A i \in 1..n : Raw!Zeros(n)[i] = 0
<1> DEFINE z == [i \in 1..n |-> 0]
<1>1. z \in [1..n -> S]
  OBVIOUS
<1>2. z \in Seq(S)
  BY <1>1, SeqDef
<1>3. Len(z) = n
  BY <1>1, <1>2, LenProperties
<1> QED
  BY <1>2, <1>3 DEF Raw!Zeros

\* A file cut or padded to n bytes.
LEMMA ResizeIs ==
    ASSUME NEW S, 0 \in S, NEW s \in Seq(S), NEW n \in Nat
    PROVE  LET r == Raw!Resize(s, n)
           IN /\ r \in Seq(S) /\ Len(r) = n
              /\ \A i \in 1..n : r[i] = IF i <= Len(s) THEN s[i] ELSE 0
<1>1. Len(s) \in Nat
  BY LenProperties
<1>2. CASE n <= Len(s)
  <2>1. Raw!Resize(s, n) = SubSeq(s, 1, n)
    BY <1>2 DEF Raw!Resize
  <2>2. /\ SubSeq(s, 1, n) \in Seq(S) /\ Len(SubSeq(s, 1, n)) = n
        /\ \A i \in 1..n : SubSeq(s, 1, n)[i] = s[i]
    BY <1>1, <1>2, PartIs
  <2> QED
    BY <1>1, <1>2, <2>1, <2>2
<1>3. CASE n > Len(s)
  <2> DEFINE k == n - Len(s)
             z == Raw!Zeros(k)
  <2>0. k \in Nat
    BY <1>1, <1>3
  <2> HIDE DEF k
  <2>1. z \in Seq(S) /\ Len(z) = k /\ \A i \in 1..k : z[i] = 0
    BY <2>0, ZerosIs
  <2>2. Raw!Resize(s, n) = s \o z
    BY <1>1, <1>3 DEF Raw!Resize, k
  <2> HIDE DEF z
  <2>3. /\ s \o z \in Seq(S) /\ Len(s \o z) = Len(s) + Len(z)
        /\ \A i \in 1..(Len(s) + Len(z)) : (s \o z)[i] = IF i <= Len(s) THEN s[i] ELSE z[i - Len(s)]
    BY <2>1, ConcatProperties
  <2>4. Len(s) + k = n /\ \A i \in 1..n : ~(i <= Len(s)) => i - Len(s) \in 1..k
    BY <1>1, <1>3 DEF k
  <2> QED
    BY <1>1, <1>3, <2>1, <2>2, <2>3, <2>4
<1> QED
  BY <1>1, <1>2, <1>3

\* A sequence with another put in at off.
LEMMA SpliceIs ==
    ASSUME NEW S, NEW b \in Seq(S), NEW d \in Seq(S), NEW off \in Nat, off <= Len(b)
    PROVE  LET o == SubSeq(b, 1, off) \o d \o SubSeq(b, off + Len(d) + 1, Len(b))
           IN /\ o \in Seq(S)
              /\ Len(o) = (IF Len(b) < off + Len(d) THEN off + Len(d) ELSE Len(b))
              /\ \A i \in 1..Len(o) : o[i] = IF off < i /\ i <= off + Len(d) THEN d[i - off] ELSE b[i]
<1> DEFINE head == SubSeq(b, 1, off)
           m == off + Len(d)
           tail == SubSeq(b, m + 1, Len(b))
           h == head \o d
           o == h \o tail
<1>1. Len(b) \in Nat /\ Len(d) \in Nat /\ m \in Nat /\ off <= m
  BY LenProperties
<1>2. head \in Seq(S) /\ Len(head) = off /\ \A i \in 1..off : head[i] = b[i]
  BY <1>1, PartIs
<1>3. /\ tail \in Seq(S) /\ Len(tail) = (IF m + 1 <= Len(b) THEN Len(b) - m ELSE 0)
      /\ \A i \in 1..Len(tail) : tail[i] = b[m + i]
  <2> HIDE DEF m
  <2>1. m + 1 \in Nat \ {0} /\ Len(b) \in Int
    BY <1>1
  <2>2. /\ tail \in Seq(S) /\ Len(tail) = (IF m + 1 <= Len(b) THEN Len(b) - (m + 1) + 1 ELSE 0)
        /\ \A i \in 1..Len(tail) : tail[i] = b[m + 1 + i - 1]
    BY <1>1, <2>1, PartIs
  <2>3. Len(tail) \in Nat
    BY <2>2, LenProperties
  <2>4. \A i \in 1..Len(tail) : m + 1 + i - 1 = m + i
    BY <1>1, <2>3
  <2> QED
    BY <1>1, <2>2, <2>4
<1> HIDE DEF head, tail
<1>4. /\ h \in Seq(S) /\ Len(h) = m
      /\ \A i \in 1..m : h[i] = IF i <= off THEN head[i] ELSE d[i - off]
  BY <1>2, ConcatProperties
<1> HIDE DEF h, m
<1>5. /\ o \in Seq(S) /\ Len(o) = m + Len(tail)
      /\ \A i \in 1..Len(o) : o[i] = IF i <= m THEN h[i] ELSE tail[i - m]
  <2>1. /\ o \in Seq(S) /\ Len(o) = Len(h) + Len(tail)
        /\ \A i \in 1..(Len(h) + Len(tail)) : o[i] = IF i <= Len(h) THEN h[i] ELSE tail[i - Len(h)]
    BY <1>3, <1>4, ConcatProperties
  <2> QED
    BY <1>4, <2>1
<1> HIDE DEF o
<1>6. Len(o) = IF Len(b) < m THEN m ELSE Len(b)
  <2>1. CASE m + 1 <= Len(b)
    <3>1. Len(tail) = Len(b) - m
      BY <1>3, <2>1
    <3> QED
      BY <1>1, <1>5, <2>1, <3>1
  <2>2. CASE ~(m + 1 <= Len(b))
    <3>1. Len(tail) = 0 /\ Len(o) = m
      BY <1>1, <1>3, <1>5, <2>2
    <3> QED
      BY <1>1, <2>2, <3>1
  <2> QED
    BY <2>1, <2>2
<1>7. ASSUME NEW i \in 1..Len(o)
      PROVE  o[i] = IF off < i /\ i <= m THEN d[i - off] ELSE b[i]
  <2>1. CASE i <= m
    <3>1. o[i] = h[i] /\ i \in 1..m
      BY <1>1, <1>5, <2>1
    <3> QED
      BY <1>1, <1>2, <1>4, <2>1, <3>1
  <2>2. CASE ~(i <= m)
    <3>1. i - m \in 1..Len(tail) /\ m + (i - m) = i
      <4>1. Len(tail) \in Nat
        BY <1>3, LenProperties
      <4> QED
        BY <1>1, <1>5, <2>2, <4>1
    <3>2. o[i] = tail[i - m]
      BY <1>5, <2>2
    <3> QED
      BY <1>3, <2>2, <3>1, <3>2
  <2> QED
    BY <2>1, <2>2
<1> QED
  BY <1>5, <1>6, <1>7 DEF o, h, head, tail, m

\* A file after a write: the bytes written, where they were written, and the
\* rest as it was; zeros in the gap between.
LEMMA OverlayIs ==
    ASSUME NEW S, 0 \in S, NEW s \in Seq(S), NEW off \in Nat, NEW d \in Seq(S)
    PROVE  LET o == Raw!Overlay(s, off, d)
               end == off + Len(d)
           IN /\ o \in Seq(S) /\ Len(o) = (IF Len(s) < end THEN end ELSE Len(s))
              /\ \A i \in 1..Len(o) :
                   o[i] = IF off < i /\ i <= end THEN d[i - off]
                          ELSE IF i <= Len(s) THEN s[i] ELSE 0
<1> DEFINE b == IF off > Len(s) THEN Raw!Resize(s, off) ELSE s
           o == Raw!Overlay(s, off, d)
           end == off + Len(d)
<1>1. Len(s) \in Nat /\ Len(d) \in Nat
  BY LenProperties
<1>2. /\ b \in Seq(S) /\ Len(b) = (IF off > Len(s) THEN off ELSE Len(s))
      /\ \A i \in 1..Len(b) : b[i] = IF i <= Len(s) THEN s[i] ELSE 0
  <2>1. CASE off > Len(s)
    BY <2>1, ResizeIs
  <2>2. CASE ~(off > Len(s))
    BY <1>1, <2>2
  <2> QED
    BY <2>1, <2>2
<1>3. o = SubSeq(b, 1, off) \o d \o SubSeq(b, off + Len(d) + 1, Len(b))
  BY DEF Raw!Overlay
<1> HIDE DEF b, o
<1>4. off <= Len(b) /\ Len(b) \in Nat
  BY <1>1, <1>2
<1>5. /\ o \in Seq(S) /\ Len(o) = (IF Len(b) < end THEN end ELSE Len(b))
      /\ \A i \in 1..Len(o) : o[i] = IF off < i /\ i <= end THEN d[i - off] ELSE b[i]
  <2> DEFINE x == SubSeq(b, 1, off) \o d \o SubSeq(b, off + Len(d) + 1, Len(b))
  <2>1. /\ x \in Seq(S)
        /\ Len(x) = (IF Len(b) < off + Len(d) THEN off + Len(d) ELSE Len(b))
        /\ \A i \in 1..Len(x) : x[i] = IF off < i /\ i <= off + Len(d) THEN d[i - off] ELSE b[i]
    BY <1>2, <1>4, SpliceIs
  <2> HIDE DEF x
  <2> QED
    BY <1>3, <2>1 DEF x, end
<1>6. end \in Nat /\ off <= end
  BY <1>1
<1> HIDE DEF end
<1>7. Len(o) = IF Len(s) < end THEN end ELSE Len(s)
  <2>1. CASE off > Len(s)
    <3>1. Len(b) = off
      BY <1>2, <2>1
    <3> QED
      BY <1>1, <1>5, <1>6, <2>1, <3>1
  <2>2. CASE ~(off > Len(s))
    BY <1>2, <1>5, <2>2
  <2> QED
    BY <2>1, <2>2
<1>8. ASSUME NEW i \in 1..Len(o), ~(off < i /\ i <= end)
      PROVE  o[i] = IF i <= Len(s) THEN s[i] ELSE 0
  <2>1. i \in 1..Len(b)
    BY <1>4, <1>5, <1>6, <1>8
  <2> QED
    BY <1>2, <1>5, <1>8, <2>1
<1> QED
  BY <1>5, <1>7, <1>8 DEF o, end

----------------------------------------------------------------------------
(* What the node remembers.                                                *)

\* A descriptor writes if it was opened for writing, and an open that is on its
\* way is one no descriptor there serves: so it replaces none that does.
RawInv ==
    /\ Raw!TypeOK
    /\ Raw!KnownSize
    /\ Raw!NeverLeaks
    /\ Raw!ModeRestored
    /\ rFd.canWrite <=> rFd.cur = "rw"
    /\ ~Raw!Idle => ~Raw!Serves(rOpen)

USE DEF Raw!Access, Raw!NoFd

\* What a node that was just made remembers is true.
LEMMA RawInitial == Raw!Init => RawInv
<1> SUFFICES ASSUME Raw!Init PROVE RawInv
  OBVIOUS
<1>1. <<>> \in Seq(Nat) /\ Len(<<>>) = 0
  BY EmptySeq
<1> QED
  BY <1>1, LayerAssumption
     DEF Raw!Init, RawInv, Raw!TypeOK, Raw!KnownSize, Raw!NeverLeaks, Raw!ModeRestored,
         Raw!Idle, Raw!Serves, Raw!Owned, Raw!Handle

\* A new descriptor for an access that none there serves.
LEMMA OpenedKeeps ==
    ASSUME RawInv, NEW flags \in Raw!Access, ~Raw!Serves(flags), Raw!Opened(flags)
    PROVE  /\ rFd' \in [cur : Raw!Access \cup {Raw!NoFd}, old : Raw!Access \cup {Raw!NoFd},
                        canWrite : BOOLEAN]
           /\ rHandles' \in Int
           /\ Raw!NeverLeaks'
           /\ (rFd.canWrite <=> rFd.cur = "rw")'
<1>1. /\ rFd' = [cur |-> flags, old |-> rFd.cur, canWrite |-> flags = "rw"]
      /\ rHandles' = rHandles + 1
  BY DEF Raw!Opened
<1>2. /\ rFd \in [cur : {"r", "rw", "none"}, old : {"r", "rw", "none"}, canWrite : BOOLEAN]
      /\ rHandles \in Int
  BY DEF RawInv, Raw!TypeOK
<1>3. rFd.old = "none"
  BY DEF RawInv, Raw!NeverLeaks
<1>4. rHandles' = Raw!Handle(rFd'.cur) + Raw!Handle(rFd'.old)
  BY <1>1, <1>2, <1>3 DEF RawInv, Raw!NeverLeaks, Raw!Owned, Raw!Handle
<1>5. rFd.cur # "none" => flags = "rw"
  BY DEF RawInv, Raw!Serves
<1>6. rFd'.old # "none" => \A f \in {"r", "rw"} : Raw!Serves(f)'
  BY <1>1, <1>2, <1>5 DEF Raw!Serves
<1>7. Raw!NeverLeaks'
  BY <1>4, <1>6 DEF Raw!NeverLeaks, Raw!Owned
<1>8. rFd'.canWrite <=> rFd'.cur = "rw"
  BY <1>1
<1>9. rFd' \in [cur : {"r", "rw", "none"}, old : {"r", "rw", "none"}, canWrite : BOOLEAN]
  BY <1>1, <1>2
<1> QED
  BY <1>1, <1>2, <1>7, <1>8, <1>9

\* What an action leaves alone of the descriptors and the mode stays right.
LEMMA DescriptorsStay ==
    ASSUME RawInv, UNCHANGED <<rMode, rAsked, rFd, rOpen, rHandles>>
    PROVE  /\ rMode' \in Raw!Access /\ rAsked' \in Raw!Access
           /\ rFd' \in [cur : Raw!Access \cup {Raw!NoFd}, old : Raw!Access \cup {Raw!NoFd},
                        canWrite : BOOLEAN]
           /\ rOpen' \in Raw!Access \cup {Raw!NoFd} /\ rHandles' \in Int
           /\ Raw!NeverLeaks' /\ Raw!ModeRestored'
           /\ (rFd.canWrite <=> rFd.cur = "rw")'
           /\ (~Raw!Idle => ~Raw!Serves(rOpen))'
BY DEF RawInv, Raw!TypeOK, Raw!NeverLeaks, Raw!ModeRestored, Raw!Idle, Raw!Serves,
       Raw!Owned, Raw!Handle

\* open(), with or without the way around a permission (RawFileIO.cpp:107-186).
LEMMA RawOpens ==
    ASSUME RawInv, \/ \E flags \in Raw!Access : Raw!OpenCall(flags)
                   \/ Raw!WorkaroundGrant \/ Raw!WorkaroundOpen
    PROVE  RawInv'
<1>1. ASSUME NEW flags \in Raw!Access, Raw!OpenCall(flags)
      PROVE  RawInv'
  <2>1. CASE rMode = "rw" /\ Raw!Opened(flags) /\ UNCHANGED rOpen
    BY <1>1, <2>1, OpenedKeeps
       DEF Raw!OpenCall, RawInv, Raw!TypeOK, Raw!KnownSize, Raw!ModeRestored, Raw!Idle
  <2>2. CASE UNCHANGED <<rFd, rHandles, rOpen>>
    BY <1>1, <2>2, DescriptorsStay DEF Raw!OpenCall, RawInv, Raw!TypeOK, Raw!KnownSize
  <2>3. CASE rMode = "r" /\ rOpen' = flags /\ UNCHANGED <<rFd, rHandles>>
    BY <1>1, <2>3
       DEF Raw!OpenCall, RawInv, Raw!TypeOK, Raw!KnownSize, Raw!ModeRestored, Raw!Idle,
           Raw!NeverLeaks, Raw!Serves, Raw!Owned, Raw!Handle
  <2> QED
    BY <1>1, <2>1, <2>2, <2>3 DEF Raw!OpenCall
<1>2. CASE Raw!WorkaroundGrant
  BY <1>2 DEF Raw!WorkaroundGrant, RawInv, Raw!TypeOK, Raw!KnownSize, Raw!ModeRestored,
              Raw!Idle, Raw!NeverLeaks, Raw!Serves, Raw!Owned, Raw!Handle
<1>3. CASE Raw!WorkaroundOpen
  <2>1. rOpen \in Raw!Access /\ ~Raw!Serves(rOpen)
    BY <1>3 DEF Raw!WorkaroundOpen, RawInv, Raw!TypeOK, Raw!Idle
  <2>2. CASE Raw!Opened(rOpen)
    BY <1>3, <2>1, <2>2, OpenedKeeps
       DEF Raw!WorkaroundOpen, RawInv, Raw!TypeOK, Raw!KnownSize, Raw!ModeRestored, Raw!Idle
  <2>3. CASE UNCHANGED <<rFd, rHandles>>
    BY <1>3, <2>3
       DEF Raw!WorkaroundOpen, RawInv, Raw!TypeOK, Raw!KnownSize, Raw!ModeRestored,
           Raw!Idle, Raw!NeverLeaks, Raw!Serves, Raw!Owned, Raw!Handle
  <2> QED
    BY <1>3, <2>2, <2>3 DEF Raw!WorkaroundOpen
<1> QED
  BY <1>1, <1>2, <1>3

\* chmod, and the end of the node, which closes its handles.
LEMMA RawEnds ==
    ASSUME RawInv, Raw!Chmod \/ Raw!Destroy \/ Raw!Ended
    PROVE  RawInv'
<1>1. CASE Raw!Chmod
  BY <1>1 DEF Raw!Chmod, RawInv, Raw!TypeOK, Raw!KnownSize, Raw!ModeRestored,
              Raw!Idle, Raw!NeverLeaks, Raw!Serves, Raw!Owned, Raw!Handle
<1>2. CASE Raw!Destroy
  BY <1>2, LayerAssumption
     DEF Raw!Destroy, RawInv, Raw!TypeOK, Raw!KnownSize, Raw!ModeRestored,
         Raw!Idle, Raw!NeverLeaks, Raw!Serves, Raw!Owned, Raw!Handle
<1>3. CASE Raw!Ended
  BY <1>3, LayerAssumption
     DEF Raw!Ended, RawInv, Raw!TypeOK, Raw!KnownSize, Raw!ModeRestored,
         Raw!Idle, Raw!NeverLeaks, Raw!Serves, Raw!Owned, Raw!Handle
<1> QED
  BY <1>1, <1>2, <1>3

\* A size is remembered once it was looked up, and kept or forgotten by what may
\* change it.
LEMMA RawCalls ==
    ASSUME RawInv, Raw!GetSize \/ Raw!Read \/ Raw!Write \/ Raw!Truncate
    PROVE  RawInv'
<1>1. /\ rContent \in Seq(Nat) /\ Len(rContent) <= LayerSize
      /\ rKnown \in [is : BOOLEAN, size : 0..LayerSize]
      /\ Raw!KnownSize
  BY DEF RawInv, Raw!TypeOK
<1>2. LayerSize \in Nat /\ Len(rContent) \in Nat
  BY <1>1, LayerAssumption, LenProperties
<1>3. UNCHANGED <<rMode, rAsked, rFd, rOpen, rHandles>>
  BY DEF Raw!GetSize, Raw!Read, Raw!Write, Raw!Truncate
<1>4. SUFFICES /\ rContent' \in Seq(Nat) /\ Len(rContent') <= LayerSize
               /\ rKnown' \in [is : BOOLEAN, size : 0..LayerSize]
               /\ Raw!KnownSize'
  BY <1>3, DescriptorsStay DEF RawInv, Raw!TypeOK
<1>5. CASE Raw!GetSize
  <2>1. UNCHANGED rContent
        /\ (UNCHANGED rKnown \/ rKnown' = [is |-> TRUE, size |-> Len(rContent)])
    BY <1>5 DEF Raw!GetSize
  <2>2. CASE UNCHANGED rKnown
    BY <1>1, <2>1, <2>2 DEF Raw!KnownSize
  <2>3. CASE rKnown' = [is |-> TRUE, size |-> Len(rContent)]
    BY <1>1, <1>2, <2>1, <2>3 DEF Raw!KnownSize
  <2> QED
    BY <2>1, <2>2, <2>3
<1>6. CASE Raw!Read
  BY <1>1, <1>6 DEF Raw!Read, Raw!KnownSize
<1>7. CASE Raw!Write
  <2>1. PICK off \in 0..LayerSize, data \in Data :
          /\ off + Len(data) <= LayerSize
          /\ \E r \in Raw!Rounds(Len(data)) :
               /\ rContent' = IF r.done = 0 THEN rContent
                              ELSE Raw!Overlay(rContent, off, SubSeq(data, 1, r.done))
               /\ rKnown' = Raw!KnownAfter(off + Len(data), r.failed)
    BY <1>7 DEF Raw!Write
  <2>2. PICK r \in Raw!Rounds(Len(data)) :
          /\ rContent' = IF r.done = 0 THEN rContent
                         ELSE Raw!Overlay(rContent, off, SubSeq(data, 1, r.done))
          /\ rKnown' = Raw!KnownAfter(off + Len(data), r.failed)
    BY <2>1
  <2>3. data \in Seq(Nat) /\ Len(data) \in Nat \ {0}
    BY BlockAssumption, EmptySeq
  <2>4. /\ r.done \in 0..Len(data) /\ r.failed \in BOOLEAN
        /\ ~r.failed => r.done = Len(data)
    <3>1. CASE r = [done |-> Len(data), failed |-> FALSE]
      BY <2>3, <3>1
    <3>2. CASE r \in [done : 0..(Len(data) - 1), failed : {TRUE}]
      <4>1. r.done \in 0..Len(data)
        BY <2>3, <3>2
      <4>2. r.failed = TRUE
        BY <3>2
      <4> QED
        BY <4>1, <4>2
    <3> QED
      BY <3>1, <3>2 DEF Raw!Rounds
  <2>5. CASE r.done = 0
    <3>1. r.failed /\ rContent' = rContent
      BY <2>2, <2>3, <2>4, <2>5
    <3> QED
      BY <1>1, <2>2, <3>1 DEF Raw!KnownAfter, Raw!KnownSize
  <2>6. CASE r.done # 0
    <3> DEFINE part == SubSeq(data, 1, r.done)
               o == Raw!Overlay(rContent, off, part)
    <3>1. part \in Seq(Nat) /\ Len(part) = r.done
      BY <2>3, <2>4, <2>6, PartIs
    <3> HIDE DEF part
    <3>2. o \in Seq(Nat)
          /\ Len(o) = (IF Len(rContent) < off + r.done THEN off + r.done ELSE Len(rContent))
      <4>1. 0 \in Nat /\ rContent \in Seq(Nat) /\ off \in Nat /\ part \in Seq(Nat)
        BY <1>1, <3>1
      <4>2. /\ o \in Seq(Nat)
            /\ Len(o) = (IF Len(rContent) < off + Len(part) THEN off + Len(part)
                         ELSE Len(rContent))
        BY ONLY <4>1, OverlayIs
      <4> QED
        BY <3>1, <4>2
    <3>3. rContent' = o
      BY <2>2, <2>6 DEF part
    <3> HIDE DEF o
    <3>4. rContent' \in Seq(Nat) /\ Len(rContent') <= LayerSize
      BY SMTT(30), <1>1, <1>2, <2>1, <2>3, <2>4, <3>2, <3>3
    <3>5. /\ rKnown'.is = (rKnown.is /\ ~r.failed)
          /\ rKnown'.size = IF rKnown.is /\ ~r.failed /\ off + Len(data) > rKnown.size
                            THEN off + Len(data) ELSE rKnown.size
          /\ rKnown' \in [is : BOOLEAN, size : 0..LayerSize]
      BY <1>1, <1>2, <2>1, <2>2, <2>3, <2>4 DEF Raw!KnownAfter
    <3>6. rKnown'.is => rKnown'.size = Len(rContent')
      BY <1>1, <1>2, <2>3, <2>4, <3>2, <3>3, <3>5 DEF Raw!KnownSize
    <3> QED
      BY <3>4, <3>5, <3>6 DEF Raw!KnownSize
  <2> QED
    BY <2>5, <2>6
<1>8. CASE Raw!Truncate
  <2>1. PICK n \in 0..LayerSize :
          \/ rContent' = Raw!Resize(rContent, n) /\ rKnown' = [is |-> TRUE, size |-> n]
          \/ rKnown' = [rKnown EXCEPT !.is = FALSE] /\ UNCHANGED rContent
    BY <1>8 DEF Raw!Truncate
  <2>2. Raw!Resize(rContent, n) \in Seq(Nat) /\ Len(Raw!Resize(rContent, n)) = n
    BY <1>1, ResizeIs
  <2>3. CASE rContent' = Raw!Resize(rContent, n) /\ rKnown' = [is |-> TRUE, size |-> n]
    BY <1>2, <2>2, <2>3 DEF Raw!KnownSize
  <2>4. CASE rKnown' = [rKnown EXCEPT !.is = FALSE] /\ UNCHANGED rContent
    BY <1>1, <2>4 DEF Raw!KnownSize
  <2> QED
    BY <2>1, <2>3, <2>4
<1> QED
  BY <1>5, <1>6, <1>7, <1>8

\* Every call of RawFileIO keeps what it remembers true.
LEMMA RawStep ==
    ASSUME RawInv, Raw!Next PROVE RawInv'
<1>1. ~Raw!Elsewhere
  BY DEF Raw!Elsewhere
<1> QED
  BY <1>1, RawOpens, RawEnds, RawCalls DEF Raw!Next

\* The run's steps are those of RawFile, or leave it alone.
LEMMA RawSteps ==
    ASSUME [MCNext]_<<layer, vars, macVars, rawVars>>
    PROVE  [Raw!Next]_rawVars
<1>1. CASE layer = "block" /\ Next /\ UNCHANGED <<layer, macVars, rawVars>>
  BY <1>1
<1>2. CASE layer = "mac" /\ Mac!Next /\ UNCHANGED <<layer, vars, rawVars>>
  BY <1>2
<1>3. CASE layer = "raw" /\ Raw!Next /\ UNCHANGED <<layer, vars, macVars>>
  BY <1>3
<1>4. CASE UNCHANGED <<layer, vars, macVars, rawVars>>
  BY <1>4
<1> QED
  BY <1>1, <1>2, <1>3, <1>4 DEF MCNext

\* So does a step of another layer.
LEMMA RawUnchanged ==
    ASSUME RawInv, UNCHANGED rawVars PROVE RawInv'
BY DEF RawInv, rawVars, Raw!TypeOK, Raw!KnownSize, Raw!NeverLeaks, Raw!ModeRestored,
       Raw!Idle, Raw!Serves, Raw!Owned, Raw!Handle

\* The inductive invariant of RawFileIO.
THEOREM RawInvariant == MCSpec => []RawInv
<1>1. MCInit => RawInv
  BY RawInitial DEF MCInit
<1>2. RawInv /\ [MCNext]_<<layer, vars, macVars, rawVars>> => RawInv'
  BY RawSteps, RawStep, RawUnchanged
<1> QED
  BY <1>1, <1>2, PTL DEF MCSpec

\* The size RawFileIO remembers is the file's, no handle of its node leaks, and a
\* permission changed to open a file is put back, whatever calls are made and
\* whichever of them fail (RawFileIO.cpp:91-118, 143-170, 203-300).
THEOREM RawAlwaysSound == MCSpec => []RawSound
<1>1. RawInv => RawSound
  BY DEF RawInv, RawSound
<1> QED
  BY <1>1, RawInvariant, PTL

----------------------------------------------------------------------------
(* RawFile implements PlainFile.                                           *)

\* The bytes of the layer above are those of the file.
LEMMA SameFile ==
    ASSUME NEW s, NEW n, NEW off, NEW d
    PROVE  /\ Raw!Plain!Cut(s, n) = Raw!Resize(s, n)
           /\ Raw!Plain!Overlay(s, off, d) = Raw!Overlay(s, off, d)
           /\ Raw!Plain!Slice(s, off, n) = SubSeq(s, off + 1, Raw!Least(off + n, Len(s)))
BY DEF Raw!Plain!Cut, Raw!Resize, Raw!Plain!Zeros, Raw!Zeros, Raw!Plain!Overlay,
       Raw!Overlay, Raw!Plain!Slice, Raw!Plain!Least, Raw!Least

\* A write that stopped after k bytes is the whole write up to there, and the file as
\* it was after.
LEMMA PartlyWritten ==
    ASSUME NEW s \in Seq(Nat), NEW off \in Nat, NEW d \in Seq(Nat), NEW k \in 1..Len(d)
    PROVE  Raw!Overlay(s, off, SubSeq(d, 1, k))
             = Raw!Plain!UpTo(off + k, Raw!Overlay(s, off, d), s)
<1> DEFINE part == SubSeq(d, 1, k)
           o == Raw!Overlay(s, off, part)
           w == Raw!Overlay(s, off, d)
           head == SubSeq(w, 1, off + k)
           tail == SubSeq(s, off + k + 1, Len(s))
<1>1. Len(s) \in Nat /\ Len(d) \in Nat /\ k \in Nat \ {0} /\ k <= Len(d)
  BY LenProperties
<1>2. part \in Seq(Nat) /\ Len(part) = k /\ \A i \in 1..k : part[i] = d[i]
  BY <1>1, PartIs
<1> HIDE DEF part
<1>3. /\ o \in Seq(Nat) /\ Len(o) = (IF Len(s) < off + Len(part) THEN off + Len(part) ELSE Len(s))
      /\ \A i \in 1..Len(o) :
           o[i] = IF off < i /\ i <= off + Len(part) THEN part[i - off]
                  ELSE IF i <= Len(s) THEN s[i] ELSE 0
  BY <1>2, OverlayIs
<1>4. /\ w \in Seq(Nat) /\ Len(w) = (IF Len(s) < off + Len(d) THEN off + Len(d) ELSE Len(s))
      /\ \A i \in 1..Len(w) :
           w[i] = IF off < i /\ i <= off + Len(d) THEN d[i - off]
                  ELSE IF i <= Len(s) THEN s[i] ELSE 0
  BY OverlayIs
<1> HIDE DEF o, w
<1>5. Len(w) \in Nat /\ off + k \in Nat /\ off + k <= Len(w) /\ Len(o) \in Nat
  BY <1>1, <1>2, <1>3, <1>4
<1>6. /\ head \in Seq(Nat) /\ Len(head) = off + k
      /\ \A i \in 1..(off + k) : head[i] = w[i]
  <2> DEFINE n == off + k
  <2>1. n \in Nat /\ 1 <= n /\ n <= Len(w)
    BY <1>1, <1>5
  <2> HIDE DEF n
  <2>2. /\ SubSeq(w, 1, n) \in Seq(Nat) /\ Len(SubSeq(w, 1, n)) = n
        /\ \A i \in 1..n : SubSeq(w, 1, n)[i] = w[i]
    BY SMTT(30), <1>4, <2>1, PartIs
  <2> QED
    BY <2>2 DEF n
<1>7. /\ tail \in Seq(Nat)
      /\ Len(tail) = IF off + k + 1 <= Len(s) THEN Len(s) - (off + k) ELSE 0
      /\ \A i \in 1..Len(tail) : tail[i] = s[off + k + i]
  <2> DEFINE m == off + k + 1
             n == Len(s)
  <2>1. m \in Nat \ {0} /\ n \in Int /\ n <= Len(s)
    BY <1>1
  <2>2. /\ tail \in Seq(Nat) /\ Len(tail) = (IF m <= n THEN n - m + 1 ELSE 0)
        /\ \A i \in 1..Len(tail) : tail[i] = s[m + i - 1]
    <3> HIDE DEF m, n
    <3>1. LET p == SubSeq(s, m, n)
          IN /\ p \in Seq(Nat) /\ Len(p) = (IF m <= n THEN n - m + 1 ELSE 0)
             /\ \A i \in 1..Len(p) : p[i] = s[m + i - 1]
      BY <2>1, PartIs
    <3> QED
      BY <3>1 DEF m, n
  <2>3. Len(tail) \in Nat
    BY <2>2, LenProperties
  <2>4. \A i \in 1..Len(tail) : m + i - 1 = off + k + i
    BY <1>1, <2>3
  <2> QED
    BY <1>1, <2>2, <2>4
<1>8. Raw!Plain!UpTo(off + k, w, s) = head \o tail
  BY DEF Raw!Plain!UpTo
<1> HIDE DEF head, tail
<1> DEFINE u == head \o tail
<1>9. /\ u \in Seq(Nat) /\ Len(u) = off + k + Len(tail)
      /\ \A i \in 1..(off + k + Len(tail)) :
           u[i] = IF i <= off + k THEN head[i] ELSE tail[i - (off + k)]
  <2>1. /\ u \in Seq(Nat) /\ Len(u) = Len(head) + Len(tail)
        /\ \A i \in 1..(Len(head) + Len(tail)) :
             u[i] = IF i <= Len(head) THEN head[i] ELSE tail[i - Len(head)]
    BY <1>6, <1>7, ConcatProperties
  <2> QED
    BY <1>6, <2>1
<1> HIDE DEF u
<1>10. Len(o) = Len(u)
  <2>1. /\ Len(o) = IF Len(s) < off + k THEN off + k ELSE Len(s)
        /\ Len(u) = off + k + Len(tail)
    BY <1>2, <1>3, <1>9
  <2>2. Len(tail) = IF off + k + 1 <= Len(s) THEN Len(s) - (off + k) ELSE 0
    BY <1>7
  <2> DEFINE e == off + k
             z == Len(s)
  <2>3. e \in Nat /\ z \in Nat /\ Len(u) = e + Len(tail)
    BY <1>1, <2>1
  <2>4. Len(o) = IF z < e THEN e ELSE z
    BY <2>1
  <2>5. Len(tail) = IF e + 1 <= z THEN z - e ELSE 0
    BY <2>2
  <2> HIDE DEF e, z
  <2>6. CASE e + 1 <= z
    <3>1. Len(tail) = z - e /\ Len(o) = z
      BY <2>3, <2>4, <2>5, <2>6
    <3> QED
      BY <2>3, <3>1
  <2>7. CASE ~(e + 1 <= z)
    <3>1. Len(tail) = 0 /\ Len(o) = e
      BY <2>3, <2>4, <2>5, <2>7
    <3> QED
      BY <2>3, <3>1
  <2> QED
    BY <2>6, <2>7
<1>11. ASSUME NEW i \in 1..Len(o)
       PROVE  o[i] = u[i]
  <2>1. CASE i <= off
    <3>1. i \in 1..(off + k) /\ i \in 1..Len(w)
      BY <1>1, <1>5, <2>1
    <3>2. u[i] = w[i]
      <4>1. i \in 1..(off + k + Len(tail)) /\ i <= off + k
        BY <1>9, <1>10, <3>1
      <4>2. u[i] = head[i]
        BY <1>9, <4>1
      <4> QED
        BY <1>6, <3>1, <4>2
    <3>3. w[i] = IF i <= Len(s) THEN s[i] ELSE 0
      BY <1>4, <2>1, <3>1
    <3>4. o[i] = IF i <= Len(s) THEN s[i] ELSE 0
      BY <1>3, <2>1
    <3> QED
      BY <3>2, <3>3, <3>4
  <2>2. CASE off < i /\ i <= off + k
    <3>1. i - off \in 1..k /\ i \in 1..Len(w) /\ i <= off + Len(d) /\ i \in 1..(off + k)
      BY <1>1, <1>5, <2>2
    <3>2. o[i] = d[i - off]
      BY <1>2, <1>3, <2>2, <3>1
    <3>3. w[i] = d[i - off]
      BY <1>4, <2>2, <3>1
    <3>4. u[i] = w[i]
      BY <1>6, <1>9, <1>10, <2>2, <3>1
    <3> QED
      BY <3>2, <3>3, <3>4
  <2>3. CASE off + k < i
    <3> DEFINE j == i - (off + k)
    <3>1. off + k + 1 <= Len(s) /\ Len(o) = Len(s)
      BY <1>1, <1>2, <1>3, <2>3
    <3>2. j \in 1..Len(tail) /\ off + k + j = i /\ i <= Len(s)
      BY <1>1, <1>7, <2>3, <3>1
    <3>3. u[i] = tail[j]
      BY <1>1, <1>9, <1>10, <2>3
    <3>4. tail[j] = s[i]
      BY <1>7, <3>2
    <3>5. o[i] = s[i]
      BY <1>1, <1>2, <1>3, <2>3, <3>2
    <3> QED
      BY <3>3, <3>4, <3>5
  <2> QED
    BY <1>1, <1>5, <2>1, <2>2, <2>3
<1>12. o = u
  BY <1>3, <1>9, <1>10, <1>11, SeqEqual
<1> QED
  BY <1>8, <1>12 DEF o, u, w, part

\* What the layer above sees returned: the size asked for is no call of PlainFile.
Seen == IF rRet.call = <<"size">> THEN Raw!Ok(Raw!NoCall) ELSE rRet

\* The record of a getSize is that of no other call.
LEMMA CallsDiffer ==
    ASSUME NEW off, NEW x
    PROVE  /\ <<"read", off, x>> # <<"size">>
           /\ <<"write", off, x>> # <<"size">>
           /\ <<"truncate", x>> # <<"size">>
           /\ Raw!NoCall # <<"size">>
<1>1. <<"size">>[1] = "size"
  OBVIOUS
<1>2. <<"read", off, x>>[1] = "read" /\ <<"write", off, x>>[1] = "write"
  OBVIOUS
<1>3. <<"truncate", x>>[1] = "truncate" /\ Raw!NoCall[1] = "none"
  BY DEF Raw!NoCall
<1> QED
  BY <1>1, <1>2, <1>3

\* Calls that return no bytes and change none.
LEMMA OtherIsOther ==
    ASSUME rRet' = Raw!Ok(Raw!NoCall), UNCHANGED rContent
    PROVE  Raw!Plain!Other
<1>1. rRet'.call = Raw!NoCall
  BY DEF Raw!Ok, Raw!Gave
<1>2. Seen' = Raw!Ok(Raw!NoCall)
  BY <1>1, CallsDiffer DEF Seen
<1> QED
  BY <1>2 DEF Seen, Raw!Plain!Other, Raw!Plain!Ok, Raw!Plain!Gave, Raw!Plain!NoCall,
              Raw!Ok, Raw!Gave, Raw!NoCall

\* getSize, as the layer above sees it.
LEMMA SizeIsOther ==
    ASSUME Raw!GetSize PROVE Raw!Plain!Other
<1>1. rRet'.call = <<"size">> /\ UNCHANGED rContent
  BY DEF Raw!GetSize, Raw!Gave, Raw!Failed
<1> QED
  BY <1>1 DEF Raw!Plain!Other, Raw!Plain!Ok, Raw!Plain!Gave, Raw!Plain!NoCall,
              Raw!Ok, Raw!Gave, Raw!NoCall

\* read, as the layer above sees it.
LEMMA ReadIsRead ==
    ASSUME Raw!Read
    PROVE  \E off \in 0..LayerSize, n \in LayerSizes : Raw!Plain!Read(off, n)
<1>1. PICK off \in 0..LayerSize, n \in LayerSizes :
        \/ rRet' = Raw!Gave(<<"read", off, n>>,
                          SubSeq(rContent, off + 1, Raw!Least(off + n, Len(rContent))))
        \/ rRet' = Raw!Failed(<<"read", off, n>>)
  BY DEF Raw!Read
<1>2. UNCHANGED rContent
  BY DEF Raw!Read
<1>3. rRet'.call = <<"read", off, n>>
  BY <1>1 DEF Raw!Gave, Raw!Failed
<1>4. Seen' = rRet'
  BY <1>3, CallsDiffer DEF Seen
<1>5. Raw!Plain!Read(off, n)
  BY <1>1, <1>2, <1>4, SameFile
     DEF Seen, Raw!Plain!Read, Raw!Gave, Raw!Failed, Raw!Plain!Gave, Raw!Plain!Failed,
         Raw!Ok, Raw!NoCall
<1> QED
  BY <1>5

\* write, as the layer above sees it: what was written before it failed stays.
LEMMA WriteIsWrite ==
    ASSUME RawInv, Raw!Write
    PROVE  \E off \in 0..LayerSize, data \in Data : Raw!Plain!Write(off, data)
<1>1. PICK off \in 0..LayerSize, data \in Data :
        \E r \in Raw!Rounds(Len(data)) :
          /\ rContent' = IF r.done = 0 THEN rContent
                         ELSE Raw!Overlay(rContent, off, SubSeq(data, 1, r.done))
          /\ rRet' = IF r.failed THEN Raw!Failed(<<"write", off, data>>)
                     ELSE Raw!Ok(<<"write", off, data>>)
  BY DEF Raw!Write
<1>2. PICK r \in Raw!Rounds(Len(data)) :
        /\ rContent' = IF r.done = 0 THEN rContent
                       ELSE Raw!Overlay(rContent, off, SubSeq(data, 1, r.done))
        /\ rRet' = IF r.failed THEN Raw!Failed(<<"write", off, data>>)
                   ELSE Raw!Ok(<<"write", off, data>>)
  BY <1>1
<1>3. /\ data \in Seq(Nat) /\ Len(data) \in Nat \ {0} /\ off \in Nat
      /\ rContent \in Seq(Nat)
  BY BlockAssumption, EmptySeq DEF RawInv, Raw!TypeOK
<1>4. rRet'.call = <<"write", off, data>>
  BY <1>2 DEF Raw!Gave, Raw!Ok, Raw!Failed
<1>5. Seen' = rRet'
  BY <1>4, CallsDiffer DEF Seen
<1>6. CASE r = [done |-> Len(data), failed |-> FALSE]
  <2>1. SubSeq(data, 1, Len(data)) = data
    BY <1>3, SubSeqFull
  <2>2. rContent' = Raw!Overlay(rContent, off, data)
    BY <1>2, <1>3, <1>6, <2>1
  <2>3. rRet' = Raw!Ok(<<"write", off, data>>)
    BY <1>2, <1>6
  <2> QED
    BY <1>5, <2>2, <2>3, SameFile
       DEF Seen, Raw!Plain!Write, Raw!Gave, Raw!Ok, Raw!Plain!Gave, Raw!Plain!Ok, Raw!NoCall
<1>7. CASE r \in [done : 0..(Len(data) - 1), failed : {TRUE}]
  <2>1. r.done \in 0..(Len(data) - 1) /\ r.failed = TRUE
    BY <1>7
  <2>2. rRet' = Raw!Failed(<<"write", off, data>>)
    BY <1>2, <2>1
  <2>3. \E n \in 0..(off + Len(data)) :
          rContent' = Raw!Plain!UpTo(n, Raw!Overlay(rContent, off, data), rContent)
    <3>1. CASE r.done = 0
      <4> DEFINE w == Raw!Overlay(rContent, off, data)
      <4>1. SubSeq(w, 1, 0) = <<>>
        BY SubSeqEmpty
      <4>2. SubSeq(rContent, 1, Len(rContent)) = rContent
        BY <1>3, SubSeqFull
      <4>3. Raw!Plain!UpTo(0, w, rContent) = rContent
        BY <1>3, <4>1, <4>2, ConcatEmptySeq DEF Raw!Plain!UpTo
      <4>4. rContent' = rContent
        BY <1>2, <3>1
      <4> QED
        BY <1>3, <4>3, <4>4
    <3>2. CASE r.done # 0
      <4> DEFINE k == r.done
      <4>1. k \in 1..Len(data) /\ off + k \in 0..(off + Len(data))
        BY <1>3, <2>1, <3>2
      <4>2. rContent' = Raw!Overlay(rContent, off, SubSeq(data, 1, k))
        BY <1>2, <3>2
      <4> HIDE DEF k
      <4>3. rContent' = Raw!Plain!UpTo(off + k, Raw!Overlay(rContent, off, data), rContent)
        BY <1>3, <4>1, <4>2, PartlyWritten
      <4> QED
        BY <4>1, <4>3
    <3> QED
      BY <3>1, <3>2
  <2> QED
    BY <1>5, <2>2, <2>3, SameFile
       DEF Seen, Raw!Plain!Write, Raw!Failed, Raw!Plain!Failed, Raw!Ok, Raw!Gave, Raw!NoCall
<1> QED
  BY <1>6, <1>7 DEF Raw!Rounds

\* truncate, as the layer above sees it.
LEMMA TruncateIsTruncate ==
    ASSUME Raw!Truncate
    PROVE  \E n \in 0..LayerSize : Raw!Plain!Truncate(n)
<1>1. PICK n \in 0..LayerSize :
        \/ rContent' = Raw!Resize(rContent, n) /\ rRet' = Raw!Ok(<<"truncate", n>>)
        \/ UNCHANGED rContent /\ rRet' = Raw!Failed(<<"truncate", n>>)
  BY DEF Raw!Truncate
<1>2. rRet'.call = <<"truncate", n>>
  BY <1>1 DEF Raw!Gave, Raw!Ok, Raw!Failed
<1>3. Seen' = rRet'
  BY <1>2, CallsDiffer DEF Seen
<1>4. Raw!Plain!Truncate(n)
  BY <1>1, <1>3, SameFile
     DEF Seen, Raw!Plain!Truncate, Raw!Gave, Raw!Ok, Raw!Failed, Raw!Plain!Gave,
         Raw!Plain!Ok, Raw!Plain!Failed, Raw!NoCall
<1> QED
  BY <1>4

\* To the layer above, the raw file is a plain file, whatever becomes of its
\* descriptors, its permission and the size it remembers: a write that fails has
\* done its first bytes and nothing else (RawFileIO.cpp:231-330).
THEOREM RawIsPlain == MCSpec => Raw!IsPlainFile
<1>1. MCInit => Raw!Plain!Init
  <2> SUFFICES ASSUME MCInit PROVE Raw!Plain!Init
    OBVIOUS
  <2>1. rContent = <<>> /\ rRet = Raw!Ok(Raw!NoCall)
    BY DEF MCInit, Raw!Init
  <2>2. rRet.call # <<"size">>
    BY <2>1, CallsDiffer DEF Raw!Ok, Raw!Gave
  <2> QED
    BY <2>1, <2>2 DEF Raw!Plain!Init, Raw!Plain!Ok, Raw!Plain!Gave, Raw!Plain!NoCall,
                      Raw!Ok, Raw!Gave, Raw!NoCall
<1>2. RawInv /\ [MCNext]_<<layer, vars, macVars, rawVars>> => [Raw!Plain!Next]_Raw!Plain!vars
  <2> SUFFICES ASSUME RawInv, [Raw!Next]_rawVars
               PROVE  [Raw!Plain!Next]_Raw!Plain!vars
    BY RawSteps
  <2>1. CASE \/ \E flags \in Raw!Access : Raw!OpenCall(flags)
             \/ Raw!WorkaroundGrant \/ Raw!WorkaroundOpen \/ Raw!Chmod \/ Raw!Destroy
             \/ Raw!Ended
    <3>1. rRet' = Raw!Ok(Raw!NoCall) /\ UNCHANGED rContent
      BY <2>1 DEF Raw!OpenCall, Raw!WorkaroundGrant, Raw!WorkaroundOpen, Raw!Chmod,
                  Raw!Destroy, Raw!Ended
    <3> QED
      BY <3>1, OtherIsOther DEF Raw!Plain!Next
  <2>2. CASE Raw!GetSize
    BY <2>2, SizeIsOther DEF Raw!Plain!Next
  <2>3. CASE Raw!Read
    BY <2>3, ReadIsRead DEF Raw!Plain!Next
  <2>4. CASE Raw!Write
    BY <2>4, WriteIsWrite DEF Raw!Plain!Next
  <2>5. CASE Raw!Truncate
    BY <2>5, TruncateIsTruncate DEF Raw!Plain!Next
  <2>6. ~Raw!Elsewhere
    BY DEF Raw!Elsewhere
  <2>7. CASE UNCHANGED rawVars
    BY <2>7 DEF rawVars, Raw!Plain!vars, Raw!Ok, Raw!Gave, Raw!NoCall
  <2> QED
    BY <2>1, <2>2, <2>3, <2>4, <2>5, <2>6, <2>7 DEF Raw!Next
<1> QED
  BY <1>1, <1>2, RawInvariant, PTL DEF MCSpec, Raw!IsPlainFile, Raw!Plain!Spec

----------------------------------------------------------------------------
(* Loops: the rounds of BlockIO's loops as chains of states.               *)

\* A set of numbers that is not empty has a least one.
LEMMA LeastNumber ==
    ASSUME NEW T, T \subseteq Nat, T # {}
    PROVE  \E x \in T : \A y \in T : x <= y
<1> DEFINE R == OpToRel(<, Nat)
<1>1. IsWellFoundedOn(R, Nat)
  BY NatLessThanWellFounded
<1> HIDE DEF R
<1>2. PICK x \in T : \A y \in T : ~(<<y, x>> \in R)
  BY <1>1, WFMin
<1>3. ASSUME NEW y \in T PROVE x <= y
  <2>1. ~(y < x)
    BY <1>2 DEF OpToRel, R
  <2> QED
    BY <2>1
<1> QED
  BY <1>3

\* Induction up to n, over a set of numbers.
LEMMA UpTo ==
    ASSUME NEW n \in Nat, NEW K, 0 \in K, \A k \in 1..n : k - 1 \in K => k \in K
    PROVE  n \in K
<1> DEFINE T == {k \in 0..n : k \notin K}
<1>1. SUFFICES ASSUME T # {} PROVE FALSE
  OBVIOUS
<1>2. T \subseteq Nat
  OBVIOUS
<1>3. PICK k \in T : \A j \in T : k <= j
  <2> HIDE DEF T
  <2> QED
    BY <1>1, <1>2, LeastNumber
<1>4. k \in 1..n
  OBVIOUS
<1>5. k - 1 \in 0..n /\ k - 1 \notin T
  BY <1>3, <1>4
<1> QED
  BY <1>4, <1>5

\* One round of a loop, and the states after 0, 1, ... n rounds of it.
Round(loop, s) ==
    IF loop = "read" THEN IO!ReadRound(s)
    ELSE IF loop = "write" THEN IO!WriteRound(s) ELSE IO!PadRound(s)

IsChain(g, loop, start, n) ==
    g = [k \in 0..n |-> IF k = 0 THEN start ELSE Round(loop, g[k - 1])]

\* The states after every number of rounds up to n.
LEMMA ChainThere ==
    ASSUME NEW loop, NEW start, NEW n \in Nat
    PROVE  \E g : IsChain(g, loop, start, n)
<1> DEFINE Chain(g, m) == g = [k \in 0..m |-> IF k = 0 THEN start ELSE Round(loop, g[k - 1])]
           T == {m \in 0..n : ~ \E g : Chain(g, m)}
<1> SUFFICES ASSUME T # {} PROVE FALSE
  <2>1. n \notin T => \E g : Chain(g, n)
    <3> HIDE DEF Chain
    <3> QED
      OBVIOUS
  <2> QED
    BY <2>1 DEF IsChain
<1>1. PICK m \in T : \A y \in T : m <= y
  <2>1. T \subseteq Nat
    OBVIOUS
  <2> HIDE DEF T
  <2> QED
    BY <2>1, LeastNumber
<1>2. CASE m = 0
  <2> DEFINE g == [k \in 0..0 |-> start]
  <2>1. Chain(g, 0)
    OBVIOUS
  <2> HIDE DEF g, Chain
  <2> QED
    BY <1>2, <2>1
<1>3. CASE m # 0
  <2>1. m - 1 \in 0..n /\ m - 1 \notin T
    BY <1>1, <1>3
  <2>2. PICK f : Chain(f, m - 1)
    BY <2>1
  <2> DEFINE g == [k \in 0..m |-> IF k = m THEN Round(loop, f[m - 1]) ELSE f[k]]
  <2>3. \A k \in 0..m : g[k] = IF k = 0 THEN start ELSE Round(loop, g[k - 1])
    <3> SUFFICES ASSUME NEW k \in 0..m PROVE g[k] = IF k = 0 THEN start ELSE Round(loop, g[k - 1])
      OBVIOUS
    <3>1. CASE k = m
      BY <1>3, <3>1
    <3>2. CASE k # m
      <4>1. k \in 0..(m - 1) /\ (k # 0 => k - 1 \in 0..(m - 1) /\ k - 1 # m)
        BY <3>2
      <4>2. f[k] = IF k = 0 THEN start ELSE Round(loop, f[k - 1])
        BY <2>2, <4>1
      <4> QED
        BY <3>2, <4>1, <4>2
    <3> QED
      BY <3>1, <3>2
  <2>4. Chain(g, m)
    BY <2>3
  <2> HIDE DEF g, Chain
  <2> QED
    BY <2>4
<1> QED
  BY <1>2, <1>3

\* What every round of a read keeps holds after all of them; so it does
LEMMA ReadRounds ==
    ASSUME NEW start, NEW n \in Nat
    PROVE  \E g : /\ g[0] = start
                  /\ \A k \in 1..n : g[k] = IO!ReadRound(g[k - 1])
                  /\ IO!Rounds(IO!ReadRound, start, n) = g[n]
<1> DEFINE after == CHOOSE g : g = [k \in 0..n |-> IF k = 0 THEN start ELSE IO!ReadRound(g[k - 1])]
<1>1. PICK g : IsChain(g, "read", start, n)
  BY ChainThere
<1>2. \A s : Round("read", s) = IO!ReadRound(s)
  BY DEF Round
<1>3. g = [k \in 0..n |-> IF k = 0 THEN start ELSE IO!ReadRound(g[k - 1])]
  BY <1>1, <1>2 DEF IsChain
<1>4. after = [k \in 0..n |-> IF k = 0 THEN start ELSE IO!ReadRound(after[k - 1])]
  BY <1>3
<1>5. IO!Rounds(IO!ReadRound, start, n) = after[n]
  BY DEF IO!Rounds
<1> HIDE DEF after
<1>6. after[0] = start /\ \A k \in 1..n : after[k] = IO!ReadRound(after[k - 1])
  BY <1>4
<1> QED
  BY <1>5, <1>6

\* of a write,
LEMMA WriteRounds ==
    ASSUME NEW start, NEW n \in Nat
    PROVE  \E g : /\ g[0] = start
                  /\ \A k \in 1..n : g[k] = IO!WriteRound(g[k - 1])
                  /\ IO!Rounds(IO!WriteRound, start, n) = g[n]
<1> DEFINE after == CHOOSE g : g = [k \in 0..n |-> IF k = 0 THEN start ELSE IO!WriteRound(g[k - 1])]
<1>1. PICK g : IsChain(g, "write", start, n)
  BY ChainThere
<1>2. \A s : Round("write", s) = IO!WriteRound(s)
  BY DEF Round
<1>3. g = [k \in 0..n |-> IF k = 0 THEN start ELSE IO!WriteRound(g[k - 1])]
  BY <1>1, <1>2 DEF IsChain
<1>4. after = [k \in 0..n |-> IF k = 0 THEN start ELSE IO!WriteRound(after[k - 1])]
  BY <1>3
<1>5. IO!Rounds(IO!WriteRound, start, n) = after[n]
  BY DEF IO!Rounds
<1> HIDE DEF after
<1>6. after[0] = start /\ \A k \in 1..n : after[k] = IO!WriteRound(after[k - 1])
  BY <1>4
<1> QED
  BY <1>5, <1>6

\* and of the padding of whole blocks.
LEMMA PadRounds ==
    ASSUME NEW start, NEW n \in Nat
    PROVE  \E g : /\ g[0] = start
                  /\ \A k \in 1..n : g[k] = IO!PadRound(g[k - 1])
                  /\ IO!Rounds(IO!PadRound, start, n) = g[n]
<1> DEFINE after == CHOOSE g : g = [k \in 0..n |-> IF k = 0 THEN start ELSE IO!PadRound(g[k - 1])]
<1>1. PICK g : IsChain(g, "pad", start, n)
  BY ChainThere
<1>2. \A s : Round("pad", s) = IO!PadRound(s)
  BY DEF Round
<1>3. g = [k \in 0..n |-> IF k = 0 THEN start ELSE IO!PadRound(g[k - 1])]
  BY <1>1, <1>2 DEF IsChain
<1>4. after = [k \in 0..n |-> IF k = 0 THEN start ELSE IO!PadRound(after[k - 1])]
  BY <1>3
<1>5. IO!Rounds(IO!PadRound, start, n) = after[n]
  BY DEF IO!Rounds
<1> HIDE DEF after
<1>6. after[0] = start /\ \A k \in 1..n : after[k] = IO!PadRound(after[k - 1])
  BY <1>4
<1> QED
  BY <1>5, <1>6

----------------------------------------------------------------------------
(* Encoded blocks.                                                         *)

\* The IV the blocks on disk are encoded with.
BlockIV == IF volume.header THEN FileIV ELSE Unknown
IVs == {Unknown, FileIV}
HeaderOf(ext) == [iv |-> FileIV, ext |-> ext]

Cell == [blk : Nat, iv : IVs, plain : Seq(Int), at : Nat]
FileSet ==
    [raw : Seq(Cell), hdr : {NoHdr} \cup [iv : {FileIV}, ext : Exts], iv : IVs, ext : Exts,
     cblk : Nat, cdata : Seq(Int), ok : BOOLEAN, threw : {FALSE}, uncut : BOOLEAN,
     left : Nat, reads : Nat, cuts : BOOLEAN]

\* The bytes of a block on disk, and what they decode to.
Part(f, b) == SubSeq(f.raw, b * BS + 1, Least(b * BS + BS, Len(f.raw)))
Block(f, b) == Decode(Part(f, b), b, BlockIV)

\* A sequence that repeats one element.
LEMMA FilledIs ==
    ASSUME NEW S, NEW x \in S, NEW n \in Nat
    PROVE  LET s == [i \in 1..n |-> x]
           IN s \in Seq(S) /\ Len(s) = n /\ \A i \in 1..n : s[i] = x
<1> DEFINE s == [i \in 1..n |-> x]
<1>1. s \in [1..n -> S]
  OBVIOUS
<1>2. s \in Seq(S)
  BY <1>1, SeqDef
<1>3. Len(s) = n
  BY <1>1, <1>2, LenProperties
<1> QED
  BY <1>2, <1>3

\* What a buffer is encoded to.
LEMMA CellsAre ==
    ASSUME NEW b \in Nat, NEW iv \in IVs, NEW p \in Seq(Int)
    PROVE  /\ Cells(b, iv, p) \in Seq(Cell) /\ Len(Cells(b, iv, p)) = Len(p)
           /\ \A i \in 1..Len(p) :
                Cells(b, iv, p)[i] = [blk |-> b, iv |-> iv, plain |-> p, at |-> i]
<1> DEFINE c == [i \in 1..Len(p) |-> [blk |-> b, iv |-> iv, plain |-> p, at |-> i]]
<1>1. Len(p) \in Nat
  BY LenProperties
<1>2. c \in [1..Len(p) -> Cell]
  BY <1>1 DEF Cell
<1>3. c \in Seq(Cell)
  BY <1>1, <1>2, SeqDef
<1>4. Len(c) = Len(p)
  BY <1>1, <1>2, <1>3, LenProperties
<1> QED
  BY <1>3, <1>4 DEF Cells

\* The bytes of a hole.
LEMMA HolesAre ==
    ASSUME NEW n \in Nat
    PROVE  Holes(n) \in Seq(Cell) /\ Len(Holes(n)) = n /\ \A i \in 1..n : Holes(n)[i] = Hole
<1>1. Hole \in Cell
  BY EmptySeq DEF Hole, Cell, IVs, Unknown
<1> QED
  BY <1>1, FilledIs DEF Holes

\* What was encoded decodes to itself at its block and with its IV.
LEMMA DecodesBack ==
    ASSUME NEW b \in Nat, NEW iv \in IVs, NEW p \in Seq(Int), p # <<>>
    PROVE  Decode(Cells(b, iv, p), b, iv) = p
<1>1. 1 \in 1..Len(p)
  BY EmptySeq
<1>2. Cells(b, iv, p)[1] = [blk |-> b, iv |-> iv, plain |-> p, at |-> 1]
  BY <1>1, CellsAre
<1> QED
  BY <1>2 DEF Decode

\* Whatever is decoded, as many bytes come back as there were.
LEMMA DecodedIs ==
    ASSUME NEW c \in Seq(Cell), c # <<>>, NEW b \in Nat
    PROVE  Decode(c, b, BlockIV) \in Seq(Int) /\ Len(Decode(c, b, BlockIV)) = Len(c)
<1>0. BlockIV \in IVs /\ Len(c) \in Nat \ {0}
  BY EmptySeq DEF BlockIV, IVs
<1>1. CASE c = Cells(b, BlockIV, c[1].plain)
  <2>1. c[1] \in Cell
    BY <1>0, ElementOfSeq
  <2>2. c[1].plain \in Seq(Int)
    BY <2>1 DEF Cell
  <2>3. Len(c) = Len(c[1].plain)
    BY <1>0, <1>1, <2>2, CellsAre
  <2> QED
    BY <1>1, <2>2, <2>3 DEF Decode
<1>2. CASE c # Cells(b, BlockIV, c[1].plain) /\ volume.holes /\ c = Holes(BS)
  <2>1. Len(c) = BS
    BY <1>2, HolesAre, BlockAssumption
  <2>2. Zeros(BS) \in Seq(Int) /\ Len(Zeros(BS)) = BS
    BY FilledIs, BlockAssumption DEF Zeros
  <2> QED
    BY <1>2, <2>1, <2>2 DEF Decode
<1>3. CASE c # Cells(b, BlockIV, c[1].plain) /\ ~(volume.holes /\ c = Holes(BS))
  <2> DEFINE g == [i \in 1..Len(c) |-> Garbage]
  <2>1. g \in Seq(Int) /\ Len(g) = Len(c)
    BY <1>0, FilledIs DEF Garbage
  <2>2. Decode(c, b, BlockIV) = g
    BY <1>3 DEF Decode
  <2> QED
    BY <2>1, <2>2
<1> QED
  BY <1>1, <1>2, <1>3

\* The bytes a raw file has in a block.
LEMMA PartOf ==
    ASSUME NEW f, f.raw \in Seq(Cell), NEW b \in Nat
    PROVE  /\ b * BS \in Nat /\ Len(f.raw) \in Nat
           /\ Part(f, b) \in Seq(Cell)
           /\ Len(Part(f, b)) = (IF Len(f.raw) <= b * BS THEN 0
                                 ELSE Least(BS, Len(f.raw) - b * BS))
           /\ \A i \in 1..Len(Part(f, b)) : Part(f, b)[i] = f.raw[b * BS + i]
<1> DEFINE at == b * BS
           n == Least(at + BS, Len(f.raw))
           p == SubSeq(f.raw, at + 1, n)
<1>1. at \in Nat /\ Len(f.raw) \in Nat /\ BS \in Nat \ {0}
  BY BlockAssumption, LenProperties
<1> HIDE DEF at
<1>2. n \in Nat /\ n <= Len(f.raw) /\ n <= at + BS /\ (n = Len(f.raw) \/ n = at + BS)
  BY <1>1 DEF Least
<1> HIDE DEF n
<1>3. /\ p \in Seq(Cell) /\ Len(p) = (IF at + 1 <= n THEN n - (at + 1) + 1 ELSE 0)
      /\ \A i \in 1..Len(p) : p[i] = f.raw[at + 1 + i - 1]
  BY <1>1, <1>2, PartIs
<1>4. Len(p) = IF Len(f.raw) <= at THEN 0 ELSE Least(BS, Len(f.raw) - at)
  BY <1>1, <1>2, <1>3 DEF n, Least
<1>5. Part(f, b) = p
  BY DEF Part, n, at
<1> HIDE DEF p
<1>6. Len(p) \in Nat
  BY <1>3, LenProperties
<1>7. \A i \in 1..Len(p) : at + 1 + i - 1 = at + i
  BY <1>1, <1>6
<1> QED
  BY <1>1, <1>3, <1>4, <1>5, <1>7 DEF at

----------------------------------------------------------------------------
(* One block read or written.                                              *)

\* The node and the header agree: a header that is there is that of the node's path,
\* and until there is one nothing was written.
Matches(f) ==
    IF volume.header
      THEN f.hdr = HeaderOf(f.ext) \/ (f.hdr = NoHdr /\ f.raw = <<>> /\ f.iv = Unknown)
      ELSE f.hdr = NoHdr /\ f.iv = Unknown
Well(f) == f \in FileSet /\ Len(f.cdata) <= BS /\ Matches(f)

\* Enough raw reads and writes will succeed to read the header, if it has to be, or
\* to write it; and how many reads there are beside that.
Unread(f) == volume.header /\ f.iv = Unknown
Ready(f, r) == Unread(f) => IF f.hdr = NoHdr THEN f.left > 0 ELSE f.reads >= r
Budget(f) == f.reads - (IF Unread(f) /\ f.hdr # NoHdr THEN 1 ELSE 0)

\* The cache holds what is on disk, as far as there is something; with holes, it
\* holds nothing else.
Coherent(f) == f.cdata # <<>> /\ f.cblk * BS < Len(f.raw) => f.cdata = Block(f, f.cblk)
Within(f) == volume.holes /\ f.cdata # <<>> => f.cblk * BS < Len(f.raw)
Cached(f) == Coherent(f) /\ Within(f)

\* Of g all but the header, the IV and what was used up is as in f.
Beside(f, g) ==
    /\ g.raw = f.raw /\ g.ext = f.ext /\ g.uncut = f.uncut /\ g.cuts = f.cuts

USE DEF IVs, Unknown, FileIV

\* A header is not the sign that there is none.
LEMMA HeaderTyped ==
    ASSUME NEW ext \in Exts
    PROVE  HeaderOf(ext) \in [iv : {FileIV}, ext : Exts] /\ HeaderOf(ext) # NoHdr
BY BlockAssumption DEF HeaderOf

\* initHeader (CipherFileIO.cpp:179-236): after it the node knows the IV, and the header
\* is there and its own.
LEMMA NeedHeaderIs ==
    ASSUME NEW f, Well(f), Ready(f, 1)
    PROVE  LET g == NeedHeader(f)
           IN /\ Well(g) /\ ~Unread(g) /\ Beside(f, g)
              /\ g.iv = BlockIV /\ (volume.header => g.hdr = HeaderOf(f.ext))
              /\ g.cblk = f.cblk /\ g.cdata = f.cdata /\ g.ok = f.ok
              /\ g.left <= f.left /\ (f.hdr # NoHdr => g.left = f.left)
              /\ Budget(g) = Budget(f)
<1> DEFINE g == NeedHeader(f)
<1>1. /\ f \in FileSet /\ f.ext \in Exts /\ Matches(f) /\ Len(f.cdata) <= BS
      /\ f.left \in Nat /\ f.reads \in Nat
  BY DEF Well, FileSet
<1>2. /\ HeaderOf(f.ext) \in [iv : {FileIV}, ext : Exts] /\ HeaderOf(f.ext) # NoHdr
      /\ HeaderOf(f.ext).iv = FileIV /\ HeaderOf(f.ext).ext = f.ext
  BY <1>1, HeaderTyped DEF HeaderOf
<1>3. CASE ~Unread(f)
  <2>1. g = f
    BY <1>3 DEF NeedHeader, Unread
  <2>2. f.iv = BlockIV /\ (volume.header => f.hdr = HeaderOf(f.ext))
    BY <1>1, <1>3 DEF Unread, Matches, BlockIV, FileSet
  <2> QED
    BY <1>1, <1>3, <2>1, <2>2 DEF Well, Beside
<1>4. CASE Unread(f) /\ f.hdr # NoHdr
  <2>1. f.hdr = HeaderOf(f.ext) /\ f.reads >= 1
    BY <1>1, <1>4 DEF Matches, Ready, Unread
  <2>2. HeaderIV(f) = FileIV
    BY <1>1, <1>2, <2>1 DEF HeaderIV
  <2>3. Most(f.reads - 1, 0) = f.reads - 1 /\ f.reads - 1 \in Nat
    BY <1>1, <2>1 DEF Most
  <2>4. g = [f EXCEPT !.iv = FileIV, !.reads = f.reads - 1]
    BY <1>4, <2>2, <2>3 DEF NeedHeader, Unread, InitHeader, FileSet, Well
  <2> HIDE DEF g
  <2>5. /\ g \in FileSet /\ g.iv = FileIV /\ g.reads = f.reads - 1 /\ g.hdr = f.hdr
        /\ g.left = f.left /\ g.cblk = f.cblk /\ g.cdata = f.cdata /\ g.ok = f.ok
        /\ g.raw = f.raw /\ g.ext = f.ext /\ g.uncut = f.uncut /\ g.cuts = f.cuts
    BY <1>1, <2>3, <2>4 DEF FileSet
  <2> QED
    BY <1>1, <1>2, <1>4, <2>1, <2>5 DEF Well, Matches, Unread, Beside, Budget, BlockIV, g
<1>5. CASE Unread(f) /\ f.hdr = NoHdr
  <2>1. f.raw = <<>> /\ f.left > 0
    BY <1>1, <1>2, <1>5 DEF Matches, Ready, Unread
  <2>2. g = [f EXCEPT !.iv = FileIV, !.left = f.left - 1, !.hdr = HeaderOf(f.ext)]
    BY <1>1, <1>5, <2>1 DEF NeedHeader, Unread, InitHeader, HeaderOf, FileSet
  <2> HIDE DEF g
  <2> DEFINE left == f.left - 1
             h == HeaderOf(f.ext)
  <2>a. /\ left \in Nat /\ h \in {NoHdr} \cup [iv : {FileIV}, ext : Exts] /\ h # NoHdr
        /\ h = HeaderOf(f.ext) /\ left = f.left - 1
        /\ g = [f EXCEPT !.iv = FileIV, !.left = left, !.hdr = h]
    BY <1>1, <1>2, <2>1, <2>2
  <2> HIDE DEF left, h
  <2>3. /\ g \in FileSet /\ g.iv = FileIV /\ g.reads = f.reads /\ g.hdr = h
        /\ g.left = left /\ g.cblk = f.cblk /\ g.cdata = f.cdata /\ g.ok = f.ok
        /\ g.raw = f.raw /\ g.ext = f.ext /\ g.uncut = f.uncut /\ g.cuts = f.cuts
    BY <1>1, <2>a DEF FileSet
  <2> QED
    BY <1>1, <1>2, <1>5, <2>1, <2>a, <2>3 DEF Well, Matches, Unread, Beside, Budget, BlockIV, g
<1> QED
  BY <1>3, <1>4, <1>5

\* A raw block read: it is decoded as what is on disk, unless the read fails.
LEMMA ReadOneIs ==
    ASSUME NEW f, Well(f), Ready(f, 2), NEW b \in Nat
    PROVE  LET r == ReadOneBlock(f, b)
           IN /\ Well(r.f) /\ Beside(f, r.f)
              /\ r.f.cblk = f.cblk /\ r.f.cdata = f.cdata /\ r.f.ok = f.ok
              /\ r.f.left = f.left /\ Budget(r.f) >= Budget(f) - 1
              /\ Ready(r.f, 1) /\ (r.data # <<>> => ~Unread(r.f))
              /\ r.data = IF f.reads = 0 \/ Part(f, b) = <<>> THEN <<>> ELSE Block(f, b)
<1> DEFINE c == Part(f, b)
           r == ReadOneBlock(f, b)
           h == [f EXCEPT !.reads = f.reads - 1]
           g == NeedHeader(h)
<1>1. /\ f \in FileSet /\ f.reads \in Nat /\ f.left \in Nat /\ f.raw \in Seq(Cell)
      /\ Matches(f) /\ Len(f.cdata) <= BS
  BY DEF Well, FileSet
<1>2. /\ r = IF f.reads = 0 THEN [f |-> f, data |-> <<>>, failed |-> TRUE]
             ELSE IF c = <<>> THEN [f |-> h, data |-> <<>>, failed |-> FALSE]
             ELSE [f |-> g, data |-> Decode(c, b, g.iv), failed |-> FALSE]
  BY DEF ReadOneBlock, Part
<1>3. CASE f.reads = 0
  <2>1. r.f = f /\ r.data = <<>>
    BY <1>2, <1>3
  <2>2. Ready(f, 1)
    BY <1>1 DEF Ready
  <2> QED
    BY <1>1, <1>3, <2>1, <2>2 DEF Beside, Budget
<1>4. CASE f.reads # 0
  <2> DEFINE reads == f.reads - 1
  <2>a. reads \in Nat /\ reads = f.reads - 1 /\ h = [f EXCEPT !.reads = reads]
    BY <1>1, <1>4
  <2> HIDE DEF h, reads
  <2>0. /\ h \in FileSet /\ h.reads = reads /\ h.hdr = f.hdr /\ h.iv = f.iv
        /\ h.left = f.left /\ h.cblk = f.cblk /\ h.cdata = f.cdata /\ h.ok = f.ok
        /\ h.raw = f.raw /\ h.ext = f.ext /\ h.uncut = f.uncut /\ h.cuts = f.cuts
    BY <1>1, <2>a DEF FileSet
  <2>1. /\ h \in FileSet /\ h.reads = f.reads - 1 /\ h.hdr = f.hdr /\ h.iv = f.iv
        /\ h.left = f.left /\ h.cblk = f.cblk /\ h.cdata = f.cdata /\ h.ok = f.ok
        /\ h.raw = f.raw /\ h.ext = f.ext /\ h.uncut = f.uncut /\ h.cuts = f.cuts
    BY <2>a, <2>0
  <2>2. Well(h) /\ Ready(h, 1) /\ Budget(h) = Budget(f) - 1 /\ Beside(f, h)
    BY <1>1, <2>1 DEF Well, Matches, Ready, Unread, Budget, Beside
  <2>3. CASE c = <<>>
    BY <1>1, <1>2, <1>4, <2>1, <2>2, <2>3 DEF Budget
  <2>4. CASE c # <<>>
    <3>1. f.raw # <<>>
      BY <1>1, <2>4, PartOf, EmptySeq
    <3>2. volume.header => f.hdr # NoHdr
      BY <1>1, <3>1, HeaderTyped DEF Matches, FileSet
    <3>3. /\ Well(g) /\ ~Unread(g) /\ Beside(h, g) /\ g.iv = BlockIV
          /\ g.cblk = h.cblk /\ g.cdata = h.cdata /\ g.ok = h.ok
          /\ g.left <= h.left /\ (h.hdr # NoHdr => g.left = h.left) /\ Budget(g) = Budget(h)
      BY <2>2, NeedHeaderIs
    <3>4. ~volume.header => g = h
      BY DEF NeedHeader
    <3> HIDE DEF g
    <3>5. g.left = f.left
      BY <2>1, <3>2, <3>3, <3>4
    <3>6. r = [f |-> g, data |-> Decode(c, b, g.iv), failed |-> FALSE]
      BY <1>2, <1>4, <2>4
    <3>7. r.data = Block(f, b) /\ r.f = g
      BY <3>3, <3>6 DEF Block
    <3>8. Budget(g) = Budget(f) - 1 /\ Ready(g, 1) /\ Beside(f, g)
      BY <2>1, <2>2, <3>3 DEF Ready, Beside
    <3>9. Budget(f) - 1 \in Int
      BY <1>1 DEF Budget
    <3> QED
      BY <1>4, <2>1, <2>4, <3>3, <3>5, <3>7, <3>8, <3>9
  <2> QED
    BY <2>3, <2>4
<1> QED
  BY <1>1, <1>3, <1>4

\* A block whose bytes are those of one encoded buffer, up to the end of the block or
\* of the file, decodes to what was encoded.
LEMMA WrittenIs ==
    ASSUME NEW f, f.raw \in Seq(Cell), NEW b \in Nat,
           NEW d \in Seq(Int), d # <<>>, Len(d) <= BS,
           Len(d) = BS \/ Len(f.raw) = b * BS + Len(d),
           Len(f.raw) >= b * BS + Len(d),
           \A i \in 1..Len(d) : f.raw[b * BS + i] = Cells(b, BlockIV, d)[i]
    PROVE  Block(f, b) = d /\ b * BS < Len(f.raw)
<1> DEFINE c == Cells(b, BlockIV, d)
           p == Part(f, b)
           at == b * BS
<1>1. /\ BS \in Nat \ {0} /\ BlockIV \in IVs /\ Len(d) \in Nat \ {0}
      /\ c \in Seq(Cell) /\ Len(c) = Len(d)
  BY BlockAssumption, CellsAre, EmptySeq DEF BlockIV
<1>2. /\ at \in Nat /\ Len(f.raw) \in Nat /\ p \in Seq(Cell)
      /\ Len(p) = (IF Len(f.raw) <= at THEN 0 ELSE Least(BS, Len(f.raw) - at))
      /\ \A i \in 1..Len(p) : p[i] = f.raw[at + i]
  <2>1. f.raw \in Seq(Cell) /\ b \in Nat
    OBVIOUS
  <2> QED
    BY ONLY <2>1, PartOf
<1>3. Len(f.raw) >= at + Len(d) /\ (Len(d) = BS \/ Len(f.raw) = at + Len(d))
  OBVIOUS
<1>4. \A i \in 1..Len(d) : f.raw[at + i] = c[i]
  OBVIOUS
<1>5. Block(f, b) = Decode(p, b, BlockIV)
  BY DEF Block
<1>6. Decode(c, b, BlockIV) = d
  BY <1>1, DecodesBack
<1> HIDE DEF c, p, at
<1>7. Len(p) = Len(d)
  BY <1>1, <1>2, <1>3 DEF Least
<1>8. p = c
  BY <1>1, <1>2, <1>4, <1>7, SeqEqual
<1> QED
  BY <1>1, <1>2, <1>3, <1>5, <1>6, <1>8 DEF at

\* The first n of what is there.
LEMMA SomeIs ==
    ASSUME NEW s \in Seq(Int), NEW n \in Nat
    PROVE  LET some == SubSeq(s, 1, IO!Least(n, Len(s)))
           IN some \in Seq(Int) /\ Len(some) = Least(n, Len(s))
<1>1. Len(s) \in Nat
  BY LenProperties
<1> DEFINE m == IO!Least(n, Len(s))
<1>2. m \in Nat /\ m <= Len(s) /\ m = Least(n, Len(s))
  BY <1>1 DEF IO!Least, Least
<1> HIDE DEF m
<1>3. /\ SubSeq(s, 1, m) \in Seq(Int)
      /\ Len(SubSeq(s, 1, m)) = (IF 1 <= m THEN m - 1 + 1 ELSE 0)
  BY <1>1, <1>2, PartIs
<1>4. Len(SubSeq(s, 1, m)) = m
  BY <1>2, <1>3
<1> QED
  BY <1>2, <1>3, <1>4 DEF m

\* What is on disk in a block.
LEMMA BlockIs ==
    ASSUME NEW f, f.raw \in Seq(Cell), NEW b \in Nat, Part(f, b) # <<>>
    PROVE  /\ Block(f, b) \in Seq(Int) /\ Block(f, b) # <<>> /\ b * BS < Len(f.raw)
           /\ Len(Block(f, b)) = Len(Part(f, b)) /\ Len(Block(f, b)) <= BS
<1> DEFINE p == Part(f, b)
           at == b * BS
<1>1. /\ at \in Nat /\ Len(f.raw) \in Nat /\ p \in Seq(Cell)
      /\ Len(p) = (IF Len(f.raw) <= at THEN 0 ELSE Least(BS, Len(f.raw) - at))
  BY PartOf
<1>2. BS \in Nat \ {0}
  BY BlockAssumption
<1>3. Block(f, b) = Decode(p, b, BlockIV)
  BY DEF Block
<1>4. p # <<>> /\ Len(p) \in Nat \ {0}
  BY <1>1, EmptySeq, LenProperties
<1>5. Decode(p, b, BlockIV) \in Seq(Int) /\ Len(Decode(p, b, BlockIV)) = Len(p)
  BY <1>1, <1>4, DecodedIs
<1>6. at < Len(f.raw) /\ Len(p) <= BS
  <2> HIDE DEF p, at
  <2> QED
    BY <1>1, <1>2, <1>4 DEF Least
<1>7. Decode(p, b, BlockIV) # <<>>
  BY <1>4, <1>5, EmptySeq
<1> QED
  BY <1>3, <1>5, <1>6, <1>7

\* One block through the cache: what is cached comes from the disk, and as long as
\* reads succeed there is as much of it as was asked for and is there.
LEMMA CacheReadIs ==
    ASSUME NEW f, Well(f), Cached(f), Ready(f, 2), NEW b \in Nat, NEW n \in Nat, n <= BS
    PROVE  LET r == IO!CacheRead(f, b, n)
           IN /\ Well(r.f) /\ Cached(r.f) /\ r.f.raw = f.raw /\ r.f.cuts = f.cuts
              /\ Ready(r.f, 1) /\ (r.data # <<>> => Ready(r.f, 2))
              /\ Budget(r.f) >= Budget(f) - 1
              /\ r.data \in Seq(Int) /\ Len(r.data) <= n
              /\ Budget(f) >= 1 => Len(r.data) >= Least(n, Len(Part(f, b)))
<1> DEFINE Some(s) == SubSeq(s, 1, IO!Least(n, Len(s)))
           hit == f.cdata # <<>> /\ f.cblk = b
           h == [f EXCEPT !.cdata = <<>>]
           r == ReadOneBlock(h, b)
           g == [r.f EXCEPT !.cblk = b, !.cdata = r.data]
           p == Part(f, b)
<1>1. /\ f \in FileSet /\ f.threw = FALSE /\ f.cdata \in Seq(Int) /\ Len(f.cdata) <= BS
      /\ f.raw \in Seq(Cell) /\ f.reads \in Nat /\ Budget(f) \in Int /\ BS \in Nat \ {0}
  <2>1. f \in FileSet /\ Len(f.cdata) <= BS
    BY DEF Well
  <2>2. f.reads \in Nat /\ f.threw = FALSE /\ f.cdata \in Seq(Int) /\ f.raw \in Seq(Cell)
    BY <2>1 DEF FileSet
  <2>3. Budget(f) \in Int
    BY <2>2 DEF Budget
  <2> QED
    BY <2>1, <2>2, <2>3, BlockAssumption
<1>2. IO!CacheRead(f, b, n) =
        IF hit THEN [f |-> f, data |-> Some(f.cdata), failed |-> FALSE]
        ELSE IF r.data = <<>> THEN r
        ELSE [f |-> g, data |-> Some(r.data), failed |-> FALSE]
  BY <1>1 DEF IO!CacheRead
<1>3. p \in Seq(Cell) /\ Len(p) \in Nat
  BY <1>1, PartOf, LenProperties
<1>4. CASE hit
  <2>1. Some(f.cdata) \in Seq(Int) /\ Len(Some(f.cdata)) = Least(n, Len(f.cdata))
    BY <1>1, SomeIs
  <2>2. Len(f.cdata) >= Len(p)
    <3>1. CASE p = <<>>
      BY <1>1, <3>1, EmptySeq, LenProperties
    <3>2. CASE p # <<>>
      <4>1. b * BS < Len(f.raw) /\ Len(Block(f, b)) = Len(p)
        BY <1>1, <3>2, BlockIs
      <4> QED
        BY <1>3, <1>4, <4>1 DEF Cached, Coherent
    <3> QED
      BY <3>1, <3>2
  <2>3. Least(n, Len(f.cdata)) <= n /\ Least(n, Len(f.cdata)) >= Least(n, Len(p))
    BY <1>1, <1>3, <2>2, LenProperties DEF Least
  <2>4. /\ IO!CacheRead(f, b, n).f = f
        /\ IO!CacheRead(f, b, n).data = Some(f.cdata)
    <3>1. IO!CacheRead(f, b, n) = [f |-> f, data |-> Some(f.cdata), failed |-> FALSE]
      BY <1>2, <1>4
    <3> DEFINE q == IO!CacheRead(f, b, n)
    <3>2. q = [f |-> f, data |-> Some(f.cdata), failed |-> FALSE]
      BY <3>1
    <3> HIDE DEF q, Some
    <3>3. q.f = f /\ q.data = Some(f.cdata)
      BY <3>2
    <3> QED
      BY <3>3 DEF q
  <2>5. Ready(f, 1)
    BY <1>1 DEF Ready
  <2> HIDE DEF Some, hit, p
  <2> QED
    BY <1>1, <2>1, <2>3, <2>4, <2>5 DEF p
<1>5. ASSUME ~hit
      PROVE  /\ Well(r.f) /\ Ready(r.f, 1) /\ (r.data # <<>> => ~Unread(r.f))
             /\ r.f.cdata = <<>> /\ r.f.raw = f.raw /\ r.f.cuts = f.cuts
             /\ Budget(r.f) >= Budget(f) - 1
             /\ r.data = IF f.reads = 0 \/ p = <<>> THEN <<>> ELSE Block(f, b)
  <2>1. <<>> \in Seq(Int) /\ Len(<<>>) = 0
    BY EmptySeq
  <2>2. /\ h \in FileSet /\ h.cdata = <<>> /\ h.raw = f.raw /\ h.hdr = f.hdr /\ h.iv = f.iv
        /\ h.ext = f.ext /\ h.left = f.left /\ h.reads = f.reads /\ h.cuts = f.cuts
    BY <1>1, <2>1 DEF FileSet
  <2> HIDE DEF h
  <2>3. Well(h) /\ Ready(h, 2) /\ Budget(h) = Budget(f)
    BY <1>1, <2>1, <2>2 DEF Well, Matches, Ready, Unread, Budget
  <2>4. Part(h, b) = p /\ Block(h, b) = Block(f, b)
    BY <2>2 DEF Part, Block
  <2>5. /\ Well(r.f) /\ Beside(h, r.f) /\ r.f.cdata = h.cdata
        /\ Budget(r.f) >= Budget(h) - 1 /\ Ready(r.f, 1) /\ (r.data # <<>> => ~Unread(r.f))
        /\ r.data = IF h.reads = 0 \/ Part(h, b) = <<>> THEN <<>> ELSE Block(h, b)
    BY <2>3, ReadOneIs
  <2> QED
    BY <2>2, <2>3, <2>4, <2>5 DEF Beside
<1>6. CASE ~hit /\ r.data = <<>>
  <2>1. IO!CacheRead(f, b, n) = r
    BY <1>2, <1>6
  <2>2. Cached(r.f)
    BY <1>5, <1>6 DEF Cached, Coherent, Within
  <2>3. f.reads = 0 \/ p = <<>>
    BY <1>1, <1>5, <1>6, BlockIs
  <2>4. Budget(f) >= 1 => p = <<>>
    BY <1>1, <2>3 DEF Budget
  <2>5. <<>> \in Seq(Int) /\ Len(<<>>) = 0 /\ Len(<<>>) <= n
    BY <1>1, EmptySeq
  <2>6. Budget(f) >= 1 => Least(n, Len(p)) = 0
    BY <2>4, <2>5 DEF Least
  <2> HIDE DEF r, p, hit
  <2>7. Budget(f) >= 1 => Len(r.data) >= Least(n, Len(p))
    BY <1>6, <2>5, <2>6
  <2> QED
    BY <1>5, <1>6, <2>1, <2>2, <2>5, <2>7 DEF r, p
<1>7. CASE ~hit /\ r.data # <<>>
  <2>1. p # <<>> /\ r.data = Block(f, b)
    BY <1>5, <1>7
  <2>2. /\ r.data \in Seq(Int) /\ Len(r.data) = Len(p) /\ Len(r.data) <= BS
        /\ b * BS < Len(f.raw)
    BY <1>1, <2>1, BlockIs
  <2>3. Some(r.data) \in Seq(Int) /\ Len(Some(r.data)) = Least(n, Len(p))
    BY <2>2, SomeIs
  <2>4. Least(n, Len(p)) <= n
    BY <1>1, <1>3 DEF Least
  <2>5. IO!CacheRead(f, b, n) = [f |-> g, data |-> Some(r.data), failed |-> FALSE]
    BY <1>2, <1>7
  <2>6. Well(r.f) /\ ~Unread(r.f) /\ r.f \in FileSet
    BY <1>5, <1>7 DEF Well
  <2> HIDE DEF r, p, hit, Some
  <2>7. /\ g \in FileSet /\ g.cblk = b /\ g.cdata = r.data /\ g.raw = r.f.raw
        /\ g.hdr = r.f.hdr /\ g.iv = r.f.iv /\ g.ext = r.f.ext /\ g.left = r.f.left
        /\ g.reads = r.f.reads /\ g.cuts = r.f.cuts
    BY <2>2, <2>6 DEF FileSet
  <2> HIDE DEF g
  <2>8. Well(g) /\ ~Unread(g) /\ Budget(g) = Budget(r.f)
    BY <2>2, <2>6, <2>7 DEF Well, Matches, Unread, Budget
  <2>9. Ready(g, 1) /\ Ready(g, 2)
    BY <2>8 DEF Ready
  <2>10. g.raw = f.raw /\ g.cuts = f.cuts /\ Budget(g) >= Budget(f) - 1
    BY <1>5, <1>7, <2>7, <2>8
  <2>11. Cached(g)
    BY <2>1, <2>2, <2>7, <2>10 DEF Cached, Coherent, Within, Block, Part
  <2>12. Least(n, Len(p)) >= Least(n, Len(p))
    BY <1>3 DEF Least
  <2> DEFINE q == IO!CacheRead(f, b, n)
  <2>13. q.f = g /\ q.data = Some(r.data)
    BY <2>5
  <2> HIDE DEF q
  <2>14. /\ Well(q.f) /\ Cached(q.f) /\ q.f.raw = f.raw /\ q.f.cuts = f.cuts
         /\ Ready(q.f, 1) /\ Ready(q.f, 2) /\ Budget(q.f) >= Budget(f) - 1
         /\ q.data \in Seq(Int) /\ Len(q.data) <= n /\ Len(q.data) >= Least(n, Len(p))
    BY <2>3, <2>4, <2>8, <2>9, <2>10, <2>11, <2>12, <2>13
  <2> QED
    BY <2>14 DEF q, p
<1> QED
  BY <1>4, <1>6, <1>7

\* The raw file cut or extended by a hole.
LEMMA RawResizeIs ==
    ASSUME NEW s \in Seq(Cell), NEW n \in Nat
    PROVE  /\ RawResize(s, n) \in Seq(Cell) /\ Len(RawResize(s, n)) = n
           /\ \A i \in 1..n : i <= Len(s) => RawResize(s, n)[i] = s[i]
           /\ n = Len(s) => RawResize(s, n) = s
<1>1. Len(s) \in Nat
  BY LenProperties
<1>2. CASE n <= Len(s)
  <2>1. RawResize(s, n) = SubSeq(s, 1, n)
    BY <1>2 DEF RawResize
  <2>2. /\ SubSeq(s, 1, n) \in Seq(Cell) /\ Len(SubSeq(s, 1, n)) = n
        /\ \A i \in 1..n : SubSeq(s, 1, n)[i] = s[i]
    BY <1>1, <1>2, PartIs
  <2>3. n = Len(s) => SubSeq(s, 1, n) = s
    BY <2>2, SeqEqual
  <2> QED
    BY <1>1, <1>2, <2>1, <2>2, <2>3
<1>3. CASE n > Len(s)
  <2> DEFINE k == n - Len(s)
             z == Holes(k)
  <2>0. k \in Nat
    BY <1>1, <1>3
  <2> HIDE DEF k
  <2>1. z \in Seq(Cell) /\ Len(z) = k
    BY <2>0, HolesAre
  <2>2. RawResize(s, n) = s \o z
    BY <1>1, <1>3 DEF RawResize, k
  <2> HIDE DEF z
  <2>3. /\ s \o z \in Seq(Cell) /\ Len(s \o z) = Len(s) + Len(z)
        /\ \A i \in 1..(Len(s) + Len(z)) : (s \o z)[i] = IF i <= Len(s) THEN s[i] ELSE z[i - Len(s)]
    BY <2>1, ConcatProperties
  <2>4. Len(s) + k = n
    BY <1>1, <1>3 DEF k
  <2> QED
    BY <1>1, <1>3, <2>1, <2>2, <2>3, <2>4
<1> QED
  BY <1>1, <1>2, <1>3

\* A raw write.
LEMMA RawWriteIs ==
    ASSUME NEW f \in FileSet, NEW off \in Nat, NEW c \in Seq(Cell)
    PROVE  LET g == RawWrite(f, off, c)
           IN /\ g \in FileSet /\ g.hdr = f.hdr /\ g.iv = f.iv /\ g.ext = f.ext
              /\ g.cblk = f.cblk /\ g.cdata = f.cdata /\ g.cuts = f.cuts /\ g.reads = f.reads
              /\ ~g.ok => g.raw = f.raw
              /\ g.ok => /\ Len(g.raw) = Most(Len(f.raw), off + Len(c))
                         /\ \A i \in 1..Len(c) : g.raw[off + i] = c[i]
<1>1. f.raw \in Seq(Cell) /\ Len(f.raw) \in Nat /\ f.left \in Nat /\ Len(c) \in Nat
  <2>1. f.raw \in Seq(Cell) /\ f.left \in Nat
    BY DEF FileSet
  <2> QED
    BY <2>1, LenProperties
<1>2. CASE f.left = 0
  <2> DEFINE g == [f EXCEPT !.ok = FALSE]
  <2>1. /\ g \in FileSet /\ g.hdr = f.hdr /\ g.iv = f.iv /\ g.ext = f.ext
        /\ g.cblk = f.cblk /\ g.cdata = f.cdata /\ g.cuts = f.cuts /\ g.reads = f.reads
        /\ ~g.ok /\ g.raw = f.raw
    BY DEF FileSet
  <2>2. RawWrite(f, off, c) = g
    BY <1>2 DEF RawWrite
  <2> QED
    BY <2>1, <2>2
<1>3. CASE f.left # 0
  <2> DEFINE m == Most(off, Len(f.raw))
             r == RawResize(f.raw, m)
             o == SubSeq(r, 1, off) \o c \o SubSeq(r, off + Len(c) + 1, Len(r))
             left == f.left - 1
             g == [f EXCEPT !.raw = o, !.left = left, !.ok = TRUE]
  <2>1. m \in Nat /\ off <= m /\ Len(f.raw) <= m /\ (m = off \/ m = Len(f.raw))
    BY <1>1 DEF Most
  <2>2. r \in Seq(Cell) /\ Len(r) = m
    BY <1>1, <2>1, RawResizeIs
  <2>3. RawWrite(f, off, c) = g
    BY <1>3 DEF RawWrite
  <2>4. left \in Nat
    BY <1>1, <1>3
  <2> HIDE DEF m, r, left
  <2>5. /\ o \in Seq(Cell)
        /\ Len(o) = (IF Len(r) < off + Len(c) THEN off + Len(c) ELSE Len(r))
        /\ \A i \in 1..Len(o) : o[i] = IF off < i /\ i <= off + Len(c) THEN c[i - off] ELSE r[i]
    BY <2>1, <2>2, SpliceIs
  <2> HIDE DEF o
  <2>6. Len(o) = Most(Len(f.raw), off + Len(c))
    BY <1>1, <2>1, <2>2, <2>5 DEF Most
  <2>7. ASSUME NEW i \in 1..Len(c) PROVE o[off + i] = c[i]
    <3>1. off + i \in 1..Len(o) /\ off < off + i /\ off + i <= off + Len(c) /\ off + i - off = i
      BY <1>1, <2>6 DEF Most
    <3> QED
      BY <2>5, <3>1
  <2>8. /\ g \in FileSet /\ g.hdr = f.hdr /\ g.iv = f.iv /\ g.ext = f.ext
        /\ g.cblk = f.cblk /\ g.cdata = f.cdata /\ g.cuts = f.cuts /\ g.reads = f.reads
        /\ g.ok /\ g.raw = o
    BY <2>4, <2>5 DEF FileSet
  <2> HIDE DEF g
  <2> QED
    BY <2>3, <2>6, <2>7, <2>8
<1> QED
  BY <1>1, <1>2, <1>3

\* One block through the cache to the disk: if the write fails the cache is empty, and
\* if it succeeds and nothing of the block is left of what was there before, the cache
\* holds what is on disk.
LEMMA CacheWriteIs ==
    ASSUME NEW f, Well(f), Ready(f, 1), NEW b \in Nat,
           NEW d \in Seq(Int), d # <<>>, Len(d) <= BS
    PROVE  LET g == IO!CacheWrite(f, b, d)
           IN /\ Well(g) /\ ~Unread(g) /\ g.cuts = f.cuts /\ Budget(g) = Budget(f)
              /\ ~g.ok => g.raw = f.raw /\ g.cdata = <<>>
              /\ g.ok => /\ g.cblk = b /\ g.cdata = d
                         /\ Len(g.raw) = Most(Len(f.raw), b * BS + Len(d))
                         /\ \A i \in 1..Len(d) : g.raw[b * BS + i] = Cells(b, BlockIV, d)[i]
              /\ Len(d) = BS \/ Len(f.raw) <= b * BS + Len(d) => Cached(g)
<1> DEFINE e == NeedHeader(f)
           at == b * BS
           c == Cells(b, e.iv, d)
           h == RawWrite(e, at, c)
           g == [h EXCEPT !.cblk = b, !.cdata = IF h.ok THEN d ELSE <<>>]
<1>1. /\ Well(e) /\ ~Unread(e) /\ e.iv = BlockIV /\ e.raw = f.raw /\ e.cuts = f.cuts
      /\ Budget(e) = Budget(f) /\ e \in FileSet /\ (volume.header => e.hdr = HeaderOf(e.ext))
  <2>1. /\ Well(e) /\ ~Unread(e) /\ Beside(f, e) /\ e.iv = BlockIV
        /\ (volume.header => e.hdr = HeaderOf(f.ext)) /\ Budget(e) = Budget(f)
    BY NeedHeaderIs
  <2> HIDE DEF e
  <2> QED
    BY <2>1 DEF Well, Beside
<1>2. f.threw = FALSE /\ at \in Nat /\ BS \in Nat \ {0} /\ Len(d) \in Nat \ {0} /\ BlockIV \in IVs
      /\ Len(f.raw) \in Nat
  <2>1. f.threw = FALSE /\ f.raw \in Seq(Cell)
    BY DEF Well, FileSet
  <2>2. at \in Nat
    BY BlockAssumption
  <2> QED
    BY <2>1, <2>2, BlockAssumption, EmptySeq, LenProperties DEF BlockIV
<1>3. c = Cells(b, BlockIV, d) /\ c \in Seq(Cell) /\ Len(c) = Len(d)
  <2> HIDE DEF e
  <2>1. c = Cells(b, BlockIV, d)
    BY <1>1
  <2> HIDE DEF c
  <2> QED
    BY <1>2, <2>1, CellsAre
<1>4. IO!CacheWrite(f, b, d) = g
  BY <1>2 DEF IO!CacheWrite, WriteOneBlock
<1> HIDE DEF e, c, at
<1>5. /\ h \in FileSet /\ h.hdr = e.hdr /\ h.iv = e.iv /\ h.ext = e.ext
      /\ h.cuts = e.cuts /\ h.reads = e.reads
      /\ ~h.ok => h.raw = e.raw
      /\ h.ok => /\ Len(h.raw) = Most(Len(e.raw), at + Len(c))
                 /\ \A i \in 1..Len(c) : h.raw[at + i] = c[i]
  <2>1. e \in FileSet /\ at \in Nat /\ c \in Seq(Cell)
    BY <1>1, <1>2, <1>3
  <2> HIDE DEF h
  <2>2. /\ h \in FileSet /\ h.hdr = e.hdr /\ h.iv = e.iv /\ h.ext = e.ext
        /\ h.cblk = e.cblk /\ h.cdata = e.cdata /\ h.cuts = e.cuts /\ h.reads = e.reads
        /\ ~h.ok => h.raw = e.raw
        /\ h.ok => /\ Len(h.raw) = Most(Len(e.raw), at + Len(c))
                   /\ \A i \in 1..Len(c) : h.raw[at + i] = c[i]
    BY <2>1, RawWriteIs DEF h
  <2> QED
    BY <2>2
<1> HIDE DEF h
<1>6. /\ g \in FileSet /\ g.hdr = h.hdr /\ g.iv = h.iv /\ g.ext = h.ext /\ g.raw = h.raw
      /\ g.cuts = h.cuts /\ g.reads = h.reads /\ g.ok = h.ok /\ g.cblk = b
      /\ g.cdata = IF h.ok THEN d ELSE <<>>
  <2> DEFINE x == IF h.ok THEN d ELSE <<>>
  <2>1. x \in Seq(Int)
    BY EmptySeq
  <2> HIDE DEF x
  <2>2. /\ g \in FileSet /\ g.hdr = h.hdr /\ g.iv = h.iv /\ g.ext = h.ext /\ g.raw = h.raw
        /\ g.cuts = h.cuts /\ g.reads = h.reads /\ g.ok = h.ok /\ g.cblk = b
        /\ g.cdata = x
    <3>1. h \in FileSet /\ b \in Nat /\ g = [h EXCEPT !.cblk = b, !.cdata = x]
      BY <1>5 DEF x
    <3> HIDE DEF g
    <3> QED
      BY <2>1, <3>1 DEF FileSet
  <2> QED
    BY <2>2 DEF x
<1> HIDE DEF g
<1>7. Len(g.cdata) <= BS
  BY <1>2, <1>6, EmptySeq
<1>8. Well(g) /\ ~Unread(g) /\ Budget(g) = Budget(e)
  <2>1. Matches(g)
    BY <1>1, <1>5, <1>6 DEF Matches, Well, Unread
  <2>2. ~Unread(g)
    BY <1>1, <1>5, <1>6 DEF Unread
  <2> QED
    BY <1>1, <1>5, <1>6, <1>7, <2>1, <2>2 DEF Well, Budget
<1>9. g.ok => /\ Len(g.raw) = Most(Len(f.raw), at + Len(d))
              /\ \A i \in 1..Len(d) : g.raw[at + i] = Cells(b, BlockIV, d)[i]
  BY <1>1, <1>3, <1>5, <1>6
<1>10. ASSUME g.ok, Len(d) = BS \/ Len(f.raw) <= at + Len(d) PROVE Cached(g)
  <2>1. Len(g.raw) >= at + Len(d) /\ (Len(d) = BS \/ Len(g.raw) = at + Len(d))
    BY <1>2, <1>9, <1>10 DEF Most
  <2>2. g.raw \in Seq(Cell)
    BY <1>6 DEF FileSet
  <2>3. /\ \A i \in 1..Len(d) : g.raw[b * BS + i] = Cells(b, BlockIV, d)[i]
        /\ Len(g.raw) >= b * BS + Len(d) /\ (Len(d) = BS \/ Len(g.raw) = b * BS + Len(d))
    BY <1>9, <1>10, <2>1 DEF at
  <2>4. Block(g, b) = d /\ b * BS < Len(g.raw)
    BY <2>2, <2>3, WrittenIs
  <2> QED
    BY <1>6, <1>10, <2>4 DEF Cached, Coherent, Within
<1>11. ~g.ok => g.raw = f.raw /\ g.cdata = <<>> /\ Cached(g)
  BY <1>1, <1>5, <1>6 DEF Cached, Coherent, Within
<1> QED
  BY <1>1, <1>4, <1>5, <1>6, <1>8, <1>9, <1>10, <1>11 DEF at

\* What a write within a block makes of it.
LEMMA MergeIs ==
    ASSUME NEW old \in Seq(Int), NEW part \in Nat, NEW chunk \in Seq(Int)
    PROVE  LET m == IO!Merge(old, part, chunk)
           IN m \in Seq(Int) /\ Len(m) = Most(Len(old), part + Len(chunk))
<1> DEFINE n == IO!Most(Len(old), part + Len(chunk))
           m == IO!Merge(old, part, chunk)
           x(i) == IF i \in part + 1 .. part + Len(chunk) THEN chunk[i - part]
                   ELSE IF i <= Len(old) THEN old[i] ELSE 0
<1>1. Len(old) \in Nat /\ Len(chunk) \in Nat
  BY LenProperties
<1>2. n \in Nat /\ n = Most(Len(old), part + Len(chunk))
  BY <1>1 DEF IO!Most, Most
<1>3. m = [i \in 1..n |-> x(i)]
  BY DEF IO!Merge
<1>4. ASSUME NEW i \in 1..n PROVE x(i) \in Int
  <2>1. CASE i \in part + 1 .. part + Len(chunk)
    <3>1. i - part \in 1..Len(chunk)
      BY <1>1, <2>1
    <3>2. chunk[i - part] \in Int
      BY <3>1, ElementOfSeq
    <3> QED
      BY <2>1, <3>2
  <2>2. CASE i \notin part + 1 .. part + Len(chunk) /\ i <= Len(old)
    <3>1. i \in 1..Len(old)
      BY <1>1, <1>2, <2>2
    <3>2. old[i] \in Int
      BY <3>1, ElementOfSeq
    <3> QED
      BY <2>2, <3>2
  <2> QED
    BY <2>1, <2>2
<1> HIDE DEF n, x
<1>5. m \in [1..n -> Int]
  BY <1>3, <1>4
<1> HIDE DEF m
<1>6. m \in Seq(Int) /\ Len(m) = n
  <2>1. m \in Seq(Int)
    BY <1>2, <1>5, SeqDef
  <2> QED
    BY <1>2, <1>5, <2>1, LenProperties
<1> QED
  BY <1>2, <1>6 DEF m

----------------------------------------------------------------------------
(* The loops.                                                              *)

\* A file between two rounds of a read.
ReadInv(s) ==
    /\ DOMAIN s = {"f", "blk", "part", "size", "out", "failed"}
    /\ Well(s.f) /\ Cached(s.f) /\ s.blk \in Nat /\ s.part \in Nat /\ s.part < BS
    /\ s.size \in Nat /\ (s.size # 0 => Ready(s.f, 2))

\* One block of a read (BlockFileIO.cpp:119-168).
LEMMA ReadRoundKeeps ==
    ASSUME NEW s, ReadInv(s)
    PROVE  ReadInv(IO!ReadRound(s))
<1> DEFINE r == IO!CacheRead(s.f, s.blk, BS)
           got == Len(r.data)
           copied == IO!Least(got - s.part, s.size)
           next == [f |-> r.f, blk |-> s.blk + 1, part |-> 0, size |-> s.size - copied,
                    out |-> s.out \o SubSeq(r.data, s.part + 1, s.part + copied),
                    failed |-> FALSE]
           t == IO!ReadRound(s)
<1>1. BS \in Nat \ {0} /\ BS <= BS
  BY BlockAssumption
<1>2. CASE s.size = 0
  <2>1. t = s
    BY <1>2 DEF IO!ReadRound
  <2> QED
    BY <2>1
<1>3. CASE s.size # 0
  <2>1. /\ Well(r.f) /\ Cached(r.f) /\ (r.data # <<>> => Ready(r.f, 2))
        /\ r.data \in Seq(Int)
    BY <1>1, <1>3, CacheReadIs DEF ReadInv
  <2>2. got \in Nat /\ (r.data = <<>> => got = 0)
    BY <2>1, EmptySeq, LenProperties
  <2>3. t = IF got <= s.part THEN [s EXCEPT !.f = r.f, !.size = 0, !.failed = r.f.threw]
            ELSE IF got < BS THEN [next EXCEPT !.size = 0] ELSE next
    BY <1>1, <1>3, <2>2 DEF IO!ReadRound, ReadInv
  <2> HIDE DEF r, got
  <2>4. CASE got <= s.part
    <3>1. /\ t.f = r.f /\ t.size = 0 /\ t.blk = s.blk /\ t.part = s.part
          /\ DOMAIN t = DOMAIN s
      BY <2>3, <2>4 DEF ReadInv
    <3> HIDE DEF t
    <3> QED
      BY <2>1, <3>1 DEF ReadInv, t
  <2>5. CASE got > s.part
    <3>1. copied \in Nat /\ s.size - copied \in Nat
      BY <2>2, <2>5 DEF ReadInv, IO!Least
    <3>2. r.data # <<>>
      BY <2>2, <2>5 DEF ReadInv
    <3> HIDE DEF copied
    <3>3. /\ t.f = r.f /\ t.blk = s.blk + 1 /\ t.part = 0 /\ t.size \in Nat
          /\ DOMAIN t = {"f", "blk", "part", "size", "out", "failed"}
      BY <2>2, <2>3, <2>5, <3>1 DEF ReadInv
    <3> HIDE DEF t
    <3> QED
      BY <1>1, <2>1, <3>2, <3>3 DEF ReadInv, t
  <2> QED
    BY <2>2, <2>4, <2>5 DEF ReadInv
<1> QED
  BY <1>2, <1>3

\* A read of any size leaves the file well and its cache true.
LEMMA ReadFileIs ==
    ASSUME NEW f, Well(f), Cached(f), Ready(f, 2), NEW off \in Nat, NEW n \in Nat
    PROVE  LET r == IO!ReadFile(f, off, n) IN Well(r.f) /\ Cached(r.f)
<1>1. BS \in Nat \ {0} /\ off \div BS \in Nat /\ off % BS \in Nat /\ off % BS < BS
      /\ n \div BS \in Nat
  BY BlockAssumption
<1>2. CASE off % BS = 0 /\ n <= BS
  <2>1. IO!ReadFile(f, off, n) = IO!CacheRead(f, off \div BS, n)
    BY <1>2 DEF IO!ReadFile
  <2> DEFINE r == IO!CacheRead(f, off \div BS, n)
  <2>2. Well(r.f) /\ Cached(r.f)
    BY <1>1, <1>2, CacheReadIs
  <2> HIDE DEF r
  <2> QED
    BY <2>1, <2>2 DEF r
<1>3. CASE ~(off % BS = 0 /\ n <= BS)
  <2> DEFINE start == [f |-> f, blk |-> off \div BS, part |-> off % BS, size |-> n,
                       out |-> <<>>, failed |-> FALSE]
             end == IO!Rounds(IO!ReadRound, start, IO!RoundsFor(n))
  <2>1. IO!ReadFile(f, off, n).f = end.f
    BY <1>3 DEF IO!ReadFile, IO!ReadLoop
  <2> DEFINE m == IO!RoundsFor(n)
  <2>2. m \in Nat
    BY <1>1 DEF IO!RoundsFor
  <2>3. ReadInv(start)
    BY <1>1 DEF ReadInv
  <2> HIDE DEF start, m
  <2>4. PICK g : /\ g[0] = start
                 /\ \A k \in 1..m : g[k] = IO!ReadRound(g[k - 1])
                 /\ IO!Rounds(IO!ReadRound, start, m) = g[m]
    BY <2>2, ReadRounds
  <2> DEFINE K == {k \in 0..m : ReadInv(g[k])}
  <2>5. 0 \in K
    BY <2>2, <2>3, <2>4
  <2>6. ASSUME NEW k \in 1..m, k - 1 \in K PROVE k \in K
    <3>1. ReadInv(g[k - 1]) /\ g[k] = IO!ReadRound(g[k - 1])
      BY <2>4, <2>6
    <3>2. ReadInv(g[k])
      BY <3>1, ReadRoundKeeps
    <3> QED
      BY <3>2
  <2> HIDE DEF K
  <2>7. m \in K
    BY <2>2, <2>5, <2>6, UpTo
  <2>8. ReadInv(end)
    BY <2>4, <2>7 DEF K, m
  <2> QED
    BY <2>1, <2>8 DEF ReadInv
<1> QED
  BY <1>2, <1>3

\* A file that is ready for two reads is for one.
LEMMA ReadyLess ==
    ASSUME NEW f \in FileSet, Ready(f, 2) PROVE Ready(f, 1)
<1>1. f.reads \in Nat
  BY DEF FileSet
<1> QED
  BY <1>1 DEF Ready

\* A file between two rounds of padding f from a block on: no longer than it was or
\* than what was padded, and what was padded last is cached.
PadInv(f, from, s) ==
    /\ Well(s.f) /\ Cached(s.f) /\ Ready(s.f, 2) /\ Budget(s.f) = Budget(f)
    /\ s.blk \in Nat /\ s.blk >= from
    /\ Len(s.f.raw) <= Most(Len(f.raw), s.blk * BS)
    /\ ~Unread(f) => ~Unread(s.f)
    /\ s.blk > from /\ s.f.cdata # <<>> => Len(s.f.raw) >= s.blk * BS

\* One block of the padding (BlockFileIO.cpp:339-350).
LEMMA PadRoundKeeps ==
    ASSUME NEW f, f.raw \in Seq(Cell), NEW from \in Nat, NEW s, PadInv(f, from, s)
    PROVE  PadInv(f, from, IO!PadRound(s)) /\ IO!PadRound(s).blk = s.blk + 1
<1> DEFINE z == IO!Zeros(BS)
           g == IO!CacheWrite(s.f, s.blk, z)
           t == IO!PadRound(s)
           at == s.blk * BS
<1>1. BS \in Nat \ {0} /\ s.blk \in Nat /\ at \in Nat /\ (s.blk + 1) * BS = at + BS
  BY BlockAssumption DEF PadInv
<1>2. z \in Seq(Int) /\ Len(z) = BS /\ z # <<>>
  <2>1. z \in Seq(Int) /\ Len(z) = BS
    BY <1>1, FilledIs DEF IO!Zeros
  <2> QED
    BY <1>1, <2>1, EmptySeq
<1>3. t = [f |-> g, blk |-> s.blk + 1]
  BY DEF IO!PadRound
<1>4. Well(s.f) /\ Ready(s.f, 1)
  BY ReadyLess DEF PadInv, Well
<1> HIDE DEF z, at
<1>5. /\ Well(g) /\ ~Unread(g) /\ Budget(g) = Budget(s.f) /\ Cached(g)
      /\ ~g.ok => g.raw = s.f.raw /\ g.cdata = <<>>
      /\ g.ok => Len(g.raw) = Most(Len(s.f.raw), at + BS)
  <2>1. Len(z) <= BS
    BY <1>1, <1>2
  <2> HIDE DEF g
  <2>2. /\ Well(g) /\ ~Unread(g) /\ Budget(g) = Budget(s.f)
        /\ ~g.ok => g.raw = s.f.raw /\ g.cdata = <<>>
        /\ g.ok => Len(g.raw) = Most(Len(s.f.raw), s.blk * BS + Len(z))
        /\ Len(z) = BS \/ Len(s.f.raw) <= s.blk * BS + Len(z) => Cached(g)
    <3>1. Well(s.f) /\ Ready(s.f, 1) /\ s.blk \in Nat /\ z \in Seq(Int) /\ z # <<>> /\ Len(z) <= BS
      BY <1>1, <1>2, <1>4, <2>1
    <3>2. /\ Well(g) /\ ~Unread(g) /\ Budget(g) = Budget(s.f)
          /\ ~g.ok => g.raw = s.f.raw /\ g.cdata = <<>>
          /\ Len(z) = BS \/ Len(s.f.raw) <= s.blk * BS + Len(z) => Cached(g)
      BY ONLY <3>1, CacheWriteIs DEF g
    <3>3. g.ok => Len(g.raw) = Most(Len(s.f.raw), s.blk * BS + Len(z))
      BY ONLY <3>1, CacheWriteIs DEF g
    <3> QED
      BY <3>2, <3>3
  <2> QED
    BY <1>2, <2>2 DEF at
<1>6. Ready(g, 2)
  BY <1>5 DEF Ready
<1>7. Len(f.raw) \in Nat /\ Len(s.f.raw) \in Nat
  <2>1. s.f.raw \in Seq(Cell)
    BY <1>4 DEF Well, FileSet
  <2> QED
    BY <2>1, LenProperties
<1> HIDE DEF g
<1>8. Len(g.raw) <= Most(Len(f.raw), at + BS) /\ (g.cdata # <<>> => Len(g.raw) >= at + BS)
  <2>1. Len(s.f.raw) <= Most(Len(f.raw), at)
    BY DEF PadInv, at
  <2>2. CASE g.ok
    BY <1>1, <1>5, <1>7, <2>1, <2>2 DEF Most
  <2>3. CASE ~g.ok
    BY <1>1, <1>5, <1>7, <2>1, <2>3, SMTT(30) DEF Most
  <2> QED
    BY <2>2, <2>3
<1>9. t.f = g /\ t.blk = s.blk + 1
  BY <1>3
<1> HIDE DEF t
<1>10. PadInv(f, from, t)
  BY <1>1, <1>5, <1>6, <1>8, <1>9 DEF PadInv
<1> QED
  BY <1>9, <1>10 DEF t

\* padFile's loop over whole blocks.
LEMMA PadBlocksIs ==
    ASSUME NEW f, Well(f), Cached(f), Ready(f, 2),
           NEW from \in Nat, NEW last \in Nat, from <= last
    PROVE  LET g == IO!PadBlocks(f, from, last)
           IN /\ Well(g) /\ Cached(g) /\ Ready(g, 2) /\ Budget(g) = Budget(f)
              /\ Len(g.raw) <= Most(Len(f.raw), last * BS)
              /\ ~Unread(f) => ~Unread(g)
              /\ from < last /\ g.cdata # <<>> => Len(g.raw) >= last * BS
              /\ from = last => g = f
<1> DEFINE m == last - from
           start == [f |-> f, blk |-> from]
           end == IO!Rounds(IO!PadRound, start, m)
<1>1. IO!PadBlocks(f, from, last) = end.f
  BY DEF IO!PadBlocks
<1>2. m \in Nat
  OBVIOUS
<1>3. f.raw \in Seq(Cell) /\ Len(f.raw) \in Nat /\ from * BS \in Nat
  <2>1. f.raw \in Seq(Cell)
    BY DEF Well, FileSet
  <2> QED
    BY <2>1, LenProperties, BlockAssumption
<1>4. PadInv(f, from, start) /\ start.f = f /\ start.blk = from
  <2>1. Len(f.raw) <= Most(Len(f.raw), from * BS)
    BY <1>3 DEF Most
  <2>2. start.f = f /\ start.blk = from
    OBVIOUS
  <2> HIDE DEF start
  <2> QED
    BY <2>1, <2>2 DEF PadInv
<1> HIDE DEF start, m
<1>5. PICK g : /\ g[0] = start
               /\ \A k \in 1..m : g[k] = IO!PadRound(g[k - 1])
               /\ IO!Rounds(IO!PadRound, start, m) = g[m]
  BY <1>2, PadRounds
<1> DEFINE K == {k \in 0..m : PadInv(f, from, g[k]) /\ g[k].blk = from + k}
<1>6. 0 \in K
  BY <1>2, <1>4, <1>5
<1>7. ASSUME NEW k \in 1..m, k - 1 \in K PROVE k \in K
  <2>1. /\ PadInv(f, from, g[k - 1]) /\ g[k] = IO!PadRound(g[k - 1])
        /\ g[k - 1].blk = from + (k - 1)
    BY <1>5, <1>7
  <2>2. PadInv(f, from, g[k]) /\ g[k].blk = g[k - 1].blk + 1
    BY <1>3, <2>1, PadRoundKeeps
  <2> QED
    BY <2>1, <2>2
<1> HIDE DEF K
<1>8. m \in K
  BY <1>2, <1>6, <1>7, UpTo
<1>9. PadInv(f, from, end) /\ end.blk = last
  BY <1>5, <1>8 DEF K, m
<1>10. from = last => end.f = f
  BY <1>4, <1>5 DEF m
<1> HIDE DEF end
<1> QED
  BY <1>1, <1>9, <1>10 DEF PadInv

----------------------------------------------------------------------------
(* Growing.                                                                *)

\* A position is a block and an offset in it.
LEMMA DivIs ==
    ASSUME NEW n \in Nat
    PROVE  /\ n \div BS \in Nat /\ n % BS \in Nat /\ n % BS < BS
           /\ n = (n \div BS) * BS + (n % BS)
BY BlockAssumption

\* Blocks lie one after the other.
LEMMA TimesIs ==
    ASSUME NEW a \in Nat, NEW b \in Nat
    PROVE  /\ a * BS \in Nat /\ (a + 1) * BS = a * BS + BS
           /\ a <= b => a * BS <= b * BS
           /\ a < b => a * BS + BS <= b * BS
           /\ a * BS < b * BS => a < b
<1>1. BS \in Nat \ {0}
  BY BlockAssumption
<1>2. a * BS \in Nat /\ b * BS \in Nat /\ (a + 1) * BS = a * BS + BS
  BY <1>1
<1>3. \A k \in Nat : k * BS >= 0 /\ (k >= 1 => k * BS >= BS)
  BY <1>1
<1>4. a <= b => a * BS <= b * BS
  <2>1. a <= b => b - a \in Nat /\ (b - a) * BS = b * BS - a * BS
    BY <1>1
  <2> QED
    BY <1>2, <1>3, <2>1
<1>5. a < b => a * BS + BS <= b * BS
  <2>1. a < b => b - a \in Nat /\ b - a >= 1 /\ (b - a) * BS = b * BS - a * BS
    BY <1>1
  <2> QED
    BY <1>1, <1>2, <1>3, <2>1
<1>6. b <= a => b * BS <= a * BS
  <2>1. b <= a => a - b \in Nat /\ (a - b) * BS = a * BS - b * BS
    BY <1>1
  <2> QED
    BY <1>2, <1>3, <2>1
<1> QED
  BY <1>2, <1>4, <1>5, <1>6

\* Zeros written.
LEMMA ZeroBytes ==
    ASSUME NEW n \in Nat
    PROVE  IO!Zeros(n) \in Seq(Int) /\ Len(IO!Zeros(n)) = n
BY FilledIs DEF IO!Zeros

\* A block filled up with zeros.
LEMMA PaddedIs ==
    ASSUME NEW s \in Seq(Int), NEW n \in Nat, Len(s) <= n
    PROVE  IO!Padded(s, n) \in Seq(Int) /\ Len(IO!Padded(s, n)) = n
<1> DEFINE k == n - Len(s)
           z == IO!Zeros(k)
<1>1. k \in Nat /\ Len(s) \in Nat /\ Len(s) + k = n
  BY LenProperties
<1> HIDE DEF k
<1>2. z \in Seq(Int) /\ Len(z) = k
  BY <1>1, ZeroBytes
<1>3. IO!Padded(s, n) = s \o z
  BY DEF IO!Padded, k
<1> HIDE DEF z
<1>4. s \o z \in Seq(Int) /\ Len(s \o z) = Len(s) + Len(z)
  BY <1>2, ConcatProperties
<1> QED
  BY <1>1, <1>2, <1>3, <1>4

\* What matters of a write through the cache where nothing is left of the block.
LEMMA CoverIs ==
    ASSUME NEW f, Well(f), Ready(f, 1), NEW b \in Nat,
           NEW d \in Seq(Int), NEW n \in Nat \ {0}, Len(d) = n, n <= BS,
           n = BS \/ Len(f.raw) <= b * BS + n
    PROVE  LET g == IO!CacheWrite(f, b, d)
           IN /\ Well(g) /\ Cached(g) /\ Ready(g, 2) /\ ~Unread(g) /\ Budget(g) = Budget(f)
              /\ g.cdata = <<>> => g.raw = f.raw
              /\ g.cdata # <<>> => g.ok /\ g.cblk = b /\ Len(g.raw) = Most(Len(f.raw), b * BS + n)
              /\ ~g.ok => g.cdata = <<>>
<1> DEFINE g == IO!CacheWrite(f, b, d)
<1>1. d # <<>> /\ Len(d) <= BS /\ (Len(d) = BS \/ Len(f.raw) <= b * BS + Len(d))
  BY EmptySeq
<1> HIDE DEF g
<1>2. /\ Well(g) /\ ~Unread(g) /\ Budget(g) = Budget(f)
      /\ ~g.ok => g.raw = f.raw /\ g.cdata = <<>>
      /\ Len(d) = BS \/ Len(f.raw) <= b * BS + Len(d) => Cached(g)
  BY <1>1, CacheWriteIs DEF g
<1>3. g.ok => g.cblk = b /\ g.cdata = d /\ Len(g.raw) = Most(Len(f.raw), b * BS + Len(d))
  BY <1>1, CacheWriteIs DEF g
<1>4. Ready(g, 2)
  BY <1>2 DEF Ready
<1>5. g.ok \in BOOLEAN
  BY <1>2 DEF Well, FileSet
<1> QED
  BY <1>1, <1>2, <1>3, <1>4, <1>5 DEF g

\* What is cached will stay true when the raw file is then made n bytes long.
Firm(g, n) ==
    g.cdata # <<>> =>
        \/ Len(g.raw) = n
        \/ g.cblk * BS + BS <= Len(g.raw) /\ Len(g.raw) <= n

\* The block the old end is in, made full, where the file grows beyond it.
LEMMA FullIs ==
    ASSUME NEW f, Well(f), Cached(f), Ready(f, 2), Budget(f) >= 1
    PROVE  LET old == Len(f.raw)
               first == old \div BS
               kept == IO!CacheRead(f, first, old % BS)
               full == IF old % BS = 0 THEN f
                       ELSE IO!CacheWrite(kept.f, first, IO!Padded(kept.data, BS))
               from == IF old % BS = 0 THEN first ELSE first + 1
           IN /\ Well(full) /\ Cached(full) /\ Ready(full, 2) /\ Budget(full) >= Budget(f) - 1
              /\ Len(full.raw) <= from * BS
              /\ full.cdata # <<>> => Len(full.raw) = from * BS
              /\ ~Unread(f) => ~Unread(full)
<1> DEFINE old == Len(f.raw)
           first == old \div BS
           rest == old % BS
           at == first * BS
           kept == IO!CacheRead(f, first, rest)
           d == IO!Padded(kept.data, BS)
           g == IO!CacheWrite(kept.f, first, d)
           full == IF rest = 0 THEN f ELSE g
           from == IF rest = 0 THEN first ELSE first + 1
<1>1. old \in Nat /\ BS \in Nat \ {0} /\ Budget(f) \in Int
  <2>1. f.raw \in Seq(Cell) /\ f.reads \in Nat
    BY DEF Well, FileSet
  <2> QED
    BY <2>1, LenProperties, BlockAssumption DEF Budget
<1> HIDE DEF old
<1>2. first \in Nat /\ rest \in Nat /\ rest < BS /\ old = at + rest
  BY <1>1, DivIs
<1> HIDE DEF first, rest
<1>3. at \in Nat /\ (first + 1) * BS = at + BS
  BY <1>2, TimesIs
<1> HIDE DEF at
<1>4. CASE rest = 0
  <2>1. full = f /\ from = first
    BY <1>4
  <2>2. /\ Well(f) /\ Cached(f) /\ Ready(f, 2) /\ Budget(f) >= Budget(f) - 1
        /\ Len(f.raw) <= first * BS /\ (f.cdata # <<>> => Len(f.raw) = first * BS)
    BY <1>1, <1>2, <1>3, <1>4 DEF old, at
  <2> QED
    BY <2>1, <2>2 DEF old, first, rest
<1>5. CASE rest # 0
  <2>1. /\ Well(kept.f) /\ kept.f.raw = f.raw /\ Ready(kept.f, 1)
        /\ Budget(kept.f) >= Budget(f) - 1 /\ kept.data \in Seq(Int) /\ Len(kept.data) <= rest
    <3>1. rest <= BS
      BY <1>1, <1>2
    <3> HIDE DEF kept
    <3> QED
      BY <1>2, <3>1, CacheReadIs DEF kept
  <2> HIDE DEF kept
  <2>2. d \in Seq(Int) /\ Len(d) = BS
    <3>1. Len(kept.data) <= BS
      BY <1>1, <1>2, <2>1, LenProperties
    <3> QED
      BY <1>1, <2>1, <3>1, PaddedIs
  <2> HIDE DEF d
  <2>3. /\ Well(g) /\ Cached(g) /\ Ready(g, 2) /\ ~Unread(g) /\ Budget(g) = Budget(kept.f)
        /\ g.cdata = <<>> => g.raw = kept.f.raw
        /\ g.cdata # <<>> => Len(g.raw) = Most(Len(kept.f.raw), first * BS + BS)
    BY <1>1, <1>2, <2>1, <2>2, CoverIs
  <2> HIDE DEF g
  <2>4. Len(f.raw) = old
    BY DEF old
  <2>5. /\ Budget(g) >= Budget(f) - 1 /\ Len(g.raw) <= at + BS
        /\ g.cdata # <<>> => Len(g.raw) = at + BS
    BY <1>1, <1>2, <1>3, <2>1, <2>3, <2>4 DEF Most, at
  <2>6. full = g /\ from * BS = at + BS
    BY <1>3, <1>5
  <2>7. /\ Well(full) /\ Cached(full) /\ Ready(full, 2) /\ Budget(full) >= Budget(f) - 1
        /\ Len(full.raw) <= from * BS
        /\ full.cdata # <<>> => Len(full.raw) = from * BS
        /\ ~Unread(full)
    BY <2>3, <2>5, <2>6
  <2> QED
    BY <2>7 DEF g, d, kept, rest, first, old
<1> QED
  BY <1>4, <1>5

\* padFile: nothing of it is beyond the block the new end is in, and when that block is
\* written as well, what is then cached stays true.
LEMMA PadFileIs ==
    ASSUME NEW f, Well(f), Cached(f), Ready(f, 2), Budget(f) >= 1,
           NEW new \in Nat, Len(f.raw) < new, NEW force \in BOOLEAN
    PROVE  LET g == IO!PadFile(f, Len(f.raw), new, force)
           IN /\ Well(g) /\ Cached(g) /\ Ready(g, 2) /\ Budget(g) >= Budget(f) - 1
              /\ ~force => Len(g.raw) <= Most(Len(f.raw), (new \div BS) * BS)
              /\ force => Firm(g, new)
              /\ ~Unread(f) => ~Unread(g)
<1> DEFINE old == Len(f.raw)
           first == old \div BS
           last == new \div BS
           rest == old % BS
           part == new % BS
           kept == IO!CacheRead(f, first, rest)
           full == IF rest = 0 THEN f
                   ELSE IO!CacheWrite(kept.f, first, IO!Padded(kept.data, BS))
           from == IF rest = 0 THEN first ELSE first + 1
           middle == IF volume.holes THEN full ELSE IO!PadBlocks(full, from, last)
           one == IO!CacheWrite(kept.f, first, IO!Padded(kept.data, part))
           ended == IO!CacheWrite(middle, last, IO!Zeros(part))
           g == IO!PadFile(f, old, new, force)
           Good(x) == /\ Well(x) /\ Cached(x) /\ Ready(x, 2) /\ Budget(x) >= Budget(f) - 1
                      /\ ~force => Len(x.raw) <= Most(old, last * BS)
                      /\ force => Firm(x, new)
                      /\ ~Unread(f) => ~Unread(x)
<1>1. /\ first = last /\ force /\ part # 0 => g = one
      /\ first = last /\ ~(force /\ part # 0) => g = f
      /\ first # last /\ force /\ part # 0 => g = ended
      /\ first # last /\ ~(force /\ part # 0) => g = middle
  BY DEF IO!PadFile
<1>2. /\ Well(full) /\ Cached(full) /\ Ready(full, 2) /\ Budget(full) >= Budget(f) - 1
      /\ Len(full.raw) <= from * BS
      /\ full.cdata # <<>> => Len(full.raw) = from * BS
      /\ ~Unread(f) => ~Unread(full)
  BY FullIs
<1>3. old \in Nat /\ BS \in Nat \ {0} /\ Budget(f) \in Int /\ old < new
  <2>1. f.raw \in Seq(Cell) /\ f.reads \in Nat
    BY DEF Well, FileSet
  <2> QED
    BY <2>1, LenProperties, BlockAssumption DEF Budget
<1> HIDE DEF g, ended, one, middle, full
<1>4. rest <= BS /\ rest \in Nat /\ first \in Nat
  <2>1. old \in Nat
    BY <1>3
  <2> HIDE DEF old
  <2>2. rest \in Nat /\ rest < BS /\ first \in Nat
    BY ONLY <2>1, DivIs
  <2> QED
    BY <1>3, <2>2
<1>5. /\ Well(kept.f) /\ kept.f.raw = f.raw /\ Ready(kept.f, 1)
      /\ Budget(kept.f) >= Budget(f) - 1 /\ kept.data \in Seq(Int) /\ Len(kept.data) <= rest
  <2> HIDE DEF kept, rest, first
  <2> QED
    BY <1>4, CacheReadIs DEF kept
<1> DEFINE at == first * BS
           end == last * BS
<1>6. /\ old = at + rest /\ new = end + part /\ last \in Nat /\ part \in Nat
      /\ rest < BS /\ part < BS
  <2>1. old = at + rest /\ rest < BS
    <3>1. old \in Nat
      BY <1>3
    <3> HIDE DEF old
    <3>2. rest < BS
      BY ONLY <3>1, DivIs
    <3>3. old = at + rest
      BY ONLY <3>1, DivIs
    <3> QED
      BY <3>2, <3>3
  <2>2. new = end + part /\ last \in Nat /\ part \in Nat /\ part < BS
    BY DivIs
  <2> QED
    BY <2>1, <2>2
<1> HIDE DEF kept, rest, first, last, part, old
<1>7. /\ at \in Nat /\ end \in Nat /\ (first + 1) * BS = at + BS
      /\ first = last => at = end
      /\ first < last => at + BS <= end
      /\ last < first => end + BS <= at
  BY <1>4, <1>6, TimesIs
<1>8. Len(f.raw) = old
  BY DEF old
<1> HIDE DEF at, end
<1>9. ASSUME first = last /\ force /\ part # 0
       PROVE  Good(g)
  <2> DEFINE d == IO!Padded(kept.data, part)
  <2>1. Len(kept.data) <= part
    <3>1. rest <= part
      BY <1>3, <1>4, <1>6, <1>7, <1>9
    <3> QED
      BY <1>5, <1>6, <1>4, <3>1, LenProperties
  <2>2. d \in Seq(Int) /\ Len(d) = part
    BY <1>5, <1>6, <2>1, PaddedIs
  <2> HIDE DEF d
  <2>3. part \in Nat \ {0} /\ part <= BS /\ Len(kept.f.raw) <= first * BS + part
    BY <1>3, <1>5, <1>6, <1>7, <1>8, <1>9 DEF at
  <2>4. one = IO!CacheWrite(kept.f, first, d)
    BY DEF one, d
  <2>5. /\ Well(one) /\ Cached(one) /\ Ready(one, 2) /\ ~Unread(one) /\ Budget(one) = Budget(kept.f)
        /\ one.cdata # <<>> => Len(one.raw) = Most(Len(kept.f.raw), first * BS + part)
    BY <1>4, <1>5, <2>2, <2>3, <2>4, CoverIs
  <2>6. Firm(one, new)
    BY <1>3, <1>5, <1>6, <1>7, <1>8, <1>9, <2>5 DEF Firm, Most, at
  <2> QED
    BY <1>1, <1>5, <1>9, <2>5, <2>6
<1>10. ASSUME first = last /\ ~(force /\ part # 0)
       PROVE  Good(g)
  <2>1. ~force
    BY <1>3, <1>4, <1>6, <1>7, <1>10
  <2>2. Len(f.raw) <= Most(old, end)
    BY <1>3, <1>7, <1>8 DEF Most
  <2> QED
    BY <1>1, <1>3, <1>10, <2>1, <2>2 DEF end
<1>11. ASSUME first # last
       PROVE  /\ Well(middle) /\ Cached(middle) /\ Ready(middle, 2)
              /\ Budget(middle) >= Budget(f) - 1 /\ Len(middle.raw) <= end
              /\ ~Unread(f) => ~Unread(middle)
              /\ middle.cdata # <<>> =>
                   \/ Len(middle.raw) = end
                   \/ middle.cblk * BS + BS <= Len(middle.raw)
  <2>1. first < last
    BY <1>3, <1>4, <1>6, <1>7, <1>11
  <2>2. from \in Nat /\ from <= last
    BY <1>4, <1>6, <2>1
  <2> HIDE DEF from
  <2>3. from * BS \in Nat /\ from * BS <= end
    BY <1>6, <2>2, TimesIs DEF end
  <2>4. full.raw \in Seq(Cell) /\ full.cblk \in Nat /\ Len(full.raw) \in Nat
    <3>1. full.raw \in Seq(Cell) /\ full.cblk \in Nat
      BY <1>2 DEF Well, FileSet
    <3> QED
      BY <3>1, LenProperties
  <2>5. CASE volume.holes
    <3>1. middle = full
      BY <2>5 DEF middle
    <3>2. ASSUME full.cdata # <<>> PROVE full.cblk * BS + BS <= Len(full.raw)
      <4>1. Len(full.raw) = from * BS /\ full.cblk * BS < from * BS
        BY <1>2, <2>5, <3>2 DEF Cached, Within
      <4>2. full.cblk < from
        BY <2>2, <2>4, <4>1, TimesIs
      <4> QED
        BY <2>2, <2>4, <4>1, <4>2, TimesIs
    <3> QED
      BY <1>2, <1>7, <2>3, <2>4, <3>1, <3>2
  <2>6. CASE ~volume.holes
    <3> DEFINE p == IO!PadBlocks(full, from, last)
    <3>1. middle = p
      BY <2>6 DEF middle
    <3>2. /\ Well(p) /\ Cached(p) /\ Ready(p, 2) /\ Budget(p) = Budget(full)
          /\ Len(p.raw) <= Most(Len(full.raw), last * BS)
          /\ ~Unread(full) => ~Unread(p)
          /\ from < last /\ p.cdata # <<>> => Len(p.raw) >= last * BS
          /\ from = last => p = full
      BY <1>2, <1>6, <2>2, PadBlocksIs
    <3> HIDE DEF p
    <3>3. Len(p.raw) \in Nat
      <4>1. p.raw \in Seq(Cell)
        BY <3>2 DEF Well, FileSet
      <4> QED
        BY <4>1, LenProperties
    <3>4. Len(p.raw) <= end
      BY <1>2, <1>7, <2>3, <2>4, <3>2, <3>3 DEF Most, end
    <3>5. p.cdata # <<>> => Len(p.raw) = end
      <4>1. CASE from < last
        BY <1>7, <3>2, <3>3, <3>4, <4>1 DEF end
      <4>2. CASE from = last
        BY <1>2, <3>2, <4>2 DEF end
      <4> QED
        BY <1>6, <2>2, <4>1, <4>2
    <3> QED
      BY <1>2, <3>1, <3>2, <3>4, <3>5
  <2> QED
    BY <2>5, <2>6
<1> HIDE DEF from
<1>12. ASSUME first # last /\ force /\ part # 0
       PROVE  Good(g)
  <2> DEFINE d == IO!Zeros(part)
  <2>1. d \in Seq(Int) /\ Len(d) = part
    BY <1>6, ZeroBytes
  <2> HIDE DEF d
  <2>2. Len(middle.raw) \in Nat
    <3>1. middle.raw \in Seq(Cell)
      BY <1>11, <1>12 DEF Well, FileSet
    <3> QED
      BY <3>1, LenProperties
  <2>3. part \in Nat \ {0} /\ part <= BS /\ Len(middle.raw) <= last * BS + part
    BY <1>3, <1>6, <1>7, <1>11, <1>12, <2>2 DEF end
  <2>4. ended = IO!CacheWrite(middle, last, d)
    BY DEF ended, d
  <2>5. Ready(middle, 1)
    BY <1>11, <1>12, ReadyLess DEF Well
  <2>6. /\ Well(ended) /\ Cached(ended) /\ Ready(ended, 2) /\ ~Unread(ended)
        /\ Budget(ended) = Budget(middle)
        /\ ended.cdata # <<>> => Len(ended.raw) = Most(Len(middle.raw), last * BS + part)
    BY <1>6, <1>11, <1>12, <2>1, <2>3, <2>4, <2>5, CoverIs
  <2>7. Firm(ended, new)
    BY <1>6, <1>7, <2>2, <2>3, <2>6 DEF Firm, Most, end
  <2> QED
    BY <1>1, <1>11, <1>12, <2>6, <2>7
<1>13. ASSUME first # last /\ ~(force /\ part # 0)
       PROVE  Good(g)
  <2>1. Len(middle.raw) \in Nat
    <3>1. middle.raw \in Seq(Cell)
      BY <1>11, <1>13 DEF Well, FileSet
    <3> QED
      BY <3>1, LenProperties
  <2>2. Len(middle.raw) <= Most(old, end)
    BY <1>3, <1>7, <1>11, <1>13, <2>1 DEF Most
  <2>3. force => Firm(middle, new)
    <3>1. force => new = end
      BY <1>6, <1>7, <1>13
    <3> QED
      BY <1>7, <1>11, <1>13, <2>1, <3>1 DEF Firm
  <2> QED
    BY <1>1, <1>11, <1>13, <2>2, <2>3 DEF end
<1>14. Good(g)
  BY <1>9, <1>10, <1>12, <1>13
<1> QED
  BY <1>14 DEF g, old, last

\* A file between two rounds of a write: enough reads will succeed for what is left to
\* be written, and the file ends where it did or before the next block.
WriteInv(s) ==
    /\ Well(s.f) /\ Cached(s.f) /\ s.blk \in Nat /\ s.part \in Nat /\ s.part < BS
    /\ s.size \in Nat /\ s.data \in Seq(Int)
    /\ s.data # <<>> => /\ Ready(s.f, 2) /\ Budget(s.f) >= Len(s.data)
                        /\ Len(s.f.raw) <= Most(s.size, s.blk * BS)

\* A block beyond the last one that is there.
LEMMA LastIs ==
    ASSUME NEW size \in Nat, NEW b \in Nat, b > IO!LastNonEmpty(size)
    PROVE  size <= b * BS
<1> DEFINE q == size \div BS
           m == size % BS
<1>1. q \in Nat /\ m \in Nat /\ m < BS /\ size = q * BS + m
  BY DivIs
<1>2. BS \in Nat \ {0} /\ q * BS \in Nat /\ b * BS \in Nat
  BY <1>1, BlockAssumption
<1>3. IF m = 0 THEN b > q - 1 ELSE b > q
  BY DEF IO!LastNonEmpty
<1> HIDE DEF q, m
<1>4. CASE m = 0
  <2>1. q <= b
    BY <1>1, <1>3, <1>4
  <2>2. q * BS <= b * BS
    BY <1>1, <2>1, TimesIs
  <2> QED
    BY <1>1, <1>2, <1>4, <2>2
<1>5. CASE m # 0
  <2>1. q < b
    BY <1>1, <1>3, <1>5
  <2>2. q * BS + BS <= b * BS
    BY <1>1, <2>1, TimesIs
  <2> QED
    BY <1>1, <1>2, <2>2
<1> QED
  BY <1>4, <1>5

\* The larger of two numbers.
LEMMA MostIs ==
    ASSUME NEW x \in Nat, NEW y \in Nat, NEW u \in Nat, NEW v \in Nat, NEW w \in Nat,
           x <= Most(y, u), v <= w
    PROVE  x <= Most(y, u + w) /\ Most(x, u + v) <= Most(y, u + w)
BY DEF Most

\* One block of a write (BlockFileIO.cpp:209-277).
LEMMA WriteRoundKeeps ==
    ASSUME NEW s, WriteInv(s)
    PROVE  WriteInv(IO!WriteRound(s))
<1> DEFINE n == IO!Least(BS - s.part, Len(s.data))
           chunk == SubSeq(s.data, 1, n)
           direct == n = BS \/ (s.part = 0 /\ s.blk * BS + n >= s.size)
           r == IO!CacheRead(s.f, s.blk, BS)
           new == IO!Merge(<<>>, s.part, chunk)
           merged == IO!Merge(r.data, s.part, chunk)
           g == IF direct THEN IO!CacheWrite(s.f, s.blk, chunk)
                ELSE IF s.blk > IO!LastNonEmpty(s.size) THEN IO!CacheWrite(s.f, s.blk, new)
                ELSE IO!CacheWrite(r.f, s.blk, merged)
           rest == SubSeq(s.data, n + 1, Len(s.data))
           t == IO!WriteRound(s)
           at == s.blk * BS
<1>1. CASE s.data = <<>>
  <2>1. t = s
    BY <1>1 DEF IO!WriteRound
  <2> QED
    BY <2>1
<1>2. ASSUME s.data # <<>> PROVE WriteInv(t)
  <2>1. /\ Well(s.f) /\ Cached(s.f) /\ s.blk \in Nat /\ s.part \in Nat /\ s.part < BS
        /\ s.size \in Nat /\ s.data \in Seq(Int)
        /\ Ready(s.f, 2) /\ Budget(s.f) >= Len(s.data) /\ Len(s.f.raw) <= Most(s.size, at)
    BY <1>2 DEF WriteInv
  <2>2. BS \in Nat \ {0} /\ Len(s.data) \in Nat \ {0}
    BY <1>2, <2>1, BlockAssumption, EmptySeq
  <2>3. at \in Nat /\ (s.blk + 1) * BS = at + BS
    BY <2>1, TimesIs
  <2>4. n \in Nat \ {0} /\ n <= Len(s.data) /\ s.part + n <= BS
    BY <2>1, <2>2 DEF IO!Least
  <2>5. t = [f |-> g, blk |-> s.blk + 1, part |-> 0, size |-> s.size,
             data |-> IF ~g.ok \/ g.threw THEN <<>> ELSE rest]
    BY <1>2 DEF IO!WriteRound
  <2> HIDE DEF n, at
  <2>6. chunk \in Seq(Int) /\ Len(chunk) = n
    <3>1. /\ SubSeq(s.data, 1, n) \in Seq(Int)
          /\ Len(SubSeq(s.data, 1, n)) = (IF 1 <= n THEN n - 1 + 1 ELSE 0)
      BY <2>1, <2>4, PartIs
    <3> QED
      BY <2>4, <3>1
  <2>7. rest \in Seq(Int) /\ Len(rest) = Len(s.data) - n
    <3> DEFINE m == n + 1
    <3>1. m \in Nat \ {0} /\ m - 1 = n /\ Len(s.data) <= Len(s.data) /\ Len(s.data) \in Int
      BY <2>2, <2>4
    <3> HIDE DEF m
    <3>2. /\ SubSeq(s.data, m, Len(s.data)) \in Seq(Int)
          /\ Len(SubSeq(s.data, m, Len(s.data)))
               = (IF m <= Len(s.data) THEN Len(s.data) - m + 1 ELSE 0)
      BY <2>1, <3>1, PartIs
    <3>3. /\ SubSeq(s.data, m, Len(s.data)) \in Seq(Int)
          /\ Len(SubSeq(s.data, m, Len(s.data))) = Len(s.data) - n
      BY <2>2, <2>4, <3>1, <3>2
    <3> QED
      BY <3>3 DEF m
  <2>8. Ready(s.f, 1) /\ s.f \in FileSet
    BY <2>1, ReadyLess DEF Well
  <2>9. Len(s.f.raw) \in Nat /\ Budget(s.f) \in Int
    <3>1. s.f.raw \in Seq(Cell) /\ s.f.reads \in Nat
      BY <2>8 DEF FileSet
    <3> QED
      BY <3>1, LenProperties DEF Budget
  <2> HIDE DEF chunk, rest, direct, t
  \* Of every way to write: the block is covered.
  <2>10. ASSUME NEW f, Well(f), Ready(f, 1), f.raw = s.f.raw, Budget(f) >= Budget(s.f) - 1,
                Budget(f) \in Int,
                NEW d \in Seq(Int), NEW l \in Nat \ {0}, Len(d) = l, l <= BS,
                l = BS \/ Len(f.raw) <= at + l, g = IO!CacheWrite(f, s.blk, d)
         PROVE  WriteInv(t)
    <3>1. l = BS \/ Len(f.raw) <= s.blk * BS + l
      BY <2>10 DEF at
    <3> HIDE DEF g
    <3>2. /\ Well(g) /\ Cached(g) /\ Ready(g, 2) /\ Budget(g) = Budget(f)
          /\ g.cdata = <<>> => g.raw = f.raw
          /\ g.cdata # <<>> => Len(g.raw) = Most(Len(f.raw), s.blk * BS + l)
      BY <2>1, <2>10, <3>1, CoverIs, SMTT(30)
    <3>3. Budget(g) >= Len(rest)
      BY <2>1, <2>2, <2>4, <2>7, <2>9, <2>10, <3>2
    <3>4. Len(g.raw) <= Most(s.size, at + BS)
      <4> DEFINE x == Len(s.f.raw)
      <4>0. /\ x \in Nat /\ BS \in Nat /\ l \in Nat /\ l <= BS /\ s.size \in Nat
            /\ x <= Most(s.size, at)
        BY <2>1, <2>2, <2>9, <2>10
      <4> HIDE DEF x
      <4>a. x <= Most(s.size, at + BS) /\ Most(x, at + l) <= Most(s.size, at + BS)
        BY <2>3, <4>0, MostIs
      <4>1. CASE g.cdata = <<>>
        BY <2>10, <3>2, <4>1, <4>a DEF x
      <4>2. CASE g.cdata # <<>>
        <5>1. Len(g.raw) = Most(Len(s.f.raw), at + l)
          BY <2>10, <3>2, <4>2 DEF at
        <5> QED
          BY <4>a, <5>1 DEF x
      <4> QED
        BY <4>1, <4>2
    <3> DEFINE left == IF ~g.ok \/ g.threw THEN <<>> ELSE rest
    <3>5. left \in Seq(Int) /\ (left # <<>> => left = rest)
      BY <2>7, EmptySeq
    <3>6. /\ t.f = g /\ t.blk = s.blk + 1 /\ t.part = 0 /\ t.size = s.size /\ t.data = left
      BY <2>5
    <3> HIDE DEF left
    <3>7. Len(t.f.raw) <= Most(t.size, t.blk * BS)
      BY <2>3, <3>4, <3>6
    <3>8. t.data # <<>> => Budget(t.f) >= Len(t.data)
      BY <3>3, <3>5, <3>6
    <3>9. t.blk \in Nat /\ t.part \in Nat /\ t.part < BS /\ t.size \in Nat /\ t.data \in Seq(Int)
      BY <2>1, <2>2, <3>5, <3>6, SMTT(30)
    <3> QED
      BY <3>2, <3>6, <3>7, <3>8, <3>9 DEF WriteInv
  <2>11. CASE direct
    <3>1. n = BS \/ Len(s.f.raw) <= at + n
      <4>1. n = BS \/ at + n >= s.size
        BY <2>11 DEF direct, at
      <4> QED
        BY <2>1, <2>2, <2>3, <2>4, <2>9, <4>1, SMTT(30) DEF Most
    <3>2. g = IO!CacheWrite(s.f, s.blk, chunk) /\ n <= BS /\ Budget(s.f) >= Budget(s.f) - 1
      BY <2>1, <2>2, <2>4, <2>9, <2>11
    <3> HIDE DEF g
    <3> QED
      BY <2>1, <2>4, <2>6, <2>8, <2>9, <2>10, <3>1, <3>2
  <2>12. CASE ~direct /\ s.blk > IO!LastNonEmpty(s.size)
    <3>1. s.size <= at
      BY <2>1, <2>12, LastIs DEF at
    <3>2. <<>> \in Seq(Int) /\ Len(<<>>) = 0
      BY EmptySeq
    <3>3. new \in Seq(Int) /\ Len(new) = Most(Len(<<>>), s.part + Len(chunk))
      BY <2>1, <2>6, <3>2, MergeIs
    <3> DEFINE l == s.part + n
    <3>4. l \in Nat \ {0} /\ l <= BS
      BY <2>1, <2>4
    <3>5. Len(new) = l
      BY <2>6, <3>2, <3>3, <3>4 DEF Most
    <3>6. g = IO!CacheWrite(s.f, s.blk, new) /\ Budget(s.f) >= Budget(s.f) - 1
      BY <2>9, <2>12
    <3>7. Len(s.f.raw) <= at + l
      BY <2>1, <2>3, <2>9, <3>1, <3>4 DEF Most
    <3> HIDE DEF g, new, l
    <3> QED
      BY <2>1, <2>8, <2>9, <2>10, <3>3, <3>4, <3>5, <3>6, <3>7
  <2>13. CASE ~direct /\ ~(s.blk > IO!LastNonEmpty(s.size))
    <3>1. /\ Well(r.f) /\ r.f.raw = s.f.raw /\ Ready(r.f, 1)
          /\ Budget(r.f) >= Budget(s.f) - 1
          /\ r.data \in Seq(Int) /\ Len(r.data) <= BS
          /\ Budget(s.f) >= 1 => Len(r.data) >= Least(BS, Len(Part(s.f, s.blk)))
      <4>1. BS \in Nat /\ BS <= BS
        BY <2>2
      <4> HIDE DEF r
      <4> QED
        BY <2>1, <4>1, CacheReadIs DEF r
    <3>2. Len(r.data) \in Nat /\ Budget(r.f) \in Int
      <4>1. r.f.reads \in Nat
        BY <3>1 DEF Well, FileSet
      <4> QED
        BY <3>1, <4>1, LenProperties DEF Budget
    <3>3. merged \in Seq(Int) /\ Len(merged) = Most(Len(r.data), s.part + Len(chunk))
      BY <2>1, <2>6, <3>1, MergeIs
    <3>4. g = IO!CacheWrite(r.f, s.blk, merged)
      BY <2>13
    <3> HIDE DEF g, merged, r
    <3> DEFINE l == Most(Len(r.data), s.part + n)
    <3>5. l \in Nat \ {0} /\ l <= BS
      BY <2>1, <2>4, <3>1, <3>2, SMTT(30) DEF Most
    <3>6. Len(Part(s.f, s.blk)) = IF Len(s.f.raw) <= at THEN 0
                                  ELSE Least(BS, Len(s.f.raw) - at)
      <4>1. s.f.raw \in Seq(Cell)
        BY <2>8 DEF FileSet
      <4> QED
        BY <2>1, <4>1, PartOf DEF at
    <3>7. l = BS \/ Len(s.f.raw) <= at + l
      <4>1. Len(r.data) >= Least(BS, Len(Part(s.f, s.blk)))
        BY <2>1, <2>2, <2>9, <3>1
      <4>2. CASE Len(s.f.raw) <= at
        BY <2>3, <2>9, <3>5, <4>2
      <4>3. CASE ~(Len(s.f.raw) <= at)
        <5>1. Len(r.data) >= Least(BS, Len(s.f.raw) - at)
          BY <2>2, <2>3, <2>9, <3>2, <3>6, <4>1, <4>3 DEF Least
        <5>2. l >= Least(BS, Len(s.f.raw) - at)
          <6>1. l >= Len(r.data) /\ l \in Nat
            BY <2>1, <2>4, <3>2 DEF Most
          <6>2. Least(BS, Len(s.f.raw) - at) \in Nat
            BY <2>2, <2>3, <2>9, <4>3 DEF Least
          <6> QED
            BY <3>2, <5>1, <6>1, <6>2
        <5> HIDE DEF l
        <5> QED
          BY <2>2, <2>3, <2>9, <3>5, <4>3, <5>2 DEF Least
      <4> QED
        BY <4>2, <4>3
    <3>8. Len(merged) = l
      BY <2>6, <3>3
    <3> HIDE DEF l
    <3> QED
      BY <2>10, <3>1, <3>2, <3>3, <3>4, <3>5, <3>7, <3>8
  <2> QED
    BY <2>11, <2>12, <2>13
<1> QED
  BY <1>1, <1>2

\* A write, in the file or beyond its end, leaves the file well and its cache true.
LEMMA WriteFileIs ==
    ASSUME NEW f, Well(f), Cached(f), Ready(f, 2), NEW off \in Nat,
           NEW data \in Seq(Int), data # <<>>, Budget(f) >= Len(data) + 1
    PROVE  LET g == IO!WriteFile(f, off, data) IN Well(g) /\ Cached(g)
<1> DEFINE size == Len(f.raw)
           h == IF off > size THEN IO!PadFile(f, size, off, FALSE) ELSE f
           e == [h EXCEPT !.ok = TRUE]
           start == [f |-> e, blk |-> off \div BS, part |-> off % BS,
                     size |-> size, data |-> data]
           m == IO!RoundsFor(Len(data))
           end == IO!Rounds(IO!WriteRound, start, m)
           at == (off \div BS) * BS
<1>1. IO!WriteFile(f, off, data) = end.f
  BY DEF IO!WriteFile, IO!WriteLoop, Size
<1>2. size \in Nat /\ Budget(f) \in Int /\ Len(data) \in Nat \ {0} /\ BS \in Nat \ {0}
  <2>1. f.raw \in Seq(Cell) /\ f.reads \in Nat
    BY DEF Well, FileSet
  <2> QED
    BY <2>1, LenProperties, EmptySeq, BlockAssumption DEF Budget
<1>3. off \div BS \in Nat /\ off % BS \in Nat /\ off % BS < BS /\ off = at + (off % BS) /\ at \in Nat
  BY DivIs, TimesIs
<1>4. m \in Nat
  BY <1>2, DivIs DEF IO!RoundsFor
<1>5. /\ Well(h) /\ Cached(h) /\ Ready(h, 2) /\ Budget(h) >= Budget(f) - 1
      /\ Len(h.raw) <= Most(size, at)
  <2>1. CASE off > size
    <3> DEFINE p == IO!PadFile(f, size, off, FALSE)
    <3>1. h = p
      BY <2>1
    <3>2. Budget(f) >= 1 /\ size < off /\ FALSE \in BOOLEAN
      BY <1>2, <2>1
    <3> HIDE DEF p
    <3>3. /\ Well(p) /\ Cached(p) /\ Ready(p, 2) /\ Budget(p) >= Budget(f) - 1
          /\ ~FALSE => Len(p.raw) <= Most(Len(f.raw), (off \div BS) * BS)
      BY <3>2, PadFileIs DEF p
    <3> HIDE DEF h
    <3> QED
      BY <3>1, <3>3
  <2>2. CASE ~(off > size)
    <3>1. h = f
      BY <2>2
    <3>2. Len(f.raw) <= Most(size, at)
      BY <1>2, <1>3, <2>2 DEF Most
    <3> HIDE DEF h
    <3> QED
      BY <1>2, <3>1, <3>2
  <2> QED
    BY <2>1, <2>2
<1> HIDE DEF h
<1>6. Well(e) /\ Cached(e) /\ Ready(e, 2) /\ Budget(e) = Budget(h) /\ e.raw = h.raw
  <2>1. h \in FileSet
    BY <1>5 DEF Well
  <2>2. /\ e \in FileSet /\ e.raw = h.raw /\ e.hdr = h.hdr /\ e.iv = h.iv /\ e.ext = h.ext
        /\ e.cblk = h.cblk /\ e.cdata = h.cdata /\ e.left = h.left /\ e.reads = h.reads
    BY <2>1 DEF FileSet
  <2> HIDE DEF e
  <2>3. Well(e)
    BY <1>5, <2>2 DEF Well, Matches
  <2>4. Cached(e)
    BY <1>5, <2>2 DEF Cached, Coherent, Within, Block, Part
  <2>5. Ready(e, 2) /\ Budget(e) = Budget(h)
    BY <1>5, <2>2 DEF Ready, Unread, Budget
  <2> QED
    BY <2>2, <2>3, <2>4, <2>5
<1> HIDE DEF e, size
<1>7. WriteInv(start)
  <2>1. Budget(e) >= Len(data)
    <3>1. Budget(h) \in Int
      <4>1. h.reads \in Nat
        BY <1>5 DEF Well, FileSet
      <4> QED
        BY <4>1 DEF Budget
    <3> QED
      BY <1>2, <1>5, <1>6, <3>1
  <2> QED
    BY <1>2, <1>3, <1>5, <1>6, <2>1 DEF WriteInv
<1> HIDE DEF start, m
<1>8. PICK g : /\ g[0] = start
               /\ \A k \in 1..m : g[k] = IO!WriteRound(g[k - 1])
               /\ IO!Rounds(IO!WriteRound, start, m) = g[m]
  BY <1>4, WriteRounds
<1> DEFINE K == {k \in 0..m : WriteInv(g[k])}
<1>9. 0 \in K
  BY <1>4, <1>7, <1>8
<1>10. ASSUME NEW k \in 1..m, k - 1 \in K PROVE k \in K
  <2>1. WriteInv(g[k - 1]) /\ g[k] = IO!WriteRound(g[k - 1])
    BY <1>8, <1>10
  <2>2. WriteInv(g[k])
    BY <2>1, WriteRoundKeeps
  <2> QED
    BY <2>2
<1> HIDE DEF K
<1>11. m \in K
  BY <1>4, <1>9, <1>10, UpTo
<1>12. WriteInv(end)
  BY <1>8, <1>11 DEF K
<1> QED
  BY <1>1, <1>12 DEF WriteInv

----------------------------------------------------------------------------
(* Truncation.                                                             *)

\* A whole block that two files have in common.
LEMMA SameBlock ==
    ASSUME NEW f, NEW g, f.raw \in Seq(Cell), g.raw \in Seq(Cell), NEW b \in Nat,
           b * BS + BS <= Len(f.raw), b * BS + BS <= Len(g.raw),
           \A i \in 1..Len(g.raw) : i <= Len(f.raw) => g.raw[i] = f.raw[i]
    PROVE  Block(g, b) = Block(f, b) /\ b * BS < Len(f.raw)
<1> DEFINE at == b * BS
           p == Part(f, b)
           q == Part(g, b)
<1>1. BS \in Nat \ {0} /\ at \in Nat /\ Len(f.raw) \in Nat /\ Len(g.raw) \in Nat
  BY BlockAssumption, LenProperties
<1>2. /\ p \in Seq(Cell)
      /\ Len(p) = (IF Len(f.raw) <= at THEN 0 ELSE Least(BS, Len(f.raw) - at))
      /\ \A i \in 1..Len(p) : p[i] = f.raw[at + i]
  <2>1. f.raw \in Seq(Cell) /\ b \in Nat
    OBVIOUS
  <2> QED
    BY ONLY <2>1, PartOf
<1>3. /\ q \in Seq(Cell)
      /\ Len(q) = (IF Len(g.raw) <= at THEN 0 ELSE Least(BS, Len(g.raw) - at))
      /\ \A i \in 1..Len(q) : q[i] = g.raw[at + i]
  <2>1. g.raw \in Seq(Cell) /\ b \in Nat
    OBVIOUS
  <2> QED
    BY ONLY <2>1, PartOf
<1>4. at + BS <= Len(f.raw) /\ at + BS <= Len(g.raw)
  OBVIOUS
<1>5. \A i \in 1..Len(g.raw) : i <= Len(f.raw) => g.raw[i] = f.raw[i]
  OBVIOUS
<1> HIDE DEF at, p, q
<1>6. Len(p) = BS /\ Len(q) = BS
  BY <1>1, <1>2, <1>3, <1>4 DEF Least
<1>7. ASSUME NEW i \in 1..BS PROVE q[i] = p[i]
  <2>1. at + i \in 1..Len(g.raw) /\ at + i <= Len(f.raw)
    BY <1>1, <1>4
  <2> QED
    BY <1>2, <1>3, <1>5, <1>6, <2>1
<1>8. p = q
  BY <1>1, <1>2, <1>3, <1>6, <1>7, SeqEqual
<1> QED
  BY <1>1, <1>4, <1>8 DEF Block, at, p, q

Resized(f, n) == [f EXCEPT !.raw = RawResize(f.raw, n)]

\* Nothing but the raw bytes changes when the raw file is resized.
LEMMA ResizedIs ==
    ASSUME NEW f, Well(f), ~Unread(f), NEW n \in Nat
    PROVE  LET g == Resized(f, n)
           IN /\ Well(g) /\ ~Unread(g) /\ Budget(g) = Budget(f)
              /\ g.cblk = f.cblk /\ g.cdata = f.cdata /\ g.threw = FALSE
              /\ Len(g.raw) = n /\ g.raw \in Seq(Cell) /\ f.raw \in Seq(Cell)
              /\ \A i \in 1..n : i <= Len(f.raw) => g.raw[i] = f.raw[i]
              /\ n = Len(f.raw) => g.raw = f.raw
<1> DEFINE g == Resized(f, n)
           r == RawResize(f.raw, n)
<1>1. f \in FileSet /\ f.raw \in Seq(Cell) /\ Matches(f) /\ Len(f.cdata) <= BS
  BY DEF Well, FileSet
<1>2. /\ r \in Seq(Cell) /\ Len(r) = n
      /\ \A i \in 1..n : i <= Len(f.raw) => r[i] = f.raw[i]
      /\ n = Len(f.raw) => r = f.raw
  BY <1>1, RawResizeIs
<1> HIDE DEF r
<1>3. g = [f EXCEPT !.raw = r]
  BY DEF Resized, r
<1> HIDE DEF g
<1>4. /\ g \in FileSet /\ g.raw = r /\ g.hdr = f.hdr /\ g.iv = f.iv /\ g.ext = f.ext
      /\ g.cblk = f.cblk /\ g.cdata = f.cdata /\ g.threw = FALSE /\ g.reads = f.reads
  BY <1>1, <1>2, <1>3 DEF FileSet
<1>5. Well(g) /\ ~Unread(g) /\ Budget(g) = Budget(f)
  BY <1>1, <1>4 DEF Well, Matches, Unread, Budget
<1> QED
  BY <1>1, <1>2, <1>4, <1>5 DEF g

\* The cache stays true when the file grows, if it is firm,
LEMMA GrownIs ==
    ASSUME NEW f, Well(f), ~Unread(f), Cached(f), NEW n \in Nat, Firm(f, n)
    PROVE  Cached(Resized(f, n))
<1> DEFINE g == Resized(f, n)
<1>1. /\ g.cblk = f.cblk /\ g.cdata = f.cdata
      /\ Len(g.raw) = n /\ g.raw \in Seq(Cell) /\ f.raw \in Seq(Cell)
      /\ \A i \in 1..n : i <= Len(f.raw) => g.raw[i] = f.raw[i]
      /\ n = Len(f.raw) => g.raw = f.raw
  BY ResizedIs
<1> HIDE DEF g
<1>2. CASE f.cdata = <<>>
  BY <1>1, <1>2 DEF Cached, Coherent, Within, g
<1>3. CASE n = Len(f.raw)
  BY <1>1, <1>3 DEF Cached, Coherent, Within, Block, Part, g
<1>4. CASE f.cdata # <<>> /\ n # Len(f.raw)
  <2>1. f.cblk * BS + BS <= Len(f.raw) /\ Len(f.raw) <= n
    BY <1>4 DEF Firm
  <2>2. f.cblk \in Nat /\ Len(f.raw) \in Nat /\ f.cblk * BS \in Nat /\ BS \in Nat \ {0}
    <3>1. f.cblk \in Nat
      BY DEF Well, FileSet
    <3> QED
      BY <1>1, <3>1, LenProperties, BlockAssumption
  <2>3. f.cblk * BS + BS <= Len(g.raw)
    BY <1>1, <2>1, <2>2
  <2>4. Block(g, f.cblk) = Block(f, f.cblk) /\ f.cblk * BS < Len(f.raw)
    <3>1. \A i \in 1..Len(g.raw) : i <= Len(f.raw) => g.raw[i] = f.raw[i]
      BY <1>1
    <3> QED
      BY <1>1, <2>1, <2>2, <2>3, <3>1, SameBlock
  <2>5. f.cdata = Block(g, f.cblk) /\ f.cblk * BS < n
    BY <1>4, <2>1, <2>2, <2>4 DEF Cached, Coherent
  <2> QED
    BY <1>1, <2>5 DEF Cached, Coherent, Within, g
<1> QED
  BY <1>2, <1>3, <1>4

\* and when it is cut to a block boundary, unless there may be holes;
LEMMA CutIs ==
    ASSUME NEW f, Well(f), ~Unread(f), Cached(f), NEW n \in Nat, n <= Len(f.raw),
           n % BS = 0, ~volume.holes
    PROVE  Cached(Resized(f, n))
<1> DEFINE g == Resized(f, n)
           q == n \div BS
<1>1. /\ g.cblk = f.cblk /\ g.cdata = f.cdata
      /\ Len(g.raw) = n /\ g.raw \in Seq(Cell) /\ f.raw \in Seq(Cell)
      /\ \A i \in 1..n : i <= Len(f.raw) => g.raw[i] = f.raw[i]
  BY ResizedIs
<1>2. q \in Nat /\ n = q * BS
  <2>1. q \in Nat /\ n % BS = 0 /\ n = q * BS + (n % BS) /\ q * BS \in Nat
    BY DivIs, TimesIs
  <2> QED
    BY <2>1
<1> HIDE DEF g, q
<1>3. ASSUME f.cdata # <<>>, f.cblk * BS < n PROVE f.cdata = Block(g, f.cblk)
  <2>1. f.cblk \in Nat /\ Len(f.raw) \in Nat /\ f.cblk * BS \in Nat /\ BS \in Nat \ {0}
    <3>1. f.cblk \in Nat
      BY DEF Well, FileSet
    <3> QED
      BY <1>1, <3>1, LenProperties, BlockAssumption
  <2>2. f.cblk * BS + BS <= n
    <3>1. f.cblk * BS < q * BS
      BY <1>2, <1>3
    <3>2. f.cblk < q
      BY <1>2, <2>1, <3>1, TimesIs
    <3>3. f.cblk * BS + BS <= q * BS
      BY <1>2, <2>1, <3>2, TimesIs
    <3> QED
      BY <1>2, <3>3
  <2>3. f.cblk * BS + BS <= Len(f.raw) /\ f.cblk * BS + BS <= Len(g.raw)
    BY <1>1, <2>1, <2>2
  <2>4. \A i \in 1..Len(g.raw) : i <= Len(f.raw) => g.raw[i] = f.raw[i]
    BY <1>1
  <2>5. Block(g, f.cblk) = Block(f, f.cblk) /\ f.cblk * BS < Len(f.raw)
    BY <1>1, <2>1, <2>3, <2>4, SameBlock
  <2> QED
    BY <1>3, <2>5 DEF Cached, Coherent
<1> QED
  BY <1>1, <1>3 DEF Cached, Coherent, Within, g

\* and when it is cut in the block that was just written.
LEMMA TrimmedIs ==
    ASSUME NEW f, Well(f), ~Unread(f), NEW n \in Nat, f.cdata # <<>>,
           n = f.cblk * BS + Len(f.cdata), n <= Len(f.raw),
           \A i \in 1..Len(f.cdata) :
             f.raw[f.cblk * BS + i] = Cells(f.cblk, BlockIV, f.cdata)[i]
    PROVE  Cached(Resized(f, n))
<1> DEFINE g == Resized(f, n)
           d == f.cdata
           b == f.cblk
           at == b * BS
           c == Cells(b, BlockIV, d)
<1>1. /\ g.cblk = b /\ g.cdata = d
      /\ Len(g.raw) = n /\ g.raw \in Seq(Cell) /\ f.raw \in Seq(Cell)
      /\ \A i \in 1..n : i <= Len(f.raw) => g.raw[i] = f.raw[i]
  BY ResizedIs
<1>2. b \in Nat /\ d \in Seq(Int) /\ Len(d) <= BS /\ d # <<>>
  BY DEF Well, FileSet
<1>3. at \in Nat /\ Len(d) \in Nat /\ Len(f.raw) \in Nat /\ n = at + Len(d) /\ n <= Len(f.raw)
  BY <1>1, <1>2, LenProperties, BlockAssumption
<1>4. \A i \in 1..Len(d) : f.raw[at + i] = c[i]
  OBVIOUS
<1> HIDE DEF g, d, b, at, c
<1>5. ASSUME NEW i \in 1..Len(d) PROVE g.raw[at + i] = c[i]
  <2>1. at + i \in 1..n /\ at + i <= Len(f.raw)
    BY <1>3
  <2> QED
    BY <1>1, <1>4, <2>1
<1>6. Block(g, b) = d /\ b * BS < Len(g.raw)
  <2>1. /\ Len(d) = BS \/ Len(g.raw) = b * BS + Len(d)
        /\ Len(g.raw) >= b * BS + Len(d)
        /\ \A i \in 1..Len(d) : g.raw[b * BS + i] = Cells(b, BlockIV, d)[i]
    BY <1>1, <1>3, <1>5 DEF at, c
  <2>2. g.raw \in Seq(Cell)
    BY <1>1
  <2> QED
    BY <1>2, <2>1, <2>2, WrittenIs, ZenonT(30)
<1> QED
  BY <1>1, <1>6 DEF Cached, Coherent, Within, g

\* A truncation the run includes leaves the file well and its cache true.
LEMMA TruncateFileIs ==
    ASSUME NEW f, Well(f), Cached(f), Ready(f, 2), Budget(f) >= 1, NEW n \in Nat,
           ~f.cuts /\ n # Len(f.raw) => ~volume.header /\ n % BS = 0,
           n > Len(f.raw) => volume.header,
           n < Len(f.raw) /\ n % BS = 0 => ~volume.holes,
           n < Len(f.raw) /\ n = 0 => volume.header
    PROVE  LET g == TruncateFile(f, n) IN Well(g) /\ Cached(g)
<1> DEFINE e == NeedHeader(f)
           old == Len(e.raw)
           at == (n \div BS) * BS
           part == n % BS
           x == IO!TruncateFile(e, n)
           g == TruncateFile(f, n)
<1>1. /\ Well(e) /\ ~Unread(e) /\ Beside(f, e) /\ Budget(e) = Budget(f)
      /\ e.cblk = f.cblk /\ e.cdata = f.cdata
  BY ReadyLess, NeedHeaderIs DEF Well
<1>2. g = IF volume.header /\ f.cuts THEN Resized(x, n) ELSE x
  BY DEF TruncateFile, Resized
<1> HIDE DEF e, g
<1>3. /\ e \in FileSet /\ e.threw = FALSE /\ e.raw \in Seq(Cell) /\ old \in Nat
      /\ e.raw = f.raw /\ e.cuts = f.cuts /\ e.cuts \in BOOLEAN /\ BS \in Nat \ {0}
  <2>1. e \in FileSet
    BY <1>1 DEF Well
  <2>2. e.threw = FALSE /\ e.raw \in Seq(Cell) /\ e.cuts \in BOOLEAN
    BY <2>1 DEF FileSet
  <2> QED
    BY <1>1, <2>1, <2>2, LenProperties, BlockAssumption DEF Beside
<1>4. Cached(e) /\ Ready(e, 2) /\ Ready(e, 1)
  BY <1>1, <1>3 DEF Cached, Coherent, Within, Block, Part, Ready
<1>5. /\ ~e.cuts /\ n # old => ~volume.header /\ part = 0
      /\ n > old => volume.header
      /\ n < old /\ part = 0 => ~volume.holes
      /\ n < old /\ n = 0 => volume.header
  BY <1>3
<1>6. /\ at \in Nat /\ part \in Nat /\ part < BS /\ n = at + part /\ n \div BS \in Nat
  BY DivIs, TimesIs
<1>7. ASSUME NEW y, y.threw = FALSE
      PROVE  /\ CutRaw(y, n) = IF volume.header \/ n = 0 THEN y
                               ELSE IF y.cuts THEN Resized(y, n) ELSE [y EXCEPT !.uncut = TRUE]
  BY DEF CutRaw, Resized
<1> DEFINE Cut(y) == IF y.threw THEN y ELSE CutRaw(y, n)
           kept == IO!CacheRead(e, n \div BS, BS)
           data == SubSeq(IO!Padded(kept.data, IO!Most(part, Len(kept.data))), 1, part)
           p == IO!PadFile(Cut(e), old, n, TRUE)
           w == IO!CacheWrite(Cut(kept.f), n \div BS, data)
<1>8. /\ n > old => x = [p EXCEPT !.uncut = FALSE]
      /\ n = old => x = e
      /\ n < old /\ part # 0 => x = w
      /\ n < old /\ part = 0 => x = Cut(e)
  <2>1. x = CASE n > old -> [p EXCEPT !.uncut = FALSE]
              [] n = old -> e
              [] n < old /\ part # 0 -> w
              [] OTHER -> Cut(e)
    BY DEF IO!TruncateFile, Size
  <2>2. old \in Nat
    BY <1>3
  <2> HIDE DEF x, p, w, part, old, Cut
  <2> QED
    BY <2>1, <2>2
<1> HIDE DEF x, p, w
<1>9. CASE n > old
  <2>1. volume.header /\ f.cuts
    BY <1>3, <1>5, <1>9
  <2>2. Cut(e) = e
    BY <1>3, <1>7, <2>1
  <2>3. p = IO!PadFile(e, Len(e.raw), n, TRUE)
    BY <2>2 DEF p
  <2>4. Budget(e) >= 1 /\ Len(e.raw) < n /\ TRUE \in BOOLEAN
    BY <1>1, <1>3, <1>9
  <2>5. Well(p) /\ Cached(p) /\ (TRUE => Firm(p, n)) /\ (~Unread(e) => ~Unread(p))
    BY <1>1, <1>4, <2>3, <2>4, PadFileIs
  <2>6. /\ x \in FileSet /\ x.raw = p.raw /\ x.hdr = p.hdr /\ x.iv = p.iv /\ x.ext = p.ext
        /\ x.cblk = p.cblk /\ x.cdata = p.cdata
    <3>1. p \in FileSet /\ x = [p EXCEPT !.uncut = FALSE]
      BY <1>8, <1>9, <2>5 DEF Well
    <3> QED
      BY <3>1 DEF FileSet
  <2>7. Well(x) /\ ~Unread(x)
    BY <1>1, <2>5, <2>6 DEF Well, Matches, Unread
  <2>8. Cached(x) /\ Firm(x, n)
    BY <2>5, <2>6 DEF Cached, Coherent, Within, Block, Part, Firm
  <2>9. Well(Resized(x, n)) /\ Cached(Resized(x, n))
    BY <2>7, <2>8, ResizedIs, GrownIs
  <2> QED
    BY <1>2, <2>1, <2>9 DEF g
<1>10. CASE n = old
  <2>1. x = e
    BY <1>8, <1>10
  <2>2. Firm(e, n)
    BY <1>10 DEF Firm
  <2>3. Well(Resized(x, n)) /\ Cached(Resized(x, n))
    BY <1>1, <1>4, <2>1, <2>2, ResizedIs, GrownIs
  <2> QED
    BY <1>1, <1>2, <1>4, <2>1, <2>3 DEF g
<1>11. CASE n < old /\ part = 0
  <2>1. x = Cut(e) /\ ~volume.holes
    BY <1>5, <1>8, <1>11
  <2>2. Well(Resized(e, n)) /\ Cached(Resized(e, n))
    <3>1. n <= Len(e.raw) /\ n % BS = 0
      BY <1>3, <1>11
    <3> QED
      BY <1>1, <1>4, <2>1, <3>1, ResizedIs, CutIs
  <2>3. CASE volume.header
    <3>1. f.cuts /\ x = e
      <4>1. e.cuts
        BY <1>3, <1>5, <1>11, <2>3
      <4>2. Cut(e) = e
        BY <1>3, <1>7, <2>3
      <4> QED
        BY <1>3, <2>1, <4>1, <4>2
    <3> QED
      BY <1>2, <2>2, <2>3, <3>1 DEF g
  <2>4. CASE ~volume.header /\ e.cuts
    <3>1. x = Resized(e, n) /\ g = x
      BY <1>2, <1>3, <1>5, <1>7, <1>11, <2>1, <2>4
    <3> QED
      BY <2>2, <3>1 DEF g
  <2>5. CASE ~volume.header /\ ~e.cuts
    <3>1. x = [e EXCEPT !.uncut = TRUE] /\ g = x
      BY <1>2, <1>3, <1>5, <1>7, <1>11, <2>1, <2>5
    <3>2. /\ x \in FileSet /\ x.raw = e.raw /\ x.hdr = e.hdr /\ x.iv = e.iv /\ x.ext = e.ext
          /\ x.cblk = e.cblk /\ x.cdata = e.cdata
      BY <1>3, <3>1 DEF FileSet
    <3>3. Well(x) /\ Cached(x)
      BY <1>1, <1>4, <3>2 DEF Well, Matches, Cached, Coherent, Within, Block, Part
    <3> QED
      BY <3>1, <3>3 DEF g
  <2> QED
    BY <2>3, <2>4, <2>5
<1>12. CASE n < old /\ part # 0
  <2>1. e.cuts /\ x = w
    BY <1>3, <1>5, <1>8, <1>12
  <2> HIDE DEF kept
  <2>2. /\ Well(kept.f) /\ kept.f.raw = e.raw /\ kept.f.cuts = e.cuts /\ Ready(kept.f, 1)
        /\ kept.data \in Seq(Int) /\ Len(kept.data) <= BS
    <3>1. BS \in Nat /\ BS <= BS
      BY <1>3
    <3> QED
      BY <1>1, <1>4, <1>6, <3>1, CacheReadIs DEF kept
  <2>3. Len(kept.data) \in Nat /\ kept.f.threw = FALSE
    BY <2>2, LenProperties DEF Well, FileSet
  <2>4. data \in Seq(Int) /\ Len(data) = part
    <3> DEFINE m == IO!Most(part, Len(kept.data))
               s == IO!Padded(kept.data, m)
    <3>1. m \in Nat /\ part <= m /\ Len(kept.data) <= m
      BY <1>6, <2>3 DEF IO!Most
    <3> HIDE DEF m
    <3>2. s \in Seq(Int) /\ Len(s) = m
      BY <2>2, <3>1, PaddedIs
    <3> HIDE DEF s
    <3>3. /\ SubSeq(s, 1, part) \in Seq(Int)
          /\ Len(SubSeq(s, 1, part)) = (IF 1 <= part THEN part - 1 + 1 ELSE 0)
      BY <1>6, <3>1, <3>2, PartIs
    <3>4. SubSeq(s, 1, part) \in Seq(Int) /\ Len(SubSeq(s, 1, part)) = part
      BY <1>6, <1>12, <3>3
    <3> QED
      BY <3>4 DEF m, s
  <2> HIDE DEF data
  <2>5. part \in Nat \ {0} /\ part <= BS
    BY <1>3, <1>6, <1>12
  <2>6. data # <<>> /\ Len(data) <= BS
    BY <2>4, <2>5, EmptySeq
  <2>7. CASE volume.header
    <3>1. x = IO!CacheWrite(kept.f, n \div BS, data) /\ g = Resized(x, n)
      BY <1>2, <1>3, <1>7, <2>1, <2>3, <2>7 DEF w
    <3>2. /\ Well(x) /\ ~Unread(x)
          /\ ~x.ok => x.cdata = <<>>
          /\ x.ok => x.cblk = n \div BS /\ x.cdata = data
      BY <1>6, <2>2, <2>4, <2>6, <3>1, CacheWriteIs, SMTT(30)
    <3>3. x.ok => /\ Len(x.raw) = Most(Len(kept.f.raw), (n \div BS) * BS + Len(data))
                  /\ \A i \in 1..Len(data) :
                       x.raw[(n \div BS) * BS + i] = Cells(n \div BS, BlockIV, data)[i]
      BY <1>6, <2>2, <2>4, <2>6, <3>1, CacheWriteIs, SMTT(30)
    <3>4. CASE ~x.ok
      <4>1. Firm(x, n) /\ Cached(x)
        BY <3>2, <3>4 DEF Firm, Cached, Coherent, Within
      <4> QED
        BY <3>1, <3>2, <4>1, ResizedIs, GrownIs DEF g
    <3>5. CASE x.ok
      <4>1. n = x.cblk * BS + Len(x.cdata) /\ n <= Len(x.raw) /\ x.cdata # <<>>
        <5>1. Len(x.raw) = Most(old, at + part) /\ n = at + part
          BY <1>6, <2>2, <2>4, <3>3, <3>5
        <5>2. n <= Len(x.raw)
          <6>1. \A a, b \in Nat : b <= Most(a, b)
            BY DEF Most
          <6>2. old \in Nat /\ at + part \in Nat
            BY <1>3, <1>6
          <6> QED
            BY <5>1, <6>1, <6>2
        <5> QED
          BY <2>4, <2>6, <3>2, <3>5, <5>1, <5>2
      <4>2. \A i \in 1..Len(x.cdata) :
              x.raw[x.cblk * BS + i] = Cells(x.cblk, BlockIV, x.cdata)[i]
        BY <3>2, <3>3, <3>5
      <4>3. Well(Resized(x, n)) /\ Cached(Resized(x, n))
        BY <3>2, <4>1, <4>2, ResizedIs, TrimmedIs
      <4> QED
        BY <3>1, <4>3 DEF g
    <3> QED
      BY <3>4, <3>5
  <2>8. CASE ~volume.header
    <3> DEFINE c == Resized(kept.f, n)
    <3>1. n # 0 /\ kept.f.cuts
      BY <1>5, <1>6, <1>12, <2>1, <2>2, <2>8
    <3>2. x = IO!CacheWrite(c, n \div BS, data) /\ g = x
      BY <1>2, <1>7, <2>1, <2>3, <2>8, <3>1 DEF w
    <3>3. ~Unread(kept.f)
      BY <2>8 DEF Unread
    <3>4. Well(c) /\ ~Unread(c) /\ Len(c.raw) = n
      BY <2>2, <3>3, ResizedIs
    <3> HIDE DEF c
    <3>5. Ready(c, 1) /\ Len(c.raw) <= (n \div BS) * BS + part
      BY <1>6, <3>4 DEF Ready
    <3>6. Well(x) /\ Cached(x)
      BY <1>6, <2>4, <2>5, <3>2, <3>4, <3>5, CoverIs
    <3> QED
      BY <3>2, <3>6 DEF g
  <2> QED
    BY <2>7, <2>8
<1> QED
  BY <1>3, <1>9, <1>10, <1>11, <1>12

----------------------------------------------------------------------------
(* The encrypted file.                                                     *)

\* The file and the node as they are between two calls.
Resting == Current(0, 0, TRUE)

\* Between two calls the cache is true; so is the header, except between the two steps of
\* a rename, which has the file's IV in its hands.
BlockInv ==
    /\ volume \in Volumes
    /\ raw \in Seq(Cell)
    /\ hdr \in {NoHdr} \cup [iv : {FileIV}, ext : Exts]
    /\ node \in [iv : IVs, ext : Exts, cblk : Nat, cdata : Seq(Int)]
    /\ Len(node.cdata) <= BS
    /\ Cached(Resting)
    /\ moving = 0 => Matches(Resting)
    /\ moving # 0 => /\ moving = FileIV /\ volume.header /\ node.iv = Unknown
                     /\ hdr # NoHdr

\* The file a call works on, well and its cache true between two calls.
LEMMA CurrentIs ==
    ASSUME BlockInv, moving = 0, NEW left \in Nat, NEW reads \in Nat, NEW cuts \in BOOLEAN
    PROVE  LET f == Current(left, reads, cuts)
           IN /\ Well(f) /\ Cached(f) /\ f.raw = raw /\ f.hdr = hdr /\ f.iv = node.iv
              /\ f.ext = node.ext /\ f.left = left /\ f.reads = reads /\ f.cuts = cuts
              /\ f.cblk = node.cblk /\ f.cdata = node.cdata
<1> DEFINE f == Current(left, reads, cuts)
           e == Resting
<1>1. /\ f \in FileSet /\ f.raw = raw /\ f.hdr = hdr /\ f.iv = node.iv
      /\ f.ext = node.ext /\ f.left = left /\ f.reads = reads /\ f.cuts = cuts
      /\ f.cblk = node.cblk /\ f.cdata = node.cdata
  BY DEF BlockInv, Current, FileSet
<1>2. /\ e.raw = raw /\ e.hdr = hdr /\ e.iv = node.iv /\ e.ext = node.ext
      /\ e.cblk = node.cblk /\ e.cdata = node.cdata
  BY DEF Resting, Current
<1>3. Cached(e) /\ Matches(e) /\ Len(node.cdata) <= BS
  BY DEF BlockInv
<1> HIDE DEF f, e
<1>4. Well(f)
  BY <1>1, <1>2, <1>3 DEF Well, Matches
<1>5. Cached(f)
  BY <1>1, <1>2, <1>3 DEF Cached, Coherent, Within, Block, Part
<1> QED
  BY <1>1, <1>4, <1>5 DEF f

\* The same where the raw file can be cut.
LEMMA CallIs ==
    ASSUME BlockInv, moving = 0, NEW left \in Nat, NEW reads \in Nat
    PROVE  LET f == Current(left, reads, TRUE)
           IN /\ Well(f) /\ Cached(f) /\ f.raw = raw /\ f.hdr = hdr /\ f.iv = node.iv
              /\ f.ext = node.ext /\ f.left = left /\ f.reads = reads
<1> DEFINE f == Current(left, reads, TRUE)
<1>1. TRUE \in BOOLEAN
  OBVIOUS
<1>2. /\ Well(f) /\ Cached(f) /\ f.raw = raw /\ f.hdr = hdr /\ f.iv = node.iv
      /\ f.ext = node.ext /\ f.left = left /\ f.reads = reads
  BY <1>1, CurrentIs, ZenonT(30)
<1> QED
  BY <1>2

\* What a call does to the file and leaves well keeps the invariant.
LEMMA CommitKeeps ==
    ASSUME BlockInv, moving = 0, NEW f, Well(f), Cached(f), Commit(f)
    PROVE  BlockInv'
<1> DEFINE e == Resting'
<1>1. /\ raw' = f.raw /\ hdr' = f.hdr /\ volume' = volume /\ moving' = 0
      /\ node' = [iv |-> f.iv, ext |-> f.ext, cblk |-> f.cblk, cdata |-> f.cdata]
  BY DEF Commit
<1>2. /\ f.raw \in Seq(Cell) /\ f.hdr \in {NoHdr} \cup [iv : {FileIV}, ext : Exts]
      /\ f.iv \in IVs /\ f.ext \in Exts /\ f.cblk \in Nat /\ f.cdata \in Seq(Int)
      /\ Len(f.cdata) <= BS /\ Matches(f)
  BY DEF Well, FileSet
<1>3. /\ e.raw = f.raw /\ e.hdr = f.hdr /\ e.iv = f.iv /\ e.ext = f.ext
      /\ e.cblk = f.cblk /\ e.cdata = f.cdata
  BY <1>1 DEF Resting, Current
<1> HIDE DEF e
<1>4. Matches(Resting)'
  BY <1>1, <1>2, <1>3 DEF Matches, HeaderOf, e
<1>5. Cached(Resting)'
  BY <1>1, <1>3 DEF Cached, Coherent, Within, Block, Part, Decode, BlockIV, e
<1> QED
  BY <1>1, <1>2, <1>4, <1>5 DEF BlockInv

\* A file that was just made.
LEMMA BlockInitInv == ASSUME Init PROVE BlockInv
<1>1. /\ volume \in Volumes /\ raw = <<>> /\ hdr = NoHdr /\ moving = 0
      /\ node \in [iv : {Unknown}, ext : Exts, cblk : {0}, cdata : {<<>>}]
  BY DEF Init
<1>2. <<>> \in Seq(Cell) /\ <<>> \in Seq(Int) /\ Len(<<>>) = 0
  BY EmptySeq
<1>3. /\ node \in [iv : IVs, ext : Exts, cblk : Nat, cdata : Seq(Int)]
      /\ node.cdata = <<>> /\ node.iv = Unknown /\ Len(node.cdata) <= BS
  <2>1. PICK ext \in Exts : node = [iv |-> Unknown, ext |-> ext, cblk |-> 0, cdata |-> <<>>]
    BY <1>1
  <2> QED
    BY <1>2, <2>1, BlockAssumption
<1>4. Cached(Resting)
  BY <1>3 DEF Cached, Coherent, Within, Resting, Current
<1>5. Matches(Resting)
  BY <1>1, <1>3 DEF Matches, Resting, Current
<1> QED
  BY <1>1, <1>2, <1>3, <1>4, <1>5 DEF BlockInv

\* Plenty is more reads and writes than any call makes.
LEMMA PlentyIs == Plenty \in Nat /\ Plenty >= 2 /\ Plenty - 1 >= MaxSize + 1 /\ MaxSize \in Nat
BY BlockAssumption DEF Plenty

\* No call is one that changes the file or the node unnoticed: what is left of the
\* unsafe ones are reads that answer wrongly.
Calm == Unsafe \subseteq {"short read", "past end"}

\* Each unsafe call that is left out.
LEMMA CalmIs ==
    ASSUME Calm
    PROVE  /\ "renaming" \notin Unsafe /\ "unread header" \notin Unsafe
           /\ "lost header" \notin Unsafe /\ "failed merge" \notin Unsafe
           /\ "unnoticed failure" \notin Unsafe /\ "refused cut" \notin Unsafe
           /\ "extend" \notin Unsafe /\ "stale hole" \notin Unsafe /\ "to nothing" \notin Unsafe
BY DEF Calm

\* Each call and each step of a rename keeps the invariant.
LEMMA ReadKeeps == ASSUME BlockInv, Calm, Read PROVE BlockInv'
<1>1. moving = 0
  BY CalmIs, Zenon DEF Read, MayRun
<1>2. PICK off \in 0..MaxSize, n \in Sizes, reads \in {0, 1, Plenty} :
        /\ hdr # NoHdr /\ node.iv = Unknown => reads = Plenty
        /\ Commit(IO!ReadFile(Current(Plenty, reads, TRUE), off, n).f)
  BY CalmIs, Zenon DEF Read
<1> DEFINE f == Current(Plenty, reads, TRUE)
           r == IO!ReadFile(f, off, n)
<1>3. off \in Nat /\ n \in Nat /\ reads \in Nat /\ Plenty \in Nat
  BY PlentyIs, BlockAssumption
<1>4. /\ Well(f) /\ Cached(f) /\ f.hdr = hdr /\ f.iv = node.iv
      /\ f.left = Plenty /\ f.reads = reads
  BY <1>1, <1>3, CallIs
<1> HIDE DEF f
<1>5. Ready(f, 2)
  BY <1>2, <1>4, PlentyIs DEF Ready, Unread
<1>6. Well(r.f) /\ Cached(r.f)
  BY <1>3, <1>4, <1>5, ReadFileIs
<1>7. Commit(r.f)
  BY <1>2 DEF f
<1> HIDE DEF r
<1> QED
  BY <1>1, <1>6, <1>7, CommitKeeps

LEMMA WriteKeeps == ASSUME BlockInv, Calm, Write PROVE BlockInv'
<1>1. moving = 0
  BY CalmIs, Zenon DEF Write, MayRun
<1>2. PICK data \in Data, off \in 0..MaxSize, left \in {0, 1, Plenty}, reads \in {0, Plenty} :
        /\ off + Len(data) <= MaxSize
        /\ volume.header /\ hdr = NoHdr => left # 0
        /\ reads = Plenty
        /\ Commit(IO!WriteFile(Current(left, reads, TRUE), off, data))
  BY CalmIs, Zenon DEF Write
<1> DEFINE f == Current(left, reads, TRUE)
           g == IO!WriteFile(f, off, data)
<1>3. /\ off \in Nat /\ reads = Plenty /\ reads \in Nat /\ left \in Nat
  BY <1>2, PlentyIs, BlockAssumption
<1>4. /\ Well(f) /\ Cached(f) /\ f.hdr = hdr /\ f.iv = node.iv
      /\ f.left = left /\ f.reads = Plenty
  <2>1. /\ Well(f) /\ Cached(f) /\ f.hdr = hdr /\ f.iv = node.iv
        /\ f.left = left /\ f.reads = reads
    <3>1. left \in Nat /\ reads \in Nat
      BY <1>3
    <3> QED
      BY <1>1, <3>1, CallIs
  <2> HIDE DEF f
  <2> QED
    BY <1>3, <2>1
<1> HIDE DEF f
<1>5. data \in Seq(Int) /\ data # <<>> /\ Len(data) \in Nat /\ Len(data) <= MaxSize
  <2>1. data \in Seq(Nat) /\ data # <<>>
    BY BlockAssumption
  <2>2. data \in Seq(Int)
    <3>1. data \in [1..Len(data) -> Nat] /\ Len(data) \in Nat
      BY <2>1, LenProperties
    <3>2. data \in [1..Len(data) -> Int]
      BY <3>1
    <3> QED
      BY <3>1, <3>2, SeqDef
  <2> QED
    BY <1>2, <1>3, <2>1, <2>2, LenProperties, BlockAssumption
<1>6. Ready(f, 2)
  BY <1>2, <1>3, <1>4, PlentyIs DEF Ready, Unread
<1>7. Budget(f) >= Len(data) + 1
  BY <1>4, <1>5, PlentyIs DEF Budget
<1>8. Well(g) /\ Cached(g)
  BY <1>3, <1>4, <1>5, <1>6, <1>7, WriteFileIs
<1>9. Commit(g)
  BY <1>2 DEF f
<1> HIDE DEF g
<1> QED
  BY <1>1, <1>8, <1>9, CommitKeeps

LEMMA TruncateKeeps == ASSUME BlockInv, Calm, Truncate PROVE BlockInv'
<1>1. moving = 0
  BY CalmIs, Zenon DEF Truncate, MayRun
<1>2. PICK n \in 0..MaxSize, left \in {0, 1, Plenty}, reads \in {0, Plenty}, cuts \in BOOLEAN :
        /\ left # Plenty => "unnoticed failure" \in Unsafe
        /\ reads # Plenty => "failed merge" \in Unsafe
        /\ ~cuts /\ n # Len(raw) /\ (volume.header \/ n % BS # 0) => "refused cut" \in Unsafe
        /\ n > Len(raw) /\ ~volume.header => "extend" \in Unsafe
        /\ n < Len(raw) /\ n % BS = 0 /\ volume.holes => "stale hole" \in Unsafe
        /\ n < Len(raw) /\ n = 0 /\ ~volume.header => "to nothing" \in Unsafe
        /\ Commit(TruncateFile(Current(left, reads, cuts), n))
        /\ ret' = IF TruncateFile(Current(left, reads, cuts), n).uncut
                   THEN Failed(<<"truncate", n>>) ELSE Ok(<<"truncate", n>>)
  BY Zenon DEF Truncate
<1>3. /\ left = Plenty /\ reads = Plenty
      /\ ~cuts /\ n # Len(raw) => ~volume.header /\ n % BS = 0
      /\ n > Len(raw) => volume.header
      /\ n < Len(raw) /\ n % BS = 0 => ~volume.holes
      /\ n < Len(raw) /\ n = 0 => volume.header
      /\ Commit(TruncateFile(Current(left, reads, cuts), n))
  BY <1>2, CalmIs, Zenon
<1> DEFINE f == Current(left, reads, cuts)
           g == TruncateFile(f, n)
<1>4. n \in Nat /\ reads = Plenty /\ left = Plenty /\ Plenty \in Nat
  BY <1>3, PlentyIs, BlockAssumption
<1>5. /\ Well(f) /\ Cached(f) /\ f.raw = raw /\ f.cuts = cuts
      /\ f.left = Plenty /\ f.reads = Plenty
  <2>1. reads \in Nat /\ left \in Nat
    BY <1>4
  <2>2. /\ Well(f) /\ Cached(f) /\ f.raw = raw /\ f.cuts = cuts
        /\ f.left = left /\ f.reads = reads
    BY <1>1, <2>1, CurrentIs
  <2> HIDE DEF f
  <2> QED
    BY <1>4, <2>2
<1> HIDE DEF f
<1>6. Ready(f, 2) /\ Budget(f) >= 1
  BY <1>5, PlentyIs DEF Ready, Budget
<1>7. /\ ~f.cuts /\ n # Len(f.raw) => ~volume.header /\ n % BS = 0
      /\ n > Len(f.raw) => volume.header
      /\ n < Len(f.raw) /\ n % BS = 0 => ~volume.holes
      /\ n < Len(f.raw) /\ n = 0 => volume.header
  BY <1>5, <1>3
<1>8. Well(g) /\ Cached(g)
  BY <1>4, <1>5, <1>6, <1>7, TruncateFileIs
<1>9. Commit(g)
  BY <1>3 DEF f
<1> HIDE DEF g
<1> QED
  BY <1>1, <1>8, <1>9, CommitKeeps

\* A step that leaves the file and what is cached as they are leaves the cache true.
LEMMA SameCache ==
    ASSUME Cached(Resting), volume' = volume, raw' = raw,
           node'.cblk = node.cblk, node'.cdata = node.cdata
    PROVE  Cached(Resting)'
<1> DEFINE e == Resting'
<1>1. /\ Resting.raw = raw /\ Resting.cblk = node.cblk /\ Resting.cdata = node.cdata
      /\ e.raw = raw' /\ e.cblk = node'.cblk /\ e.cdata = node'.cdata
  BY DEF Resting, Current
<1>2. BlockIV' = BlockIV
  BY DEF BlockIV
<1> HIDE DEF e
<1>3. e.raw = Resting.raw /\ e.cblk = Resting.cblk /\ e.cdata = Resting.cdata
  BY <1>1
<1>4. Coherent(Resting)'
  <2>1. Part(Resting, Resting.cblk)' = Part(Resting, Resting.cblk)
    BY <1>3 DEF Part, e
  <2>2. Block(Resting, Resting.cblk)' = Block(Resting, Resting.cblk)
    BY <1>2, <1>3, <2>1 DEF Block, Decode, e
  <2> QED
    BY <1>3, <2>2 DEF Cached, Coherent, e
<1>5. Within(Resting)'
  BY <1>3 DEF Cached, Within, e
<1> QED
  BY <1>4, <1>5 DEF Cached

LEMMA StartRenameKeeps == ASSUME BlockInv, StartRename PROVE BlockInv'
<1> DEFINE f == Current(Plenty, Plenty, TRUE)
           g == NeedHeader(f)
<1>1. PICK ext \in Exts :
        /\ moving = 0 /\ volume.header /\ raw' = g.raw /\ hdr' = g.hdr
        /\ node' = [node EXCEPT !.ext = ext, !.iv = Unknown] /\ moving' = g.iv
        /\ volume' = volume
  BY DEF StartRename
<1>2. Plenty \in Nat
  BY PlentyIs
<1>3. /\ Well(f) /\ f.raw = raw /\ f.ext = node.ext /\ f.left = Plenty /\ f.reads = Plenty
  BY <1>1, <1>2, CallIs
<1> HIDE DEF f
<1>4. Ready(f, 1) /\ f.ext \in Exts
  BY <1>3, PlentyIs DEF Ready, Well, FileSet
<1>5. g.iv = BlockIV /\ g.hdr = HeaderOf(f.ext) /\ g.raw = raw
  BY <1>1, <1>3, <1>4, NeedHeaderIs DEF Beside
<1> HIDE DEF g
<1>6. /\ raw' = raw /\ moving' = FileIV /\ hdr' = HeaderOf(f.ext)
      /\ hdr' \in [iv : {FileIV}, ext : Exts] /\ hdr' # NoHdr
  BY <1>1, <1>4, <1>5, HeaderTyped DEF BlockIV
<1>7. /\ node' \in [iv : IVs, ext : Exts, cblk : Nat, cdata : Seq(Int)]
      /\ node'.iv = Unknown /\ node'.cblk = node.cblk /\ node'.cdata = node.cdata
  BY <1>1 DEF BlockInv
<1>8. Cached(Resting)'
  BY <1>1, <1>6, <1>7, SameCache DEF BlockInv
<1> QED
  BY <1>1, <1>6, <1>7, <1>8 DEF BlockInv

LEMMA FinishRenameKeeps == ASSUME BlockInv, FinishRename PROVE BlockInv'
<1> DEFINE e == Resting'
<1>1. /\ moving = FileIV /\ volume.header /\ node.iv = Unknown
      /\ hdr' = [iv |-> moving, ext |-> node.ext] /\ moving' = 0
      /\ volume' = volume /\ raw' = raw /\ node' = node
  BY DEF FinishRename, BlockInv
<1>2. node.ext \in Exts
  BY DEF BlockInv
<1>3. hdr' = HeaderOf(node.ext) /\ hdr' \in [iv : {FileIV}, ext : Exts]
  BY <1>1, <1>2, HeaderTyped DEF HeaderOf
<1>4. /\ Resting.raw = raw /\ Resting.cblk = node.cblk /\ Resting.cdata = node.cdata
      /\ e.raw = raw' /\ e.cblk = node'.cblk /\ e.cdata = node'.cdata
      /\ e.hdr = hdr' /\ e.ext = node'.ext
  BY DEF Resting, Current
<1>5. Cached(Resting)
  BY DEF BlockInv
<1> HIDE DEF e
<1>6. Cached(Resting)'
  BY <1>1, <1>5, SameCache
<1>7. Matches(Resting)'
  BY <1>1, <1>3, <1>4 DEF Matches, HeaderOf, e
<1> QED
  BY <1>1, <1>3, <1>6, <1>7 DEF BlockInv

LEMMA ReopenKeeps == ASSUME BlockInv, Reopen PROVE BlockInv'
<1> DEFINE e == Resting'
<1>1. /\ moving = 0 /\ moving' = 0 /\ volume' = volume /\ raw' = raw /\ hdr' = hdr
      /\ node' = [iv |-> Unknown, ext |-> node.ext, cblk |-> 0, cdata |-> <<>>]
  BY DEF Reopen
<1>2. <<>> \in Seq(Int) /\ Len(<<>>) <= BS
  BY EmptySeq, BlockAssumption
<1>3. /\ node' \in [iv : IVs, ext : Exts, cblk : Nat, cdata : Seq(Int)]
      /\ Len(node'.cdata) <= BS
  BY <1>1, <1>2 DEF BlockInv
<1>4. /\ Resting.raw = raw /\ Resting.hdr = hdr /\ Resting.ext = node.ext
      /\ e.raw = raw' /\ e.hdr = hdr' /\ e.ext = node'.ext /\ e.iv = node'.iv
      /\ e.cdata = node'.cdata
  BY DEF Resting, Current
<1>5. Matches(Resting)
  BY <1>1 DEF BlockInv
<1> HIDE DEF e
<1>6. Cached(Resting)'
  BY <1>1, <1>4 DEF Cached, Coherent, Within, e
<1>7. Matches(Resting)'
  BY <1>1, <1>4, <1>5 DEF Matches, HeaderOf, e
<1> QED
  BY <1>1, <1>3, <1>6, <1>7 DEF BlockInv

\* BlockInv holds in every state, for blocks of any size, files of any length and any
\* number of paths, whichever reads and writes fail, as long as no call is one that
\* BlockFileIO and CipherFileIO let change a block or a header unnoticed.
THEOREM BlockInvariant == ASSUME Calm PROVE Spec => []BlockInv
<1>1. Init => BlockInv
  BY BlockInitInv
<1>2. BlockInv /\ [Next]_vars => BlockInv'
  <2> SUFFICES ASSUME BlockInv, [Next]_vars PROVE BlockInv'
    OBVIOUS
  <2>1. CASE Read
    BY <2>1, ReadKeeps
  <2>2. CASE Write
    BY <2>2, WriteKeeps
  <2>3. CASE Truncate
    BY <2>3, TruncateKeeps
  <2>4. CASE StartRename
    BY <2>4, StartRenameKeeps
  <2>5. CASE FinishRename
    BY <2>5, FinishRenameKeeps
  <2>6. CASE Reopen
    BY <2>6, ReopenKeeps
  <2>7. CASE UNCHANGED vars
    <3>1. /\ volume' = volume /\ raw' = raw /\ hdr' = hdr /\ node' = node /\ moving' = moving
      BY <2>7 DEF vars
    <3>2. Resting' = Resting
      BY <3>1 DEF Resting, Current
    <3>3. Cached(Resting) => Cached(Resting)'
      BY <3>1, SameCache
    <3>4. Matches(Resting)' <=> Matches(Resting)
      BY <3>1, <3>2 DEF Matches, HeaderOf
    <3> QED
      BY <3>1, <3>3, <3>4 DEF BlockInv
  <2> QED
    BY <2>1, <2>2, <2>3, <2>4, <2>5, <2>6, <2>7 DEF Next
<1> QED
  BY <1>1, <1>2, PTL DEF Spec

\* HeaderMatches: outside a rename the header on disk is one that the node's external
\* IV decodes, to the IV the node has if it has one (CipherFileIO.cpp:101-150, 179-272).
THEOREM HeaderAlwaysMatches == ASSUME Calm PROVE Spec => []HeaderMatches
<1>1. BlockInv => HeaderMatches
  <2> SUFFICES ASSUME BlockInv, volume.header, moving = 0
               PROVE  /\ hdr = NoHdr => raw = <<>>
                      /\ hdr # NoHdr => hdr.ext = node.ext /\ node.iv \in {Unknown, hdr.iv}
    BY DEF HeaderMatches
  <2>1. /\ Resting.raw = raw /\ Resting.hdr = hdr /\ Resting.ext = node.ext
        /\ Resting.iv = node.iv
    BY DEF Resting, Current
  <2>2. hdr = HeaderOf(node.ext) \/ (hdr = NoHdr /\ raw = <<>>)
    BY <2>1 DEF BlockInv, Matches
  <2>3. node.iv \in {Unknown, FileIV} /\ node.ext \in Exts
    BY DEF BlockInv
  <2> QED
    BY <2>2, <2>3, HeaderTyped DEF HeaderOf
<1> QED
  BY <1>1, BlockInvariant, PTL

\* CacheCoherent: a cached block that lies in the file is what is on disk
\* (BlockFileIO.cpp:54-100).
THEOREM CacheAlwaysCoherent == ASSUME Calm PROVE Spec => []CacheCoherent
<1>1. BlockInv => CacheCoherent
  <2> SUFFICES ASSUME BlockInv, node.cdata # <<>>, node.cblk * BS < Len(raw)
               PROVE  node.cdata = BlockAt(node.cblk)
    BY DEF CacheCoherent
  <2>1. /\ Resting.raw = raw /\ Resting.hdr = hdr
        /\ Resting.cblk = node.cblk /\ Resting.cdata = node.cdata
    BY DEF Resting, Current
  <2>2. node.cdata = Block(Resting, node.cblk)
    BY <2>1 DEF BlockInv, Cached, Coherent
  <2>3. raw # <<>>
    <3>1. node.cblk \in Nat
      BY DEF BlockInv
    <3> QED
      BY <3>1, EmptySeq, BlockAssumption
  <2>4. DiskIV = BlockIV
    <3>1. CASE ~volume.header
      BY <3>1 DEF DiskIV, BlockIV
    <3>2. CASE volume.header
      <4>1. hdr # NoHdr
        <5>1. CASE moving # 0
          BY <5>1 DEF BlockInv
        <5>2. CASE moving = 0
          <6>1. Resting.ext \in Exts
            BY DEF BlockInv, Resting, Current
          <6>2. Resting.hdr = HeaderOf(Resting.ext)
            BY <2>1, <2>3, <3>2, <5>2 DEF BlockInv, Matches
          <6> QED
            BY <2>1, <6>1, <6>2, HeaderTyped
        <5> QED
          BY <5>1, <5>2
      <4> QED
        BY <3>2, <4>1 DEF BlockInv, DiskIV, BlockIV
    <3> QED
      BY <3>1, <3>2
  <2> QED
    BY <2>1, <2>2, <2>4 DEF Block, Part, BlockAt
<1> QED
  BY <1>1, BlockInvariant, PTL

\* The layer by itself is what the run checks: its steps and the other layers' do not
\* touch each other's variables, so the theorems above hold of the run as well.
THEOREM RunIsBlockFile == MCSpec => Spec
<1>1. MCInit => Init
  BY DEF MCInit
<1>2. [MCNext]_<<layer, vars, macVars, rawVars>> => [Next]_vars
  BY DEF MCNext
<1> QED
  BY <1>1, <1>2, PTL DEF MCSpec, Spec

----------------------------------------------------------------------------
(* MACFileIO.  Its blocks are those of BlockFileIO with a header each.     *)

MacTop == LayerSize
RBS == BS + 1
MacCell == [sum : Seq(Int), byte : Int, was : Int]
MacSet ==
    [base : Seq(MacCell), cblk : 0..MacTop, cdata : Seq(Int), ok : BOOLEAN, threw : BOOLEAN,
     uncut : BOOLEAN, left : Nat, reads : Nat]

MacReads(f) == f.reads
MacWrites(f) == f.left
MacStays(f, g) == TRUE
MacByteAt(f, i) == f.base[i + (i - 1) \div BS + 1].was

\* The bytes of a block, header and all.
MacPart(f, b) == SubSeq(f.base, b * RBS + 1, Least(b * RBS + RBS, Len(f.base)))

\* What the data of a block was written as.
WasOf(c) == [i \in 1..(Len(c) - 1) |-> c[i + 1].was]

\* The header of a block was altered, is of its data, or is a hole before one.
BlockFits(c) ==
    /\ c[1].was \in {0, 1}
    /\ \/ Mac!Altered(c[1])
       \/ c[1].was = 1 /\ c[1].sum = (IF mVolume.mac THEN WasOf(c) ELSE <<>>)
       \/ mVolume.holes /\ c[1].sum = <<>> /\ \A i \in 1..Len(c) : c[i].was = 0

\* No block is a header alone.
Whole(base) == Len(base) % RBS # 1

\* At most one byte is altered, where a MAC guards against it.
AlteredOnce(base) ==
    /\ \A i \in 1..Len(base) : Mac!Altered(base[i]) => mVolume.mac /\ ~mVolume.warnOnly
    /\ \A i, j \in 1..Len(base) : Mac!Altered(base[i]) /\ Mac!Altered(base[j]) => i = j

MacGood(f) ==
    /\ f \in MacSet /\ Len(f.cdata) <= BS
    /\ Whole(f.base) /\ AlteredOnce(f.base)
    /\ \A b \in Nat : MacPart(f, b) # <<>> => BlockFits(MacPart(f, b))

ML == INSTANCE BlockIO_Proofs
        WITH AllowHoles <- mVolume.holes, SizeOf <- Mac!Size, ReadOne <- Mac!ReadOneBlock,
             WriteOne <- Mac!WriteOneBlock, CutBase <- Mac!CutNothing, Good <- MacGood,
             ByteAt <- MacByteAt, Reads <- MacReads, Writes <- MacWrites, Stays <- MacStays,
             Top <- MacTop

\* Whole blocks of d bytes.
LEMMA StepsOf ==
    ASSUME NEW d \in Nat \ {0}, NEW a \in Nat, NEW b \in Nat
    PROVE  a * d \in Nat /\ b * d \in Nat /\ (a < b => a * d + d <= b * d)
<1>1. a * d \in Nat /\ b * d \in Nat
  OBVIOUS
<1>2. ASSUME a < b PROVE a * d + d <= b * d
  <2>1. (a + 1) * d <= b * d /\ (a + 1) * d = a * d + d
    BY <1>2
  <2> QED
    BY <2>1
<1> QED
  BY <1>1, <1>2

\* Where a number lies among blocks of d.
LEMMA SplitIs ==
    ASSUME NEW d \in Nat \ {0}, NEW n \in Nat
    PROVE  n \div d \in Nat /\ n % d \in Nat /\ n % d < d /\ n = (n \div d) * d + (n % d)
OBVIOUS

\* A block below is a block and its header.
LEMMA RBSIs == BS \in Nat \ {0} /\ RBS \in Nat \ {0} /\ RBS = BS + 1
BY BlockAssumption DEF RBS

\* Blocks with their headers.
LEMMA HeaderEach ==
    ASSUME NEW b \in Nat
    PROVE  b * BS \in Nat /\ b * RBS \in Nat /\ b * RBS = b * BS + b
<1>1. b * (BS + 1) = b * BS + b
  BY RBSIs
<1> QED
  BY <1>1, RBSIs DEF RBS

\* What k bytes after whole blocks take with their header.
Headed(k) == IF k = 0 THEN 0 ELSE k + 1

\* Rounded up.
LEMMA RoundedUp ==
    ASSUME NEW d \in Nat \ {0}, NEW q \in Nat, NEW k \in Nat, k < d
    PROVE  Mac!RoundUpDivide(q * d + k, d) = IF k = 0 THEN q ELSE q + 1
<1>0. q * d \in Nat /\ (q + 1) * d = q * d + d
  OBVIOUS
<1> DEFINE n == q * d + k + d - 1
<1>1. n \in Nat
  BY <1>0
<1>2. CASE k = 0
  <2>1. n = q * d + (d - 1) /\ d - 1 \in Nat /\ d - 1 < d
    BY <1>0, <1>2
  <2> HIDE DEF n
  <2>2. n \div d = q
    <3> DEFINE r == d - 1
    <3>1. r \in Nat /\ r < d /\ n = q * d + r
      BY <2>1
    <3> HIDE DEF r
    <3> QED
      BY <1>1, <3>1, ML!DivUnique
  <2> QED
    BY <1>2, <2>2 DEF Mac!RoundUpDivide, n
<1>3. CASE k # 0
  <2> DEFINE p == q + 1
             r == k - 1
  <2>1. n = p * d + r /\ p \in Nat /\ r \in Nat /\ r < d
    BY <1>0, <1>3
  <2> HIDE DEF n, p, r
  <2>2. n \div d = p
    BY <1>1, <2>1, ML!DivUnique
  <2> QED
    BY <1>3, <2>2 DEF Mac!RoundUpDivide, n, p
<1> QED
  BY <1>2, <1>3

\* Offsets with headers,
LEMMA LocIs ==
    ASSUME NEW q \in Nat, NEW k \in Nat, k < BS
    PROVE  Mac!LocWithHeader(q * BS + k) = q * RBS + Headed(k)
<1>1. Mac!RoundUpDivide(q * BS + k, BS) = IF k = 0 THEN q ELSE q + 1
  <2>1. BS \in Nat \ {0} /\ q \in Nat /\ k \in Nat /\ k < BS
    BY RBSIs
  <2> QED
    BY ONLY <2>1, RoundedUp
<1>2. q * BS \in Nat /\ q * RBS = q * BS + q
  BY HeaderEach
<1> DEFINE at == q * BS
           to == q * RBS
           u == Mac!RoundUpDivide(q * BS + k, BS)
<1>3. Mac!LocWithHeader(q * BS + k) = at + k + u * 1
  BY DEF Mac!LocWithHeader
<1>4. u = IF k = 0 THEN q ELSE q + 1
  BY <1>1
<1>5. at \in Nat /\ to = at + q
  BY <1>2
<1> HIDE DEF at, u, to
<1>6. at + k + u * 1 = to + Headed(k)
  BY <1>4, <1>5 DEF Headed
<1> QED
  BY <1>3, <1>6 DEF to

\* and sizes without.
LEMMA SizeIs ==
    ASSUME NEW f, f.base \in Seq(MacCell), NEW q \in Nat, NEW k \in Nat, k < BS,
           Len(f.base) = q * RBS + Headed(k)
    PROVE  Mac!Size(f) = q * BS + k
<1> DEFINE at == q * BS
           to == q * RBS
           n == Len(f.base)
           h == Headed(k)
<1>1. at \in Nat /\ to \in Nat /\ to = at + q
  BY HeaderEach
<1>2. h \in Nat /\ h < RBS /\ (h = 0 <=> k = 0) /\ (k # 0 => h = k + 1)
  BY RBSIs DEF Headed
<1>3. Mac!RoundUpDivide(q * RBS + h, RBS) = IF h = 0 THEN q ELSE q + 1
  <2> HIDE DEF h
  <2>1. RBS \in Nat \ {0} /\ q \in Nat /\ h \in Nat /\ h < RBS
    BY <1>2, RBSIs
  <2> QED
    BY ONLY <2>1, RoundedUp
<1>4. n = to + h
  OBVIOUS
<1>5. CASE f.base = <<>>
  <2>1. n = 0 /\ Mac!Size(f) = 0
    BY <1>5, EmptySeq DEF Mac!Size
  <2> HIDE DEF n, h, at, to
  <2>2. at = 0 /\ k = 0
    BY <1>1, <1>2, <1>4, <2>1
  <2> QED
    BY <2>1, <2>2 DEF at
<1>6. CASE f.base # <<>>
  <2> DEFINE u == Mac!RoundUpDivide(n, BS + 1)
  <2>1. Mac!Size(f) = n - u * 1
    BY <1>6 DEF Mac!Size, Mac!LocWithoutHeader, Mac!RBS
  <2>2. u = IF h = 0 THEN q ELSE q + 1
    BY <1>3, <1>4 DEF RBS
  <2> HIDE DEF n, h, at, to, u
  <2>3. n - u * 1 = at + k
    BY <1>1, <1>2, <1>4, <2>2
  <2> QED
    BY <2>1, <2>3 DEF at
<1> QED
  BY <1>5, <1>6

\* The file below, in blocks.
LEMMA LenIs ==
    ASSUME NEW f, f.base \in Seq(MacCell), Whole(f.base)
    PROVE  LET n == Mac!Size(f)
           IN /\ n \in Nat /\ n \div BS \in Nat /\ n % BS \in Nat /\ n % BS < BS
              /\ n = (n \div BS) * BS + (n % BS)
              /\ Len(f.base) = (n \div BS) * RBS + Headed(n % BS)
              /\ Len(f.base) = Mac!LocWithHeader(n)
<1> DEFINE len == Len(f.base)
           q == len \div RBS
           h == len % RBS
           k == IF h = 0 THEN 0 ELSE h - 1
           n == Mac!Size(f)
<1>1. len \in Nat
  BY LenProperties
<1>2. q \in Nat /\ h \in Nat /\ h < RBS /\ len = q * RBS + h /\ h # 1
  BY <1>1, RBSIs, SplitIs DEF Whole
<1> HIDE DEF q, h
<1>3. k \in Nat /\ k < BS /\ Headed(k) = h
  BY <1>2, RBSIs DEF Headed
<1> HIDE DEF k
<1>4. n = q * BS + k
  BY <1>2, <1>3, SizeIs
<1>5. q * BS \in Nat
  BY <1>2, HeaderEach
<1> HIDE DEF n
<1>6. n \in Nat
  BY <1>3, <1>4, <1>5
<1>7. n \div BS = q /\ n % BS = k
  BY <1>2, <1>3, <1>4, <1>6, RBSIs, ML!DivUnique
<1>8. len = Mac!LocWithHeader(n)
  BY <1>2, <1>3, <1>4, LocIs
<1> QED
  BY <1>2, <1>3, <1>4, <1>6, <1>7, <1>8 DEF n

\* The bytes of a block below.
LEMMA MacPartIs ==
    ASSUME NEW f, f.base \in Seq(MacCell), Whole(f.base), NEW b \in Nat
    PROVE  LET c == MacPart(f, b)
           IN /\ c \in Seq(MacCell) /\ Len(c) = Headed(ML!Has(f, b))
              /\ ML!Has(f, b) \in Nat /\ ML!Has(f, b) <= BS
              /\ \A i \in 1..Len(c) : c[i] = f.base[b * RBS + i] /\ b * RBS + i \in 1..Len(f.base)
              /\ Len(c) = 0 => Len(f.base) <= b * RBS
              /\ Len(c) < RBS => Len(f.base) <= b * RBS + Len(c)
<1> DEFINE n == Mac!Size(f)
           q == n \div BS
           k == n % BS
           len == Len(f.base)
           at == b * BS
           to == b * RBS
           has == ML!Has(f, b)
           end == Least(to + RBS, len)
           c == SubSeq(f.base, to + 1, end)
<1>1. /\ n \in Nat /\ q \in Nat /\ k \in Nat /\ k < BS /\ n = q * BS + k
      /\ len = q * RBS + Headed(k) /\ len \in Nat
  BY LenIs, LenProperties
<1>2. /\ at \in Nat /\ to \in Nat /\ q * BS \in Nat /\ q * RBS \in Nat
      /\ to = at + b /\ q * RBS = q * BS + q
  BY <1>1, HeaderEach
<1>3. /\ b < q => at + BS <= q * BS /\ to + RBS <= q * RBS
      /\ q < b => q * BS + BS <= at /\ q * RBS + RBS <= to
      /\ b = q => at = q * BS /\ to = q * RBS
  BY <1>1, RBSIs, StepsOf
<1>4. has = IF n <= at THEN 0 ELSE Least(BS, n - at)
  BY DEF ML!Has, ML!Least, Least
<1> DEFINE qb == q * BS
           qr == q * RBS
<1>5. /\ n = qb + k /\ len = qr + Headed(k) /\ qb \in Nat /\ qr \in Nat
      /\ b < q => at + BS <= qb /\ to + RBS <= qr
      /\ q < b => qb + BS <= at /\ qr + RBS <= to
      /\ b = q => at = qb /\ to = qr
  BY <1>1, <1>2, <1>3
<1>6. MacPart(f, b) = c
  BY DEF MacPart
<1>7. b \in Nat /\ q \in Nat /\ k \in Nat /\ k < BS /\ n \in Nat /\ len \in Nat /\ at \in Nat /\ to \in Nat
  BY <1>1, <1>2
<1> HIDE DEF n, q, k, len, at, to, has, qb, qr
<1>8. /\ has \in Nat /\ has <= BS
      /\ end \in Nat /\ end <= len /\ end = (IF has = 0 THEN len ELSE to + 1 + has)
      /\ has = 0 => len <= to
      /\ has < BS => len <= to + Headed(has)
  <2>1. CASE b < q
    <3>1. has = BS
      BY <1>4, <1>5, <1>7, <2>1, RBSIs DEF Least
    <3> QED
      BY <1>5, <1>7, <2>1, <3>1, RBSIs DEF Least, Headed
  <2>2. CASE b = q
    <3>1. has = k
      BY <1>4, <1>5, <1>7, <2>2, RBSIs DEF Least
    <3> QED
      BY <1>5, <1>7, <2>2, <3>1, RBSIs DEF Least, Headed
  <2>3. CASE q < b
    <3>1. has = 0
      BY <1>4, <1>5, <1>7, <2>3, RBSIs
    <3> QED
      BY <1>5, <1>7, <2>3, <3>1, RBSIs DEF Least, Headed
  <2> QED
    BY <1>7, <2>1, <2>2, <2>3
<1> HIDE DEF end
<1>9. /\ c \in Seq(MacCell) /\ Len(c) = (IF to + 1 <= end THEN end - (to + 1) + 1 ELSE 0)
      /\ \A i \in 1..Len(c) : c[i] = f.base[to + 1 + i - 1]
  <2> DEFINE m == to + 1
  <2>1. m \in Nat \ {0} /\ end \in Int /\ end <= Len(f.base)
    BY <1>7, <1>8 DEF len
  <2> HIDE DEF m
  <2>2. LET p == SubSeq(f.base, m, end)
        IN /\ p \in Seq(MacCell) /\ Len(p) = (IF m <= end THEN end - m + 1 ELSE 0)
           /\ \A i \in 1..Len(p) : p[i] = f.base[m + i - 1]
    BY <2>1, PartIs
  <2> QED
    BY <2>2 DEF m
<1> HIDE DEF c
<1>10. Len(c) = Headed(has)
  BY <1>7, <1>8, <1>9 DEF Headed
<1>11. \A i \in 1..Len(c) : to + 1 + i - 1 = to + i /\ to + i \in 1..len
  BY <1>7, <1>8, <1>10 DEF Headed
<1>12. /\ Len(c) = 0 => len <= to
       /\ Len(c) < RBS => len <= to + Len(c)
  BY <1>7, <1>8, <1>10, RBSIs DEF Headed
<1> QED
  BY <1>6, <1>8, <1>9, <1>10, <1>11, <1>12 DEF to, len, has

\* Where a plain byte lies,
LEMMA CellIs ==
    ASSUME NEW f, NEW b \in Nat, NEW j \in 1..BS
    PROVE  MacByteAt(f, b * BS + j) = f.base[b * RBS + 1 + j].was
<1> DEFINE i == b * BS + j
           m == i - 1
           r == j - 1
           at == b * BS
           to == b * RBS
<1>1. at \in Nat /\ to = at + b /\ j \in Nat /\ BS \in Nat
  BY HeaderEach, RBSIs
<1>2. m \in Nat /\ r \in Nat /\ r < BS /\ m = b * BS + r
  BY <1>1
<1> HIDE DEF m, r
<1>3. m \div BS = b
  BY <1>2, RBSIs, ML!DivUnique
<1>4. MacByteAt(f, i) = f.base[i + b + 1].was
  BY <1>3 DEF MacByteAt, m
<1>5. i + b + 1 = to + 1 + j
  <2>1. i = at + j
    OBVIOUS
  <2> HIDE DEF at, to, i
  <2> QED
    BY <1>1, <2>1
<1> QED
  BY <1>4, <1>5

\* and in which block.
LEMMA ByteIn ==
    ASSUME NEW i \in Nat \ {0}
    PROVE  LET b == (i - 1) \div BS
               j == ((i - 1) % BS) + 1
           IN b \in Nat /\ j \in 1..BS /\ i = b * BS + j
<1> DEFINE m == i - 1
           b == m \div BS
           r == m % BS
<1>1. m \in Nat
  OBVIOUS
<1> HIDE DEF m
<1>2. b \in Nat /\ r \in Nat /\ r < BS /\ m = b * BS + r
  BY <1>1, RBSIs, SplitIs
<1>3. b * BS \in Nat
  BY <1>2, HeaderEach
<1> DEFINE at == b * BS
<1>4. m = at + r /\ at \in Nat
  BY <1>2, <1>3
<1> HIDE DEF b, r, at
<1>5. r + 1 \in 1..BS /\ i = at + (r + 1)
  BY <1>1, <1>2, <1>4, RBSIs DEF m
<1> QED
  BY <1>2, <1>5 DEF at, b, r, m

----------------------------------------------------------------------------
(* What MACFileIO reads.                                                   *)

\* The data of a block without its header.
LEMMA PlainOfIs ==
    ASSUME NEW c \in Seq(MacCell), c # <<>>
    PROVE  LET d == Mac!PlainOf(SubSeq(c, 1 + 1, Len(c)))
           IN /\ d \in Seq(Int) /\ Len(c) \in Nat \ {0} /\ Len(d) = Len(c) - 1
              /\ DOMAIN d = 1..(Len(c) - 1)
              /\ \A i \in 1..(Len(c) - 1) : d[i] = c[i + 1].byte /\ c[i + 1] \in MacCell
<1> DEFINE n == Len(c)
           s == SubSeq(c, 1 + 1, n)
           d == [i \in 1..Len(s) |-> s[i].byte]
<1>1. n \in Nat \ {0}
  BY LenProperties, EmptySeq
<1>2. s \in Seq(MacCell) /\ Len(s) = n - 1 /\ \A i \in 1..Len(s) : s[i] = c[i + 1]
  <2>1. 1 + 1 \in Nat \ {0} /\ n \in Int /\ n <= Len(c)
    BY <1>1
  <2> DEFINE m == 1 + 1
  <2>2. m \in Nat \ {0} /\ m = 2
    OBVIOUS
  <2> HIDE DEF m
  <2>3. LET p == SubSeq(c, m, n)
        IN /\ p \in Seq(MacCell) /\ Len(p) = (IF m <= n THEN n - m + 1 ELSE 0)
           /\ \A i \in 1..Len(p) : p[i] = c[m + i - 1]
    BY <2>1, <2>2, PartIs
  <2>4. s = SubSeq(c, m, n)
    BY DEF m
  <2> HIDE DEF s, n
  <2>5. Len(s) = n - 1
    BY <1>1, <2>2, <2>3, <2>4
  <2>6. \A i \in 1..Len(s) : m + i - 1 = i + 1
    BY <1>1, <2>2, <2>5
  <2> QED
    BY <2>3, <2>4, <2>5, <2>6
<1> HIDE DEF s, n
<1>3. \A i \in 1..Len(s) : s[i] \in MacCell
  BY <1>2, ElementOfSeq
<1>4. d \in [1..Len(s) -> Int]
  BY <1>3 DEF MacCell
<1>5. d \in Seq(Int) /\ DOMAIN d = 1..Len(s)
  BY <1>1, <1>2, <1>4, SeqDef
<1>6. Len(d) = Len(s)
  BY <1>1, <1>2, <1>4, <1>5, LenProperties
<1>7. Mac!PlainOf(s) = d
  BY DEF Mac!PlainOf
<1>8. \A i \in 1..(n - 1) : d[i] = c[i + 1].byte /\ c[i + 1] \in MacCell
  BY <1>2, <1>3
<1> HIDE DEF d
<1> QED
  BY <1>1, <1>2, <1>5, <1>6, <1>7, <1>8 DEF s, n

\* What was written, read from bytes that are as they were.
LEMMA WasIsPlain ==
    ASSUME NEW c \in Seq(MacCell), c # <<>>, \A i \in 2..Len(c) : ~Mac!Altered(c[i])
    PROVE  WasOf(c) = Mac!PlainOf(SubSeq(c, 1 + 1, Len(c)))
<1> DEFINE d == Mac!PlainOf(SubSeq(c, 1 + 1, Len(c)))
<1>1. /\ d \in Seq(Int) /\ Len(c) \in Nat \ {0} /\ DOMAIN d = 1..(Len(c) - 1)
      /\ \A i \in 1..(Len(c) - 1) : d[i] = c[i + 1].byte
  BY PlainOfIs
<1> HIDE DEF d
<1>2. \A i \in 1..(Len(c) - 1) : i + 1 \in 2..Len(c)
  BY <1>1
<1>3. \A i \in 1..(Len(c) - 1) : d[i] = c[i + 1].was
  BY <1>1, <1>2 DEF Mac!Altered
<1>4. d \in [1..(Len(c) - 1) -> Int]
  BY <1>1, LenProperties
<1>5. d = [i \in 1..(Len(c) - 1) |-> d[i]]
  BY <1>4
<1> QED
  BY <1>3, <1>5 DEF WasOf, d

\* A block with an altered byte of data is refused.
LEMMA NotFooled ==
    ASSUME NEW f, MacGood(f), NEW b \in Nat, NEW i \in 2..Len(MacPart(f, b)),
           Mac!Altered(MacPart(f, b)[i])
    PROVE  LET c == MacPart(f, b)
           IN ~Mac!SkipCheck(c) /\ ~Mac!MacAgrees(c) /\ ~mVolume.warnOnly /\ Len(c) > 1
<1> DEFINE c == MacPart(f, b)
           d == Mac!PlainOf(SubSeq(c, 1 + 1, Len(c)))
           to == b * RBS
           len == Len(f.base)
<1>1. f.base \in Seq(MacCell) /\ Whole(f.base) /\ AlteredOnce(f.base)
  BY DEF MacGood, MacSet
<1>2. /\ c \in Seq(MacCell) /\ to \in Nat
      /\ \A j \in 1..Len(c) : c[j] = f.base[to + j] /\ to + j \in 1..len
  BY <1>1, MacPartIs, HeaderEach
<1>3. Len(c) \in Nat /\ Len(c) >= i /\ i \in Nat /\ i >= 2 /\ i \in 1..Len(c) /\ 1 \in 1..Len(c)
  <2>1. Len(c) \in Nat
    BY <1>2, LenProperties
  <2> HIDE DEF c
  <2>2. i \in 2..Len(c)
    BY DEF c
  <2> QED
    BY <2>1, <2>2
<1>4. c # <<>>
  BY <1>3, EmptySeq
<1>5. BlockFits(c) /\ Mac!Altered(c[i])
  BY <1>4 DEF MacGood
<1> HIDE DEF c
<1>6. /\ d \in Seq(Int) /\ Len(d) = Len(c) - 1 /\ DOMAIN d = 1..(Len(c) - 1)
      /\ \A j \in 1..(Len(c) - 1) : d[j] = c[j + 1].byte /\ c[j + 1] \in MacCell
  BY <1>2, <1>4, PlainOfIs
<1> HIDE DEF d
<1>7. mVolume.mac /\ ~mVolume.warnOnly
  BY <1>1, <1>2, <1>3, <1>5 DEF AlteredOnce, len
<1>8. ~Mac!Altered(c[1])
  <2>1. to + 1 # to + i
    BY <1>2, <1>3
  <2> HIDE DEF to
  <2>2. c[1] = f.base[to + 1] /\ to + 1 \in 1..len /\ c[i] = f.base[to + i] /\ to + i \in 1..len
    BY <1>2, <1>3
  <2> QED
    BY <1>1, <1>5, <2>1, <2>2 DEF AlteredOnce, len
<1>9. /\ i - 1 \in 1..(Len(c) - 1) /\ (i - 1) + 1 = i
  BY <1>3
<1>10. d[i - 1] = c[i].byte /\ c[i].byte # c[i].was
  BY <1>5, <1>6, <1>9 DEF Mac!Altered
<1>11. CASE c[1].was = 1 /\ c[1].sum = WasOf(c)
  <2>1. WasOf(c)[i - 1] = c[i].was
    BY <1>9 DEF WasOf
  <2>2. c[1].sum # d
    BY <1>10, <1>11, <2>1
  <2>3. ~Mac!MacAgrees(c)
    BY <1>7, <2>2 DEF Mac!MacAgrees, d
  <2>4. c[1].byte = 1
    BY <1>8, <1>11 DEF Mac!Altered
  <2>5. ~Mac!SkipCheck(c)
    BY <1>3, <1>7, <2>4 DEF Mac!SkipCheck
  <2> QED
    BY <1>3, <1>7, <2>3, <2>5 DEF c
<1>12. CASE mVolume.holes /\ c[1].sum = <<>> /\ \A j \in 1..Len(c) : c[j].was = 0
  <2>1. Len(d) # 0 /\ Len(<<>>) = 0
    BY <1>3, <1>6, EmptySeq
  <2>2. c[1].sum # d
    BY <1>12, <2>1
  <2>3. ~Mac!MacAgrees(c)
    BY <1>7, <2>2 DEF Mac!MacAgrees, d
  <2>4. c[i].byte # 0
    BY <1>3, <1>10, <1>12
  <2>5. ~Mac!SkipCheck(c)
    BY <1>3, <1>12, <2>4 DEF Mac!SkipCheck
  <2> QED
    BY <1>3, <1>7, <2>3, <2>5 DEF c
<1> QED
  BY <1>5, <1>7, <1>8, <1>11, <1>12 DEF BlockFits

\* No block is refused that was not altered.
LEMMA NotAlarmed ==
    ASSUME NEW f, MacGood(f), NEW b \in Nat, MacPart(f, b) # <<>>,
           \A i \in 1..Len(MacPart(f, b)) : ~Mac!Altered(MacPart(f, b)[i])
    PROVE  Mac!SkipCheck(MacPart(f, b)) \/ Mac!MacAgrees(MacPart(f, b))
<1> DEFINE c == MacPart(f, b)
<1>1. f.base \in Seq(MacCell) /\ Whole(f.base) /\ BlockFits(c)
  BY DEF MacGood, MacSet
<1>2. c \in Seq(MacCell) /\ c # <<>> /\ \A i \in 1..Len(c) : ~Mac!Altered(c[i])
  BY <1>1, MacPartIs
<1> HIDE DEF c
<1>3. Len(c) \in Nat \ {0} /\ 1 \in 1..Len(c)
  BY <1>2, EmptySeq, LenProperties
<1>4. WasOf(c) = Mac!PlainOf(SubSeq(c, 1 + 1, Len(c)))
  <2>1. \A i \in 2..Len(c) : i \in 1..Len(c)
    BY <1>3
  <2> QED
    BY <1>2, <2>1, WasIsPlain
<1>5. CASE c[1].was = 1 /\ c[1].sum = (IF mVolume.mac THEN WasOf(c) ELSE <<>>)
  <2>1. \A i \in 1..1 : i = 1
    OBVIOUS
  <2> QED
    BY <1>4, <1>5, <2>1 DEF Mac!MacAgrees, c
<1>6. CASE mVolume.holes /\ c[1].sum = <<>> /\ \A i \in 1..Len(c) : c[i].was = 0
  BY <1>2, <1>6 DEF Mac!SkipCheck, Mac!Altered, c
<1> QED
  BY <1>1, <1>2, <1>3, <1>5, <1>6 DEF BlockFits, c

\* The bytes of a block.
LEMMA HasThem ==
    ASSUME NEW f, Mac!Size(f) \in Nat, NEW b \in Nat, NEW j \in 1..BS
    PROVE  /\ j \in 1..ML!Has(f, b) <=> b * BS + j \in 1..Mac!Size(f)
           /\ ML!Has(f, b) \in Nat /\ ML!Has(f, b) <= BS
<1> DEFINE at == b * BS
           n == Mac!Size(f)
           has == ML!Has(f, b)
<1>1. at \in Nat /\ n \in Nat /\ BS \in Nat \ {0}
  BY HeaderEach, RBSIs
<1>2. has = IF n <= at THEN 0 ELSE Least(BS, n - at)
  BY DEF ML!Has, ML!Least, Least
<1>3. j \in Nat /\ j >= 1 /\ j <= BS
  BY RBSIs
<1> HIDE DEF at, n, has
<1>4. (j \in 1..has <=> at + j \in 1..n) /\ has \in Nat /\ has <= BS
  BY <1>1, <1>2, <1>3 DEF Least
<1> QED
  BY <1>4 DEF at, n, has

\* A plain byte, in its block.
LEMMA ByteInPart ==
    ASSUME NEW f, f.base \in Seq(MacCell), Whole(f.base), NEW b \in Nat,
           NEW j \in 1..ML!Has(f, b)
    PROVE  /\ j \in 1..BS /\ j + 1 \in 1..Len(MacPart(f, b)) /\ MacPart(f, b) # <<>>
           /\ Len(MacPart(f, b)) = ML!Has(f, b) + 1
           /\ MacByteAt(f, b * BS + j) = MacPart(f, b)[j + 1].was
           /\ MacPart(f, b)[j + 1] \in MacCell
<1> DEFINE c == MacPart(f, b)
           has == ML!Has(f, b)
           to == b * RBS
<1>1. /\ c \in Seq(MacCell) /\ Len(c) = Headed(has) /\ has \in Nat /\ has <= BS
      /\ \A i \in 1..Len(c) : c[i] = f.base[to + i]
  BY MacPartIs
<1>2. j \in 1..has
  OBVIOUS
<1> HIDE DEF c, has
<1>3. j \in 1..BS /\ Len(c) = has + 1 /\ j + 1 \in 1..Len(c)
  BY <1>1, <1>2, RBSIs DEF Headed
<1>4. c # <<>>
  BY <1>1, <1>3, EmptySeq
<1>5. MacByteAt(f, b * BS + j) = f.base[to + 1 + j].was
  BY <1>3, CellIs
<1>6. to + 1 + j = to + (j + 1)
  <2>1. to \in Nat /\ j \in Nat
    BY <1>3, HeaderEach
  <2> HIDE DEF to
  <2> QED
    BY <2>1
<1>7. c[j + 1] \in MacCell
  BY <1>1, <1>3, ElementOfSeq
<1> QED
  BY <1>1, <1>3, <1>4, <1>5, <1>6, <1>7 DEF c, has

\* A file has its types.
LEMMA MacTypes ==
    ASSUME mVolume \in MacVolumes
    PROVE  ML!LayerTyped
<1>1. BS \in Nat \ {0} /\ mVolume.holes \in BOOLEAN /\ MacTop \in Nat
  BY RBSIs, LayerAssumption DEF MacVolumes, MacTop
<1>2. ASSUME NEW f, MacGood(f)
      PROVE  /\ Mac!Size(f) \in Nat /\ MacReads(f) \in Int /\ MacWrites(f) \in Nat
             /\ f.cblk \in Nat /\ f.cdata \in Seq(Int) /\ Len(f.cdata) <= BS
             /\ f.ok \in BOOLEAN /\ f.threw \in BOOLEAN
             /\ \A i \in 1..Mac!Size(f) : MacByteAt(f, i) \in Int
  <2>1. /\ f.base \in Seq(MacCell) /\ Whole(f.base) /\ Len(f.cdata) <= BS
        /\ f.reads \in Nat /\ f.left \in Nat /\ f.cblk \in 0..MacTop /\ f.cdata \in Seq(Int)
        /\ f.ok \in BOOLEAN /\ f.threw \in BOOLEAN
    BY <1>2 DEF MacGood, MacSet
  <2>2. Mac!Size(f) \in Nat
    BY <2>1, LenIs
  <2>3. ASSUME NEW i \in 1..Mac!Size(f) PROVE MacByteAt(f, i) \in Int
    <3> DEFINE b == (i - 1) \div BS
               j == ((i - 1) % BS) + 1
    <3>1. i \in Nat \ {0}
      BY <2>2
    <3>2. b \in Nat /\ j \in 1..BS /\ i = b * BS + j
      BY <3>1, ByteIn
    <3> HIDE DEF b, j
    <3>3. j \in 1..ML!Has(f, b)
      BY <2>2, <3>2, HasThem
    <3>4. MacByteAt(f, b * BS + j) = MacPart(f, b)[j + 1].was /\ MacPart(f, b)[j + 1] \in MacCell
      BY <2>1, <3>2, <3>3, ByteInPart
    <3> QED
      BY <3>2, <3>4 DEF MacCell
  <2>4. f.cblk \in Nat
    BY <1>1, <2>1
  <2> QED
    BY <2>1, <2>2, <2>3, <2>4 DEF MacReads, MacWrites
<1> QED
  BY <1>1, <1>2 DEF ML!LayerTyped

\* The cache lies beside the file.
LEMMA MacCache == ML!LayerCache /\ ML!LayerStays
<1>1. ASSUME NEW f, MacGood(f), NEW g, g \in MacSet, Len(g.cdata) <= BS, g.base = f.base,
             g.reads = f.reads, g.left = f.left, g.threw = f.threw
      PROVE  ML!Beside(f, g)
  <2>1. \A b : MacPart(g, b) = MacPart(f, b)
    BY <1>1 DEF MacPart
  <2>2. MacGood(g)
    BY <1>1, <2>1 DEF MacGood
  <2>3. Mac!Size(g) = Mac!Size(f) /\ \A i : MacByteAt(g, i) = MacByteAt(f, i)
    BY <1>1 DEF Mac!Size, MacByteAt
  <2> QED
    BY <1>1, <2>2, <2>3 DEF ML!Beside, ML!Same, MacStays, MacReads, MacWrites
<1>2. ASSUME NEW f, MacGood(f)
      PROVE  /\ \A b \in 0..MacTop, d \in Seq(Int) :
                  LET g == ML!CacheTo(f, b, d)
                  IN Len(d) <= BS => ML!Beside(f, g) /\ g.cblk = b /\ g.cdata = d /\ g.ok = f.ok
             /\ LET g == ML!NoCache(f)
                IN ML!Beside(f, g) /\ g.cblk = f.cblk /\ g.cdata = <<>> /\ g.ok = f.ok
             /\ LET g == ML!AsOk(f)
                IN ML!Beside(f, g) /\ g.cblk = f.cblk /\ g.cdata = f.cdata /\ g.ok
  <2>0. f \in MacSet /\ Len(f.cdata) <= BS
    BY <1>2 DEF MacGood
  <2>1. ASSUME NEW b \in 0..MacTop, NEW d \in Seq(Int), Len(d) <= BS
        PROVE  LET g == ML!CacheTo(f, b, d)
               IN ML!Beside(f, g) /\ g.cblk = b /\ g.cdata = d /\ g.ok = f.ok
    <3> DEFINE g == ML!CacheTo(f, b, d)
    <3>1. /\ g \in MacSet /\ g.cblk = b /\ g.cdata = d /\ g.ok = f.ok /\ g.base = f.base
          /\ g.reads = f.reads /\ g.left = f.left /\ g.threw = f.threw
      BY <2>0 DEF ML!CacheTo, MacSet
    <3> HIDE DEF g
    <3>2. ML!Beside(f, g)
      BY <1>1, <1>2, <2>1, <3>1
    <3> QED
      BY <3>1, <3>2 DEF g
  <2>2. LET g == ML!NoCache(f)
        IN ML!Beside(f, g) /\ g.cblk = f.cblk /\ g.cdata = <<>> /\ g.ok = f.ok
    <3> DEFINE g == ML!NoCache(f)
    <3>0. <<>> \in Seq(Int) /\ Len(<<>>) = 0 /\ 0 <= BS
      BY EmptySeq, RBSIs
    <3>1. /\ g \in MacSet /\ g.cblk = f.cblk /\ g.cdata = <<>> /\ g.ok = f.ok /\ g.base = f.base
          /\ g.reads = f.reads /\ g.left = f.left /\ g.threw = f.threw
      BY <2>0, <3>0 DEF ML!NoCache, MacSet
    <3> HIDE DEF g
    <3>2. ML!Beside(f, g)
      BY <1>1, <1>2, <3>0, <3>1
    <3> QED
      BY <3>1, <3>2 DEF g
  <2>3. LET g == ML!AsOk(f)
        IN ML!Beside(f, g) /\ g.cblk = f.cblk /\ g.cdata = f.cdata /\ g.ok
    <3> DEFINE g == ML!AsOk(f)
    <3>1. /\ g \in MacSet /\ g.cblk = f.cblk /\ g.cdata = f.cdata /\ g.ok /\ g.base = f.base
          /\ g.reads = f.reads /\ g.left = f.left /\ g.threw = f.threw
      BY <2>0 DEF ML!AsOk, MacSet
    <3> HIDE DEF g
    <3>2. ML!Beside(f, g)
      BY <1>1, <1>2, <2>0, <3>1
    <3> QED
      BY <3>1, <3>2 DEF g
  <2> QED
    BY <2>1, <2>2, <2>3
<1> QED
  BY <1>2 DEF ML!LayerCache, ML!LayerStays, MacStays

\* A block begins where its header does.
LEMMA BlockAt0 ==
    ASSUME NEW b \in Nat
    PROVE  Mac!LocWithHeader(b * BS) = b * RBS
<1>1. Mac!LocWithHeader(b * BS + 0) = b * RBS + Headed(0)
  BY RBSIs, LocIs
<1>2. b * BS + 0 = b * BS /\ b * RBS + 0 = b * RBS /\ Headed(0) = 0
  BY HeaderEach DEF Headed
<1> QED
  BY <1>1, <1>2

\* One block read (MACFileIO.cpp:160-217).
LEMMA MacReadOneIs ==
    ASSUME NEW f, MacGood(f), NEW b \in Nat
    PROVE  LET r == Mac!ReadOneBlock(f, b)
           IN /\ MacGood(r.f) /\ ML!Same(f, r.f) /\ MacStays(f, r.f) /\ MacWrites(r.f) = MacWrites(f)
              /\ r.f.cblk = f.cblk /\ r.f.cdata = f.cdata /\ r.f.ok = f.ok
              /\ r.failed \in BOOLEAN
              /\ ~r.failed => /\ ML!IsPart(r.data, f, b * BS, ML!Has(f, b))
                              /\ r.f.threw = f.threw /\ MacReads(r.f) >= MacReads(f) - 1
                              /\ MacReads(r.f) >= 0
              /\ r.failed => r.data = <<>> /\ (r.f.threw \/ MacReads(f) = 0)
<1> DEFINE c == MacPart(f, b)
           g == [f EXCEPT !.reads = @ - 1]
           t == [g EXCEPT !.threw = TRUE]
           d == Mac!PlainOf(SubSeq(c, 1 + 1, Len(c)))
           refused == ~Mac!SkipCheck(c) /\ ~Mac!MacAgrees(c) /\ ~mVolume.warnOnly
           r == Mac!ReadOneBlock(f, b)
           has == ML!Has(f, b)
<1>1. /\ f \in MacSet /\ f.base \in Seq(MacCell) /\ Whole(f.base) /\ Len(f.cdata) <= BS
      /\ f.reads \in Nat
  BY DEF MacGood, MacSet
<1>2. r = IF f.reads = 0 THEN [f |-> f, data |-> <<>>, failed |-> TRUE]
          ELSE IF Len(c) > 1 /\ refused THEN [f |-> t, data |-> <<>>, failed |-> TRUE]
          ELSE [f |-> g, data |-> d, failed |-> FALSE]
  BY BlockAt0 DEF Mac!ReadOneBlock, Mac!RBS, Mac!Least, MacPart, RBS, Least
<1>3. ASSUME NEW h, h \in MacSet, h.base = f.base, h.left = f.left, h.cblk = f.cblk,
             h.cdata = f.cdata, h.ok = f.ok
      PROVE  /\ MacGood(h) /\ ML!Same(f, h) /\ MacStays(f, h) /\ MacWrites(h) = MacWrites(f)
             /\ h.cblk = f.cblk /\ h.cdata = f.cdata /\ h.ok = f.ok
  <2>1. \A k : MacPart(h, k) = MacPart(f, k)
    BY <1>3 DEF MacPart
  <2>2. MacGood(h)
    BY <1>1, <1>3, <2>1 DEF MacGood
  <2>3. Mac!Size(h) = Mac!Size(f) /\ \A i : MacByteAt(h, i) = MacByteAt(f, i)
    BY <1>3 DEF Mac!Size, MacByteAt
  <2> QED
    BY <1>3, <2>2, <2>3 DEF ML!Same, MacStays, MacWrites
<1> HIDE DEF r
<1>4. CASE f.reads = 0
  <2>1. r.f = f /\ r.data = <<>> /\ r.failed = TRUE
    BY <1>2, <1>4
  <2> QED
    BY <1>1, <1>3, <1>4, <2>1 DEF MacReads, r
<1>5. CASE f.reads # 0 /\ Len(c) > 1 /\ refused
  <2>1. r.f = t /\ r.data = <<>> /\ r.failed = TRUE
    BY <1>2, <1>5
  <2>2. /\ t \in MacSet /\ t.base = f.base /\ t.left = f.left /\ t.cblk = f.cblk
        /\ t.cdata = f.cdata /\ t.ok = f.ok /\ t.threw
    <3>1. f.reads - 1 \in Nat
      BY <1>1, <1>5
    <3> QED
      BY <1>1, <3>1 DEF MacSet
  <2> HIDE DEF t
  <2> QED
    BY <1>3, <2>1, <2>2 DEF r
<1>6. CASE f.reads # 0 /\ ~(Len(c) > 1 /\ refused)
  <2>1. r.f = g /\ r.data = d /\ r.failed = FALSE
    BY <1>2, <1>6
  <2>2. /\ g \in MacSet /\ g.base = f.base /\ g.left = f.left /\ g.cblk = f.cblk
        /\ g.cdata = f.cdata /\ g.ok = f.ok /\ g.threw = f.threw /\ g.reads = f.reads - 1
        /\ f.reads - 1 \in Nat
    <3>1. f.reads - 1 \in Nat
      BY <1>1, <1>6
    <3> QED
      BY <1>1, <3>1 DEF MacSet
  <2>3. c \in Seq(MacCell) /\ Len(c) = Headed(has) /\ has \in Nat /\ has <= BS
    BY <1>1, MacPartIs
  <2>4. \A i \in 2..Len(c) : ~Mac!Altered(c[i])
    <3> SUFFICES ASSUME NEW i \in 2..Len(c), Mac!Altered(c[i]) PROVE FALSE
      OBVIOUS
    <3>1. ~Mac!SkipCheck(c) /\ ~Mac!MacAgrees(c) /\ ~mVolume.warnOnly /\ Len(c) > 1
      BY NotFooled
    <3> QED
      BY <1>6, <3>1
  <2>5. ML!IsPart(d, f, b * BS, has)
    <3>1. CASE has = 0
      <4>1. c = <<>>
        BY <2>3, <3>1, EmptySeq DEF Headed
      <4>2. d = <<>>
        <5> DEFINE s == SubSeq(c, 1 + 1, Len(c))
        <5>1. SubSeq(<<>>, 2, 0) = <<>>
          <6>1. <<>> \in Seq(Int) /\ 2 \in Nat \ {0} /\ 0 \in Int /\ Len(<<>>) = 0 /\ 0 <= Len(<<>>)
            BY EmptySeq
          <6>2. SubSeq(<<>>, 2, 0) \in Seq(Int) /\ Len(SubSeq(<<>>, 2, 0)) = 0
            BY <6>1, PartIs
          <6> QED
            BY <6>2, EmptySeq
        <5>2. s = <<>>
          BY <4>1, <5>1, EmptySeq
        <5>3. d = [i \in 1..Len(s) |-> s[i].byte]
          BY DEF Mac!PlainOf
        <5>4. Len(s) = 0
          BY <5>2, EmptySeq
        <5> HIDE DEF s, d
        <5>5. d = [i \in 1..0 |-> s[i].byte]
          BY <5>3, <5>4
        <5>6. d \in [1..0 -> Int] /\ d \in Seq(Int)
          BY <5>5, SeqDef
        <5>7. Len(d) = 0
          BY <5>6, LenProperties
        <5> QED
          BY <5>6, <5>7, EmptySeq
      <4>3. <<>> \in Seq(Int) /\ Len(<<>>) = 0
        BY EmptySeq
      <4> HIDE DEF c, d, has
      <4> QED
        BY <3>1, <4>2, <4>3 DEF ML!IsPart
    <3>2. CASE has # 0
      <4>1. c # <<>> /\ Len(c) - 1 = has
        BY <2>3, <3>2, EmptySeq DEF Headed
      <4> HIDE DEF c
      <4>2. /\ d \in Seq(Int) /\ Len(d) = has
            /\ \A i \in 1..has : d[i] = c[i + 1].byte
        BY <2>3, <4>1, PlainOfIs
      <4> HIDE DEF d
      <4>3. ASSUME NEW i \in 1..has PROVE d[i] = MacByteAt(f, b * BS + i)
        <5>1. MacByteAt(f, b * BS + i) = c[i + 1].was
          BY <1>1, ByteInPart DEF c, has
        <5>2. i + 1 \in 2..Len(c)
          BY <2>3, <4>1
        <5>3. c[i + 1].byte = c[i + 1].was
          BY <2>4, <5>2 DEF Mac!Altered, c
        <5> QED
          BY <4>2, <5>1, <5>3
      <4> QED
        BY <4>2, <4>3 DEF ML!IsPart, d, c
    <3> QED
      BY <3>1, <3>2
  <2> HIDE DEF g, d, has
  <2>6. g.reads >= f.reads - 1 /\ g.reads >= 0
    BY <2>2
  <2> QED
    BY <1>3, <2>1, <2>2, <2>5, <2>6 DEF r, has, MacReads
<1> QED
  BY <1>4, <1>5, <1>6

----------------------------------------------------------------------------
(* What MACFileIO writes.                                                  *)

\* The bytes of a block of any file.
LEMMA RawPartIs ==
    ASSUME NEW f, f.base \in Seq(MacCell), NEW b \in Nat
    PROVE  LET c == MacPart(f, b)
           IN /\ c \in Seq(MacCell) /\ Len(f.base) \in Nat /\ b * RBS \in Nat
              /\ Len(c) = (IF Len(f.base) <= b * RBS THEN 0 ELSE Least(RBS, Len(f.base) - b * RBS))
              /\ \A i \in 1..Len(c) : c[i] = f.base[b * RBS + i] /\ b * RBS + i \in 1..Len(f.base)
<1> DEFINE len == Len(f.base)
           to == b * RBS
           m == to + 1
           end == Least(to + RBS, len)
           c == SubSeq(f.base, m, end)
<1>1. len \in Nat /\ to \in Nat /\ RBS \in Nat \ {0}
  BY LenProperties, HeaderEach, RBSIs
<1> HIDE DEF len, to
<1>2. end \in Nat /\ end <= len /\ m \in Nat \ {0}
  BY <1>1 DEF Least
<1> HIDE DEF m, end
<1>3. /\ c \in Seq(MacCell) /\ Len(c) = (IF m <= end THEN end - m + 1 ELSE 0)
      /\ \A i \in 1..Len(c) : c[i] = f.base[m + i - 1]
  BY <1>2, PartIs DEF len
<1> HIDE DEF c
<1>4. Len(c) = IF len <= to THEN 0 ELSE Least(RBS, len - to)
  BY <1>1, <1>3 DEF m, end, Least
<1>5. \A i \in 1..Len(c) : m + i - 1 = to + i /\ to + i \in 1..len
  BY <1>1, <1>4 DEF m, Least
<1>6. MacPart(f, b) = c
  BY DEF MacPart, c, m, end, to, len
<1> QED
  BY <1>1, <1>3, <1>4, <1>5, <1>6 DEF to, len

\* A block of a file that has as much of it, byte for byte.
LEMMA SameMacPart ==
    ASSUME NEW f, NEW g, f.base \in Seq(MacCell), g.base \in Seq(MacCell), NEW b \in Nat,
           Len(MacPart(g, b)) = Len(MacPart(f, b)),
           \A i \in 1..Len(MacPart(f, b)) : g.base[b * RBS + i] = f.base[b * RBS + i]
    PROVE  MacPart(g, b) = MacPart(f, b)
<1> DEFINE p == MacPart(f, b)
           q == MacPart(g, b)
<1>0. f.base \in Seq(MacCell) /\ g.base \in Seq(MacCell) /\ b \in Nat
  OBVIOUS
<1>1. p \in Seq(MacCell) /\ \A i \in 1..Len(p) : p[i] = f.base[b * RBS + i]
  BY ONLY <1>0, RawPartIs
<1>2. q \in Seq(MacCell) /\ \A i \in 1..Len(q) : q[i] = g.base[b * RBS + i]
  BY ONLY <1>0, RawPartIs
<1>3. Len(q) = Len(p) /\ \A i \in 1..Len(p) : g.base[b * RBS + i] = f.base[b * RBS + i]
  OBVIOUS
<1> HIDE DEF p, q
<1>4. \A i \in 1..Len(q) : q[i] = p[i]
  BY <1>1, <1>2, <1>3
<1>5. q = p
  BY <1>1, <1>2, <1>3, <1>4, SeqEqual
<1> QED
  BY <1>5 DEF p, q

\* A plain byte is there when its byte below is.
LEMMA LenOrder ==
    ASSUME NEW f, f.base \in Seq(MacCell), Whole(f.base), NEW b \in Nat
    PROVE  /\ \A j \in 1..BS : b * BS + j <= Mac!Size(f) <=> b * RBS + 1 + j <= Len(f.base)
           /\ b * BS <= Mac!Size(f) <=> b * RBS <= Len(f.base)
           /\ Mac!Size(f) % BS = 0 <=> Len(f.base) % RBS = 0
<1> DEFINE n == Mac!Size(f)
           q == n \div BS
           k == n % BS
           len == Len(f.base)
           at == b * BS
           to == b * RBS
           qb == q * BS
           qr == q * RBS
<1>1. /\ n \in Nat /\ q \in Nat /\ k \in Nat /\ k < BS /\ n = qb + k
      /\ len = qr + Headed(k) /\ len \in Nat
  BY LenIs, LenProperties
<1>2. at \in Nat /\ to \in Nat /\ qb \in Nat /\ qr \in Nat
  BY <1>1, HeaderEach
<1>3. /\ b < q => at + BS <= qb /\ to + RBS <= qr
      /\ q < b => qb + BS <= at /\ qr + RBS <= to
      /\ b = q => at = qb /\ to = qr
  BY <1>1, RBSIs, StepsOf
<1>4. len % RBS = Headed(k)
  <2>1. len = q * RBS + Headed(k)
    BY <1>1
  <2> HIDE DEF len, q, k
  <2>2. Headed(k) \in Nat /\ Headed(k) < RBS
    BY <1>1, RBSIs DEF Headed
  <2> QED
    BY <1>1, <2>1, <2>2, RBSIs, ML!DivUnique
<1>5. b \in Nat
  OBVIOUS
<1> HIDE DEF n, q, k, len, at, to, qb, qr
<1>6. ASSUME NEW j \in 1..BS PROVE at + j <= n <=> to + 1 + j <= len
  BY <1>1, <1>2, <1>3, <1>5, RBSIs DEF Headed
<1>7. at <= n <=> to <= len
  BY <1>1, <1>2, <1>3, <1>5, RBSIs DEF Headed
<1>8. k = 0 <=> len % RBS = 0
  BY <1>1, <1>4 DEF Headed
<1> QED
  BY <1>6, <1>7, <1>8 DEF n, k, len, at, to

\* The size of a file that ends in a block.
LEMMA SizeFrom ==
    ASSUME NEW f, f.base \in Seq(MacCell), NEW b \in Nat, NEW m \in 1..BS,
           Len(f.base) = b * RBS + 1 + m
    PROVE  Mac!Size(f) = b * BS + m /\ Whole(f.base)
<1>1. CASE m < BS
  <2>1. m \in Nat /\ Headed(m) = m + 1 /\ b * RBS \in Nat
    BY RBSIs, HeaderEach DEF Headed
  <2>2. Len(f.base) = b * RBS + Headed(m)
    BY <2>1
  <2>3. Headed(m) \in Nat /\ Headed(m) < RBS /\ Headed(m) # 1 /\ Len(f.base) \in Nat
    BY <1>1, <2>1, RBSIs, LenProperties
  <2>4. Len(f.base) % RBS = Headed(m)
    BY <2>2, <2>3, RBSIs, ML!DivUnique
  <2> QED
    BY <1>1, <2>1, <2>2, <2>3, <2>4, SizeIs DEF Whole
<1>2. CASE m = BS
  <2>1. /\ b + 1 \in Nat /\ (b + 1) * RBS = b * RBS + RBS /\ (b + 1) * BS = b * BS + BS
        /\ b * RBS \in Nat /\ b * BS \in Nat /\ (b + 1) * RBS \in Nat /\ (b + 1) * BS \in Nat
    BY RBSIs, HeaderEach
  <2>2. Len(f.base) = (b + 1) * RBS + 0 /\ Headed(0) = 0 /\ 0 \in Nat
    BY <1>2, <2>1, RBSIs DEF Headed
  <2> DEFINE q == b + 1
  <2>0. /\ q \in Nat /\ Len(f.base) = q * RBS + Headed(0) /\ Len(f.base) = q * RBS + 0
        /\ 0 < BS /\ 0 < RBS /\ Len(f.base) \in Nat
    BY <2>1, <2>2, RBSIs, LenProperties
  <2> HIDE DEF q
  <2>6. Mac!Size(f) = q * BS + 0
    BY <2>0, <2>2, SizeIs
  <2>3. Mac!Size(f) = (b + 1) * BS + 0
    BY <2>6 DEF q
  <2>4. Len(f.base) % RBS = 0
    BY <2>0, <2>2, RBSIs, ML!DivUnique
  <2>5. Mac!Size(f) = b * BS + m
    BY <1>2, <2>1, <2>3
  <2> QED
    BY <2>4, <2>5 DEF Whole
<1>3. m < BS \/ m = BS
  BY RBSIs
<1> QED
  BY <1>1, <1>2, <1>3

\* The size depends on the number of bytes alone.
LEMMA SizeByLen ==
    ASSUME NEW f, NEW g, f.base \in Seq(MacCell), g.base \in Seq(MacCell),
           Len(g.base) = Len(f.base)
    PROVE  Mac!Size(g) = Mac!Size(f) /\ (Whole(f.base) => Whole(g.base))
<1>1. g.base = <<>> <=> f.base = <<>>
  BY EmptySeq
<1> QED
  BY <1>1 DEF Mac!Size, Whole

\* A block with its header fits.
BlockOf(d) == Mac!Header(d) \o Mac!Bytes(d)

\* A block as it is written, its header first.
LEMMA BlockOfIs ==
    ASSUME NEW d \in Seq(Int), d # <<>>
    PROVE  LET c == BlockOf(d)
           IN /\ c \in Seq(MacCell) /\ Len(c) = Len(d) + 1 /\ Len(d) \in Nat \ {0}
              /\ \A i \in 1..Len(c) : ~Mac!Altered(c[i])
              /\ \A i \in 1..Len(d) : c[i + 1] = Mac!Byte(d[i])
              /\ BlockFits(c)
<1> DEFINE n == Len(d)
           s == IF mVolume.mac THEN d ELSE <<>>
           top == [sum |-> s, byte |-> 1, was |-> 1]
           h == [i \in 1..1 |-> top]
           p == [i \in 1..n |-> Mac!Byte(d[i])]
           c == h \o p
<1>1. n \in Nat \ {0}
  BY LenProperties, EmptySeq
<1>2. \A i \in 1..n : Mac!Byte(d[i]) \in MacCell
  <2>1. \A i \in 1..n : d[i] \in Int
    BY ElementOfSeq
  <2>2. <<>> \in Seq(Int)
    BY EmptySeq
  <2> QED
    BY <2>1, <2>2 DEF Mac!Byte, MacCell
<1>3. top \in MacCell
  <2>1. s \in Seq(Int)
    BY EmptySeq
  <2> HIDE DEF s
  <2> QED
    BY <2>1 DEF MacCell
<1>4. h \in Seq(MacCell) /\ Len(h) = 1 /\ h[1] = top
  <2> HIDE DEF top
  <2>1. h \in [1..1 -> MacCell]
    BY <1>3
  <2>2. h \in Seq(MacCell)
    BY <2>1, SeqDef
  <2> QED
    BY <2>1, <2>2, LenProperties
<1>5. p \in Seq(MacCell) /\ Len(p) = n /\ \A i \in 1..n : p[i] = Mac!Byte(d[i])
  <2> HIDE DEF n
  <2>1. p \in [1..n -> MacCell]
    BY <1>2
  <2>2. p \in Seq(MacCell)
    BY <1>1, <2>1, SeqDef
  <2> QED
    BY <1>1, <2>1, <2>2, LenProperties
<1>6. BlockOf(d) = c
  BY DEF BlockOf, Mac!Header, Mac!Bytes
<1> HIDE DEF top, h, p, n
<1>7. /\ c \in Seq(MacCell) /\ Len(c) = Len(h) + Len(p)
      /\ \A i \in 1..(Len(h) + Len(p)) : c[i] = IF i <= Len(h) THEN h[i] ELSE p[i - Len(h)]
  BY <1>4, <1>5, ConcatProperties
<1> HIDE DEF c
<1>8. Len(c) = n + 1 /\ c[1] = top
  BY <1>1, <1>4, <1>5, <1>7
<1>9. ASSUME NEW i \in 1..n PROVE c[i + 1] = Mac!Byte(d[i])
  <2>1. i + 1 \in 1..(1 + n) /\ ~(i + 1 <= 1) /\ (i + 1) - 1 = i
    BY <1>1
  <2> QED
    BY <1>4, <1>5, <1>7, <2>1
<1>10. ASSUME NEW i \in 1..Len(c) PROVE ~Mac!Altered(c[i])
  <2>1. CASE i = 1
    BY <1>8, <2>1 DEF Mac!Altered, top
  <2>2. CASE i # 1
    <3>1. i - 1 \in 1..n /\ (i - 1) + 1 = i
      BY <1>1, <1>8, <2>2
    <3>2. c[i] = Mac!Byte(d[i - 1])
      BY <1>9, <3>1
    <3> QED
      BY <3>2 DEF Mac!Altered, Mac!Byte
  <2> QED
    BY <2>1, <2>2
<1>11. WasOf(c) = d
  <2>1. Len(c) - 1 = n
    BY <1>1, <1>8
  <2>2. ASSUME NEW i \in 1..n PROVE c[i + 1].was = d[i]
    <3>1. c[i + 1] = Mac!Byte(d[i])
      BY <1>9
    <3> QED
      BY <3>1 DEF Mac!Byte
  <2>3. d \in [1..n -> Int]
    BY LenProperties DEF n
  <2>4. d = [i \in 1..n |-> d[i]]
    BY <2>3
  <2> QED
    BY <2>1, <2>2, <2>4 DEF WasOf
<1>12. BlockFits(c)
  BY <1>8, <1>11 DEF BlockFits, top
<1> QED
  BY <1>1, <1>6, <1>7, <1>8, <1>9, <1>10, <1>12 DEF n

\* The file below, resized.
LEMMA BaseResizeIs ==
    ASSUME NEW s \in Seq(MacCell), NEW n \in Nat
    PROVE  LET r == Mac!BaseResize(s, n)
           IN /\ r \in Seq(MacCell) /\ Len(r) = n /\ Len(s) \in Nat
              /\ \A i \in 1..n : r[i] = IF i <= Len(s) THEN s[i] ELSE Mac!Byte(0)
<1>1. Len(s) \in Nat
  BY LenProperties
<1>2. CASE n <= Len(s)
  <2>1. Mac!BaseResize(s, n) = SubSeq(s, 1, n)
    BY <1>2 DEF Mac!BaseResize
  <2>2. /\ SubSeq(s, 1, n) \in Seq(MacCell) /\ Len(SubSeq(s, 1, n)) = n
        /\ \A i \in 1..n : SubSeq(s, 1, n)[i] = s[i]
    BY <1>1, <1>2, PartIs
  <2> QED
    BY <1>1, <1>2, <2>1, <2>2
<1>3. CASE n > Len(s)
  <2> DEFINE k == n - Len(s)
             z == Mac!Zeros(k)
             y == [i \in 1..Len(z) |-> Mac!Byte(z[i])]
  <2>0. k \in Nat
    BY <1>1, <1>3
  <2> HIDE DEF k
  <2>1. Mac!BaseResize(s, n) = s \o y
    BY <1>1, <1>3 DEF Mac!BaseResize, Mac!Bytes, k
  <2>2. Len(z) = k /\ \A i \in 1..k : z[i] = 0
    <3> DEFINE w == [i \in 1..k |-> 0]
    <3>1. w \in [1..k -> Int]
      OBVIOUS
    <3>2. w \in Seq(Int)
      BY <2>0, <3>1, SeqDef
    <3>3. Len(w) = k
      BY <2>0, <3>1, <3>2, LenProperties
    <3> QED
      BY <3>3 DEF Mac!Zeros
  <2> HIDE DEF z
  <2>3. Mac!Byte(0) \in MacCell
    BY EmptySeq DEF Mac!Byte, MacCell
  <2>4. y \in [1..k -> MacCell] /\ \A i \in 1..k : y[i] = Mac!Byte(0)
    BY <2>2, <2>3
  <2> HIDE DEF y
  <2>5. y \in Seq(MacCell) /\ Len(y) = k
    BY <2>0, <2>4, SeqDef, LenProperties
  <2>6. /\ s \o y \in Seq(MacCell) /\ Len(s \o y) = Len(s) + Len(y)
        /\ \A i \in 1..(Len(s) + Len(y)) : (s \o y)[i] = IF i <= Len(s) THEN s[i] ELSE y[i - Len(s)]
    BY <2>5, ConcatProperties
  <2>7. Len(s) + k = n
    BY <1>1, <1>3 DEF k
  <2>8. \A i \in 1..n : ~(i <= Len(s)) => i - Len(s) \in 1..k
    BY <1>1, <2>0, <2>7
  <2> QED
    BY <1>1, <1>3, <2>1, <2>4, <2>5, <2>6, <2>7, <2>8
<1> QED
  BY <1>1, <1>2, <1>3

\* A file whose blocks are those of another or fit.
LEMMA Rebuilt ==
    ASSUME NEW f, MacGood(f), NEW g \in MacSet, Len(g.cdata) <= BS, Whole(g.base),
           \A i \in 1..Len(g.base) : Mac!Altered(g.base[i]) =>
                i \in 1..Len(f.base) /\ g.base[i] = f.base[i],
           \A k \in Nat : MacPart(g, k) # <<>> =>
                MacPart(g, k) = MacPart(f, k) \/ BlockFits(MacPart(g, k))
    PROVE  MacGood(g)
<1>1. AlteredOnce(f.base) /\ \A k \in Nat : MacPart(f, k) # <<>> => BlockFits(MacPart(f, k))
  BY DEF MacGood
<1>2. AlteredOnce(g.base)
  BY <1>1 DEF AlteredOnce
<1> QED
  BY <1>1, <1>2 DEF MacGood

\* A hole fits where holes are allowed.
LEMMA HoleFits ==
    ASSUME NEW c \in Seq(MacCell), c # <<>>, mVolume.holes,
           \A i \in 1..Len(c) : c[i] = Mac!Byte(0)
    PROVE  BlockFits(c)
<1>1. 1 \in 1..Len(c)
  BY LenProperties, EmptySeq
<1> QED
  BY <1>1 DEF BlockFits, Mac!Byte

\* Bytes written below.
LEMMA SplicedIs ==
    ASSUME NEW s \in Seq(MacCell), NEW to \in Nat, NEW c \in Seq(MacCell)
    PROVE  LET r == Mac!BaseResize(s, Mac!Most(to, Len(s)))
               o == SubSeq(r, 1, to) \o c \o SubSeq(r, to + Len(c) + 1, Len(r))
           IN /\ o \in Seq(MacCell) /\ Len(s) \in Nat /\ Len(c) \in Nat
              /\ Len(o) = (IF Len(s) < to + Len(c) THEN to + Len(c) ELSE Len(s))
              /\ \A i \in 1..Len(o) : o[i] = IF to < i /\ i <= to + Len(c) THEN c[i - to]
                                            ELSE IF i <= Len(s) THEN s[i] ELSE Mac!Byte(0)
<1> DEFINE n == Mac!Most(to, Len(s))
           r == Mac!BaseResize(s, n)
           o == SubSeq(r, 1, to) \o c \o SubSeq(r, to + Len(c) + 1, Len(r))
<1>1. Len(s) \in Nat /\ Len(c) \in Nat
  BY LenProperties
<1>2. n \in Nat /\ to <= n /\ Len(s) <= n /\ (n = to \/ n = Len(s))
  BY <1>1 DEF Mac!Most
<1> HIDE DEF n
<1>3. r \in Seq(MacCell) /\ Len(r) = n /\ \A i \in 1..n : r[i] = IF i <= Len(s) THEN s[i] ELSE Mac!Byte(0)
  BY <1>2, BaseResizeIs
<1> HIDE DEF r
<1>4. /\ o \in Seq(MacCell)
      /\ Len(o) = (IF Len(r) < to + Len(c) THEN to + Len(c) ELSE Len(r))
      /\ \A i \in 1..Len(o) : o[i] = IF to < i /\ i <= to + Len(c) THEN c[i - to] ELSE r[i]
  <2>1. r \in Seq(MacCell) /\ c \in Seq(MacCell) /\ to \in Nat /\ to <= Len(r)
    BY <1>2, <1>3
  <2> QED
    BY ONLY <2>1, SpliceIs
<1> HIDE DEF o
<1>5. Len(o) = IF Len(s) < to + Len(c) THEN to + Len(c) ELSE Len(s)
  <2> DEFINE m == to + Len(c)
             len == Len(s)
  <2>1. Len(r) = n /\ Len(o) = IF Len(r) < m THEN m ELSE Len(r)
    BY <1>3, <1>4
  <2>2. m \in Nat /\ to <= m /\ len \in Nat /\ n \in Nat /\ to <= n /\ len <= n /\ (n = to \/ n = len)
    BY <1>1, <1>2
  <2> HIDE DEF m, len
  <2>3. Len(o) = IF len < m THEN m ELSE len
    BY <2>1, <2>2
  <2> QED
    BY <2>3 DEF m, len
<1>6. ASSUME NEW i \in 1..Len(o)
      PROVE  o[i] = IF to < i /\ i <= to + Len(c) THEN c[i - to]
                    ELSE IF i <= Len(s) THEN s[i] ELSE Mac!Byte(0)
  <2>1. CASE to < i /\ i <= to + Len(c)
    BY <1>4, <2>1
  <2>2. CASE ~(to < i /\ i <= to + Len(c))
    <3>1. i \in 1..n
      BY <1>1, <1>2, <1>3, <1>4, <2>2
    <3>2. o[i] = r[i]
      BY <1>4, <2>2
    <3> QED
      BY <1>3, <2>2, <3>1, <3>2
  <2> QED
    BY <2>1, <2>2
<1> QED
  BY <1>1, <1>4, <1>5, <1>6 DEF o, r, n

\* Blocks below that were all there, or not at all.
LEMMA WholeBlocks ==
    ASSUME NEW n \in Nat, NEW k \in Nat, n % RBS = 0, n < k * RBS + RBS
    PROVE  n <= k * RBS
<1> DEFINE q == n \div RBS
<1>1. q \in Nat /\ n = q * RBS + 0
  BY RBSIs, SplitIs
<1> HIDE DEF q
<1>2. q * RBS \in Nat /\ k * RBS \in Nat /\ (k < q => k * RBS + RBS <= q * RBS)
      /\ (q < k => q * RBS + RBS <= k * RBS)
  BY <1>1, RBSIs, StepsOf
<1> DEFINE qr == q * RBS
           kr == k * RBS
<1>3. n = qr /\ n < kr + RBS /\ qr \in Nat /\ kr \in Nat /\ (k < q => kr + RBS <= qr)
      /\ (q < k => qr + RBS <= kr) /\ (q = k => qr = kr)
  BY <1>1, <1>2
<1> HIDE DEF qr, kr
<1>4. n <= kr
  BY <1>1, <1>3, RBSIs
<1> QED
  BY <1>4 DEF kr

\* The file below where one block was put in its place, the last of the file or among
\* those after it.
Placed(f, b, d, g) ==
    LET to == b * RBS
        m == Len(d)
        len == Len(f.base)
    IN /\ \/ Len(g.base) = to + m + 1
          \/ m = BS /\ Len(g.base) = len /\ to + m + 1 <= len
       /\ to <= len \/ (mVolume.holes /\ len % RBS = 0)
       /\ \A i \in 1..Len(g.base) :
            g.base[i] = IF to < i /\ i <= to + m + 1 THEN BlockOf(d)[i - to]
                        ELSE IF i <= len THEN f.base[i] ELSE Mac!Byte(0)

\* The file below after a block was written.
LEMMA MacWrittenIs ==
    ASSUME NEW f, MacGood(f), NEW b \in Nat, NEW d \in Seq(Int), d # <<>>, Len(d) <= BS,
           ML!Reached(f, b), Len(d) = BS \/ Mac!Size(f) <= b * BS + Len(d), f.left > 0
    PROVE  LET g == Mac!WriteOneBlock(f, b, d)
               to == b * RBS
               m == Len(d)
               len == Len(f.base)
           IN /\ g \in MacSet /\ g.cdata = f.cdata /\ g.left = f.left - 1 /\ g.reads = f.reads
              /\ g.ok /\ g.threw = f.threw
              /\ m \in 1..BS /\ to \in Nat /\ len \in Nat
              /\ Len(g.base) = (IF len < to + m + 1 THEN to + m + 1 ELSE len)
              /\ Placed(f, b, d, g)
<1> DEFINE to == b * RBS
           at == b * BS
           m == Len(d)
           len == Len(f.base)
           c == BlockOf(d)
           r == Mac!BaseResize(f.base, Mac!Most(to, len))
           o == SubSeq(r, 1, to) \o c \o SubSeq(r, to + Len(c) + 1, Len(r))
           left == f.left - 1
           g == [f EXCEPT !.base = o, !.left = left, !.ok = TRUE]
<1>1. f \in MacSet /\ f.base \in Seq(MacCell) /\ Whole(f.base) /\ f.left \in Nat
  BY DEF MacGood, MacSet
<1>2. /\ c \in Seq(MacCell) /\ Len(c) = m + 1 /\ m \in 1..BS /\ to \in Nat /\ at \in Nat
  <2>1. c \in Seq(MacCell) /\ Len(c) = m + 1 /\ m \in Nat \ {0}
    BY BlockOfIs
  <2>2. to \in Nat /\ at \in Nat
    BY HeaderEach
  <2> HIDE DEF c, to, at
  <2> QED
    BY <2>1, <2>2, RBSIs
<1>3. Mac!WriteOneBlock(f, b, d) = g
  <2>1. Mac!LocWithHeader(b * BS) = to
    BY BlockAt0
  <2>2. f.left # 0
    BY <1>1
  <2> QED
    BY <2>1, <2>2 DEF Mac!WriteOneBlock, BlockOf
<1>4. /\ o \in Seq(MacCell) /\ len \in Nat
      /\ Len(o) = (IF len < to + Len(c) THEN to + Len(c) ELSE len)
      /\ \A i \in 1..Len(o) : o[i] = IF to < i /\ i <= to + Len(c) THEN c[i - to]
                                    ELSE IF i <= len THEN f.base[i] ELSE Mac!Byte(0)
  <2>1. f.base \in Seq(MacCell) /\ to \in Nat /\ c \in Seq(MacCell)
    BY <1>1, <1>2
  <2> HIDE DEF c, to
  <2> QED
    BY ONLY <2>1, SplicedIs
<1>5. to + Len(c) = to + m + 1
  <2> HIDE DEF to, c
  <2> QED
    BY <1>2
<1> HIDE DEF o
<1>6. /\ g \in MacSet /\ g.cdata = f.cdata /\ g.left = f.left - 1 /\ g.reads = f.reads
      /\ g.ok /\ g.threw = f.threw /\ g.base = o
  <2>1. left \in Nat
    BY <1>1
  <2> HIDE DEF left
  <2>2. /\ g \in MacSet /\ g.cdata = f.cdata /\ g.left = left /\ g.reads = f.reads
        /\ g.ok /\ g.threw = f.threw /\ g.base = o
    BY <1>1, <1>4, <2>1 DEF MacSet
  <2> QED
    BY <2>2 DEF left
<1> HIDE DEF g
<1>7. m = BS \/ len <= to + m + 1
  <2>1. CASE m = BS
    BY <2>1
  <2>2. CASE m # BS
    <3>1. m + 1 \in 1..BS
      BY <1>2, <2>2, RBSIs
    <3> DEFINE j == m + 1
    <3> HIDE DEF j
    <3>2. at + j <= Mac!Size(f) <=> to + 1 + j <= len
      BY <1>1, <3>1, LenOrder DEF j
    <3>3. Mac!Size(f) <= at + m /\ Mac!Size(f) \in Nat
      BY <1>1, <2>2, LenIs
    <3> HIDE DEF at, to, len
    <3> QED
      BY <1>2, <1>4, <3>2, <3>3 DEF j
  <2> QED
    BY <2>1, <2>2
<1>8. to <= len \/ (mVolume.holes /\ len % RBS = 0)
  <2>1. Mac!Size(f) >= at \/ (mVolume.holes /\ Mac!Size(f) % BS = 0)
    BY DEF ML!Reached
  <2>2. at <= Mac!Size(f) <=> to <= len
    BY <1>1, LenOrder
  <2>3. Mac!Size(f) % BS = 0 <=> len % RBS = 0
    BY <1>1, LenOrder
  <2>4. Mac!Size(f) \in Nat
    BY <1>1, LenIs
  <2> HIDE DEF at, to, len
  <2> QED
    BY <1>2, <2>1, <2>2, <2>3, <2>4
<1>9. Len(g.base) = to + m + 1 \/ (m = BS /\ Len(g.base) = len /\ to + m + 1 <= len)
  <2> HIDE DEF to, m, len
  <2>1. m \in Nat
    BY <1>2, RBSIs
  <2> QED
    BY <1>2, <1>4, <1>5, <1>6, <1>7, <2>1
<1>10. Placed(f, b, d, g)
  <2>1. \A i \in 1..Len(g.base) : g.base[i] = IF to < i /\ i <= to + m + 1 THEN c[i - to]
                                              ELSE IF i <= len THEN f.base[i] ELSE Mac!Byte(0)
    BY <1>4, <1>5, <1>6
  <2> QED
    BY <1>8, <1>9, <2>1 DEF Placed
<1> QED
  BY <1>2, <1>3, <1>4, <1>5, <1>6, <1>10

\* After a block was put in its place every block fits.
LEMMA PlacedGood ==
    ASSUME NEW f, MacGood(f), NEW b \in Nat, NEW d \in Seq(Int), d # <<>>, Len(d) <= BS,
           NEW g \in MacSet, Len(g.cdata) <= BS, Placed(f, b, d, g)
    PROVE  MacGood(g)
<1> DEFINE to == b * RBS
           m == Len(d)
           len == Len(f.base)
           now == Len(g.base)
           c == BlockOf(d)
<1>0. f.base \in Seq(MacCell)
  BY DEF MacGood, MacSet
<1>1. /\ m \in 1..BS /\ to \in Nat /\ len \in Nat
      /\ now = to + m + 1 \/ (m = BS /\ now = len /\ to + m + 1 <= len)
      /\ to <= len \/ (mVolume.holes /\ len % RBS = 0)
      /\ \A i \in 1..now : g.base[i] = IF to < i /\ i <= to + m + 1 THEN c[i - to]
                                       ELSE IF i <= len THEN f.base[i] ELSE Mac!Byte(0)
  <2>1. m \in Nat \ {0} /\ to \in Nat /\ len \in Nat
    BY <1>0, BlockOfIs, HeaderEach, LenProperties
  <2>2. m \in 1..BS
    BY <2>1, RBSIs
  <2> QED
    BY <2>1, <2>2 DEF Placed
<1>2. /\ c \in Seq(MacCell) /\ Len(c) = m + 1 /\ BlockFits(c)
      /\ \A i \in 1..Len(c) : ~Mac!Altered(c[i])
  BY BlockOfIs
<1>3. f.base \in Seq(MacCell) /\ Whole(f.base) /\ Len(f.cdata) <= BS /\ g.base \in Seq(MacCell)
  BY DEF MacGood, MacSet
<1>4. RBS \in Nat /\ BS \in Nat \ {0} /\ RBS = BS + 1
  BY RBSIs
<1> HIDE DEF c
<1>5. Whole(g.base)
  <2>1. CASE now = to + m + 1
    <3>1. Len(g.base) = b * RBS + 1 + m
      <4>1. now = to + m + 1
        BY <1>1, <2>1
      <4> HIDE DEF now, to, m
      <4>2. now = to + 1 + m
        BY <1>1, <4>1
      <4> QED
        BY <4>2 DEF now, to, m
    <3> QED
      BY <1>1, <1>3, <3>1, SizeFrom
  <2>2. CASE now = len
    <3>1. Len(g.base) = Len(f.base)
      BY <1>1, <2>2
    <3> QED
      BY <1>3, <3>1, SizeByLen
  <2> QED
    BY <1>1, <2>1, <2>2
<1>6. ASSUME NEW i \in 1..now, Mac!Altered(g.base[i])
      PROVE  i \in 1..len /\ g.base[i] = f.base[i]
  <2>1. CASE to < i /\ i <= to + m + 1
    <3>1. g.base[i] = c[i - to]
      BY <1>1, <2>1
    <3>2. i - to \in 1..Len(c)
      <4> HIDE DEF to, m, now
      <4>1. i \in Nat
        BY <1>1, <1>4 DEF now
      <4> QED
        BY <1>1, <1>2, <2>1, <4>1
    <3> QED
      BY <1>2, <1>6, <3>1, <3>2
  <2>2. CASE ~(to < i /\ i <= to + m + 1)
    <3>1. g.base[i] = IF i <= len THEN f.base[i] ELSE Mac!Byte(0)
      BY <1>1, <2>2
    <3>2. i <= len
      BY <1>6, <3>1 DEF Mac!Altered, Mac!Byte
    <3>3. i \in 1..len
      BY <1>1, <3>2
    <3> QED
      BY <3>1, <3>2, <3>3
  <2> QED
    BY <2>1, <2>2
<1>7. ASSUME NEW k \in Nat, MacPart(g, k) # <<>>
      PROVE  MacPart(g, k) = MacPart(f, k) \/ BlockFits(MacPart(g, k))
  <2> DEFINE t == k * RBS
             p == MacPart(g, k)
             q == MacPart(f, k)
  <2>1. /\ p \in Seq(MacCell) /\ t \in Nat
        /\ Len(p) = (IF now <= t THEN 0 ELSE Least(RBS, now - t))
        /\ \A i \in 1..Len(p) : p[i] = g.base[t + i] /\ t + i \in 1..now
    BY <1>3, RawPartIs
  <2>2. /\ q \in Seq(MacCell)
        /\ Len(q) = (IF len <= t THEN 0 ELSE Least(RBS, len - t))
        /\ \A i \in 1..Len(q) : q[i] = f.base[t + i] /\ t + i \in 1..len
    BY <1>3, RawPartIs
  <2>3. /\ k < b => t + RBS <= to
        /\ b < k => to + RBS <= t
        /\ k = b => t = to
    BY RBSIs, StepsOf
  <2>4. Len(p) \in Nat /\ Len(p) # 0
    BY <1>7, <2>1, EmptySeq, LenProperties
  <2>5. \A i \in 1..now : g.base[i] = IF to < i /\ i <= to + m + 1 THEN c[i - to]
                                      ELSE IF i <= len THEN f.base[i] ELSE Mac!Byte(0)
    BY <1>1
  <2>6. to \in Nat /\ m \in Nat /\ len \in Nat /\ m <= BS /\ m >= 1
    BY <1>1, <1>4
  <2>7. /\ now = to + m + 1 \/ (m = BS /\ now = len /\ to + m + 1 <= len)
        /\ to <= len \/ (mVolume.holes /\ len % RBS = 0)
    BY <1>1
  <2>8. len % RBS = 0 /\ len < t + RBS => len <= t
    BY <1>1, WholeBlocks
  <2>9. ASSUME Len(p) = Len(q), \A i \in 1..Len(q) : g.base[t + i] = f.base[t + i] PROVE p = q
    BY <1>3, <2>9, SameMacPart
  <2> HIDE DEF now, to, m, len, p, q, t
  <2>10. CASE k = b
    <3>1. Len(p) = m + 1
      BY <1>4, <2>1, <2>3, <2>6, <2>7, <2>10 DEF Least
    <3>2. ASSUME NEW i \in 1..(m + 1) PROVE p[i] = c[i]
      <4>1. t + i \in 1..now /\ p[i] = g.base[t + i]
        BY <2>1, <3>1
      <4>2. to < t + i /\ t + i <= to + m + 1 /\ t + i - to = i
        BY <2>3, <2>6, <2>10
      <4> DEFINE x == t + i
      <4>3. x \in 1..now /\ p[i] = g.base[x]
        BY <4>1
      <4>4. to < x /\ x <= to + m + 1 /\ x - to = i
        BY <2>1, <2>6, <4>2
      <4> HIDE DEF x
      <4>5. p[i] = c[x - to]
        BY <2>5, <4>3, <4>4
      <4> QED
        BY <4>4, <4>5
    <3>3. p = c
      <4>1. p \in Seq(MacCell) /\ c \in Seq(MacCell) /\ Len(p) = Len(c) /\ \A i \in 1..Len(p) : p[i] = c[i]
        BY <1>2, <2>1, <3>1, <3>2 DEF m
      <4> QED
        BY ONLY <4>1, SeqEqual
    <3> QED
      BY <1>2, <3>3 DEF p
  <2>11. CASE k < b
    <3>1. Len(p) = RBS
      BY <1>4, <2>1, <2>3, <2>6, <2>7, <2>11 DEF Least
    <3>2. ASSUME NEW i \in 1..RBS
          PROVE  p[i] = (IF t + i <= len THEN f.base[t + i] ELSE Mac!Byte(0)) /\ p[i] = g.base[t + i]
      <4>1. t + i \in 1..now /\ p[i] = g.base[t + i]
        BY <2>1, <3>1
      <4>2. ~(to < t + i)
        BY <1>4, <2>1, <2>3, <2>6, <2>11
      <4> DEFINE x == t + i
      <4>3. x \in 1..now /\ ~(to < x) /\ p[i] = g.base[x]
        BY <4>1, <4>2
      <4> HIDE DEF x
      <4>4. g.base[x] = IF x <= len THEN f.base[x] ELSE Mac!Byte(0)
        BY <2>5, <4>3
      <4> QED
        BY <4>3, <4>4 DEF x
    <3>3. CASE t + RBS <= len
      <4>1. Len(q) = RBS
        BY <1>4, <2>1, <2>2, <2>6, <3>3 DEF Least
      <4>2. ASSUME NEW i \in 1..RBS PROVE g.base[t + i] = f.base[t + i]
        <5>1. t + i <= len
          BY <1>4, <2>1, <2>6, <3>3
        <5> QED
          BY <3>2, <5>1
      <4> QED
        BY <2>9, <3>1, <4>1, <4>2 DEF p, q
    <3>4. CASE ~(t + RBS <= len)
      <4>1. len < to
        BY <1>4, <2>1, <2>3, <2>6, <2>11, <3>4
      <4>2. mVolume.holes /\ len <= t
        BY <1>4, <2>1, <2>6, <2>7, <2>8, <3>4, <4>1
      <4>3. ASSUME NEW i \in 1..Len(p) PROVE p[i] = Mac!Byte(0)
        <5>1. ~(t + i <= len)
          BY <2>1, <2>4, <2>6, <4>2
        <5> QED
          BY <3>1, <3>2, <5>1
      <4>4. p # <<>>
        BY <1>7 DEF p
      <4> QED
        BY <2>1, <4>2, <4>3, <4>4, HoleFits DEF p
    <3> QED
      BY <3>3, <3>4
  <2>12. CASE b < k
    <3>1. now = len
      BY <1>4, <2>1, <2>3, <2>4, <2>6, <2>7, <2>12
    <3>2. Len(p) = Len(q)
      BY <2>1, <2>2, <3>1
    <3>3. ASSUME NEW i \in 1..Len(q) PROVE g.base[t + i] = f.base[t + i]
      <4>1. t + i \in 1..len /\ t + i \in 1..now
        BY <2>2, <3>1
      <4>2. ~(t + i <= to + m + 1)
        BY <1>4, <2>1, <2>3, <2>4, <2>6, <2>12, <3>2
      <4>3. t + i <= len
        BY <2>6, <4>1
      <4> QED
        BY <2>5, <4>1, <4>2, <4>3
    <3> QED
      BY <2>9, <3>2, <3>3 DEF p, q
  <2> QED
    BY <2>10, <2>11, <2>12
<1>8. g \in MacSet /\ Len(g.cdata) <= BS
  OBVIOUS
<1> QED
  BY <1>5, <1>6, <1>7, <1>8, Rebuilt DEF now, len

\* Its bytes are those written, and the others as they were.
LEMMA PlacedBytes ==
    ASSUME NEW f, MacGood(f), NEW b \in Nat, NEW d \in Seq(Int), d # <<>>, Len(d) <= BS,
           NEW g, MacGood(g), Placed(f, b, d, g)
    PROVE  /\ \A i \in 1..Mac!Size(g) :
                MacByteAt(g, i) = IF i \in b * BS + 1 .. b * BS + Len(d) THEN d[i - b * BS]
                                  ELSE ML!ByteOr0(f, i)
           /\ Mac!Size(g) = b * BS + Len(d)
              \/ (Len(d) = BS /\ Mac!Size(g) = Mac!Size(f) /\ b * BS + Len(d) <= Mac!Size(f))
<1> DEFINE to == b * RBS
           at == b * BS
           m == Len(d)
           len == Len(f.base)
           now == Len(g.base)
           n == Mac!Size(f)
           s == Mac!Size(g)
           c == BlockOf(d)
<1>2. Len(c) = m + 1 /\ m \in Nat \ {0} /\ \A i \in 1..m : c[i + 1] = Mac!Byte(d[i])
  BY BlockOfIs
<1>4. f.base \in Seq(MacCell) /\ Whole(f.base) /\ g.base \in Seq(MacCell) /\ Whole(g.base)
  BY DEF MacGood, MacSet
<1>1. /\ m \in 1..BS /\ to \in Nat /\ len \in Nat
      /\ now = to + m + 1 \/ (m = BS /\ now = len /\ to + m + 1 <= len)
      /\ \A i \in 1..now : g.base[i] = IF to < i /\ i <= to + m + 1 THEN c[i - to]
                                       ELSE IF i <= len THEN f.base[i] ELSE Mac!Byte(0)
  <2>1. to \in Nat /\ len \in Nat
    BY <1>4, HeaderEach, LenProperties
  <2>2. m \in 1..BS
    BY <1>2, RBSIs
  <2> QED
    BY <2>1, <2>2 DEF Placed
<1> HIDE DEF c
<1>5. n \in Nat /\ s \in Nat /\ at \in Nat
  BY <1>4, LenIs, HeaderEach
<1>6. s = at + m \/ (m = BS /\ s = n /\ at + m <= n)
  <2>2. to + 1 + m = to + m + 1
    <3> HIDE DEF to, m
    <3> QED
      BY <1>1, <1>2
  <2>3. CASE now = to + m + 1
    <3>1. now = to + 1 + m
      BY <2>2, <2>3
    <3> QED
      BY <1>1, <1>4, <3>1, SizeFrom
  <2>4. CASE m = BS /\ now = len /\ to + m + 1 <= len
    <3>1. at + m <= n <=> to + 1 + m <= len
      BY <1>1, <1>4, LenOrder
    <3>2. s = n
      BY <1>4, <2>4, SizeByLen
    <3> QED
      BY <2>2, <2>4, <3>1, <3>2
  <2> QED
    BY <1>1, <2>3, <2>4
<1>7. ASSUME NEW i \in 1..s
      PROVE  MacByteAt(g, i) = IF i \in at + 1 .. at + m THEN d[i - at]
                               ELSE IF i <= n THEN MacByteAt(f, i) ELSE 0
  <2> DEFINE k == (i - 1) \div BS
             j == ((i - 1) % BS) + 1
             t == k * RBS
             u == k * BS
             x == t + 1 + j
  <2>0. i \in Nat \ {0} /\ i <= s
    <3> HIDE DEF s
    <3> QED
      BY <1>5
  <2>1. k \in Nat /\ j \in 1..BS /\ i = u + j
    BY <2>0, ByteIn
  <2> HIDE DEF k, j
  <2>2. MacByteAt(g, i) = g.base[x].was /\ MacByteAt(f, i) = f.base[x].was
    BY <2>1, CellIs
  <2>3. (u + j <= s <=> x <= now) /\ (u + j <= n <=> x <= len)
    BY <1>4, <2>1, LenOrder
  <2>4. /\ k < b => t + RBS <= to /\ u + BS <= at
        /\ b < k => to + RBS <= t /\ at + BS <= u
        /\ k = b => t = to /\ u = at
    BY <2>1, RBSIs, StepsOf
  <2>5. t \in Nat /\ u \in Nat
    BY <2>1, HeaderEach
  <2>6. \A y \in 1..now : g.base[y] = IF to < y /\ y <= to + m + 1 THEN c[y - to]
                                      ELSE IF y <= len THEN f.base[y] ELSE Mac!Byte(0)
    BY <1>1
  <2>7. j \in Nat /\ j >= 1 /\ j <= BS /\ m \in Nat /\ m >= 1 /\ m <= BS /\ RBS = BS + 1 /\ BS \in Nat /\ i = u + j
    BY <1>1, <2>1, RBSIs
  <2>8. now \in Nat /\ to \in Nat /\ at \in Nat
    BY <1>1, <1>5, <1>4, LenProperties
  <2> HIDE DEF n, s, t, u, to, at, m, len, now
  <2>9. x \in 1..now
    BY <2>0, <2>3, <2>5, <2>7, <2>8
  <2>10. CASE k = b /\ j <= m
    <3>1. i \in at + 1 .. at + m /\ i - at = j /\ j \in 1..m
      BY <2>4, <2>7, <2>8, <2>10
    <3>2. to < x /\ x <= to + m + 1 /\ x - to = j + 1
      BY <2>4, <2>7, <2>8, <2>10
    <3>3. g.base[x] = c[j + 1]
      BY <2>6, <2>9, <3>2
    <3>4. c[j + 1] = Mac!Byte(d[j])
      BY <1>2, <3>1
    <3> QED
      BY <2>2, <3>1, <3>3, <3>4 DEF Mac!Byte
  <2>11. CASE ~(k = b /\ j <= m)
    <3>1. ~(i \in at + 1 .. at + m) /\ ~(to < x /\ x <= to + m + 1)
      <4>1. CASE k = b
        BY <2>4, <2>5, <2>7, <2>8, <2>11, <4>1
      <4>2. CASE k < b
        BY <2>4, <2>5, <2>7, <2>8, <4>2
      <4>3. CASE b < k
        BY <2>4, <2>5, <2>7, <2>8, <4>3
      <4> QED
        BY <2>1, <4>1, <4>2, <4>3
    <3>2. g.base[x] = IF x <= len THEN f.base[x] ELSE Mac!Byte(0)
      BY <2>6, <2>9, <3>1
    <3>3. i <= n <=> x <= len
      BY <2>3, <2>7
    <3> QED
      BY <2>2, <3>1, <3>2, <3>3 DEF Mac!Byte
  <2> QED
    BY <2>10, <2>11
<1> QED
  BY <1>6, <1>7 DEF ML!ByteOr0

\* One block written (MACFileIO.cpp:219-288).
LEMMA MacWriteOneIs ==
    ASSUME NEW f, MacGood(f), NEW b \in Nat, NEW d \in Seq(Int), d # <<>>, Len(d) <= BS,
           ML!Reached(f, b), Len(d) = BS \/ Mac!Size(f) <= b * BS + Len(d), f.left > 0
    PROVE  LET g == Mac!WriteOneBlock(f, b, d)
           IN MacGood(g) /\ ML!Put(f, b * BS, d, g)
<1> DEFINE g == Mac!WriteOneBlock(f, b, d)
           at == b * BS
           m == Len(d)
           n == Mac!Size(f)
           s == Mac!Size(g)
<1>1. g \in MacSet /\ g.cdata = f.cdata /\ Placed(f, b, d, g)
  BY MacWrittenIs
<1>2. f.base \in Seq(MacCell) /\ Whole(f.base) /\ Len(f.cdata) <= BS
  BY DEF MacGood, MacSet
<1> HIDE DEF g
<1>3. MacGood(g)
  BY <1>1, <1>2, PlacedGood
<1>4. /\ \A i \in 1..s : MacByteAt(g, i) = IF i \in at + 1 .. at + m THEN d[i - at]
                                           ELSE ML!ByteOr0(f, i)
      /\ s = at + m \/ (m = BS /\ s = n /\ at + m <= n)
  BY <1>1, <1>3, PlacedBytes
<1>5. n \in Nat /\ at \in Nat /\ m \in Nat
  BY <1>2, LenIs, HeaderEach, LenProperties
<1> DEFINE to == b * RBS
           len == Len(f.base)
<1>6. at + m <= n <=> to + 1 + m <= len
  <2>1. m \in 1..BS
    <3>1. m \in Nat \ {0}
      BY <1>5, EmptySeq
    <3> QED
      BY <3>1, RBSIs
  <2> QED
    BY <1>2, <2>1, LenOrder
<1>8. Len(g.base) = (IF len < to + m + 1 THEN to + m + 1 ELSE len) /\ to \in Nat /\ len \in Nat
  BY MacWrittenIs DEF g
<1>9. Len(g.base) = len => s = n
  BY <1>1, <1>2, SizeByLen DEF MacSet
<1>7. s = Most(n, at + m)
  <2>1. s = at + m \/ at + m <= n
    BY <1>4
  <2> HIDE DEF s, n, at, m, to, len
  <2>2. CASE len < to + m + 1
    <3>1. ~(at + m <= n)
      BY <1>5, <1>6, <1>8, <2>2
    <3> QED
      BY <1>5, <2>1, <3>1 DEF Most
  <2>3. CASE ~(len < to + m + 1)
    <3>1. at + m <= n
      BY <1>5, <1>6, <1>8, <2>3
    <3>2. s = n
      BY <1>8, <1>9, <2>3
    <3> QED
      BY <1>5, <3>1, <3>2 DEF Most
  <2> QED
    BY <2>2, <2>3
<1> QED
  BY <1>3, <1>4, <1>7 DEF ML!Put, ML!Most, Most, g

\* MACFileIO is a layer that BlockFileIO's promises hold of.
LEMMA MacKeeps ==
    ASSUME mVolume \in MacVolumes
    PROVE  ML!LayerKeeps
<1>1. ML!LayerTyped /\ ML!LayerStays /\ ML!LayerCache
  BY MacTypes, MacCache
<1>2. ML!LayerRead
  <2> SUFFICES ASSUME NEW f, NEW b \in Nat, MacGood(f), ~f.threw, MacReads(f) >= 0
               PROVE  LET r == Mac!ReadOneBlock(f, b)
                      IN /\ MacGood(r.f) /\ ML!Same(f, r.f) /\ MacStays(f, r.f)
                         /\ MacWrites(r.f) = MacWrites(f)
                         /\ r.f.cblk = f.cblk /\ r.f.cdata = f.cdata /\ r.f.ok = f.ok
                         /\ r.failed \in BOOLEAN
                         /\ ~r.failed => /\ ML!IsPart(r.data, f, b * BS, ML!Has(f, b))
                                         /\ ~r.f.threw /\ MacReads(r.f) >= MacReads(f) - 1
                                         /\ r.data # <<>> => MacReads(r.f) >= 0
                         /\ r.failed => r.data = <<>> /\ (r.f.threw \/ MacReads(f) = 0)
    BY DEF ML!LayerRead
  <2> QED
    BY MacReadOneIs
<1>3. ML!LayerWrite
  <2> SUFFICES ASSUME NEW f, NEW b \in Nat, NEW d \in Seq(Int)
               PROVE  ML!OneWritten(f, b, d, Mac!WriteOneBlock(f, b, d))
    BY DEF ML!LayerWrite
  <2> DEFINE g == Mac!WriteOneBlock(f, b, d)
  <2> SUFFICES ASSUME MacGood(f), ~f.threw, d # <<>>, Len(d) <= BS
               PROVE  /\ MacWrites(f) = 0 =>
                           /\ MacGood(g) /\ ML!Same(f, g) /\ MacStays(f, g) /\ ~g.ok /\ ~g.threw
                           /\ MacWrites(g) = 0 /\ MacReads(g) >= MacReads(f)
                      /\ /\ MacWrites(f) > 0 /\ ML!Reached(f, b)
                         /\ Len(d) = BS \/ Mac!Size(f) <= b * BS + Len(d)
                         => /\ MacGood(g) /\ ML!Put(f, b * BS, d, g) /\ MacStays(f, g)
                            /\ g.ok /\ ~g.threw
                            /\ MacWrites(g) = MacWrites(f) - 1 /\ MacReads(g) >= MacReads(f)
    BY DEF ML!OneWritten
  <2>1. f \in MacSet /\ f.reads \in Nat /\ Len(f.cdata) <= BS
    BY DEF MacGood, MacSet
  <2>2. ASSUME f.left = 0
        PROVE  /\ MacGood(g) /\ ML!Same(f, g) /\ MacStays(f, g) /\ ~g.ok /\ ~g.threw
               /\ g.left = 0 /\ g.reads >= f.reads
    <3> DEFINE h == [f EXCEPT !.ok = FALSE]
    <3>1. g = h
      BY <2>2 DEF Mac!WriteOneBlock
    <3>2. /\ h \in MacSet /\ h.base = f.base /\ h.left = f.left /\ h.reads = f.reads
          /\ h.cdata = f.cdata /\ ~h.ok /\ h.threw = f.threw
      BY <2>1 DEF MacSet
    <3> HIDE DEF h
    <3>3. \A k : MacPart(h, k) = MacPart(f, k)
      BY <3>2 DEF MacPart
    <3>4. MacGood(h)
      BY <2>1, <3>2, <3>3 DEF MacGood
    <3>5. Mac!Size(h) = Mac!Size(f) /\ \A i : MacByteAt(h, i) = MacByteAt(f, i)
      BY <3>2 DEF Mac!Size, MacByteAt
    <3> QED
      BY <2>1, <2>2, <3>1, <3>2, <3>4, <3>5 DEF ML!Same, MacStays
  <2>3. ASSUME f.left > 0, ML!Reached(f, b), Len(d) = BS \/ Mac!Size(f) <= b * BS + Len(d)
        PROVE  /\ MacGood(g) /\ ML!Put(f, b * BS, d, g) /\ MacStays(f, g) /\ g.ok /\ ~g.threw
               /\ g.left = f.left - 1 /\ g.reads >= f.reads
    <3>1. g.left = f.left - 1 /\ g.reads = f.reads /\ g.ok /\ g.threw = f.threw
      BY <2>3, MacWrittenIs
    <3>2. MacGood(g) /\ ML!Put(f, b * BS, d, g)
      BY <2>3, MacWriteOneIs
    <3> HIDE DEF g
    <3> QED
      BY <2>1, <3>1, <3>2 DEF MacStays
  <2> HIDE DEF g
  <2> QED
    BY <2>2, <2>3 DEF MacReads, MacWrites, g
<1> QED
  BY <1>1, <1>2, <1>3 DEF ML!LayerKeeps

----------------------------------------------------------------------------
(* The calls of MACFileIO.                                                 *)

\* They are BlockFileIO's, over this layer.
LEMMA MacCallsAre ==
    ASSUME NEW f
    PROVE  /\ \A off, n : Mac!IO!ReadFile(f, off, n) = ML!ReadFile(f, off, n)
           /\ \A off, d : Mac!IO!WriteFile(f, off, d) = ML!WriteFile(f, off, d)
           /\ \A n : Mac!IO!TruncateFile(f, n) = ML!TruncateFile(f, n)
<1>1. ASSUME NEW off, NEW n PROVE Mac!IO!ReadFile(f, off, n) = ML!ReadFile(f, off, n)
  BY DEF Mac!IO!ReadFile, Mac!IO!CacheRead, Mac!IO!ReadLoop, Mac!IO!Rounds, Mac!IO!ReadRound,
         Mac!IO!RoundsFor, Mac!IO!Least, ML!ReadFile, ML!CacheRead, ML!ReadLoop, ML!Rounds,
         ML!ReadRound, ML!RoundsFor, ML!Least
<1>2. ASSUME NEW old, NEW new, NEW force, NEW g
      PROVE  Mac!IO!PadFile(g, old, new, force) = ML!PadFile(g, old, new, force)
  BY DEF Mac!IO!PadFile, Mac!IO!CacheRead, Mac!IO!CacheWrite, Mac!IO!PadBlocks, Mac!IO!PadRound,
         Mac!IO!Rounds, Mac!IO!Padded, Mac!IO!Zeros, Mac!IO!Least,
         ML!PadFile, ML!CacheRead, ML!CacheWrite, ML!PadBlocks, ML!PadRound,
         ML!Rounds, ML!Padded, ML!Zeros, ML!Least
<1>3. ASSUME NEW g, NEW off, NEW d, NEW size
      PROVE  Mac!IO!WriteLoop(g, off, d, size) = ML!WriteLoop(g, off, d, size)
  BY DEF Mac!IO!WriteLoop, Mac!IO!WriteRound, Mac!IO!Rounds, Mac!IO!RoundsFor, Mac!IO!Least,
         Mac!IO!Most, Mac!IO!Merge, Mac!IO!LastNonEmpty, Mac!IO!CacheRead, Mac!IO!CacheWrite,
         ML!WriteLoop, ML!WriteRound, ML!Rounds, ML!RoundsFor, ML!Least,
         ML!Most, ML!Merge, ML!LastNonEmpty, ML!CacheRead, ML!CacheWrite
<1>4. ASSUME NEW off, NEW d PROVE Mac!IO!WriteFile(f, off, d) = ML!WriteFile(f, off, d)
  BY <1>2, <1>3 DEF Mac!IO!WriteFile, ML!WriteFile
<1>5. ASSUME NEW n PROVE Mac!IO!TruncateFile(f, n) = ML!TruncateFile(f, n)
  BY <1>2 DEF Mac!IO!TruncateFile, Mac!IO!CacheRead, Mac!IO!CacheWrite, Mac!IO!Padded,
         Mac!IO!Zeros, Mac!IO!Least, Mac!IO!Most, ML!TruncateFile, ML!CacheRead, ML!CacheWrite,
         ML!Padded, ML!Zeros, ML!Least, ML!Most
<1> QED
  BY <1>1, <1>4, <1>5

\* The file below, cut or grown to what n bytes take.
MacResized(g, n) == [g EXCEPT !.base = Mac!BaseResize(g.base, Mac!LocWithHeader(n))]

\* A file cut to its length stays as it is.
LEMMA NoResize ==
    ASSUME NEW g, MacGood(g)
    PROVE  MacResized(g, Mac!Size(g)) = g
<1>1. g \in MacSet /\ g.base \in Seq(MacCell) /\ Whole(g.base)
  BY DEF MacGood, MacSet
<1>2. Mac!LocWithHeader(Mac!Size(g)) = Len(g.base) /\ Len(g.base) \in Nat
  BY <1>1, LenIs, LenProperties
<1>3. Mac!BaseResize(g.base, Len(g.base)) = g.base
  <2> DEFINE n == Len(g.base)
             r == Mac!BaseResize(g.base, n)
  <2>1. n \in Nat /\ g.base \in Seq(MacCell)
    BY <1>1, <1>2
  <2> HIDE DEF n
  <2>2. r \in Seq(MacCell) /\ Len(r) = n /\ \A i \in 1..n : r[i] = IF i <= Len(g.base) THEN g.base[i] ELSE Mac!Byte(0)
    BY ONLY <2>1, BaseResizeIs
  <2> HIDE DEF r
  <2>3. \A i \in 1..n : i <= n
    BY <2>1
  <2>4. Len(r) = Len(g.base) /\ \A i \in 1..Len(r) : r[i] = g.base[i]
    BY <2>2, <2>3 DEF n
  <2>5. r = g.base
    BY <1>1, <2>2, <2>4, SeqEqual
  <2> QED
    BY <2>5 DEF r, n
<1> QED
  BY <1>1, <1>2, <1>3 DEF MacResized, MacSet

\* To whole blocks: the bytes there were, and zeros after them where holes are allowed.
LEMMA MacResizedIs ==
    ASSUME NEW g, MacGood(g), NEW n \in Nat, n % BS = 0,
           n <= Mac!Size(g) \/ (mVolume.holes /\ Mac!Size(g) % BS = 0)
    PROVE  LET h == MacResized(g, n)
           IN /\ MacGood(h) /\ Mac!Size(h) = n
              /\ h.cblk = g.cblk /\ h.cdata = g.cdata /\ h.ok = g.ok /\ h.threw = g.threw
              /\ \A i \in 1..n : MacByteAt(h, i) = ML!ByteOr0(g, i)
<1> DEFINE q == n \div BS
           qr == q * RBS
           old == Mac!Size(g)
           len == Len(g.base)
           r == Mac!BaseResize(g.base, qr)
           h == [g EXCEPT !.base = r]
<1>1. g \in MacSet /\ g.base \in Seq(MacCell) /\ Whole(g.base) /\ Len(g.cdata) <= BS
  BY DEF MacGood, MacSet
<1>2. q \in Nat /\ n = q * BS + 0 /\ n = q * BS
  <2>1. q \in Nat /\ n = q * BS + (n % BS) /\ n % BS = 0
    BY RBSIs, SplitIs
  <2>2. q * BS \in Nat
    BY <2>1, HeaderEach
  <2> QED
    BY <2>1, <2>2
<1>3. len \in Nat /\ qr \in Nat /\ old \in Nat
  BY <1>1, <1>2, HeaderEach, LenIs, LenProperties
<1>4. MacResized(g, n) = h
  <2>1. Mac!LocWithHeader(q * BS) = qr
    BY <1>2, BlockAt0
  <2> QED
    BY <1>2, <2>1 DEF MacResized
<1>5. /\ r \in Seq(MacCell) /\ Len(r) = qr
      /\ \A i \in 1..qr : r[i] = IF i <= len THEN g.base[i] ELSE Mac!Byte(0)
  BY <1>1, <1>3, BaseResizeIs
<1>6. qr <= len \/ (mVolume.holes /\ len % RBS = 0)
  <2>1. q * BS <= old <=> qr <= len
    BY <1>1, <1>2, LenOrder
  <2>2. old % BS = 0 <=> len % RBS = 0
    BY <1>1, LenOrder
  <2> HIDE DEF q, qr, old, len
  <2> QED
    BY <1>2, <2>1, <2>2 DEF old
<1> HIDE DEF q, r
<1>7. /\ h \in MacSet /\ h.base = r /\ h.cblk = g.cblk /\ h.cdata = g.cdata /\ h.ok = g.ok
      /\ h.threw = g.threw
  BY <1>1, <1>5 DEF MacSet
<1> HIDE DEF h
<1>8. Whole(h.base) /\ Mac!Size(h) = n
  <2>1. Len(h.base) = q * RBS + Headed(0) /\ Len(h.base) = q * RBS + 0 /\ 0 < BS /\ 0 < RBS
        /\ h.base \in Seq(MacCell)
    BY <1>3, <1>5, <1>7, RBSIs DEF Headed
  <2>2. Mac!Size(h) = q * BS + 0
    BY <1>2, <2>1, SizeIs
  <2>3. Len(h.base) \in Nat /\ 0 \in Nat /\ q \in Nat /\ RBS \in Nat \ {0}
    BY <1>2, <1>3, <1>5, <1>7, RBSIs
  <2>4. Len(h.base) % RBS = 0
    BY ONLY <2>1, <2>3, ML!DivUnique
  <2> QED
    BY <1>2, <2>2, <2>4 DEF Whole
<1>9. ASSUME NEW i \in 1..Len(h.base), Mac!Altered(h.base[i])
      PROVE  i \in 1..len /\ h.base[i] = g.base[i]
  <2>1. i \in 1..qr /\ h.base[i] = IF i <= len THEN g.base[i] ELSE Mac!Byte(0)
    BY <1>5, <1>7
  <2>2. i <= len
    BY <1>9, <2>1 DEF Mac!Altered, Mac!Byte
  <2> HIDE DEF qr
  <2>3. i \in 1..len
    BY <1>3, <2>1, <2>2
  <2> QED
    BY <2>1, <2>2, <2>3
<1>10. ASSUME NEW k \in Nat, MacPart(h, k) # <<>>
       PROVE  MacPart(h, k) = MacPart(g, k) \/ BlockFits(MacPart(h, k))
  <2> DEFINE t == k * RBS
             now == Len(h.base)
             p == MacPart(h, k)
             o == MacPart(g, k)
  <2>1. /\ p \in Seq(MacCell) /\ t \in Nat
        /\ Len(p) = (IF now <= t THEN 0 ELSE Least(RBS, now - t))
        /\ \A i \in 1..Len(p) : p[i] = h.base[t + i] /\ t + i \in 1..now
    BY <1>5, <1>7, RawPartIs
  <2>2. /\ o \in Seq(MacCell)
        /\ Len(o) = (IF len <= t THEN 0 ELSE Least(RBS, len - t))
        /\ \A i \in 1..Len(o) : o[i] = g.base[t + i] /\ t + i \in 1..len
    BY <1>1, RawPartIs
  <2>3. /\ k < q => t + RBS <= qr
        /\ q < k => qr + RBS <= t
        /\ k = q => t = qr
    BY <1>2, RBSIs, StepsOf
  <2>4. Len(p) \in Nat /\ Len(p) # 0 /\ now = qr
    BY <1>5, <1>7, <1>10, <2>1, EmptySeq, LenProperties
  <2>5. \A i \in 1..now : h.base[i] = IF i <= len THEN g.base[i] ELSE Mac!Byte(0)
    BY <1>5, <1>7
  <2>6. ASSUME Len(p) = Len(o), \A i \in 1..Len(o) : h.base[t + i] = g.base[t + i] PROVE p = o
    BY <1>1, <1>5, <1>7, <2>6, SameMacPart
  <2>7. len % RBS = 0 /\ len < t + RBS => len <= t
    BY <1>3, WholeBlocks
  <2>8. RBS \in Nat \ {0} /\ q \in Nat
    BY <1>2, RBSIs
  <2>9. mVolume.holes /\ p # <<>> /\ (\A i \in 1..Len(p) : p[i] = Mac!Byte(0)) => BlockFits(p)
    BY <2>1, HoleFits
  <2>10. p # <<>>
    BY <1>10
  <2> HIDE DEF t, now, p, o, qr, len
  <2>11. t + RBS <= qr
    BY <1>3, <2>1, <2>3, <2>4, <2>8
  <2>12. Len(p) = RBS
    BY <1>3, <2>1, <2>4, <2>8, <2>11 DEF Least
  <2>13. CASE t + RBS <= len
    <3>1. Len(o) = RBS
      BY <1>3, <2>1, <2>2, <2>8, <2>13 DEF Least
    <3>2. ASSUME NEW i \in 1..RBS PROVE h.base[t + i] = g.base[t + i]
      <4>1. t + i \in 1..now
        BY <2>1, <2>12
      <4>2. t + i <= len
        BY <1>3, <2>1, <2>8, <2>13
      <4> QED
        BY <2>5, <4>1, <4>2
    <3> QED
      BY <2>6, <2>12, <3>1, <3>2 DEF p, o
  <2>14. CASE ~(t + RBS <= len)
    <3>1. mVolume.holes /\ len <= t
      BY <1>3, <1>6, <2>1, <2>7, <2>8, <2>11, <2>14
    <3>2. ASSUME NEW i \in 1..Len(p) PROVE p[i] = Mac!Byte(0)
      <4>1. t + i \in 1..now /\ p[i] = h.base[t + i]
        BY <2>1
      <4>2. ~(t + i <= len)
        BY <1>3, <2>1, <2>4, <3>1
      <4> QED
        BY <2>5, <4>1, <4>2
    <3> QED
      BY <2>9, <2>10, <3>1, <3>2 DEF p
  <2> QED
    BY <2>13, <2>14
<1>11. MacGood(h)
  BY <1>1, <1>7, <1>8, <1>9, <1>10, Rebuilt DEF len
<1>12. ASSUME NEW i \in 1..n PROVE MacByteAt(h, i) = ML!ByteOr0(g, i)
  <2> DEFINE k == (i - 1) \div BS
             j == ((i - 1) % BS) + 1
             x == k * RBS + 1 + j
  <2>0. i \in Nat \ {0} /\ i <= n
    OBVIOUS
  <2>1. k \in Nat /\ j \in 1..BS /\ i = k * BS + j /\ i <= n
    BY <2>0, ByteIn
  <2> HIDE DEF k, j
  <2>2. MacByteAt(h, i) = h.base[x].was /\ MacByteAt(g, i) = g.base[x].was
    BY <2>1, CellIs
  <2>3. /\ k * BS + j <= Mac!Size(h) <=> x <= Len(h.base)
        /\ k * BS + j <= old <=> x <= len
    BY <1>1, <1>5, <1>7, <1>8, <2>1, LenOrder
  <2>4. x \in Nat \ {0}
    <3>1. k * RBS \in Nat /\ j \in Nat
      BY <2>1, HeaderEach
    <3> QED
      BY <3>1
  <2> HIDE DEF x, len, old
  <2>5. x \in 1..qr
    <3>1. x <= Len(h.base) /\ Len(h.base) = qr
      BY <1>5, <1>7, <1>8, <2>1, <2>3
    <3> HIDE DEF qr
    <3> QED
      BY <1>3, <2>4, <3>1
  <2>6. h.base[x] = IF x <= len THEN g.base[x] ELSE Mac!Byte(0)
    BY <1>5, <1>7, <2>5
  <2>7. i <= old <=> x <= len
    BY <2>1, <2>3
  <2> QED
    BY <2>2, <2>6, <2>7 DEF ML!ByteOr0, Mac!Byte, old
<1> QED
  BY <1>4, <1>7, <1>8, <1>11, <1>12

\* What a truncation is to do, or it threw and nothing happened.
MacCut(f, n, g) ==
    /\ ML!Sound(g)
    /\ g.threw => ML!Same(f, g)
    /\ ~g.threw => Mac!Size(g) = n /\ \A i \in 1..n : MacByteAt(g, i) = ML!ByteOr0(f, i)

\* The file below is cut or grown last, unless something was thrown.
MacTruncated(t, n) == IF t.threw THEN t ELSE MacResized(t, n)

\* Beyond the end (BlockFileIO.cpp:388-404, MACFileIO.cpp:295-316).
LEMMA MacExtends ==
    ASSUME mVolume \in MacVolumes, NEW f, ML!Sound(f), ~f.threw, f.reads >= 1,
           NEW n \in 0..LayerSize, Mac!Size(f) < n, f.left >= n + 2
    PROVE  MacCut(f, n, MacTruncated(ML!TruncateFile(f, n), n))
<1> DEFINE old == Mac!Size(f)
           p == ML!PadFile(f, old, n, TRUE)
           t == [p EXCEPT !.uncut = FALSE]
<1>1. ML!LayerKeeps /\ MacGood(f) /\ n \in Nat /\ LayerSize \in Nat /\ old \in Nat
  <2>1. MacGood(f)
    BY DEF ML!Sound
  <2>2. old \in Nat
    BY <2>1, LenIs DEF MacGood, MacSet
  <2> QED
    BY <2>1, <2>2, MacKeeps, LayerAssumption
<1>2. n \div BS <= MacTop
  <2>1. n \div BS \in Nat /\ n % BS \in Nat /\ n = (n \div BS) * BS + (n % BS)
    BY <1>1, RBSIs, SplitIs
  <2>2. (n \div BS) <= (n \div BS) * BS /\ (n \div BS) * BS \in Nat
    BY <1>1, <2>1, ML!TimesIs DEF ML!LayerKeeps
  <2> DEFINE q == n \div BS
             qb == q * BS
             r == n % BS
  <2>3. q \in Nat /\ r \in Nat /\ qb \in Nat /\ q <= qb /\ n = qb + r /\ n <= LayerSize
    BY <2>1, <2>2
  <2> HIDE DEF q, qb, r
  <2>4. q <= LayerSize
    BY <1>1, <2>3
  <2> QED
    BY <2>4 DEF q, MacTop
<1>3. /\ ML!Sound(p) /\ ML!Grown(f, p)
      /\ p.threw => ML!Same(f, p)
      /\ ~p.threw => \/ Mac!Size(p) = n
                     \/ mVolume.holes /\ n % BS = 0 /\ Mac!Size(p) % BS = 0 /\ Mac!Size(p) <= n
  BY <1>1, <1>2, ML!PadFileIs DEF MacReads, MacWrites
<1>4. ML!TruncateFile(f, n) = t
  <2>1. n > old /\ n # old /\ ~(n < old)
    BY <1>1
  <2>2. Mac!CutNothing(f, n) = f
    BY DEF Mac!CutNothing
  <2>3. (IF f.threw THEN f ELSE Mac!CutNothing(f, n)) = f
    BY <2>2
  <2> HIDE DEF old
  <2>4. ML!TruncateFile(f, n) = [ML!PadFile(IF f.threw THEN f ELSE Mac!CutNothing(f, n), old, n, TRUE)
                                   EXCEPT !.uncut = FALSE]
    BY <2>1 DEF ML!TruncateFile, old
  <2> QED
    BY <2>3, <2>4
<1> HIDE DEF p
<1>5. /\ ML!Sound(t) /\ t.threw = p.threw /\ ML!Same(p, t)
  <2>1. p \in MacSet /\ MacGood(p)
    BY <1>3 DEF ML!Sound, MacGood
  <2>2. /\ t \in MacSet /\ t.base = p.base /\ t.cblk = p.cblk /\ t.cdata = p.cdata /\ t.threw = p.threw
    BY <2>1 DEF MacSet
  <2> HIDE DEF t
  <2>3. \A k : MacPart(t, k) = MacPart(p, k)
    BY <2>2 DEF MacPart
  <2>4. MacGood(t)
    BY <2>1, <2>2, <2>3 DEF MacGood
  <2>5. ML!Same(p, t)
    BY <2>2 DEF ML!Same, Mac!Size, MacByteAt
  <2>6. ML!Sound(t)
    BY <1>1, <1>3, <2>2, <2>4, <2>5, ML!StillCached
  <2> QED
    BY <2>2, <2>5, <2>6
<1> HIDE DEF t
<1>6. MacGood(t) /\ Mac!Size(t) = Mac!Size(p) /\ Mac!Size(t) \in Nat
  <2>1. MacGood(t)
    BY <1>5 DEF ML!Sound
  <2> QED
    BY <1>5, <2>1, LenIs DEF ML!Same, MacGood, MacSet
<1>7. Mac!Size(p) >= old /\ \A i \in 1..Mac!Size(t) : MacByteAt(t, i) = ML!ByteOr0(f, i)
  BY <1>3, <1>5, <1>6 DEF ML!Grown, ML!Same
<1>8. CASE t.threw
  <2>1. ML!Same(f, t)
    BY <1>3, <1>5, <1>8, ML!SameAsSame
  <2> QED
    BY <1>4, <1>5, <1>8, <2>1 DEF MacCut, MacTruncated
<1>9. CASE ~t.threw /\ Mac!Size(p) = n
  <2>1. MacResized(t, n) = t
    BY <1>6, <1>9, NoResize
  <2> QED
    BY <1>4, <1>5, <1>6, <1>7, <1>9, <2>1 DEF MacCut, MacTruncated
<1>10. CASE ~t.threw /\ mVolume.holes /\ n % BS = 0 /\ Mac!Size(p) % BS = 0 /\ Mac!Size(p) <= n
  <2> DEFINE h == MacResized(t, n)
  <2>1. /\ MacGood(h) /\ Mac!Size(h) = n
        /\ h.cblk = t.cblk /\ h.cdata = t.cdata /\ h.threw = t.threw
        /\ \A i \in 1..n : MacByteAt(h, i) = ML!ByteOr0(t, i)
    BY <1>1, <1>6, <1>10, MacResizedIs
  <2> HIDE DEF h
  <2>2. ML!Grown(t, h)
    BY <1>6, <1>10, <2>1 DEF ML!Grown
  <2>3. ML!Sound(h)
    BY <1>1, <1>5, <1>6, <1>10, <2>1, <2>2, ML!GrownSound
  <2>4. ASSUME NEW i \in 1..n PROVE MacByteAt(h, i) = ML!ByteOr0(f, i)
    <3>1. CASE i <= Mac!Size(t)
      <4>1. i \in 1..Mac!Size(t)
        BY <1>1, <1>6, <3>1
      <4> QED
        BY <1>7, <2>1, <3>1, <4>1 DEF ML!ByteOr0
    <3>2. CASE ~(i <= Mac!Size(t))
      <4>1. ~(i <= Mac!Size(f))
        BY <1>1, <1>6, <1>7, <3>2
      <4> QED
        BY <2>1, <3>2, <4>1 DEF ML!ByteOr0
    <3> QED
      BY <3>1, <3>2
  <2>5. MacTruncated(ML!TruncateFile(f, n), n) = h
    BY <1>4, <1>10 DEF MacTruncated, h
  <2> QED
    BY <1>10, <2>1, <2>3, <2>4, <2>5 DEF MacCut
<1> QED
  BY <1>3, <1>5, <1>8, <1>9, <1>10

\* To a block boundary.
LEMMA MacCuts ==
    ASSUME mVolume \in MacVolumes, NEW f, ML!Sound(f), ~f.threw,
           NEW n \in 0..LayerSize, n < Mac!Size(f), n % BS = 0, ~mVolume.holes
    PROVE  MacCut(f, n, MacTruncated(ML!TruncateFile(f, n), n))
<1> DEFINE old == Mac!Size(f)
           h == MacResized(f, n)
<1>1. ML!LayerKeeps /\ MacGood(f) /\ n \in Nat /\ old \in Nat
  <2>1. MacGood(f)
    BY DEF ML!Sound
  <2>2. old \in Nat
    BY <2>1, LenIs DEF MacGood, MacSet
  <2> QED
    BY <2>1, <2>2, MacKeeps, LayerAssumption
<1>2. ML!TruncateFile(f, n) = f
  <2>1. ~(n > old) /\ n # old /\ ~(n < old /\ n % BS # 0)
    BY <1>1
  <2>2. Mac!CutNothing(f, n) = f
    BY DEF Mac!CutNothing
  <2>3. (IF f.threw THEN f ELSE Mac!CutNothing(f, n)) = f
    BY <2>2
  <2> HIDE DEF old
  <2>4. ML!TruncateFile(f, n) = IF f.threw THEN f ELSE Mac!CutNothing(f, n)
    BY <2>1 DEF ML!TruncateFile, old
  <2> QED
    BY <2>3, <2>4
<1>3. /\ MacGood(h) /\ Mac!Size(h) = n /\ h.cblk = f.cblk /\ h.cdata = f.cdata /\ h.threw = f.threw
      /\ \A i \in 1..n : MacByteAt(h, i) = ML!ByteOr0(f, i)
  BY <1>1, MacResizedIs
<1>4. MacTruncated(ML!TruncateFile(f, n), n) = h
  BY <1>2 DEF MacTruncated
<1> HIDE DEF h
<1>5. \A i \in 1..n : MacByteAt(h, i) = MacByteAt(f, i)
  BY <1>1, <1>3 DEF ML!ByteOr0
<1>6. ML!Sound(h)
  <2>1. Mac!Size(h) <= Mac!Size(f) /\ Mac!Size(h) % BS = 0 /\ \A i \in 1..Mac!Size(h) : MacByteAt(h, i) = MacByteAt(f, i)
    BY <1>1, <1>3, <1>5
  <2> QED
    BY <1>1, <1>3, <2>1, ML!CutSound
<1> QED
  BY <1>3, <1>4, <1>6 DEF MacCut

\* To where it ends.
LEMMA MacCutsNothing ==
    ASSUME NEW f, ML!Sound(f), ~f.threw
    PROVE  MacCut(f, Mac!Size(f), MacTruncated(ML!TruncateFile(f, Mac!Size(f)), Mac!Size(f)))
<1> DEFINE n == Mac!Size(f)
<1>1. MacGood(f)
  BY DEF ML!Sound
<1>2. n \in Nat
  BY <1>1, LenIs DEF MacGood, MacSet
<1>3. ML!TruncateFile(f, n) = f
  BY <1>2 DEF ML!TruncateFile
<1>4. MacTruncated(f, n) = f
  BY <1>1, NoResize DEF MacTruncated
<1>5. \A i \in 1..n : MacByteAt(f, i) = ML!ByteOr0(f, i)
  BY <1>2 DEF ML!ByteOr0
<1> QED
  BY <1>3, <1>4, <1>5 DEF MacCut

\* Inside a block, whose rest is written again before the file is cut
\* (BlockFileIO.cpp:405-429).
LEMMA MacTrims ==
    ASSUME mVolume \in MacVolumes, NEW f, ML!Sound(f), ~f.threw, f.reads >= 1, f.left >= 1,
           Mac!Size(f) <= LayerSize, NEW n \in 0..LayerSize, n < Mac!Size(f), n % BS # 0
    PROVE  MacCut(f, n, MacTruncated(ML!TruncateFile(f, n), n))
<1> DEFINE old == Mac!Size(f)
           b == n \div BS
           m == n % BS
           at == b * BS
           to == b * RBS
           kf == ML!Kept(f, n).f
           d == ML!LeftOf(f, n)
           t == ML!CacheWrite(kf, b, d)
<1>1. ML!LayerKeeps /\ MacGood(f) /\ n \in Nat /\ old \in Nat /\ LayerSize \in Nat
  <2>1. MacGood(f)
    BY DEF ML!Sound
  <2>2. old \in Nat
    BY <2>1, LenIs DEF MacGood, MacSet
  <2> QED
    BY <2>1, <2>2, MacKeeps, LayerAssumption
<1>2. /\ ML!Sound(kf) /\ ML!Same(f, kf) /\ kf.left = f.left
      /\ ~kf.threw => ML!IsPart(d, f, at, m)
  BY <1>1, ML!LeftIs DEF MacTop, MacReads, MacWrites
<1>3. ML!TruncateFile(f, n) = ML!CacheWrite(IF kf.threw THEN kf ELSE Mac!CutNothing(kf, n), b, d)
  <2>1. ~(n > old) /\ n # old /\ n < old /\ n % BS # 0
    BY <1>1
  <2> HIDE DEF old
  <2> QED
    BY <2>1 DEF ML!TruncateFile, ML!Kept, ML!LeftOf, old
<1>4. ML!TruncateFile(f, n) = t
  BY <1>3 DEF Mac!CutNothing
<1> HIDE DEF kf, d
<1>5. CASE kf.threw
  <2>1. t = kf
    BY <1>5, ML!NothingWritten
  <2> QED
    BY <1>2, <1>4, <1>5, <2>1 DEF MacCut, MacTruncated
<1>6. CASE ~kf.threw
  <2> DEFINE o == Mac!WriteOneBlock(kf, b, d).base
             h == MacResized(t, n)
             c == BlockOf(d)
             len == Len(kf.base)
  <2>1. /\ MacGood(kf) /\ kf \in MacSet /\ kf.base \in Seq(MacCell) /\ Whole(kf.base)
        /\ kf.left \in Nat /\ kf.left >= 1 /\ kf.reads \in Nat /\ len \in Nat /\ Mac!Size(kf) = old
        /\ \A i \in 1..old : MacByteAt(kf, i) = MacByteAt(f, i)
    BY <1>2, LenProperties DEF ML!Sound, ML!Same, MacGood, MacSet
  <2>2. /\ b \in Nat /\ m \in Nat /\ m < BS /\ m # 0 /\ at \in Nat /\ to \in Nat /\ n = at + m
        /\ b \in 0..MacTop
    <3>1. b \in Nat /\ m \in Nat /\ m < BS /\ n = at + m /\ m # 0
      BY <1>1, RBSIs, SplitIs
    <3>2. at \in Nat /\ to \in Nat /\ b <= at
      BY <1>1, <3>1, HeaderEach, ML!TimesIs DEF ML!LayerKeeps
    <3>3. n <= LayerSize
      OBVIOUS
    <3> HIDE DEF b, m, at, to
    <3> QED
      BY <1>1, <3>1, <3>2, <3>3 DEF MacTop
  <2>3. ML!IsPart(d, f, at, m) /\ d \in Seq(Int) /\ Len(d) = m /\ d # <<>> /\ Len(d) <= BS
        /\ \A i \in 1..m : d[i] = MacByteAt(f, at + i)
    <3>1. ML!IsPart(d, f, at, m)
      BY <1>2, <1>6
    <3>2. d \in Seq(Int) /\ Len(d) = m /\ \A i \in 1..m : d[i] = MacByteAt(f, at + i)
      BY <3>1 DEF ML!IsPart
    <3> HIDE DEF b, m, at
    <3> QED
      BY <2>2, <3>1, <3>2, RBSIs, EmptySeq
  <2>4. c \in Seq(MacCell) /\ Len(c) = m + 1
    BY <2>3, BlockOfIs
  <2> DEFINE r == Mac!BaseResize(kf.base, Mac!Most(to, len))
             left == kf.left - 1
             s == SubSeq(r, 1, to) \o c \o SubSeq(r, to + Len(c) + 1, Len(r))
             w == [kf EXCEPT !.base = s, !.left = left, !.ok = TRUE]
  <2>5. Mac!WriteOneBlock(kf, b, d) = w
    <3>1. Mac!LocWithHeader(b * BS) = to
      BY <2>2, BlockAt0
    <3>2. kf.left # 0
      BY <2>1
    <3> QED
      BY <3>1, <3>2 DEF Mac!WriteOneBlock, BlockOf
  <2>6. /\ s \in Seq(MacCell)
        /\ Len(s) = (IF len < to + Len(c) THEN to + Len(c) ELSE len)
        /\ \A i \in 1..Len(s) : s[i] = IF to < i /\ i <= to + Len(c) THEN c[i - to]
                                       ELSE IF i <= len THEN kf.base[i] ELSE Mac!Byte(0)
    <3>1. kf.base \in Seq(MacCell) /\ to \in Nat /\ c \in Seq(MacCell)
      BY <2>1, <2>2, <2>4
    <3> HIDE DEF c, to
    <3> QED
      BY ONLY <3>1, SplicedIs
  <2> HIDE DEF s
  <2>7. t = [w EXCEPT !.cblk = b, !.cdata = IF w.ok THEN d ELSE <<>>]
    BY <1>6, <2>5 DEF ML!CacheWrite
  <2>8. /\ t \in MacSet /\ t.base = s /\ t.cblk = b /\ t.cdata = d /\ ~t.threw
    <3>1. left \in Nat
      BY <2>1
    <3>2. b \in 0..MacTop /\ d \in Seq(Int)
      BY <2>2, <2>3
    <3> HIDE DEF left, b
    <3>3. /\ w \in MacSet /\ w.base = s /\ w.ok /\ ~w.threw
      BY <1>6, <2>1, <2>6, <3>1 DEF MacSet
    <3> HIDE DEF w, t
    <3> QED
      BY <2>7, <3>2, <3>3 DEF MacSet
  <2> HIDE DEF t
  <2>9. Mac!LocWithHeader(n) = to + m + 1
    <3>1. Mac!LocWithHeader(b * BS + m) = to + Headed(m)
      BY <2>2, LocIs
    <3>2. Headed(m) = m + 1
      BY <2>2 DEF Headed
    <3> HIDE DEF b, m, to
    <3> QED
      BY <2>2, <3>1, <3>2 DEF at
  <2> DEFINE e == to + m + 1
             x == Mac!BaseResize(s, e)
             y == [t EXCEPT !.base = x]
  <2>10. h = y
    BY <2>8, <2>9 DEF MacResized
  <2>11. to + Len(c) = e /\ e \in Nat /\ e <= Len(s) /\ Len(s) \in Nat
    <3>1. Len(s) \in Nat
      BY <2>6, LenProperties
    <3> HIDE DEF to, m, c, len
    <3>2. to + Len(c) = e
      BY <2>2, <2>4
    <3> QED
      BY <2>1, <2>2, <2>6, <3>1, <3>2
  <2>12. x \in Seq(MacCell) /\ Len(x) = e /\ \A i \in 1..e : x[i] = IF i <= Len(s) THEN s[i] ELSE Mac!Byte(0)
    <3>1. s \in Seq(MacCell) /\ e \in Nat
      BY <2>6, <2>11
    <3> HIDE DEF e
    <3> QED
      BY ONLY <3>1, BaseResizeIs
  <2> HIDE DEF x
  <2>13. /\ h \in MacSet /\ h.base = x /\ h.cblk = b /\ h.cdata = d /\ ~h.threw
    <3> HIDE DEF h, b
    <3> QED
      BY <2>8, <2>10, <2>12 DEF MacSet
  <2> HIDE DEF h
  <2>14. Placed(kf, b, d, h)
    <3>1. Len(h.base) = to + m + 1
      BY <2>12, <2>13
    <3>2. to <= len
      <4>1. b * BS <= Mac!Size(kf) <=> b * RBS <= Len(kf.base)
        BY <2>1, <2>2, LenOrder
      <4>2. at <= old
        <5> HIDE DEF at, m, old
        <5> QED
          BY <1>1, <2>2 DEF old
      <4> QED
        BY <2>1, <4>1, <4>2
    <3>3. ASSUME NEW i \in 1..Len(h.base)
          PROVE  h.base[i] = IF to < i /\ i <= to + m + 1 THEN c[i - to]
                             ELSE IF i <= len THEN kf.base[i] ELSE Mac!Byte(0)
      <4>1. i \in 1..e /\ h.base[i] = x[i]
        BY <2>13, <3>1
      <4> HIDE DEF e
      <4>2. i <= Len(s) /\ i \in 1..Len(s)
        BY <2>11, <4>1
      <4>3. x[i] = s[i]
        BY <2>12, <4>1, <4>2
      <4>4. s[i] = IF to < i /\ i <= to + Len(c) THEN c[i - to]
                   ELSE IF i <= len THEN kf.base[i] ELSE Mac!Byte(0)
        BY <2>6, <4>2
      <4> QED
        BY <2>11, <4>1, <4>3, <4>4 DEF e
    <3> QED
      BY <2>3, <3>1, <3>2, <3>3 DEF Placed
  <2>15. MacGood(h)
    BY <2>1, <2>2, <2>3, <2>13, <2>14, PlacedGood
  <2>16. /\ \A i \in 1..Mac!Size(h) :
                MacByteAt(h, i) = IF i \in at + 1 .. at + Len(d) THEN d[i - at]
                                  ELSE ML!ByteOr0(kf, i)
         /\ Mac!Size(h) = at + Len(d) \/ Len(d) = BS
    BY <2>1, <2>2, <2>3, <2>14, <2>15, PlacedBytes
  <2>17. Mac!Size(h) = n /\ Mac!Size(h) = b * BS + m
    <3> HIDE DEF b, m
    <3> QED
      BY <2>2, <2>3, <2>16, RBSIs
  <2>18. ASSUME NEW i \in 1..n PROVE MacByteAt(h, i) = MacByteAt(f, i) /\ i <= old
    <3>0. MacByteAt(h, i) = IF i \in at + 1 .. at + m THEN d[i - at] ELSE ML!ByteOr0(kf, i)
      BY <2>3, <2>16, <2>17
    <3>1. MacByteAt(kf, i) = MacByteAt(f, i) /\ i <= old /\ Mac!Size(kf) = old
      <4>1. i \in 1..old
        BY <1>1
      <4> QED
        BY <2>1, <4>1
    <3> HIDE DEF at, m, b, old
    <3>2. CASE i \in at + 1 .. at + m
      <4>1. i - at \in 1..m /\ at + (i - at) = i
        BY <2>2, <3>2
      <4>2. d[i - at] = MacByteAt(f, at + (i - at))
        BY <2>3, <4>1
      <4> QED
        BY <3>0, <3>1, <3>2, <4>1, <4>2
    <3>3. CASE ~(i \in at + 1 .. at + m)
      <4>1. MacByteAt(h, i) = ML!ByteOr0(kf, i)
        BY <3>0, <3>3
      <4> QED
        BY <3>1, <4>1 DEF ML!ByteOr0
    <3> QED
      BY <3>2, <3>3
  <2>19. ML!Sound(h)
    <3>1. m \in Nat \ {0} /\ m <= BS /\ \A i \in 1..Mac!Size(h) : MacByteAt(h, i) = MacByteAt(f, i)
      BY <2>2, <2>17, <2>18, RBSIs
    <3>2. h.cblk = b /\ h.cdata = d /\ ML!IsPart(d, f, b * BS, m) /\ b \in Nat /\ Mac!Size(h) = b * BS + m
      BY <2>2, <2>3, <2>13, <2>17
    <3> HIDE DEF b, m
    <3> QED
      BY <1>1, <2>15, <3>1, <3>2, ML!TrimmedSound
  <2>20. \A i \in 1..n : MacByteAt(h, i) = ML!ByteOr0(f, i)
    BY <2>18 DEF ML!ByteOr0
  <2>21. MacTruncated(ML!TruncateFile(f, n), n) = h
    BY <1>4, <2>8 DEF MacTruncated, h
  <2> QED
    BY <2>13, <2>17, <2>19, <2>20, <2>21 DEF MacCut
<1> QED
  BY <1>5, <1>6

----------------------------------------------------------------------------
(* Between two calls.                                                      *)

\* The file and the node as they are then.
MacRest == Mac!Current(0, 0)

\* The cache is true, and the blocks below are ones the layer wrote.
MacInv ==
    /\ mVolume \in MacVolumes
    /\ mCache \in [blk : 0..LayerSize, data : Seq(Int)]
    /\ ML!Sound(MacRest)
    /\ Mac!Size(MacRest) <= LayerSize

\* The bytes of a file are those of what is below.
LEMMA MacSameBase ==
    ASSUME NEW f, NEW g, g.base = f.base
    PROVE  ML!Same(f, g)
BY DEF ML!Same, Mac!Size, MacByteAt

\* A file with the same bytes below and the same cache.
LEMMA MacAsBefore ==
    ASSUME mVolume \in MacVolumes, NEW f, ML!Sound(f), NEW g, g \in MacSet,
           g.base = f.base, g.cblk = f.cblk, g.cdata = f.cdata
    PROVE  ML!Sound(g)
<1>1. ML!LayerKeeps /\ MacGood(f)
  BY MacKeeps DEF ML!Sound
<1>2. MacGood(g)
  BY <1>1 DEF MacGood, MacPart
<1>3. ML!Same(f, g)
  BY MacSameBase
<1> QED
  BY <1>1, <1>2, <1>3, ML!StillCached

\* The file a call works on.
LEMMA MacCurrentIs ==
    ASSUME MacInv, NEW left \in Nat, NEW reads \in Nat
    PROVE  LET f == Mac!Current(left, reads)
           IN /\ ML!Sound(f) /\ ~f.threw /\ f.ok /\ f.left = left /\ f.reads = reads
              /\ f.base = mBase /\ ML!Same(MacRest, f)
              /\ Mac!Size(f) \in Nat /\ Mac!Size(f) <= LayerSize
<1> DEFINE f == Mac!Current(left, reads)
           e == MacRest
<1>1. /\ f.base = mBase /\ f.cblk = mCache.blk /\ f.cdata = mCache.data
      /\ f.left = left /\ f.reads = reads /\ f.threw = FALSE /\ f.ok = TRUE
  BY DEF Mac!Current
<1>2. e.base = mBase /\ e.cblk = mCache.blk /\ e.cdata = mCache.data
  BY DEF Mac!Current, MacRest
<1>3. ML!Sound(e) /\ mVolume \in MacVolumes /\ Mac!Size(e) <= LayerSize
  BY DEF MacInv
<1>4. MacGood(e) /\ e \in MacSet
  BY <1>3 DEF ML!Sound, MacGood
<1>5. mBase \in Seq(MacCell) /\ mCache.blk \in 0..MacTop /\ mCache.data \in Seq(Int)
  BY <1>2, <1>4 DEF MacSet
<1>6. f \in MacSet
  BY <1>5 DEF Mac!Current, MacSet
<1> HIDE DEF f, e
<1>7. ML!Sound(f) /\ ML!Same(e, f)
  BY <1>1, <1>2, <1>3, <1>6, MacAsBefore, MacSameBase
<1>8. Mac!Size(f) = Mac!Size(e) /\ Mac!Size(e) \in Nat
  BY <1>4, <1>7, LenIs DEF ML!Same, MacGood, MacSet
<1> QED
  BY <1>1, <1>3, <1>7, <1>8 DEF f, e

\* What a call leaves sound keeps the invariant.
LEMMA MacCommitKeeps ==
    ASSUME MacInv, NEW f, ML!Sound(f), Mac!Size(f) <= LayerSize, Mac!Commit(f)
    PROVE  /\ MacInv' /\ mVolume' = mVolume /\ mBase' = f.base
           /\ mCache' = [blk |-> f.cblk, data |-> f.cdata]
<1> DEFINE g == [base |-> f.base, cblk |-> f.cblk, cdata |-> f.cdata, ok |-> TRUE,
                 threw |-> FALSE, uncut |-> FALSE, left |-> 0, reads |-> 0]
           e == MacRest'
<1>1. /\ mVolume' = mVolume /\ mBase' = f.base
      /\ mCache' = [blk |-> f.cblk, data |-> f.cdata]
  BY DEF Mac!Commit
<1>2. f \in MacSet /\ mVolume \in MacVolumes
  BY DEF ML!Sound, MacGood, MacInv
<1>3. g \in MacSet /\ g.base = f.base /\ g.cblk = f.cblk /\ g.cdata = f.cdata
  BY <1>2 DEF MacSet
<1>4. ML!Sound(g) /\ Mac!Size(g) <= LayerSize
  <2>1. ML!Sound(g)
    BY <1>2, <1>3, MacAsBefore
  <2>2. Mac!Size(g) = Mac!Size(f)
    BY <1>3, MacSameBase DEF ML!Same
  <2> QED
    BY <2>1, <2>2
<1>5. e = g
  BY <1>1 DEF MacRest, Mac!Current
<1> HIDE DEF e, g
<1>6. ML!Sound(MacRest)'
  <2>1. MacGood(g) /\ ML!Coherent(g) /\ ML!Within(g)
    BY <1>4 DEF ML!Sound, ML!Cached
  <2>2. AlteredOnce(MacRest.base)'
    <3> DEFINE c == g.base
    <3>1. AlteredOnce(c) /\ MacRest.base' = c
      BY <1>5, <2>1 DEF MacGood, e
    <3> HIDE DEF c
    <3> QED
      BY <1>1, <3>1 DEF AlteredOnce, Mac!Altered
  <2>3. ASSUME NEW b \in Nat, MacPart(MacRest, b)' # <<>> PROVE BlockFits(MacPart(MacRest, b))'
    <3> DEFINE c == MacPart(g, b)
    <3>1. MacPart(MacRest, b)' = c
      BY <1>5 DEF MacPart, e
    <3>2. c # <<>> /\ BlockFits(c)
      BY <2>1, <2>3, <3>1 DEF MacGood
    <3> HIDE DEF c
    <3> QED
      BY <1>1, <3>1, <3>2 DEF BlockFits, WasOf, Mac!Altered
  <2>4. MacGood(MacRest)'
    <3>1. g \in MacSet /\ Len(g.cdata) <= BS /\ Whole(g.base)
      BY <2>1 DEF MacGood
    <3>2. MacRest' \in MacSet /\ Len(MacRest'.cdata) <= BS /\ Whole(MacRest.base)'
      BY <1>5, <3>1 DEF Whole, e
    <3> QED
      BY <2>2, <2>3, <3>2 DEF MacGood
  <2>5. ML!Coherent(MacRest)'
    BY <1>5, <2>1 DEF ML!Coherent, ML!IsPart, ML!Has, ML!Least, MacByteAt, Mac!Size,
                      Mac!LocWithoutHeader, Mac!RoundUpDivide, Mac!RBS, e
  <2>6. ML!Within(MacRest)'
    BY <1>1, <1>5, <2>1 DEF ML!Within, Mac!Size,
                      Mac!LocWithoutHeader, Mac!RoundUpDivide, Mac!RBS, e
  <2> QED
    BY <2>4, <2>5, <2>6 DEF ML!Sound, ML!Cached
<1>7. Mac!Size(MacRest)' <= LayerSize
  BY <1>4, <1>5 DEF Mac!Size, Mac!LocWithoutHeader, Mac!RoundUpDivide, Mac!RBS, e
<1>8. mCache' \in [blk : 0..LayerSize, data : Seq(Int)]
  BY <1>1, <1>2 DEF MacSet, MacTop
<1> QED
  BY <1>1, <1>2, <1>6, <1>7, <1>8 DEF MacInv

----------------------------------------------------------------------------
(* What is promised of a plain file, byte by byte.                         *)

\* The same for every layer.
LEMMA SamePlain ==
    ASSUME NEW s, NEW t, NEW n, NEW off, NEW d
    PROVE  /\ Mac!Plain!Slice(s, off, n) = Raw!Plain!Slice(s, off, n)
           /\ Mac!Plain!Cut(s, n) = Raw!Plain!Cut(s, n)
           /\ Mac!Plain!Overlay(s, off, d) = Raw!Plain!Overlay(s, off, d)
           /\ Mac!Plain!UpTo(n, s, t) = Raw!Plain!UpTo(n, s, t)
           /\ Plain!Slice(s, off, n) = Raw!Plain!Slice(s, off, n)
           /\ Plain!Cut(s, n) = Raw!Plain!Cut(s, n)
           /\ Plain!Overlay(s, off, d) = Raw!Plain!Overlay(s, off, d)
           /\ Plain!UpTo(n, s, t) = Raw!Plain!UpTo(n, s, t)
BY DEF Mac!Plain!Slice, Raw!Plain!Slice, Plain!Slice, Mac!Plain!Least, Raw!Plain!Least,
       Plain!Least, Mac!Plain!Cut, Raw!Plain!Cut, Plain!Cut, Mac!Plain!Zeros, Raw!Plain!Zeros,
       Plain!Zeros, Mac!Plain!Overlay, Raw!Plain!Overlay, Plain!Overlay, Mac!Plain!UpTo,
       Raw!Plain!UpTo, Plain!UpTo

\* What a read returns.
LEMMA SliceOf ==
    ASSUME NEW s \in Seq(Int), NEW off \in Nat, off < Len(s), NEW n \in Nat,
           NEW d \in Seq(Int), Len(d) = Least(n, Len(s) - off),
           \A i \in 1..Len(d) : d[i] = s[off + i]
    PROVE  d = Raw!Plain!Slice(s, off, n)
<1> DEFINE len == Len(s)
           m == off + 1
           end == Least(off + n, len)
           p == SubSeq(s, m, end)
<1>1. len \in Nat /\ Len(d) \in Nat
  BY LenProperties
<1> HIDE DEF len
<1>2. off < len /\ Len(d) = Least(n, len - off)
  BY DEF len
<1>3. end \in Nat /\ end <= len /\ m \in Nat \ {0} /\ Len(d) = (IF m <= end THEN end - m + 1 ELSE 0)
  BY <1>1, <1>2 DEF Least
<1> HIDE DEF end, m
<1>4. p \in Seq(Int) /\ Len(p) = (IF m <= end THEN end - m + 1 ELSE 0)
      /\ \A i \in 1..Len(p) : p[i] = s[m + i - 1]
  <2>1. s \in Seq(Int) /\ m \in Nat \ {0} /\ end \in Int /\ end <= Len(s)
    BY <1>3 DEF len
  <2> QED
    BY ONLY <2>1, PartIs
<1> HIDE DEF p
<1>5. Len(p) = Len(d)
  BY <1>3, <1>4
<1>6. ASSUME NEW i \in 1..Len(p) PROVE p[i] = d[i]
  <2>1. m + i - 1 = off + i /\ i \in 1..Len(d)
    BY <1>1, <1>5 DEF m
  <2> QED
    BY <1>4, <2>1
<1>7. p = d
  BY <1>4, <1>5, <1>6, SeqEqual
<1> QED
  BY <1>7 DEF p, m, end, len, Raw!Plain!Slice, Raw!Plain!Least, Least

\* What a truncation leaves.
LEMMA CutOf ==
    ASSUME NEW s \in Seq(Int), NEW n \in Nat, NEW t \in Seq(Int), Len(t) = n,
           \A i \in 1..n : t[i] = IF i <= Len(s) THEN s[i] ELSE 0
    PROVE  t = Raw!Plain!Cut(s, n)
<1> DEFINE r == Raw!Resize(s, n)
<1>1. r \in Seq(Int) /\ Len(r) = n /\ \A i \in 1..n : r[i] = IF i <= Len(s) THEN s[i] ELSE 0
  BY ResizeIs
<1> HIDE DEF r
<1>2. Len(t) = Len(r) /\ \A i \in 1..Len(t) : t[i] = r[i]
  BY <1>1
<1>3. t = r
  BY <1>1, <1>2, SeqEqual
<1> QED
  BY <1>3, SameFile DEF r

\* What a write leaves.
LEMMA OverlayOf ==
    ASSUME NEW s \in Seq(Int), NEW off \in Nat, NEW d \in Seq(Int), NEW t \in Seq(Int),
           Len(t) = Most(Len(s), off + Len(d)),
           \A i \in 1..Len(t) : t[i] = IF off < i /\ i <= off + Len(d) THEN d[i - off]
                                       ELSE IF i <= Len(s) THEN s[i] ELSE 0
    PROVE  t = Raw!Plain!Overlay(s, off, d)
<1> DEFINE o == Raw!Overlay(s, off, d)
<1>0. 0 \in Int /\ s \in Seq(Int) /\ off \in Nat /\ d \in Seq(Int)
  OBVIOUS
<1>1. /\ o \in Seq(Int) /\ Len(o) = (IF Len(s) < off + Len(d) THEN off + Len(d) ELSE Len(s))
      /\ \A i \in 1..Len(o) : o[i] = IF off < i /\ i <= off + Len(d) THEN d[i - off]
                                     ELSE IF i <= Len(s) THEN s[i] ELSE 0
  BY ONLY <1>0, OverlayIs
<1> HIDE DEF o
<1>2. Len(t) = Len(o)
  BY <1>1 DEF Most
<1>3. \A i \in 1..Len(t) : t[i] = o[i]
  BY <1>1, <1>2
<1>4. t = o
  BY <1>1, <1>2, <1>3, SeqEqual
<1> QED
  BY <1>4, SameFile DEF o

\* What a write leaves that went up to m bytes of the file.
LEMMA UpToOf ==
    ASSUME NEW s \in Seq(Int), NEW off \in Nat, NEW d \in Seq(Int), NEW t \in Seq(Int),
           NEW m \in 0..(off + Len(d)), Len(t) = Most(Len(s), m),
           \A i \in 1..Len(t) : t[i] = IF i <= m /\ off < i /\ i <= off + Len(d) THEN d[i - off]
                                       ELSE IF i <= Len(s) THEN s[i] ELSE 0
    PROVE  t = Raw!Plain!UpTo(m, Raw!Plain!Overlay(s, off, d), s)
<1> DEFINE o == Raw!Overlay(s, off, d)
           len == Len(s)
           end == off + Len(d)
           k == m + 1
           head == SubSeq(o, 1, m)
           tail == SubSeq(s, k, len)
           u == head \o tail
<1>1. /\ o \in Seq(Int) /\ Len(o) = (IF len < end THEN end ELSE len)
      /\ \A i \in 1..Len(o) : o[i] = IF off < i /\ i <= end THEN d[i - off]
                                     ELSE IF i <= len THEN s[i] ELSE 0
  BY OverlayIs
<1>2. len \in Nat /\ end \in Nat /\ m \in Nat /\ m <= end /\ k \in Nat \ {0}
  BY LenProperties
<1>3. /\ Len(t) = (IF len < m THEN m ELSE len)
      /\ \A i \in 1..Len(t) : t[i] = IF i <= m /\ off < i /\ i <= end THEN d[i - off]
                                     ELSE IF i <= len THEN s[i] ELSE 0
  BY <1>2 DEF Most
<1> HIDE DEF o, end
<1>4. m <= Len(o) /\ Len(o) \in Nat
  BY <1>1, <1>2
<1>5. /\ head \in Seq(Int) /\ Len(head) = m
      /\ \A i \in 1..m : head[i] = o[i]
  <2>1. 1 \in Nat \ {0} /\ m \in Int /\ m <= Len(o) /\ o \in Seq(Int)
    BY <1>1, <1>2, <1>4
  <2>2. /\ head \in Seq(Int) /\ Len(head) = (IF 1 <= m THEN m - 1 + 1 ELSE 0)
        /\ \A i \in 1..Len(head) : head[i] = o[1 + i - 1]
    BY ONLY <2>1, PartIs
  <2> HIDE DEF head
  <2>3. Len(head) = m
    BY <1>2, <2>2
  <2>4. \A i \in 1..m : 1 + i - 1 = i
    BY <1>2
  <2> QED
    BY <2>2, <2>3, <2>4
<1>6. /\ tail \in Seq(Int) /\ Len(tail) = (IF k <= len THEN len - k + 1 ELSE 0)
      /\ \A i \in 1..Len(tail) : tail[i] = s[k + i - 1]
  <2>1. s \in Seq(Int) /\ k \in Nat \ {0} /\ len \in Int /\ len <= Len(s)
    BY <1>2
  <2> HIDE DEF k, len
  <2> QED
    BY ONLY <2>1, PartIs
<1> HIDE DEF head, tail, len
<1>7. /\ u \in Seq(Int) /\ Len(u) = Len(head) + Len(tail)
      /\ \A i \in 1..(Len(head) + Len(tail)) :
           u[i] = IF i <= Len(head) THEN head[i] ELSE tail[i - Len(head)]
  BY <1>5, <1>6, ConcatProperties
<1> HIDE DEF u
<1>8. Len(tail) = (IF m + 1 <= len THEN len - m ELSE 0) /\ Len(tail) \in Nat
  BY <1>2, <1>6
<1>9. Len(u) = Len(t)
  <2>1. Len(u) = m + Len(tail)
    BY <1>5, <1>7
  <2>2. m + Len(tail) = IF len < m THEN m ELSE len
    BY <1>2, <1>8
  <2> QED
    BY <1>3, <2>1, <2>2
<1>10. ASSUME NEW i \in 1..Len(t) PROVE t[i] = u[i]
  <2>1. Len(u) = m + Len(tail) /\ i \in 1..(m + Len(tail)) /\ Len(t) \in Nat
    BY <1>5, <1>7, <1>9, LenProperties
  <2>2. CASE i <= m
    <3>1. i \in 1..m /\ i \in 1..Len(o)
      BY <1>2, <1>4, <2>2
    <3>2. u[i] = o[i]
      BY <1>5, <1>7, <2>1, <2>2, <3>1
    <3> QED
      BY <1>1, <1>3, <2>2, <3>1, <3>2
  <2>3. CASE ~(i <= m)
    <3> DEFINE j == i - m
    <3>1. j \in 1..Len(tail) /\ k + j - 1 = i /\ i <= len
      BY <1>2, <1>8, <2>1, <2>3
    <3>2. u[i] = tail[j]
      BY <1>5, <1>7, <2>1, <2>3
    <3> HIDE DEF j, k
    <3>3. u[i] = s[i]
      BY <1>6, <3>1, <3>2
    <3>4. t[i] = s[i]
      BY <1>3, <2>3, <3>1
    <3> QED
      BY <3>3, <3>4
  <2> QED
    BY <2>2, <2>3
<1>11. t = u
  BY <1>7, <1>9, <1>10, SeqEqual
<1>12. Raw!Plain!UpTo(m, o, s) = u
  BY DEF Raw!Plain!UpTo, u, head, tail, len, k
<1> QED
  BY <1>11, <1>12, SameFile DEF o

----------------------------------------------------------------------------
(* The calls keep the invariant, and do what PlainFile promises.           *)

\* The plain bytes of a file.
MacPlain(f) == [k \in 1..Mac!Size(f) |-> MacByteAt(f, k)]

\* The file as it was written, byte by byte.
LEMMA MacPlainIs ==
    ASSUME mVolume \in MacVolumes, NEW f, MacGood(f)
    PROVE  /\ MacPlain(f) \in Seq(Int) /\ Len(MacPlain(f)) = Mac!Size(f) /\ Mac!Size(f) \in Nat
           /\ \A i \in 1..Mac!Size(f) : MacPlain(f)[i] = MacByteAt(f, i)
<1> DEFINE n == Mac!Size(f)
           p == [k \in 1..n |-> MacByteAt(f, k)]
<1>1. n \in Nat /\ \A i \in 1..n : MacByteAt(f, i) \in Int
  BY MacTypes DEF ML!LayerTyped
<1> HIDE DEF n
<1>2. p \in [1..n -> Int]
  BY <1>1
<1>3. p \in Seq(Int)
  BY <1>1, <1>2, SeqDef
<1>4. Len(p) = n
  BY <1>1, <1>2, <1>3, LenProperties
<1> QED
  BY <1>1, <1>3, <1>4 DEF MacPlain, n

\* The same bytes are the same content.
LEMMA MacSamePlain ==
    ASSUME NEW f, NEW g, ML!Same(f, g)
    PROVE  MacPlain(g) = MacPlain(f)
BY DEF ML!Same, MacPlain

\* What a call leaves sound is what there is afterwards.
LEMMA MacCommits ==
    ASSUME MacInv, NEW f, ML!Sound(f), Mac!Size(f) <= LayerSize, Mac!Commit(f)
    PROVE  MacInv' /\ MacPlain(MacRest)' = MacPlain(f)
<1> DEFINE e == MacRest'
<1>1. MacInv' /\ mBase' = f.base
  BY MacCommitKeeps
<1>2. e.base = f.base
  BY <1>1 DEF MacRest, Mac!Current
<1> HIDE DEF e
<1>3. MacPlain(MacRest)' = MacPlain(f)
  BY <1>2 DEF MacPlain, MacByteAt, Mac!Size, Mac!LocWithoutHeader, Mac!RoundUpDivide, Mac!RBS, e
<1> QED
  BY <1>1, <1>3

\* Plenty is more than a call takes.
LEMMA MacPlenty ==
    LayerSize \in Nat /\ Mac!Plenty \in Nat /\ Mac!Plenty >= LayerSize + 2
BY LayerAssumption DEF Mac!Plenty

\* A truncation below its end, at its end and beyond it.
LEMMA MacTruncateIs ==
    ASSUME mVolume \in MacVolumes, NEW f, ML!Sound(f), ~f.threw, Mac!Size(f) <= LayerSize,
           f.reads = Mac!Plenty, f.left = Mac!Plenty, NEW n \in 0..LayerSize,
           n < Mac!Size(f) /\ n % BS = 0 => ~mVolume.holes
    PROVE  MacCut(f, n, Mac!TruncateFile(f, n, TRUE))
<1> DEFINE t == ML!TruncateFile(f, n)
           old == Mac!Size(f)
<1>1. Mac!TruncateFile(f, n, TRUE) = MacTruncated(t, n)
  <2>1. Mac!IO!TruncateFile(f, n) = t
    BY MacCallsAre
  <2>2. Mac!TruncateFile(f, n, TRUE)
          = IF t.threw \/ ~TRUE THEN t
            ELSE [t EXCEPT !.base = Mac!BaseResize(t.base, Mac!LocWithHeader(n))]
    BY <2>1 DEF Mac!TruncateFile
  <2> HIDE DEF t
  <2> QED
    BY <2>2 DEF MacTruncated, MacResized
<1>2. old \in Nat /\ n \in Nat /\ n <= LayerSize
  <2>1. MacGood(f)
    BY DEF ML!Sound
  <2> QED
    BY <2>1, MacPlenty, LenIs DEF MacGood, MacSet
<1>3. f.reads >= 1 /\ f.left >= 1 /\ f.left >= n + 2
  BY <1>2, MacPlenty
<1>4. MacCut(f, n, MacTruncated(t, n))
  <2>1. CASE old < n
    BY <1>3, <2>1, MacExtends
  <2>2. CASE n = old
    BY <2>2, MacCutsNothing
  <2>3. CASE n < old /\ n % BS = 0
    BY <2>3, MacCuts
  <2>4. CASE n < old /\ n % BS # 0
    BY <1>3, <2>4, MacTrims
  <2> HIDE DEF old, t
  <2> QED
    BY <1>2, <2>1, <2>2, <2>3, <2>4
<1> QED
  BY <1>1, <1>4

\* What the invariant says of the file between calls.
LEMMA MacRestIs ==
    ASSUME MacInv
    PROVE  /\ mVolume \in MacVolumes /\ MacGood(MacRest) /\ MacPlain(MacRest) \in Seq(Int)
           /\ Mac!Size(MacRest) \in Nat /\ Mac!Size(MacRest) <= LayerSize
           /\ Len(MacPlain(MacRest)) = Mac!Size(MacRest)
<1>1. mVolume \in MacVolumes /\ MacGood(MacRest) /\ Mac!Size(MacRest) <= LayerSize
  BY DEF MacInv, ML!Sound
<1> QED
  BY <1>1, MacPlainIs

\* read returns the bytes there are, or fails (MACFileIO.cpp:160-220).
LEMMA MacReadIs ==
    ASSUME MacInv, Mac!Read
    PROVE  /\ MacInv' /\ MacPlain(MacRest)' = MacPlain(MacRest)
           /\ \E off \in 0..LayerSize, n \in LayerSizes :
                \/ mRet' = Mac!Failed(<<"read", off, n>>)
                \/ mRet' = Mac!Gave(<<"read", off, n>>, Mac!Plain!Slice(MacPlain(MacRest), off, n))
<1>1. PICK off \in 0..LayerSize, n \in LayerSizes, reads \in {0, 1, Mac!Plenty} :
        /\ off < Mac!Size(Mac!Current(0, 0))
        /\ reads # Mac!Plenty => off % BS = 0 /\ n <= BS
        /\ Mac!Commit(Mac!IO!ReadFile(Mac!Current(Mac!Plenty, reads), off, n).f)
        /\ mRet' = IF Mac!IO!ReadFile(Mac!Current(Mac!Plenty, reads), off, n).failed
                   THEN Mac!Failed(<<"read", off, n>>)
                   ELSE Mac!Gave(<<"read", off, n>>,
                                 Mac!IO!ReadFile(Mac!Current(Mac!Plenty, reads), off, n).data)
  BY Zenon DEF Mac!Read
<1> DEFINE f == Mac!Current(Mac!Plenty, reads)
           r == ML!ReadFile(f, off, n)
           s == MacPlain(MacRest)
           size == Mac!Size(f)
<1>2. off \in Nat /\ n \in Nat /\ reads \in Nat /\ Mac!Plenty \in Nat
  BY MacPlenty, LayerAssumption
<1>3. /\ ML!Sound(f) /\ ~f.threw /\ f.reads = reads /\ ML!Same(MacRest, f)
      /\ size \in Nat /\ size <= LayerSize
  BY <1>2, MacCurrentIs
<1>4. off < size
  BY <1>1, <1>3 DEF ML!Same, MacRest
<1>5. Mac!IO!ReadFile(f, off, n) = r
  BY MacCallsAre
<1>6. /\ Mac!Commit(r.f)
      /\ mRet' = IF r.failed THEN Mac!Failed(<<"read", off, n>>)
                 ELSE Mac!Gave(<<"read", off, n>>, r.data)
  BY <1>1, <1>5
<1> HIDE DEF f, r
<1>7. /\ ML!Sound(r.f) /\ ML!Same(f, r.f) /\ r.failed \in BOOLEAN
      /\ ~r.failed => ML!IsPart(r.data, f, off, ML!Least(n, size - off))
  <2>1. (off % BS = 0 /\ n <= BS) \/ f.reads >= size + 1
    BY <1>1, <1>2, <1>3, MacPlenty
  <2>2. ML!LayerKeeps
    BY MacKeeps DEF MacInv
  <2>3. MacReads(f) = f.reads /\ f.reads >= 0
    BY <1>2, <1>3 DEF MacReads
  <2>4. size <= MacTop
    BY <1>3 DEF MacTop
  <2>5. /\ ML!Sound(f) /\ ~f.threw /\ MacReads(f) >= 0 /\ off < Mac!Size(f)
        /\ Mac!Size(f) <= MacTop
        /\ (off % BS = 0 /\ n <= BS) \/ MacReads(f) >= Mac!Size(f) + 1
    BY <1>3, <1>4, <2>1, <2>3, <2>4
  <2>6. /\ ML!Sound(ML!ReadFile(f, off, n).f) /\ ML!Same(f, ML!ReadFile(f, off, n).f)
        /\ ML!ReadFile(f, off, n).failed \in BOOLEAN
        /\ ~ML!ReadFile(f, off, n).failed =>
             ML!IsPart(ML!ReadFile(f, off, n).data, f, off, ML!Least(n, Mac!Size(f) - off))
    BY ONLY <1>2, <2>2, <2>5, ML!ReadFileIs
  <2> QED
    BY <2>6 DEF r
<1>8. MacPlain(r.f) = s /\ Mac!Size(r.f) = size
  <2>1. MacPlain(f) = s /\ MacPlain(r.f) = MacPlain(f)
    BY <1>3, <1>7, MacSamePlain
  <2> QED
    BY <1>7, <2>1 DEF ML!Same
<1>9. MacInv' /\ MacPlain(MacRest)' = s
  BY <1>3, <1>6, <1>7, <1>8, MacCommits
<1>10. ASSUME ~r.failed PROVE r.data = Mac!Plain!Slice(s, off, n)
  <2> DEFINE d == r.data
  <2>1. /\ d \in Seq(Int) /\ Len(d) = ML!Least(n, size - off)
        /\ \A i \in 1..Len(d) : d[i] = MacByteAt(f, off + i)
    BY <1>7, <1>10 DEF ML!IsPart
  <2>2. /\ s \in Seq(Int) /\ Len(s) = size /\ \A i \in 1..size : s[i] = MacByteAt(f, i)
    <3>1. MacPlain(f) = s /\ MacGood(f) /\ mVolume \in MacVolumes
      BY <1>3, MacSamePlain DEF ML!Sound, MacInv
    <3> HIDE DEF s, size
    <3> QED
      BY <3>1, MacPlainIs DEF size
  <2> HIDE DEF d, s, size
  <2>3. Len(d) = Least(n, Len(s) - off) /\ Len(d) \in Nat /\ Len(d) <= size - off
    BY <1>2, <1>3, <1>4, <2>1, <2>2 DEF ML!Least, Least
  <2>4. ASSUME NEW i \in 1..Len(d) PROVE d[i] = s[off + i]
    <3> DEFINE x == off + i
    <3>1. x \in 1..size
      BY <1>2, <1>3, <2>3
    <3>2. d[i] = MacByteAt(f, x)
      BY <2>1
    <3> HIDE DEF x
    <3>3. s[x] = d[i]
      BY <2>2, <3>1, <3>2
    <3> QED
      BY <3>3 DEF x
  <2>5. d = Raw!Plain!Slice(s, off, n)
    BY <1>2, <1>4, <2>1, <2>2, <2>3, <2>4, SliceOf
  <2> QED
    BY <2>5, SamePlain DEF d
<1> QED
  BY <1>6, <1>9, <1>10

\* write puts the bytes there, and zeros before them, or fails and has done so up to
\* some point (MACFileIO.cpp:230-293).
LEMMA MacWriteIs ==
    ASSUME MacInv, Mac!Write
    PROVE  /\ MacInv'
           /\ \E off \in 0..LayerSize, data \in Data :
                LET s == MacPlain(MacRest)
                    o == Mac!Plain!Overlay(s, off, data)
                IN \/ /\ mRet' = Mac!Ok(<<"write", off, data>>)
                      /\ MacPlain(MacRest)' = o
                   \/ /\ mRet' = Mac!Failed(<<"write", off, data>>)
                      /\ \E m \in 0..(off + Len(data)) :
                           MacPlain(MacRest)' = Mac!Plain!UpTo(m, o, s)
<1>1. PICK data \in Data, off \in 0..LayerSize, left \in {0, 1, Mac!Plenty},
           reads \in {0, Mac!Plenty} :
        /\ off + Len(data) <= LayerSize
        /\ reads = Mac!Plenty
        /\ Mac!Commit(Mac!IO!WriteFile(Mac!Current(left, reads), off, data))
        /\ mRet' = IF /\ Mac!IO!WriteFile(Mac!Current(left, reads), off, data).ok
                      /\ ~Mac!IO!WriteFile(Mac!Current(left, reads), off, data).threw
                   THEN Mac!Ok(<<"write", off, data>>) ELSE Mac!Failed(<<"write", off, data>>)
  BY Zenon DEF Mac!Write
<1> DEFINE f == Mac!Current(left, reads)
           g == ML!WriteFile(f, off, data)
           s == MacPlain(MacRest)
           t == MacPlain(g)
           size == Mac!Size(f)
           end == off + Len(data)
<1>2. /\ off \in Nat /\ reads \in Nat /\ left \in Nat /\ Mac!Plenty \in Nat
      /\ LayerSize \in Nat /\ reads = Mac!Plenty /\ end <= LayerSize
  BY <1>1, MacPlenty
<1>3. data \in Seq(Int) /\ data # <<>> /\ Len(data) \in Nat /\ end \in Nat
  <2>1. data \in Seq(Nat) /\ data # <<>>
    BY BlockAssumption
  <2>2. data \in [1..Len(data) -> Nat] /\ Len(data) \in Nat
    BY <2>1, LenProperties
  <2>3. data \in [1..Len(data) -> Int]
    BY <2>2
  <2>4. data \in Seq(Int)
    BY <2>2, <2>3, SeqDef
  <2> QED
    BY <1>2, <2>1, <2>2, <2>4
<1>4. /\ ML!Sound(f) /\ ~f.threw /\ f.reads = reads /\ ML!Same(MacRest, f)
      /\ size \in Nat /\ size <= LayerSize
  BY <1>2, MacCurrentIs
<1>5. Mac!IO!WriteFile(f, off, data) = g
  BY MacCallsAre
<1>6. /\ Mac!Commit(g)
      /\ mRet' = IF g.ok /\ ~g.threw THEN Mac!Ok(<<"write", off, data>>)
                 ELSE Mac!Failed(<<"write", off, data>>)
  BY <1>1, <1>5
<1>7. mVolume \in MacVolumes /\ ML!LayerKeeps
  BY MacKeeps DEF MacInv
<1> HIDE DEF f
<1>8. PICK m \in 0..end :
        /\ ML!Sound(g) /\ Mac!Size(g) = ML!Most(size, m)
        /\ \A i \in 1..Mac!Size(g) :
             MacByteAt(g, i) = IF i <= m /\ i \in off + 1 .. end THEN data[i - off]
                               ELSE ML!ByteOr0(f, i)
        /\ g.ok /\ ~g.threw => m = end
  <2>1. /\ ML!Sound(f) /\ ~f.threw /\ off \in Nat /\ data \in Seq(Int) /\ data # <<>>
        /\ MacReads(f) >= Len(data) + 1 /\ off + Len(data) <= MacTop
    <3>1. Len(data) <= LayerSize
      BY <1>2, <1>3
    <3>2. MacReads(f) >= Len(data) + 1
      <4>1. MacReads(f) = Mac!Plenty
        BY <1>2, <1>4 DEF MacReads
      <4> QED
        BY <1>2, <1>3, <3>1, <4>1, MacPlenty
    <3> QED
      BY <1>2, <1>3, <1>4, <3>2 DEF MacTop
  <2>2. \E m \in 0..(off + Len(data)) :
          /\ ML!Sound(ML!WriteFile(f, off, data)) /\ MacStays(f, ML!WriteFile(f, off, data))
          /\ Mac!Size(ML!WriteFile(f, off, data)) = ML!Most(Mac!Size(f), m)
          /\ \A i \in 1..Mac!Size(ML!WriteFile(f, off, data)) :
               MacByteAt(ML!WriteFile(f, off, data), i)
                 = IF i <= m /\ i \in off + 1 .. off + Len(data) THEN data[i - off]
                   ELSE ML!ByteOr0(f, i)
          /\ ML!WriteFile(f, off, data).ok /\ ~ML!WriteFile(f, off, data).threw
               => m = off + Len(data)
    BY ONLY <1>7, <2>1, ML!WriteFileIs
  <2> QED
    BY <2>2
<1> HIDE DEF g
<1>9. m \in Nat /\ m <= end
  BY <1>3
<1>10. Mac!Size(g) <= LayerSize
  <2> HIDE DEF size, end
  <2> QED
    BY <1>2, <1>3, <1>4, <1>8, <1>9 DEF ML!Most
<1>11. MacInv' /\ MacPlain(MacRest)' = t
  BY <1>6, <1>8, <1>10, MacCommits
<1>12. /\ s \in Seq(Int) /\ Len(s) = size /\ \A i \in 1..size : s[i] = MacByteAt(f, i)
  <2>1. MacPlain(f) = s /\ MacGood(f)
    BY <1>4, MacSamePlain DEF ML!Sound
  <2> HIDE DEF s, size
  <2> QED
    BY <1>7, <2>1, MacPlainIs DEF size
<1>13. /\ t \in Seq(Int) /\ Len(t) = Mac!Size(g)
       /\ \A i \in 1..Mac!Size(g) : t[i] = MacByteAt(g, i)
  <2>1. MacGood(g)
    BY <1>8 DEF ML!Sound
  <2> QED
    BY <1>7, <2>1, MacPlainIs
<1>14. Len(t) = Most(Len(s), m)
  BY <1>8, <1>12, <1>13 DEF ML!Most, Most
<1>15. ASSUME NEW i \in 1..Len(t)
       PROVE  t[i] = IF i <= m /\ off < i /\ i <= end THEN data[i - off]
                     ELSE IF i <= Len(s) THEN s[i] ELSE 0
  <2>0. Len(t) \in Nat
    BY <1>13, LenProperties
  <2>1. i \in Nat /\ 1 <= i
    BY <2>0
  <2>2. t[i] = IF i <= m /\ i \in off + 1 .. end THEN data[i - off] ELSE ML!ByteOr0(f, i)
    BY <1>8, <1>13
  <2>3. ML!ByteOr0(f, i) = IF i <= Len(s) THEN s[i] ELSE 0
    BY <1>4, <1>12, <2>1 DEF ML!ByteOr0
  <2>4. i \in off + 1 .. end <=> off < i /\ i <= end
    BY <1>2, <1>3, <2>1
  <2> HIDE DEF t, s, end
  <2> QED
    BY <2>2, <2>3, <2>4
<1> HIDE DEF t, s, size
<1>16. CASE g.ok /\ ~g.threw
  <2>1. m = end
    BY <1>8, <1>16
  <2>2. Len(t) = Most(Len(s), off + Len(data))
    BY <1>14, <2>1
  <2>3. ASSUME NEW i \in 1..Len(t)
        PROVE  t[i] = IF off < i /\ i <= off + Len(data) THEN data[i - off]
                      ELSE IF i <= Len(s) THEN s[i] ELSE 0
    BY <1>15, <2>1
  <2>4. t = Raw!Plain!Overlay(s, off, data)
    BY ONLY <1>2, <1>3, <1>12, <1>13, <2>2, <2>3, OverlayOf
  <2>5. t = Mac!Plain!Overlay(s, off, data)
    BY <2>4, SamePlain
  <2> QED
    BY <1>6, <1>11, <1>16, <2>5 DEF s, t
<1>17. CASE ~(g.ok /\ ~g.threw)
  <2>1. ASSUME NEW i \in 1..Len(t)
        PROVE  t[i] = IF i <= m /\ off < i /\ i <= off + Len(data) THEN data[i - off]
                      ELSE IF i <= Len(s) THEN s[i] ELSE 0
    BY <1>15
  <2>0. /\ s \in Seq(Int) /\ off \in Nat /\ data \in Seq(Int) /\ t \in Seq(Int)
        /\ m \in 0..(off + Len(data)) /\ Len(t) = Most(Len(s), m)
    BY <1>2, <1>3, <1>12, <1>13, <1>14
  <2>2. t = Raw!Plain!UpTo(m, Raw!Plain!Overlay(s, off, data), s)
    BY ONLY <2>0, <2>1, UpToOf
  <2>3. t = Mac!Plain!UpTo(m, Mac!Plain!Overlay(s, off, data), s)
    BY <2>2, SamePlain
  <2> QED
    BY <1>6, <1>11, <1>17, <2>3 DEF s, t
<1> QED
  BY <1>16, <1>17

\* truncate cuts the bytes there are or adds zeros, or fails and has done nothing
\* (MACFileIO.cpp:295-318).
LEMMA MacTruncates ==
    ASSUME MacInv, Mac!Truncate
    PROVE  /\ MacInv'
           /\ \E n \in 0..LayerSize :
                \/ /\ mRet' = Mac!Ok(<<"truncate", n>>)
                   /\ MacPlain(MacRest)' = Mac!Plain!Cut(MacPlain(MacRest), n)
                \/ /\ mRet' = Mac!Failed(<<"truncate", n>>)
                   /\ MacPlain(MacRest)' = MacPlain(MacRest)
<1>1. PICK n \in 0..LayerSize, left \in {0, 1, Mac!Plenty}, reads \in {0, Mac!Plenty},
           cuts \in BOOLEAN :
        /\ left = Mac!Plenty /\ reads = Mac!Plenty /\ cuts = TRUE
        /\ n < Mac!Size(Mac!Current(0, 0)) /\ n % BS = 0 => ~mVolume.holes
        /\ Mac!Commit(Mac!TruncateFile(Mac!Current(left, reads), n, cuts))
        /\ mRet' = IF Mac!TruncateFile(Mac!Current(left, reads), n, cuts).threw
                   THEN Mac!Failed(<<"truncate", n>>) ELSE Mac!Ok(<<"truncate", n>>)
  BY Zenon DEF Mac!Truncate
<1> DEFINE f == Mac!Current(left, reads)
           g == Mac!TruncateFile(f, n, cuts)
           s == MacPlain(MacRest)
           t == MacPlain(g)
<1>2. n \in Nat /\ left \in Nat /\ reads \in Nat /\ LayerSize \in Nat /\ n <= LayerSize
  BY <1>1, MacPlenty
<1>3. /\ ML!Sound(f) /\ ~f.threw /\ f.left = left /\ f.reads = reads /\ ML!Same(MacRest, f)
      /\ Mac!Size(f) \in Nat /\ Mac!Size(f) <= LayerSize
  BY <1>2, MacCurrentIs
<1>4. mVolume \in MacVolumes
  BY DEF MacInv
<1>5. n < Mac!Size(f) /\ n % BS = 0 => ~mVolume.holes
  BY <1>1, <1>3 DEF ML!Same, MacRest
<1>6. Mac!Commit(g) /\ mRet' = IF g.threw THEN Mac!Failed(<<"truncate", n>>)
                               ELSE Mac!Ok(<<"truncate", n>>)
  BY <1>1
<1> HIDE DEF f
<1>7. MacCut(f, n, g)
  <2>1. f.left = Mac!Plenty /\ f.reads = Mac!Plenty
    BY <1>1, <1>3
  <2>2. MacCut(f, n, Mac!TruncateFile(f, n, TRUE))
    BY <1>3, <1>4, <1>5, <2>1, MacTruncateIs
  <2> QED
    BY <1>1, <2>2
<1> HIDE DEF g
<1>8. ML!Sound(g) /\ Mac!Size(g) <= LayerSize
  BY <1>2, <1>3, <1>7 DEF MacCut, ML!Same
<1>9. MacInv' /\ MacPlain(MacRest)' = t
  BY <1>6, <1>8, MacCommits
<1>10. s = MacPlain(f)
  BY <1>3, MacSamePlain
<1>11. CASE g.threw
  <2>1. t = s
    BY <1>7, <1>10, <1>11, MacSamePlain DEF MacCut
  <2> QED
    BY <1>6, <1>9, <1>11, <2>1
<1>12. CASE ~g.threw
  <2>1. Mac!Size(g) = n /\ \A i \in 1..n : MacByteAt(g, i) = ML!ByteOr0(f, i)
    BY <1>7, <1>12 DEF MacCut
  <2>2. t \in Seq(Int) /\ Len(t) = n /\ \A i \in 1..n : t[i] = MacByteAt(g, i)
    <3>1. MacGood(g)
      BY <1>8 DEF ML!Sound
    <3> QED
      BY <1>4, <2>1, <3>1, MacPlainIs
  <2>3. /\ s \in Seq(Int) /\ Len(s) = Mac!Size(f)
        /\ \A i \in 1..Mac!Size(f) : s[i] = MacByteAt(f, i)
    <3>1. MacGood(f)
      BY <1>3 DEF ML!Sound
    <3> QED
      BY <1>4, <1>10, <3>1, MacPlainIs
  <2> HIDE DEF t, s
  <2>4. ASSUME NEW i \in 1..n PROVE t[i] = IF i <= Len(s) THEN s[i] ELSE 0
    <3>1. i \in Nat /\ 1 <= i
      BY <1>2
    <3>2. t[i] = ML!ByteOr0(f, i)
      BY <2>1, <2>2
    <3> QED
      BY <1>3, <2>3, <3>1, <3>2 DEF ML!ByteOr0
  <2>5. t = Raw!Plain!Cut(s, n)
    BY ONLY <1>2, <2>2, <2>3, <2>4, CutOf
  <2>6. t = Mac!Plain!Cut(s, n)
    BY <2>5, SamePlain
  <2> QED
    BY <1>6, <1>9, <1>12, <2>6 DEF s, t
<1> QED
  BY <1>11, <1>12

\* Opened again, the file is as it was and nothing is cached (MACFileIO.cpp:59-78).
LEMMA MacReopens ==
    ASSUME MacInv, Mac!Reopen
    PROVE  MacInv' /\ MacPlain(MacRest)' = MacPlain(MacRest) /\ mRet' = Mac!Ok(Mac!NoCall)
<1> DEFINE f == [MacRest EXCEPT !.cblk = 0, !.cdata = <<>>]
<1>1. /\ mCache' = [blk |-> 0, data |-> <<>>] /\ mRet' = Mac!Ok(Mac!NoCall)
      /\ mVolume' = mVolume /\ mBase' = mBase
  BY DEF Mac!Reopen
<1>2. MacGood(MacRest) /\ mVolume \in MacVolumes /\ Mac!Size(MacRest) <= LayerSize
  BY MacRestIs
<1>3. f.base = MacRest.base /\ f.base = mBase /\ f.cblk = 0 /\ f.cdata = <<>>
  BY DEF MacRest, Mac!Current
<1>4. f \in MacSet
  <2>1. <<>> \in Seq(Int) /\ 0 \in 0..MacTop
    BY EmptySeq, MacPlenty DEF MacTop
  <2> QED
    BY <1>2, <2>1 DEF MacGood, MacSet
<1> HIDE DEF f
<1>5. MacGood(f)
  <2>1. Len(f.cdata) <= BS
    BY <1>3, EmptySeq, RBSIs
  <2> QED
    BY <1>2, <1>3, <1>4, <2>1 DEF MacGood, MacPart
<1>6. ML!Sound(f)
  BY <1>3, <1>5, ML!Uncached
<1>7. ML!Same(MacRest, f)
  BY <1>3, MacSameBase
<1>8. MacPlain(f) = MacPlain(MacRest) /\ Mac!Size(f) <= LayerSize
  BY <1>2, <1>7, MacSamePlain DEF ML!Same
<1>9. Mac!Commit(f)
  BY <1>1, <1>3 DEF Mac!Commit
<1> QED
  BY <1>1, <1>6, <1>8, <1>9, MacCommits

\* A byte altered below, the only one, is still known for what it was.
LEMMA MacAlters ==
    ASSUME MacInv, Mac!Alter
    PROVE  MacInv' /\ MacPlain(MacRest)' = MacPlain(MacRest) /\ mRet' = Mac!Ok(Mac!NoCall)
<1>1. PICK x \in 1..Len(mBase) :
        mBase' = [mBase EXCEPT ![x] = [sum |-> <<9>>, byte |-> 9, was |-> @.was]]
  BY DEF Mac!Alter
<1>2. /\ mVolume.mac /\ ~mVolume.warnOnly
      /\ \A i \in 1..Len(mBase) : ~Mac!Altered(mBase[i])
      /\ mVolume' = mVolume /\ mCache' = mCache /\ mRet' = Mac!Ok(Mac!NoCall)
  BY DEF Mac!Alter
<1> DEFINE e == MacRest
           c == [sum |-> <<9>>, byte |-> 9, was |-> mBase[x].was]
           b == [mBase EXCEPT ![x] = c]
           f == [MacRest EXCEPT !.base = b]
<1>3. /\ MacGood(e) /\ mVolume \in MacVolumes /\ Mac!Size(e) <= LayerSize /\ e \in MacSet
      /\ e.base = mBase /\ ML!Sound(e)
  BY MacRestIs DEF MacGood, MacRest, Mac!Current, MacInv
<1>4. mBase \in Seq(MacCell) /\ Len(mBase) \in Nat
  BY <1>3, LenProperties DEF MacSet
<1>5. mBase' = b
  BY <1>1
<1>6. c \in MacCell /\ c.was = mBase[x].was
  <2>1. <<9>> \in Seq(Int)
    OBVIOUS
  <2>2. mBase[x] \in MacCell
    BY <1>4, ElementOfSeq
  <2> QED
    BY <2>1, <2>2 DEF MacCell
<1> HIDE DEF c
<1>7. /\ b \in Seq(MacCell) /\ Len(b) = Len(mBase)
      /\ \A i \in 1..Len(mBase) : b[i] = IF i = x THEN c ELSE mBase[i]
  <2>1. mBase \in [1..Len(mBase) -> MacCell]
    BY <1>4, LenProperties
  <2>2. b \in [1..Len(mBase) -> MacCell]
    BY <1>6, <2>1
  <2>3. b \in Seq(MacCell)
    BY <1>4, <2>2, SeqDef
  <2>4. Len(b) = Len(mBase)
    BY <1>4, <2>2, <2>3, LenProperties
  <2> QED
    BY <2>1, <2>3, <2>4
<1> HIDE DEF b
<1>8. /\ f \in MacSet /\ f.base = b /\ f.cblk = e.cblk /\ f.cdata = e.cdata
  BY <1>3, <1>7 DEF MacSet
<1> HIDE DEF f, e
<1>9. \A i \in 1..Len(mBase) : b[i].was = mBase[i].was
  BY <1>6, <1>7
<1>10. Mac!Size(f) = Mac!Size(e) /\ Whole(f.base)
  <2>1. f.base = <<>> <=> e.base = <<>>
    BY <1>3, <1>4, <1>7, <1>8, EmptySeq
  <2>2. Len(f.base) = Len(e.base)
    BY <1>3, <1>7, <1>8
  <2> QED
    BY <1>3, <2>1, <2>2 DEF Mac!Size, Whole, MacGood
<1>11. AlteredOnce(f.base)
  <2>1. ASSUME NEW i \in 1..Len(b), Mac!Altered(b[i]) PROVE i = x
    BY <1>2, <1>7, <2>1
  <2> QED
    BY <1>2, <1>8, <2>1 DEF AlteredOnce
<1>12. ASSUME NEW k \in Nat, MacPart(f, k) # <<>> PROVE BlockFits(MacPart(f, k))
  <2> DEFINE p == MacPart(f, k)
             o == MacPart(e, k)
             t == k * RBS
  <2>1. /\ p \in Seq(MacCell) /\ t \in Nat
        /\ Len(p) = (IF Len(b) <= t THEN 0 ELSE Least(RBS, Len(b) - t))
        /\ \A i \in 1..Len(p) : p[i] = b[t + i] /\ t + i \in 1..Len(b)
    <3>1. f.base \in Seq(MacCell) /\ k \in Nat
      BY <1>7, <1>8
    <3>2. /\ p \in Seq(MacCell) /\ t \in Nat
          /\ Len(p) = (IF Len(f.base) <= t THEN 0 ELSE Least(RBS, Len(f.base) - t))
          /\ \A i \in 1..Len(p) : p[i] = f.base[t + i] /\ t + i \in 1..Len(f.base)
      BY ONLY <3>1, RawPartIs
    <3> HIDE DEF p, t
    <3> QED
      BY <1>8, <3>2
  <2>2. /\ o \in Seq(MacCell)
        /\ Len(o) = (IF Len(mBase) <= t THEN 0 ELSE Least(RBS, Len(mBase) - t))
        /\ \A i \in 1..Len(o) : o[i] = mBase[t + i] /\ t + i \in 1..Len(mBase)
    BY <1>3, <1>4, RawPartIs
  <2>3. p # <<>>
    BY <1>12
  <2> HIDE DEF p, o, t
  <2>4. Len(o) = Len(p) /\ Len(p) \in Nat \ {0}
    BY <1>7, <2>1, <2>2, <2>3, EmptySeq, LenProperties
  <2>5. o # <<>>
    BY <2>2, <2>4, EmptySeq
  <2>6. BlockFits(o)
    BY <1>3, <2>5 DEF MacGood, o
  <2>7. \A i \in 1..Len(p) : p[i].was = o[i].was /\ (p[i] = o[i] \/ p[i] = c)
    BY <1>7, <1>9, <2>1, <2>2, <2>4
  <2>8. 1 \in 1..Len(p) /\ \A i \in 1..(Len(p) - 1) : i + 1 \in 1..Len(p)
    BY <2>4
  <2>9. WasOf(p) = WasOf(o)
    BY <2>4, <2>7, <2>8 DEF WasOf
  <2>10. p[1].was = o[1].was /\ (p[1] = o[1] \/ p[1] = c)
    BY <2>7, <2>8
  <2>11. CASE p[1] = o[1]
    BY <2>4, <2>6, <2>7, <2>9, <2>11 DEF BlockFits, p
  <2>12. CASE p[1] = c
    <3>1. o[1].was \in {0, 1}
      BY <2>6 DEF BlockFits
    <3>2. Mac!Altered(p[1])
      BY <2>10, <2>12, <3>1 DEF Mac!Altered, c
    <3> QED
      BY <2>10, <3>1, <3>2 DEF BlockFits, p
  <2> QED
    BY <2>10, <2>11, <2>12 DEF p
<1>13. MacGood(f)
  BY <1>3, <1>8, <1>10, <1>11, <1>12 DEF MacGood
<1>14. ML!Same(e, f)
  <2>1. ASSUME NEW i \in 1..Mac!Size(e) PROVE MacByteAt(f, i) = MacByteAt(e, i)
    <3> DEFINE k == (i - 1) \div BS
               j == ((i - 1) % BS) + 1
               y == k * RBS + 1 + j
    <3>0. Mac!Size(e) \in Nat /\ e.base \in Seq(MacCell) /\ Whole(e.base)
      BY <1>3, LenIs DEF MacGood, MacSet
    <3>1. i \in Nat \ {0} /\ i <= Mac!Size(e)
      BY <3>0
    <3>2. k \in Nat /\ j \in 1..BS /\ i = k * BS + j
      BY <3>1, ByteIn
    <3> HIDE DEF k, j
    <3>3. MacByteAt(f, i) = b[y].was /\ MacByteAt(e, i) = mBase[y].was
      BY <1>3, <1>8, <3>2, CellIs
    <3>4. k * BS + j <= Mac!Size(e) <=> y <= Len(e.base)
      BY <3>0, <3>2, LenOrder
    <3>5. y \in Nat \ {0}
      <4>1. k * RBS \in Nat /\ j \in Nat
        BY <3>2, HeaderEach
      <4> QED
        BY <4>1
    <3> HIDE DEF y
    <3>6. y \in 1..Len(mBase)
      BY <1>3, <1>4, <3>1, <3>2, <3>4, <3>5
    <3> QED
      BY <1>9, <3>3, <3>6
  <2> QED
    BY <1>10, <2>1 DEF ML!Same
<1>15. ML!Sound(f)
  BY <1>3, <1>8, <1>13, <1>14, MacKeeps, ML!StillCached
<1>16. MacPlain(f) = MacPlain(e) /\ Mac!Size(f) <= LayerSize
  BY <1>3, <1>10, <1>14, MacSamePlain
<1>17. Mac!Commit(f)
  <2>1. mCache = [blk |-> mCache.blk, data |-> mCache.data]
    BY DEF MacInv
  <2> QED
    BY <1>2, <1>5, <1>8, <2>1 DEF Mac!Commit, MacRest, Mac!Current, e
<1> QED
  BY <1>2, <1>15, <1>16, <1>17, MacCommits DEF e

----------------------------------------------------------------------------
(* The data bytes of the file below.                                       *)

\* Where the byte k lies: after as many headers as blocks were begun.
MacAt(k) == k + ((k - 1) \div BS + 1)

\* Where the data bytes lie.
LEMMA MacAtIs ==
    ASSUME NEW b \in Nat, NEW j \in 1..BS
    PROVE  /\ MacAt(b * BS + j) = b * RBS + 1 + j
           /\ ((b * RBS + 1 + j) - 1) % RBS = j /\ ((b * RBS + 1 + j) - 1) \div RBS = b
<1> DEFINE at == b * BS
           to == b * RBS
           r == j - 1
           m == (at + j) - 1
           x == (to + 1 + j) - 1
<1>1. at \in Nat /\ to \in Nat /\ to = at + b /\ j \in Nat /\ BS \in Nat \ {0}
      /\ RBS \in Nat \ {0} /\ RBS = BS + 1 /\ j <= BS /\ 1 <= j
  BY HeaderEach, RBSIs
<1>2. m \in Nat /\ r \in Nat /\ r < BS /\ m = at + r
  BY <1>1
<1>3. x \in Nat /\ j < RBS /\ x = to + j
  BY <1>1
<1> HIDE DEF m, r, x
<1>4. m \div BS = b
  BY <1>1, <1>2, ML!DivUnique
<1>5. x \div RBS = b /\ x % RBS = j
  BY <1>1, <1>3, ML!DivUnique
<1>6. MacAt(at + j) = at + j + (b + 1)
  <2> HIDE DEF at
  <2>1. MacAt(at + j) = at + j + (((at + j) - 1) \div BS + 1)
    BY DEF MacAt
  <2>2. ((at + j) - 1) \div BS = b
    BY <1>4 DEF m
  <2> QED
    BY <2>1, <2>2
<1>7. at + j + (b + 1) = to + 1 + j
  <2> HIDE DEF at, to
  <2> QED
    BY <1>1
<1> QED
  BY <1>5, <1>6, <1>7 DEF x

\* The data bytes below are those between the headers,
MacData(f) == {i \in 1..Len(f.base) : (i - 1) % RBS >= 1}

\* as many as the size.
LEMMA MacDataIs ==
    ASSUME NEW f, f.base \in Seq(MacCell), Whole(f.base)
    PROVE  Cardinality(MacData(f)) = Mac!Size(f)
<1> DEFINE n == Mac!Size(f)
           len == Len(f.base)
           D == MacData(f)
           g == [k \in 1..n |-> MacAt(k)]
<1>1. n \in Nat /\ len \in Nat
  BY LenIs, LenProperties
<1>2. ASSUME NEW b \in Nat, NEW j \in 1..BS
      PROVE  b * BS + j <= n <=> b * RBS + 1 + j <= len
  BY LenOrder
<1> HIDE DEF n, len
<1>3. ASSUME NEW k \in 1..n
      PROVE  \E b \in Nat, j \in 1..BS :
               /\ k = b * BS + j /\ MacAt(k) = b * RBS + 1 + j
               /\ MacAt(k) \in 1..len /\ (MacAt(k) - 1) % RBS = j /\ (MacAt(k) - 1) \div RBS = b
  <2> DEFINE b == (k - 1) \div BS
             j == ((k - 1) % BS) + 1
             x == b * RBS + 1 + j
  <2>1. k \in Nat \ {0}
    BY <1>1
  <2>2. b \in Nat /\ j \in 1..BS /\ k = b * BS + j
    BY <2>1, ByteIn
  <2> HIDE DEF b, j
  <2>3. MacAt(k) = x /\ (x - 1) % RBS = j /\ (x - 1) \div RBS = b
    <3>1. b \in Nat /\ j \in 1..BS
      BY <2>2
    <3>2. /\ MacAt(b * BS + j) = b * RBS + 1 + j
          /\ ((b * RBS + 1 + j) - 1) % RBS = j /\ ((b * RBS + 1 + j) - 1) \div RBS = b
      BY ONLY <3>1, MacAtIs
    <3>3. MacAt(k) = MacAt(b * BS + j)
      BY <2>2
    <3> QED
      BY <3>2, <3>3, Zenon
  <2>4. x \in Nat \ {0}
    <3>1. b * RBS \in Nat /\ j \in Nat
      BY <2>2, HeaderEach
    <3> QED
      BY <3>1
  <2>5. x <= len
    BY <1>1, <1>2, <2>2
  <2> HIDE DEF x
  <2>6. x \in 1..len
    BY <1>1, <2>4, <2>5
  <2> QED
    BY <2>2, <2>3, <2>6 DEF x
<1>4. g \in [1..n -> D]
  <2>1. ASSUME NEW k \in 1..n PROVE MacAt(k) \in D
    <3>1. PICK j \in 1..BS : MacAt(k) \in 1..len /\ (MacAt(k) - 1) % RBS = j
      BY <1>3
    <3>2. j >= 1
      BY <3>1
    <3> QED
      BY <3>1, <3>2 DEF MacData, len
  <2> HIDE DEF D
  <2> QED
    BY <2>1
<1>5. ASSUME NEW k \in 1..n, NEW l \in 1..n, g[k] = g[l] PROVE k = l
  <2>1. MacAt(k) = MacAt(l)
    BY <1>5
  <2>2. PICK b \in Nat, j \in 1..BS :
          k = b * BS + j /\ (MacAt(k) - 1) % RBS = j /\ (MacAt(k) - 1) \div RBS = b
    BY <1>3
  <2>3. PICK c \in Nat, i \in 1..BS :
          l = c * BS + i /\ (MacAt(l) - 1) % RBS = i /\ (MacAt(l) - 1) \div RBS = c
    BY <1>3
  <2>4. b = c /\ j = i
    BY <2>1, <2>2, <2>3
  <2> QED
    BY <2>2, <2>3, <2>4
<1>6. ASSUME NEW x \in D PROVE \E k \in 1..n : g[k] = x
  <2> DEFINE m == x - 1
             b == m \div RBS
             j == m % RBS
             at == b * BS
             k == at + j
  <2>1. x \in 1..len /\ j >= 1
    BY DEF MacData, len
  <2>2. m \in Nat /\ x = m + 1
    BY <1>1, <2>1
  <2> HIDE DEF m
  <2>3. b \in Nat /\ j \in Nat /\ j < RBS /\ m = b * RBS + j
    BY <2>2, RBSIs, SplitIs
  <2> HIDE DEF b, j
  <2>4. j \in 1..BS /\ at \in Nat /\ b * RBS \in Nat
    BY <2>1, <2>3, RBSIs, HeaderEach
  <2>5. x = b * RBS + 1 + j
    <3> DEFINE to == b * RBS
    <3>1. to \in Nat /\ m = to + j
      BY <2>3, <2>4
    <3> HIDE DEF to
    <3>2. x = to + 1 + j
      BY <2>2, <2>3, <3>1
    <3> QED
      BY <3>2 DEF to
  <2>6. k <= n
    BY <1>1, <1>2, <2>1, <2>3, <2>4, <2>5
  <2>7. MacAt(k) = x
    BY <2>3, <2>4, <2>5, MacAtIs
  <2> HIDE DEF at
  <2>8. k \in 1..n
    BY <1>1, <2>3, <2>4, <2>6
  <2> QED
    BY <2>7, <2>8
<1> HIDE DEF g, D
<1>7. g \in Bijection(1..n, D)
  <2>1. g \in Injection(1..n, D)
    BY <1>4, <1>5 DEF Injection, IsInjective
  <2>2. g \in Surjection(1..n, D)
    BY <1>4, <1>6 DEF Surjection
  <2> QED
    BY <2>1, <2>2 DEF Bijection
<1>8. Cardinality(D) = n
  <2>1. ExistsBijection(1..n, D)
    BY <1>7 DEF ExistsBijection
  <2> QED
    BY <1>1, <2>1, FS_CountingElements
<1> QED
  BY <1>8 DEF D, n

\* Counting is the same there.
LEMMA MacCounts ==
    ASSUME NEW S PROVE Mac!Cardinality(S) = Cardinality(S)
BY DEF Mac!Cardinality, Cardinality

\* The content PlainFile is told of is the plain bytes.
LEMMA MacContentIs ==
    ASSUME MacInv
    PROVE  /\ Mac!Content = MacPlain(MacRest)
           /\ Cardinality(Mac!DataAt) = Mac!Size(MacRest)
<1>1. MacGood(MacRest) /\ MacRest.base = mBase
  BY MacRestIs DEF MacRest, Mac!Current
<1>2. Mac!DataAt = MacData(MacRest)
  BY <1>1 DEF Mac!DataAt, MacData, Mac!RBS, RBS
<1>3. Cardinality(Mac!DataAt) = Mac!Size(MacRest)
  BY <1>1, <1>2, MacDataIs DEF MacGood, MacSet
<1> DEFINE n == Mac!Size(MacRest)
<1>4. ASSUME NEW k \in 1..n
      PROVE  mBase[k + ((k - 1) \div BS + 1) * 1].was = MacByteAt(MacRest, k)
  <2>1. k \in Nat \ {0}
    BY MacRestIs
  <2> DEFINE b == (k - 1) \div BS
  <2>2. b \in Nat
    BY <2>1, ByteIn
  <2> HIDE DEF b
  <2>3. k + (b + 1) * 1 = k + b + 1
    BY <2>1, <2>2
  <2> QED
    BY <1>1, <2>3 DEF MacByteAt, b
<1>5. Mac!Content = [k \in 1..n |-> mBase[k + ((k - 1) \div BS + 1) * 1].was]
  <2>1. Mac!Content = [k \in 1..Mac!Cardinality(Mac!DataAt) |->
                         mBase[k + ((k - 1) \div BS + 1) * 1].was]
    BY Zenon DEF Mac!Content
  <2> QED
    BY <1>3, <2>1, MacCounts, Zenon
<1>6. MacPlain(MacRest) = [k \in 1..n |-> MacByteAt(MacRest, k)]
  BY DEF MacPlain
<1> HIDE DEF n
<1>7. Mac!Content = MacPlain(MacRest)
  BY <1>4, <1>5, <1>6
<1> QED
  BY <1>3, <1>7

----------------------------------------------------------------------------
(* MACFileIO's invariant, and what follows.                                *)

\* A file that was just made.
LEMMA MacInitial ==
    ASSUME Mac!Init PROVE MacInv /\ MacPlain(MacRest) = <<>>
<1> DEFINE e == MacRest
<1>1. /\ mVolume \in MacVolumes /\ mBase = <<>> /\ mCache = [blk |-> 0, data |-> <<>>]
  BY DEF Mac!Init
<1>2. /\ e.base = <<>> /\ e.cblk = 0 /\ e.cdata = <<>>
  BY <1>1 DEF MacRest, Mac!Current
<1>3. <<>> \in Seq(Int) /\ <<>> \in Seq(MacCell) /\ Len(<<>>) = 0 /\ 0 \in 0..LayerSize
  BY EmptySeq, LayerAssumption
<1>4. e \in MacSet
  BY <1>1, <1>3 DEF MacSet, MacTop, MacRest, Mac!Current
<1>5. mCache \in [blk : 0..LayerSize, data : Seq(Int)]
  BY <1>1, <1>3
<1> HIDE DEF e
<1>6. \A k \in Nat : MacPart(e, k) = <<>>
  <2>1. ASSUME NEW k \in Nat PROVE MacPart(e, k) = <<>>
    <3>1. /\ MacPart(e, k) \in Seq(MacCell) /\ k * RBS \in Nat
          /\ Len(MacPart(e, k)) = (IF Len(e.base) <= k * RBS THEN 0
                                   ELSE Least(RBS, Len(e.base) - k * RBS))
      BY <1>2, <1>3, RawPartIs
    <3> DEFINE to == k * RBS
    <3>2. Len(e.base) <= to /\ to \in Nat
      BY <1>2, <1>3, <3>1
    <3> HIDE DEF to
    <3>3. Len(MacPart(e, k)) = 0
      BY <3>1, <3>2 DEF to
    <3> QED
      BY <3>1, <3>3, EmptySeq
  <2> QED
    BY <2>1
<1>7. Whole(e.base) /\ Mac!Size(e) = 0
  <2>1. 0 % RBS = 0
    BY RBSIs
  <2> QED
    BY <1>2, <1>3, <2>1 DEF Whole, Mac!Size
<1>8. AlteredOnce(e.base)
  BY <1>2, <1>3 DEF AlteredOnce
<1>9. MacGood(e)
  BY <1>2, <1>3, <1>4, <1>6, <1>7, <1>8, RBSIs DEF MacGood
<1>10. ML!Sound(e)
  BY <1>2, <1>9, ML!Uncached
<1>11. MacPlain(e) = <<>>
  <2>1. MacPlain(e) \in Seq(Int) /\ Len(MacPlain(e)) = 0
    BY <1>1, <1>7, <1>9, MacPlainIs
  <2> QED
    BY <2>1, EmptySeq
<1> QED
  BY <1>1, <1>5, <1>7, <1>10, <1>11, LayerAssumption DEF MacInv, e

\* A step of another layer.
LEMMA MacUnchanged ==
    ASSUME MacInv, UNCHANGED macVars
    PROVE  MacInv' /\ MacPlain(MacRest)' = MacPlain(MacRest)
<1>1. Mac!Commit(MacRest)
  <2>1. mCache = [blk |-> mCache.blk, data |-> mCache.data]
    BY DEF MacInv
  <2> QED
    BY <2>1 DEF Mac!Commit, MacRest, Mac!Current, macVars
<1>2. ML!Sound(MacRest) /\ Mac!Size(MacRest) <= LayerSize
  BY DEF MacInv
<1> QED
  BY <1>1, <1>2, MacCommits

\* The run's steps are those of MacFile, or leave it alone.
LEMMA MacSteps ==
    ASSUME [MCNext]_<<layer, vars, macVars, rawVars>>
    PROVE  [Mac!Next]_macVars
<1>1. CASE layer = "block" /\ Next /\ UNCHANGED <<layer, macVars, rawVars>>
  BY <1>1
<1>2. CASE layer = "mac" /\ Mac!Next /\ UNCHANGED <<layer, vars, rawVars>>
  BY <1>2
<1>3. CASE layer = "raw" /\ Raw!Next /\ UNCHANGED <<layer, vars, macVars>>
  BY <1>3
<1>4. CASE UNCHANGED <<layer, vars, macVars, rawVars>>
  BY <1>4
<1> QED
  BY <1>1, <1>2, <1>3, <1>4 DEF MCNext

\* The inductive invariant of MACFileIO: the cache is true, every block has the MAC of
\* what was written in it or is a hole, and at most one byte is altered.
THEOREM MacInvariant == MCSpec => []MacInv
<1>1. MCInit => MacInv
  BY MacInitial DEF MCInit
<1>2. MacInv /\ [MCNext]_<<layer, vars, macVars, rawVars>> => MacInv'
  <2> SUFFICES ASSUME MacInv, [Mac!Next]_macVars PROVE MacInv'
    BY MacSteps
  <2>1. CASE Mac!Read
    BY <2>1, MacReadIs
  <2>2. CASE Mac!Write
    BY <2>2, MacWriteIs
  <2>3. CASE Mac!Truncate
    BY <2>3, MacTruncates
  <2>4. CASE Mac!Reopen
    BY <2>4, MacReopens
  <2>5. CASE Mac!Alter
    BY <2>5, MacAlters
  <2>6. CASE UNCHANGED macVars
    BY <2>6, MacUnchanged
  <2> QED
    BY <2>1, <2>2, <2>3, <2>4, <2>5, <2>6 DEF Mac!Next
<1> QED
  BY <1>1, <1>2, PTL DEF MCSpec

\* MacSound: the sizes with and without headers agree with the bytes there are, and no
\* block is refused that was not altered, after any sequence of calls that succeed or
\* fail (MACFileIO.cpp:107-158, 160-288).
THEOREM MacAlwaysSound == MCSpec => []MacSound
<1>1. MacInv => MacSound
  <2> SUFFICES ASSUME MacInv PROVE MacSound
    OBVIOUS
  <2>1. /\ MacGood(MacRest) /\ MacRest.base = mBase /\ mBase \in Seq(MacCell) /\ Whole(mBase)
    BY MacRestIs DEF MacRest, Mac!Current, MacGood, MacSet
  <2>2. Mac!SizesAgree
    <3>1. Mac!Size(MacRest) = Cardinality(Mac!DataAt)
      BY MacContentIs
    <3>2. Mac!LocWithHeader(Mac!Size(MacRest)) = Len(mBase)
      BY <2>1, LenIs
    <3> QED
      BY <3>1, <3>2, MacCounts DEF Mac!SizesAgree, MacRest
  <2>3. Mac!NoFalseAlarm
    <3>1. ASSUME NEW blk \in 0..LayerSize,
                 Len(MacPart(MacRest, blk)) > 1,
                 \A i \in 1..Len(MacPart(MacRest, blk)) : ~Mac!Altered(MacPart(MacRest, blk)[i])
          PROVE  Mac!SkipCheck(MacPart(MacRest, blk)) \/ Mac!MacAgrees(MacPart(MacRest, blk))
      <4>1. blk \in Nat
        BY LayerAssumption
      <4>2. MacPart(MacRest, blk) # <<>>
        BY <3>1, EmptySeq
      <4> QED
        BY <2>1, <3>1, <4>1, <4>2, NotAlarmed
    <3>2. ASSUME NEW blk
          PROVE  SubSeq(mBase, blk * Mac!RBS + 1, Mac!Least(blk * Mac!RBS + Mac!RBS, Len(mBase)))
                   = MacPart(MacRest, blk)
      BY <2>1 DEF MacPart, Mac!RBS, RBS, Mac!Least, Least
    <3> QED
      BY <3>1, <3>2, Zenon DEF Mac!NoFalseAlarm
  <2> QED
    BY <2>2, <2>3 DEF MacSound
<1> QED
  BY <1>1, MacInvariant, PTL

\* MacFile is a plain file to the layer above it: whatever was written is read again
\* unless the call fails, so no altered byte is ever read or merged into what is
\* written, for blocks of any size and files of any length (MACFileIO.cpp:160-318).
THEOREM MacIsPlain == MCSpec => Mac!IsPlainFile
<1>1. MCInit => Mac!Plain!Init
  <2> SUFFICES ASSUME MCInit PROVE Mac!Plain!Init
    OBVIOUS
  <2>1. MacInv /\ MacPlain(MacRest) = <<>> /\ mRet = Mac!Ok(Mac!NoCall)
    BY MacInitial DEF MCInit, Mac!Init
  <2>2. Mac!Content = <<>>
    BY <2>1, MacContentIs
  <2> QED
    BY <2>1, <2>2 DEF Mac!Plain!Init, Mac!Plain!Ok, Mac!Plain!Gave, Mac!Plain!NoCall,
                      Mac!Ok, Mac!Gave, Mac!NoCall
<1>2. MacInv /\ MacInv' /\ [MCNext]_<<layer, vars, macVars, rawVars>>
        => [Mac!Plain!Next]_Mac!Plain!vars
  <2> SUFFICES ASSUME MacInv, MacInv', [Mac!Next]_macVars
               PROVE  [Mac!Plain!Next]_Mac!Plain!vars
    BY MacSteps
  <2> DEFINE now == MacPlain(MacRest)
             then == MacPlain(MacRest)'
  <2>1. Mac!Content = now
    BY MacContentIs
  <2>2. Mac!Content' = then
    <3>1. MacInv => Mac!Content = MacPlain(MacRest)
      BY MacContentIs
    <3>2. (MacInv => Mac!Content = MacPlain(MacRest))'
      BY MacContentIs, PTL
    <3> QED
      BY <3>2
  <2> HIDE DEF now, then
  <2>3. CASE Mac!Read
    <3>1. PICK off \in 0..LayerSize, n \in LayerSizes :
            /\ then = now
            /\ \/ mRet' = Mac!Failed(<<"read", off, n>>)
               \/ mRet' = Mac!Gave(<<"read", off, n>>, Mac!Plain!Slice(now, off, n))
      BY <2>3, MacReadIs DEF now, then
    <3>2. Mac!Plain!Read(off, n)
      BY <2>1, <2>2, <3>1 DEF Mac!Plain!Read, Mac!Plain!Gave, Mac!Plain!Failed, Mac!Gave, Mac!Failed
    <3> QED
      BY <3>2 DEF Mac!Plain!Next
  <2>4. CASE Mac!Write
    <3>1. PICK off \in 0..LayerSize, data \in Data :
            \/ /\ mRet' = Mac!Ok(<<"write", off, data>>)
               /\ then = Mac!Plain!Overlay(now, off, data)
            \/ /\ mRet' = Mac!Failed(<<"write", off, data>>)
               /\ \E m \in 0..(off + Len(data)) :
                    then = Mac!Plain!UpTo(m, Mac!Plain!Overlay(now, off, data), now)
      BY <2>4, MacWriteIs DEF now, then
    <3>2. Mac!Plain!Write(off, data)
      BY <2>1, <2>2, <3>1
         DEF Mac!Plain!Write, Mac!Plain!Ok, Mac!Plain!Gave, Mac!Plain!Failed, Mac!Ok, Mac!Gave,
             Mac!Failed
    <3> QED
      BY <3>2 DEF Mac!Plain!Next
  <2>5. CASE Mac!Truncate
    <3>1. PICK n \in 0..LayerSize :
            \/ mRet' = Mac!Ok(<<"truncate", n>>) /\ then = Mac!Plain!Cut(now, n)
            \/ mRet' = Mac!Failed(<<"truncate", n>>) /\ then = now
      BY <2>5, MacTruncates DEF now, then
    <3>2. Mac!Plain!Truncate(n)
      BY <2>1, <2>2, <3>1
         DEF Mac!Plain!Truncate, Mac!Plain!Ok, Mac!Plain!Gave, Mac!Plain!Failed, Mac!Ok,
             Mac!Gave, Mac!Failed
    <3> QED
      BY <3>2 DEF Mac!Plain!Next
  <2>6. CASE Mac!Reopen \/ Mac!Alter
    <3>1. then = now /\ mRet' = Mac!Ok(Mac!NoCall)
      BY <2>6, MacReopens, MacAlters DEF now, then
    <3>2. Mac!Plain!Other
      BY <2>1, <2>2, <3>1
         DEF Mac!Plain!Other, Mac!Plain!Ok, Mac!Plain!Gave, Mac!Plain!NoCall, Mac!Ok,
             Mac!Gave, Mac!NoCall
    <3> QED
      BY <3>2 DEF Mac!Plain!Next
  <2>7. CASE UNCHANGED macVars
    <3>1. then = now /\ mRet' = mRet
      BY <2>7, MacUnchanged DEF now, then, macVars
    <3> QED
      BY <2>1, <2>2, <3>1 DEF Mac!Plain!vars
  <2> QED
    BY <2>3, <2>4, <2>5, <2>6, <2>7 DEF Mac!Next
<1> QED
  BY <1>1, <1>2, MacInvariant, PTL DEF MCSpec, Mac!IsPlainFile, Mac!Plain!Spec

\* MacFile and RawFile are plain files to the layers above them.
THEOREM LayersAlwaysPlain == MCSpec => LayersArePlain
BY MacIsPlain, RawIsPlain DEF LayersArePlain

----------------------------------------------------------------------------
(* CipherFileIO as a layer of BlockIO_Proofs: its plain bytes are what the  *)
(* blocks on disk decode to.                                               *)

CipherGood(f) == Well(f) /\ Ready(f, 1) /\ f.cblk <= MaxSize
CipherByte(f, i) == Block(f, (i - 1) \div BS)[((i - 1) % BS) + 1]
CipherReads(f) == IF Unread(f) /\ f.hdr # NoHdr THEN f.reads - 2 ELSE f.reads
CipherWrites(f) == IF Unread(f) /\ f.hdr = NoHdr THEN f.left - 1 ELSE f.left
CipherStays(f, g) ==
    /\ g.ext = f.ext /\ g.cuts = f.cuts /\ g.uncut = f.uncut
    /\ ~Unread(f) => ~Unread(g)

CL == INSTANCE BlockIO_Proofs
        WITH AllowHoles <- volume.holes, SizeOf <- Size, ReadOne <- ReadOneBlock,
             WriteOne <- WriteOneBlock, CutBase <- CutRaw, Good <- CipherGood,
             ByteAt <- CipherByte, Reads <- CipherReads, Writes <- CipherWrites,
             Stays <- CipherStays, Top <- MaxSize

\* A byte of a block,
LEMMA CipherByteIs ==
    ASSUME NEW f, NEW b \in Nat, NEW j \in 1..BS
    PROVE  CipherByte(f, b * BS + j) = Block(f, b)[j]
<1> DEFINE at == b * BS
           i == at + j
           m == i - 1
           r == j - 1
<1>1. at \in Nat /\ j \in Nat /\ j >= 1 /\ j <= BS /\ BS \in Nat \ {0}
  BY BlockAssumption
<1>2. m \in Nat /\ r \in Nat /\ r < BS /\ m = at + r /\ r + 1 = j
  <2> HIDE DEF at
  <2> QED
    BY <1>1
<1> HIDE DEF m, r
<1>3. m \div BS = b /\ m % BS = r
  BY <1>1, <1>2, CL!DivUnique
<1> QED
  BY <1>2, <1>3 DEF CipherByte, m

\* and where it is.
LEMMA CipherByteIn ==
    ASSUME NEW i \in Nat \ {0}
    PROVE  LET b == (i - 1) \div BS
               j == ((i - 1) % BS) + 1
           IN b \in Nat /\ j \in 1..BS /\ i = b * BS + j /\ b * BS \in Nat
<1> DEFINE m == i - 1
           b == m \div BS
           r == m % BS
           at == b * BS
<1>1. m \in Nat /\ BS \in Nat \ {0}
  BY BlockAssumption
<1> HIDE DEF m
<1>2. b \in Nat /\ r \in Nat /\ r < BS /\ m = at + r
  BY <1>1, SplitIs
<1>3. at \in Nat
  BY <1>1, <1>2, StepsOf
<1> HIDE DEF b, r, at
<1>4. r + 1 \in 1..BS /\ i = at + (r + 1)
  BY <1>1, <1>2, <1>3 DEF m
<1> QED
  BY <1>2, <1>3, <1>4 DEF at, b, r, m

\* What there is of a block.
LEMMA CipherHas ==
    ASSUME NEW f, f.raw \in Seq(Cell), NEW b \in Nat
    PROVE  LET has == CL!Has(f, b)
           IN /\ has \in Nat /\ has <= BS /\ Len(Part(f, b)) = has /\ b * BS \in Nat
              /\ has # 0 <=> Part(f, b) # <<>>
              /\ has # 0 <=> b * BS < Len(f.raw)
              /\ \A j \in 1..BS : j \in 1..has <=> b * BS + j \in 1..Len(f.raw)
              /\ Len(f.raw) = Size(f) /\ Len(f.raw) \in Nat
<1> DEFINE has == CL!Has(f, b)
           at == b * BS
           n == Len(f.raw)
           p == Part(f, b)
<1>1. /\ at \in Nat /\ n \in Nat /\ p \in Seq(Cell)
      /\ Len(p) = (IF n <= at THEN 0 ELSE Least(BS, n - at))
  BY PartOf
<1>2. has = IF n <= at THEN 0 ELSE Least(BS, n - at)
  BY DEF CL!Has, CL!Least, Least, Size
<1>3. BS \in Nat \ {0}
  BY BlockAssumption
<1>4. Len(p) # 0 <=> p # <<>>
  BY <1>1, EmptySeq
<1>5. n = Size(f)
  BY DEF Size
<1> HIDE DEF has, at, n, p
<1>6. /\ has \in Nat /\ has <= BS /\ Len(p) = has /\ (has # 0 <=> at < n)
      /\ \A j \in 1..BS : j \in 1..has <=> at + j \in 1..n
  BY <1>1, <1>2, <1>3 DEF Least
<1> QED
  BY <1>1, <1>4, <1>5, <1>6 DEF has, at, n, p

\* The bytes of a block are those of the file.
LEMMA CipherBlockIs ==
    ASSUME NEW f, f.raw \in Seq(Cell), NEW b \in Nat, Part(f, b) # <<>>
    PROVE  CL!IsPart(Block(f, b), f, b * BS, CL!Has(f, b))
<1> DEFINE d == Block(f, b)
           has == CL!Has(f, b)
<1>1. d \in Seq(Int) /\ Len(d) = Len(Part(f, b))
  BY BlockIs
<1>2. Len(Part(f, b)) = has /\ has \in Nat /\ has <= BS
  BY CipherHas
<1>3. ASSUME NEW j \in 1..has PROVE d[j] = CipherByte(f, b * BS + j)
  <2>1. j \in 1..BS
    <3> HIDE DEF has
    <3>1. BS \in Nat
      BY BlockAssumption
    <3> QED
      BY <1>2, <3>1
  <2> QED
    BY <2>1, CipherByteIs
<1> HIDE DEF d, has
<1>4. CL!IsPart(d, f, b * BS, has)
  BY <1>1, <1>2, <1>3 DEF CL!IsPart
<1> QED
  BY <1>4 DEF d, has

\* Nothing else is.
LEMMA CipherBlockOnly ==
    ASSUME NEW f, f.raw \in Seq(Cell), NEW b \in Nat, Part(f, b) # <<>>,
           NEW s, CL!IsPart(s, f, b * BS, CL!Has(f, b))
    PROVE  s = Block(f, b)
<1> DEFINE d == Block(f, b)
           has == CL!Has(f, b)
<1>1. /\ d \in Seq(Int) /\ Len(d) = has /\ has \in Nat
      /\ \A j \in 1..has : d[j] = CipherByte(f, b * BS + j)
  BY CipherBlockIs, CipherHas DEF CL!IsPart
<1>2. /\ s \in Seq(Int) /\ Len(s) = has /\ \A j \in 1..has : s[j] = CipherByte(f, b * BS + j)
  BY DEF CL!IsPart
<1> HIDE DEF d, has
<1>3. Len(s) = Len(d) /\ \A j \in 1..Len(s) : s[j] = d[j]
  BY <1>1, <1>2
<1>4. s = d
  BY <1>1, <1>2, <1>3, SeqEqual
<1> QED
  BY <1>4 DEF d

\* A cache that is true here is true there.
LEMMA CachedIs ==
    ASSUME NEW f, Well(f)
    PROVE  CL!Cached(f) <=> Cached(f)
<1>1. f.raw \in Seq(Cell) /\ f.cblk \in Nat
  BY DEF Well, FileSet
<1> DEFINE b == f.cblk
           at == b * BS
<1>2. /\ Len(f.raw) = Size(f)
      /\ CL!Has(f, b) # 0 <=> Part(f, b) # <<>>
      /\ CL!Has(f, b) # 0 <=> at < Len(f.raw)
  BY <1>1, CipherHas
<1>3. Part(f, b) # <<>> => (CL!IsPart(f.cdata, f, at, CL!Has(f, b)) <=> f.cdata = Block(f, b))
  BY <1>1, CipherBlockIs, CipherBlockOnly
<1>4. CL!Coherent(f) <=> (f.cdata # <<>> /\ at < Size(f) => CL!IsPart(f.cdata, f, at, CL!Has(f, b)))
  BY DEF CL!Coherent
<1>5. Coherent(f) <=> (f.cdata # <<>> /\ at < Len(f.raw) => f.cdata = Block(f, b))
  BY DEF Coherent
<1>6. CL!Within(f) <=> Within(f)
  BY <1>2 DEF CL!Within, Within
<1> HIDE DEF b, at
<1> QED
  BY <1>2, <1>3, <1>4, <1>5, <1>6 DEF CL!Cached, Cached

\* A byte is an integer.
LEMMA CipherBytes ==
    ASSUME NEW f, f.raw \in Seq(Cell), NEW i \in 1..Len(f.raw)
    PROVE  CipherByte(f, i) \in Int
<1> DEFINE b == (i - 1) \div BS
           j == ((i - 1) % BS) + 1
<1>1. i \in Nat \ {0}
  BY LenProperties
<1>2. b \in Nat /\ j \in 1..BS /\ i = b * BS + j
  BY <1>1, CipherByteIn
<1> HIDE DEF b, j
<1>3. j \in 1..CL!Has(f, b) /\ Part(f, b) # <<>>
  <2>1. b * BS + j \in 1..Len(f.raw)
    BY <1>2
  <2>2. /\ j \in 1..CL!Has(f, b) /\ CL!Has(f, b) \in Nat
        /\ CL!Has(f, b) # 0 <=> Part(f, b) # <<>>
    BY <1>2, <2>1, CipherHas
  <2>3. CL!Has(f, b) # 0
    BY <1>2, <2>2, BlockAssumption
  <2> QED
    BY <2>2, <2>3
<1>4. CipherByte(f, i) = Block(f, b)[j]
  BY <1>2, CipherByteIs
<1>5. Block(f, b) \in Seq(Int) /\ j \in 1..Len(Block(f, b))
  BY <1>2, <1>3, CipherBlockIs DEF CL!IsPart
<1> QED
  BY <1>4, <1>5, ElementOfSeq

----------------------------------------------------------------------------
(* CipherFileIO keeps what BlockIO_Proofs asks of a layer.                 *)

\* A file has its types.
LEMMA CipherTypes ==
    ASSUME volume \in Volumes
    PROVE  CL!LayerTyped
<1>1. BS \in Nat \ {0} /\ volume.holes \in BOOLEAN /\ MaxSize \in Nat
  BY BlockAssumption
<1>2. ASSUME NEW f, CipherGood(f)
      PROVE  /\ Size(f) \in Nat /\ CipherReads(f) \in Int /\ CipherWrites(f) \in Nat
             /\ f.cblk \in Nat /\ f.cdata \in Seq(Int) /\ Len(f.cdata) <= BS
             /\ f.ok \in BOOLEAN /\ f.threw \in BOOLEAN
             /\ \A i \in 1..Size(f) : CipherByte(f, i) \in Int
  <2>1. /\ f.raw \in Seq(Cell) /\ Len(f.cdata) <= BS
        /\ f.reads \in Nat /\ f.left \in Nat /\ f.cblk \in Nat /\ f.cdata \in Seq(Int)
        /\ f.ok \in BOOLEAN /\ f.threw = FALSE
    BY <1>2 DEF CipherGood, Well, FileSet
  <2>2. Size(f) = Len(f.raw) /\ Len(f.raw) \in Nat
    BY <2>1, LenProperties DEF Size
  <2>3. \A i \in 1..Size(f) : CipherByte(f, i) \in Int
    BY <2>1, <2>2, CipherBytes
  <2>4. CipherReads(f) \in Int /\ CipherWrites(f) \in Nat
    <3>1. Unread(f) /\ f.hdr = NoHdr => f.left > 0
      BY <1>2 DEF CipherGood, Ready
    <3> QED
      BY <2>1, <3>1 DEF CipherReads, CipherWrites
  <2> QED
    BY <2>1, <2>2, <2>3, <2>4
<1> QED
  BY <1>1, <1>2 DEF CL!LayerTyped

\* The bytes of a file are those on disk.
LEMMA SameRaw ==
    ASSUME NEW f, NEW g, g.raw = f.raw
    PROVE  /\ CL!Same(f, g) /\ Size(g) = Size(f)
           /\ \A i : CipherByte(g, i) = CipherByte(f, i)
           /\ \A b : Part(g, b) = Part(f, b) /\ Block(g, b) = Block(f, b)
<1>1. \A b : Part(g, b) = Part(f, b) /\ Block(g, b) = Block(f, b)
  BY DEF Part, Block
<1>2. Size(g) = Size(f) /\ \A i : CipherByte(g, i) = CipherByte(f, i)
  BY <1>1 DEF Size, CipherByte
<1> QED
  BY <1>1, <1>2 DEF CL!Same

\* The cache lies beside the file.
LEMMA CipherCache == CL!LayerCache /\ CL!LayerStays
<1>1. ASSUME NEW f, CipherGood(f), NEW g, g \in FileSet, Len(g.cdata) <= BS, g.cblk <= MaxSize,
             g.raw = f.raw, g.hdr = f.hdr, g.iv = f.iv, g.ext = f.ext, g.uncut = f.uncut,
             g.reads = f.reads, g.left = f.left, g.cuts = f.cuts, g.threw = f.threw
      PROVE  CL!Beside(f, g)
  <2>1. Matches(f) /\ Ready(f, 1)
    BY <1>1 DEF CipherGood, Well
  <2>2. Matches(g) /\ Ready(g, 1) /\ (Unread(g) <=> Unread(f))
    BY <1>1, <2>1 DEF Matches, Ready, Unread
  <2>3. CipherGood(g)
    BY <1>1, <2>2 DEF CipherGood, Well
  <2>4. CL!Same(f, g)
    BY <1>1, SameRaw
  <2>5. CipherReads(g) = CipherReads(f) /\ CipherWrites(g) = CipherWrites(f)
    BY <1>1, <2>2 DEF CipherReads, CipherWrites
  <2>6. CipherStays(f, g)
    BY <1>1, <2>2 DEF CipherStays
  <2> QED
    BY <1>1, <2>3, <2>4, <2>5, <2>6 DEF CL!Beside
<1>2. ASSUME NEW f, CipherGood(f)
      PROVE  /\ \A b \in 0..MaxSize, d \in Seq(Int) :
                  LET g == CL!CacheTo(f, b, d)
                  IN Len(d) <= BS => CL!Beside(f, g) /\ g.cblk = b /\ g.cdata = d /\ g.ok = f.ok
             /\ LET g == CL!NoCache(f)
                IN CL!Beside(f, g) /\ g.cblk = f.cblk /\ g.cdata = <<>> /\ g.ok = f.ok
             /\ LET g == CL!AsOk(f)
                IN CL!Beside(f, g) /\ g.cblk = f.cblk /\ g.cdata = f.cdata /\ g.ok
  <2>0. f \in FileSet /\ Len(f.cdata) <= BS /\ f.cblk <= MaxSize /\ MaxSize \in Nat
    BY <1>2, BlockAssumption DEF CipherGood, Well
  <2>1. ASSUME NEW b \in 0..MaxSize, NEW d \in Seq(Int), Len(d) <= BS
        PROVE  LET g == CL!CacheTo(f, b, d)
               IN CL!Beside(f, g) /\ g.cblk = b /\ g.cdata = d /\ g.ok = f.ok
    <3> DEFINE g == CL!CacheTo(f, b, d)
    <3>0. b \in Nat /\ b <= MaxSize
      BY <2>0
    <3>1. /\ g \in FileSet /\ g.cblk = b /\ g.cdata = d /\ g.ok = f.ok
          /\ g.raw = f.raw /\ g.hdr = f.hdr /\ g.iv = f.iv /\ g.ext = f.ext /\ g.uncut = f.uncut
          /\ g.reads = f.reads /\ g.left = f.left /\ g.cuts = f.cuts /\ g.threw = f.threw
      BY <2>0, <3>0 DEF CL!CacheTo, FileSet
    <3> HIDE DEF g
    <3>2. CL!Beside(f, g)
      BY <1>1, <1>2, <2>1, <3>0, <3>1
    <3> QED
      BY <3>1, <3>2 DEF g
  <2>2. LET g == CL!NoCache(f)
        IN CL!Beside(f, g) /\ g.cblk = f.cblk /\ g.cdata = <<>> /\ g.ok = f.ok
    <3> DEFINE g == CL!NoCache(f)
    <3>0. <<>> \in Seq(Int) /\ Len(<<>>) = 0 /\ 0 <= BS
      BY EmptySeq, BlockAssumption
    <3>1. /\ g \in FileSet /\ g.cblk = f.cblk /\ g.cdata = <<>> /\ g.ok = f.ok
          /\ g.raw = f.raw /\ g.hdr = f.hdr /\ g.iv = f.iv /\ g.ext = f.ext /\ g.uncut = f.uncut
          /\ g.reads = f.reads /\ g.left = f.left /\ g.cuts = f.cuts /\ g.threw = f.threw
      BY <2>0, <3>0 DEF CL!NoCache, FileSet
    <3> HIDE DEF g
    <3>2. CL!Beside(f, g)
      BY <1>1, <1>2, <2>0, <3>0, <3>1
    <3> QED
      BY <3>1, <3>2 DEF g
  <2>3. LET g == CL!AsOk(f)
        IN CL!Beside(f, g) /\ g.cblk = f.cblk /\ g.cdata = f.cdata /\ g.ok
    <3> DEFINE g == CL!AsOk(f)
    <3>1. /\ g \in FileSet /\ g.cblk = f.cblk /\ g.cdata = f.cdata /\ g.ok
          /\ g.raw = f.raw /\ g.hdr = f.hdr /\ g.iv = f.iv /\ g.ext = f.ext /\ g.uncut = f.uncut
          /\ g.reads = f.reads /\ g.left = f.left /\ g.cuts = f.cuts /\ g.threw = f.threw
      BY <2>0 DEF CL!AsOk, FileSet
    <3> HIDE DEF g
    <3>2. CL!Beside(f, g)
      BY <1>1, <1>2, <2>0, <3>1
    <3> QED
      BY <3>1, <3>2 DEF g
  <2> QED
    BY <2>1, <2>2, <2>3
<1>3. CL!LayerStays
  BY DEF CL!LayerStays, CipherStays
<1> QED
  BY <1>2, <1>3 DEF CL!LayerCache

\* One block read (CipherFileIO.cpp:274-310).
LEMMA CipherReadIs ==
    ASSUME NEW f, CipherGood(f), CipherReads(f) >= 0, NEW b \in Nat
    PROVE  LET r == ReadOneBlock(f, b)
           IN /\ CipherGood(r.f) /\ CL!Same(f, r.f) /\ CipherStays(f, r.f)
              /\ CipherWrites(r.f) = CipherWrites(f)
              /\ r.f.cblk = f.cblk /\ r.f.cdata = f.cdata /\ r.f.ok = f.ok
              /\ r.failed \in BOOLEAN
              /\ ~r.failed => /\ CL!IsPart(r.data, f, b * BS, CL!Has(f, b))
                              /\ ~r.f.threw /\ CipherReads(r.f) >= CipherReads(f) - 1
                              /\ r.data # <<>> => CipherReads(r.f) >= 0
              /\ r.failed => r.data = <<>> /\ CipherReads(f) = 0
<1> DEFINE r == ReadOneBlock(f, b)
           p == Part(f, b)
           e == [f EXCEPT !.reads = @ - 1]
           c == SubSeq(f.raw, b * BS + 1, Least(b * BS + BS, Len(f.raw)))
           d == Decode(c, b, NeedHeader(e).iv)
<1>1. /\ Well(f) /\ Ready(f, 1) /\ f.cblk <= MaxSize /\ f \in FileSet /\ f.raw \in Seq(Cell)
      /\ f.reads \in Nat /\ f.left \in Nat /\ f.threw = FALSE
      /\ Unread(f) /\ f.hdr = NoHdr => f.raw = <<>>
  <2>1. Well(f) /\ Ready(f, 1) /\ f.cblk <= MaxSize /\ f \in FileSet /\ Matches(f)
    BY DEF CipherGood, Well
  <2>2. Unread(f) /\ f.hdr = NoHdr => f.raw = <<>>
    BY <2>1, HeaderTyped DEF Matches, Unread, FileSet
  <2> QED
    BY <2>1, <2>2 DEF FileSet
<1>2. Ready(f, 2)
  BY <1>1 DEF CipherReads, Ready
<1>3. /\ Well(r.f) /\ Beside(f, r.f)
      /\ r.f.cblk = f.cblk /\ r.f.cdata = f.cdata /\ r.f.ok = f.ok
      /\ r.f.left = f.left /\ Budget(r.f) >= Budget(f) - 1
      /\ Ready(r.f, 1) /\ (r.data # <<>> => ~Unread(r.f))
      /\ r.data = IF f.reads = 0 \/ p = <<>> THEN <<>> ELSE Block(f, b)
  BY <1>1, <1>2, ReadOneIs
<1>4. CipherGood(r.f) /\ CL!Same(f, r.f) /\ r.f.threw = FALSE /\ r.f.reads \in Nat
  <2>1. r.f.raw = f.raw /\ r.f.threw = FALSE /\ r.f.reads \in Nat
    BY <1>3 DEF Beside, Well, FileSet
  <2> QED
    BY <1>1, <1>3, <2>1, SameRaw DEF CipherGood
<1>5. r = IF f.reads = 0 THEN [f |-> f, data |-> <<>>, failed |-> TRUE]
          ELSE IF p = <<>> THEN [f |-> e, data |-> <<>>, failed |-> FALSE]
          ELSE [f |-> NeedHeader(e), data |-> d, failed |-> FALSE]
  BY DEF ReadOneBlock, Part
<1>6. /\ e.hdr = f.hdr /\ e.iv = f.iv /\ e.ext = f.ext /\ e.left = f.left /\ e.raw = f.raw
      /\ e.reads = f.reads - 1 /\ e.cuts = f.cuts /\ e.uncut = f.uncut
  BY <1>1 DEF FileSet
<1>7. p # <<>> => f.raw # <<>>
  <2>1. p # <<>> => 0 < Len(f.raw)
    <3>1. p # <<>> => b * BS < Len(f.raw) /\ b * BS \in Nat /\ Len(f.raw) \in Nat
      BY <1>1, CipherHas
    <3> HIDE DEF p
    <3> DEFINE at == b * BS
    <3> HIDE DEF at
    <3>2. p # <<>> => at < Len(f.raw) /\ at \in Nat /\ Len(f.raw) \in Nat
      BY <3>1 DEF at
    <3> QED
      BY <3>2
  <2> QED
    BY <2>1, EmptySeq
<1> HIDE DEF r, e, d
<1>8. CASE f.reads = 0
  <2>1. r.f = f /\ r.data = <<>> /\ r.failed = TRUE
    BY <1>5, <1>8
  <2>2. CipherReads(f) = 0
    BY <1>8 DEF CipherReads
  <2>3. CipherStays(f, r.f)
    BY <2>1 DEF CipherStays
  <2> QED
    BY <1>3, <1>4, <2>1, <2>2, <2>3 DEF r
<1>9. CASE f.reads # 0 /\ p = <<>>
  <2>1. r.f = e /\ r.data = <<>> /\ r.failed = FALSE
    BY <1>5, <1>9
  <2>2. Unread(e) <=> Unread(f)
    BY <1>6 DEF Unread
  <2>3. CipherWrites(e) = CipherWrites(f) /\ CipherStays(f, e)
    BY <1>6, <2>2 DEF CipherWrites, CipherStays
  <2>4. CipherReads(e) >= CipherReads(f) - 1
    BY <1>1, <1>6, <2>2 DEF CipherReads
  <2>5. CL!IsPart(<<>>, f, b * BS, CL!Has(f, b))
    <3>1. CL!Has(f, b) = 0
      BY <1>1, <1>9, CipherHas
    <3>2. <<>> \in Seq(Int) /\ Len(<<>>) = 0
      BY EmptySeq
    <3> QED
      BY <3>1, <3>2 DEF CL!IsPart
  <2> QED
    BY <1>3, <1>4, <2>1, <2>3, <2>4, <2>5 DEF r
<1>10. CASE f.reads # 0 /\ p # <<>>
  <2>1. r.f = NeedHeader(e) /\ r.failed = FALSE /\ r.data = Block(f, b)
    BY <1>3, <1>5, <1>10
  <2>2. r.data # <<>>
    BY <1>1, <1>10, <2>1, BlockIs
  <2>3. ~Unread(r.f)
    BY <1>3, <2>2
  <2>4. CipherReads(r.f) = r.f.reads /\ Budget(r.f) = r.f.reads /\ CipherWrites(r.f) = f.left
    BY <1>3, <1>4, <2>3 DEF CipherReads, CipherWrites, Budget
  <2>5. CipherWrites(f) = f.left
    BY <1>1, <1>7, <1>10 DEF CipherWrites
  <2>6. Budget(f) >= CipherReads(f)
    BY <1>1 DEF Budget, CipherReads
  <2>7. CipherReads(f) \in Int /\ Budget(f) \in Int
    BY <1>1 DEF Budget, CipherReads
  <2>8. CipherReads(r.f) >= CipherReads(f) - 1 /\ CipherReads(r.f) >= 0
    BY <1>3, <1>4, <2>4, <2>6, <2>7
  <2>9. CL!IsPart(r.data, f, b * BS, CL!Has(f, b))
    BY <1>1, <1>10, <2>1, CipherBlockIs
  <2>10. CipherStays(f, r.f)
    BY <1>3, <2>3 DEF CipherStays, Beside
  <2> QED
    BY <1>3, <1>4, <2>1, <2>4, <2>5, <2>8, <2>9, <2>10 DEF r
<1> QED
  BY <1>8, <1>9, <1>10

\* A number of whole blocks that ends in a block ends before it.
LEMMA CipherWhole ==
    ASSUME NEW n \in Nat, n % BS = 0, NEW k \in Nat, n < k * BS + BS
    PROVE  n <= k * BS
<1> DEFINE q == n \div BS
           at == k * BS
           to == q * BS
<1>1. q \in Nat /\ n = to + 0 /\ BS \in Nat \ {0} /\ n % BS = 0
  <2>1. BS \in Nat \ {0}
    BY BlockAssumption
  <2>2. q \in Nat /\ n = q * BS + (n % BS)
    BY <2>1, SplitIs
  <2> QED
    BY <2>1, <2>2
<1>2. at \in Nat /\ to \in Nat /\ (k < q => at + BS <= to)
  BY <1>1, StepsOf
<1>3. q <= k => to <= at
  <2>1. q < k => to + BS <= at
    BY <1>1, StepsOf
  <2> HIDE DEF q
  <2>2. q = k => to = at
    OBVIOUS
  <2> HIDE DEF to, at
  <2> QED
    BY <1>1, <1>2, <2>1, <2>2
<1>4. n < at + BS
  OBVIOUS
<1> HIDE DEF q, at, to
<1> QED
  BY <1>1, <1>2, <1>3, <1>4 DEF at

\* A block whose raw bytes are the same decodes to the same.
LEMMA BlockOfSame ==
    ASSUME NEW f, NEW g, f.raw \in Seq(Cell), g.raw \in Seq(Cell), NEW b \in Nat,
           Len(Part(g, b)) = Len(Part(f, b)),
           \A i \in 1..Len(Part(f, b)) : g.raw[b * BS + i] = f.raw[b * BS + i]
    PROVE  Part(g, b) = Part(f, b) /\ Block(g, b) = Block(f, b)
<1> DEFINE p == Part(f, b)
           o == Part(g, b)
           at == b * BS
<1>1. p \in Seq(Cell) /\ \A i \in 1..Len(p) : p[i] = f.raw[at + i]
  <2>1. f.raw \in Seq(Cell) /\ b \in Nat
    OBVIOUS
  <2> QED
    BY ONLY <2>1, PartOf
<1>2. o \in Seq(Cell) /\ \A i \in 1..Len(o) : o[i] = g.raw[at + i]
  <2>1. g.raw \in Seq(Cell) /\ b \in Nat
    OBVIOUS
  <2> QED
    BY ONLY <2>1, PartOf
<1>3. Len(o) = Len(p) /\ \A i \in 1..Len(p) : g.raw[at + i] = f.raw[at + i]
  OBVIOUS
<1> HIDE DEF p, o, at
<1>4. \A i \in 1..Len(o) : o[i] = p[i]
  BY <1>1, <1>2, <1>3
<1>5. o = p
  BY <1>1, <1>2, <1>3, <1>4, SeqEqual
<1>6. Part(g, b) = Part(f, b)
  BY <1>5 DEF o, p
<1> QED
  BY <1>6 DEF Block

\* A block that is a hole decodes to zeros, where there may be holes.
LEMMA HoleBlock ==
    ASSUME volume.holes, NEW f, f.raw \in Seq(Cell), NEW b \in Nat, b * BS + BS <= Len(f.raw),
           \A i \in 1..BS : f.raw[b * BS + i] = Hole
    PROVE  \A j \in 1..BS : Block(f, b)[j] = 0
<1> DEFINE p == Part(f, b)
           at == b * BS
           n == Len(f.raw)
<1>1. BS \in Nat \ {0}
  BY BlockAssumption
<1>2. /\ at \in Nat /\ n \in Nat /\ p \in Seq(Cell)
      /\ Len(p) = (IF n <= at THEN 0 ELSE Least(BS, n - at))
      /\ \A i \in 1..Len(p) : p[i] = f.raw[at + i]
  BY PartOf
<1>3. at + BS <= n /\ \A i \in 1..BS : f.raw[at + i] = Hole
  OBVIOUS
<1> HIDE DEF p, at, n
<1>4. Len(p) = BS
  BY <1>1, <1>2, <1>3 DEF Least
<1>5. \A i \in 1..BS : p[i] = Hole
  BY <1>2, <1>3, <1>4
<1>6. Holes(BS) \in Seq(Cell) /\ Len(Holes(BS)) = BS /\ \A i \in 1..BS : Holes(BS)[i] = Hole
  BY <1>1, HolesAre
<1>7. p = Holes(BS)
  <2>1. Len(p) = Len(Holes(BS)) /\ \A i \in 1..Len(p) : p[i] = Holes(BS)[i]
    BY <1>4, <1>5, <1>6
  <2> QED
    BY <1>2, <1>6, <2>1, SeqEqual
<1>8. p # Cells(b, BlockIV, p[1].plain)
  <2> DEFINE c == Cells(b, BlockIV, <<>>)
  <2>0. <<>> \in Seq(Int) /\ Len(<<>>) = 0
    BY EmptySeq
  <2>1. <<>> \in Seq(Int) /\ Len(<<>>) = 0 /\ BlockIV \in IVs
    BY <2>0 DEF BlockIV
  <2>2. Len(c) = 0
    BY <2>1, CellsAre
  <2> HIDE DEF c
  <2>3. p # c
    BY <1>1, <1>4, <2>2
  <2>4. p[1].plain = <<>>
    BY <1>1, <1>5 DEF Hole
  <2> QED
    BY <2>3, <2>4 DEF c
<1>9. Decode(p, b, BlockIV) = Zeros(BS)
  BY <1>7, <1>8 DEF Decode
<1>10. Block(f, b) = Zeros(BS)
  BY <1>9 DEF Block, p
<1> QED
  BY <1>10 DEF Zeros

\* The raw file cut, or extended by a hole.
LEMMA RawResizedIs ==
    ASSUME NEW s \in Seq(Cell), NEW n \in Nat
    PROVE  /\ RawResize(s, n) \in Seq(Cell) /\ Len(RawResize(s, n)) = n
           /\ \A i \in 1..n : RawResize(s, n)[i] = IF i <= Len(s) THEN s[i] ELSE Hole
<1> DEFINE r == RawResize(s, n)
           len == Len(s)
<1>1. /\ r \in Seq(Cell) /\ Len(r) = n /\ len \in Nat
      /\ \A i \in 1..n : i <= len => r[i] = s[i]
  BY RawResizeIs, LenProperties
<1>2. CASE n <= len
  <2> HIDE DEF r, len
  <2>1. \A i \in 1..n : i <= len
    BY <1>1, <1>2
  <2> QED
    BY <1>1, <2>1 DEF r, len
<1>3. CASE ~(n <= len)
  <2> DEFINE k == n - len
             h == Holes(k)
  <2>1. r = s \o h
    BY <1>3 DEF RawResize
  <2>2. k \in Nat /\ n = len + k
    <3> HIDE DEF len
    <3> QED
      BY <1>1, <1>3
  <2> HIDE DEF k
  <2>3. h \in Seq(Cell) /\ Len(h) = k /\ \A i \in 1..k : h[i] = Hole
    BY <2>2, HolesAre
  <2> HIDE DEF h
  <2>4. \A i \in 1..(Len(s) + Len(h)) : (s \o h)[i] = IF i <= Len(s) THEN s[i] ELSE h[i - Len(s)]
    BY <2>3, ConcatProperties
  <2>5. \A i \in 1..n : r[i] = IF i <= len THEN s[i] ELSE h[i - len]
    BY <2>1, <2>2, <2>3, <2>4
  <2> HIDE DEF r, len
  <2>6. \A i \in 1..n : ~(i <= len) => i - len \in 1..k
    BY <1>1, <2>2
  <2>7. \A i \in 1..n : r[i] = IF i <= len THEN s[i] ELSE Hole
    BY <2>3, <2>5, <2>6
  <2> QED
    BY <1>1, <2>7 DEF r, len
<1> QED
  BY <1>2, <1>3

\* A raw write, byte by byte.
LEMMA RawPutIs ==
    ASSUME NEW f \in FileSet, NEW off \in Nat, NEW c \in Seq(Cell)
    PROVE  LET g == RawWrite(f, off, c)
               end == off + Len(c)
           IN /\ g \in FileSet /\ g.hdr = f.hdr /\ g.iv = f.iv /\ g.ext = f.ext
              /\ g.cblk = f.cblk /\ g.cdata = f.cdata /\ g.cuts = f.cuts /\ g.reads = f.reads
              /\ g.uncut = f.uncut
              /\ f.left = 0 => ~g.ok /\ g.raw = f.raw /\ g.left = 0
              /\ f.left # 0 =>
                   /\ g.ok /\ g.left = f.left - 1
                   /\ Len(g.raw) = Most(Len(f.raw), end)
                   /\ \A i \in 1..Len(g.raw) :
                        g.raw[i] = IF off < i /\ i <= end THEN c[i - off]
                                   ELSE IF i <= Len(f.raw) THEN f.raw[i] ELSE Hole
<1> DEFINE g == RawWrite(f, off, c)
           n == Len(f.raw)
           m == Most(off, n)
           r == RawResize(f.raw, m)
           o == SubSeq(r, 1, off) \o c \o SubSeq(r, off + Len(c) + 1, Len(r))
           end == off + Len(c)
<1>1. /\ g \in FileSet /\ g.hdr = f.hdr /\ g.iv = f.iv /\ g.ext = f.ext
      /\ g.cblk = f.cblk /\ g.cdata = f.cdata /\ g.cuts = f.cuts /\ g.reads = f.reads
  BY RawWriteIs
<1>2. f.raw \in Seq(Cell) /\ n \in Nat /\ Len(c) \in Nat /\ f.left \in Nat
  BY LenProperties DEF FileSet
<1>3. CASE f.left = 0
  <2>1. g = [f EXCEPT !.ok = FALSE]
    BY <1>3 DEF RawWrite
  <2> HIDE DEF g
  <2>2. g.raw = f.raw /\ g.left = 0 /\ ~g.ok /\ g.uncut = f.uncut
    BY <1>3, <2>1 DEF FileSet
  <2> QED
    BY <1>1, <1>3, <2>2 DEF g
<1>4. CASE f.left # 0
  <2>1. g = [f EXCEPT !.raw = o, !.left = @ - 1, !.ok = TRUE]
    BY <1>4 DEF RawWrite
  <2> HIDE DEF g, o
  <2>2. g.raw = o /\ g.left = f.left - 1 /\ g.ok /\ g.uncut = f.uncut
    BY <2>1 DEF FileSet
  <2>3. m \in Nat /\ off <= m /\ n <= m /\ (m = off \/ m = n)
    <3> HIDE DEF n
    <3> QED
      BY <1>2 DEF Most
  <2> HIDE DEF m
  <2>4. /\ r \in Seq(Cell) /\ Len(r) = m
        /\ \A i \in 1..m : r[i] = IF i <= n THEN f.raw[i] ELSE Hole
    BY <1>2, <2>3, RawResizedIs
  <2> HIDE DEF r
  <2>5. r \in Seq(Cell) /\ c \in Seq(Cell) /\ off \in Nat /\ off <= Len(r)
    BY <2>3, <2>4
  <2>6. /\ Len(o) = (IF Len(r) < off + Len(c) THEN off + Len(c) ELSE Len(r))
        /\ \A i \in 1..Len(o) :
             o[i] = IF off < i /\ i <= off + Len(c) THEN c[i - off] ELSE r[i]
    <3>1. LET x == SubSeq(r, 1, off) \o c \o SubSeq(r, off + Len(c) + 1, Len(r))
          IN /\ x \in Seq(Cell)
             /\ Len(x) = (IF Len(r) < off + Len(c) THEN off + Len(c) ELSE Len(r))
             /\ \A i \in 1..Len(x) :
                  x[i] = IF off < i /\ i <= off + Len(c) THEN c[i - off] ELSE r[i]
      BY ONLY <2>5, SpliceIs
    <3> QED
      BY ONLY <3>1 DEF o
  <2>7. Len(o) = Most(n, end) /\ end \in Nat /\ off <= end
    <3>1. end = off + Len(c) /\ Len(o) = (IF m < end THEN end ELSE m)
      BY <2>4, <2>6
    <3>2. end \in Nat /\ off <= end
      BY <1>2
    <3> HIDE DEF n, o, end
    <3> QED
      BY <1>2, <2>3, <3>1, <3>2 DEF Most
  <2>8. ASSUME NEW i \in 1..Len(o)
        PROVE  o[i] = IF off < i /\ i <= end THEN c[i - off]
                      ELSE IF i <= n THEN f.raw[i] ELSE Hole
    <3>1. o[i] = IF off < i /\ i <= end THEN c[i - off] ELSE r[i]
      BY <2>6
    <3>2. ~(off < i /\ i <= end) => i \in 1..m
      <4>1. i \in 1..Most(n, end)
        BY <2>7
      <4>2. i \in Nat \ {0} /\ (i <= n \/ i <= end)
        <5> HIDE DEF n, end
        <5> QED
          BY <1>2, <2>7, <4>1 DEF Most
      <4>3. ~(off < i /\ i <= end) => i <= n \/ i <= off
        <5> HIDE DEF n, end
        <5> QED
          BY <1>2, <2>7, <4>2
      <4> HIDE DEF n, end
      <4> QED
        BY <1>2, <2>3, <4>2, <4>3
    <3> HIDE DEF n, end
    <3> QED
      BY <2>4, <3>1, <3>2
  <2> QED
    BY <1>1, <1>4, <2>2, <2>7, <2>8 DEF g
<1> QED
  BY <1>2, <1>3, <1>4


\* A block that is there as a whole.
LEMMA WholePart ==
    ASSUME NEW f, f.raw \in Seq(Cell), NEW b \in Nat, b * BS + BS <= Len(f.raw)
    PROVE  Len(Part(f, b)) = BS
<1> DEFINE at == b * BS
           n == Len(f.raw)
<1>1. at \in Nat /\ n \in Nat /\ Len(Part(f, b)) = (IF n <= at THEN 0 ELSE Least(BS, n - at))
  BY PartOf
<1>2. at + BS <= n /\ BS \in Nat \ {0}
  BY BlockAssumption
<1> HIDE DEF at, n
<1> QED
  BY <1>1, <1>2 DEF Least

\* A block written on disk: what it decodes to and what stays of the other blocks, with
\* zeros where a hole came.
LEMMA PutByBlocks ==
    ASSUME NEW f, f.raw \in Seq(Cell), NEW g, g.raw \in Seq(Cell),
           NEW b \in Nat, NEW d \in Seq(Int), d # <<>>, Len(d) <= BS,
           CL!Reached(f, b), Len(d) = BS \/ Len(f.raw) <= b * BS + Len(d),
           Len(g.raw) = Most(Len(f.raw), b * BS + Len(d)),
           \A i \in 1..Len(g.raw) :
             g.raw[i] = IF b * BS < i /\ i <= b * BS + Len(d) THEN Cells(b, BlockIV, d)[i - b * BS]
                        ELSE IF i <= Len(f.raw) THEN f.raw[i] ELSE Hole
    PROVE  CL!Put(f, b * BS, d, g)
<1> DEFINE at == b * BS
           end == at + Len(d)
           n == Len(f.raw)
           m == Len(g.raw)
           c == Cells(b, BlockIV, d)
<1>1. /\ at \in Nat /\ n \in Nat /\ m \in Nat /\ end \in Nat /\ Len(d) \in Nat \ {0}
      /\ BS \in Nat \ {0} /\ end = at + Len(d) /\ Len(d) <= BS
  <2>1. at \in Nat /\ BS \in Nat \ {0} /\ Len(d) \in Nat \ {0} /\ n \in Nat /\ m \in Nat
    BY TimesIs, LenProperties, EmptySeq, BlockAssumption
  <2> HIDE DEF at, n, m
  <2> QED
    BY <2>1
<1>2. /\ m = Most(n, end) /\ (Len(d) = BS \/ n <= end)
      /\ n >= at \/ (volume.holes /\ n % BS = 0)
      /\ Size(f) = n /\ Size(g) = m
  BY DEF CL!Reached, Size
<1>3. \A i \in 1..m : g.raw[i] = IF at < i /\ i <= end THEN c[i - at]
                                 ELSE IF i <= n THEN f.raw[i] ELSE Hole
  OBVIOUS
<1>4. Block(g, b) = d
  <2>1. Len(d) = BS \/ m = end
    <3> HIDE DEF at, n, m, end
    <3> QED
      BY <1>1, <1>2 DEF Most
  <2>2. m >= end
    <3> HIDE DEF at, n, m, end
    <3> QED
      BY <1>1, <1>2 DEF Most
  <2>3. \A i \in 1..Len(d) : g.raw[at + i] = c[i]
    <3> HIDE DEF c, n
    <3>1. ASSUME NEW i \in 1..Len(d) PROVE g.raw[at + i] = c[i]
      <4>1. at + i \in 1..m /\ at < at + i /\ at + i <= end /\ (at + i) - at = i
        <5> HIDE DEF at, m, end
        <5> QED
          BY <1>1, <2>2
      <4> HIDE DEF at, m, end
      <4> QED
        BY <1>3, <4>1
    <3> QED
      BY <3>1
  <2> QED
    BY <2>1, <2>2, <2>3, WrittenIs
<1>5. ASSUME NEW i \in 1..m
      PROVE  CipherByte(g, i) = IF i \in at + 1 .. end THEN d[i - at] ELSE CL!ByteOr0(f, i)
  <2> DEFINE k == (i - 1) \div BS
             j == ((i - 1) % BS) + 1
             to == k * BS
  <2>1. k \in Nat /\ j \in 1..BS /\ i = to + j /\ to \in Nat /\ i \in Nat \ {0} /\ i <= m
    <3>1. i \in Nat \ {0} /\ i <= m
      BY <1>1
    <3> HIDE DEF m
    <3> QED
      BY <3>1, CipherByteIn
  <2>2. CL!ByteOr0(f, i) = IF i <= n THEN CipherByte(f, i) ELSE 0
    BY <1>2 DEF CL!ByteOr0
  <2> HIDE DEF k, j
  <2>3. CipherByte(g, i) = Block(g, k)[j] /\ CipherByte(f, i) = Block(f, k)[j]
    BY <2>1, CipherByteIs
  <2>4. CASE k = b
    <3>1. to = at
      BY <2>4
    <3>2. i \in at + 1 .. end /\ i - at = j
      <4> HIDE DEF at, n, m, end, to
      <4> QED
        BY <1>1, <1>2, <2>1, <3>1 DEF Most
    <3> QED
      BY <1>4, <2>3, <2>4, <3>2
  <2>5. CASE k < b
    <3>1. to + BS <= at
      BY <2>1, <2>5, TimesIs
    <3>2. i <= at /\ to + BS <= m /\ i \notin at + 1 .. end
      <4> HIDE DEF at, n, m, end, to
      <4> QED
        BY <1>1, <1>2, <2>1, <3>1 DEF Most
    <3>3. ASSUME NEW h \in 1..BS
          PROVE  g.raw[to + h] = IF to + h <= n THEN f.raw[to + h] ELSE Hole
      <4>1. to + h \in 1..m /\ ~(at < to + h)
        <5> HIDE DEF at, n, m, end, to
        <5> QED
          BY <1>1, <2>1, <3>1, <3>2
      <4> HIDE DEF at, n, m, end, to, c
      <4> QED
        BY <1>3, <4>1
    <3>4. CASE to + BS <= n
      <4>1. Len(Part(f, k)) = BS /\ Len(Part(g, k)) = BS
        BY <2>1, <3>2, <3>4, WholePart
      <4>2. \A h \in 1..BS : g.raw[to + h] = f.raw[to + h]
        <5>1. ASSUME NEW h \in 1..BS PROVE to + h <= n
          <6> HIDE DEF n, to
          <6> QED
            BY <1>1, <2>1, <3>4
        <5> HIDE DEF n, to
        <5> QED
          BY <3>3, <5>1
      <4>3. Block(g, k) = Block(f, k)
        <5>1. /\ f.raw \in Seq(Cell) /\ g.raw \in Seq(Cell) /\ k \in Nat
              /\ Len(Part(g, k)) = Len(Part(f, k))
              /\ \A h \in 1..Len(Part(f, k)) : g.raw[k * BS + h] = f.raw[k * BS + h]
          BY <2>1, <4>1, <4>2
        <5> QED
          BY ONLY <5>1, BlockOfSame
      <4>4. i <= n
        <5> HIDE DEF n, to
        <5> QED
          BY <1>1, <2>1, <3>4
      <4> HIDE DEF at, n, m, end, to
      <4> QED
        BY <2>2, <2>3, <3>2, <4>3, <4>4
    <3>5. CASE ~(to + BS <= n)
      <4>1. volume.holes /\ n % BS = 0 /\ n < to + BS
        <5>1. n < to + BS /\ ~(n >= at)
          <6>1. n \in Nat /\ to \in Nat /\ at \in Nat /\ BS \in Nat
            BY <1>1, <2>1
          <6>2. ~(to + BS <= n)
            BY <3>5
          <6> HIDE DEF at, n, to
          <6> QED
            BY ONLY <3>1, <6>1, <6>2
        <5> QED
          BY <1>2, <5>1
      <4>2. n <= to
        <5>1. n \in Nat /\ n % BS = 0 /\ k \in Nat /\ n < k * BS + BS
          BY <1>1, <2>1, <4>1
        <5> HIDE DEF n
        <5> QED
          BY ONLY <5>1, CipherWhole DEF to
      <4>3. ~(i <= n)
        <5> HIDE DEF n, to
        <5> QED
          BY <1>1, <2>1, <4>2
      <4>4. \A h \in 1..BS : g.raw[to + h] = Hole
        <5>1. ASSUME NEW h \in 1..BS PROVE ~(to + h <= n)
          <6> HIDE DEF n, to
          <6> QED
            BY <1>1, <2>1, <4>2
        <5> HIDE DEF n, to
        <5> QED
          BY <3>3, <5>1
      <4>5. Block(g, k)[j] = 0
        BY <2>1, <3>2, <4>1, <4>4, HoleBlock
      <4> HIDE DEF at, n, m, end, to
      <4> QED
        BY <2>2, <2>3, <3>2, <4>3, <4>5
    <3> QED
      BY <3>4, <3>5
  <2>6. CASE k > b
    <3>1. at + BS <= to
      BY <2>1, <2>6, TimesIs
    <3>2. i > end /\ m = n /\ i <= n /\ i \notin at + 1 .. end /\ to >= end
      <4>1. to >= end
        <5> HIDE DEF at, n, m, end, to
        <5> QED
          BY <1>1, <2>1, <3>1
      <4>2. j \in Nat \ {0}
        BY <1>1, <2>1
      <4>3. i > end
        <5> HIDE DEF at, n, m, end, to
        <5> QED
          BY <1>1, <2>1, <4>1, <4>2
      <4>4. m = n
        <5> HIDE DEF at, n, m, end, to
        <5> QED
          BY <1>1, <1>2, <2>1, <4>3 DEF Most
      <4> HIDE DEF at, n, m, end, to
      <4> QED
        BY <1>1, <2>1, <4>1, <4>3, <4>4
    <3>3. /\ Len(Part(f, k)) = (IF n <= to THEN 0 ELSE Least(BS, n - to))
          /\ Len(Part(g, k)) = (IF m <= to THEN 0 ELSE Least(BS, m - to))
      BY <2>1, PartOf
    <3>4. Len(Part(g, k)) = Len(Part(f, k)) /\ Len(Part(f, k)) \in Nat
          /\ to + Len(Part(f, k)) <= n
      <4> HIDE DEF at, n, m, end, to
      <4> QED
        BY <1>1, <2>1, <3>2, <3>3 DEF Least
    <3>5. ASSUME NEW h \in 1..Len(Part(f, k)) PROVE g.raw[to + h] = f.raw[to + h]
      <4>1. to + h \in 1..m /\ ~(to + h <= end) /\ to + h <= n
        <5> DEFINE u == Len(Part(f, k))
        <5>1. u \in Nat /\ to + u <= n /\ h \in 1..u
          BY <3>4
        <5> HIDE DEF at, n, m, end, to, u
        <5> QED
          BY <1>1, <2>1, <3>2, <5>1
      <4> HIDE DEF at, n, m, end, to, c
      <4> QED
        BY <1>3, <4>1
    <3>6. Block(g, k) = Block(f, k)
      BY <2>1, <3>4, <3>5, BlockOfSame
    <3> HIDE DEF at, n, m, end, to
    <3> QED
      BY <2>2, <2>3, <3>2, <3>6
  <2> QED
    BY <2>1, <2>4, <2>5, <2>6
<1>6. CL!Most(n, end) = Most(n, end)
  BY DEF CL!Most, Most
<1> HIDE DEF at, n, m, end
<1>7. CL!Put(f, at, d, g)
  BY <1>1, <1>2, <1>5, <1>6 DEF CL!Put, end
<1> QED
  BY <1>7 DEF at

\* The header, when a block needs it: how many writes it takes.
LEMMA HeaderCost ==
    ASSUME NEW f, CipherGood(f)
    PROVE  LET h == NeedHeader(f)
           IN /\ CipherGood(h) /\ ~Unread(h) /\ Beside(f, h) /\ h.iv = BlockIV
              /\ volume.header => h.hdr = HeaderOf(f.ext)
              /\ h.cblk = f.cblk /\ h.cdata = f.cdata /\ h.ok = f.ok
              /\ h.left = CipherWrites(f) /\ h.reads >= CipherReads(f)
              /\ CipherReads(h) = h.reads /\ CipherWrites(h) = h.left
<1> DEFINE h == NeedHeader(f)
<1>0. Well(f) /\ Ready(f, 1) /\ f \in FileSet /\ Matches(f) /\ f.left \in Nat /\ f.reads \in Nat
      /\ f.cblk <= MaxSize
  BY DEF CipherGood, Well, FileSet
<1>1. /\ Well(h) /\ ~Unread(h) /\ Beside(f, h) /\ h.iv = BlockIV
      /\ volume.header => h.hdr = HeaderOf(f.ext)
      /\ h.cblk = f.cblk /\ h.cdata = f.cdata /\ h.ok = f.ok
      /\ f.hdr # NoHdr => h.left = f.left
      /\ Budget(h) = Budget(f)
  BY <1>0, NeedHeaderIs
<1>2. h.left = CipherWrites(f)
  <2>1. CASE ~Unread(f)
    <3>1. h = f
      BY <2>1 DEF NeedHeader, Unread
    <3> QED
      BY <2>1, <3>1 DEF CipherWrites
  <2>2. CASE Unread(f) /\ f.hdr # NoHdr
    BY <1>1, <2>2 DEF CipherWrites
  <2>3. CASE Unread(f) /\ f.hdr = NoHdr
    <3>1. f.raw = <<>>
      BY <1>0, <2>3, HeaderTyped DEF Matches, Unread, FileSet
    <3>2. f.left > 0
      BY <1>0, <2>3 DEF Ready
    <3>3. h = InitHeader(f)
      BY <2>3 DEF NeedHeader, Unread
    <3>4. h.left = f.left - 1
      BY <1>0, <2>3, <3>1, <3>2, <3>3 DEF InitHeader, FileSet
    <3> QED
      BY <2>3, <3>4 DEF CipherWrites
  <2> QED
    BY <2>1, <2>2, <2>3
<1> HIDE DEF h
<1>3. h.reads \in Nat /\ h.reads >= CipherReads(f)
  <2>1. h.reads \in Nat /\ Budget(h) = h.reads
    BY <1>1 DEF Well, FileSet, Budget
  <2>2. Budget(f) \in Int /\ CipherReads(f) \in Int /\ Budget(f) >= CipherReads(f)
    BY <1>0 DEF Budget, CipherReads
  <2> QED
    BY <1>1, <2>1, <2>2
<1>4. CipherGood(h) /\ CipherReads(h) = h.reads /\ CipherWrites(h) = h.left
  BY <1>0, <1>1 DEF CipherGood, Ready, CipherReads, CipherWrites
<1> QED
  BY <1>1, <1>2, <1>3, <1>4 DEF h

\* One block written (CipherFileIO.cpp:312-350).
LEMMA CipherWriteIs ==
    ASSUME NEW f, NEW b \in Nat, NEW d \in Seq(Int)
    PROVE  CL!OneWritten(f, b, d, WriteOneBlock(f, b, d))
<1> DEFINE g == WriteOneBlock(f, b, d)
           h == NeedHeader(f)
           c == Cells(b, BlockIV, d)
           at == b * BS
<1> SUFFICES ASSUME CipherGood(f), ~f.threw, d # <<>>, Len(d) <= BS
             PROVE  /\ CipherWrites(f) = 0 =>
                         /\ CipherGood(g) /\ CL!Same(f, g) /\ CipherStays(f, g) /\ ~g.ok /\ ~g.threw
                         /\ CipherWrites(g) = 0 /\ CipherReads(g) >= CipherReads(f)
                    /\ /\ CipherWrites(f) > 0 /\ CL!Reached(f, b)
                       /\ Len(d) = BS \/ Size(f) <= b * BS + Len(d)
                       => /\ CipherGood(g) /\ CL!Put(f, b * BS, d, g) /\ CipherStays(f, g)
                          /\ g.ok /\ ~g.threw
                          /\ CipherWrites(g) = CipherWrites(f) - 1 /\ CipherReads(g) >= CipherReads(f)
  BY DEF CL!OneWritten
<1>1. /\ CipherGood(h) /\ ~Unread(h) /\ Beside(f, h) /\ h.iv = BlockIV
      /\ volume.header => h.hdr = HeaderOf(f.ext)
      /\ h.cblk = f.cblk /\ h.cdata = f.cdata
      /\ h.left = CipherWrites(f) /\ h.reads >= CipherReads(f)
  BY HeaderCost
<1>2. g = RawWrite(h, at, c)
  BY <1>1 DEF WriteOneBlock
<1>3. BlockIV \in IVs
  BY DEF BlockIV
<1>4. c \in Seq(Cell) /\ Len(c) = Len(d) /\ at \in Nat
  BY <1>3, CellsAre, TimesIs
<1>5. h \in FileSet /\ Len(h.cdata) <= BS /\ Matches(h) /\ h.left \in Nat /\ h.cblk <= MaxSize
  BY <1>1 DEF CipherGood, Well, FileSet
<1> HIDE DEF h, c
<1>6. /\ g \in FileSet /\ g.hdr = h.hdr /\ g.iv = h.iv /\ g.ext = h.ext
      /\ g.cblk = h.cblk /\ g.cdata = h.cdata /\ g.cuts = h.cuts /\ g.reads = h.reads
      /\ g.uncut = h.uncut
      /\ h.left = 0 => ~g.ok /\ g.raw = h.raw /\ g.left = 0
      /\ h.left # 0 =>
           /\ g.ok /\ g.left = h.left - 1
           /\ Len(g.raw) = Most(Len(h.raw), at + Len(c))
           /\ \A i \in 1..Len(g.raw) :
                g.raw[i] = IF at < i /\ i <= at + Len(c) THEN c[i - at]
                           ELSE IF i <= Len(h.raw) THEN h.raw[i] ELSE Hole
  <2>1. h \in FileSet /\ at \in Nat /\ c \in Seq(Cell)
    BY <1>4, <1>5
  <2> HIDE DEF g, at
  <2> QED
    BY ONLY <1>2, <2>1, RawPutIs
<1> HIDE DEF g
<1>7. ~Unread(g) /\ Matches(g)
  BY <1>1, <1>5, <1>6 DEF Unread, Matches
<1>8. CipherGood(g)
  BY <1>5, <1>6, <1>7 DEF CipherGood, Well, Ready
<1>9. CipherStays(f, g) /\ CipherReads(g) = g.reads /\ CipherWrites(g) = g.left /\ g.threw = FALSE
  BY <1>1, <1>6, <1>7 DEF CipherStays, CipherReads, CipherWrites, Beside, FileSet
<1>10. ASSUME CipherWrites(f) = 0
       PROVE  CL!Same(f, g) /\ ~g.ok /\ g.left = 0
  <2>1. g.raw = f.raw /\ ~g.ok /\ g.left = 0
    BY <1>1, <1>6, <1>10 DEF Beside
  <2> QED
    BY <2>1, SameRaw
<1>11. ASSUME CipherWrites(f) > 0, CL!Reached(f, b), Len(d) = BS \/ Size(f) <= b * BS + Len(d)
       PROVE  CL!Put(f, b * BS, d, g) /\ g.ok /\ g.left = CipherWrites(f) - 1
  <2>1. h.left # 0 /\ h.raw = f.raw
    BY <1>1, <1>5, <1>11 DEF Beside
  <2>2. g.ok /\ g.left = CipherWrites(f) - 1
    BY <1>1, <1>6, <2>1
  <2>3. /\ f.raw \in Seq(Cell) /\ g.raw \in Seq(Cell)
        /\ Len(d) = BS \/ Len(f.raw) <= b * BS + Len(d)
    BY <1>5, <1>6, <1>11, <2>1 DEF FileSet, Size
  <2>4. /\ Len(g.raw) = Most(Len(f.raw), b * BS + Len(d))
        /\ \A i \in 1..Len(g.raw) :
             g.raw[i] = IF b * BS < i /\ i <= b * BS + Len(d) THEN Cells(b, BlockIV, d)[i - b * BS]
                        ELSE IF i <= Len(f.raw) THEN f.raw[i] ELSE Hole
    <3> HIDE DEF at
    <3>1. /\ Len(g.raw) = Most(Len(f.raw), at + Len(d))
          /\ \A i \in 1..Len(g.raw) :
               g.raw[i] = IF at < i /\ i <= at + Len(d) THEN c[i - at]
                          ELSE IF i <= Len(f.raw) THEN f.raw[i] ELSE Hole
      BY <1>4, <1>6, <2>1
    <3> QED
      BY ONLY <3>1 DEF at, c
  <2>5. CL!Put(f, b * BS, d, g)
    BY <1>11, <2>3, <2>4, PutByBlocks
  <2> QED
    BY <2>2, <2>5
<1> QED
  BY <1>1, <1>6, <1>8, <1>9, <1>10, <1>11

\* CipherFileIO is a layer that BlockFileIO's promises hold of.
LEMMA CipherKeeps ==
    ASSUME volume \in Volumes
    PROVE  CL!LayerKeeps
<1>1. CL!LayerTyped /\ CL!LayerStays /\ CL!LayerCache
  BY CipherTypes, CipherCache
<1>2. CL!LayerRead
  <2> SUFFICES ASSUME NEW f, NEW b \in Nat, CipherGood(f), ~f.threw, CipherReads(f) >= 0
               PROVE  LET r == ReadOneBlock(f, b)
                      IN /\ CipherGood(r.f) /\ CL!Same(f, r.f) /\ CipherStays(f, r.f)
                         /\ CipherWrites(r.f) = CipherWrites(f)
                         /\ r.f.cblk = f.cblk /\ r.f.cdata = f.cdata /\ r.f.ok = f.ok
                         /\ r.failed \in BOOLEAN
                         /\ ~r.failed => /\ CL!IsPart(r.data, f, b * BS, CL!Has(f, b))
                                         /\ ~r.f.threw /\ CipherReads(r.f) >= CipherReads(f) - 1
                                         /\ r.data # <<>> => CipherReads(r.f) >= 0
                         /\ r.failed => r.data = <<>> /\ (r.f.threw \/ CipherReads(f) = 0)
    BY DEF CL!LayerRead
  <2> QED
    BY CipherReadIs
<1>3. CL!LayerWrite
  BY CipherWriteIs DEF CL!LayerWrite
<1> QED
  BY <1>1, <1>2, <1>3 DEF CL!LayerKeeps

----------------------------------------------------------------------------
(* The calls of the encrypted file, whose bytes are kept as PlainFile       *)
(* promises.                                                               *)

\* They are BlockFileIO's, over this layer.
LEMMA CipherCallsAre ==
    ASSUME NEW f
    PROVE  /\ \A off, n : IO!ReadFile(f, off, n) = CL!ReadFile(f, off, n)
           /\ \A off, d : IO!WriteFile(f, off, d) = CL!WriteFile(f, off, d)
           /\ \A n : IO!TruncateFile(f, n) = CL!TruncateFile(f, n)
<1>1. ASSUME NEW off, NEW n PROVE IO!ReadFile(f, off, n) = CL!ReadFile(f, off, n)
  BY Zenon DEF IO!ReadFile, IO!CacheRead, IO!ReadLoop, IO!Rounds, IO!ReadRound,
         IO!RoundsFor, IO!Least, CL!ReadFile, CL!CacheRead, CL!ReadLoop, CL!Rounds,
         CL!ReadRound, CL!RoundsFor, CL!Least
<1>2. ASSUME NEW old, NEW new, NEW force, NEW g
      PROVE  IO!PadFile(g, old, new, force) = CL!PadFile(g, old, new, force)
  BY Zenon DEF IO!PadFile, IO!CacheRead, IO!CacheWrite, IO!PadBlocks, IO!PadRound,
         IO!Rounds, IO!Padded, IO!Zeros, IO!Least,
         CL!PadFile, CL!CacheRead, CL!CacheWrite, CL!PadBlocks, CL!PadRound,
         CL!Rounds, CL!Padded, CL!Zeros, CL!Least
<1>3. ASSUME NEW g, NEW off, NEW d, NEW size
      PROVE  IO!WriteLoop(g, off, d, size) = CL!WriteLoop(g, off, d, size)
  BY Zenon DEF IO!WriteLoop, IO!WriteRound, IO!Rounds, IO!RoundsFor, IO!Least,
         IO!Most, IO!Merge, IO!LastNonEmpty, IO!CacheRead, IO!CacheWrite,
         CL!WriteLoop, CL!WriteRound, CL!Rounds, CL!RoundsFor, CL!Least,
         CL!Most, CL!Merge, CL!LastNonEmpty, CL!CacheRead, CL!CacheWrite
<1>4. ASSUME NEW off, NEW d PROVE IO!WriteFile(f, off, d) = CL!WriteFile(f, off, d)
  BY <1>2, <1>3 DEF IO!WriteFile, CL!WriteFile
<1>5. ASSUME NEW n PROVE IO!TruncateFile(f, n) = CL!TruncateFile(f, n)
  BY <1>2, Zenon DEF IO!TruncateFile, IO!CacheRead, IO!CacheWrite, IO!Padded,
         IO!Zeros, IO!Least, IO!Most, CL!TruncateFile, CL!CacheRead, CL!CacheWrite,
         CL!Padded, CL!Zeros, CL!Least, CL!Most
<1> QED
  BY <1>1, <1>4, <1>5

\* Whole blocks of a file that is cut or grown at a block boundary stay, and a hole
\* after them is zeros.
LEMMA ResizedBytes ==
    ASSUME NEW f, f.raw \in Seq(Cell), NEW n \in Nat, n % BS = 0,
           NEW g, g.raw = RawResize(f.raw, n),
           Len(f.raw) < n => volume.holes /\ Len(f.raw) % BS = 0
    PROVE  Size(g) = n /\ \A i \in 1..n : CipherByte(g, i) = CL!ByteOr0(f, i)
<1> DEFINE old == Len(f.raw)
<1>1. /\ g.raw \in Seq(Cell) /\ Len(g.raw) = n /\ old \in Nat /\ BS \in Nat \ {0}
      /\ \A i \in 1..n : g.raw[i] = IF i <= old THEN f.raw[i] ELSE Hole
  <2>1. f.raw \in Seq(Cell) /\ n \in Nat /\ g.raw = RawResize(f.raw, n)
    OBVIOUS
  <2>2. /\ g.raw \in Seq(Cell) /\ Len(g.raw) = n
        /\ \A i \in 1..n : g.raw[i] = IF i <= old THEN f.raw[i] ELSE Hole
    <3> DEFINE r == RawResize(f.raw, n)
    <3>1. r \in Seq(Cell) /\ Len(r) = n /\ \A i \in 1..n : r[i] = IF i <= Len(f.raw) THEN f.raw[i] ELSE Hole
      BY ONLY <2>1, RawResizedIs
    <3>2. g.raw = r
      BY <2>1
    <3> HIDE DEF r
    <3> QED
      BY ONLY <3>1, <3>2
  <2> QED
    BY <2>2, LenProperties, BlockAssumption
<1>2. ASSUME NEW i \in 1..n PROVE CipherByte(g, i) = CL!ByteOr0(f, i)
  <2> DEFINE k == (i - 1) \div BS
             j == ((i - 1) % BS) + 1
             to == k * BS
  <2>1. i \in Nat \ {0} /\ i <= n
    OBVIOUS
  <2>2. k \in Nat /\ j \in 1..BS /\ i = to + j /\ to \in Nat
    BY <2>1, CipherByteIn
  <2> HIDE DEF k, j
  <2>3. CipherByte(g, i) = Block(g, k)[j] /\ CipherByte(f, i) = Block(f, k)[j]
    BY <2>2, CipherByteIs
  <2>4. CL!ByteOr0(f, i) = IF i <= old THEN CipherByte(f, i) ELSE 0
    BY DEF CL!ByteOr0, Size
  <2>5. to + BS <= n
    <3>1. ~(n < to + BS)
      <4>1. n < to + BS => n <= to
        BY <2>2, CipherWhole
      <4>2. n > to
        <5> HIDE DEF to
        <5> QED
          BY <1>1, <2>1, <2>2
      <4> HIDE DEF to
      <4> QED
        BY <2>2, <4>1, <4>2
    <3> HIDE DEF to
    <3> QED
      BY <1>1, <2>2, <3>1
  <2>6. CASE to + BS <= old
    <3>1. Len(Part(f, k)) = BS /\ Len(Part(g, k)) = BS
      BY <1>1, <2>2, <2>5, <2>6, WholePart
    <3>2. \A h \in 1..BS : g.raw[to + h] = f.raw[to + h]
      <4>1. ASSUME NEW h \in 1..BS PROVE to + h \in 1..n /\ to + h <= old
        <5> HIDE DEF old, to
        <5> QED
          BY <1>1, <2>2, <2>5, <2>6
      <4> HIDE DEF old, to
      <4> QED
        BY <1>1, <4>1
    <3>3. Block(g, k) = Block(f, k)
      <4>1. /\ f.raw \in Seq(Cell) /\ g.raw \in Seq(Cell) /\ k \in Nat
            /\ Len(Part(g, k)) = Len(Part(f, k))
            /\ \A h \in 1..Len(Part(f, k)) : g.raw[k * BS + h] = f.raw[k * BS + h]
        BY <1>1, <2>2, <3>1, <3>2
      <4> QED
        BY ONLY <4>1, BlockOfSame
    <3>4. i <= old
      <4> HIDE DEF old, to
      <4> QED
        BY <1>1, <2>2, <2>6
    <3> HIDE DEF old, to
    <3> QED
      BY <2>3, <2>4, <3>3, <3>4
  <2>7. CASE ~(to + BS <= old)
    <3>1. old < n /\ old < to + BS
      <4> HIDE DEF old, to
      <4> QED
        BY <1>1, <2>2, <2>5, <2>7
    <3>2. volume.holes /\ old % BS = 0
      BY <3>1
    <3>3. old <= to
      <4>1. old \in Nat /\ old % BS = 0 /\ k \in Nat /\ old < k * BS + BS
        BY <1>1, <2>2, <3>1, <3>2
      <4> HIDE DEF old
      <4> QED
        BY ONLY <4>1, CipherWhole DEF to
    <3>4. ~(i <= old)
      <4> HIDE DEF old, to
      <4> QED
        BY <1>1, <2>2, <3>3
    <3>5. \A h \in 1..BS : g.raw[to + h] = Hole
      <4>1. ASSUME NEW h \in 1..BS PROVE to + h \in 1..n /\ ~(to + h <= old)
        <5> HIDE DEF old, to
        <5> QED
          BY <1>1, <2>2, <2>5, <3>3
      <4> HIDE DEF old, to
      <4> QED
        BY <1>1, <4>1
    <3>6. Block(g, k)[j] = 0
      <4>1. to + BS <= Len(g.raw)
        BY <1>1, <2>5
      <4> QED
        BY <1>1, <2>2, <3>2, <3>5, <4>1, HoleBlock
    <3> HIDE DEF old, to
    <3> QED
      BY <2>3, <2>4, <3>4, <3>6
  <2> QED
    BY <2>6, <2>7
<1> QED
  BY <1>1, <1>2 DEF Size

\* A file that ends in a block that was written again, with what there was.
LEMMA TrimmedBytes ==
    ASSUME NEW f, f.raw \in Seq(Cell), NEW g, g.raw \in Seq(Cell),
           NEW b \in Nat, NEW d \in Seq(Int), d # <<>>, Len(d) <= BS,
           CL!IsPart(d, f, b * BS, Len(d)),
           b * BS + Len(d) <= Len(f.raw), Len(g.raw) = b * BS + Len(d),
           \A i \in 1..Len(g.raw) :
             g.raw[i] = IF i <= b * BS THEN f.raw[i] ELSE Cells(b, BlockIV, d)[i - b * BS]
    PROVE  \A i \in 1..Len(g.raw) : CipherByte(g, i) = CipherByte(f, i)
<1> DEFINE at == b * BS
           end == at + Len(d)
           n == Len(f.raw)
           c == Cells(b, BlockIV, d)
<1>1. /\ at \in Nat /\ n \in Nat /\ end \in Nat /\ Len(d) \in Nat \ {0}
      /\ BS \in Nat \ {0} /\ end = at + Len(d) /\ Len(d) <= BS /\ end <= n /\ Len(g.raw) = end
  <2>1. at \in Nat /\ BS \in Nat \ {0} /\ Len(d) \in Nat \ {0} /\ n \in Nat
    BY TimesIs, LenProperties, EmptySeq, BlockAssumption
  <2> HIDE DEF at, n
  <2> QED
    BY <2>1 DEF at, n
<1>2. \A i \in 1..end : g.raw[i] = IF i <= at THEN f.raw[i] ELSE c[i - at]
  BY <1>1
<1>3. Block(g, b) = d
  <2>1. ASSUME NEW i \in 1..Len(d) PROVE g.raw[at + i] = c[i]
    <3> HIDE DEF c, n
    <3>1. at + i \in 1..end /\ ~(at + i <= at) /\ (at + i) - at = i
      <4> HIDE DEF at, end
      <4> QED
        BY <1>1
    <3> HIDE DEF at, end
    <3> QED
      BY <1>2, <3>1
  <2>2. Len(g.raw) >= at + Len(d)
    <3> HIDE DEF at, end, n
    <3> QED
      BY <1>1
  <2> QED
    BY <1>1, <2>1, <2>2, WrittenIs
<1>4. \A j \in 1..Len(d) : d[j] = CipherByte(f, at + j)
  BY DEF CL!IsPart
<1>5. ASSUME NEW i \in 1..end PROVE CipherByte(g, i) = CipherByte(f, i)
  <2> DEFINE k == (i - 1) \div BS
             j == ((i - 1) % BS) + 1
             to == k * BS
  <2>1. k \in Nat /\ j \in 1..BS /\ i = to + j /\ to \in Nat /\ i \in Nat \ {0} /\ i <= end
    <3>1. i \in Nat \ {0} /\ i <= end
      BY <1>1
    <3> HIDE DEF end
    <3> QED
      BY <3>1, CipherByteIn
  <2> HIDE DEF k, j
  <2>2. CipherByte(g, i) = Block(g, k)[j] /\ CipherByte(f, i) = Block(f, k)[j]
    BY <2>1, CipherByteIs
  <2>3. CASE k = b
    <3>1. to = at
      BY <2>3
    <3>2. j \in 1..Len(d) /\ i = at + j
      <4> HIDE DEF at, end, to
      <4> QED
        BY <1>1, <2>1, <3>1
    <3> HIDE DEF at, end, to
    <3> QED
      BY <1>3, <1>4, <2>2, <2>3, <3>2
  <2>4. CASE k < b
    <3>1. to + BS <= at
      BY <2>1, <2>4, TimesIs
    <3>2. to + BS <= end /\ to + BS <= n
      <4> HIDE DEF at, end, to, n
      <4> QED
        BY <1>1, <2>1, <3>1
    <3>3. Len(Part(f, k)) = BS /\ Len(Part(g, k)) = BS
      BY <1>1, <2>1, <3>2, WholePart
    <3>4. ASSUME NEW h \in 1..BS PROVE g.raw[to + h] = f.raw[to + h]
      <4>1. to + h \in 1..end /\ to + h <= at
        <5> HIDE DEF at, end, to, n
        <5> QED
          BY <1>1, <2>1, <3>1, <3>2
      <4> HIDE DEF at, end, to, n, c
      <4> QED
        BY <1>2, <4>1
    <3>5. Block(g, k) = Block(f, k)
      <4>1. /\ f.raw \in Seq(Cell) /\ g.raw \in Seq(Cell) /\ k \in Nat
            /\ Len(Part(g, k)) = Len(Part(f, k))
            /\ \A h \in 1..Len(Part(f, k)) : g.raw[k * BS + h] = f.raw[k * BS + h]
        BY <2>1, <3>3, <3>4
      <4> QED
        BY ONLY <4>1, BlockOfSame
    <3> QED
      BY <2>2, <3>5
  <2>5. CASE k > b
    <3>1. at + BS <= to
      BY <2>1, <2>5, TimesIs
    <3>2. FALSE
      <4> HIDE DEF at, end, to, n
      <4> QED
        BY <1>1, <2>1, <3>1
    <3> QED
      BY <3>2
  <2> QED
    BY <2>1, <2>3, <2>4, <2>5
<1> QED
  BY <1>1, <1>5

\* The file cut or grown to n bytes, or left as it was where the raw file was not cut.
CipherCut(f, n, g) ==
    /\ g.cblk <= MaxSize
    /\ g.uncut => CL!Same(f, g)
    /\ ~g.uncut => Size(g) = n /\ \A i \in 1..n : CipherByte(g, i) = CL!ByteOr0(f, i)

\* What is known of a file a call works on.
LEMMA CipherSoundIs ==
    ASSUME NEW f, CL!Sound(f)
    PROVE  /\ Well(f) /\ Cached(f) /\ f \in FileSet /\ f.threw = FALSE /\ f.raw \in Seq(Cell)
           /\ Size(f) \in Nat /\ Size(f) = Len(f.raw) /\ f.cblk \in Nat /\ f.cblk <= MaxSize
           /\ f.left \in Nat /\ f.reads \in Nat /\ f.uncut \in BOOLEAN /\ f.cuts \in BOOLEAN
<1>1. CipherGood(f) /\ CL!Cached(f)
  BY DEF CL!Sound
<1>2. Well(f) /\ f.cblk <= MaxSize /\ f \in FileSet
  BY <1>1 DEF CipherGood, Well
<1>3. Cached(f)
  BY <1>1, <1>2, CachedIs
<1>4. /\ f.threw = FALSE /\ f.raw \in Seq(Cell) /\ f.cblk \in Nat
      /\ f.left \in Nat /\ f.reads \in Nat /\ f.uncut \in BOOLEAN /\ f.cuts \in BOOLEAN
  BY <1>2 DEF FileSet
<1>5. Size(f) = Len(f.raw) /\ Len(f.raw) \in Nat
  BY <1>4, LenProperties DEF Size
<1> QED
  BY <1>2, <1>3, <1>4, <1>5

\* A resized file: what stays of the record.
LEMMA ResizedRecord ==
    ASSUME NEW f \in FileSet, NEW n
    PROVE  LET g == Resized(f, n)
           IN g.raw = RawResize(f.raw, n) /\ g.cblk = f.cblk /\ g.uncut = f.uncut
BY DEF Resized, FileSet

\* The number of the block a byte is in is not greater than its place.
LEMMA BlockBefore ==
    ASSUME NEW n \in Nat
    PROVE  /\ n \div BS \in Nat /\ n % BS \in Nat /\ n % BS < BS
           /\ n = (n \div BS) * BS + (n % BS) /\ (n \div BS) * BS \in Nat
           /\ n \div BS <= n
<1> DEFINE q == n \div BS
           r == n % BS
           at == q * BS
<1>1. BS \in Nat \ {0}
  BY BlockAssumption
<1>2. q \in Nat /\ r \in Nat /\ r < BS /\ n = at + r
  BY <1>1, SplitIs
<1>3. at \in Nat /\ q <= at
  <2> HIDE DEF q
  <2>1. q = 0 \/ q >= 1
    BY <1>2
  <2>2. at \in Nat
    BY <1>1, <1>2, TimesIs
  <2>3. q >= 1 => q <= at
    BY <1>1, <1>2, MostIs
  <2> QED
    BY <1>2, <2>1, <2>2, <2>3
<1> HIDE DEF q, r, at
<1>4. q <= n
  BY <1>2, <1>3
<1> QED
  BY <1>2, <1>3, <1>4 DEF q, r, at

\* Beyond the end (BlockFileIO.cpp:388-404, CipherFileIO.cpp:352-373).
LEMMA CipherExtends ==
    ASSUME volume \in Volumes, volume.header, NEW f, CL!Sound(f), ~Unread(f), f.reads >= 1,
           NEW n \in 0..MaxSize, Size(f) < n, f.left >= n + 2
    PROVE  CipherCut(f, n, Resized(CL!TruncateFile(f, n), n))
<1> DEFINE old == Size(f)
           p == CL!PadFile(f, old, n, TRUE)
           t == [p EXCEPT !.uncut = FALSE]
           g == Resized(t, n)
<1>1. CL!LayerKeeps /\ n \in Nat /\ MaxSize \in Nat /\ old \in Nat /\ n \div BS <= MaxSize
  <2>1. CL!LayerKeeps /\ n \in Nat /\ n <= MaxSize /\ MaxSize \in Nat
    BY CipherKeeps, BlockAssumption
  <2>2. n \div BS \in Nat /\ n \div BS <= n
    BY <2>1, BlockBefore
  <2>3. old \in Nat
    BY CipherSoundIs
  <2> DEFINE q == n \div BS
  <2> HIDE DEF q
  <2>4. q <= MaxSize
    <3>1. q \in Nat /\ q <= n
      BY <2>2 DEF q
    <3> QED
      BY <2>1, <3>1
  <2> QED
    BY <2>1, <2>3, <2>4 DEF q
<1>2. CipherReads(f) = f.reads /\ CipherWrites(f) = f.left
  BY DEF CipherReads, CipherWrites
<1>3. /\ CL!Sound(p) /\ CL!Grown(f, p)
      /\ \/ Size(p) = n
         \/ volume.holes /\ n % BS = 0 /\ Size(p) % BS = 0 /\ Size(p) <= n
  <2>1. /\ CL!LayerKeeps /\ CL!Sound(f) /\ ~f.threw /\ CipherReads(f) >= 1
        /\ n \in Nat /\ Size(f) < n /\ n \div BS <= MaxSize /\ TRUE \in BOOLEAN
        /\ TRUE => CipherWrites(f) >= n + 2
    BY <1>1, <1>2, CipherSoundIs
  <2>2. /\ CL!Sound(p) /\ CL!Grown(f, p)
        /\ ~p.threw => \/ Size(p) = n
                       \/ volume.holes /\ n % BS = 0 /\ Size(p) % BS = 0 /\ Size(p) <= n
    BY ONLY <2>1, CL!PadFileIs
  <2> HIDE DEF p
  <2>3. p.threw = FALSE
    BY <2>2, CipherSoundIs
  <2> QED
    BY <2>2, <2>3
<1>4. CL!TruncateFile(f, n) = t
  <2>1. n > old /\ n # old /\ ~(n < old)
    BY <1>1
  <2>2. (IF f.threw THEN f ELSE CutRaw(f, n)) = f
    BY DEF CutRaw
  <2> HIDE DEF old
  <2>3. CL!TruncateFile(f, n) = [CL!PadFile(IF f.threw THEN f ELSE CutRaw(f, n), old, n, TRUE)
                                   EXCEPT !.uncut = FALSE]
    BY <2>1 DEF CL!TruncateFile, old
  <2> QED
    BY <2>2, <2>3
<1> HIDE DEF p
<1>5. p \in FileSet /\ p.cblk <= MaxSize /\ p.raw \in Seq(Cell) /\ Size(p) \in Nat
      /\ Size(p) = Len(p.raw)
  BY <1>3, CipherSoundIs
<1>6. t \in FileSet /\ t.raw = p.raw /\ t.cblk = p.cblk /\ t.uncut = FALSE
  BY <1>5 DEF FileSet
<1> HIDE DEF t
<1>7. g.raw = RawResize(p.raw, n) /\ g.cblk = p.cblk /\ g.uncut = FALSE
  BY <1>6, ResizedRecord
<1> HIDE DEF g
<1>8. /\ Size(p) >= old
      /\ \A i \in 1..Size(p) : CipherByte(p, i) = CL!ByteOr0(f, i)
  BY <1>3 DEF CL!Grown
<1>9. Size(g) = n /\ \A i \in 1..n : CipherByte(g, i) = CL!ByteOr0(f, i)
  <2>1. CASE Size(p) = n
    <3>1. g.raw = p.raw
      BY <1>1, <1>5, <1>7, <2>1, RawResizeIs
    <3>2. Size(g) = Size(p) /\ \A i : CipherByte(g, i) = CipherByte(p, i)
      BY <3>1, SameRaw
    <3> QED
      BY <1>8, <2>1, <3>2
  <2>2. CASE volume.holes /\ n % BS = 0 /\ Size(p) % BS = 0 /\ Size(p) <= n
    <3>1. Size(g) = n /\ \A i \in 1..n : CipherByte(g, i) = CL!ByteOr0(p, i)
      BY <1>1, <1>5, <1>7, <2>2, ResizedBytes
    <3>2. ASSUME NEW i \in 1..n PROVE CL!ByteOr0(p, i) = CL!ByteOr0(f, i)
      <4>1. CASE i <= Size(p)
        <5>1. i \in 1..Size(p)
          BY <1>1, <1>5, <4>1
        <5> QED
          BY <1>8, <4>1, <5>1 DEF CL!ByteOr0
      <4>2. CASE ~(i <= Size(p))
        <5>1. ~(i <= Size(f))
          BY <1>1, <1>5, <1>8, <4>2
        <5> QED
          BY <4>2, <5>1 DEF CL!ByteOr0
      <4> QED
        BY <4>1, <4>2
    <3> QED
      BY <3>1, <3>2
  <2> QED
    BY <1>3, <2>1, <2>2
<1> QED
  BY <1>4, <1>5, <1>7, <1>9 DEF CipherCut, g

\* To a block boundary, or not at all.
LEMMA CipherCuts ==
    ASSUME NEW f, CL!Sound(f), ~f.uncut, NEW n \in Nat, n <= Size(f), n = Size(f) \/ n % BS = 0
    PROVE  CipherCut(f, n, Resized(f, n)) /\ CipherCut(f, n, [f EXCEPT !.uncut = TRUE])
<1> DEFINE g == Resized(f, n)
           h == [f EXCEPT !.uncut = TRUE]
<1>1. /\ f \in FileSet /\ f.raw \in Seq(Cell) /\ Size(f) = Len(f.raw) /\ Size(f) \in Nat
      /\ f.cblk <= MaxSize
  BY CipherSoundIs
<1>2. g.raw = RawResize(f.raw, n) /\ g.cblk = f.cblk /\ g.uncut = f.uncut
  BY <1>1, ResizedRecord
<1>3. h.raw = f.raw /\ h.cblk = f.cblk /\ h.uncut = TRUE
  BY <1>1 DEF FileSet
<1> HIDE DEF g, h
<1>4. Size(g) = n /\ \A i \in 1..n : CipherByte(g, i) = CL!ByteOr0(f, i)
  <2>1. CASE n = Size(f)
    <3>1. g.raw = f.raw
      BY <1>1, <1>2, <2>1, RawResizeIs
    <3>2. Size(g) = Size(f) /\ \A i : CipherByte(g, i) = CipherByte(f, i)
      BY <3>1, SameRaw
    <3>3. \A i \in 1..n : CL!ByteOr0(f, i) = CipherByte(f, i)
      BY <1>1, <2>1 DEF CL!ByteOr0
    <3> QED
      BY <2>1, <3>2, <3>3
  <2>2. CASE n # Size(f)
    <3>1. n % BS = 0 /\ ~(Len(f.raw) < n)
      BY <1>1, <2>2
    <3> QED
      BY <1>1, <1>2, <3>1, ResizedBytes
  <2> QED
    BY <2>1, <2>2
<1>5. CL!Same(f, h)
  BY <1>3, SameRaw
<1> QED
  BY <1>1, <1>2, <1>3, <1>4, <1>5 DEF CipherCut, g, h

\* Inside a block, which is cut and written again.
LEMMA CipherTrims ==
    ASSUME volume \in Volumes, NEW f, CL!Sound(f), ~Unread(f), ~f.uncut, f.cuts,
           f.reads >= 1, f.left >= 1, Size(f) <= MaxSize, NEW n \in 0..MaxSize, n < Size(f),
           n % BS # 0
    PROVE  LET t == CL!TruncateFile(f, n)
           IN CipherCut(f, n, IF volume.header THEN Resized(t, n) ELSE t)
<1> DEFINE old == Size(f)
           b == n \div BS
           m == n % BS
           at == b * BS
           kf == CL!Kept(f, n).f
           d == CL!LeftOf(f, n)
           x == CutRaw(kf, n)
           c == Cells(b, BlockIV, d)
           o == WriteOneBlock(x, b, d)
           t == CL!CacheWrite(x, b, d)
           g == IF volume.header THEN Resized(t, n) ELSE t
<1>1. /\ CL!LayerKeeps /\ n \in Nat /\ MaxSize \in Nat /\ BS \in Nat \ {0}
      /\ f.left \in Nat /\ f.reads \in Nat /\ f.threw = FALSE /\ f.uncut = FALSE
      /\ old \in Nat /\ n < old /\ old <= MaxSize
  <2>1. CL!LayerKeeps /\ MaxSize \in Nat /\ BS \in Nat \ {0}
    BY CipherKeeps, BlockAssumption
  <2>2. f.left \in Nat /\ f.reads \in Nat /\ f.threw = FALSE /\ f.uncut \in BOOLEAN /\ old \in Nat
    BY CipherSoundIs
  <2>3. n \in Nat
    BY <2>1
  <2> QED
    BY <2>1, <2>2, <2>3
<1>2. CipherReads(f) = f.reads /\ CipherWrites(f) = f.left
  BY DEF CipherReads, CipherWrites
<1>3. /\ CL!Sound(kf) /\ CL!Same(f, kf) /\ CipherStays(f, kf) /\ CipherWrites(kf) = CipherWrites(f)
      /\ ~kf.threw => CL!IsPart(d, f, at, m)
  <2>1. /\ CL!LayerKeeps /\ CL!Sound(f) /\ ~f.threw /\ CipherReads(f) >= 1
        /\ Size(f) <= MaxSize /\ n \in Nat /\ n < Size(f) /\ n % BS # 0
    BY <1>1, <1>2
  <2> QED
    BY ONLY <2>1, CL!LeftIs
<1> HIDE DEF kf, d
<1>4. /\ kf \in FileSet /\ Well(kf) /\ kf.threw = FALSE /\ kf.raw \in Seq(Cell) /\ Size(kf) = Len(kf.raw)
      /\ ~Unread(kf) /\ kf.cuts = TRUE /\ kf.uncut = FALSE /\ kf.left >= 1 /\ kf.left \in Nat
      /\ Len(kf.raw) = old
      /\ \A i \in 1..old : CipherByte(kf, i) = CipherByte(f, i)
  <2>1. /\ kf \in FileSet /\ Well(kf) /\ kf.threw = FALSE /\ kf.raw \in Seq(Cell)
        /\ Size(kf) = Len(kf.raw) /\ kf.left \in Nat /\ f.cuts \in BOOLEAN
    BY <1>3, CipherSoundIs
  <2>2. ~Unread(kf) /\ kf.cuts = f.cuts /\ kf.uncut = f.uncut
    BY <1>3 DEF CipherStays
  <2>3. kf.left = f.left
    BY <1>2, <1>3, <2>2 DEF CipherWrites
  <2> QED
    BY <1>1, <1>3, <2>1, <2>2, <2>3 DEF CL!Same
<1>5. /\ b \in Nat /\ m \in Nat /\ m < BS /\ m # 0 /\ at \in Nat /\ n = at + m /\ b <= MaxSize
  <2>1. b \in Nat /\ m \in Nat /\ m < BS /\ n = at + m /\ at \in Nat /\ b <= n
    BY <1>1, BlockBefore
  <2> HIDE DEF b, m, at
  <2> QED
    BY <1>1, <2>1 DEF m
<1>6. CL!IsPart(d, f, at, m) /\ d \in Seq(Int) /\ Len(d) = m /\ d # <<>> /\ Len(d) <= BS
  <2>1. CL!IsPart(d, f, at, m)
    BY <1>3, <1>4
  <2>2. d \in Seq(Int) /\ Len(d) = m
    BY <2>1 DEF CL!IsPart
  <2> HIDE DEF m, at
  <2> QED
    BY <1>1, <1>5, <2>1, <2>2, EmptySeq
<1>7. CL!TruncateFile(f, n) = t
  <2>1. ~(n > old) /\ n # old /\ n < old /\ n % BS # 0
    BY <1>1
  <2> HIDE DEF old
  <2>2. CL!TruncateFile(f, n) = CL!CacheWrite(IF kf.threw THEN kf ELSE CutRaw(kf, n), b, d)
    BY <2>1 DEF CL!TruncateFile, CL!Kept, CL!LeftOf, old, kf, d
  <2> QED
    BY <1>4, <2>2
<1>8. /\ x \in FileSet /\ x.threw = FALSE /\ x.raw \in Seq(Cell) /\ x.left = kf.left /\ x.uncut = FALSE
      /\ x.iv = BlockIV /\ ~Unread(x)
      /\ Len(x.raw) = IF volume.header THEN old ELSE n
      /\ \A i \in 1..n : x.raw[i] = kf.raw[i]
  <2>1. kf.iv = BlockIV
    BY <1>4 DEF Well, Matches, Unread, BlockIV, FileSet
  <2>2. CASE volume.header
    <3>1. x = kf
      BY <2>2 DEF CutRaw
    <3> QED
      BY <1>4, <2>1, <2>2, <3>1
  <2>3. CASE ~volume.header
    <3> DEFINE r == RawResize(kf.raw, n)
    <3>1. n # 0
      BY <1>1, <1>5
    <3>2. x = [kf EXCEPT !.raw = r]
      BY <1>4, <2>3, <3>1 DEF CutRaw, FileSet
    <3>3. r \in Seq(Cell) /\ Len(r) = n /\ \A i \in 1..n : r[i] = kf.raw[i]
      <4>1. \A i \in 1..n : i <= Len(kf.raw)
        BY <1>1, <1>4
      <4> QED
        BY <1>1, <1>4, <4>1, RawResizedIs
    <3> HIDE DEF r, x
    <3>4. /\ x \in FileSet /\ x.threw = FALSE /\ x.raw = r /\ x.left = kf.left /\ x.uncut = FALSE
          /\ x.iv = kf.iv
      BY <1>4, <3>2, <3>3 DEF FileSet
    <3> QED
      BY <2>1, <2>3, <3>3, <3>4 DEF Unread
  <2> QED
    BY <2>2, <2>3
<1> HIDE DEF x
<1>9. c \in Seq(Cell) /\ Len(c) = m
  <2>1. BlockIV \in IVs
    BY DEF BlockIV
  <2> HIDE DEF b
  <2> QED
    BY <1>5, <1>6, <2>1, CellsAre
<1>10. o = RawWrite(x, at, c)
  <2>1. NeedHeader(x) = x
    BY <1>8 DEF NeedHeader, Unread
  <2> QED
    BY <1>8, <2>1 DEF WriteOneBlock
<1>11. /\ o \in FileSet /\ o.uncut = FALSE /\ o.ok
       /\ Len(o.raw) = Len(x.raw)
       /\ \A i \in 1..n : o.raw[i] = IF i <= at THEN kf.raw[i] ELSE c[i - at]
  <2> DEFINE w == RawWrite(x, at, c)
             end == at + Len(c)
  <2>1. /\ w \in FileSet /\ w.uncut = x.uncut
        /\ x.left # 0 =>
             /\ w.ok /\ Len(w.raw) = Most(Len(x.raw), end)
             /\ \A i \in 1..Len(w.raw) :
                  w.raw[i] = IF at < i /\ i <= end THEN c[i - at]
                             ELSE IF i <= Len(x.raw) THEN x.raw[i] ELSE Hole
    <3>1. x \in FileSet /\ at \in Nat /\ c \in Seq(Cell)
      BY <1>5, <1>8, <1>9
    <3> HIDE DEF at, c
    <3> QED
      BY ONLY <3>1, RawPutIs
  <2>2. o = w
    BY <1>10
  <2> HIDE DEF w, o
  <2>3. end = n /\ x.left # 0 /\ n <= Len(x.raw) /\ Len(x.raw) \in Nat
    <3> HIDE DEF at, m, c, old
    <3>1. end = n
      BY <1>1, <1>5, <1>9
    <3>2. Len(x.raw) \in Nat /\ n <= Len(x.raw)
      BY <1>1, <1>8
    <3>3. x.left # 0
      BY <1>4, <1>8
    <3> QED
      BY <3>1, <3>2, <3>3
  <2> HIDE DEF end
  <2>4. Len(w.raw) = Len(x.raw)
    BY <1>1, <2>1, <2>3 DEF Most
  <2>5. ASSUME NEW i \in 1..n PROVE w.raw[i] = IF i <= at THEN kf.raw[i] ELSE c[i - at]
    <3>1. i \in 1..Len(w.raw) /\ i <= n /\ i <= Len(x.raw)
      BY <1>1, <2>3, <2>4
    <3>2. at < i <=> ~(i <= at)
      <4> HIDE DEF at
      <4> QED
        BY <1>1, <1>5
    <3> HIDE DEF at, c
    <3> QED
      BY <1>8, <2>1, <2>3, <3>1, <3>2
  <2> QED
    BY <1>8, <2>1, <2>2, <2>3, <2>4, <2>5
<1> HIDE DEF o
<1>12. t \in FileSet /\ t.raw = o.raw /\ t.cblk = b /\ t.uncut = FALSE
  <2>1. t = [o EXCEPT !.cblk = b, !.cdata = IF o.ok THEN d ELSE <<>>]
    BY <1>8 DEF CL!CacheWrite, o
  <2> HIDE DEF t, b
  <2> QED
    BY <1>5, <1>6, <1>11, <2>1 DEF FileSet
<1> HIDE DEF t
<1>13. /\ g.cblk = b /\ g.uncut = FALSE /\ g.raw \in Seq(Cell) /\ Len(g.raw) = n
       /\ \A i \in 1..n : g.raw[i] = o.raw[i]
  <2>0. o.raw \in Seq(Cell)
    BY <1>11 DEF FileSet
  <2>1. CASE volume.header
    <3> DEFINE r == RawResize(o.raw, n)
    <3>1. r \in Seq(Cell) /\ Len(r) = n /\ \A i \in 1..n : r[i] = o.raw[i]
      <4>1. \A i \in 1..n : i <= Len(o.raw)
        <5>1. Len(o.raw) = old
          BY <1>8, <1>11, <2>1
        <5> HIDE DEF old
        <5> QED
          BY <1>1, <5>1
      <4> QED
        BY <1>1, <2>0, <4>1, RawResizedIs
    <3>2. g = Resized(t, n)
      BY <2>1
    <3>3. Resized(t, n).raw = RawResize(t.raw, n) /\ Resized(t, n).cblk = t.cblk
          /\ Resized(t, n).uncut = t.uncut
      BY <1>12, ResizedRecord
    <3> HIDE DEF r, g, b
    <3> QED
      BY <1>12, <3>1, <3>2, <3>3 DEF r
  <2>2. CASE ~volume.header
    <3>1. g = t
      BY <2>2
    <3> HIDE DEF g, b
    <3> QED
      BY <1>8, <1>11, <1>12, <2>0, <2>2, <3>1
  <2> QED
    BY <2>1, <2>2
<1> HIDE DEF g
<1>14. \A i \in 1..n : CipherByte(g, i) = CipherByte(kf, i)
  <2>1. CL!IsPart(d, kf, at, Len(d))
    <3>1. m = 0 \/ at + m <= Size(f)
      <4> HIDE DEF at, m
      <4> QED
        BY <1>1, <1>5 DEF old
    <3>2. CL!Same(f, kf) /\ Size(f) \in Nat /\ at \in Nat /\ m \in Nat /\ CL!IsPart(d, f, at, m)
      BY <1>1, <1>3, <1>5, <1>6
    <3> HIDE DEF at, m
    <3>3. CL!IsPart(d, kf, at, m)
      BY ONLY <3>1, <3>2, CL!SamePart
    <3> QED
      BY <1>6, <3>3
  <2>2. at + Len(d) = n /\ n <= Len(kf.raw)
    <3> HIDE DEF at, m
    <3> QED
      BY <1>1, <1>4, <1>5, <1>6
  <2>3. \A i \in 1..Len(g.raw) :
          g.raw[i] = IF i <= b * BS THEN kf.raw[i] ELSE Cells(b, BlockIV, d)[i - b * BS]
    BY <1>11, <1>13
  <2>4. /\ kf.raw \in Seq(Cell) /\ g.raw \in Seq(Cell) /\ b \in Nat /\ d \in Seq(Int)
        /\ d # <<>> /\ Len(d) <= BS /\ CL!IsPart(d, kf, b * BS, Len(d))
        /\ b * BS + Len(d) <= Len(kf.raw) /\ Len(g.raw) = b * BS + Len(d)
    BY <1>4, <1>5, <1>6, <1>13, <2>1, <2>2
  <2> HIDE DEF b, at, m, c
  <2>5. \A i \in 1..Len(g.raw) : CipherByte(g, i) = CipherByte(kf, i)
    BY ONLY <2>3, <2>4, TrimmedBytes
  <2> QED
    BY <1>13, <2>5
<1>15. \A i \in 1..n : CipherByte(g, i) = CL!ByteOr0(f, i)
  <2>1. ASSUME NEW i \in 1..n PROVE CipherByte(g, i) = CL!ByteOr0(f, i)
    <3>1. i \in 1..old /\ i <= Size(f)
      BY <1>1
    <3> QED
      BY <1>4, <1>14, <3>1 DEF CL!ByteOr0
  <2> QED
    BY <2>1
<1>16. Size(g) = n
  BY <1>13 DEF Size
<1>17. CipherCut(f, n, g)
  <2> HIDE DEF b
  <2> QED
    BY <1>5, <1>13, <1>15, <1>16 DEF CipherCut
<1> QED
  BY <1>7, <1>17 DEF g

\* truncate, below its end, at its end and beyond it, of a file whose header is read or
\* written first where it has to be.
LEMMA CipherTruncateIs ==
    ASSUME volume \in Volumes, NEW f, CL!Sound(f), ~f.uncut, Size(f) <= MaxSize,
           f.left = Plenty, f.reads = Plenty, NEW n \in 0..MaxSize,
           ~f.cuts /\ n # Len(f.raw) => ~volume.header /\ n % BS = 0,
           n > Len(f.raw) => volume.header,
           n < Len(f.raw) /\ n = 0 => volume.header
    PROVE  CipherCut(f, n, TruncateFile(f, n))
<1> DEFINE e == NeedHeader(f)
           old == Size(f)
           t == CL!TruncateFile(e, n)
           g == TruncateFile(f, n)
<1>1. /\ CL!LayerKeeps /\ n \in Nat /\ MaxSize \in Nat /\ n <= MaxSize
      /\ CipherGood(f) /\ old \in Nat /\ old = Len(f.raw) /\ f.uncut = FALSE /\ f.cuts \in BOOLEAN
      /\ f.raw \in Seq(Cell)
  <2>1. CL!LayerKeeps /\ MaxSize \in Nat
    BY CipherKeeps, BlockAssumption
  <2>2. old \in Nat /\ old = Len(f.raw) /\ f.uncut \in BOOLEAN /\ f.cuts \in BOOLEAN
        /\ f.raw \in Seq(Cell)
    BY CipherSoundIs
  <2>3. CipherGood(f)
    BY DEF CL!Sound
  <2> QED
    BY <2>1, <2>2, <2>3
<1>2. g = IF volume.header /\ f.cuts THEN Resized(t, n) ELSE t
  <2>1. IO!TruncateFile(e, n) = t
    BY CipherCallsAre
  <2>2. g = IF volume.header /\ f.cuts
              THEN [IO!TruncateFile(e, n) EXCEPT !.raw = RawResize(@, n)]
              ELSE IO!TruncateFile(e, n)
    BY DEF TruncateFile
  <2>3. [t EXCEPT !.raw = RawResize(@, n)] = [t EXCEPT !.raw = RawResize(t.raw, n)]
    OBVIOUS
  <2> HIDE DEF t, e, g
  <2> QED
    BY <2>1, <2>2, <2>3 DEF Resized
<1> HIDE DEF g, t
<1>3. /\ CipherGood(e) /\ ~Unread(e) /\ Beside(f, e)
      /\ e.cblk = f.cblk /\ e.cdata = f.cdata
      /\ e.left = CipherWrites(f) /\ e.reads >= CipherReads(f)
  BY <1>1, HeaderCost
<1> HIDE DEF e
<1>4. /\ e.raw = f.raw /\ e.uncut = FALSE /\ e.cuts = f.cuts
  BY <1>1, <1>3 DEF Beside
<1>5. /\ CL!Same(f, e) /\ Size(e) = old
      /\ \A i : CipherByte(e, i) = CipherByte(f, i)
  BY <1>4, SameRaw
<1>6. CL!Sound(e) /\ e.threw = FALSE /\ e \in FileSet
  <2>1. CL!Sound(e)
    BY <1>1, <1>3, <1>5, CL!StillCached
  <2> QED
    BY <2>1, CipherSoundIs
<1>7. n >= 1 => e.reads >= 1 /\ e.left >= n + 2
  <2>1. CipherReads(f) >= Plenty - 2 /\ CipherWrites(f) >= Plenty - 1
    BY PlentyIs DEF CipherReads, CipherWrites
  <2>2. Plenty = 2 * MaxSize + 2 /\ e.reads \in Nat /\ e.left \in Nat
    BY <1>6 DEF Plenty, FileSet
  <2>3. CipherReads(f) \in Int /\ CipherWrites(f) \in Int
    BY PlentyIs DEF CipherReads, CipherWrites
  <2> QED
    BY <1>1, <1>3, <2>1, <2>2, <2>3
<1>8. CipherCut(e, n, g)
  <2>1. CASE n > old
    <3>1. volume.header /\ f.cuts
      BY <1>1, <2>1
    <3>2. n >= 1 /\ Size(e) < n
      BY <1>1, <1>5, <2>1
    <3>3. e.reads >= 1 /\ e.left >= n + 2
      BY <1>7, <3>2
    <3>4. CipherCut(e, n, Resized(CL!TruncateFile(e, n), n))
      BY <1>3, <1>6, <3>1, <3>2, <3>3, CipherExtends
    <3> QED
      BY <1>2, <3>1, <3>4 DEF t
  <2>2. CASE n = old
    <3>1. t = e
      <4>1. ~(n > old) /\ n = Size(e)
        BY <1>1, <1>5, <2>2
      <4>2. ~(n > Size(e))
        BY <1>5, <4>1
      <4> QED
        BY <4>1, <4>2 DEF t, CL!TruncateFile
    <3>2. CASE volume.header /\ f.cuts
      <4>1. n <= Size(e) /\ n = Size(e)
        BY <1>1, <1>5, <2>2
      <4>2. CipherCut(e, n, Resized(e, n))
        BY <1>1, <1>4, <1>6, <4>1, CipherCuts
      <4> QED
        BY <1>2, <3>1, <3>2, <4>2
    <3>3. CASE ~(volume.header /\ f.cuts)
      <4>1. g = e /\ e.cblk <= MaxSize
        <5>1. e.cblk <= MaxSize
          BY <1>6, CipherSoundIs
        <5> QED
          BY <1>2, <3>1, <3>3, <5>1
      <4>2. \A i \in 1..n : CipherByte(e, i) = CL!ByteOr0(e, i)
        BY <1>1, <1>5, <2>2 DEF CL!ByteOr0
      <4> QED
        BY <1>4, <1>5, <2>2, <4>1, <4>2 DEF CipherCut
    <3> QED
      BY <3>2, <3>3
  <2>3. CASE n < old /\ n % BS = 0
    <3>1. t = CutRaw(e, n)
      <4>1. ~(n > Size(e)) /\ n # Size(e) /\ n < Size(e)
        BY <1>1, <1>5, <2>3
      <4> QED
        BY <1>6, <2>3, <4>1 DEF t, CL!TruncateFile
    <3>2. g = Resized(e, n) \/ g = [e EXCEPT !.uncut = TRUE]
      <4>1. CASE volume.header
        <5>1. f.cuts /\ t = e
          BY <1>1, <2>3, <3>1, <4>1 DEF CutRaw
        <5> QED
          BY <1>2, <4>1, <5>1
      <4>2. CASE ~volume.header
        <5>1. n # 0
          BY <1>1, <2>3, <4>2
        <5>2. t = IF e.cuts THEN Resized(e, n) ELSE [e EXCEPT !.uncut = TRUE]
          BY <3>1, <4>2, <5>1 DEF CutRaw, Resized
        <5> QED
          BY <1>2, <4>2, <5>2
      <4> QED
        BY <4>1, <4>2
    <3>3. CipherCut(e, n, Resized(e, n)) /\ CipherCut(e, n, [e EXCEPT !.uncut = TRUE])
      <4>1. n <= Size(e)
        BY <1>1, <1>5, <2>3
      <4> QED
        BY <1>1, <1>4, <1>6, <2>3, <4>1, CipherCuts
    <3> QED
      BY <3>2, <3>3
  <2>4. CASE n < old /\ n % BS # 0
    <3>1. f.cuts /\ e.cuts
      BY <1>1, <1>4, <2>4
    <3>2. n >= 1
      BY <1>1, <2>4, BlockAssumption
    <3>3. e.reads >= 1 /\ e.left >= 1 /\ Size(e) <= MaxSize /\ n < Size(e)
      <4>1. e.left >= n + 2
        BY <1>7, <3>2
      <4>2. e.left \in Nat
        BY <1>6 DEF FileSet
      <4>3. e.left >= 1
        BY <1>1, <4>1, <4>2
      <4> QED
        BY <1>5, <1>7, <2>4, <3>2, <4>3
    <3>4. CipherCut(e, n, IF volume.header THEN Resized(CL!TruncateFile(e, n), n)
                          ELSE CL!TruncateFile(e, n))
      BY <1>3, <1>4, <1>6, <2>4, <3>1, <3>3, CipherTrims
    <3> QED
      BY <1>2, <3>1, <3>4 DEF t
  <2> HIDE DEF old
  <2> QED
    BY <1>1, <2>1, <2>2, <2>3, <2>4
<1>9. ASSUME NEW i PROVE CL!ByteOr0(e, i) = CL!ByteOr0(f, i)
  BY <1>5 DEF CL!ByteOr0
<1>10. g.uncut => CL!Same(f, g)
  BY <1>5, <1>8, CL!SameAsSame DEF CipherCut
<1> QED
  BY <1>8, <1>9, <1>10 DEF CipherCut, g

----------------------------------------------------------------------------
(* The calls do what PlainFile promises.                                   *)

\* The plain bytes of a file.
CipherPlain(f) == [k \in 1..Size(f) |-> CipherByte(f, k)]

LEMMA CipherPlainIs ==
    ASSUME NEW f, f.raw \in Seq(Cell)
    PROVE  /\ CipherPlain(f) \in Seq(Int) /\ Len(CipherPlain(f)) = Size(f) /\ Size(f) \in Nat
           /\ \A i \in 1..Size(f) : CipherPlain(f)[i] = CipherByte(f, i)
<1> DEFINE n == Size(f)
           p == [k \in 1..n |-> CipherByte(f, k)]
<1>1. n \in Nat /\ n = Len(f.raw)
  BY LenProperties DEF Size
<1>2. \A i \in 1..n : CipherByte(f, i) \in Int
  BY <1>1, CipherBytes
<1> HIDE DEF n
<1>3. p \in [1..n -> Int]
  BY <1>2
<1>4. p \in Seq(Int)
  BY <1>1, <1>3, SeqDef
<1>5. Len(p) = n
  BY <1>1, <1>3, <1>4, LenProperties
<1> QED
  BY <1>1, <1>4, <1>5 DEF CipherPlain, n

\* The same bytes are the same content.
LEMMA CipherSamePlain ==
    ASSUME NEW f, NEW g, CL!Same(f, g)
    PROVE  CipherPlain(g) = CipherPlain(f)
BY DEF CL!Same, CipherPlain

\* Between two calls, beside what BlockInv says, the file and the place of the cache are
\* not larger than the callers make them.
CipherInv == BlockInv /\ Len(raw) <= MaxSize /\ node.cblk <= MaxSize

\* What is there between two calls.
LEMMA CipherRestIs ==
    ASSUME CipherInv
    PROVE  /\ volume \in Volumes /\ Resting.raw = raw /\ raw \in Seq(Cell)
           /\ Size(Resting) = Len(raw) /\ Len(raw) \in Nat /\ Len(raw) <= MaxSize
           /\ CipherPlain(Resting) \in Seq(Int) /\ Len(CipherPlain(Resting)) = Len(raw)
           /\ \A i \in 1..Len(raw) : CipherPlain(Resting)[i] = CipherByte(Resting, i)
<1>1. volume \in Volumes /\ Resting.raw = raw /\ raw \in Seq(Cell) /\ Len(raw) <= MaxSize
  BY DEF CipherInv, BlockInv, Resting, Current
<1>2. Size(Resting) = Len(raw)
  BY <1>1 DEF Size
<1>3. /\ CipherPlain(Resting) \in Seq(Int) /\ Len(CipherPlain(Resting)) = Size(Resting)
      /\ Size(Resting) \in Nat
      /\ \A i \in 1..Size(Resting) : CipherPlain(Resting)[i] = CipherByte(Resting, i)
  BY <1>1, CipherPlainIs
<1> QED
  BY <1>1, <1>2, <1>3

\* What a call finds of the file it works on.
CalledOn(f, left, reads, cuts) ==
    /\ Ready(f, 1) => CL!Sound(f)
    /\ Well(f) /\ Cached(f)
    /\ f.threw = FALSE /\ f.uncut = FALSE /\ f.raw = raw /\ f.hdr = hdr
    /\ f.iv = node.iv /\ f.left = left /\ f.reads = reads /\ f.cuts = cuts
    /\ CipherPlain(f) = CipherPlain(Resting)
    /\ Size(f) = Len(raw) /\ Size(f) \in Nat /\ Size(f) <= MaxSize

LEMMA CipherCurrentIs ==
    ASSUME CipherInv, moving = 0, NEW left \in Nat, NEW reads \in Nat, NEW cuts \in BOOLEAN
    PROVE  CalledOn(Current(left, reads, cuts), left, reads, cuts)
<1> DEFINE f == Current(left, reads, cuts)
<1>1. f.threw = FALSE /\ f.uncut = FALSE
  BY DEF Current
<1>2. BlockInv /\ node.cblk <= MaxSize
  BY DEF CipherInv
<1>3. /\ Well(f) /\ Cached(f) /\ f.raw = raw /\ f.hdr = hdr /\ f.iv = node.iv
      /\ f.left = left /\ f.reads = reads /\ f.cuts = cuts
      /\ f.cblk = node.cblk
  BY <1>2, CurrentIs
<1> HIDE DEF f
<1>4. Ready(f, 1) => CL!Sound(f)
  <2> SUFFICES ASSUME Ready(f, 1) PROVE CL!Sound(f)
    OBVIOUS
  <2>1. CipherGood(f)
    BY <1>2, <1>3 DEF CipherGood
  <2>2. CL!Cached(f)
    BY <1>3, CachedIs
  <2> QED
    BY <2>1, <2>2 DEF CL!Sound
<1>5. Resting.raw = raw /\ Size(Resting) = Len(raw) /\ Len(raw) \in Nat /\ Len(raw) <= MaxSize
  BY CipherRestIs
<1>6. CL!Same(Resting, f) /\ Size(f) = Size(Resting)
  BY <1>3, <1>5, SameRaw
<1>7. CipherPlain(f) = CipherPlain(Resting)
  BY <1>6, CipherSamePlain
<1> QED
  BY <1>1, <1>3, <1>4, <1>5, <1>6, <1>7 DEF f, CalledOn

\* What a call leaves sound is what there is afterwards.
LEMMA CipherCommits ==
    ASSUME CipherInv, moving = 0, NEW f, Well(f), Cached(f), f.cblk <= MaxSize,
           Size(f) <= MaxSize, Commit(f)
    PROVE  CipherInv' /\ CipherPlain(Resting)' = CipherPlain(f)
<1> DEFINE e == Resting'
<1>1. BlockInv'
  BY CommitKeeps DEF CipherInv
<1>2. raw' = f.raw /\ node'.cblk = f.cblk /\ volume' = volume
  BY DEF Commit
<1>3. CipherInv'
  BY <1>1, <1>2 DEF CipherInv, Size
<1>4. e.raw = f.raw
  BY <1>2 DEF Resting, Current
<1> HIDE DEF e
<1>5. CipherPlain(Resting)' = CipherPlain(f)
  BY <1>2, <1>4 DEF CipherPlain, CipherByte, Size, Block, Part, Decode, BlockIV, e
<1> QED
  BY <1>3, <1>5

\* No call of the unsafe ones: what a volume's files promise is promised of the others.
LEMMA SafeIs ==
    ASSUME Unsafe = {}
    PROVE  Calm /\ "past end" \notin Unsafe /\ "short read" \notin Unsafe
BY DEF Calm

\* More than enough raw reads and writes.
LEMMA PlentyFor ==
    ASSUME NEW n \in Nat, n >= 1, n <= MaxSize
    PROVE  Plenty \in Nat /\ Plenty - 2 >= n + 1 /\ Plenty = 2 * MaxSize + 2 /\ MaxSize \in Nat
BY BlockAssumption DEF Plenty

\* read returns the bytes there are, or fails (BlockFileIO.cpp:54-87, 102-173).
LEMMA CallReads ==
    ASSUME CipherInv, Unsafe = {}, Read
    PROVE  /\ CipherInv' /\ CipherPlain(Resting)' = CipherPlain(Resting)
           /\ \E off \in 0..MaxSize, n \in Sizes :
                \/ ret' = Failed(<<"read", off, n>>)
                \/ ret' = Gave(<<"read", off, n>>, Plain!Slice(CipherPlain(Resting), off, n))
<1>0. moving = 0
  BY SafeIs, CalmIs, Zenon DEF Read, MayRun
<1>1. PICK off \in 0..MaxSize, n \in Sizes, reads \in {0, 1, Plenty} :
        /\ off < Len(raw)
        /\ reads # Plenty => off % BS = 0 /\ n <= BS
        /\ reads # Plenty => ~(hdr # NoHdr /\ node.iv = Unknown)
        /\ Commit(IO!ReadFile(Current(Plenty, reads, TRUE), off, n).f)
        /\ ret' = IF IO!ReadFile(Current(Plenty, reads, TRUE), off, n).failed
                  THEN Failed(<<"read", off, n>>)
                  ELSE Gave(<<"read", off, n>>,
                            IO!ReadFile(Current(Plenty, reads, TRUE), off, n).data)
  BY SafeIs, CalmIs, Zenon DEF Read
<1> DEFINE f == Current(Plenty, reads, TRUE)
           r == CL!ReadFile(f, off, n)
           s == CipherPlain(Resting)
           size == Size(f)
<1>2. off \in Nat /\ n \in Nat /\ reads \in Nat /\ Plenty \in Nat /\ MaxSize \in Nat
  BY PlentyIs, BlockAssumption
<1>3. /\ Ready(f, 1) => CL!Sound(f)
      /\ Well(f) /\ f.threw = FALSE /\ f.raw = raw /\ f.hdr = hdr /\ f.iv = node.iv
      /\ f.left = Plenty /\ f.reads = reads /\ CipherPlain(f) = s
      /\ size = Len(raw) /\ size \in Nat /\ size <= MaxSize
  <2>1. CalledOn(Current(Plenty, reads, TRUE), Plenty, reads, TRUE)
    BY <1>0, <1>2, CipherCurrentIs, Zenon
  <2> HIDE DEF f
  <2> QED
    BY <2>1 DEF CalledOn, f
<1>4. off < size
  BY <1>1, <1>3
<1>5. IO!ReadFile(f, off, n) = r
  BY CipherCallsAre
<1>6. /\ Commit(r.f)
      /\ ret' = IF r.failed THEN Failed(<<"read", off, n>>) ELSE Gave(<<"read", off, n>>, r.data)
  BY <1>1, <1>5
<1> HIDE DEF f, r
<1>7. Plenty - 2 >= size + 1
  <2>1. size >= 1
    BY <1>2, <1>3, <1>4
  <2> HIDE DEF size
  <2> QED
    BY <1>3, <2>1, PlentyFor
<1>8. CL!Sound(f)
  BY <1>1, <1>2, <1>3, <1>7 DEF Ready, Unread
<1>9. CipherReads(f) >= 0 /\ ((off % BS = 0 /\ n <= BS) \/ CipherReads(f) >= size + 1)
  <2>1. CASE reads = Plenty
    <3>1. CipherReads(f) = Plenty \/ CipherReads(f) = Plenty - 2
      BY <1>3, <2>1 DEF CipherReads
    <3> HIDE DEF size
    <3> QED
      BY <1>2, <1>3, <1>7, <3>1
  <2>2. CASE reads # Plenty
    <3>1. CipherReads(f) = reads
      BY <1>1, <1>3, <2>2 DEF CipherReads, Unread
    <3> QED
      BY <1>1, <1>2, <2>2, <3>1
  <2> QED
    BY <2>1, <2>2
<1>10. /\ CL!Sound(r.f) /\ CL!Same(f, r.f) /\ r.failed \in BOOLEAN
       /\ ~r.failed => CL!IsPart(r.data, f, off, CL!Least(n, size - off))
  <2>1. CL!LayerKeeps
    BY CipherRestIs, CipherKeeps
  <2>2. /\ CL!Sound(f) /\ ~f.threw /\ CipherReads(f) >= 0 /\ off < Size(f) /\ Size(f) <= MaxSize
        /\ (off % BS = 0 /\ n <= BS) \/ CipherReads(f) >= Size(f) + 1
    BY <1>3, <1>4, <1>8, <1>9
  <2>3. /\ CL!Sound(CL!ReadFile(f, off, n).f) /\ CL!Same(f, CL!ReadFile(f, off, n).f)
        /\ CL!ReadFile(f, off, n).failed \in BOOLEAN
        /\ ~CL!ReadFile(f, off, n).failed =>
             CL!IsPart(CL!ReadFile(f, off, n).data, f, off, CL!Least(n, Size(f) - off))
    BY ONLY <1>2, <2>1, <2>2, CL!ReadFileIs
  <2> QED
    BY <2>3 DEF r
<1>11. CipherPlain(r.f) = s /\ Size(r.f) = size
  BY <1>3, <1>10, CipherSamePlain DEF CL!Same
<1>12. CipherInv' /\ CipherPlain(Resting)' = s
  <2>1. Well(r.f) /\ Cached(r.f) /\ r.f.cblk <= MaxSize
    BY <1>10, CipherSoundIs
  <2>2. CipherInv' /\ CipherPlain(Resting)' = CipherPlain(r.f)
    <3>1. Size(r.f) <= MaxSize
      BY <1>3, <1>11
    <3> QED
      BY <1>0, <1>6, <2>1, <3>1, CipherCommits
  <2> QED
    BY <1>11, <2>2
<1>13. ASSUME ~r.failed PROVE r.data = Plain!Slice(s, off, n)
  <2> DEFINE d == r.data
  <2>1. /\ d \in Seq(Int) /\ Len(d) = CL!Least(n, size - off)
        /\ \A i \in 1..Len(d) : d[i] = CipherByte(f, off + i)
    BY <1>10, <1>13 DEF CL!IsPart
  <2>2. /\ s \in Seq(Int) /\ Len(s) = size /\ \A i \in 1..size : s[i] = CipherByte(f, i)
    <3>1. CipherPlain(f) = s /\ f.raw \in Seq(Cell)
      BY <1>3, <1>8, CipherSoundIs
    <3> HIDE DEF s, size
    <3> QED
      BY <3>1, CipherPlainIs DEF size
  <2> HIDE DEF d, s, size
  <2>3. Len(d) = Least(n, Len(s) - off) /\ Len(d) \in Nat /\ Len(d) <= size - off
    BY <1>2, <1>3, <1>4, <2>1, <2>2 DEF CL!Least, Least
  <2>4. ASSUME NEW i \in 1..Len(d) PROVE d[i] = s[off + i]
    <3> DEFINE x == off + i
    <3>1. x \in 1..size
      BY <1>2, <1>3, <2>3
    <3>2. d[i] = CipherByte(f, x)
      BY <2>1
    <3> HIDE DEF x
    <3>3. s[x] = d[i]
      BY <2>2, <3>1, <3>2
    <3> QED
      BY <3>3 DEF x
  <2>5. d = Raw!Plain!Slice(s, off, n)
    BY <1>2, <1>4, <2>1, <2>2, <2>3, <2>4, SliceOf
  <2> QED
    BY <2>5, SamePlain DEF d
<1> QED
  BY <1>6, <1>12, <1>13

\* write puts the bytes there, and zeros before them, or fails and has done so up to
\* some point (BlockFileIO.cpp:175-271).
LEMMA CallWrites ==
    ASSUME CipherInv, Unsafe = {}, Write
    PROVE  /\ CipherInv'
           /\ \E off \in 0..MaxSize, data \in Data :
                LET s == CipherPlain(Resting)
                    o == Plain!Overlay(s, off, data)
                IN \/ /\ ret' = Ok(<<"write", off, data>>)
                      /\ CipherPlain(Resting)' = o
                   \/ /\ ret' = Failed(<<"write", off, data>>)
                      /\ \E m \in 0..(off + Len(data)) :
                           CipherPlain(Resting)' = Plain!UpTo(m, o, s)
<1>0. moving = 0
  BY SafeIs, CalmIs, Zenon DEF Write, MayRun
<1>1. PICK data \in Data, off \in 0..MaxSize, left \in {0, 1, Plenty}, reads \in {0, Plenty} :
        /\ off + Len(data) <= MaxSize
        /\ volume.header /\ hdr = NoHdr => left # 0
        /\ reads = Plenty
        /\ Commit(IO!WriteFile(Current(left, reads, TRUE), off, data))
        /\ ret' = IF IO!WriteFile(Current(left, reads, TRUE), off, data).ok
                  THEN Ok(<<"write", off, data>>) ELSE Failed(<<"write", off, data>>)
  BY SafeIs, CalmIs, Zenon DEF Write
<1> DEFINE f == Current(left, reads, TRUE)
           g == CL!WriteFile(f, off, data)
           s == CipherPlain(Resting)
           t == CipherPlain(g)
           size == Size(f)
           end == off + Len(data)
<1>2. /\ off \in Nat /\ reads \in Nat /\ left \in Nat /\ Plenty \in Nat
      /\ MaxSize \in Nat /\ reads = Plenty /\ end <= MaxSize
  BY <1>1, PlentyIs
<1>3. data \in Seq(Int) /\ data # <<>> /\ Len(data) \in Nat /\ Len(data) >= 1 /\ end \in Nat
  <2>1. data \in Seq(Nat) /\ data # <<>>
    BY BlockAssumption
  <2>2. data \in [1..Len(data) -> Nat] /\ Len(data) \in Nat
    BY <2>1, LenProperties
  <2>3. data \in [1..Len(data) -> Int]
    BY <2>2
  <2>4. data \in Seq(Int)
    BY <2>2, <2>3, SeqDef
  <2>5. Len(data) >= 1
    BY <2>1, <2>2, EmptySeq
  <2> QED
    BY <1>2, <2>1, <2>2, <2>4, <2>5
<1>4. /\ Ready(f, 1) => CL!Sound(f)
      /\ f.threw = FALSE /\ f.raw = raw /\ f.hdr = hdr /\ f.iv = node.iv
      /\ f.left = left /\ f.reads = Plenty /\ CipherPlain(f) = s
      /\ size = Len(raw) /\ size \in Nat /\ size <= MaxSize
  <2>2. /\ Ready(f, 1) => CL!Sound(f)
        /\ f.threw = FALSE /\ f.raw = raw /\ f.hdr = hdr /\ f.iv = node.iv
        /\ f.left = left /\ f.reads = reads /\ CipherPlain(f) = s
        /\ size = Len(raw) /\ size \in Nat /\ size <= MaxSize
    <3>1. CalledOn(Current(left, reads, TRUE), left, reads, TRUE)
      BY <1>0, <1>2, CipherCurrentIs, Zenon
    <3> HIDE DEF f
    <3> QED
      BY <3>1 DEF CalledOn, f
  <2> HIDE DEF f, s, size
  <2> QED
    BY <1>2, <2>2
<1>5. IO!WriteFile(f, off, data) = g
  BY CipherCallsAre
<1>6. /\ Commit(g)
      /\ ret' = IF g.ok THEN Ok(<<"write", off, data>>) ELSE Failed(<<"write", off, data>>)
  BY <1>1, <1>5
<1>7. volume \in Volumes /\ CL!LayerKeeps
  BY CipherRestIs, CipherKeeps
<1> HIDE DEF f
<1>8. CL!Sound(f)
  <2>1. Ready(f, 1)
    BY <1>1, <1>2, <1>4, PlentyIs DEF Ready, Unread
  <2> QED
    BY <1>4, <2>1
<1>9. CipherReads(f) >= Len(data) + 1
  <2>1. Len(data) <= MaxSize
    BY <1>2, <1>3
  <2>2. Plenty - 2 >= Len(data) + 1
    BY <1>3, <2>1, PlentyFor
  <2>3. CipherReads(f) = Plenty \/ CipherReads(f) = Plenty - 2
    BY <1>4 DEF CipherReads
  <2> QED
    BY <1>2, <1>3, <2>2, <2>3
<1>10. PICK m \in 0..end :
        /\ CL!Sound(g) /\ Size(g) = CL!Most(size, m)
        /\ \A i \in 1..Size(g) :
             CipherByte(g, i) = IF i <= m /\ i \in off + 1 .. end THEN data[i - off]
                                ELSE CL!ByteOr0(f, i)
        /\ g.ok /\ ~g.threw => m = end
  <2>1. /\ CL!Sound(f) /\ ~f.threw /\ off \in Nat /\ data \in Seq(Int) /\ data # <<>>
        /\ CipherReads(f) >= Len(data) + 1 /\ off + Len(data) <= MaxSize
    BY <1>2, <1>3, <1>4, <1>8, <1>9
  <2>2. \E m \in 0..(off + Len(data)) :
          /\ CL!Sound(CL!WriteFile(f, off, data)) /\ CipherStays(f, CL!WriteFile(f, off, data))
          /\ Size(CL!WriteFile(f, off, data)) = CL!Most(Size(f), m)
          /\ \A i \in 1..Size(CL!WriteFile(f, off, data)) :
               CipherByte(CL!WriteFile(f, off, data), i)
                 = IF i <= m /\ i \in off + 1 .. off + Len(data) THEN data[i - off]
                   ELSE CL!ByteOr0(f, i)
          /\ CL!WriteFile(f, off, data).ok /\ ~CL!WriteFile(f, off, data).threw
               => m = off + Len(data)
    BY ONLY <1>7, <2>1, CL!WriteFileIs
  <2> QED
    BY <2>2
<1> HIDE DEF g
<1>11. m \in Nat /\ m <= end
  BY <1>3
<1>12. /\ Well(g) /\ Cached(g) /\ g.cblk <= MaxSize /\ g.threw = FALSE /\ g.raw \in Seq(Cell)
       /\ Size(g) <= MaxSize
  <2>1. /\ Well(g) /\ Cached(g) /\ g.cblk <= MaxSize /\ g.threw = FALSE /\ g.raw \in Seq(Cell)
    BY <1>10, CipherSoundIs
  <2> HIDE DEF size, end
  <2>2. Size(g) <= MaxSize
    BY <1>2, <1>3, <1>4, <1>10, <1>11 DEF CL!Most
  <2> QED
    BY <2>1, <2>2
<1>13. CipherInv' /\ CipherPlain(Resting)' = t
  BY <1>0, <1>6, <1>12, CipherCommits
<1>14. /\ s \in Seq(Int) /\ Len(s) = size /\ \A i \in 1..size : s[i] = CipherByte(f, i)
  <2>1. CipherPlain(f) = s /\ f.raw \in Seq(Cell)
    BY <1>4, <1>8, CipherSoundIs
  <2> HIDE DEF s, size
  <2> QED
    BY <2>1, CipherPlainIs DEF size
<1>15. /\ t \in Seq(Int) /\ Len(t) = Size(g)
       /\ \A i \in 1..Size(g) : t[i] = CipherByte(g, i)
  BY <1>12, CipherPlainIs
<1>16. Len(t) = Most(Len(s), m)
  BY <1>10, <1>14, <1>15 DEF CL!Most, Most
<1>17. ASSUME NEW i \in 1..Len(t)
       PROVE  t[i] = IF i <= m /\ off < i /\ i <= end THEN data[i - off]
                     ELSE IF i <= Len(s) THEN s[i] ELSE 0
  <2>0. Len(t) \in Nat
    BY <1>15, LenProperties
  <2>1. i \in Nat /\ 1 <= i
    BY <2>0
  <2>2. t[i] = IF i <= m /\ i \in off + 1 .. end THEN data[i - off] ELSE CL!ByteOr0(f, i)
    BY <1>10, <1>15
  <2>3. CL!ByteOr0(f, i) = IF i <= Len(s) THEN s[i] ELSE 0
    BY <1>4, <1>14, <2>1 DEF CL!ByteOr0
  <2>4. i \in off + 1 .. end <=> off < i /\ i <= end
    BY <1>2, <1>3, <2>1
  <2> HIDE DEF t, s, end
  <2> QED
    BY <2>2, <2>3, <2>4
<1> HIDE DEF t, s, size
<1>18. CASE g.ok
  <2>1. m = end
    BY <1>10, <1>12, <1>18
  <2>2. Len(t) = Most(Len(s), off + Len(data))
    BY <1>16, <2>1
  <2>3. ASSUME NEW i \in 1..Len(t)
        PROVE  t[i] = IF off < i /\ i <= off + Len(data) THEN data[i - off]
                      ELSE IF i <= Len(s) THEN s[i] ELSE 0
    BY <1>17, <2>1
  <2>4. t = Raw!Plain!Overlay(s, off, data)
    BY ONLY <1>2, <1>3, <1>14, <1>15, <2>2, <2>3, OverlayOf
  <2>5. t = Plain!Overlay(s, off, data)
    BY <2>4, SamePlain
  <2> QED
    BY <1>6, <1>13, <1>18, <2>5 DEF s, t
<1>19. CASE ~g.ok
  <2>1. ASSUME NEW i \in 1..Len(t)
        PROVE  t[i] = IF i <= m /\ off < i /\ i <= off + Len(data) THEN data[i - off]
                      ELSE IF i <= Len(s) THEN s[i] ELSE 0
    BY <1>17
  <2>0. /\ s \in Seq(Int) /\ off \in Nat /\ data \in Seq(Int) /\ t \in Seq(Int)
        /\ m \in 0..(off + Len(data)) /\ Len(t) = Most(Len(s), m)
    BY <1>2, <1>3, <1>14, <1>15, <1>16
  <2>2. t = Raw!Plain!UpTo(m, Raw!Plain!Overlay(s, off, data), s)
    BY ONLY <2>0, <2>1, UpToOf
  <2>3. t = Plain!UpTo(m, Plain!Overlay(s, off, data), s)
    BY <2>2, SamePlain
  <2> QED
    BY <1>6, <1>13, <1>19, <2>3 DEF s, t
<1> QED
  BY <1>18, <1>19

\* truncate cuts the bytes there are or adds zeros, or fails and has done nothing
\* (BlockFileIO.cpp:376-429, CipherFileIO.cpp:352-373).
LEMMA CallTruncates ==
    ASSUME CipherInv, Unsafe = {}, Truncate
    PROVE  /\ CipherInv'
           /\ \E n \in 0..MaxSize :
                \/ /\ ret' = Ok(<<"truncate", n>>)
                   /\ CipherPlain(Resting)' = Plain!Cut(CipherPlain(Resting), n)
                \/ /\ ret' = Failed(<<"truncate", n>>)
                   /\ CipherPlain(Resting)' = CipherPlain(Resting)
<1>0. moving = 0
  BY SafeIs, CalmIs, Zenon DEF Truncate, MayRun
<1>a. PICK n \in 0..MaxSize, left \in {0, 1, Plenty}, reads \in {0, Plenty}, cuts \in BOOLEAN :
        /\ left # Plenty => "unnoticed failure" \in Unsafe
        /\ reads # Plenty => "failed merge" \in Unsafe
        /\ ~cuts /\ n # Len(raw) /\ (volume.header \/ n % BS # 0) => "refused cut" \in Unsafe
        /\ n > Len(raw) /\ ~volume.header => "extend" \in Unsafe
        /\ n < Len(raw) /\ n % BS = 0 /\ volume.holes => "stale hole" \in Unsafe
        /\ n < Len(raw) /\ n = 0 /\ ~volume.header => "to nothing" \in Unsafe
        /\ Commit(TruncateFile(Current(left, reads, cuts), n))
        /\ ret' = IF TruncateFile(Current(left, reads, cuts), n).uncut
                   THEN Failed(<<"truncate", n>>) ELSE Ok(<<"truncate", n>>)
  BY Zenon DEF Truncate
<1>1. /\ left = Plenty /\ reads = Plenty
      /\ ~cuts /\ n # Len(raw) => ~(volume.header \/ n % BS # 0)
      /\ n > Len(raw) => volume.header
      /\ n < Len(raw) /\ n % BS = 0 => ~volume.holes
      /\ n < Len(raw) /\ n = 0 => volume.header
      /\ Commit(TruncateFile(Current(left, reads, cuts), n))
      /\ ret' = IF TruncateFile(Current(left, reads, cuts), n).uncut
                THEN Failed(<<"truncate", n>>) ELSE Ok(<<"truncate", n>>)
  BY <1>a, SafeIs, CalmIs, Zenon
<1> DEFINE f == Current(left, reads, cuts)
           g == TruncateFile(f, n)
           s == CipherPlain(Resting)
           t == CipherPlain(g)
<1>2. n \in Nat /\ left \in Nat /\ reads \in Nat /\ MaxSize \in Nat /\ n <= MaxSize
  BY <1>1, PlentyIs
<1>3. /\ Ready(f, 1) => CL!Sound(f)
      /\ Well(f) /\ Cached(f) /\ f.uncut = FALSE /\ f.raw = raw
      /\ f.left = left /\ f.reads = reads /\ f.cuts = cuts /\ CipherPlain(f) = s
      /\ Size(f) = Len(raw) /\ Size(f) \in Nat /\ Size(f) <= MaxSize
  <2>1. CalledOn(Current(left, reads, cuts), left, reads, cuts)
    BY <1>0, <1>2, CipherCurrentIs, Zenon
  <2> HIDE DEF f
  <2> QED
    BY <2>1 DEF CalledOn, f
<1>4. volume \in Volumes
  BY CipherRestIs
<1>5. Commit(g) /\ ret' = IF g.uncut THEN Failed(<<"truncate", n>>) ELSE Ok(<<"truncate", n>>)
  BY <1>1
<1> HIDE DEF f
<1>6. f.left = Plenty /\ f.reads = Plenty
  BY <1>1, <1>3
<1>7. Ready(f, 2) /\ Ready(f, 1) /\ Budget(f) >= 1
  BY <1>6, PlentyIs DEF Ready, Budget
<1>8. /\ ~f.cuts /\ n # Len(f.raw) => ~volume.header /\ n % BS = 0
      /\ n > Len(f.raw) => volume.header
      /\ n < Len(f.raw) /\ n % BS = 0 => ~volume.holes
      /\ n < Len(f.raw) /\ n = 0 => volume.header
  BY <1>1, <1>3
<1>9. Well(g) /\ Cached(g) /\ g \in FileSet /\ g.raw \in Seq(Cell)
  <2>1. Well(g) /\ Cached(g)
    BY <1>2, <1>3, <1>7, <1>8, TruncateFileIs
  <2> HIDE DEF g
  <2>2. g \in FileSet
    BY <2>1 DEF Well
  <2> QED
    BY <2>1, <2>2 DEF FileSet
<1>10. CipherCut(f, n, g)
  BY <1>3, <1>4, <1>6, <1>7, <1>8, CipherTruncateIs
<1> HIDE DEF g
<1>11. Size(g) <= MaxSize /\ g.cblk <= MaxSize
  BY <1>2, <1>3, <1>10 DEF CipherCut, CL!Same
<1>12. CipherInv' /\ CipherPlain(Resting)' = t
  BY <1>0, <1>5, <1>9, <1>11, CipherCommits
<1>13. CASE g.uncut
  <2>1. t = s
    BY <1>3, <1>10, <1>13, CipherSamePlain DEF CipherCut
  <2> QED
    BY <1>5, <1>12, <1>13, <2>1
<1>14. CASE ~g.uncut
  <2>1. Size(g) = n /\ \A i \in 1..n : CipherByte(g, i) = CL!ByteOr0(f, i)
    BY <1>10, <1>14 DEF CipherCut
  <2>2. t \in Seq(Int) /\ Len(t) = n /\ \A i \in 1..n : t[i] = CipherByte(g, i)
    BY <1>9, <2>1, CipherPlainIs
  <2>3. /\ s \in Seq(Int) /\ Len(s) = Size(f)
        /\ \A i \in 1..Size(f) : s[i] = CipherByte(f, i)
    <3>1. CipherPlain(f) = s /\ f.raw \in Seq(Cell)
      BY <1>3, <1>7, CipherSoundIs
    <3> HIDE DEF s
    <3> QED
      BY <3>1, CipherPlainIs
  <2> HIDE DEF t, s
  <2>4. ASSUME NEW i \in 1..n PROVE t[i] = IF i <= Len(s) THEN s[i] ELSE 0
    <3>1. i \in Nat /\ 1 <= i
      BY <1>2
    <3>2. t[i] = CL!ByteOr0(f, i)
      BY <2>1, <2>2
    <3> QED
      BY <1>3, <2>3, <3>1, <3>2 DEF CL!ByteOr0
  <2>5. t = Raw!Plain!Cut(s, n)
    BY ONLY <1>2, <2>2, <2>3, <2>4, CutOf
  <2>6. t = Plain!Cut(s, n)
    BY <2>5, SamePlain
  <2> QED
    BY <1>5, <1>12, <1>14, <2>6 DEF s, t
<1> QED
  BY <1>13, <1>14

\* The content is what the raw file and the volume make it.
LEMMA CipherUnmoved ==
    ASSUME volume' = volume, raw' = raw
    PROVE  CipherPlain(Resting)' = CipherPlain(Resting)
<1> DEFINE e == Resting'
           c == Resting
<1>1. e.raw = raw' /\ c.raw = raw
  BY DEF Resting, Current
<1> HIDE DEF e, c
<1>2. CipherPlain(c)' = CipherPlain(c)
  BY <1>1 DEF CipherPlain, CipherByte, Size, Block, Part, Decode, BlockIV, e, c
<1> QED
  BY <1>2 DEF c

\* A rename and a reopening leave the content alone (CipherFileIO.cpp:101-150, 238-272).
LEMMA CallsElse ==
    ASSUME CipherInv, StartRename \/ FinishRename \/ Reopen
    PROVE  /\ CipherInv' /\ CipherPlain(Resting)' = CipherPlain(Resting)
           /\ ret' = Ok(NoCall)
<1>1. BlockInv /\ Len(raw) <= MaxSize /\ node.cblk <= MaxSize
  BY DEF CipherInv
<1>2. CASE StartRename
  <2> DEFINE f == Current(Plenty, Plenty, TRUE)
             g == NeedHeader(f)
  <2>1. PICK ext \in Exts :
          /\ moving = 0 /\ volume' = volume /\ raw' = g.raw
          /\ node' = [node EXCEPT !.ext = ext, !.iv = Unknown]
    BY <1>2 DEF StartRename
  <2>2. Well(f) /\ f.raw = raw /\ f.left = Plenty /\ f.reads = Plenty
    BY <1>1, <2>1, PlentyIs, CallIs
  <2> HIDE DEF f
  <2>3. Ready(f, 1)
    BY <2>2, PlentyIs DEF Ready
  <2>4. g.raw = raw
    BY <2>2, <2>3, NeedHeaderIs DEF Beside
  <2> HIDE DEF g
  <2>5. node'.cblk = node.cblk
    BY <1>1, <2>1 DEF BlockInv
  <2>6. BlockInv'
    BY <1>1, <1>2, StartRenameKeeps
  <2>7. CipherInv'
    BY <1>1, <2>1, <2>4, <2>5, <2>6 DEF CipherInv
  <2> QED
    BY <1>2, <2>1, <2>4, <2>7, CipherUnmoved DEF StartRename
<1>3. CASE FinishRename
  <2>1. volume' = volume /\ raw' = raw /\ node' = node /\ ret' = Ok(NoCall)
    BY <1>3 DEF FinishRename
  <2>2. BlockInv'
    BY <1>1, <1>3, FinishRenameKeeps
  <2> QED
    BY <1>1, <2>1, <2>2, CipherUnmoved DEF CipherInv
<1>4. CASE Reopen
  <2>1. /\ volume' = volume /\ raw' = raw /\ ret' = Ok(NoCall)
        /\ node' = [iv |-> Unknown, ext |-> node.ext, cblk |-> 0, cdata |-> <<>>]
    BY <1>4 DEF Reopen
  <2>2. node'.cblk = 0
    BY <2>1
  <2>3. BlockInv'
    BY <1>1, <1>4, ReopenKeeps
  <2> QED
    BY <1>1, <2>1, <2>2, <2>3, BlockAssumption, CipherUnmoved DEF CipherInv
<1> QED
  BY <1>2, <1>3, <1>4

\* A step of another layer.
LEMMA CipherUnchanged ==
    ASSUME CipherInv, UNCHANGED vars
    PROVE  CipherInv' /\ CipherPlain(Resting)' = CipherPlain(Resting)
<1>1. /\ volume' = volume /\ raw' = raw /\ hdr' = hdr /\ node' = node /\ moving' = moving
  BY DEF vars
<1>2. Resting' = Resting
  BY <1>1 DEF Resting, Current
<1>3. Cached(Resting) => Cached(Resting)'
  BY <1>1, SameCache
<1>4. Matches(Resting)' <=> Matches(Resting)
  BY <1>1, <1>2 DEF Matches, HeaderOf
<1>5. CipherInv'
  BY <1>1, <1>3, <1>4 DEF CipherInv, BlockInv
<1> QED
  BY <1>1, <1>5, CipherUnmoved

\* Where there are bytes on disk, they are decoded with the IV they were encoded with.
LEMMA DiskIVIs ==
    ASSUME BlockInv, raw # <<>> PROVE DiskIV = BlockIV
<1>1. CASE ~volume.header
  BY <1>1 DEF DiskIV, BlockIV
<1>2. CASE volume.header
  <2>1. hdr # NoHdr
    <3>1. CASE moving # 0
      BY <3>1 DEF BlockInv
    <3>2. CASE moving = 0
      <4>1. Resting.ext \in Exts /\ Resting.raw = raw /\ Resting.hdr = hdr
        BY DEF BlockInv, Resting, Current
      <4>2. Resting.hdr = HeaderOf(Resting.ext)
        BY <1>2, <3>2, <4>1 DEF BlockInv, Matches
      <4> QED
        BY <4>1, <4>2, HeaderTyped
    <3> QED
      BY <3>1, <3>2
  <2> QED
    BY <1>2, <2>1 DEF BlockInv, DiskIV, BlockIV
<1> QED
  BY <1>1, <1>2

\* The content PlainFile is told of is the plain bytes.
LEMMA CipherContentIs ==
    ASSUME CipherInv PROVE Content = CipherPlain(Resting)
<1> DEFINE n == Len(raw)
           B == {(i - 1) \div BS : i \in 1..n}
           block == [blk \in B |-> BlockAt(blk)]
<1>1. n \in Nat /\ Resting.raw = raw /\ Size(Resting) = n
  BY CipherRestIs
<1>2. ASSUME NEW i \in 1..n
      PROVE  block[(i - 1) \div BS][((i - 1) % BS) + 1] = CipherByte(Resting, i)
  <2> DEFINE b == (i - 1) \div BS
  <2>1. b \in B
    OBVIOUS
  <2>2. raw # <<>>
    BY EmptySeq
  <2>3. DiskIV = BlockIV
    BY <2>2, DiskIVIs DEF CipherInv
  <2> HIDE DEF B, b
  <2>4. block[b] = Block(Resting, b)
    BY <1>1, <2>1, <2>3 DEF BlockAt, Block, Part
  <2> HIDE DEF block
  <2> QED
    BY <2>4 DEF CipherByte, b
<1>3. Content = [i \in 1..n |-> block[(i - 1) \div BS][((i - 1) % BS) + 1]]
  BY DEF Content
<1>4. CipherPlain(Resting) = [i \in 1..n |-> CipherByte(Resting, i)]
  BY <1>1 DEF CipherPlain
<1> HIDE DEF n, block
<1> QED
  BY <1>2, <1>3, <1>4

----------------------------------------------------------------------------
(* The encrypted file is a plain file, and every variable has its type.    *)

\* A file that was just made.
LEMMA CipherInitial ==
    ASSUME Init PROVE CipherInv /\ CipherPlain(Resting) = <<>>
<1>1. BlockInv /\ raw = <<>> /\ node \in [iv : {Unknown}, ext : Exts, cblk : {0}, cdata : {<<>>}]
  BY BlockInitInv DEF Init
<1>2. node.cblk = 0 /\ Len(raw) = 0
  BY <1>1, EmptySeq
<1>3. CipherInv
  BY <1>1, <1>2, BlockAssumption DEF CipherInv
<1>4. CipherPlain(Resting) \in Seq(Int) /\ Len(CipherPlain(Resting)) = 0
  BY <1>2, <1>3, CipherRestIs
<1>5. CipherPlain(Resting) = <<>>
  BY <1>4, EmptySeq
<1> QED
  BY <1>3, <1>5

\* Beside the cache and the header, the size stays within what the callers make it.
LEMMA CipherKept ==
    ASSUME CipherInv, Unsafe = {}, [Next]_vars PROVE CipherInv'
<1>1. CASE Read
  BY <1>1, CallReads
<1>2. CASE Write
  BY <1>2, CallWrites
<1>3. CASE Truncate
  BY <1>3, CallTruncates
<1>4. CASE StartRename \/ FinishRename \/ Reopen
  BY <1>4, CallsElse
<1>5. CASE UNCHANGED vars
  BY <1>5, CipherUnchanged
<1> QED
  BY <1>1, <1>2, <1>3, <1>4, <1>5 DEF Next

\* The encrypted file is a plain file to its callers: through its cache, its padding, its
\* header and its reopening, what is on disk decodes to the bytes written and a read
\* returns them, for blocks of any size, files of any length and any number of paths, as
\* long as none of the calls of UnsafeCalls is made (BlockFileIO.cpp:102-429,
\* CipherFileIO.cpp:101-430).
THEOREM BlockIsPlain == ASSUME Unsafe = {} PROVE Spec => IsPlainFile
<1>1. Init => Plain!Init /\ CipherInv
  <2> SUFFICES ASSUME Init PROVE Plain!Init /\ CipherInv
    OBVIOUS
  <2>1. CipherInv /\ CipherPlain(Resting) = <<>> /\ ret = Ok(NoCall)
    BY CipherInitial DEF Init
  <2>2. Content = <<>>
    BY <2>1, CipherContentIs
  <2> QED
    BY <2>1, <2>2 DEF Plain!Init, Plain!Ok, Plain!Gave, Plain!NoCall, Ok, Gave, NoCall
<1>2. CipherInv /\ [Next]_vars => CipherInv'
  BY CipherKept
<1>3. CipherInv /\ CipherInv' /\ [Next]_vars => [Plain!Next]_Plain!vars
  <2> SUFFICES ASSUME CipherInv, CipherInv', [Next]_vars
               PROVE  [Plain!Next]_Plain!vars
    OBVIOUS
  <2> DEFINE now == CipherPlain(Resting)
             then == CipherPlain(Resting)'
  <2>1. Content = now
    BY CipherContentIs
  <2>2. Content' = then
    <3>1. CipherInv => Content = CipherPlain(Resting)
      BY CipherContentIs
    <3>2. (CipherInv => Content = CipherPlain(Resting))'
      BY CipherContentIs, PTL
    <3> QED
      BY <3>2
  <2> HIDE DEF now, then
  <2>3. CASE Read
    <3>1. PICK off \in 0..MaxSize, n \in Sizes :
            /\ then = now
            /\ \/ ret' = Failed(<<"read", off, n>>)
               \/ ret' = Gave(<<"read", off, n>>, Plain!Slice(now, off, n))
      BY <2>3, CallReads DEF now, then
    <3>2. Plain!Read(off, n)
      BY <2>1, <2>2, <3>1 DEF Plain!Read, Plain!Gave, Plain!Failed, Gave, Failed
    <3> QED
      BY <3>2 DEF Plain!Next
  <2>4. CASE Write
    <3>1. PICK off \in 0..MaxSize, data \in Data :
            \/ /\ ret' = Ok(<<"write", off, data>>)
               /\ then = Plain!Overlay(now, off, data)
            \/ /\ ret' = Failed(<<"write", off, data>>)
               /\ \E m \in 0..(off + Len(data)) :
                    then = Plain!UpTo(m, Plain!Overlay(now, off, data), now)
      BY <2>4, CallWrites DEF now, then
    <3>2. Plain!Write(off, data)
      BY <2>1, <2>2, <3>1
         DEF Plain!Write, Plain!Ok, Plain!Gave, Plain!Failed, Ok, Gave, Failed
    <3> QED
      BY <3>2 DEF Plain!Next
  <2>5. CASE Truncate
    <3>1. PICK n \in 0..MaxSize :
            \/ ret' = Ok(<<"truncate", n>>) /\ then = Plain!Cut(now, n)
            \/ ret' = Failed(<<"truncate", n>>) /\ then = now
      BY <2>5, CallTruncates DEF now, then
    <3>2. Plain!Truncate(n)
      BY <2>1, <2>2, <3>1
         DEF Plain!Truncate, Plain!Ok, Plain!Gave, Plain!Failed, Ok, Gave, Failed
    <3> QED
      BY <3>2 DEF Plain!Next
  <2>6. CASE StartRename \/ FinishRename \/ Reopen
    <3>1. then = now /\ ret' = Ok(NoCall)
      BY <2>6, CallsElse DEF now, then
    <3>2. Plain!Other
      BY <2>1, <2>2, <3>1
         DEF Plain!Other, Plain!Ok, Plain!Gave, Plain!NoCall, Ok, Gave, NoCall
    <3> QED
      BY <3>2 DEF Plain!Next
  <2>7. CASE UNCHANGED vars
    <3>1. then = now /\ ret' = ret
      BY <2>7, CipherUnchanged DEF now, then, vars
    <3> QED
      BY <2>1, <2>2, <3>1 DEF Plain!vars
  <2> QED
    BY <2>3, <2>4, <2>5, <2>6, <2>7 DEF Next
<1> QED
  BY <1>1, <1>2, <1>3, PTL DEF Spec, IsPlainFile, Plain!Spec

\* A larger file is larger below.
LEMMA LocGrows ==
    ASSUME NEW m \in Nat, NEW n \in Nat, m <= n
    PROVE  Mac!LocWithHeader(m) <= Mac!LocWithHeader(n)
<1> DEFINE q == m \div BS
           k == m % BS
           p == n \div BS
           l == n % BS
           at == q * BS
           to == p * BS
<1>1. /\ q \in Nat /\ k \in Nat /\ k < BS /\ m = at + k /\ p \in Nat /\ l \in Nat /\ l < BS
      /\ n = to + l /\ at \in Nat /\ to \in Nat /\ BS \in Nat
  BY SplitIs, RBSIs, HeaderEach
<1>2. p < q => to + BS <= at
  <2>1. (p + 1) * BS = to + BS
    BY <1>1, TimesIs
  <2>2. p < q => (p + 1) * BS <= q * BS
    <3> HIDE DEF p, q
    <3>1. p < q => p + 1 <= q /\ p + 1 \in Nat
      BY <1>1
    <3> QED
      BY <1>1, <3>1, TimesIs
  <2> QED
    BY <2>1, <2>2
<1>3. /\ Mac!LocWithHeader(m) = at + q + Headed(k)
      /\ Mac!LocWithHeader(n) = to + p + Headed(l)
  <2>1. /\ Mac!LocWithHeader(q * BS + k) = q * RBS + Headed(k)
        /\ Mac!LocWithHeader(p * BS + l) = p * RBS + Headed(l)
    <3> HIDE DEF q, k, p, l
    <3> QED
      BY <1>1, LocIs
  <2>2. q * RBS = at + q /\ p * RBS = to + p
    <3> HIDE DEF q, k, p, l
    <3> QED
      BY <1>1, HeaderEach
  <2> HIDE DEF q, k, p, l
  <2> QED
    BY <1>1, <2>1, <2>2
<1> HIDE DEF q, k, p, l, at, to
<1>4. m <= n
  OBVIOUS
<1>5. ~(p < q)
  BY <1>1, <1>2, <1>4
<1>6. q = p => at = to
  BY DEF at, to
<1>7. CASE q = p
  BY <1>1, <1>3, <1>4, <1>6, <1>7 DEF Headed
<1>8. CASE q < p
  BY <1>1, <1>3, <1>4, <1>8 DEF Headed
<1> QED
  BY <1>1, <1>5, <1>7, <1>8

\* TypesOK: the variables of the three layers have their types, and no file is larger
\* than the callers make it.
THEOREM TypesAlwaysOK == ASSUME Unsafe = {} PROVE MCSpec => []TypesOK
<1>1. Init => CipherInv
  BY CipherInitial
<1>2. CipherInv /\ [Next]_vars => CipherInv'
  BY CipherKept
<1>3. Spec => []CipherInv
  BY <1>1, <1>2, PTL DEF Spec
<1>4. CipherInv => TypeOK
  <2> SUFFICES ASSUME CipherInv PROVE TypeOK
    OBVIOUS
  <2>1. /\ volume \in Volumes /\ Len(raw) <= MaxSize /\ node.cblk <= MaxSize
        /\ hdr \in {NoHdr} \cup [iv : {FileIV}, ext : Exts]
        /\ node.iv \in IVs /\ node.ext \in Exts /\ node.cblk \in Nat /\ Len(node.cdata) <= BS
        /\ moving = 0 \/ moving = FileIV
    BY DEF CipherInv, BlockInv
  <2>2. hdr \in {NoHdr} \cup [iv : {FileIV, WrongIV}, ext : Exts]
    BY <2>1
  <2>3. node.cblk \in 0..MaxSize
    BY <2>1, BlockAssumption
  <2> QED
    BY <2>1, <2>2, <2>3 DEF TypeOK
<1>5. MacInv => Mac!TypeOK
  <2> SUFFICES ASSUME MacInv PROVE Mac!TypeOK
    OBVIOUS
  <2>1. /\ mVolume \in MacVolumes /\ MacGood(MacRest) /\ Mac!Size(MacRest) \in Nat
        /\ Mac!Size(MacRest) <= LayerSize
    BY MacRestIs
  <2>2. /\ MacRest.base = mBase /\ MacRest.cdata = mCache.data /\ mCache.blk \in 0..LayerSize
    BY DEF MacInv, MacRest, Mac!Current
  <2>3. Len(mBase) <= Mac!LocWithHeader(LayerSize)
    <3>1. Len(mBase) = Mac!LocWithHeader(Mac!Size(MacRest))
      BY <2>1, <2>2, LenIs DEF MacGood, MacSet
    <3> QED
      BY <2>1, <3>1, LocGrows, LayerAssumption
  <2> QED
    BY <2>1, <2>2, <2>3 DEF MacGood, Mac!TypeOK
<1>6. RawInv => Raw!TypeOK
  BY DEF RawInv
<1> QED
  BY <1>3, <1>4, <1>5, <1>6, RunIsBlockFile, MacInvariant, RawInvariant, PTL DEF TypesOK
=============================================================================
