-------------------------- MODULE Directories_Proofs --------------------------
(***************************************************************************)
(* Directories: the steps of a rename, and the Dokan callbacks.            *)
(*                                                                         *)
(* A rename of a directory with everything below it, for any tree, any     *)
(* order of readdir and any refusals.  The elements of the queue before at *)
(* bear their new paths and the others their old ones, on disk and in      *)
(* their headers; the two differ for one element, for the time between a   *)
(* renameNode and the unix::rename that belongs to it.  As no directory    *)
(* comes before what is in it, the old path of an element leads to it      *)
(* until its turn comes, and again when the undoing gets back to it.       *)
(*                                                                         *)
(* Callbacks on directories, without the mishaps.  At most one rename is   *)
(* on its way, and what it has done says of every entry of its directory   *)
(* whether it has the new vector or the old; everything else has the       *)
(* vector of its directory, so what is observed in a directory that is     *)
(* listed is all it has.  What a listing has read, is to read and has      *)
(* shown goes together.                                                    *)
(***************************************************************************)
EXTENDS RenameTree, SequenceTheorems, FiniteSetTheorems, TLAPS

CONSTANTS Dirs, Kids, Callers, Mishaps  \* of FuseDirs
VARIABLES chained, held, calls

D == INSTANCE FuseDirs

\* A name on disk goes with the names of the directories above it.
Coherent(p) == \A e \in Entries : \A k \in 1..Depth(e) : p[Chain[e][k]] = SubSeq(p[e], 1, k)

Positions == 1..Len(queue)
Queued == {queue[k].entry : k \in Positions}

QueueOK ==
    /\ \A k \in Positions : LET e == queue[k].entry IN
         e \in Entries /\ queue[k].from = before[e] /\ queue[k].to = after[e]
    /\ \A i, j \in Positions : queue[i].entry = queue[j].entry => i = j
    /\ \A i, j \in Positions : queue[i].entry \in Below(queue[j].entry) => i < j
    /\ Len(queue) > 1 => queue[Len(queue)].entry \notin Files
    /\ \A e \in Entries \ Queued : after[e] = before[e]

\* The first m elements have been moved, on disk and in their headers.
DiskAt(d, m) ==
    /\ \A k \in Positions :
         d[queue[k].entry] = IF k <= m THEN queue[k].to ELSE queue[k].from
    /\ \A e \in Entries \ Queued : d[e] = before[e]
HeadersAt(h, m) ==
    /\ \A k \in Positions : queue[k].entry \in Files =>
         h[queue[k].entry] = IF k <= m THEN queue[k].to ELSE queue[k].from
    /\ \A f \in Files \ Queued : h[f] = before[f]
\* What is still to be undone has the new IV, whatever became of the rest.
HeadersNew(h, m) ==
    \A k \in Positions : k <= m /\ queue[k].entry \in Files => h[queue[k].entry] = queue[k].to

\* The node of a file has the IV of its header, and the paths that go with it.
NodesAgree == \A f \in Files : node[f] # NoNode => node[f].key = header[f] /\ node[f].iv = header[f]
PathsAgree == \A f \in Files : node[f] # NoNode => node[f].io = header[f]

AtRest ==
    /\ refusals <= 1 => /\ disk = IF result = "ok" THEN after ELSE before
                        /\ \A f \in Files : header[f] = disk[f]
    /\ result = "failed" => refusals > 0

Along ==
    /\ pc = "node" => refusals = 0 /\ DiskAt(disk, at - 1) /\ HeadersAt(header, at - 1)
    /\ pc = "disk" => refusals = 0 /\ DiskAt(disk, at - 1) /\ HeadersAt(header, at)
    /\ pc = "back" => refusals = 1 /\ DiskAt(disk, at - 1) /\ HeadersAt(header, at)
    /\ pc = "undoDisk" => /\ refusals >= 1 /\ HeadersNew(header, at)
                          /\ refusals = 1 => DiskAt(disk, at) /\ HeadersAt(header, at)
    /\ pc = "undoNode" => /\ refusals >= 1 /\ HeadersNew(header, at)
                          /\ refusals = 1 => DiskAt(disk, at - 1) /\ HeadersAt(header, at)

TreeInv ==
    /\ TypeOK
    /\ Coherent(before) /\ Coherent(after)
    /\ \A f \in Files : header[f] \in PathOf(f)
    /\ refusals <= 1 \/ pc # "idle" => NodesAgree
    /\ refusals <= 1 => PathsAgree
    /\ pc = "idle" => AtRest
    /\ pc # "idle" => QueueOK /\ Along

----------------------------------------------------------------------------
(* Paths and the tree.                                                     *)

\* The first k elements of a sequence.
LEMMA PrefixIs ==
    ASSUME NEW S, NEW s \in Seq(S), NEW k \in 0..Len(s)
    PROVE  LET p == SubSeq(s, 1, k)
           IN p \in Seq(S) /\ Len(p) = k /\ DOMAIN p = 1..k /\ \A i \in 1..k : p[i] = s[i]
<1>1. Len(s) \in Nat /\ k \in Int
  BY LenProperties
<1>2. \A i \in 1..k : s[i] \in S
  BY <1>1, ElementOfSeq
<1>3. /\ SubSeq(s, 1, k) \in Seq(S)
      /\ Len(SubSeq(s, 1, k)) = IF 1 <= k THEN k - 1 + 1 ELSE 0
      /\ \A i \in 1..(k - 1 + 1) : SubSeq(s, 1, k)[i] = s[1 + i - 1]
  BY <1>1, <1>2, SubSeqProperties
<1>4. Len(SubSeq(s, 1, k)) = k /\ \A i \in 1..k : SubSeq(s, 1, k)[i] = s[i]
  BY <1>1, <1>3
<1> QED
  BY <1>3, <1>4, LenProperties

\* Where an entry is in the tree: an element of its chain has the rest of the chain for
\* its own, and has the entry below it.
LEMMA ChainIs ==
    ASSUME TreeAssumption, NEW e \in Entries
    PROVE  /\ Depth(e) \in Nat /\ Depth(e) >= 1 /\ DOMAIN Chain[e] = 1..Depth(e)
           /\ Chain[e][Depth(e)] = e
           /\ \A k \in 1..Depth(e) :
                /\ Chain[e][k] \in Entries /\ Depth(Chain[e][k]) = k
                /\ \A j \in 1..k : Chain[Chain[e][k]][j] = Chain[e][j]
                /\ k < Depth(e) => Chain[e][k] # e /\ e \in Below(Chain[e][k])
<1>1. /\ Chain[e] \in Seq(Entries) /\ Chain[e] # <<>> /\ Chain[e][Len(Chain[e])] = e
      /\ \A k \in 1..Len(Chain[e]) : Chain[Chain[e][k]] = SubSeq(Chain[e], 1, k)
  BY DEF TreeAssumption
<1>2. Depth(e) \in Nat /\ Depth(e) >= 1 /\ DOMAIN Chain[e] = 1..Depth(e)
  BY <1>1, EmptySeq, LenProperties DEF Depth
<1>3. ASSUME NEW k \in 1..Depth(e)
      PROVE  /\ Chain[e][k] \in Entries /\ Depth(Chain[e][k]) = k
             /\ \A j \in 1..k : Chain[Chain[e][k]][j] = Chain[e][j]
  <2>1. k \in 1..Len(Chain[e]) /\ k \in 0..Len(Chain[e])
    BY <1>2 DEF Depth
  <2>2. Chain[e][k] \in Entries
    BY <1>1, <2>1, ElementOfSeq
  <2>3. Chain[Chain[e][k]] = SubSeq(Chain[e], 1, k)
    BY <1>1, <2>1
  <2>4. Len(SubSeq(Chain[e], 1, k)) = k /\ \A j \in 1..k : SubSeq(Chain[e], 1, k)[j] = Chain[e][j]
    BY <1>1, <2>1, PrefixIs
  <2> QED
    BY <2>2, <2>3, <2>4 DEF Depth
<1>4. ASSUME NEW k \in 1..Depth(e), k < Depth(e)
      PROVE  Chain[e][k] # e /\ e \in Below(Chain[e][k])
  <2>1. Chain[e][k] # e
    BY <1>2, <1>3, <1>4
  <2> QED
    BY <1>2, <2>1 DEF Below
<1> QED
  BY <1>1, <1>2, <1>3, <1>4 DEF Depth

\* An entry is in the chain of what is below it, at its own depth.
LEMMA BelowIs ==
    ASSUME TreeAssumption, NEW e \in Entries, NEW d \in Below(e)
    PROVE  /\ d \in Entries /\ d # e /\ Depth(e) < Depth(d) /\ Chain[d][Depth(e)] = e
           /\ \A k \in 1..Depth(d) :
                Depth(e) <= k => Chain[d][k] = e \/ Chain[d][k] \in Below(e)
<1>1. PICK k \in DOMAIN Chain[d] : Chain[d][k] = e
  BY DEF Below
<1>2. d \in Entries /\ d # e
  BY DEF Below
<1>3. k \in 1..Depth(d) /\ Depth(e) = k /\ Depth(d) \in Nat /\ Depth(d) >= 1
  BY <1>1, <1>2, ChainIs
<1>4. Chain[d][Depth(d)] = d
  BY <1>2, ChainIs
<1>5. Depth(e) < Depth(d)
  BY <1>1, <1>2, <1>3, <1>4
<1>6. ASSUME NEW j \in 1..Depth(d), Depth(e) <= j, Chain[d][j] # e
      PROVE  Chain[d][j] \in Below(e)
  <2> DEFINE c == Chain[d][j]
  <2>1. /\ c \in Entries /\ Depth(c) = j /\ DOMAIN Chain[c] = 1..j
        /\ \A i \in 1..j : Chain[c][i] = Chain[d][i]
    BY <1>2, ChainIs
  <2>2. k \in 1..j
    BY <1>3, <1>6
  <2> QED
    BY <1>1, <1>6, <2>1, <2>2 DEF Below
<1> QED
  BY <1>1, <1>2, <1>3, <1>5, <1>6

\* What a rename leads to.
Moved(p, e, name) ==
    [d \in Entries |-> IF d = e \/ d \in Below(e) THEN [p[d] EXCEPT ![Depth(e)] = name] ELSE p[d]]

LEMMA MovedPath ==
    ASSUME TreeAssumption, NEW p \in Places, NEW e \in Entries, NEW name \in Names,
           NEW d \in Entries, d = e \/ d \in Below(e)
    PROVE  LET q == Moved(p, e, name)
           IN /\ q[d] \in PathOf(d)
              /\ \A k \in 1..Depth(d) : q[d][k] = IF k = Depth(e) THEN name ELSE p[d][k]
<1> DEFINE q == Moved(p, e, name)
<1>1. p[d] \in Seq(Names) /\ Len(p[d]) = Depth(d)
  BY DEF Places, PathOf
<1>2. Depth(e) \in 1..Depth(d)
  BY ChainIs, BelowIs
<1>3. q[d] = [p[d] EXCEPT ![Depth(e)] = name]
  BY DEF Moved
<1>4. Depth(e) \in 1..Len(p[d])
  BY <1>1, <1>2
<1> HIDE DEF q
<1>5. /\ [p[d] EXCEPT ![Depth(e)] = name] \in Seq(Names)
      /\ Len([p[d] EXCEPT ![Depth(e)] = name]) = Len(p[d])
      /\ \A k \in 1..Len(p[d]) :
           [p[d] EXCEPT ![Depth(e)] = name][k] = IF k = Depth(e) THEN name ELSE p[d][k]
  BY <1>1, <1>4, ExceptSeq
<1>6. /\ q[d] \in PathOf(d)
      /\ \A k \in 1..Depth(d) : q[d][k] = IF k = Depth(e) THEN name ELSE p[d][k]
  BY <1>1, <1>3, <1>5 DEF PathOf
<1> QED
  BY <1>6 DEF q

\* It goes on leading from directory to entry.
LEMMA MovedIs ==
    ASSUME TreeAssumption, NEW p \in Places, Coherent(p), NEW e \in Entries, NEW name \in Names
    PROVE  Moved(p, e, name) \in Places /\ Coherent(Moved(p, e, name))
<1> DEFINE q == Moved(p, e, name)
<1>1. \A d \in Entries : d # e /\ d \notin Below(e) => q[d] = p[d]
  BY DEF Moved
<1>2. \A d \in Entries : p[d] \in PathOf(d)
  BY DEF Places
<1>3. \A d \in Entries : d = e \/ d \in Below(e) =>
        /\ q[d] \in PathOf(d)
        /\ \A k \in 1..Depth(d) : q[d][k] = IF k = Depth(e) THEN name ELSE p[d][k]
  BY MovedPath
<1>4. \A d \in Entries : q[d] \in PathOf(d)
  BY <1>1, <1>2, <1>3
<1>5. q \in Places
  <2>1. q = [d \in Entries |-> q[d]]
    BY DEF Moved
  <2>2. \A d \in Entries : q[d] \in Seq(Names)
    BY <1>4 DEF PathOf
  <2>3. q \in [Entries -> Seq(Names)]
    BY <2>1, <2>2
  <2> QED
    BY <1>4, <2>3 DEF Places
<1> HIDE DEF q
<1>6. ASSUME NEW d \in Entries, NEW k \in 1..Depth(d)
      PROVE  q[Chain[d][k]] = SubSeq(q[d], 1, k)
  <2> DEFINE c == Chain[d][k]
  <2>1. /\ c \in Entries /\ Depth(c) = k /\ Depth(d) \in Nat /\ DOMAIN Chain[c] = 1..k
        /\ \A j \in 1..k : Chain[c][j] = Chain[d][j]
    BY ChainIs
  <2>2. p[c] = SubSeq(p[d], 1, k)
    BY DEF Coherent
  <2>3. /\ p[d] \in Seq(Names) /\ Len(p[d]) = Depth(d) /\ q[d] \in Seq(Names) /\ Len(q[d]) = Depth(d)
        /\ q[c] \in Seq(Names) /\ Len(q[c]) = k
    BY <1>2, <1>4, <2>1 DEF PathOf
  <2>4. k \in 0..Len(p[d]) /\ k \in 0..Len(q[d])
    BY <2>1, <2>3
  <2>5. /\ SubSeq(q[d], 1, k) \in Seq(Names) /\ Len(SubSeq(q[d], 1, k)) = k
        /\ \A i \in 1..k : SubSeq(q[d], 1, k)[i] = q[d][i]
    BY <2>3, <2>4, PrefixIs
  <2>6. \A i \in 1..k : p[c][i] = p[d][i]
    <3>1. \A i \in 1..k : SubSeq(p[d], 1, k)[i] = p[d][i]
      BY <2>3, <2>4, PrefixIs
    <3> QED
      BY <2>2, <3>1
  <2>7. \A i \in 1..k : q[c][i] = q[d][i]
    <3>1. CASE ~(d = e \/ d \in Below(e))
      <4>1. q[d] = p[d]
        BY <1>1, <3>1
      <4>2. ~(c = e \/ c \in Below(e))
        <5>1. ASSUME c = e PROVE FALSE
          <6>1. k < Depth(d) => d \in Below(c)
            BY ChainIs
          <6>2. k = Depth(d) => c = d
            BY ChainIs
          <6> QED
            BY <2>1, <3>1, <5>1, <6>1, <6>2
        <5>2. ASSUME c \in Below(e) PROVE FALSE
          <6>1. PICK i \in 1..k : Chain[c][i] = e
            BY <2>1, <5>2 DEF Below
          <6>2. Chain[d][i] = e /\ i \in DOMAIN Chain[d]
            BY <2>1, <6>1, ChainIs
          <6>3. d \in Below(e)
            BY <3>1, <6>2 DEF Below
          <6> QED
            BY <3>1, <6>3
        <5> QED
          BY <5>1, <5>2
      <4>3. q[c] = p[c]
        BY <1>1, <2>1, <4>2
      <4> QED
        BY <2>6, <4>1, <4>3
    <3>2. CASE d = e \/ d \in Below(e)
      <4>1. \A i \in 1..Depth(d) : q[d][i] = IF i = Depth(e) THEN name ELSE p[d][i]
        BY <1>3, <3>2
      <4>2. CASE k < Depth(e)
        <5>1. c # e /\ c \notin Below(e)
          BY <2>1, <4>2, BelowIs, ChainIs
        <5>2. q[c] = p[c]
          BY <1>1, <2>1, <5>1
        <5>3. Depth(e) \in Nat
          BY ChainIs
        <5> QED
          BY <2>1, <2>6, <4>1, <4>2, <5>2, <5>3
      <4>3. CASE ~(k < Depth(e))
        <5>1. Depth(e) \in Nat
          BY ChainIs
        <5>2. c = e \/ c \in Below(e)
          <6>1. CASE d = e
            <7>1. k = Depth(d)
              BY <2>1, <4>3, <6>1
            <7> QED
              BY <6>1, <7>1, ChainIs
          <6>2. CASE d \in Below(e)
            BY <2>1, <4>3, <5>1, <6>2, BelowIs
          <6> QED
            BY <3>2, <6>1, <6>2
        <5>3. \A i \in 1..k : q[c][i] = IF i = Depth(e) THEN name ELSE p[c][i]
          BY <1>3, <2>1, <5>2
        <5> QED
          BY <2>1, <2>6, <4>1, <5>3
      <4> QED
        BY <4>2, <4>3
    <3> QED
      BY <3>1, <3>2
  <2> QED
    BY <2>3, <2>5, <2>7, SeqEqual
<1>7. q \in Places /\ Coherent(q)
  BY <1>5, <1>6 DEF Coherent
<1> QED
  BY <1>7 DEF q

----------------------------------------------------------------------------
(* The queue.                                                              *)

\* Nothing is left out of the list when everything can be decoded.
LEMMA ListedIs ==
    ASSUME NEW S, NEW order \in Seq(S), \A k \in 1..Len(order) : Visible(order[k])
    PROVE  Listed(order) = order
<1> DEFINE n == Len(order)
           seen == {k \in 1..Len(order) : Visible(order[k])}
<1> HIDE DEF n, seen
<1>1. n \in Nat /\ order \in [1..n -> S]
  BY LenProperties DEF n
<1>2. seen = 1..n
  BY DEF n, seen
<1>3. \A k \in Nat : Cardinality(1..k) = k
  <2> SUFFICES ASSUME NEW k \in Nat PROVE Cardinality(1..k) = k
    OBVIOUS
  <2>1. 1 \in Int /\ k \in Int
    OBVIOUS
  <2>2. Cardinality(1..k) = IF 1 > k THEN 0 ELSE k - 1 + 1
    BY <2>1, FS_Interval
  <2> QED
    BY <2>2
<1>4. ASSUME NEW k \in 1..n PROVE Cardinality({j \in seen : j <= k}) = k
  <2>1. {j \in seen : j <= k} = 1..k
    BY <1>1, <1>2
  <2>2. k \in Nat
    BY <1>1
  <2>3. Cardinality(1..k) = k
    BY <1>3, <2>2
  <2> QED
    BY <2>1, <2>3
<1>5. ASSUME NEW m \in 1..n
      PROVE  (CHOOSE k \in seen : Cardinality({j \in seen : j <= k}) = m) = m
  BY <1>2, <1>4
<1>6. Listed(order) = [m \in 1..Cardinality(seen) |->
                         order[CHOOSE k \in seen : Cardinality({j \in seen : j <= k}) = m]]
  BY DEF Listed, seen
<1>7. Listed(order) = [m \in 1..n |-> order[m]]
  BY <1>1, <1>2, <1>3, <1>5, <1>6
<1> QED
  BY <1>1, <1>7

\* Everything can be decoded while the names on disk go with one another.
LEMMA AllVisible ==
    ASSUME TreeAssumption, disk \in Places, Coherent(disk), NEW e \in Entries
    PROVE  Visible(e)
<1>1. disk[e] \in Seq(Names) /\ Len(disk[e]) = Depth(e)
  BY DEF Places, PathOf
<1>2. DOMAIN disk[e] = 1..Depth(e)
  BY <1>1, LenProperties
<1> QED
  BY <1>2 DEF Visible, FoundAs, Coherent

Element(d, p, q) == [entry |-> d, from |-> p[d], to |-> q[d]]

LEMMA ElementFields ==
    ASSUME NEW d, NEW p, NEW q
    PROVE  LET x == Element(d, p, q) IN x.entry = d /\ x.from = p[d] /\ x.to = q[d]
BY DEF Element

LEMMA QueueIs ==
    ASSUME TreeAssumption, disk \in Places, Coherent(disk),
           NEW e \in Entries, NEW order \in Orders[e], NEW name \in Names
    PROVE  LET q == Queue(e, order, name)
               n == Len(order)
               to == Moved(disk, e, name)
           IN /\ n \in Nat /\ Len(q) = n + 1
              /\ q \in Seq([entry : Entries, from : Seq(Names), to : Seq(Names)])
              /\ \A k \in 1..n : q[k] = Element(order[k], disk, to)
              /\ q[n + 1] = Element(e, disk, to)
<1> DEFINE q == Queue(e, order, name)
           n == Len(order)
           to == Moved(disk, e, name)
           S == [entry : Entries, from : Seq(Names), to : Seq(Names)]
           first == [k \in 1..n |-> Element(order[k], disk, to)]
           last == <<Element(e, disk, to)>>
<1>1. /\ order \in Seq(Below(e)) /\ \A d \in Below(e) : d \in Entries
      /\ n \in Nat /\ \A k \in 1..n : order[k] \in Below(e) /\ order[k] \in Entries
  <2>1. order \in Seq(Below(e))
    BY DEF TreeAssumption
  <2>2. \A d \in Below(e) : d \in Entries
    BY DEF Below
  <2> QED
    BY <2>1, <2>2, LenProperties, ElementOfSeq
<1>2. Listed(order) = order
  BY <1>1, AllVisible, ListedIs
<1>3. \A d \in Entries : Element(d, disk, to) \in S
  <2>1. to \in Places
    BY MovedIs
  <2> HIDE DEF to
  <2> QED
    BY <2>1 DEF Element, Places, PathOf
<1>4. \A d \in Entries : d = e \/ d \in Below(e) => to[d] = [disk[d] EXCEPT ![Depth(e)] = name]
  BY DEF Moved
<1> HIDE DEF to
<1>5. q = first \o last
  <2>1. q = [k \in 1..n |-> [entry |-> order[k], from |-> disk[order[k]],
                             to |-> [disk[order[k]] EXCEPT ![Depth(e)] = name]]]
            \o <<[entry |-> e, from |-> disk[e], to |-> [disk[e] EXCEPT ![Depth(e)] = name]]>>
    BY <1>2 DEF Queue
  <2>2. \A k \in 1..n : [entry |-> order[k], from |-> disk[order[k]],
                         to |-> [disk[order[k]] EXCEPT ![Depth(e)] = name]]
                        = Element(order[k], disk, to)
    BY <1>1, <1>4 DEF Element
  <2>3. [entry |-> e, from |-> disk[e], to |-> [disk[e] EXCEPT ![Depth(e)] = name]]
        = Element(e, disk, to)
    BY <1>4 DEF Element
  <2> QED
    BY <2>1, <2>2, <2>3
<1>6. first \in Seq(S) /\ Len(first) = n
  <2>1. first \in [1..n -> S]
    BY <1>1, <1>3
  <2>2. first \in Seq(S)
    BY <1>1, <2>1, SeqDef
  <2> QED
    BY <1>1, <2>1, <2>2, LenProperties
<1>7. last \in Seq(S) /\ Len(last) = 1 /\ last[1] = Element(e, disk, to)
  BY <1>3
<1>8. \A k \in 1..n : first[k] = Element(order[k], disk, to)
  OBVIOUS
<1> HIDE DEF first, last, S
<1>9. /\ first \o last \in Seq(S) /\ Len(first \o last) = n + 1
      /\ \A k \in 1..(n + 1) : (first \o last)[k] = IF k <= n THEN first[k] ELSE last[k - n]
  BY SMTT(30), <1>6, <1>7, ConcatProperties
<1>10. (n + 1) \in 1..(n + 1) /\ ~(n + 1 <= n) /\ n + 1 - n = 1
  BY <1>1
<1>11. q[n + 1] = Element(e, disk, to)
  BY <1>5, <1>7, <1>9, <1>10
<1>12. \A k \in 1..n : q[k] = Element(order[k], disk, to)
  <2>1. \A k \in 1..n : k \in 1..(n + 1) /\ k <= n
    BY <1>1
  <2> QED
    BY <1>5, <1>8, <1>9, <2>1
<1> HIDE DEF q, n
<1>13. q \in Seq(S) /\ Len(q) = n + 1
  BY <1>5, <1>9
<1> QED
  BY <1>1, <1>11, <1>12, <1>13 DEF q, n, S, to

\* The element whose turn it is.
LEMMA ElementIs ==
    ASSUME TreeAssumption, TreeInv, pc # "idle"
    PROVE  /\ Len(queue) \in Nat /\ at \in Nat /\ at \in Positions
           /\ El.entry \in Entries /\ El.from = before[El.entry] /\ El.to = after[El.entry]
           /\ El.from \in PathOf(El.entry) /\ El.to \in PathOf(El.entry)
           /\ \A k \in Positions : queue[k].entry = El.entry => k = at
<1>1. Len(queue) \in Nat
  BY LenProperties DEF TreeInv, TypeOK
<1>2. at \in Nat /\ at \in Positions
  BY <1>1 DEF TreeInv, TypeOK, Positions
<1>3. /\ El.entry \in Entries /\ El.from = before[El.entry] /\ El.to = after[El.entry]
      /\ \A k \in Positions : queue[k].entry = El.entry => k = at
  BY <1>2 DEF TreeInv, QueueOK, El
<1>4. before[El.entry] \in PathOf(El.entry) /\ after[El.entry] \in PathOf(El.entry)
  BY <1>3 DEF TreeInv, TypeOK, Places
<1> QED
  BY <1>1, <1>2, <1>3, <1>4

\* The old path of a directory leads there as long as what has been moved comes before
\* it in the queue; so does that of an entry which bears its old name.
LEMMA OldPathLeads ==
    ASSUME TreeAssumption, TreeInv, pc # "idle", NEW m \in Int, m <= at, DiskAt(disk, m)
    PROVE  /\ FoundAs(El.entry, DirOf(El.from))
           /\ disk[El.entry] = El.from => FoundAs(El.entry, El.from)
<1> DEFINE e == El.entry
           p == El.from
<1>1. /\ e \in Entries /\ p = before[e] /\ p \in Seq(Names) /\ Len(p) = Depth(e)
      /\ at \in Positions /\ at \in Nat
  BY ElementIs DEF PathOf
<1>2. /\ Depth(e) \in Nat /\ Depth(e) >= 1 /\ Chain[e][Depth(e)] = e
      /\ \A k \in 1..Depth(e) : /\ Chain[e][k] \in Entries
                                /\ k < Depth(e) => e \in Below(Chain[e][k])
  BY <1>1, ChainIs
<1>3. \A k \in 1..Depth(e) : before[Chain[e][k]] = SubSeq(p, 1, k)
  BY <1>1 DEF TreeInv, Coherent
<1>4. ASSUME NEW k \in 1..Depth(e), k < Depth(e)
      PROVE  disk[Chain[e][k]] = SubSeq(p, 1, k)
  <2> DEFINE c == Chain[e][k]
  <2>1. c \in Entries /\ e \in Below(c) /\ before[c] = SubSeq(p, 1, k)
    BY <1>2, <1>3, <1>4
  <2>2. CASE c \in Queued
    <3>1. PICK i \in Positions : queue[i].entry = c
      BY <2>2 DEF Queued
    <3>2. at < i
      BY <1>1, <2>1, <3>1 DEF TreeInv, QueueOK, El
    <3>3. i \in Int /\ ~(i <= m)
      BY <1>1, <3>2 DEF Positions
    <3>4. disk[c] = queue[i].from /\ queue[i].from = before[c]
      BY <3>1, <3>3 DEF DiskAt, TreeInv, QueueOK
    <3> QED
      BY <2>1, <3>4
  <2>3. CASE c \notin Queued
    BY <2>1, <2>3 DEF DiskAt
  <2> QED
    BY <2>2, <2>3
<1>5. FoundAs(e, DirOf(p))
  <2>1. Len(p) - 1 \in 0..Len(p)
    BY <1>1, <1>2
  <2>2. /\ DirOf(p) \in Seq(Names) /\ DOMAIN DirOf(p) = 1..(Len(p) - 1)
        /\ Len(DirOf(p)) = Len(p) - 1 /\ \A i \in 1..(Len(p) - 1) : DirOf(p)[i] = p[i]
    BY <1>1, <2>1, PrefixIs DEF DirOf
  <2> SUFFICES ASSUME NEW k \in 1..(Len(p) - 1)
               PROVE  disk[Chain[e][k]] = SubSeq(DirOf(p), 1, k)
    BY <2>2 DEF FoundAs
  <2>3. k \in 1..Depth(e) /\ k < Depth(e) /\ k \in 0..Len(p) /\ k \in 0..Len(DirOf(p))
    BY <1>1, <1>2, <2>2
  <2>4. /\ SubSeq(p, 1, k) \in Seq(Names) /\ Len(SubSeq(p, 1, k)) = k
        /\ \A i \in 1..k : SubSeq(p, 1, k)[i] = p[i]
    BY <1>1, <2>3, PrefixIs
  <2>5. /\ SubSeq(DirOf(p), 1, k) \in Seq(Names) /\ Len(SubSeq(DirOf(p), 1, k)) = k
        /\ \A i \in 1..k : SubSeq(DirOf(p), 1, k)[i] = DirOf(p)[i]
    BY <2>2, <2>3, PrefixIs
  <2>6. \A i \in 1..k : SubSeq(p, 1, k)[i] = SubSeq(DirOf(p), 1, k)[i]
    BY <1>1, <1>2, <2>2, <2>4, <2>5
  <2>7. SubSeq(p, 1, k) = SubSeq(DirOf(p), 1, k)
    BY <2>4, <2>5, <2>6, SeqEqual
  <2> QED
    BY <1>4, <2>3, <2>7
<1>6. ASSUME disk[e] = p PROVE FoundAs(e, p)
  <2>1. DOMAIN p = 1..Depth(e)
    BY <1>1, LenProperties
  <2>2. disk[Chain[e][Depth(e)]] = SubSeq(p, 1, Depth(e))
    BY <1>2, <1>3, <1>1, <1>6
  <2>3. \A k \in 1..Depth(e) : disk[Chain[e][k]] = SubSeq(p, 1, k)
    <3> SUFFICES ASSUME NEW k \in 1..Depth(e) PROVE disk[Chain[e][k]] = SubSeq(p, 1, k)
      OBVIOUS
    <3>1. k < Depth(e) \/ k = Depth(e)
      BY <1>2
    <3> QED
      BY <1>4, <2>2, <3>1
  <2> QED
    BY <2>1, <2>3 DEF FoundAs
<1> QED
  BY <1>5, <1>6

----------------------------------------------------------------------------
(* The headers.                                                            *)

\* The invariant's part of headers and nodes, with what they were when a step began.
Headed == /\ header \in [Files -> Seq(Names)]
          /\ \A f \in Files : header[f] \in PathOf(f)
          /\ node \in [Files -> {NoNode} \cup Nodes]
          /\ NodesAgree

\* A header that is re-encoded was written with the IV the node has, so it goes with the
\* new path, as the node does.
LEMMA SetNameIs ==
    ASSUME Headed, NEW e \in Entries, NEW p \in PathOf(e), NEW q \in PathOf(e),
           e \in Files => header[e] = p,
           SetName(e, p, q)
    PROVE  /\ Headed' /\ (PathsAgree => PathsAgree')
           /\ \A f \in Files : header'[f] = IF f = e THEN q ELSE header[f]
<1> DEFINE new == [key |-> q, io |-> q, iv |-> q, rw |-> TRUE]
<1>1. q \in Seq(Names)
  BY DEF PathOf
<1>2. new \in Nodes /\ new.key = q /\ new.io = q /\ new.iv = q
  BY <1>1 DEF Nodes
<1> HIDE DEF new
<1>3. CASE e \in Files
  <2>1. header[e] = NodeAt(e, p).iv
    BY <1>3 DEF NodeAt, InTable, Headed, NodesAgree
  <2>2. header' = [header EXCEPT ![e] = q]
    BY <1>3, <2>1 DEF SetName, Headed
  <2>3. node' = IF InTable(e, p) THEN [node EXCEPT ![e] = new] ELSE node
    BY DEF SetName, new
  <2>4. InTable(e, p) <=> node[e] # NoNode
    BY <1>3 DEF InTable, Headed, NodesAgree
  <2>5. \A f \in Files : header'[f] = IF f = e THEN q ELSE header[f]
    BY <1>3, <2>2 DEF Headed
  <2>6. \A f \in Files : node'[f] = IF f = e /\ node[e] # NoNode THEN new ELSE node[f]
    BY <1>3, <2>3, <2>4 DEF Headed
  <2>7. header' \in [Files -> Seq(Names)] /\ node' \in [Files -> {NoNode} \cup Nodes]
    BY <1>1, <1>2, <1>3, <2>2, <2>3 DEF Headed
  <2>8. NodesAgree' /\ (PathsAgree => PathsAgree')
    BY <1>2, <2>5, <2>6 DEF NodesAgree, PathsAgree, Headed
  <2> QED
    BY <2>5, <2>7, <2>8 DEF Headed, PathOf, Depth
<1>4. CASE e \notin Files
  <2>1. header' = header /\ node' = node
    BY <1>4 DEF SetName, InTable
  <2> QED
    BY <1>4, <2>1 DEF Headed, NodesAgree, PathsAgree, PathOf, Depth
<1> QED
  BY <1>3, <1>4

\* renameNode that fails on the way back leaves a node that only RawFileIO knows by
\* another path.
LEMMA BackwardFailsIs ==
    ASSUME Headed, NEW e \in Entries, NEW p, NEW q \in PathOf(e), BackwardFails(e, p, q)
    PROVE  Headed' /\ header' = header
<1>1. q \in Seq(Names) /\ header' = header
  BY DEF PathOf, BackwardFails
<1>2. CASE InTable(e, p)
  <2> DEFINE new == [node[e] EXCEPT !.io = q]
  <2>1. e \in Files /\ node[e] \in Nodes
    BY <1>2 DEF InTable, Headed
  <2>2. new \in Nodes /\ new.key = node[e].key /\ new.iv = node[e].iv
    BY <1>1, <2>1 DEF Nodes
  <2>3. node' = [node EXCEPT ![e] = new]
    BY <1>2 DEF BackwardFails
  <2> HIDE DEF new
  <2>4. node' \in [Files -> {NoNode} \cup Nodes]
    BY <2>1, <2>2, <2>3 DEF Headed
  <2>5. \A f \in Files : node'[f] = IF f = e THEN new ELSE node[f]
    BY <2>1, <2>3 DEF Headed
  <2>6. NodesAgree'
    BY <1>1, <1>2, <2>2, <2>5 DEF Headed, NodesAgree, InTable
  <2> QED
    BY <1>1, <2>4, <2>6 DEF Headed, PathOf, Depth
<1>3. CASE ~InTable(e, p)
  BY <1>1, <1>3 DEF BackwardFails, Headed, NodesAgree, PathOf, Depth
<1> QED
  BY <1>2, <1>3

----------------------------------------------------------------------------
(* The steps.                                                              *)

LEMMA HeadedNow == TreeInv /\ (refusals <= 1 \/ pc # "idle") => Headed
BY DEF TreeInv, TypeOK, Headed

\* A rename that is over.
LEMMA FinishInv ==
    ASSUME TreeInv, NEW res \in {"ok", "failed"}, Finish(res), UNCHANGED <<before, after>>,
           disk' \in Places, Headed', refusals' \in 0..MaxRefusals,
           refusals' <= 1 => /\ PathsAgree'
                             /\ disk' = IF res = "ok" THEN after ELSE before
                             /\ \A f \in Files : header'[f] = disk'[f],
           res = "failed" => refusals' > 0
    PROVE  TreeInv'
<1>1. pc' = "idle" /\ result' = res /\ queue' = <<>> /\ at' = 0 /\ before' = before /\ after' = after
  BY DEF Finish
<1>2. queue' \in Seq([entry : Entries, from : Seq(Names), to : Seq(Names)]) /\ Len(queue') = 0
  BY <1>1, EmptySeq
<1>3. TypeOK'
  BY <1>1, <1>2 DEF TreeInv, TypeOK, Headed, Places, PathOf, Depth, Nodes
<1>4. Coherent(before)' /\ Coherent(after)'
  BY <1>1 DEF TreeInv, Coherent, Depth
<1>5. AtRest'
  BY <1>1 DEF AtRest
<1> QED
  BY <1>1, <1>3, <1>4, <1>5 DEF TreeInv, Headed, PathOf, Depth

\* A step in the middle of one.
LEMMA AlongInv ==
    ASSUME TreeAssumption, TreeInv, pc # "idle", UNCHANGED <<before, after, queue, result>>,
           disk' \in Places, Headed', refusals' \in 0..MaxRefusals,
           at' \in Positions, pc' \in {"node", "disk", "back", "undoDisk", "undoNode"},
           refusals' <= 1 => PathsAgree',
           Along'
    PROVE  TreeInv'
<1>1. Len(queue) \in Nat
  BY ElementIs
<1>2. at' \in 0..Len(queue') /\ at' # 0 /\ pc' # "idle"
  BY <1>1 DEF Positions
<1>3. TypeOK'
  BY <1>2 DEF TreeInv, TypeOK, Headed, Places, PathOf, Depth, Nodes
<1>4. Coherent(before)' /\ Coherent(after)'
  BY DEF TreeInv, Coherent, Depth
<1>5. QueueOK'
  BY DEF TreeInv, QueueOK, Positions, Queued, Below
<1> QED
  BY <1>2, <1>3, <1>4, <1>5 DEF TreeInv, Headed, PathOf, Depth

\* When nothing of the queue has been moved, or all of it, the whole tree is in one place.
LEMMA WholeTree ==
    ASSUME TreeAssumption, TreeInv, pc # "idle", NEW d \in Places, NEW h, NEW res \in {"ok", "failed"},
           LET m == IF res = "ok" THEN Len(queue) ELSE 0 IN DiskAt(d, m) /\ HeadersAt(h, m)
    PROVE  /\ d = IF res = "ok" THEN after ELSE before
           /\ \A f \in Files : h[f] = d[f]
<1> DEFINE to == IF res = "ok" THEN after ELSE before
           m == IF res = "ok" THEN Len(queue) ELSE 0
<1>1. Len(queue) \in Nat
  BY ElementIs
<1>2. \A k \in Positions : (k <= m <=> res = "ok")
  BY <1>1 DEF Positions
<1>3. \A e \in Entries \ Queued : before[e] = to[e]
  BY DEF TreeInv, QueueOK
<1>4. \A k \in Positions : /\ queue[k].from = before[queue[k].entry]
                           /\ queue[k].to = after[queue[k].entry]
  BY DEF TreeInv, QueueOK
<1>5. DiskAt(d, m) /\ HeadersAt(h, m)
  OBVIOUS
<1> HIDE DEF m
<1>6. \A e \in Entries : d[e] = to[e]
  BY <1>2, <1>3, <1>4, <1>5 DEF DiskAt, Queued
<1>7. \A f \in Files : h[f] = to[f]
  <2>1. Files \subseteq Entries
    BY DEF TreeAssumption
  <2> QED
    BY <1>2, <1>3, <1>4, <1>5, <2>1 DEF HeadersAt, Queued
<1>8. d = to
  <2>1. to \in [Entries -> Seq(Names)] /\ d \in [Entries -> Seq(Names)]
    BY DEF TreeInv, TypeOK, Places
  <2> QED
    BY <1>6, <2>1
<1> QED
  BY <1>7, <1>8

\* RenameOp::undo goes on to the element before, or has nothing left to undo.
LEMMA UndoFromInv ==
    ASSUME TreeAssumption, TreeInv, pc # "idle", UndoFrom(at), UNCHANGED <<before, after>>,
           disk' \in Places, Headed', refusals' \in 0..MaxRefusals, refusals' >= 1,
           refusals' <= 1 => PathsAgree',
           HeadersNew(header', at - 1),
           refusals' = 1 => DiskAt(disk', at - 1) /\ HeadersAt(header', at - 1)
    PROVE  TreeInv'
<1>1. at \in Positions /\ at \in Nat /\ Len(queue) \in Nat
  BY ElementIs
<1>2. refusals' \in Int
  OBVIOUS
<1>3. CASE at = 1
  <2>1. Finish("failed")
    BY <1>3 DEF UndoFrom
  <2>2. refusals' <= 1 => /\ disk' = before
                          /\ \A f \in Files : header'[f] = disk'[f]
    BY <1>2, <1>3, WholeTree
  <2> QED
    BY <1>2, <2>1, <2>2, FinishInv
<1>4. CASE at # 1
  <2>1. pc' = "undoDisk" /\ at' = at - 1 /\ queue' = queue /\ result' = result
    BY <1>4 DEF UndoFrom
  <2>2. at' \in Positions
    BY <1>1, <1>4, <2>1 DEF Positions
  <2>3. Along'
    BY <1>2, <2>1 DEF Along, HeadersNew, DiskAt, HeadersAt, Positions, Queued
  <2> QED
    BY <2>1, <2>2, <2>3, AlongInv
<1> QED
  BY <1>3, <1>4

\* What holds of headers when the element whose turn it is has been dealt with.
LEMMA HeadersStep ==
    ASSUME TreeAssumption, TreeInv, pc # "idle", NEW h, NEW q,
           \A f \in Files : h[f] = IF f = El.entry THEN q ELSE header[f]
    PROVE  /\ HeadersAt(header, at - 1) /\ q = El.to => HeadersAt(h, at)
           /\ HeadersAt(header, at) /\ q = El.from => HeadersAt(h, at - 1)
           /\ HeadersNew(header, at) => HeadersNew(h, at - 1)
<1>1. /\ at \in Positions /\ at \in Nat /\ Len(queue) \in Nat
      /\ \A k \in Positions : queue[k].entry = El.entry => k = at
  BY ElementIs
<1>2. \A k \in Positions : k # at => (k <= at <=> k <= at - 1)
  BY <1>1 DEF Positions
<1>3. at <= at /\ ~(at <= at - 1)
  BY <1>1
<1>4. El.entry \in Queued /\ El = queue[at]
  BY <1>1 DEF Queued, El
<1>5. HeadersAt(header, at - 1) /\ q = El.to => HeadersAt(h, at)
  BY <1>1, <1>2, <1>3, <1>4 DEF HeadersAt
<1>6. HeadersAt(header, at) /\ q = El.from => HeadersAt(h, at - 1)
  BY <1>1, <1>2, <1>3, <1>4 DEF HeadersAt
<1>7. HeadersNew(header, at) => HeadersNew(h, at - 1)
  BY <1>1, <1>2, <1>3, <1>4 DEF HeadersNew
<1> QED
  BY <1>5, <1>6, <1>7

LEMMA DiskStep ==
    ASSUME TreeAssumption, TreeInv, pc # "idle", NEW q \in {El.from, El.to},
           disk' = [disk EXCEPT ![El.entry] = q]
    PROVE  /\ disk' \in Places
           /\ DiskAt(disk, at - 1) /\ q = El.to => DiskAt(disk', at)
           /\ DiskAt(disk, at) /\ q = El.from => DiskAt(disk', at - 1)
<1>1. /\ at \in Positions /\ at \in Nat /\ Len(queue) \in Nat
      /\ El.entry \in Entries /\ q \in PathOf(El.entry)
      /\ \A k \in Positions : queue[k].entry = El.entry => k = at
  BY ElementIs
<1>2. \A k \in Positions : k # at => (k <= at <=> k <= at - 1)
  BY <1>1 DEF Positions
<1>3. at <= at /\ ~(at <= at - 1)
  BY <1>1
<1>4. El.entry \in Queued /\ El = queue[at]
  BY <1>1 DEF Queued, El
<1>5. /\ disk \in [Entries -> Seq(Names)] /\ q \in Seq(Names)
      /\ \A e \in Entries : disk[e] \in PathOf(e)
  BY <1>1 DEF TreeInv, TypeOK, Places, PathOf
<1>6. /\ disk' \in [Entries -> Seq(Names)]
      /\ \A e \in Entries : disk'[e] = IF e = El.entry THEN q ELSE disk[e]
  BY <1>1, <1>5
<1>7. disk' \in Places
  BY <1>1, <1>5, <1>6 DEF Places
<1>8. \A k \in Positions : queue[k].entry \in Entries
  BY DEF TreeInv, QueueOK
<1>9. DiskAt(disk, at - 1) /\ q = El.to => DiskAt(disk', at)
  BY <1>1, <1>2, <1>3, <1>4, <1>6, <1>8 DEF DiskAt
<1>10. DiskAt(disk, at) /\ q = El.from => DiskAt(disk', at - 1)
  BY <1>1, <1>2, <1>3, <1>4, <1>6, <1>8 DEF DiskAt
<1> QED
  BY <1>7, <1>9, <1>10

\* Opening and closing touch the nodes only.
LEMMA NodeStep ==
    ASSUME TreeInv, UNCHANGED <<tree, queue, at, pc, result, refusals, before, after>>,
           node' \in [Files -> {NoNode} \cup Nodes],
           refusals <= 1 \/ pc # "idle" => NodesAgree',
           refusals <= 1 => PathsAgree'
    PROVE  TreeInv'
<1>1. disk' = disk /\ header' = header
  BY DEF tree
<1>2. TypeOK'
  BY <1>1 DEF TreeInv, TypeOK, Places, PathOf, Depth, Nodes
<1>3. Coherent(before)' /\ Coherent(after)' /\ (pc' = "idle" => AtRest')
  BY <1>1 DEF TreeInv, Coherent, Depth, AtRest
<1>4. pc # "idle" => QueueOK' /\ Along'
  BY <1>1 DEF TreeInv, QueueOK, Along, DiskAt, HeadersAt, HeadersNew, Positions, Queued, Below
<1> QED
  BY <1>1, <1>2, <1>3, <1>4 DEF TreeInv, PathOf, Depth

LEMMA OpenStep == ASSUME TreeAssumption, TreeInv, NEW f \in Files, Open(f) PROVE TreeInv'
<1>1. PICK rw \in BOOLEAN :
        node' = [node EXCEPT ![f] =
                   IF node[f] = NoNode
                   THEN [key |-> disk[f], io |-> disk[f], iv |-> disk[f], rw |-> rw]
                   ELSE [node[f] EXCEPT !.rw = node[f].rw \/ rw]]
  BY DEF Open
<1>2. pc = "idle" /\ f \in Entries /\ disk[f] \in Seq(Names)
  BY DEF Open, TreeAssumption, TreeInv, TypeOK, Places
<1> DEFINE new == [key |-> disk[f], io |-> disk[f], iv |-> disk[f], rw |-> rw]
           more == [node[f] EXCEPT !.rw = node[f].rw \/ rw]
<1>3. new \in Nodes /\ new.key = disk[f] /\ new.io = disk[f] /\ new.iv = disk[f]
  BY <1>2 DEF Nodes
<1>4. /\ node \in [Files -> {NoNode} \cup Nodes]
      /\ refusals <= 1 => NodesAgree /\ PathsAgree /\ header[f] = disk[f]
  BY <1>2 DEF TreeInv, TypeOK, AtRest
<1>5. node[f] # NoNode =>
        /\ more \in Nodes
        /\ more.key = node[f].key /\ more.io = node[f].io /\ more.iv = node[f].iv
  <2> SUFFICES ASSUME node[f] # NoNode
               PROVE  /\ more \in Nodes
                      /\ more.key = node[f].key /\ more.io = node[f].io /\ more.iv = node[f].iv
    OBVIOUS
  <2>1. node[f] \in Nodes
    BY <1>4
  <2> QED
    BY <2>1 DEF Nodes
<1>6. node' = [node EXCEPT ![f] = IF node[f] = NoNode THEN new ELSE more]
  BY <1>1
<1> HIDE DEF new, more
<1>7. /\ node' \in [Files -> {NoNode} \cup Nodes]
      /\ \A g \in Files : node'[g] = IF g # f THEN node[g]
                                     ELSE IF node[f] = NoNode THEN new ELSE more
  BY <1>3, <1>4, <1>5, <1>6
<1>8. header' = header /\ UNCHANGED <<tree, queue, at, pc, result, refusals, before, after>>
  BY DEF Open, tree
<1>9. refusals <= 1 => NodesAgree' /\ PathsAgree'
  BY <1>3, <1>4, <1>5, <1>7, <1>8 DEF NodesAgree, PathsAgree
<1> QED
  BY <1>2, <1>7, <1>8, <1>9, NodeStep

LEMMA CloseStep == ASSUME TreeInv, NEW f \in Files, Close(f) PROVE TreeInv'
<1>1. node' = [node EXCEPT ![f] = NoNode]
  BY DEF Close
<1>2. node \in [Files -> {NoNode} \cup Nodes]
  BY DEF TreeInv, TypeOK
<1>3. /\ node' \in [Files -> {NoNode} \cup Nodes]
      /\ \A g \in Files : node'[g] = IF g = f THEN NoNode ELSE node[g]
  BY <1>1, <1>2
<1>4. header' = header /\ UNCHANGED <<tree, queue, at, pc, result, refusals, before, after>>
  BY DEF Close, tree
<1>5. (NodesAgree => NodesAgree') /\ (PathsAgree => PathsAgree')
  BY <1>3, <1>4 DEF NodesAgree, PathsAgree
<1> QED
  BY <1>3, <1>4, <1>5, NodeStep DEF TreeInv

LEMMA RenameStep == ASSUME TreeAssumption, TreeInv, NEW e \in Entries, Rename(e) PROVE TreeInv'
<1>1. pc = "idle" /\ refusals <= 1 /\ disk' = disk /\ header' = header /\ node' = node
  BY DEF Rename, tree
<1>2. PICK name \in Names :
        /\ before' = disk /\ after' = Moved(disk, e, name)
        /\ \/ /\ \E order \in Orders[e] : queue' = Queue(e, order, name)
              /\ at' = 1 /\ pc' = "node" /\ refusals' = 0
              /\ UNCHANGED result
           \/ /\ e \notin Files
              /\ Finish("failed") /\ refusals' = 1
  BY DEF Rename, Moved
<1>3. disk \in Places /\ Coherent(disk) /\ \A f \in Files : header[f] = disk[f]
  <2>1. disk = (IF result = "ok" THEN after ELSE before) /\ \A f \in Files : header[f] = disk[f]
    BY <1>1 DEF TreeInv, AtRest
  <2> QED
    BY <2>1 DEF TreeInv, TypeOK
<1>4. after' \in Places /\ Coherent(after') /\ before' \in Places /\ Coherent(before')
  BY <1>2, <1>3, MovedIs
<1>5. Coherent(before)' /\ Coherent(after)'
  BY <1>4 DEF Coherent, Depth
<1>6. /\ Headed /\ PathsAgree /\ Headed' /\ PathsAgree'
  <2>1. Headed /\ PathsAgree
    BY <1>1, HeadedNow DEF TreeInv
  <2> QED
    BY <1>1, <2>1 DEF Headed, NodesAgree, PathsAgree, PathOf, Depth, Nodes
<1>7. MaxRefusals \in Nat /\ MaxRefusals >= 2
  BY DEF TreeAssumption
<1>8. CASE e \notin Files /\ Finish("failed") /\ refusals' = 1
  <2>1. /\ pc' = "idle" /\ result' = "failed" /\ queue' = <<>> /\ at' = 0
    BY <1>8 DEF Finish
  <2>2. queue' \in Seq([entry : Entries, from : Seq(Names), to : Seq(Names)]) /\ Len(queue') = 0
    BY <2>1, EmptySeq
  <2>3. TypeOK'
    BY <1>1, <1>4, <1>6, <1>7, <1>8, <2>1, <2>2 DEF TreeInv, TypeOK, Headed, Places, PathOf, Depth, Nodes
  <2>4. AtRest'
    BY <1>1, <1>2, <1>3, <1>8, <2>1 DEF AtRest
  <2> QED
    BY <1>5, <1>6, <2>1, <2>3, <2>4 DEF TreeInv, Headed, PathOf, Depth
<1>9. CASE /\ \E order \in Orders[e] : queue' = Queue(e, order, name)
           /\ at' = 1 /\ pc' = "node" /\ refusals' = 0
           /\ UNCHANGED result
  <2>1. PICK order \in Orders[e] : queue' = Queue(e, order, name)
    BY <1>9
  <2> DEFINE n == Len(order)
             to == Moved(disk, e, name)
  <2>2. /\ n \in Nat /\ Len(queue') = n + 1
        /\ queue' \in Seq([entry : Entries, from : Seq(Names), to : Seq(Names)])
        /\ \A k \in 1..n : queue'[k] = Element(order[k], disk, to)
        /\ queue'[n + 1] = Element(e, disk, to)
    BY <1>3, <2>1, QueueIs
  <2>3. after' = to /\ before' = disk
    BY <1>2
  <2>4. \A k \in 1..n : order[k] \in Below(e) /\ order[k] \in Entries
    BY <2>2, ElementOfSeq DEF TreeAssumption, Below
  <2>5. \A d \in Below(e) : \E k \in 1..n : order[k] = d
    BY DEF TreeAssumption
  <2>6. \A i, j \in 1..n : /\ order[i] = order[j] => i = j
                           /\ order[i] \in Below(order[j]) => i < j
    BY DEF TreeAssumption
  <2>7. \A d \in Entries \ ({e} \cup Below(e)) : to[d] = disk[d]
    BY DEF Moved
  <2>8. e \in Files => n = 0
    <3>1. e \in Files => Below(e) = {}
      BY DEF TreeAssumption
    <3> QED
      BY <2>2, <2>4, <3>1
  <2>9. e \notin Below(e) /\ \A d \in Below(e) : e \notin Below(d)
    <3>1. \A d \in Below(e) : d \in Entries /\ Depth(d) > Depth(e) /\ Depth(e) \in Nat
      BY BelowIs, ChainIs
    <3>2. \A d \in Below(e) : e \in Below(d) => Depth(e) > Depth(d) /\ Depth(d) \in Nat
      BY <3>1, BelowIs, ChainIs
    <3> QED
      BY <3>1, <3>2 DEF Below
  <2> HIDE DEF n, to
  <2>10. \A k \in Positions' : k \in 1..n \/ k = n + 1
    BY <2>2 DEF Positions
  <2>11. \A k \in 1..n : k \in Positions' /\ k # n + 1 /\ k < n + 1
    BY <2>2 DEF Positions
  <2>12. /\ \A k \in 1..n : /\ queue'[k].entry = order[k] /\ queue'[k].from = disk[order[k]]
                            /\ queue'[k].to = to[order[k]]
         /\ queue'[n + 1].entry = e /\ queue'[n + 1].from = disk[e] /\ queue'[n + 1].to = to[e]
    BY <2>2, ElementFields
  <2>13. n + 1 \in Positions' /\ Queued' = {e} \cup Below(e)
    <3>1. n + 1 \in Positions'
      BY <2>2 DEF Positions
    <3>2. \A k \in Positions' : queue'[k].entry \in {e} \cup Below(e)
      BY <2>4, <2>10, <2>12
    <3>3. \A d \in Below(e) : \E k \in Positions' : queue'[k].entry = d
      BY <2>5, <2>11, <2>12
    <3> QED
      BY <2>12, <3>1, <3>2, <3>3 DEF Queued
  <2>14. QueueOK'
    <3>1. \A k \in Positions' : LET d == queue'[k].entry IN
            d \in Entries /\ queue'[k].from = before'[d] /\ queue'[k].to = after'[d]
      BY <2>3, <2>4, <2>10, <2>12
    <3>2. \A i, j \in Positions' : queue'[i].entry = queue'[j].entry => i = j
      BY <2>4, <2>6, <2>9, <2>10, <2>12
    <3>3. \A i, j \in Positions' : queue'[i].entry \in Below(queue'[j].entry) => i < j
      BY <2>4, <2>6, <2>9, <2>10, <2>11, <2>12
    <3>4. Len(queue') > 1 => queue'[Len(queue')].entry \notin Files
      BY <2>2, <2>8, <2>12
    <3>5. \A d \in Entries \ Queued' : after'[d] = before'[d]
      BY <2>3, <2>7, <2>13
    <3> QED
      BY <3>1, <3>2, <3>3, <3>4, <3>5 DEF QueueOK, Below
  <2>15. Along'
    <3>1. at' = 1 /\ pc' = "node" /\ refusals' = 0 /\ \A k \in Positions' : ~(k <= at' - 1)
      BY <1>9, <2>2 DEF Positions
    <3>2. \A k \in Positions' : queue'[k].from = disk[queue'[k].entry]
      BY <2>10, <2>12
    <3>3. Files \subseteq Entries
      BY DEF TreeAssumption
    <3>4. DiskAt(disk, at - 1)' /\ HeadersAt(header, at - 1)'
      BY <1>1, <1>3, <2>3, <3>1, <3>2, <3>3 DEF DiskAt, HeadersAt
    <3> QED
      BY <3>1, <3>4 DEF Along
  <2>16. at' \in 0..Len(queue') /\ at' # 0
    BY <1>9, <2>2
  <2>17. TypeOK'
    <3>1. disk' \in Places /\ before' \in Places /\ after' \in Places
      BY <1>1, <1>3, <1>4
    <3>2. /\ header' \in [Files -> Seq(Names)] /\ node' \in [Files -> {NoNode} \cup Nodes]
          /\ \A f \in Files : header'[f] \in PathOf(f)
      BY <1>1, <1>6 DEF Headed
    <3>3. result' \in {"ok", "failed"} /\ pc' = "node" /\ refusals' \in 0..MaxRefusals
      BY <1>7, <1>9 DEF TreeInv, TypeOK
    <3> QED
      BY <2>2, <2>16, <3>1, <3>2, <3>3 DEF TypeOK, Places, PathOf, Depth, Nodes
  <2> QED
    BY <1>5, <1>6, <1>9, <2>14, <2>15, <2>17 DEF TreeInv, Headed, PathOf, Depth
<1> QED
  BY <1>2, <1>8, <1>9

\* The old path of the element whose turn it is leads to it until it is moved.
LEMMA OldPathNow ==
    ASSUME TreeAssumption, TreeInv, pc # "idle", DiskAt(disk, at - 1)
    PROVE  /\ disk[El.entry] = El.from
           /\ FoundAs(El.entry, El.from) /\ NamedIn(El.entry, DirOf(El.from), El.from)
<1>1. at \in Positions /\ at \in Nat /\ El = queue[at]
  BY ElementIs DEF El
<1>2. at - 1 \in Int /\ at - 1 <= at /\ ~(at <= at - 1)
  BY <1>1
<1>3. disk[El.entry] = El.from
  BY <1>1, <1>2 DEF DiskAt
<1> QED
  BY <1>2, <1>3, OldPathLeads DEF NamedIn

\* A node in the table knows the path it is looked up by.
LEMMA NodeAtIs ==
    ASSUME Headed, PathsAgree, NEW e, NEW p
    PROVE  NodeAt(e, p).io = p
BY DEF NodeAt, InTable, Headed, NodesAgree, PathsAgree

\* What holds of the header of the element whose turn it is.
LEMMA HeaderIs ==
    ASSUME TreeAssumption, TreeInv, pc # "idle", El.entry \in Files
    PROVE  /\ HeadersAt(header, at - 1) => header[El.entry] = El.from
           /\ HeadersAt(header, at) => header[El.entry] = El.to
           /\ HeadersNew(header, at) => header[El.entry] = El.to
<1>1. at \in Positions /\ at \in Nat /\ El = queue[at]
  BY ElementIs DEF El
<1>2. at <= at /\ ~(at <= at - 1)
  BY <1>1
<1> QED
  BY <1>1, <1>2 DEF HeadersAt, HeadersNew

LEMMA RenameNodeStep == ASSUME TreeAssumption, TreeInv, RenameNode PROVE TreeInv'
<1> DEFINE e == El.entry
<1>1. pc = "node" /\ UNCHANGED <<disk, before, after>>
  BY DEF RenameNode
<1>2. refusals = 0 /\ DiskAt(disk, at - 1) /\ HeadersAt(header, at - 1)
  BY <1>1 DEF TreeInv, Along
<1>3. Headed /\ PathsAgree /\ disk' \in Places
  BY <1>1, <1>2, HeadedNow DEF TreeInv, TypeOK
<1>4. /\ e \in Entries /\ El.from \in PathOf(e) /\ El.to \in PathOf(e)
      /\ at \in Positions /\ at \in Nat
      /\ e \in Files => header[e] = El.from
  BY <1>1, <1>2, ElementIs, HeaderIs
<1>5. MaxRefusals \in Nat /\ MaxRefusals >= 2
  BY DEF TreeAssumption
<1>6. CASE /\ Forward(e, El.from, El.to)
           /\ pc' = "disk"
           /\ UNCHANGED <<queue, at, result, refusals>>
  <2>1. /\ Headed' /\ PathsAgree'
        /\ \A f \in Files : header'[f] = IF f = e THEN El.to ELSE header[f]
    BY <1>3, <1>4, <1>6, SetNameIs DEF Forward
  <2>2. HeadersAt(header', at)
    BY <1>1, <1>2, <2>1, HeadersStep
  <2>3. Along'
    BY <1>1, <1>2, <1>6, <2>2 DEF Along, HeadersAt, DiskAt, Positions, Queued
  <2> QED
    BY <1>1, <1>2, <1>3, <1>4, <1>5, <1>6, <2>1, <2>3, AlongInv
<1>7. CASE /\ ForwardFails(e, El.from)
           /\ IF Last THEN Finish("failed") ELSE UndoFrom(at)
  <2>1. Reaches(e, NodeAt(e, El.from), NodeAt(e, El.from).io)
    BY <1>1, <1>2, <1>3, OldPathNow, NodeAtIs DEF Reaches
  <2>2. MayRefuse(e, NodeAt(e, El.from)) /\ Refuse /\ UNCHANGED <<header, node>>
    BY <1>7, <2>1 DEF ForwardFails
  <2>3. refusals' = 1 /\ refusals' \in 0..MaxRefusals /\ refusals' >= 1 /\ e \in Files
    BY <1>2, <1>5, <2>2 DEF Refuse, MayRefuse
  <2>4. Headed' /\ PathsAgree'
    BY <1>3, <2>2 DEF Headed, NodesAgree, PathsAgree, PathOf, Depth, Nodes
  <2>5. CASE Last
    <3>1. at = 1
      <4>1. at = Len(queue) /\ Len(queue) \in Nat /\ queue[Len(queue)].entry \in Files
        BY <1>1, <2>3, <2>5, ElementIs DEF Last, El
      <4>2. ~(Len(queue) > 1)
        BY <1>1, <4>1 DEF TreeInv, QueueOK
      <4> QED
        BY <1>4, <4>1, <4>2 DEF Positions
    <3>2. DiskAt(disk, 0) /\ HeadersAt(header, 0)
      BY <1>2, <3>1
    <3>3. disk = before /\ \A f \in Files : header[f] = disk[f]
      BY <1>1, <1>3, <3>2, WholeTree
    <3> QED
      BY <1>1, <1>3, <1>7, <2>2, <2>3, <2>4, <2>5, <3>3, FinishInv
  <2>6. CASE ~Last
    <3>1. HeadersNew(header', at - 1) /\ DiskAt(disk', at - 1) /\ HeadersAt(header', at - 1)
      BY <1>1, <1>2, <2>2 DEF HeadersAt, HeadersNew
    <3> QED
      BY <1>1, <1>3, <1>7, <2>3, <2>4, <2>6, <3>1, UndoFromInv
  <2> QED
    BY <2>5, <2>6
<1> QED
  BY <1>6, <1>7 DEF RenameNode

LEMMA RenameDiskStep == ASSUME TreeAssumption, TreeInv, RenameDisk PROVE TreeInv'
<1> DEFINE e == El.entry
<1>1. pc = "disk" /\ UNCHANGED <<header, node, before, after>>
  BY DEF RenameDisk
<1>2. refusals = 0 /\ DiskAt(disk, at - 1) /\ HeadersAt(header, at)
  BY <1>1 DEF TreeInv, Along
<1>3. Headed /\ PathsAgree /\ disk \in Places
  BY <1>1, <1>2, HeadedNow DEF TreeInv, TypeOK
<1>4. Headed' /\ PathsAgree'
  BY <1>1, <1>3 DEF Headed, NodesAgree, PathsAgree, PathOf, Depth, Nodes
<1>5. e \in Entries /\ at \in Positions /\ at \in Nat /\ Len(queue) \in Nat
  BY <1>1, ElementIs
<1>6. MaxRefusals \in Nat /\ MaxRefusals >= 2
  BY DEF TreeAssumption
<1>7. CASE /\ Moves(e, El.from, El.to)
           /\ IF Last THEN Finish("ok")
              ELSE pc' = "node" /\ at' = at + 1 /\ UNCHANGED <<queue, result>>
           /\ UNCHANGED refusals
  <2>1. disk' = [disk EXCEPT ![e] = El.to]
    BY <1>7 DEF Moves
  <2>2. disk' \in Places /\ DiskAt(disk', at)
    BY <1>1, <1>2, <2>1, DiskStep
  <2>3. refusals' = 0 /\ refusals' \in 0..MaxRefusals
    BY <1>2, <1>6, <1>7
  <2>4. HeadersAt(header', at)
    BY <1>1, <1>2
  <2>5. CASE Last
    <3>1. Finish("ok") /\ at = Len(queue)
      BY <1>7, <2>5 DEF Last
    <3>2. disk' = after /\ \A f \in Files : header'[f] = disk'[f]
      BY <1>1, <2>2, <2>4, <3>1, WholeTree
    <3> QED
      BY <1>1, <1>4, <2>2, <2>3, <3>1, <3>2, FinishInv
  <2>6. CASE ~Last
    <3>1. pc' = "node" /\ at' = at + 1 /\ UNCHANGED <<queue, result>>
      BY <1>7, <2>6
    <3>2. at' \in Positions
      BY <1>5, <2>6, <3>1 DEF Positions, Last
    <3>3. at' - 1 = at
      BY <1>5, <3>1
    <3>4. Along'
      BY <1>1, <2>2, <2>3, <2>4, <3>1, <3>3 DEF Along, HeadersAt, DiskAt, Positions, Queued
    <3> QED
      BY <1>1, <1>4, <2>2, <2>3, <3>1, <3>2, <3>4, AlongInv
  <2> QED
    BY <2>5, <2>6
<1>8. CASE /\ \/ ~NamedIn(e, DirOf(El.from), El.from) /\ UNCHANGED refusals
              \/ Busy(e) /\ Counted
              \/ Refuse
           /\ pc' = "back"
           /\ UNCHANGED <<disk, queue, at, result>>
  <2>1. NamedIn(e, DirOf(El.from), El.from)
    BY <1>1, <1>2, OldPathNow
  <2>2. refusals' = 1 /\ refusals' \in 0..MaxRefusals
    BY <1>2, <1>6, <1>8, <2>1 DEF Counted, Refuse
  <2>3. Along'
    BY <1>1, <1>2, <1>8, <2>2 DEF Along, HeadersAt, DiskAt, Positions, Queued
  <2> QED
    BY <1>1, <1>3, <1>4, <1>5, <1>8, <2>2, <2>3, AlongInv
<1> QED
  BY <1>7, <1>8 DEF RenameDisk

\* Taking a header back to the old path's IV, and what a failure of it leaves.
LEMMA BackwardStep ==
    ASSUME TreeAssumption, TreeInv, pc # "idle", Backward(El.entry, El.to, El.from),
           HeadersNew(header, at), refusals <= 1 => HeadersAt(header, at)
    PROVE  /\ Headed' /\ HeadersNew(header', at - 1)
           /\ refusals <= 1 => PathsAgree' /\ HeadersAt(header', at - 1)
<1> DEFINE e == El.entry
<1>1. Headed /\ (refusals <= 1 => PathsAgree)
  BY HeadedNow DEF TreeInv
<1>2. /\ e \in Entries /\ El.from \in PathOf(e) /\ El.to \in PathOf(e)
      /\ e \in Files => header[e] = El.to
  BY ElementIs, HeaderIs
<1>3. /\ Headed' /\ (PathsAgree => PathsAgree')
      /\ \A f \in Files : header'[f] = IF f = e THEN El.from ELSE header[f]
  BY <1>1, <1>2, SetNameIs DEF Backward
<1>4. /\ HeadersAt(header, at) => HeadersAt(header', at - 1)
      /\ HeadersNew(header, at) => HeadersNew(header', at - 1)
  BY <1>3, HeadersStep
<1> QED
  BY <1>1, <1>3, <1>4

\* It fails only by a further refusal while the old path leads to the entry.
LEMMA BackwardFailsStep ==
    ASSUME TreeAssumption, TreeInv, pc # "idle", BackwardFails(El.entry, El.to, El.from),
           HeadersNew(header, at), refusals >= 1,
           refusals = 1 => DiskAt(disk, at - 1)
    PROVE  /\ Headed' /\ HeadersNew(header', at - 1)
           /\ refusals' \in 0..MaxRefusals /\ refusals' >= 2
<1> DEFINE e == El.entry
<1>1. Headed /\ e \in Entries /\ El.from \in PathOf(e) /\ at \in Nat
  BY HeadedNow, ElementIs
<1>2. Headed' /\ header' = header
  BY <1>1, BackwardFailsIs
<1>3. HeadersNew(header', at - 1)
  BY <1>1, <1>2 DEF HeadersNew, Positions
<1>4. refusals \in 0..MaxRefusals /\ MaxRefusals \in Nat
  BY DEF TreeInv, TypeOK, TreeAssumption
<1>5. refusals = 1 => Refuse
  BY OldPathNow DEF BackwardFails, Reaches
<1>6. Refuse \/ UNCHANGED refusals
  BY DEF BackwardFails
<1>7. refusals' \in 0..MaxRefusals /\ refusals' >= 2
  BY <1>4, <1>5, <1>6 DEF Refuse
<1> QED
  BY <1>2, <1>3, <1>7

LEMMA RenameNodeBackStep == ASSUME TreeAssumption, TreeInv, RenameNodeBack PROVE TreeInv'
<1> DEFINE e == El.entry
<1>1. pc = "back" /\ UNCHANGED <<disk, before, after>>
  BY DEF RenameNodeBack
<1>2. /\ refusals = 1 /\ DiskAt(disk, at - 1) /\ HeadersAt(header, at)
      /\ disk \in Places /\ refusals \in 0..MaxRefusals
  BY <1>1 DEF TreeInv, Along, TypeOK
<1>3. HeadersNew(header, at)
  BY <1>2 DEF HeadersAt, HeadersNew
<1>4. CASE Backward(e, El.to, El.from) /\ UndoFrom(at) /\ UNCHANGED refusals
  <2>1. Headed' /\ HeadersNew(header', at - 1) /\ PathsAgree' /\ HeadersAt(header', at - 1)
    BY <1>1, <1>2, <1>3, <1>4, BackwardStep
  <2>2. DiskAt(disk', at - 1) /\ disk' \in Places
    BY <1>1, <1>2
  <2>3. refusals' \in 0..MaxRefusals /\ refusals' = 1
    BY <1>2, <1>4
  <2> QED
    BY <1>1, <1>4, <2>1, <2>2, <2>3, UndoFromInv
<1>5. CASE /\ BackwardFails(e, El.to, El.from)
           /\ IF Last THEN Finish("failed") ELSE UndoFrom(at)
  <2>1. /\ Headed' /\ HeadersNew(header', at - 1)
        /\ refusals' \in 0..MaxRefusals /\ refusals' >= 2
    BY <1>1, <1>2, <1>3, <1>5, BackwardFailsStep
  <2>2. disk' \in Places
    BY <1>1, <1>2
  <2>3. MaxRefusals \in Nat
    BY DEF TreeAssumption
  <2>4. refusals' > 0 /\ refusals' >= 1 /\ ~(refusals' <= 1) /\ refusals' # 1
    BY <2>1, <2>3
  <2>5. CASE Last
    BY <1>1, <1>5, <2>1, <2>2, <2>4, <2>5, FinishInv
  <2>6. CASE ~Last
    BY <1>1, <1>5, <2>1, <2>2, <2>4, <2>6, UndoFromInv
  <2> QED
    BY <2>5, <2>6
<1> QED
  BY <1>4, <1>5 DEF RenameNodeBack

LEMMA UndoDiskStep == ASSUME TreeAssumption, TreeInv, UndoDisk PROVE TreeInv'
<1> DEFINE e == El.entry
<1>1. pc = "undoDisk" /\ pc' = "undoNode" /\ UNCHANGED <<header, node, queue, at, result, before, after>>
  BY DEF UndoDisk
<1>2. /\ refusals >= 1 /\ HeadersNew(header, at)
      /\ refusals = 1 => DiskAt(disk, at) /\ HeadersAt(header, at)
  BY <1>1 DEF TreeInv, Along
<1>3. Headed /\ (refusals <= 1 => PathsAgree) /\ disk \in Places
  BY <1>1, HeadedNow DEF TreeInv, TypeOK
<1>4. Headed' /\ (PathsAgree => PathsAgree')
  BY <1>1, <1>3 DEF Headed, NodesAgree, PathsAgree, PathOf, Depth, Nodes
<1>5. at \in Positions /\ at \in Nat
  BY <1>1, ElementIs
<1>6. MaxRefusals \in Nat /\ MaxRefusals >= 2 /\ refusals \in 0..MaxRefusals
  BY DEF TreeAssumption, TreeInv, TypeOK
<1>7. HeadersNew(header', at') /\ (HeadersAt(header, at) => HeadersAt(header', at'))
  BY <1>1, <1>2
<1>8. CASE /\ NamedIn(e, DirOf(El.from), El.to) /\ ~Busy(e)
           /\ disk' = [disk EXCEPT ![e] = El.from]
           /\ UNCHANGED refusals
  <2>1. disk' \in Places /\ (DiskAt(disk, at) => DiskAt(disk', at - 1))
    BY <1>1, <1>8, DiskStep
  <2>2. Along'
    BY <1>1, <1>2, <1>8, <2>1 DEF Along, HeadersAt, HeadersNew, DiskAt, Positions, Queued
  <2> QED
    BY <1>1, <1>3, <1>4, <1>5, <1>6, <1>8, <2>1, <2>2, AlongInv
<1>9. CASE /\ \/ ~NamedIn(e, DirOf(El.from), El.to) /\ UNCHANGED refusals
              \/ Busy(e) /\ Counted
              \/ Refuse
           /\ UNCHANGED disk
  <2>1. refusals = 1 => NamedIn(e, DirOf(El.from), El.to)
    <3> SUFFICES ASSUME refusals = 1 PROVE NamedIn(e, DirOf(El.from), El.to)
      OBVIOUS
    <3>1. DiskAt(disk, at) /\ at \in Int /\ at <= at /\ El = queue[at]
      BY <1>2, <1>5 DEF El
    <3>2. FoundAs(e, DirOf(El.from))
      BY <1>1, <3>1, OldPathLeads
    <3>3. disk[e] = El.to
      BY <1>5, <3>1 DEF DiskAt
    <3> QED
      BY <3>2, <3>3 DEF NamedIn
  <2>2. refusals' \in 0..MaxRefusals /\ refusals' >= 2
    BY <1>2, <1>6, <1>9, <2>1 DEF Counted, Refuse
  <2>3. refusals' >= 1 /\ refusals' # 1 /\ ~(refusals' <= 1)
    BY <1>6, <2>2
  <2>4. Along'
    BY <1>1, <1>2, <2>3 DEF Along, HeadersNew, Positions
  <2> QED
    BY <1>1, <1>3, <1>4, <1>5, <1>9, <2>2, <2>3, <2>4, AlongInv
<1> QED
  BY <1>8, <1>9 DEF UndoDisk

LEMMA UndoNodeStep == ASSUME TreeAssumption, TreeInv, UndoNode PROVE TreeInv'
<1> DEFINE e == El.entry
<1>1. pc = "undoNode" /\ UNCHANGED <<disk, before, after>> /\ UndoFrom(at)
  BY DEF UndoNode
<1>2. /\ refusals >= 1 /\ HeadersNew(header, at)
      /\ refusals = 1 => DiskAt(disk, at - 1) /\ HeadersAt(header, at)
      /\ disk \in Places /\ refusals \in 0..MaxRefusals /\ MaxRefusals \in Nat
  BY <1>1 DEF TreeInv, Along, TypeOK, TreeAssumption
<1>3. refusals <= 1 => refusals = 1
  BY <1>2
<1>4. disk' \in Places /\ (DiskAt(disk, at - 1) => DiskAt(disk', at - 1))
  BY <1>1, <1>2
<1>5. CASE Backward(e, El.to, El.from) /\ UNCHANGED refusals
  <2>1. /\ Headed' /\ HeadersNew(header', at - 1)
        /\ refusals <= 1 => PathsAgree' /\ HeadersAt(header', at - 1)
    BY <1>1, <1>2, <1>3, <1>5, BackwardStep
  <2>2. /\ refusals' \in 0..MaxRefusals /\ refusals' >= 1
        /\ refusals' <= 1 => PathsAgree'
        /\ refusals' = 1 => DiskAt(disk', at - 1) /\ HeadersAt(header', at - 1)
    BY <1>2, <1>4, <1>5, <2>1
  <2> QED
    BY <1>1, <1>4, <2>1, <2>2, UndoFromInv
<1>6. CASE BackwardFails(e, El.to, El.from)
  <2>1. /\ Headed' /\ HeadersNew(header', at - 1)
        /\ refusals' \in 0..MaxRefusals /\ refusals' >= 2
    BY <1>1, <1>2, <1>6, BackwardFailsStep
  <2>2. refusals' >= 1 /\ ~(refusals' <= 1) /\ refusals' # 1
    BY <1>2, <2>1
  <2> QED
    BY <1>1, <1>4, <2>1, <2>2, UndoFromInv
<1> QED
  BY <1>5, <1>6 DEF UndoNode

----------------------------------------------------------------------------
(* The specification.                                                      *)

LEMMA TreeInvInit == ASSUME TreeAssumption, Init PROVE TreeInv
<1>1. PICK n \in Names : disk = Start(n)
  BY DEF Init
<1>2. /\ header = [f \in Files |-> disk[f]] /\ node = [f \in Files |-> NoNode]
      /\ queue = <<>> /\ at = 0 /\ pc = "idle" /\ result = "ok" /\ refusals = 0
      /\ before = disk /\ after = disk
  BY DEF Init
<1>3. \A e \in Entries : /\ Depth(e) \in Nat /\ disk[e] = [k \in 1..Depth(e) |-> n]
                         /\ disk[e] \in Seq(Names) /\ Len(disk[e]) = Depth(e)
  <2> SUFFICES ASSUME NEW e \in Entries
               PROVE  /\ Depth(e) \in Nat /\ disk[e] = [k \in 1..Depth(e) |-> n]
                      /\ disk[e] \in Seq(Names) /\ Len(disk[e]) = Depth(e)
    OBVIOUS
  <2>1. Depth(e) \in Nat
    BY ChainIs
  <2>2. disk[e] = [k \in 1..Depth(e) |-> n]
    BY <1>1 DEF Start
  <2>3. disk[e] \in [1..Depth(e) -> Names]
    BY <2>2
  <2>4. disk[e] \in Seq(Names)
    BY <2>1, <2>3, SeqDef
  <2> QED
    BY <2>1, <2>2, <2>3, <2>4, LenProperties
<1>4. disk \in Places
  <2>1. disk = [e \in Entries |-> disk[e]]
    BY <1>1 DEF Start
  <2>2. disk \in [Entries -> Seq(Names)]
    BY <1>3, <2>1
  <2> QED
    BY <1>3, <2>2 DEF Places, PathOf
<1>5. Coherent(disk)
  <2> SUFFICES ASSUME NEW e \in Entries, NEW k \in 1..Depth(e)
               PROVE  disk[Chain[e][k]] = SubSeq(disk[e], 1, k)
    BY DEF Coherent
  <2> DEFINE c == Chain[e][k]
  <2>1. c \in Entries /\ Depth(c) = k /\ Depth(e) \in Nat
    BY ChainIs
  <2>2. disk[e] \in Seq(Names) /\ Len(disk[e]) = Depth(e) /\ disk[e] = [i \in 1..Depth(e) |-> n]
    BY <1>3
  <2>3. disk[c] \in Seq(Names) /\ Len(disk[c]) = Depth(c) /\ disk[c] = [i \in 1..Depth(c) |-> n]
    BY <1>3, <2>1
  <2> HIDE DEF c
  <2>4. (\A i \in 1..k : disk[c][i] = n) /\ (\A i \in 1..Depth(e) : disk[e][i] = n)
    BY <2>1, <2>2, <2>3
  <2>5. k \in 0..Len(disk[e]) /\ \A i \in 1..k : i \in 1..Depth(e)
    <3>1. Len(disk[e]) = Depth(e)
      BY <2>2
    <3> QED
      BY <2>1, <3>1
  <2>6. /\ SubSeq(disk[e], 1, k) \in Seq(Names) /\ Len(SubSeq(disk[e], 1, k)) = k
        /\ \A i \in 1..k : SubSeq(disk[e], 1, k)[i] = disk[e][i]
    BY <2>2, <2>5, PrefixIs
  <2>7. \A i \in 1..k : disk[c][i] = SubSeq(disk[e], 1, k)[i]
    BY <2>4, <2>5, <2>6
  <2>8. disk[c] = SubSeq(disk[e], 1, k)
    <3>1. disk[c] \in Seq(Names) /\ Len(disk[c]) = k
      BY <2>1, <2>3
    <3> QED
      BY <2>6, <2>7, <3>1, SeqEqual
  <2> QED
    BY <2>8 DEF c
<1>6. Files \subseteq Entries /\ MaxRefusals \in Nat
  BY DEF TreeAssumption
<1>7. /\ header \in [Files -> Seq(Names)]
      /\ \A f \in Files : header[f] = disk[f] /\ header[f] \in PathOf(f)
  BY <1>2, <1>3, <1>6 DEF PathOf
<1>8. node \in [Files -> {NoNode} \cup Nodes] /\ \A f \in Files : node[f] = NoNode
  BY <1>2
<1>9. queue \in Seq([entry : Entries, from : Seq(Names), to : Seq(Names)]) /\ at \in 0..Len(queue)
  BY <1>2, EmptySeq
<1>10. TypeOK
  BY <1>2, <1>4, <1>6, <1>7, <1>8, <1>9 DEF TypeOK
<1>11. AtRest
  BY <1>2, <1>7 DEF AtRest
<1> QED
  BY <1>2, <1>5, <1>7, <1>8, <1>10, <1>11 DEF TreeInv, NodesAgree, PathsAgree

LEMMA TreeInvNext == ASSUME TreeAssumption, TreeInv, [Next]_vars PROVE TreeInv'
<1>1. ASSUME NEW f \in Files, Open(f) PROVE TreeInv'
  BY <1>1, OpenStep
<1>2. ASSUME NEW f \in Files, Close(f) PROVE TreeInv'
  BY <1>2, CloseStep
<1>3. ASSUME NEW e \in Entries, Rename(e) PROVE TreeInv'
  BY <1>3, RenameStep
<1>4. CASE RenameNode
  BY <1>4, RenameNodeStep
<1>5. CASE RenameDisk
  BY <1>5, RenameDiskStep
<1>6. CASE RenameNodeBack
  BY <1>6, RenameNodeBackStep
<1>7. CASE UndoDisk
  BY <1>7, UndoDiskStep
<1>8. CASE UndoNode
  BY <1>8, UndoNodeStep
<1>9. CASE UNCHANGED vars
  <2>1. /\ UNCHANGED <<tree, queue, at, pc, result, refusals, before, after>>
        /\ header' = header /\ node' = node
    BY <1>9 DEF vars, tree
  <2>2. /\ node' \in [Files -> {NoNode} \cup Nodes]
        /\ refusals <= 1 \/ pc # "idle" => NodesAgree'
        /\ refusals <= 1 => PathsAgree'
    BY <2>1 DEF TreeInv, TypeOK, NodesAgree, PathsAgree
  <2> QED
    BY <2>1, <2>2, NodeStep
<1> QED
  BY <1>1, <1>2, <1>3, <1>4, <1>5, <1>6, <1>7, <1>8, <1>9 DEF Next, Lookup

\* Whatever has been renamed and whatever the OS has refused, the elements of the list
\* before the one whose turn it is have been dealt with and the others have not, on disk
\* and in their headers (DirNode.cpp:217-356).
THEOREM Invariant == ASSUME TreeAssumption PROVE Spec => []TreeInv
<1>1. Init => TreeInv
  BY TreeInvInit
<1>2. TreeInv /\ [Next]_vars => TreeInv'
  BY TreeInvNext
<1> QED
  BY <1>1, <1>2, PTL DEF Spec

\* Every variable of a rename has its type (DirNode.cpp:140-356).
THEOREM TypeCorrect == ASSUME TreeAssumption PROVE Spec => []TypeOK
<1>1. TreeInv => TypeOK
  BY DEF TreeInv
<1> QED
  BY <1>1, Invariant, PTL

LEMMA RestIs == ASSUME TreeAssumption, TreeInv PROVE AllOrNothing
<1> SUFFICES ASSUME Rested PROVE /\ disk = IF result = "ok" THEN after ELSE before
                                 /\ \A e \in Entries : Visible(e)
                                 /\ \A f \in Files :
                                      /\ header[f] = disk[f]
                                      /\ node[f] # NoNode =>
                                           /\ node[f].key = disk[f] /\ node[f].io = disk[f]
                                           /\ node[f].iv = header[f]
  BY DEF AllOrNothing
<1>1. /\ disk = IF result = "ok" THEN after ELSE before
      /\ \A f \in Files : header[f] = disk[f]
      /\ NodesAgree /\ PathsAgree
  BY DEF Rested, TreeInv, AtRest
<1>2. disk \in Places /\ Coherent(disk)
  BY <1>1 DEF TreeInv, TypeOK
<1>3. \A e \in Entries : Visible(e)
  BY <1>2, AllVisible
<1> QED
  BY <1>1, <1>3 DEF NodesAgree, PathsAgree

\* For every volume, every listing order and every point at which the OS refuses one thing:
\* a rename moves the whole tree or none of it, and every header and every open node goes
\* with the path its file has (DirNode.cpp:217-356, 614-684).
THEOREM AlwaysAllOrNothing == ASSUME TreeAssumption PROVE Spec => []AllOrNothing
<1>1. TreeInv => AllOrNothing
  BY RestIs
<1> QED
  BY <1>1, Invariant, PTL

\* Only the element whose turn it is can have a header that is not its name's.
LEMMA OneDiffers ==
    ASSUME TreeAssumption, TreeInv, pc # "idle", refusals <= 1, NEW f \in Files, header[f] # disk[f]
    PROVE  f = El.entry
<1>1. /\ at \in Positions /\ at \in Nat /\ Len(queue) \in Nat /\ El = queue[at]
      /\ \A k \in Positions : k # at => (k <= at <=> k <= at - 1)
  <2>1. at \in Positions /\ at \in Nat /\ Len(queue) \in Nat
    BY ElementIs
  <2> QED
    BY <2>1 DEF Positions, El
<1>2. refusals \in Nat
  BY DEF TreeInv, TypeOK, TreeAssumption
<1>3. PICK i, j \in {at, at - 1} : DiskAt(disk, i) /\ HeadersAt(header, j)
  BY <1>2 DEF TreeInv, TypeOK, Along
<1>4. f \in Entries
  BY DEF TreeAssumption
<1>5. f \in Queued
  BY <1>3, <1>4 DEF DiskAt, HeadersAt
<1>6. PICK k \in Positions : queue[k].entry = f
  BY <1>5 DEF Queued
<1>7. disk[f] = (IF k <= i THEN queue[k].to ELSE queue[k].from)
  BY <1>3, <1>6 DEF DiskAt
<1>8. header[f] = (IF k <= j THEN queue[k].to ELSE queue[k].from)
  BY <1>3, <1>6 DEF HeadersAt
<1>9. ~(k <= i <=> k <= j)
  BY <1>7, <1>8
<1>10. k = at
  BY <1>1, <1>3, <1>9
<1> QED
  BY <1>1, <1>6, <1>10

LEMMA HeadersAre == ASSUME TreeAssumption, TreeInv PROVE HeadersFollow
<1>1. ASSUME NEW f \in Files PROVE header[f] # Garbled
  <2>1. header[f] \in Seq(Names) /\ Len(header[f]) = Depth(f) /\ f \in Entries
    BY DEF TreeInv, PathOf, TreeAssumption
  <2>2. Len(header[f]) # 0
    BY <2>1, ChainIs
  <2> QED
    BY <2>1, <2>2, EmptySeq DEF Garbled
<1>2. ASSUME refusals <= 1 PROVE Cardinality({f \in Files : header[f] # disk[f]}) <= 1
  <2> DEFINE apart == {f \in Files : header[f] # disk[f]}
  <2>1. CASE pc = "idle"
    <3>1. apart = {}
      BY <1>2, <2>1 DEF TreeInv, AtRest
    <3>2. Cardinality(apart) = 0
      BY <3>1, FS_EmptySet
    <3> QED
      BY <3>2
  <2>2. CASE pc # "idle"
    <3>1. apart \subseteq {El.entry}
      BY <1>2, <2>2, OneDiffers
    <3>2. IsFiniteSet({El.entry}) /\ Cardinality({El.entry}) = 1
      BY FS_Singleton
    <3>3. Cardinality(apart) <= Cardinality({El.entry})
      BY <3>1, <3>2, FS_Subset
    <3> QED
      BY <3>2, <3>3
  <2> QED
    BY <2>1, <2>2
<1> QED
  BY <1>1, <1>2 DEF HeadersFollow

\* No header is ever read with an IV it was not written with, whatever fails; and after any
\* one refusal at most the file whose turn it is has a header that is not its name's
\* (CipherFileIO.cpp:101-150, DirNode.cpp:221-304).
THEOREM HeadersAlwaysFollow == ASSUME TreeAssumption PROVE Spec => []HeadersFollow
<1>1. TreeInv => HeadersFollow
  BY HeadersAre
<1> QED
  BY <1>1, Invariant, PTL

LEMMA CauseIs == TreeInv => FailsForCause
BY DEF TreeInv, AtRest, FailsForCause

\* A rename that fails has been refused something: its own steps never take away what a
\* later one looks for (DirNode.cpp:217-356).
THEOREM AlwaysFailsForCause == ASSUME TreeAssumption PROVE Spec => []FailsForCause
<1>1. TreeInv => FailsForCause
  BY CauseIs
<1> QED
  BY <1>1, Invariant, PTL

----------------------------------------------------------------------------
(* The callbacks on directories.                                           *)

Ops == {"none", "list", "info", "rmdir", "rename"} \cup D!Fields
CallPlaces == {"done", "open", "getdir", "walk", "attributes", "set", "rmdir", "entries", "undo"}
Abouts == [kid : Kids, kind : D!Kinds, set : SUBSET D!Fields]
Calls == [op : Ops, dir : Dirs, pc : CallPlaces, result : {"ok", "failed"},
          names : SUBSET Kids, now : SUBSET Abouts, to : Dirs, done : SUBSET Kids,
          shown : SUBSET Abouts, stays : SUBSET Kids, ever : SUBSET Abouts]

Typed ==
    /\ chained \in BOOLEAN
    /\ DOMAIN held \subseteq Dirs /\ held \in [DOMAIN held -> SUBSET D!Entry]
    /\ calls \in [Callers -> Calls]

\* The directories, as h has them, and the callbacks, as x has them.
Disk(h, d) == IF d \in DOMAIN h THEN h[d] ELSE {}
WayIn(x, d) == \E t \in Callers : D!Renames(x[t]) /\ x[t].dir = d
ListsIn(x, d) == \E t \in Callers : x[t].op = "list" /\ x[t].pc # "done" /\ x[t].dir = d

\* What a rename on its way has done to its directory.
RenameOK(c, h) ==
    /\ c.dir # c.to /\ c.pc \in {"entries", "undo"}
    /\ c.names \cap c.done = {}
    /\ ~chained => c.names = {} /\ c.done = {}
    /\ \A e \in Disk(h, c.dir) :
         /\ e.iv = IF e.kid \in c.done THEN D!IV(c.to) ELSE D!IV(c.dir)
         /\ chained /\ c.pc = "entries" => e.kid \in c.names \cup c.done

HeldOK(h, x) ==
    /\ \A d \in DOMAIN h : \A e, f \in h[d] : f.kid = e.kid => f = e
    /\ \A d \in DOMAIN h : ~WayIn(x, d) => \A e \in h[d] : e.iv = D!IV(d)
    /\ \A t \in Callers : D!Renames(x[t]) => RenameOK(x[t], h) /\ ~ListsIn(x, x[t].dir)
    /\ \A t, u \in Callers : D!Renames(x[t]) /\ D!Renames(x[u]) => t = u

KidsOf(set) == {s.kid : s \in set}

\* What a listing has shown has been so.
ShownOK(c) ==
    \A s \in c.shown :
      /\ \E o \in c.ever : o.kid = s.kid /\ o.kind = s.kind
      /\ \A f \in D!Fields : \E o \in c.ever : o.kid = s.kid /\ (f \in s.set <=> f \in o.set)

\* What a listing knows, whatever happens meanwhile.
Known(c) ==
    /\ c.now \subseteq c.ever /\ \A a, b \in c.now : a = b
    /\ ShownOK(c)
    /\ c.op = "list" =>
         /\ c.names \subseteq KidsOf(c.ever)
         /\ c.pc = "walk" => c.stays \subseteq c.names \cup KidsOf(c.shown)
         /\ c.pc = "attributes" => c.stays \subseteq c.names \cup KidsOf(c.now) \cup KidsOf(c.shown)
         /\ c.pc = "done" => IF c.result = "ok" THEN c.stays \subseteq KidsOf(c.shown)
                             ELSE KidsOf(c.ever) # c.stays

\* What has been observed is what is there.
Watches(c) == c.op \in {"list", "info"} /\ c.pc # "done"
PlainIn(h, d) == {e \in Disk(h, d) : e.iv = D!IV(d)}
Observed(c, h) ==
    Watches(c) => /\ {D!About(e) : e \in PlainIn(h, c.dir)} \subseteq c.ever
                  /\ c.op = "list" => c.stays \subseteq KidsOf(PlainIn(h, c.dir))

DirInv ==
    /\ Typed /\ HeldOK(held, calls)
    /\ \A t \in Callers : Known(calls[t]) /\ Observed(calls[t], held)

----------------------------------------------------------------------------
(* Entries and callbacks.                                                  *)

LEMMA AboutIs ==
    ASSUME NEW e \in D!Entry
    PROVE  /\ e.kid \in Kids /\ e.kind \in D!Kinds /\ e.set \in SUBSET D!Fields
           /\ D!About(e) \in Abouts /\ D!About(e).kid = e.kid /\ D!About(e).kind = e.kind
           /\ D!About(e).set = e.set
BY DEF D!About, Abouts, D!Entry

LEMMA NoCallIs ==
    ASSUME D!DirsAssumption
    PROVE  /\ D!NoCall \in Calls /\ Known(D!NoCall)
           /\ ~Watches(D!NoCall) /\ ~D!Renames(D!NoCall) /\ D!NoCall.op = "none"
<1>1. D!NoDir \in Dirs
  BY DEF D!NoDir, D!DirsAssumption
<1>2. D!NoCall \in Calls
  BY <1>1 DEF D!NoCall, Calls, Ops, CallPlaces, D!Fields
<1>3. D!NoCall.now = {} /\ D!NoCall.shown = {} /\ D!NoCall.op = "none"
  BY DEF D!NoCall
<1> QED
  BY <1>2, <1>3 DEF Known, ShownOK, Watches, D!Renames

LEMMA PlainIs ==
    ASSUME NEW d
    PROVE  D!Plain(d) = PlainIn(held, d) /\ D!OnDisk(d) = Disk(held, d)
BY DEF D!Plain, PlainIn, D!OnDisk, Disk, D!Exists

\* What an observer learns from a step.
LEMMA ObserveIs ==
    ASSUME Typed, chained' = chained,
           DOMAIN held' \subseteq Dirs, held' \in [DOMAIN held' -> SUBSET D!Entry],
           NEW c \in Calls
    PROVE  LET o == D!Observe(c) IN
           /\ o \in Calls
           /\ o.op = c.op /\ o.dir = c.dir /\ o.pc = c.pc /\ o.result = c.result
           /\ o.names = c.names /\ o.now = c.now /\ o.to = c.to /\ o.done = c.done
           /\ o.shown = c.shown
           /\ ~Watches(c) => o = c
           /\ Watches(c) =>
                /\ o.stays = c.stays \cap KidsOf(Disk(held', c.dir))
                /\ o.ever = c.ever \cup {D!About(e) : e \in PlainIn(held', c.dir)}
<1> DEFINE o == D!Observe(c)
           stays == c.stays \cap KidsOf(Disk(held', c.dir))
           ever == c.ever \cup {D!About(e) : e \in PlainIn(held', c.dir)}
<1>1. Disk(held', c.dir) \subseteq D!Entry
  BY DEF Disk
<1>2. stays \in SUBSET Kids /\ ever \in SUBSET Abouts
  <2>1. c.stays \in SUBSET Kids /\ c.ever \in SUBSET Abouts
    BY DEF Calls
  <2>2. \A e \in PlainIn(held', c.dir) : D!About(e) \in Abouts
    BY <1>1, AboutIs DEF PlainIn
  <2> QED
    BY <2>1, <2>2
<1>3. Watches(c) => o = [c EXCEPT !.stays = stays, !.ever = ever]
  BY DEF D!Observe, Watches, Disk, PlainIn, KidsOf
<1>4. ~Watches(c) => o = c
  BY DEF D!Observe, Watches
<1> HIDE DEF stays, ever
<1>5. LET n == [c EXCEPT !.stays = stays, !.ever = ever] IN
      /\ n \in Calls /\ n.stays = stays /\ n.ever = ever
      /\ n.op = c.op /\ n.dir = c.dir /\ n.pc = c.pc /\ n.result = c.result
      /\ n.names = c.names /\ n.now = c.now /\ n.to = c.to /\ n.done = c.done
      /\ n.shown = c.shown
  BY <1>2 DEF Calls
<1> HIDE DEF o
<1>6. CASE Watches(c)
  BY <1>3, <1>5, <1>6 DEF o, stays, ever
<1>7. CASE ~Watches(c)
  BY <1>4, <1>7 DEF o
<1> QED
  BY <1>6, <1>7

\* What is known stays known while more is observed.
LEMMA KnownKept ==
    ASSUME NEW c, NEW o, Known(c), c.pc # "done",
           o.op = c.op, o.pc = c.pc, o.names = c.names, o.now = c.now, o.shown = c.shown,
           o.stays \subseteq c.stays, c.ever \subseteq o.ever
    PROVE  Known(o)
<1>1. o.now \subseteq o.ever /\ \A a, b \in o.now : a = b
  BY DEF Known
<1>2. ShownOK(o)
  <2> SUFFICES ASSUME NEW s \in c.shown
               PROVE  /\ \E r \in c.ever : r.kid = s.kid /\ r.kind = s.kind
                      /\ \A f \in D!Fields : \E r \in c.ever :
                           r.kid = s.kid /\ (f \in s.set <=> f \in r.set)
    BY DEF ShownOK
  <2> QED
    BY DEF Known, ShownOK
<1>3. KidsOf(c.ever) \subseteq KidsOf(o.ever)
  BY DEF KidsOf
<1>4. o.op = "list" =>
        /\ o.names \subseteq KidsOf(o.ever)
        /\ o.pc = "walk" => o.stays \subseteq o.names \cup KidsOf(o.shown)
        /\ o.pc = "attributes" => o.stays \subseteq o.names \cup KidsOf(o.now) \cup KidsOf(o.shown)
  BY <1>3 DEF Known
<1> QED
  BY <1>1, <1>2, <1>4 DEF Known

----------------------------------------------------------------------------
(* A step: x is what it makes of the callbacks before they observe it.     *)

\* What has been observed stands as long as the vectors do.
LEMMA ObservedPrimed ==
    ASSUME chained' = chained, NEW t \in Callers
    PROVE  Observed(calls'[t], held') => Observed(calls[t], held)'
<1>1. \A d : D!IV(d)' = D!IV(d)
  BY DEF D!IV
<1>2. \A d : PlainIn(held, d)' = PlainIn(held', d)
  BY <1>1 DEF PlainIn, Disk
<1>3. (calls[t])' = calls'[t] /\ Watches(calls[t])' = Watches(calls'[t])
  BY DEF Watches
<1> DEFINE Same(h, c) == {D!About(e) : e \in PlainIn(h, c.dir)}
<1>4. Same(held, calls[t])' = Same(held', calls'[t])
  BY <1>2, <1>3 DEF D!About
<1>5. KidsOf(PlainIn(held, calls[t].dir))' = KidsOf(PlainIn(held', calls'[t].dir))
  BY <1>2, <1>3 DEF KidsOf
<1> QED
  BY <1>3, <1>4, <1>5 DEF Observed

LEMMA HeldPrimed ==
    ASSUME chained' = chained, HeldOK(held', calls')
    PROVE  HeldOK(held, calls)'
<1>1. \A d : D!IV(d)' = D!IV(d)
  BY DEF D!IV
<1>2. \A t \in Callers : RenameOK(calls'[t], held') => RenameOK(calls[t], held)'
  BY <1>1 DEF RenameOK, Disk
<1>3. \A d : (WayIn(calls', d) <=> WayIn(calls, d)') /\ (ListsIn(calls', d) <=> ListsIn(calls, d)')
  BY DEF WayIn, ListsIn, D!Renames
<1>4. \A t \in Callers : D!Renames(calls'[t]) <=> D!Renames(calls[t])'
  BY DEF D!Renames
<1> QED
  BY <1>1, <1>2, <1>3, <1>4 DEF HeldOK

LEMMA StepOK ==
    ASSUME DirInv, chained' = chained,
           DOMAIN held' \subseteq Dirs, held' \in [DOMAIN held' -> SUBSET D!Entry],
           NEW x \in [Callers -> Calls], \A t \in Callers : Known(x[t]),
           HeldOK(held', x),
           calls' = [t \in Callers |-> D!Observe(x[t])]
    PROVE  DirInv'
<1>1. Typed
  BY DEF DirInv
<1>2. ASSUME NEW t \in Callers
      PROVE  LET o == calls'[t]
                 c == x[t]
             IN /\ o \in Calls
                /\ o.op = c.op /\ o.dir = c.dir /\ o.pc = c.pc /\ o.result = c.result
                /\ o.names = c.names /\ o.now = c.now /\ o.to = c.to /\ o.done = c.done
                /\ o.shown = c.shown
                /\ ~Watches(c) => o = c
                /\ Watches(c) =>
                     /\ o.stays = c.stays \cap KidsOf(Disk(held', c.dir))
                     /\ o.ever = c.ever \cup {D!About(e) : e \in PlainIn(held', c.dir)}
  <2>1. calls'[t] = D!Observe(x[t]) /\ x[t] \in Calls
    OBVIOUS
  <2> QED
    BY <1>1, <2>1, ObserveIs
<1>3. Typed'
  <2>1. \A t \in Callers : calls'[t] \in Calls
    BY <1>2
  <2>2. calls' \in [Callers -> Calls]
    BY <2>1
  <2>3. D!Entry' = D!Entry
    BY DEF D!Entry, D!IV
  <2>4. chained' \in BOOLEAN
    BY <1>1 DEF Typed
  <2> QED
    BY <2>2, <2>3, <2>4 DEF Typed
<1>4. \A t \in Callers : /\ D!Renames(calls'[t]) <=> D!Renames(x[t])
                         /\ D!Renames(x[t]) => calls'[t] = x[t]
  BY <1>2 DEF D!Renames, Watches
<1>5. \A d : (WayIn(calls', d) <=> WayIn(x, d)) /\ (ListsIn(calls', d) <=> ListsIn(x, d))
  BY <1>2, <1>4 DEF WayIn, ListsIn
<1>6. HeldOK(held, calls)'
  <2>1. HeldOK(held', calls')
    BY <1>4, <1>5 DEF HeldOK
  <2> QED
    BY <2>1, HeldPrimed
<1>7. ASSUME NEW t \in Callers PROVE Known(calls'[t])
  <2>1. CASE Watches(x[t])
    BY <1>2, <2>1, KnownKept DEF Watches
  <2>2. CASE ~Watches(x[t])
    BY <1>2, <2>2
  <2> QED
    BY <2>1, <2>2
<1>8. ASSUME NEW t \in Callers PROVE Observed(calls'[t], held')
  <2> SUFFICES ASSUME Watches(calls'[t])
               PROVE  /\ {D!About(e) : e \in PlainIn(held', calls'[t].dir)} \subseteq calls'[t].ever
                      /\ calls'[t].op = "list" =>
                           calls'[t].stays \subseteq KidsOf(PlainIn(held', calls'[t].dir))
    BY DEF Observed
  <2>1. /\ Watches(x[t])
        /\ calls'[t].dir = x[t].dir /\ calls'[t].op = x[t].op /\ x[t].pc # "done"
        /\ calls'[t].stays = x[t].stays \cap KidsOf(Disk(held', x[t].dir))
        /\ calls'[t].ever = x[t].ever \cup {D!About(e) : e \in PlainIn(held', x[t].dir)}
    BY <1>2 DEF Watches
  <2>2. ASSUME x[t].op = "list" PROVE Disk(held', x[t].dir) = PlainIn(held', x[t].dir)
    <3>1. ListsIn(x, x[t].dir)
      BY <2>1, <2>2 DEF ListsIn
    <3>2. ~WayIn(x, x[t].dir)
      BY <3>1 DEF HeldOK, WayIn
    <3> QED
      BY <3>2 DEF HeldOK, PlainIn, Disk
  <2> QED
    BY <2>1, <2>2
<1>9. \A t \in Callers : Observed(calls'[t], held') => Observed(calls[t], held)'
  BY ObservedPrimed
<1>10. \A t \in Callers : Known(calls'[t]) => Known(calls[t])'
  BY DEF Known, ShownOK, KidsOf
<1> QED
  BY <1>3, <1>6, <1>7, <1>8, <1>9, <1>10 DEF DirInv

\* Nothing that leaves the vectors of entries alone, or gives them their directory's
\* while it is not on its way, disturbs a rename.
LEMMA HeldKept ==
    ASSUME Typed, HeldOK(held, calls), NEW h, NEW x,
           \A t \in Callers : /\ D!Renames(x[t]) <=> D!Renames(calls[t])
                              /\ D!Renames(calls[t]) => x[t] = calls[t],
           \A d : ListsIn(x, d) => ListsIn(calls, d) \/ ~WayIn(calls, d),
           \A d \in DOMAIN h : \A e \in h[d] :
             \/ \E f \in Disk(held, d) : f.kid = e.kid /\ f.iv = e.iv
             \/ ~WayIn(calls, d) /\ e.iv = D!IV(d),
           \A d \in DOMAIN h : \A e, f \in h[d] : f.kid = e.kid => f = e
    PROVE  HeldOK(h, x)
<1>1. \A d : WayIn(x, d) <=> WayIn(calls, d)
  BY DEF WayIn
<1>2. \A d \in DOMAIN h : ~WayIn(x, d) => \A e \in h[d] : e.iv = D!IV(d)
  BY <1>1 DEF HeldOK, Disk
<1>3. ASSUME NEW t \in Callers, D!Renames(x[t])
      PROVE  RenameOK(x[t], h) /\ ~ListsIn(x, x[t].dir)
  <2>1. D!Renames(calls[t]) /\ x[t] = calls[t]
    BY <1>3
  <2>2. RenameOK(x[t], held) /\ ~ListsIn(calls, x[t].dir)
    BY <2>1 DEF HeldOK
  <2>3. WayIn(calls, x[t].dir)
    BY <2>1 DEF WayIn
  <2>4. ASSUME NEW e \in Disk(h, x[t].dir)
        PROVE  /\ e.iv = IF e.kid \in x[t].done THEN D!IV(x[t].to) ELSE D!IV(x[t].dir)
               /\ chained /\ x[t].pc = "entries" => e.kid \in x[t].names \cup x[t].done
    <3>1. PICK f \in Disk(held, x[t].dir) : f.kid = e.kid /\ f.iv = e.iv
      BY <2>3 DEF Disk
    <3> QED
      BY <2>2, <3>1 DEF RenameOK
  <2>5. RenameOK(x[t], h)
    BY <2>2, <2>4 DEF RenameOK
  <2> QED
    BY <2>2, <2>3, <2>5
<1>4. \A t, u \in Callers : D!Renames(x[t]) /\ D!Renames(x[u]) => t = u
  BY DEF HeldOK
<1> QED
  BY <1>2, <1>3, <1>4 DEF HeldOK

\* The same callbacks but for one.
But(t, c) == [u \in Callers |-> IF u = t THEN c ELSE calls[u]]

LEMMA ButIs ==
    ASSUME Typed, NEW t \in Callers, NEW c \in Calls
    PROVE  /\ But(t, c) \in [Callers -> Calls] /\ But(t, c)[t] = c
           /\ \A u \in Callers : But(t, c)[u] = IF u = t THEN c ELSE calls[u]
BY DEF But, Typed

\* A callback goes on, and no rename begins, goes on or ends.
LEMMA GoesOK ==
    ASSUME DirInv, chained' = chained,
           DOMAIN held' \subseteq Dirs, held' \in [DOMAIN held' -> SUBSET D!Entry],
           NEW t \in Callers, NEW c \in Calls, D!Goes(t, c), Known(c),
           ~D!Renames(c), ~D!Renames(calls[t]),
           c.op = "list" /\ c.pc # "done" =>
             \/ calls[t].op = "list" /\ calls[t].pc # "done" /\ calls[t].dir = c.dir
             \/ ~WayIn(calls, c.dir),
           \A d \in DOMAIN held' : \A e \in held'[d] :
             \/ \E f \in Disk(held, d) : f.kid = e.kid /\ f.iv = e.iv
             \/ ~WayIn(calls, d) /\ e.iv = D!IV(d),
           \A d \in DOMAIN held' : \A e, f \in held'[d] : f.kid = e.kid => f = e
    PROVE  DirInv'
<1> DEFINE x == But(t, c)
<1>1. Typed /\ HeldOK(held, calls)
  BY DEF DirInv
<1>2. x \in [Callers -> Calls] /\ \A u \in Callers : x[u] = IF u = t THEN c ELSE calls[u]
  BY <1>1, ButIs
<1>3. calls' = [u \in Callers |-> D!Observe(x[u])]
  <2>1. calls' = [u \in Callers |-> D!Observe(IF u = t THEN c ELSE calls[u])]
    BY DEF D!Goes
  <2> HIDE DEF x
  <2> QED
    BY <1>2, <2>1
<1> HIDE DEF x
<1>4. \A u \in Callers : Known(x[u])
  BY <1>2 DEF DirInv
<1>5. \A u \in Callers : /\ D!Renames(x[u]) <=> D!Renames(calls[u])
                         /\ D!Renames(calls[u]) => x[u] = calls[u]
  BY <1>2
<1>6. \A d : ListsIn(x, d) => ListsIn(calls, d) \/ ~WayIn(calls, d)
  BY <1>2 DEF ListsIn
<1>7. HeldOK(held', x)
  BY <1>1, <1>5, <1>6, HeldKept
<1> QED
  BY <1>2, <1>3, <1>4, <1>7, StepOK

LEMMA Unchanging ==
    ASSUME DirInv, held' = held
    PROVE  /\ DOMAIN held' \subseteq Dirs /\ held' \in [DOMAIN held' -> SUBSET D!Entry]
           /\ \A d \in DOMAIN held' : \A e \in held'[d] :
                \E f \in Disk(held, d) : f.kid = e.kid /\ f.iv = e.iv
           /\ \A d \in DOMAIN held' : \A e, f \in held'[d] : f.kid = e.kid => f = e
BY DEF DirInv, Typed, Disk, HeldOK

\* ...and changes nothing.
LEMMA SeesOK ==
    ASSUME DirInv, NEW t \in Callers, NEW c \in Calls, D!Sees(t, c), Known(c),
           ~D!Renames(c), ~D!Renames(calls[t]),
           c.op = "list" /\ c.pc # "done" =>
             \/ calls[t].op = "list" /\ calls[t].pc # "done" /\ calls[t].dir = c.dir
             \/ ~WayIn(calls, c.dir)
    PROVE  DirInv'
<1>1. chained' = chained /\ held' = held /\ D!Goes(t, c)
  BY DEF D!Sees
<1> QED
  BY <1>1, Unchanging, GoesOK

\* What a callback does at once.
LEMMA DoesOK ==
    ASSUME DirInv, chained' = chained,
           DOMAIN held' \subseteq Dirs, held' \in [DOMAIN held' -> SUBSET D!Entry],
           NEW t \in Callers, D!Does(t),
           \A d \in DOMAIN held' : \A e \in held'[d] :
             \/ \E f \in Disk(held, d) : f.kid = e.kid /\ f.iv = e.iv
             \/ ~WayIn(calls, d) /\ e.iv = D!IV(d),
           \A d \in DOMAIN held' : \A e, f \in held'[d] : f.kid = e.kid => f = e
    PROVE  DirInv'
<1>1. calls \in [Callers -> Calls] /\ Known(calls[t]) /\ calls[t] \in Calls /\ calls[t].op = "none"
  BY DEF DirInv, Typed, D!Does, D!Idle
<1>2. calls' = [u \in Callers |-> D!Observe(IF u = t THEN calls[t] ELSE calls[u])]
  <2>1. \A u \in Callers : calls[u] = IF u = t THEN calls[t] ELSE calls[u]
    OBVIOUS
  <2>2. calls' = [u \in Callers |-> D!Observe(calls[u])]
    BY DEF D!Does
  <2> QED
    BY <2>1, <2>2
<1>3. D!Goes(t, calls[t]) /\ ~D!Renames(calls[t])
  BY <1>1, <1>2 DEF D!Goes, D!Renames
<1> QED
  BY <1>1, <1>3, GoesOK

LEMMA ReturnStep == ASSUME D!DirsAssumption, DirInv, NEW t \in Callers, D!Return(t) PROVE DirInv'
<1> DEFINE x == But(t, D!NoCall)
<1>1. Typed /\ chained' = chained /\ held' = held /\ calls' = [calls EXCEPT ![t] = D!NoCall]
  BY DEF DirInv, D!Return
<1>2. D!NoCall \in Calls /\ Known(D!NoCall) /\ ~Watches(D!NoCall) /\ ~D!Renames(D!NoCall) /\ D!NoCall.op = "none"
  BY NoCallIs
<1>3. ~D!Renames(calls[t])
  BY DEF D!Return, D!Renames
<1>4. x \in [Callers -> Calls] /\ \A u \in Callers : x[u] = IF u = t THEN D!NoCall ELSE calls[u]
  BY <1>1, <1>2, ButIs
<1>5. calls' = x
  BY <1>1, <1>4 DEF Typed
<1> HIDE DEF x
<1>6. HeldOK(held, x)
  <2>1. \A u \in Callers : /\ D!Renames(x[u]) <=> D!Renames(calls[u])
                           /\ D!Renames(calls[u]) => x[u] = calls[u]
    BY <1>2, <1>3, <1>4
  <2>2. \A d : ListsIn(x, d) => ListsIn(calls, d)
    BY <1>2, <1>4 DEF ListsIn
  <2>3. /\ HeldOK(held, calls)
        /\ \A d \in DOMAIN held : \A e \in held[d] : \E f \in Disk(held, d) : f.kid = e.kid /\ f.iv = e.iv
        /\ \A d \in DOMAIN held : \A e, f \in held[d] : f.kid = e.kid => f = e
    BY <1>1, Unchanging DEF DirInv
  <2> QED
    BY <1>1, <2>1, <2>2, <2>3, HeldKept
<1>7. \A u \in Callers : Known(x[u]) /\ Observed(x[u], held)
  BY <1>2, <1>4 DEF DirInv, Observed
<1>8. HeldOK(held, calls)'
  BY <1>1, <1>5, <1>6, HeldPrimed
<1>9. \A u \in Callers : Known(calls[u])' /\ Observed(calls[u], held)'
  <2>1. \A u \in Callers : Known(calls'[u]) /\ Observed(calls'[u], held')
    BY <1>1, <1>5, <1>7
  <2>2. \A u \in Callers : Known(calls'[u]) => Known(calls[u])'
    BY DEF Known, ShownOK, KidsOf
  <2>3. \A u \in Callers : Observed(calls'[u], held') => Observed(calls[u], held)'
    BY <1>1 DEF Observed, Watches, PlainIn, D!IV, Disk, D!About, KidsOf
  <2> QED
    BY <2>1, <2>2, <2>3
<1>10. Typed'
  BY <1>1, <1>4, <1>5 DEF Typed, D!Entry, D!IV
<1> QED
  BY <1>8, <1>9, <1>10 DEF DirInv

----------------------------------------------------------------------------
(* Listing.                                                                *)

\* A callback that begins.
LEMMA BeginStep ==
    ASSUME D!DirsAssumption, DirInv, NEW t \in Callers, NEW op \in Ops \ {"rename"}, NEW d \in Dirs,
           NEW place \in {"open", "rmdir"}, D!Begin(t, op, d, place), op = "list" => ~WayIn(calls, d)
    PROVE  DirInv'
<1> DEFINE stays == {e.kid : e \in D!Plain(d)}
           c == [D!NoCall EXCEPT !.op = op, !.dir = d, !.pc = place, !.stays = stays]
<1>1. D!Idle(t) /\ D!Sees(t, c)
  BY DEF D!Begin
<1>2. stays \in SUBSET Kids
  <2>1. D!Plain(d) \subseteq D!Entry
    BY DEF D!Plain, D!OnDisk, D!Exists, DirInv, Typed
  <2> QED
    BY <2>1, AboutIs
<1> HIDE DEF stays
<1>3. D!NoCall \in Calls /\ D!NoCall.now = {} /\ D!NoCall.shown = {} /\ D!NoCall.names = {}
  BY NoCallIs DEF D!NoCall
<1>4. c \in Calls /\ c.op = op /\ c.pc = place /\ c.dir = d /\ c.now = {} /\ c.shown = {} /\ c.names = {}
  BY <1>2, <1>3 DEF Calls, CallPlaces
<1> HIDE DEF c
<1>5. Known(c) /\ ~D!Renames(c) /\ ~D!Renames(calls[t])
  BY <1>1, <1>4 DEF Known, ShownOK, D!Renames, D!Idle
<1> QED
  BY <1>1, <1>4, <1>5, SeesOK

LEMMA FindFilesStep ==
    ASSUME D!DirsAssumption, Mishaps = {}, DirInv, NEW t \in Callers, NEW d \in Dirs, D!FindFiles(t, d)
    PROVE  DirInv'
<1>1. ~WayIn(calls, d) /\ D!Begin(t, "list", d, "open")
  BY DEF D!FindFiles, D!OnItsWay, WayIn
<1> QED
  BY <1>1, BeginStep DEF Ops

LEMMA DeleteDirectoryStep ==
    ASSUME D!DirsAssumption, DirInv, NEW t \in Callers, NEW d \in Dirs, D!DeleteDirectory(t, d)
    PROVE  DirInv'
<1>1. D!Begin(t, "rmdir", d, "rmdir")
  BY DEF D!DeleteDirectory
<1> QED
  BY <1>1, BeginStep DEF Ops

\* A callback that ends with what it has.
LEMMA EndsStep ==
    ASSUME DirInv, NEW t \in Callers, NEW res \in {"ok", "failed"}, D!Ends(t, calls[t], res),
           Watches(calls[t]),
           calls[t].op = "list" =>
             IF res = "ok" THEN calls[t].stays \subseteq KidsOf(calls[t].shown)
             ELSE KidsOf(calls[t].ever) # calls[t].stays
    PROVE  DirInv'
<1> DEFINE b == calls[t]
           c == [b EXCEPT !.pc = "done", !.result = res]
<1>1. D!Sees(t, c) /\ ~D!Renames(b)
  BY DEF D!Ends, D!End, D!Sees, Watches, D!Renames
<1>2. b \in Calls /\ Known(b)
  BY DEF DirInv, Typed
<1> HIDE DEF b
<1>3. /\ c \in Calls /\ c.op = b.op /\ c.pc = "done" /\ c.result = res /\ c.names = b.names
      /\ c.now = b.now /\ c.shown = b.shown /\ c.stays = b.stays /\ c.ever = b.ever
  BY <1>2 DEF Calls, CallPlaces
<1> HIDE DEF c
<1>4. ShownOK(c)
  BY <1>2, <1>3 DEF Known, ShownOK
<1>5. Known(c) /\ ~D!Renames(c)
  BY <1>2, <1>3, <1>4 DEF Known, D!Renames, b
<1> QED
  BY <1>1, <1>3, <1>5, SeesOK DEF b

\* What an unread name is, and what has been observed of it.
LEMMA FindIs ==
    ASSUME DirInv, NEW t \in Callers, Watches(calls[t]), NEW k, NEW e \in D!Find(calls[t].dir, k)
    PROVE  /\ e \in D!Entry /\ e.kid = k /\ D!About(e) \in calls[t].ever
           /\ D!About(e).kid = k /\ D!About(e).kind = e.kind /\ D!About(e).set = e.set
<1>1. e \in D!Plain(calls[t].dir) /\ e.kid = k /\ e \in D!Entry
  BY DEF D!Find, D!Plain, D!OnDisk, D!Exists, DirInv, Typed
<1>2. D!About(e) \in calls[t].ever
  BY <1>1, PlainIs DEF DirInv, Observed
<1> QED
  BY <1>1, <1>2, AboutIs

LEMMA OpenDirStep ==
    ASSUME D!DirsAssumption, Mishaps = {}, DirInv, NEW t \in Callers, D!OpenDir(t)
    PROVE  DirInv'
<1> DEFINE b == calls[t]
<1>1. b.op = "list" /\ b.pc = "open" /\ b \in Calls /\ Known(b) /\ Observed(b, held)
  BY DEF D!OpenDir, D!At, DirInv, Typed
<1>2. CASE D!Sees(t, [b EXCEPT !.pc = "getdir"])
  <2> DEFINE c == [b EXCEPT !.pc = "getdir"]
  <2>1. /\ c \in Calls /\ c.op = "list" /\ c.pc = "getdir" /\ c.names = b.names /\ c.dir = b.dir
        /\ c.now = b.now /\ c.shown = b.shown /\ c.ever = b.ever
    BY <1>1 DEF Calls, CallPlaces
  <2> HIDE DEF c
  <2>2. ShownOK(c)
    BY <1>1, <2>1 DEF Known, ShownOK
  <2>3. Known(c) /\ ~D!Renames(c) /\ ~D!Renames(b)
    BY <1>1, <2>1, <2>2 DEF Known, D!Renames
  <2> QED
    BY <1>1, <1>2, <2>1, <2>3, SeesOK DEF c
<1>3. CASE ~D!Exists(b.dir) /\ D!Ends(t, b, "ok")
  <2>1. Watches(b) /\ b.stays = {}
    BY <1>1, <1>3 DEF Watches, Observed, PlainIn, Disk, D!Exists, KidsOf
  <2> QED
    BY <1>3, <2>1, EndsStep
<1> QED
  BY <1>2, <1>3 DEF D!OpenDir

LEMMA GetdirStep == ASSUME DirInv, NEW t \in Callers, NEW k \in Kids, D!Getdir(t, k) PROVE DirInv'
<1> DEFINE b == calls[t]
           c == [b EXCEPT !.names = @ \cup {k}]
<1>1. b.op = "list" /\ b.pc = "getdir" /\ b \in Calls /\ Known(b) /\ D!Sees(t, c) /\ D!Find(b.dir, k) # {}
  BY DEF D!Getdir, D!At, DirInv, Typed
<1>2. k \in KidsOf(b.ever)
  <2>1. PICK e \in D!Find(b.dir, k) : TRUE
    BY <1>1
  <2> QED
    BY <1>1, <2>1, FindIs DEF Watches, KidsOf
<1> HIDE DEF b
<1>3. /\ c \in Calls /\ c.op = "list" /\ c.pc = "getdir" /\ c.names = b.names \cup {k} /\ c.dir = b.dir
      /\ c.now = b.now /\ c.shown = b.shown /\ c.ever = b.ever
  BY <1>1 DEF Calls, CallPlaces
<1> HIDE DEF c
<1>4. ShownOK(c)
  BY <1>1, <1>3 DEF Known, ShownOK
<1>5. Known(c) /\ ~D!Renames(c) /\ ~D!Renames(b)
  BY <1>1, <1>2, <1>3, <1>4 DEF Known, D!Renames
<1> QED
  BY <1>1, <1>3, <1>5, SeesOK DEF b

LEMMA GetdirEndStep == ASSUME DirInv, NEW t \in Callers, D!GetdirEnd(t) PROVE DirInv'
<1> DEFINE b == calls[t]
           c == [b EXCEPT !.pc = "walk"]
<1>1. /\ b.op = "list" /\ b.pc = "getdir" /\ b \in Calls /\ Known(b) /\ Observed(b, held) /\ D!Sees(t, c)
      /\ \A k \in b.stays : D!Find(b.dir, k) # {} => k \in b.names
  BY DEF D!GetdirEnd, D!At, DirInv, Typed
<1>2. b.stays \subseteq b.names
  <2> SUFFICES ASSUME NEW k \in b.stays PROVE D!Find(b.dir, k) # {}
    BY <1>1
  <2>1. PICK e \in PlainIn(held, b.dir) : e.kid = k
    BY <1>1 DEF Observed, Watches, KidsOf
  <2> QED
    BY <2>1, PlainIs DEF D!Find
<1> HIDE DEF b
<1>3. /\ c \in Calls /\ c.op = "list" /\ c.pc = "walk" /\ c.names = b.names /\ c.dir = b.dir
      /\ c.now = b.now /\ c.shown = b.shown /\ c.ever = b.ever /\ c.stays = b.stays
  BY <1>1 DEF Calls, CallPlaces
<1> HIDE DEF c
<1>4. ShownOK(c)
  BY <1>1, <1>3 DEF Known, ShownOK
<1>5. Known(c) /\ ~D!Renames(c) /\ ~D!Renames(b)
  BY <1>1, <1>2, <1>3, <1>4 DEF Known, D!Renames
<1> QED
  BY <1>1, <1>3, <1>5, SeesOK DEF b

LEMMA GetFileInformationStep ==
    ASSUME D!DirsAssumption, DirInv, NEW t \in Callers, NEW d \in Dirs, NEW k \in Kids,
           D!GetFileInformation(t, d, k)
    PROVE  DirInv'
<1> DEFINE c == [D!NoCall EXCEPT !.op = "info", !.dir = d, !.pc = "walk", !.names = {k}]
<1>1. D!Idle(t) /\ D!Sees(t, c)
  BY DEF D!GetFileInformation
<1>2. D!NoCall \in Calls /\ D!NoCall.now = {} /\ D!NoCall.shown = {}
  BY NoCallIs DEF D!NoCall
<1>3. c \in Calls /\ c.op = "info" /\ c.pc = "walk" /\ c.now = {} /\ c.shown = {}
  BY <1>2 DEF Calls, CallPlaces, Ops
<1> HIDE DEF c
<1>4. Known(c) /\ ~D!Renames(c) /\ ~D!Renames(calls[t])
  BY <1>1, <1>3 DEF Known, ShownOK, D!Renames, D!Idle
<1> QED
  BY <1>1, <1>3, <1>4, SeesOK

LEMMA WalkDirectoryStep ==
    ASSUME DirInv, NEW t \in Callers, NEW k \in Kids, D!WalkDirectory(t, k)
    PROVE  DirInv'
<1> DEFINE b == calls[t]
<1>1. /\ b.op \in {"list", "info"} /\ b.pc = "walk" /\ k \in b.names
      /\ b \in Calls /\ Known(b) /\ Observed(b, held) /\ Watches(b) /\ ~D!Renames(b)
  <2>1. b.op \in {"list", "info"} /\ b.pc = "walk" /\ k \in b.names
    BY DEF D!WalkDirectory, D!Getattr, D!Walks
  <2> QED
    BY <2>1 DEF DirInv, Typed, Watches, D!Renames
<1>2. ASSUME NEW e \in D!Find(b.dir, k),
             D!Sees(t, [b EXCEPT !.pc = "attributes", !.names = @ \ {k}, !.now = {D!About(e)}])
      PROVE  DirInv'
  <2> DEFINE c == [b EXCEPT !.pc = "attributes", !.names = @ \ {k}, !.now = {D!About(e)}]
  <2>1. D!About(e) \in b.ever /\ D!About(e).kid = k /\ D!About(e) \in Abouts
    BY <1>1, FindIs, AboutIs
  <2> HIDE DEF b
  <2>2. /\ c \in Calls /\ c.op = b.op /\ c.pc = "attributes" /\ c.names = b.names \ {k}
        /\ c.dir = b.dir /\ c.now = {D!About(e)} /\ c.shown = b.shown /\ c.ever = b.ever
        /\ c.stays = b.stays
    BY <1>1, <2>1 DEF Calls, CallPlaces
  <2> HIDE DEF c
  <2>3. ShownOK(c)
    BY <1>1, <2>2 DEF Known, ShownOK
  <2>4. KidsOf(c.now) = {k}
    BY <2>1, <2>2 DEF KidsOf
  <2>5. Known(c) /\ ~D!Renames(c)
    BY <1>1, <2>1, <2>2, <2>3, <2>4 DEF Known, D!Renames
  <2> QED
    BY <1>1, <1>2, <2>2, <2>5, SeesOK DEF b, c
<1>3. CASE D!Find(b.dir, k) = {} /\ D!Ends(t, b, "failed")
  <2>1. b.op = "list" => KidsOf(b.ever) # b.stays
    <3> SUFFICES ASSUME b.op = "list" PROVE k \in KidsOf(b.ever) /\ k \notin b.stays
      OBVIOUS
    <3>1. k \in KidsOf(b.ever)
      BY <1>1 DEF Known
    <3>2. k \notin KidsOf(PlainIn(held, b.dir))
      BY <1>3, PlainIs DEF D!Find, KidsOf
    <3> QED
      BY <1>1, <3>1, <3>2 DEF Observed
  <2> QED
    BY <1>1, <1>3, <2>1, EndsStep
<1> QED
  BY <1>2, <1>3 DEF D!WalkDirectory, D!Getattr

LEMMA WalkEndStep == ASSUME DirInv, NEW t \in Callers, D!WalkEnd(t) PROVE DirInv'
<1>1. /\ calls[t].op \in {"list", "info"} /\ calls[t].pc = "walk" /\ calls[t].names = {}
      /\ D!Ends(t, calls[t], "ok") /\ Known(calls[t])
  BY DEF D!WalkEnd, D!Walks, DirInv
<1>2. calls[t].op = "list" => calls[t].stays \subseteq KidsOf(calls[t].shown)
  BY <1>1 DEF Known
<1> QED
  BY <1>1, <1>2, EndsStep DEF Watches

\* What is shown of an entry: what getattr found, and what is there now but for the times.
Shown(s, e) == [D!About(e) EXCEPT !.set = (@ \ {"times"}) \cup (s.set \cap {"times"})]

LEMMA ShownIs ==
    ASSUME NEW s \in Abouts, NEW e \in D!Entry
    PROVE  LET b == Shown(s, e) IN
           /\ b \in Abouts /\ b.kid = e.kid /\ b.kind = e.kind
           /\ "times" \in b.set <=> "times" \in s.set
           /\ "attributes" \in b.set <=> "attributes" \in e.set
<1> DEFINE set == (e.set \ {"times"}) \cup (s.set \cap {"times"})
           b == [D!About(e) EXCEPT !.set = set]
<1>1. /\ D!About(e) \in Abouts /\ D!About(e).kid = e.kid /\ D!About(e).kind = e.kind
      /\ D!About(e).set = e.set /\ e.set \in SUBSET D!Fields
  BY AboutIs
<1>2. set \in SUBSET D!Fields
  BY <1>1 DEF Abouts
<1>3. Shown(s, e) = b
  BY <1>1 DEF Shown
<1>4. ("times" \in set <=> "times" \in s.set) /\ ("attributes" \in set <=> "attributes" \in e.set)
  OBVIOUS
<1> HIDE DEF set
<1>5. b \in Abouts /\ b.kid = e.kid /\ b.kind = e.kind /\ b.set = set
  BY <1>1, <1>2 DEF Abouts
<1> HIDE DEF b
<1> QED
  BY <1>3, <1>4, <1>5

LEMMA AttributesStep ==
    ASSUME Mishaps = {}, DirInv, NEW t \in Callers, D!Attributes(t)
    PROVE  DirInv'
<1> DEFINE b == calls[t]
           NextCall(set) == [b EXCEPT !.pc = "walk", !.now = {}, !.shown = @ \cup set]
<1>1. b.op \in {"list", "info"} /\ b.pc = "attributes"
  BY DEF D!Attributes, D!Walks
<1>2. b \in Calls /\ Known(b) /\ Watches(b) /\ ~D!Renames(b)
  BY <1>1 DEF DirInv, Typed, Watches, D!Renames
<1>3. PICK s \in b.now :
        D!Sees(t, NextCall(IF D!Find(b.dir, s.kid) = {} THEN {s} ELSE {Shown(s, e) : e \in D!Find(b.dir, s.kid)}))
  BY DEF D!Attributes, Shown
<1> DEFINE set == IF D!Find(b.dir, s.kid) = {} THEN {s} ELSE {Shown(s, e) : e \in D!Find(b.dir, s.kid)}
           c == NextCall(set)
<1>4. s \in b.ever /\ s \in Abouts /\ b.now = {s}
  BY <1>2 DEF Known, Calls
<1>5. ASSUME NEW r \in set
      PROVE  /\ r \in Abouts /\ r.kid = s.kid
             /\ \E o \in b.ever : o.kid = r.kid /\ o.kind = r.kind
             /\ \A f \in D!Fields : \E o \in b.ever : o.kid = r.kid /\ (f \in r.set <=> f \in o.set)
  <2>1. CASE r = s
    BY <1>4, <2>1
  <2>2. ASSUME NEW e \in D!Find(b.dir, s.kid), r = Shown(s, e) PROVE <1>5!2
    <3>1. /\ e \in D!Entry /\ e.kid = s.kid /\ D!About(e) \in b.ever
          /\ D!About(e).kid = s.kid /\ D!About(e).kind = e.kind /\ D!About(e).set = e.set
      BY <1>2, FindIs
    <3>2. /\ r \in Abouts /\ r.kid = e.kid /\ r.kind = e.kind
          /\ "times" \in r.set <=> "times" \in s.set
          /\ "attributes" \in r.set <=> "attributes" \in e.set
      BY <1>4, <2>2, <3>1, ShownIs
    <3> HIDE DEF b, set
    <3> QED
      BY <1>4, <3>1, <3>2 DEF D!Fields
  <2> QED
    BY <2>1, <2>2
<1>6. set # {} /\ \A r \in set : r.kid = s.kid
  BY <1>5
<1> HIDE DEF b, set
<1>7. set \in SUBSET Abouts /\ KidsOf(set) = {s.kid}
  BY <1>5, <1>6 DEF KidsOf
<1>8. /\ c \in Calls /\ c.op = b.op /\ c.pc = "walk" /\ c.names = b.names /\ c.dir = b.dir
      /\ c.now = {} /\ c.shown = b.shown \cup set /\ c.ever = b.ever /\ c.stays = b.stays
  BY <1>2, <1>7 DEF Calls, CallPlaces
<1>9. D!Sees(t, c)
  BY <1>3 DEF set
<1> HIDE DEF c
<1>10. ShownOK(c)
  <2>1. \A r \in b.shown : /\ \E o \in b.ever : o.kid = r.kid /\ o.kind = r.kind
                           /\ \A f \in D!Fields : \E o \in b.ever :
                                o.kid = r.kid /\ (f \in r.set <=> f \in o.set)
    BY <1>2 DEF Known, ShownOK
  <2> QED
    BY <1>5, <1>8, <2>1 DEF ShownOK
<1>11. Known(c) /\ ~D!Renames(c)
  <2>1. KidsOf(b.now) = {s.kid} /\ KidsOf(c.shown) = KidsOf(b.shown) \cup KidsOf(set)
    BY <1>4, <1>8 DEF KidsOf
  <2> QED
    BY <1>1, <1>2, <1>7, <1>8, <1>10, <2>1 DEF Known, D!Renames
<1> QED
  BY <1>1, <1>2, <1>8, <1>9, <1>11, SeesOK DEF b, D!Renames

----------------------------------------------------------------------------
(* Entries.                                                                *)

LEMMA FoundIs ==
    ASSUME DirInv, NEW d, NEW k, NEW e \in D!Find(d, k)
    PROVE  d \in DOMAIN held /\ d \in Dirs /\ e \in held[d] /\ e \in D!Entry /\ e.kid = k /\ e.iv = D!IV(d)
BY DEF D!Find, D!Plain, D!OnDisk, D!Exists, DirInv, Typed

\* One directory gets other entries.
LEMMA PutIs ==
    ASSUME DirInv, NEW d \in DOMAIN held, NEW set \in SUBSET D!Entry, D!Put(d, set),
           \A e \in set : \/ \E f \in held[d] : f.kid = e.kid /\ f.iv = e.iv
                          \/ ~WayIn(calls, d) /\ e.iv = D!IV(d),
           \A e, f \in set : f.kid = e.kid => f = e
    PROVE  /\ chained' = chained
           /\ DOMAIN held' \subseteq Dirs /\ held' \in [DOMAIN held' -> SUBSET D!Entry]
           /\ \A x \in DOMAIN held' : \A e \in held'[x] :
                \/ \E f \in Disk(held, x) : f.kid = e.kid /\ f.iv = e.iv
                \/ ~WayIn(calls, x) /\ e.iv = D!IV(x)
           /\ \A x \in DOMAIN held' : \A e, f \in held'[x] : f.kid = e.kid => f = e
<1>1. /\ held' = [held EXCEPT ![d] = set] /\ chained' = chained
      /\ held \in [DOMAIN held -> SUBSET D!Entry] /\ DOMAIN held \subseteq Dirs
  BY DEF D!Put, DirInv, Typed
<1>2. /\ DOMAIN held' = DOMAIN held /\ held' \in [DOMAIN held' -> SUBSET D!Entry]
      /\ \A x \in DOMAIN held : held'[x] = IF x = d THEN set ELSE held[x]
  BY <1>1
<1> QED
  BY <1>1, <1>2 DEF Disk, DirInv, HeldOK

LEMMA CreateStep ==
    ASSUME Mishaps = {}, DirInv, NEW t \in Callers, NEW d \in Dirs, NEW k \in Kids,
           NEW kind \in D!Kinds, D!Create(t, d, k, kind)
    PROVE  DirInv'
<1> DEFINE e == [kid |-> k, iv |-> D!IV(d), kind |-> kind, set |-> {}]
<1>1. /\ d \in DOMAIN held /\ D!Find(d, k) = {} /\ ~WayIn(calls, d)
      /\ D!Put(d, held[d] \cup {e}) /\ D!Does(t)
  BY DEF D!Create, D!Exists, D!OnItsWay, WayIn
<1>2. e \in D!Entry /\ e.kid = k /\ e.iv = D!IV(d)
  BY DEF D!Entry
<1> HIDE DEF e
<1>3. \A f \in held[d] : f.kid # k
  BY <1>1 DEF D!Find, D!Plain, D!OnDisk, D!Exists, DirInv, HeldOK
<1>4. held[d] \cup {e} \in SUBSET D!Entry
  BY <1>1, <1>2 DEF DirInv, Typed
<1>5. \A f, g \in held[d] \cup {e} : g.kid = f.kid => g = f
  BY <1>1, <1>2, <1>3 DEF DirInv, HeldOK
<1>6. \A f \in held[d] \cup {e} :
        \/ \E g \in held[d] : g.kid = f.kid /\ g.iv = f.iv
        \/ ~WayIn(calls, d) /\ f.iv = D!IV(d)
  <2>1. \A f \in held[d] : \E g \in held[d] : g.kid = f.kid /\ g.iv = f.iv
    OBVIOUS
  <2>2. ~WayIn(calls, d) /\ e.iv = D!IV(d)
    BY <1>1, <1>2
  <2> QED
    BY <2>1, <2>2
<1> QED
  BY <1>1, <1>4, <1>5, <1>6, PutIs, DoesOK

LEMMA RemoveStep ==
    ASSUME DirInv, NEW t \in Callers, NEW d \in Dirs, NEW k \in Kids, D!Remove(t, d, k)
    PROVE  DirInv'
<1>1. PICK e \in D!Find(d, k) : D!Put(d, held[d] \ {e}) /\ D!Does(t)
  BY DEF D!Remove
<1>2. d \in DOMAIN held
  BY FoundIs
<1>3. held[d] \ {e} \in SUBSET D!Entry
  BY <1>2 DEF DirInv, Typed
<1>4. \A f, g \in held[d] \ {e} : g.kid = f.kid => g = f
  BY <1>2 DEF DirInv, HeldOK
<1> QED
  BY <1>1, <1>2, <1>3, <1>4, PutIs, DoesOK

LEMMA MoveStep ==
    ASSUME DirInv, NEW t \in Callers, NEW d \in Dirs, NEW k \in Kids, NEW x \in Dirs, NEW l \in Kids,
           D!Move(t, d, k, x, l)
    PROVE  DirInv'
<1>1. D!NoRename /\ D!Exists(x) /\ D!Find(x, l) = {} /\ chained' = chained /\ D!Does(t)
  BY DEF D!Move
<1>2. PICK e \in D!Find(d, k) :
        LET left == [held EXCEPT ![d] = @ \ {e}]
        IN held' = [left EXCEPT ![x] = @ \cup {[e EXCEPT !.kid = l, !.iv = D!IV(x)]}]
  BY DEF D!Move
<1> DEFINE left == [held EXCEPT ![d] = held[d] \ {e}]
           n == [e EXCEPT !.kid = l, !.iv = D!IV(x)]
<1>3. /\ d \in DOMAIN held /\ x \in DOMAIN held /\ e \in D!Entry
      /\ held \in [DOMAIN held -> SUBSET D!Entry] /\ DOMAIN held \subseteq Dirs
  BY <1>1, FoundIs DEF D!Exists, DirInv, Typed
<1>4. n \in D!Entry /\ n.kid = l /\ n.iv = D!IV(x)
  BY <1>3 DEF D!Entry
<1>5. /\ left \in [DOMAIN held -> SUBSET D!Entry]
      /\ \A y \in DOMAIN held : left[y] \subseteq held[y]
  BY <1>3
<1> HIDE DEF left, n
<1>6. held' = [left EXCEPT ![x] = left[x] \cup {n}]
  BY <1>2, <1>3, <1>5 DEF left, n
<1>7. /\ DOMAIN held' = DOMAIN held /\ held' \in [DOMAIN held' -> SUBSET D!Entry]
      /\ \A y \in DOMAIN held : held'[y] = IF y = x THEN left[x] \cup {n} ELSE left[y]
  BY <1>3, <1>4, <1>5, <1>6
<1>8. \A y : ~WayIn(calls, y)
  BY <1>1 DEF D!NoRename, WayIn
<1>9. \A f \in held[x] : f.kid # l
  BY <1>1, <1>3, <1>8 DEF D!Find, D!Plain, D!OnDisk, D!Exists, DirInv, HeldOK
<1>10. \A y \in DOMAIN held' : \A f \in held'[y] :
         \/ \E g \in Disk(held, y) : g.kid = f.kid /\ g.iv = f.iv
         \/ ~WayIn(calls, y) /\ f.iv = D!IV(y)
  BY <1>4, <1>5, <1>7, <1>8 DEF Disk
<1>11. \A y \in DOMAIN held' : \A f, g \in held'[y] : g.kid = f.kid => g = f
  BY <1>3, <1>4, <1>5, <1>7, <1>9 DEF DirInv, HeldOK
<1> QED
  BY <1>1, <1>3, <1>7, <1>10, <1>11, DoesOK

\* Setting attributes or times begins.
LEMMA ChangeStep ==
    ASSUME D!DirsAssumption, DirInv, NEW t \in Callers, NEW d \in Dirs, NEW k \in Kids,
           NEW field \in D!Fields, D!Change(t, d, k, field)
    PROVE  DirInv'
<1> DEFINE c == [D!NoCall EXCEPT !.op = field, !.dir = d, !.pc = "set", !.names = {k}]
<1>1. D!Idle(t) /\ D!Sees(t, c)
  BY DEF D!Change
<1>2. D!NoCall \in Calls /\ D!NoCall.now = {} /\ D!NoCall.shown = {}
  BY NoCallIs DEF D!NoCall
<1>3. c \in Calls /\ c.op = field /\ c.pc = "set" /\ c.now = {} /\ c.shown = {}
  BY <1>2 DEF Calls, CallPlaces, Ops
<1> HIDE DEF c
<1>4. Known(c) /\ ~D!Renames(c) /\ ~D!Renames(calls[t]) /\ c.op # "list"
  BY <1>1, <1>3 DEF Known, ShownOK, D!Renames, D!Idle, D!Fields
<1> QED
  BY <1>1, <1>3, <1>4, SeesOK

\* A callback that sees that there is nothing to do, or has done what it had to.
LEMMA GivesUp ==
    ASSUME D!DirsAssumption, DirInv, NEW t \in Callers, ~D!Renames(calls[t]), D!Sees(t, D!NoCall)
    PROVE  DirInv'
BY NoCallIs, SeesOK

LEMMA SetStep == ASSUME D!DirsAssumption, DirInv, NEW t \in Callers, D!Set(t) PROVE DirInv'
<1> DEFINE c == calls[t]
           found == UNION {D!Find(c.dir, k) : k \in c.names}
           New(e) == [e EXCEPT !.set = @ \cup {c.op}]
           set == (held[c.dir] \ found) \cup {New(e) : e \in found}
<1>1. c.op \in D!Fields /\ ~D!Renames(c)
  BY DEF D!Set, D!Renames, D!Fields
<1>2. CASE found # {} /\ D!Put(c.dir, set) /\ D!Finish(t)
  <2>1. \A e \in found : /\ c.dir \in DOMAIN held /\ e \in held[c.dir] /\ e \in D!Entry
    BY FoundIs
  <2>2. c.dir \in DOMAIN held
    BY <1>2, <2>1
  <2>3. \A e \in D!Entry : New(e) \in D!Entry /\ New(e).kid = e.kid /\ New(e).iv = e.iv
    BY <1>1 DEF D!Entry
  <2> HIDE DEF c, found, New
  <2>4. set \in SUBSET D!Entry
    BY <2>1, <2>2, <2>3 DEF DirInv, Typed
  <2>5. \A e \in set : \E f \in held[c.dir] : f.kid = e.kid /\ f.iv = e.iv
    BY <2>1, <2>2, <2>3
  <2>6. \A e, f \in set : f.kid = e.kid => f = e
    <3>1. \A e, f \in held[c.dir] : f.kid = e.kid => f = e
      BY <2>2 DEF DirInv, HeldOK
    <3> QED
      BY <2>1, <2>3, <3>1
  <2> HIDE DEF set
  <2>7. D!Goes(t, D!NoCall)
    BY <1>2 DEF D!Finish
  <2>8. D!NoCall \in Calls /\ Known(D!NoCall) /\ ~D!Renames(D!NoCall) /\ D!NoCall.op = "none"
    BY NoCallIs
  <2> QED
    BY <1>1, <1>2, <2>2, <2>4, <2>5, <2>6, <2>7, <2>8, PutIs, GoesOK DEF c
<1>3. CASE D!Sees(t, D!NoCall)
  BY <1>1, <1>3, GivesUp
<1> QED
  BY <1>2, <1>3 DEF D!Set

----------------------------------------------------------------------------
(* Directories.                                                            *)

LEMMA CreateDirectoryStep ==
    ASSUME DirInv, NEW t \in Callers, NEW d \in Dirs, D!CreateDirectory(t, d)
    PROVE  DirInv'
<1>1. /\ d \notin DOMAIN held /\ chained' = chained /\ D!Does(t)
      /\ held' = [x \in DOMAIN held \cup {d} |-> IF x = d THEN {} ELSE held[x]]
      /\ held \in [DOMAIN held -> SUBSET D!Entry] /\ DOMAIN held \subseteq Dirs
  BY DEF D!CreateDirectory, D!Exists, DirInv, Typed
<1>2. /\ DOMAIN held' = DOMAIN held \cup {d} /\ held' \in [DOMAIN held' -> SUBSET D!Entry]
      /\ \A x \in DOMAIN held' : held'[x] = IF x = d THEN {} ELSE held[x]
  BY <1>1
<1>3. \A x \in DOMAIN held' : \A e \in held'[x] : \E f \in Disk(held, x) : f.kid = e.kid /\ f.iv = e.iv
  BY <1>2 DEF Disk
<1>4. \A x \in DOMAIN held' : \A e, f \in held'[x] : f.kid = e.kid => f = e
  BY <1>2 DEF DirInv, HeldOK
<1>5. DOMAIN held' \subseteq Dirs
  BY <1>1, <1>2
<1> QED
  BY SMTT(30), <1>1, <1>2, <1>3, <1>4, <1>5, DoesOK

LEMMA RmdirStep == ASSUME D!DirsAssumption, DirInv, NEW t \in Callers, D!Rmdir(t) PROVE DirInv'
<1> DEFINE d == calls[t].dir
<1>1. ~D!Renames(calls[t])
  BY DEF D!Rmdir, D!At, D!Renames
<1>2. CASE held' = D!Without(d) /\ chained' = chained /\ D!Finish(t)
  <2>1. held \in [DOMAIN held -> SUBSET D!Entry] /\ DOMAIN held \subseteq Dirs
    BY DEF DirInv, Typed
  <2>2. /\ DOMAIN held' = DOMAIN held \ {d} /\ held' \in [DOMAIN held' -> SUBSET D!Entry]
        /\ \A x \in DOMAIN held' : held'[x] = held[x]
    BY <1>2, <2>1 DEF D!Without
  <2>3. \A x \in DOMAIN held' : \A e \in held'[x] : \E f \in Disk(held, x) : f.kid = e.kid /\ f.iv = e.iv
    BY <2>2 DEF Disk
  <2>4. \A x \in DOMAIN held' : \A e, f \in held'[x] : f.kid = e.kid => f = e
    BY <2>2 DEF DirInv, HeldOK
  <2>5. /\ D!Goes(t, D!NoCall) /\ D!NoCall \in Calls /\ Known(D!NoCall) /\ ~D!Renames(D!NoCall)
        /\ D!NoCall.op = "none"
    BY <1>2, NoCallIs DEF D!Finish
  <2> QED
    BY <1>1, <1>2, <2>1, <2>2, <2>3, <2>4, <2>5, GoesOK
<1>3. CASE D!Sees(t, D!NoCall)
  BY <1>1, <1>3, GivesUp
<1> QED
  BY <1>2, <1>3 DEF D!Rmdir

\* A step of the one rename there is.
LEMMA RenamesOK ==
    ASSUME DirInv, chained' = chained,
           DOMAIN held' \subseteq Dirs, held' \in [DOMAIN held' -> SUBSET D!Entry],
           NEW t \in Callers, NEW c \in Calls, D!Goes(t, c), Known(c),
           c.op # "list", calls[t].op # "list",
           \A u \in Callers \ {t} : ~D!Renames(calls[u]),
           D!Renames(c) => RenameOK(c, held') /\ ~ListsIn(calls, c.dir),
           \A d \in DOMAIN held' : (D!Renames(c) /\ c.dir = d) \/ \A e \in held'[d] : e.iv = D!IV(d),
           \A d \in DOMAIN held' : \A e, f \in held'[d] : f.kid = e.kid => f = e
    PROVE  DirInv'
<1> DEFINE x == But(t, c)
<1>1. Typed /\ HeldOK(held, calls)
  BY DEF DirInv
<1>2. x \in [Callers -> Calls] /\ \A u \in Callers : x[u] = IF u = t THEN c ELSE calls[u]
  BY <1>1, ButIs
<1>3. calls' = [u \in Callers |-> D!Observe(x[u])]
  <2>1. calls' = [u \in Callers |-> D!Observe(IF u = t THEN c ELSE calls[u])]
    BY DEF D!Goes
  <2> HIDE DEF x
  <2> QED
    BY <1>2, <2>1
<1> HIDE DEF x
<1>4. \A u \in Callers : Known(x[u])
  BY <1>2 DEF DirInv
<1>5. \A u \in Callers : D!Renames(x[u]) => u = t
  BY <1>2
<1>6. \A d : ListsIn(x, d) => ListsIn(calls, d)
  BY <1>2 DEF ListsIn
<1>7. HeldOK(held', x)
  <2>1. \A d \in DOMAIN held' : ~WayIn(x, d) => \A e \in held'[d] : e.iv = D!IV(d)
    BY <1>2 DEF WayIn
  <2>2. \A u \in Callers : D!Renames(x[u]) => RenameOK(x[u], held') /\ ~ListsIn(x, x[u].dir)
    BY <1>2, <1>5, <1>6
  <2> QED
    BY <1>5, <2>1, <2>2 DEF HeldOK
<1> QED
  BY <1>2, <1>3, <1>4, <1>7, StepOK

LEMMA DirRenameStep ==
    ASSUME D!DirsAssumption, Mishaps = {}, DirInv, NEW t \in Callers, NEW d \in Dirs, NEW x \in Dirs,
           D!Rename(t, d, x)
    PROVE  DirInv'
<1> DEFINE names == D!GenRenameList(d)
           c == [D!NoCall EXCEPT !.op = "rename", !.dir = d, !.pc = "entries", !.to = x, !.names = names]
<1>1. D!NoRename /\ d # x /\ d \in DOMAIN held /\ ~ListsIn(calls, d) /\ D!Idle(t) /\ D!Sees(t, c)
  BY DEF D!Rename, D!Exists, D!Lists, ListsIn
<1>2. chained' = chained /\ held' = held /\ D!Goes(t, c) /\ held[d] \subseteq D!Entry
  BY <1>1 DEF D!Sees, DirInv, Typed
<1>3. \A u : ~WayIn(calls, u)
  BY <1>1 DEF D!NoRename, WayIn
<1>4. \A u \in DOMAIN held : \A e \in held[u] : e.iv = D!IV(u)
  BY <1>3 DEF DirInv, HeldOK
<1>5. /\ names \in SUBSET Kids /\ (~chained => names = {})
      /\ chained => \A e \in held[d] : e.kid \in names
  <2>1. D!Plain(d) = held[d]
    BY <1>1, <1>4 DEF D!Plain, D!OnDisk, D!Exists
  <2> QED
    BY <1>2, <2>1, AboutIs DEF D!GenRenameList
<1> HIDE DEF names
<1>6. D!NoCall \in Calls /\ D!NoCall.now = {} /\ D!NoCall.shown = {} /\ D!NoCall.done = {}
  BY NoCallIs DEF D!NoCall
<1>7. /\ c \in Calls /\ c.op = "rename" /\ c.pc = "entries" /\ c.now = {} /\ c.shown = {}
      /\ c.dir = d /\ c.to = x /\ c.names = names /\ c.done = {}
  BY <1>5, <1>6 DEF Calls, CallPlaces, Ops
<1> HIDE DEF c
<1>8. Known(c)
  BY <1>7 DEF Known, ShownOK
<1>9. RenameOK(c, held)
  BY <1>1, <1>4, <1>5, <1>7 DEF RenameOK, Disk
<1>10. /\ calls[t].op # "list" /\ \A u \in Callers : ~D!Renames(calls[u])
  BY <1>1 DEF D!Idle, D!NoRename
<1> QED
  BY <1>1, <1>2, <1>4, <1>7, <1>8, <1>9, <1>10, Unchanging, RenamesOK

\* The one rename there is, when it is the turn of a step of it.
LEMMA RenameIs ==
    ASSUME DirInv, NEW t \in Callers, calls[t].op = "rename", calls[t].pc # "done"
    PROVE  /\ RenameOK(calls[t], held) /\ ~ListsIn(calls, calls[t].dir)
           /\ calls[t] \in Calls /\ Known(calls[t])
           /\ \A u \in Callers \ {t} : ~D!Renames(calls[u])
           /\ \A d \in DOMAIN held : d # calls[t].dir => \A e \in held[d] : e.iv = D!IV(d)
<1>1. D!Renames(calls[t])
  BY DEF D!Renames
<1>2. \A u \in Callers : D!Renames(calls[u]) => u = t
  BY <1>1 DEF DirInv, HeldOK
<1>3. \A d : WayIn(calls, d) => d = calls[t].dir
  BY <1>2 DEF WayIn
<1> QED
  BY <1>1, <1>2, <1>3 DEF DirInv, HeldOK, Typed

\* A rename that cannot go on begins to be undone.
LEMMA UndoBegins ==
    ASSUME DirInv, NEW t \in Callers, calls[t].op = "rename", calls[t].pc = "entries",
           D!Sees(t, [calls[t] EXCEPT !.pc = "undo"])
    PROVE  DirInv'
<1> DEFINE b == calls[t]
           c == [b EXCEPT !.pc = "undo"]
<1>1. /\ RenameOK(b, held) /\ ~ListsIn(calls, b.dir) /\ b \in Calls /\ Known(b)
      /\ \A u \in Callers \ {t} : ~D!Renames(calls[u])
      /\ \A d \in DOMAIN held : d # b.dir => \A e \in held[d] : e.iv = D!IV(d)
  BY RenameIs
<1>2. held' = held /\ chained' = chained /\ D!Goes(t, c) /\ b.op = "rename" /\ b.pc = "entries"
  BY DEF D!Sees
<1> HIDE DEF b
<1>3. /\ c \in Calls /\ c.op = "rename" /\ c.pc = "undo" /\ c.dir = b.dir /\ c.to = b.to
      /\ c.names = b.names /\ c.done = b.done
      /\ c.now = b.now /\ c.shown = b.shown /\ c.ever = b.ever
  BY <1>1, <1>2 DEF Calls, CallPlaces
<1> HIDE DEF c
<1>4. Known(c) /\ D!Renames(c) /\ RenameOK(c, held')
  BY <1>1, <1>2, <1>3 DEF Known, ShownOK, D!Renames, RenameOK
<1>5. \A d \in DOMAIN held' : d = c.dir \/ \A e \in held'[d] : e.iv = D!IV(d)
  BY <1>1, <1>2, <1>3
<1>6. calls[t].op # "list"
  OBVIOUS
<1> QED
  BY <1>1, <1>2, <1>3, <1>4, <1>5, <1>6, Unchanging, RenamesOK

LEMMA RecodeIs ==
    ASSUME DirInv, NEW d \in Dirs, NEW k, NEW from, NEW x \in Dirs, D!Recode(d, k, from, D!IV(x))
    PROVE  /\ chained' = chained /\ d \in DOMAIN held
           /\ DOMAIN held' = DOMAIN held /\ held' \in [DOMAIN held' -> SUBSET D!Entry]
           /\ \A y \in DOMAIN held : y # d => held'[y] = held[y]
           /\ \A e \in held'[d] : \E f \in held[d] :
                f.kid = e.kid /\ e.iv = IF f.kid = k /\ f.iv = from THEN D!IV(x) ELSE f.iv
           /\ \A y \in DOMAIN held' : \A e, f \in held'[y] : f.kid = e.kid => f = e
<1> DEFINE old == {e \in D!OnDisk(d) : e.kid = k /\ e.iv = from}
           New(e) == [e EXCEPT !.iv = D!IV(x)]
           set == (held[d] \ old) \cup {New(e) : e \in old}
<1>1. old # {} /\ D!Put(d, set)
  BY DEF D!Recode
<1>2. /\ d \in DOMAIN held /\ D!OnDisk(d) = held[d]
  BY <1>1 DEF D!OnDisk, D!Exists
<1>3. held \in [DOMAIN held -> SUBSET D!Entry] /\ \A y \in DOMAIN held : \A e, f \in held[y] : f.kid = e.kid => f = e
  BY DEF DirInv, Typed, HeldOK
<1>4. \A e \in D!Entry : New(e) \in D!Entry /\ New(e).kid = e.kid /\ New(e).iv = D!IV(x)
  BY DEF D!Entry
<1>5. \A e \in old : e \in held[d] /\ e \in D!Entry /\ e.kid = k /\ e.iv = from
  BY <1>2, <1>3
<1> HIDE DEF New
<1>6. set \in SUBSET D!Entry
  BY <1>2, <1>3, <1>4, <1>5
<1>7. ASSUME NEW e \in set
      PROVE  \E f \in held[d] :
               f.kid = e.kid /\ e.iv = IF f.kid = k /\ f.iv = from THEN D!IV(x) ELSE f.iv
  <2>1. CASE e \in held[d] \ old
    <3>1. ~(e.kid = k /\ e.iv = from)
      BY <1>2, <2>1
    <3> QED
      BY <2>1, <3>1
  <2>2. ASSUME NEW f \in old, e = New(f) PROVE <1>7!2
    BY <1>4, <1>5, <2>2
  <2> QED
    BY <2>1, <2>2
<1>8. \A e, f \in set : f.kid = e.kid => f = e
  <2>1. \A e, f \in held[d] : f.kid = e.kid => f = e
    BY <1>2, <1>3
  <2> HIDE DEF old
  <2> QED
    BY <1>4, <1>5, <2>1
<1> HIDE DEF set
<1>9. held' = [held EXCEPT ![d] = set] /\ chained' = chained
  BY <1>1 DEF D!Put
<1>10. /\ DOMAIN held' = DOMAIN held /\ held' \in [DOMAIN held' -> SUBSET D!Entry]
       /\ \A y \in DOMAIN held : held'[y] = IF y = d THEN set ELSE held[y]
  BY <1>3, <1>6, <1>9
<1> QED
  BY <1>2, <1>3, <1>7, <1>8, <1>9, <1>10

LEMMA RenameEntryStep == ASSUME DirInv, NEW t \in Callers, D!RenameEntry(t) PROVE DirInv'
<1> DEFINE b == calls[t]
<1>1. b.op = "rename" /\ b.pc = "entries"
  BY DEF D!RenameEntry, D!At
<1>2. /\ RenameOK(b, held) /\ ~ListsIn(calls, b.dir) /\ b \in Calls /\ Known(b)
      /\ \A u \in Callers \ {t} : ~D!Renames(calls[u])
      /\ \A d \in DOMAIN held : d # b.dir => \A e \in held[d] : e.iv = D!IV(d)
  BY <1>1, RenameIs
<1>3. b.dir \in Dirs /\ b.to \in Dirs /\ b.names \in SUBSET Kids /\ b.done \in SUBSET Kids
  BY <1>2 DEF Calls
<1>4. PICK k \in b.names :
        \/ /\ D!Recode(b.dir, k, D!IV(b.dir), D!IV(b.to))
           /\ D!Goes(t, [b EXCEPT !.names = @ \ {k}, !.done = @ \cup {k}])
        \/ D!Sees(t, [b EXCEPT !.pc = "undo"])
  BY DEF D!RenameEntry
<1>5. CASE /\ D!Recode(b.dir, k, D!IV(b.dir), D!IV(b.to))
           /\ D!Goes(t, [b EXCEPT !.names = @ \ {k}, !.done = @ \cup {k}])
  <2> DEFINE c == [b EXCEPT !.names = @ \ {k}, !.done = @ \cup {k}]
  <2>1. /\ chained' = chained /\ b.dir \in DOMAIN held
        /\ DOMAIN held' = DOMAIN held /\ held' \in [DOMAIN held' -> SUBSET D!Entry]
        /\ \A y \in DOMAIN held : y # b.dir => held'[y] = held[y]
        /\ \A e \in held'[b.dir] : \E f \in held[b.dir] :
             f.kid = e.kid /\ e.iv = IF f.kid = k /\ f.iv = D!IV(b.dir) THEN D!IV(b.to) ELSE f.iv
        /\ \A y \in DOMAIN held' : \A e, f \in held'[y] : f.kid = e.kid => f = e
    BY <1>3, <1>5, RecodeIs
  <2> HIDE DEF b
  <2>2. /\ c \in Calls /\ c.op = "rename" /\ c.pc = "entries" /\ c.dir = b.dir /\ c.to = b.to
        /\ c.names = b.names \ {k} /\ c.done = b.done \cup {k}
        /\ c.now = b.now /\ c.shown = b.shown /\ c.ever = b.ever
    BY <1>1, <1>2, <1>3 DEF Calls
  <2> HIDE DEF c
  <2>3. Known(c)
    BY <1>2, <2>2 DEF Known, ShownOK
  <2>4. chained /\ k \notin b.done
    BY <1>2 DEF RenameOK
  <2>5. ASSUME NEW e \in held'[b.dir]
        PROVE  /\ e.iv = IF e.kid \in c.done THEN D!IV(c.to) ELSE D!IV(c.dir)
               /\ e.kid \in c.names \cup c.done
    <3>1. PICK f \in held[b.dir] :
            f.kid = e.kid /\ e.iv = IF f.kid = k /\ f.iv = D!IV(b.dir) THEN D!IV(b.to) ELSE f.iv
      BY <2>1
    <3>2. /\ f.iv = IF f.kid \in b.done THEN D!IV(b.to) ELSE D!IV(b.dir)
          /\ f.kid \in b.names \cup b.done
      BY <1>1, <1>2, <2>1, <2>4 DEF RenameOK, Disk
    <3> QED
      BY <2>2, <2>4, <3>1, <3>2
  <2>6. RenameOK(c, held')
    BY <1>2, <2>2, <2>4, <2>5 DEF RenameOK, Disk
  <2>7. \A d \in DOMAIN held' : d = c.dir \/ \A e \in held'[d] : e.iv = D!IV(d)
    BY <1>2, <2>1, <2>2
  <2>8. D!Goes(t, c) /\ D!Renames(c) /\ c.op # "list" /\ calls[t].op # "list" /\ DOMAIN held' \subseteq Dirs
    BY <1>1, <1>5, <2>1, <2>2 DEF c, b, D!Renames, DirInv, Typed
  <2> QED
    BY <1>2, <2>1, <2>2, <2>3, <2>6, <2>7, <2>8, RenamesOK
<1>6. CASE D!Sees(t, [b EXCEPT !.pc = "undo"])
  <2>1. RenameOK(b, held) /\ b.pc = "entries"
    BY <1>1, <1>2
  <2> QED
    BY <1>1, <1>2, <1>6, UndoBegins
<1> QED
  BY <1>4, <1>5, <1>6

LEMMA RenameDirectoryStep ==
    ASSUME D!DirsAssumption, DirInv, NEW t \in Callers, D!RenameDirectory(t)
    PROVE  DirInv'
<1> DEFINE b == calls[t]
<1>1. b.op = "rename" /\ b.pc = "entries" /\ b.names = {}
  BY DEF D!RenameDirectory, D!At
<1>2. /\ RenameOK(b, held) /\ ~ListsIn(calls, b.dir) /\ b \in Calls /\ Known(b)
      /\ \A u \in Callers \ {t} : ~D!Renames(calls[u])
      /\ \A d \in DOMAIN held : d # b.dir => \A e \in held[d] : e.iv = D!IV(d)
  BY <1>1, RenameIs
<1>3. CASE /\ D!Exists(b.dir) /\ ~D!Exists(b.to)
           /\ held' = [x \in (DOMAIN held \ {b.dir}) \cup {b.to} |->
                         IF x = b.to THEN held[b.dir] ELSE held[x]]
           /\ UNCHANGED chained /\ D!Finish(t)
  <2>1. b.to \in Dirs /\ b.dir \in DOMAIN held /\ b.to \notin DOMAIN held
    BY <1>2, <1>3 DEF Calls, D!Exists
  <2>2. held \in [DOMAIN held -> SUBSET D!Entry] /\ DOMAIN held \subseteq Dirs
    BY DEF DirInv, Typed
  <2> HIDE DEF b
  <2>3. /\ DOMAIN held' = (DOMAIN held \ {b.dir}) \cup {b.to}
        /\ held' \in [DOMAIN held' -> SUBSET D!Entry]
        /\ \A x \in DOMAIN held' : held'[x] = IF x = b.to THEN held[b.dir] ELSE held[x]
    BY <1>3, <2>1, <2>2
  <2>4. \A e \in held[b.dir] : e.iv = D!IV(b.to)
    <3>1. CASE chained
      BY <1>1, <1>2, <2>1, <3>1 DEF RenameOK, Disk
    <3>2. CASE ~chained
      BY <1>2, <2>1, <3>2 DEF RenameOK, Disk, D!IV
    <3> QED
      BY <3>1, <3>2
  <2>5. \A d \in DOMAIN held' : \A e \in held'[d] : e.iv = D!IV(d)
    BY <1>2, <2>3, <2>4
  <2>6. \A d \in DOMAIN held' : \A e, f \in held'[d] : f.kid = e.kid => f = e
    BY <2>1, <2>3 DEF DirInv, HeldOK
  <2>7. /\ D!Goes(t, D!NoCall) /\ D!NoCall \in Calls /\ Known(D!NoCall) /\ ~D!Renames(D!NoCall)
        /\ D!NoCall.op = "none" /\ DOMAIN held' \subseteq Dirs
    BY <1>3, <2>1, <2>2, <2>3, NoCallIs DEF D!Finish
  <2>8. calls[t].op # "list"
    BY <1>1 DEF b
  <2> QED
    BY <1>2, <1>3, <2>3, <2>5, <2>6, <2>7, <2>8, RenamesOK
<1>4. CASE D!Sees(t, [b EXCEPT !.pc = "undo"])
  BY <1>1, <1>2, <1>4, UndoBegins
<1> QED
  BY <1>3, <1>4 DEF D!RenameDirectory

LEMMA UndoStep == ASSUME DirInv, NEW t \in Callers, D!Undo(t) PROVE DirInv'
<1> DEFINE b == calls[t]
<1>1. b.op = "rename" /\ b.pc = "undo"
  BY DEF D!Undo, D!At
<1>2. /\ RenameOK(b, held) /\ ~ListsIn(calls, b.dir) /\ b \in Calls /\ Known(b)
      /\ \A u \in Callers \ {t} : ~D!Renames(calls[u])
      /\ \A d \in DOMAIN held : d # b.dir => \A e \in held[d] : e.iv = D!IV(d)
  BY <1>1, RenameIs
<1>3. b.dir \in Dirs /\ b.to \in Dirs /\ b.done \in SUBSET Kids
  BY <1>2 DEF Calls
<1>4. PICK k \in b.done :
        /\ \/ D!Recode(b.dir, k, D!IV(b.to), D!IV(b.dir))
           \/ D!CannotRecode(b.dir, k, D!IV(b.to), D!IV(b.dir)) /\ UNCHANGED <<chained, held>>
        /\ D!Goes(t, [b EXCEPT !.done = @ \ {k}])
  BY DEF D!Undo
<1> DEFINE c == [b EXCEPT !.done = @ \ {k}]
<1>5. /\ c \in Calls /\ c.op = "rename" /\ c.pc = "undo" /\ c.dir = b.dir /\ c.to = b.to
      /\ c.names = b.names /\ c.done = b.done \ {k}
      /\ c.now = b.now /\ c.shown = b.shown /\ c.ever = b.ever
  <2> HIDE DEF b
  <2> QED
    BY <1>1, <1>2, <1>3 DEF Calls
<1>6. D!Goes(t, c) /\ calls[t].op # "list"
  BY <1>1, <1>4
<1> HIDE DEF c
<1>7. Known(c) /\ D!Renames(c)
  BY <1>2, <1>5 DEF Known, ShownOK, D!Renames
<1>8. chained /\ D!IV(b.to) # D!IV(b.dir)
  BY <1>2, <1>3 DEF RenameOK, D!IV
<1>9. /\ chained' = chained /\ DOMAIN held' = DOMAIN held
      /\ held' \in [DOMAIN held' -> SUBSET D!Entry]
      /\ \A y \in DOMAIN held : y # b.dir => held'[y] = held[y]
      /\ \A y \in DOMAIN held' : \A e, f \in held'[y] : f.kid = e.kid => f = e
      /\ \A e \in Disk(held', b.dir) :
           e.iv = IF e.kid \in b.done \ {k} THEN D!IV(b.to) ELSE D!IV(b.dir)
  <2>1. \A f \in Disk(held, b.dir) : f.iv = IF f.kid \in b.done THEN D!IV(b.to) ELSE D!IV(b.dir)
    BY <1>2 DEF RenameOK
  <2>2. CASE D!Recode(b.dir, k, D!IV(b.to), D!IV(b.dir))
    <3>1. /\ chained' = chained /\ b.dir \in DOMAIN held
          /\ DOMAIN held' = DOMAIN held /\ held' \in [DOMAIN held' -> SUBSET D!Entry]
          /\ \A y \in DOMAIN held : y # b.dir => held'[y] = held[y]
          /\ \A e \in held'[b.dir] : \E f \in held[b.dir] :
               f.kid = e.kid /\ e.iv = IF f.kid = k /\ f.iv = D!IV(b.to) THEN D!IV(b.dir) ELSE f.iv
          /\ \A y \in DOMAIN held' : \A e, f \in held'[y] : f.kid = e.kid => f = e
      BY <1>3, <2>2, RecodeIs
    <3> HIDE DEF b
    <3> QED
      BY <1>4, <2>1, <3>1 DEF Disk
  <2>3. CASE D!CannotRecode(b.dir, k, D!IV(b.to), D!IV(b.dir)) /\ UNCHANGED <<chained, held>>
    <3>1. \A e \in Disk(held, b.dir) : e.kid # k
      <4>1. \A e \in D!OnDisk(b.dir) : e \in Disk(held, b.dir)
        BY PlainIs
      <4>2. \A e \in Disk(held, b.dir) : e.kid = k => e.iv = D!IV(b.to)
        BY <1>4, <2>1
      <4>3. CASE {e \in D!OnDisk(b.dir) : e.kid = k /\ e.iv = D!IV(b.to)} = {}
        <5>1. \A e \in D!OnDisk(b.dir) : ~(e.kid = k /\ e.iv = D!IV(b.to))
          BY <4>3
        <5> QED
          BY <4>2, <5>1, PlainIs
      <4>4. CASE b.dir \notin DOMAIN held
        BY <4>4 DEF Disk
      <4>5. ASSUME b.dir \in DOMAIN held,
                   NEW e \in held[b.dir], e.kid = k, e.iv = D!IV(b.dir)
            PROVE  FALSE
        BY <1>8, <4>2, <4>5 DEF Disk
      <4> QED
        BY <2>3, <4>3, <4>4, <4>5 DEF D!CannotRecode
    <3> QED
      BY <2>1, <2>3, <3>1 DEF DirInv, Typed, HeldOK
  <2> QED
    BY <1>4, <2>2, <2>3
<1>10. RenameOK(c, held')
  BY <1>2, <1>5, <1>8, <1>9 DEF RenameOK
<1>11. \A d \in DOMAIN held' : d = c.dir \/ \A e \in held'[d] : e.iv = D!IV(d)
  BY <1>2, <1>5, <1>9
<1>12. DOMAIN held' \subseteq Dirs
  BY <1>9 DEF DirInv, Typed
<1> HIDE DEF b
<1> QED
  BY <1>2, <1>5, <1>6, <1>7, <1>9, <1>10, <1>11, <1>12, RenamesOK

LEMMA RenameFailsStep ==
    ASSUME D!DirsAssumption, DirInv, NEW t \in Callers, D!RenameFails(t)
    PROVE  DirInv'
<1>1. calls[t].op = "rename" /\ calls[t].pc = "undo" /\ calls[t].done = {} /\ D!Sees(t, D!NoCall)
  BY DEF D!RenameFails, D!At
<1>2. /\ RenameOK(calls[t], held) /\ \A u \in Callers \ {t} : ~D!Renames(calls[u])
      /\ \A d \in DOMAIN held : d # calls[t].dir => \A e \in held[d] : e.iv = D!IV(d)
  BY <1>1, RenameIs
<1>3. \A d \in DOMAIN held : \A e \in held[d] : e.iv = D!IV(d)
  BY <1>1, <1>2 DEF RenameOK, Disk
<1>4. held' = held /\ chained' = chained /\ D!Goes(t, D!NoCall)
  BY <1>1 DEF D!Sees
<1>5. D!NoCall \in Calls /\ Known(D!NoCall) /\ ~D!Renames(D!NoCall) /\ D!NoCall.op = "none"
  BY NoCallIs
<1> QED
  BY <1>1, <1>2, <1>3, <1>4, <1>5, Unchanging, RenamesOK

----------------------------------------------------------------------------
(* The specification.                                                      *)

LEMMA DirInvInit == ASSUME D!DirsAssumption, D!DirInit PROVE DirInv
<1>1. /\ chained \in BOOLEAN /\ held \in [{D!NoDir} -> {{}}] /\ calls = [t \in Callers |-> D!NoCall]
      /\ D!NoDir \in Dirs
  BY DEF D!DirInit, D!NoDir, D!DirsAssumption
<1>2. /\ D!NoCall \in Calls /\ Known(D!NoCall) /\ ~Watches(D!NoCall) /\ ~D!Renames(D!NoCall)
      /\ D!NoCall.op = "none"
  BY NoCallIs
<1>3. DOMAIN held = {D!NoDir} /\ \A d \in DOMAIN held : held[d] = {}
  BY <1>1
<1>4. held \in [DOMAIN held -> SUBSET D!Entry] /\ DOMAIN held \subseteq Dirs
  BY <1>1, <1>3
<1>5. \A t \in Callers : calls[t] = D!NoCall
  BY <1>1
<1>6. calls \in [Callers -> Calls]
  BY <1>1, <1>2
<1>7. HeldOK(held, calls)
  BY <1>2, <1>3, <1>5 DEF HeldOK
<1>8. \A t \in Callers : Known(calls[t]) /\ Observed(calls[t], held)
  BY <1>2, <1>5 DEF Observed
<1> QED
  BY <1>1, <1>4, <1>6, <1>7, <1>8 DEF DirInv, Typed

LEMMA DirInvNext ==
    ASSUME D!DirsAssumption, Mishaps = {}, DirInv, [D!DirNext]_(D!dirvars)
    PROVE  DirInv'
<1>1. ASSUME NEW t \in Callers, D!Return(t) PROVE DirInv'
  BY <1>1, ReturnStep
<1>2. ASSUME NEW t \in Callers, D!OpenDir(t) PROVE DirInv'
  BY <1>2, OpenDirStep
<1>3. ASSUME NEW t \in Callers, D!GetdirEnd(t) PROVE DirInv'
  BY <1>3, GetdirEndStep
<1>4. ASSUME NEW t \in Callers, D!Attributes(t) PROVE DirInv'
  BY <1>4, AttributesStep
<1>5. ASSUME NEW t \in Callers, D!WalkEnd(t) PROVE DirInv'
  BY <1>5, WalkEndStep
<1>6. ASSUME NEW t \in Callers, D!Set(t) PROVE DirInv'
  BY <1>6, SetStep
<1>7. ASSUME NEW t \in Callers, D!Rmdir(t) PROVE DirInv'
  BY <1>7, RmdirStep
<1>8. ASSUME NEW t \in Callers, D!RenameEntry(t) PROVE DirInv'
  BY <1>8, RenameEntryStep
<1>9. ASSUME NEW t \in Callers, D!RenameDirectory(t) PROVE DirInv'
  BY <1>9, RenameDirectoryStep
<1>10. ASSUME NEW t \in Callers, D!Undo(t) PROVE DirInv'
  BY <1>10, UndoStep
<1>11. ASSUME NEW t \in Callers, D!RenameFails(t) PROVE DirInv'
  BY <1>11, RenameFailsStep
<1>12. ASSUME NEW t \in Callers, NEW k \in Kids, D!Getdir(t, k) \/ D!WalkDirectory(t, k) PROVE DirInv'
  BY <1>12, GetdirStep, WalkDirectoryStep
<1>13. ASSUME NEW t \in Callers, NEW d \in Dirs,
              D!FindFiles(t, d) \/ D!CreateDirectory(t, d) \/ D!DeleteDirectory(t, d)
       PROVE  DirInv'
  BY <1>13, FindFilesStep, CreateDirectoryStep, DeleteDirectoryStep
<1>14. ASSUME NEW t \in Callers, NEW d \in Dirs, NEW x \in Dirs, D!Rename(t, d, x) PROVE DirInv'
  BY <1>14, DirRenameStep
<1>15. ASSUME NEW t \in Callers, NEW d \in Dirs, NEW k \in Kids,
              D!GetFileInformation(t, d, k) \/ D!Remove(t, d, k)
       PROVE  DirInv'
  BY <1>15, GetFileInformationStep, RemoveStep
<1>16. ASSUME NEW t \in Callers, NEW d \in Dirs, NEW k \in Kids,
              D!SetFileAttributes(t, d, k) \/ D!SetFileTime(t, d, k)
       PROVE  DirInv'
  <2>1. "attributes" \in D!Fields /\ "times" \in D!Fields
    BY DEF D!Fields
  <2> QED
    BY <1>16, <2>1, ChangeStep DEF D!SetFileAttributes, D!SetFileTime
<1>17. ASSUME NEW t \in Callers, NEW d \in Dirs, NEW k \in Kids, NEW kind \in D!Kinds,
              D!Create(t, d, k, kind)
       PROVE  DirInv'
  BY <1>17, CreateStep
<1>18. ASSUME NEW t \in Callers, NEW d \in Dirs, NEW k \in Kids, NEW x \in Dirs, NEW l \in Kids,
              D!Move(t, d, k, x, l)
       PROVE  DirInv'
  BY <1>18, MoveStep
<1>19. CASE UNCHANGED D!dirvars
  <2>1. chained' = chained /\ held' = held /\ calls' = calls
    BY <1>19 DEF D!dirvars
  <2>2. Typed'
    BY <2>1 DEF DirInv, Typed, D!Entry, D!IV
  <2>3. HeldOK(held, calls)'
    BY <2>1, HeldPrimed DEF DirInv
  <2>4. \A t \in Callers : Known(calls[t])'
    BY <2>1 DEF DirInv, Known, ShownOK, KidsOf
  <2>5. \A t \in Callers : Observed(calls[t], held)'
    BY <2>1, ObservedPrimed DEF DirInv
  <2> QED
    BY <2>2, <2>3, <2>4, <2>5 DEF DirInv
<1> QED
  BY <1>1, <1>2, <1>3, <1>4, <1>5, <1>6, <1>7, <1>8, <1>9, <1>10, <1>11, <1>12, <1>13, <1>14,
     <1>15, <1>16, <1>17, <1>18, <1>19 DEF D!DirNext

\* Without the mishaps, what a rename has done says how every entry of its directory is
\* named, and what a listing has observed is what there is (fusemain.cpp:224-320,
\* DirNode.cpp:441-556, 614-684).
THEOREM DirInvariant == ASSUME D!DirsAssumption, Mishaps = {} PROVE D!DirSpec => []DirInv
<1>1. D!DirInit => DirInv
  BY DirInvInit
<1>2. DirInv /\ [D!DirNext]_(D!dirvars) => DirInv'
  BY DirInvNext
<1> QED
  BY <1>1, <1>2, PTL DEF D!DirSpec

LEMMA TypesAre == ASSUME DirInv PROVE D!DirTypeOK
BY DEF DirInv, Typed, Calls, D!DirTypeOK

\* Directories, entries and callbacks have their types (fusemain.cpp:224-320).
THEOREM DirTypeCorrect == ASSUME D!DirsAssumption, Mishaps = {} PROVE D!DirSpec => []D!DirTypeOK
<1>1. DirInv => D!DirTypeOK
  BY TypesAre
<1> QED
  BY <1>1, DirInvariant, PTL

LEMMA EntriesAre == ASSUME DirInv PROVE D!EntriesKept
<1>1. D!NoRename => \A d : ~WayIn(calls, d)
  BY DEF D!NoRename, WayIn
<1> QED
  BY <1>1 DEF DirInv, HeldOK, D!EntriesKept

\* However many threads create, remove, move, list and rename, when no directory is on its
\* way every entry bears a name that its directory's path decodes, and no two the same
\* (DirNode.cpp:441-556, 614-684).
THEOREM EntriesAlwaysKept == ASSUME D!DirsAssumption, Mishaps = {} PROVE D!DirSpec => []D!EntriesKept
<1>1. DirInv => D!EntriesKept
  BY EntriesAre
<1> QED
  BY <1>1, DirInvariant, PTL

LEMMA ListingIs == ASSUME DirInv PROVE D!ListingStands
<1> SUFFICES ASSUME NEW t \in Callers
             PROVE  LET c == calls[t] IN
                    /\ D!Done(t, "list") =>
                         IF c.result = "ok" THEN c.stays \subseteq {s.kid : s \in c.shown}
                         ELSE {s.kid : s \in c.ever} # c.stays
                    /\ \A s \in c.shown :
                         /\ \E o \in c.ever : o.kid = s.kid /\ o.kind = s.kind
                         /\ \A f \in D!Fields : \E o \in c.ever :
                              o.kid = s.kid /\ (f \in s.set <=> f \in o.set)
  BY DEF D!ListingStands
<1> QED
  BY DEF DirInv, Known, ShownOK, KidsOf, D!Done

\* A listing that succeeds has shown all that was there from its beginning to its end, each
\* as it has been meanwhile, and one that fails has met something that went away
\* (fusemain.cpp:224-320, DirNode.cpp:123-139).
THEOREM ListingAlwaysStands == ASSUME D!DirsAssumption, Mishaps = {} PROVE D!DirSpec => []D!ListingStands
<1>1. DirInv => D!ListingStands
  BY ListingIs
<1> QED
  BY <1>1, DirInvariant, PTL
=============================================================================
