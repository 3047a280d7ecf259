------------------------------- MODULE BlockIO -------------------------------
(***************************************************************************)
(* BlockFileIO: reads, writes, padding and truncation of a file in blocks, *)
(* with a cache of one block.  Both CipherFileIO (BlockFile) and MACFileIO *)
(* (MacFile) are such files, over their own way to read, write and encode  *)
(* one block, which are the operators this module takes.                   *)
(*                                                                         *)
(* The operators work on a record f, the file and the node in memory.      *)
(* This module reads and changes five of its fields: the cached block      *)
(* (cblk, cdata), whether the last write succeeded (ok), whether an        *)
(* exception is on its way (threw) and whether the underlying file let     *)
(* itself be cut (uncut).  The rest belongs to the layer.                  *)
(***************************************************************************)
EXTENDS Integers, Sequences

CONSTANTS BS,               \* _blockSize
          AllowHoles,       \* _allowHoles
          SizeOf(_),        \* getSize
          ReadOne(_, _),    \* readOneBlock of a full block: [f, data, failed]
          WriteOne(_, _, _),\* writeOneBlock
          CutBase(_, _)     \* truncate of the underlying file, or nothing if it is
                            \* not passed

Zeros(n) == [i \in 1..n |-> 0]
Least(a, b) == IF a < b THEN a ELSE b
Most(a, b) == IF a < b THEN b ELSE a

----------------------------------------------------------------------------
(* The cache.                                                              *)

\* A miss always reads a full block.  Nothing runs once something was thrown.
CacheRead(f, blk, n) ==
    LET Some(s) == SubSeq(s, 1, Least(n, Len(s)))
        hit == f.cdata # <<>> /\ f.cblk = blk
        r == ReadOne([f EXCEPT !.cdata = <<>>], blk)
    IN CASE f.threw -> [f |-> f, data |-> <<>>, failed |-> TRUE]
         [] hit /\ ~f.threw -> [f |-> f, data |-> Some(f.cdata), failed |-> FALSE]
         [] ~hit /\ ~f.threw /\ r.data = <<>> -> r
         [] OTHER -> [f |-> [r.f EXCEPT !.cblk = blk, !.cdata = r.data],
                      data |-> Some(r.data), failed |-> FALSE]

\* The cache first, cleared again if the write fails.  (Mutant: not cleared.)
CacheWriteNoClear(f, blk, data) ==
    IF f.threw THEN f
    ELSE [WriteOne(f, blk, data) EXCEPT !.cblk = blk, !.cdata = data]
CacheWrite(f, blk, data) ==
    LET g == WriteOne(f, blk, data)
    IN IF f.threw THEN f
       ELSE [g EXCEPT !.cblk = blk, !.cdata = IF g.ok THEN data ELSE <<>>]

----------------------------------------------------------------------------
(* A loop is a number of rounds, one more than it takes: a round of a loop *)
(* that has ended changes nothing.                                         *)

Rounds(Round(_), start, n) ==
    LET after[k \in 0..n] == IF k = 0 THEN start ELSE Round(after[k - 1]) IN after[n]

\* The blocks that n bytes can be spread over, and one.
RoundsFor(n) == n \div BS + 2

----------------------------------------------------------------------------
(* read.                                                                   *)

\* A read that fails in the loop ends it like the end of the file.
ReadRound(s) ==
    LET r == CacheRead(s.f, s.blk, BS)
        got == Len(r.data)
        copied == Least(got - s.part, s.size)
        next == [f |-> r.f, blk |-> s.blk + 1, part |-> 0, size |-> s.size - copied,
                 out |-> s.out \o SubSeq(r.data, s.part + 1, s.part + copied),
                 failed |-> FALSE]
    IN CASE s.size = 0 -> s
         [] s.size # 0 /\ got <= s.part -> [s EXCEPT !.f = r.f, !.size = 0, !.failed = r.f.threw]
         [] s.size # 0 /\ got > s.part /\ got < BS -> [next EXCEPT !.size = 0]
         [] OTHER -> next

ReadLoop(f, off, n) ==
    LET start == [f |-> f, blk |-> off \div BS, part |-> off % BS, size |-> n,
                  out |-> <<>>, failed |-> FALSE]
        end == Rounds(ReadRound, start, RoundsFor(n))
    IN [f |-> end.f, data |-> end.out, failed |-> end.failed]

\* A request inside one block goes to it directly.
ReadFile(f, off, n) ==
    IF off % BS = 0 /\ n <= BS THEN CacheRead(f, off \div BS, n)
    ELSE ReadLoop(f, off, n)

----------------------------------------------------------------------------
(* padFile, whose reads and writes may fail unnoticed.                     *)

PadRound(s) == [f |-> CacheWrite(s.f, s.blk, Zeros(BS)), blk |-> s.blk + 1]
PadBlocks(f, from, last) == Rounds(PadRound, [f |-> f, blk |-> from], last - from).f

Padded(s, n) == s \o Zeros(n - Len(s))

PadFile(f, old, new, force) ==
    LET first == old \div BS
        last == new \div BS
        kept == CacheRead(f, first, old % BS)
        full == IF old % BS = 0 THEN f
                ELSE CacheWrite(kept.f, first, Padded(kept.data, BS))
        from == IF old % BS = 0 THEN first ELSE first + 1
        middle == IF AllowHoles THEN full ELSE PadBlocks(full, from, last)
    IN CASE first = last /\ force /\ new % BS # 0 ->
              CacheWrite(kept.f, first, Padded(kept.data, new % BS))
         [] first = last /\ ~(force /\ new % BS # 0) -> f
         [] first # last /\ force /\ new % BS # 0 ->
              CacheWrite(middle, last, Zeros(new % BS))
         [] OTHER -> middle

----------------------------------------------------------------------------
(* write.  The file's size and last block are read once, and not again     *)
(* after padFile.  The short way of a request inside one block writes      *)
(* directly when, and only when, the loop would.                           *)

\* chunk written at part of a block that holds old.
Merge(old, part, chunk) ==
    [i \in 1..Most(Len(old), part + Len(chunk)) |->
        IF i \in part + 1 .. part + Len(chunk) THEN chunk[i - part]
        ELSE IF i <= Len(old) THEN old[i] ELSE 0]

LastNonEmpty(size) == IF size % BS = 0 THEN size \div BS - 1 ELSE size \div BS

\* A block that cannot be read is merged into as if it were empty.
WriteRound(s) ==
    LET n == Least(BS - s.part, Len(s.data))
        chunk == SubSeq(s.data, 1, n)
        direct == n = BS \/ (s.part = 0 /\ s.blk * BS + n >= s.size)
        r == CacheRead(s.f, s.blk, BS)
        g == IF direct THEN CacheWrite(s.f, s.blk, chunk)
             ELSE IF s.blk > LastNonEmpty(s.size)
                    THEN CacheWrite(s.f, s.blk, Merge(<<>>, s.part, chunk))
             ELSE CacheWrite(r.f, s.blk, Merge(r.data, s.part, chunk))
    IN IF s.data = <<>> THEN s
       ELSE [f |-> g, blk |-> s.blk + 1, part |-> 0, size |-> s.size,
             data |-> IF ~g.ok \/ g.threw THEN <<>> ELSE SubSeq(s.data, n + 1, Len(s.data))]

\* size is the file's before padFile.
WriteLoop(f, off, data, size) ==
    LET start == [f |-> [f EXCEPT !.ok = TRUE], blk |-> off \div BS, part |-> off % BS,
                  size |-> size, data |-> data]
    IN Rounds(WriteRound, start, RoundsFor(Len(data))).f

\* (Mutant: a hole before the data is left to the underlying file.)
WriteFileUnpadded(f, off, data) == WriteLoop(f, off, data, SizeOf(f))

WriteFile(f, off, data) ==
    LET size == SizeOf(f)
        g == IF off > size THEN PadFile(f, size, off, FALSE) ELSE f
    IN WriteLoop(g, off, data, size)

----------------------------------------------------------------------------
(* truncate.  The result is that of cutting the underlying file, if it was *)
(* cut: what becomes of the last block is not part of it.                  *)

TruncateFile(f, n) ==
    LET old == SizeOf(f)
        Cut(g) == IF g.threw THEN g ELSE CutBase(g, n)
        kept == CacheRead(f, n \div BS, BS)
    IN CASE n > old -> [PadFile(Cut(f), old, n, TRUE) EXCEPT !.uncut = FALSE]
         [] n = old -> f
         [] n < old /\ n % BS # 0 ->
              LET data == SubSeq(Padded(kept.data, Most(n % BS, Len(kept.data))), 1, n % BS)
              IN CacheWrite(Cut(kept.f), n \div BS, data)
         [] OTHER -> Cut(f)
=============================================================================
