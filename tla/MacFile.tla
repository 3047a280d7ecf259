------------------------------- MODULE MacFile -------------------------------
(***************************************************************************)
(* The optional layer above the encrypted file: MACFileIO puts a header of *)
(* H bytes, a MAC and random bytes, before each block of data and checks   *)
(* the MAC when it reads the block.  The file below is taken to be a plain *)
(* file (BlockFile shows it is one), except that somebody may alter it.    *)
(*                                                                         *)
(* A byte below is kept with the block its MAC was computed for, if it is  *)
(* one of a header, and with the byte it was written as.                   *)
(***************************************************************************)
EXTENDS Integers, Sequences, FiniteSets

CONSTANTS DB,       \* data bytes of a block: what is left of blockSize
          H,        \* header bytes of a block: blockMACBytes + blockMACRandBytes
          MaxSize,  \* the largest file the callers make
          Data,     \* the byte sequences callers write
          Sizes,    \* the sizes callers read
          Volumes,  \* [mac |-> blockMACBytes > 0, holes |-> allowHoles,
                    \*  warnOnly |-> forceDecode]
          Unsafe    \* the calls a run includes although they break the promise:
                    \* a subset of UnsafeCalls

VARIABLES volume,   \* the configuration of this volume
          base,     \* the bytes of the file below
          cache,    \* the cached block: its number and data
          ret       \* the last call and what it returned

vars == <<volume, base, cache, ret>>

UnsafeCalls == {"stale hole", "past end", "unnoticed failure", "failed merge",
                "short read",
                "refused cut",   \* a truncation below fails, which is not looked at
                "unprotected"}   \* alterations no MAC guards against

Plenty == 2 * MaxSize + 2  \* more reads or writes below than a call makes
RBS == DB + H              \* the block size below

Zeros(n) == [i \in 1..n |-> 0]
Least(a, b) == IF a < b THEN a ELSE b
Most(a, b) == IF a < b THEN b ELSE a

----------------------------------------------------------------------------
(* Sizes and offsets with and without headers.                             *)

RoundUpDivide(n, d) == (n + d - 1) \div d

LocWithHeader(offset) == offset + RoundUpDivide(offset, DB) * H

\* (Mutant: a started block is not counted.)
LocWithoutHeaderWhole(offset) == offset - (offset \div RBS) * H
LocWithoutHeader(offset) == offset - RoundUpDivide(offset, RBS) * H

----------------------------------------------------------------------------
(* Bytes and blocks.                                                       *)

Byte(b) == [sum |-> <<>>, byte |-> b, was |-> b]
Bytes(data) == [i \in 1..Len(data) |-> Byte(data[i])]
\* The header of a block of data; without a MAC it is random bytes.
Header(data) ==
    [i \in 1..H |-> [sum |-> IF volume.mac THEN data ELSE <<>>, byte |-> 1, was |-> 1]]
PlainOf(cells) == [i \in 1..Len(cells) |-> cells[i].byte]

BaseResize(c, n) == IF n <= Len(c) THEN SubSeq(c, 1, n) ELSE c \o Bytes(Zeros(n - Len(c)))

----------------------------------------------------------------------------
(* The calls work on a file f, see BlockIO: here the file below, and how   *)
(* many writes (left) and reads (reads) of it will still succeed.          *)

Current(left, reads) ==
    [base |-> base, cblk |-> cache.blk, cdata |-> cache.data, ok |-> TRUE,
     threw |-> FALSE, uncut |-> FALSE, left |-> left, reads |-> reads]
Commit(f) ==
    /\ base' = f.base
    /\ cache' = [blk |-> f.cblk, data |-> f.cdata]
    /\ UNCHANGED volume

Size(f) == IF f.base = <<>> THEN 0 ELSE LocWithoutHeader(Len(f.base))

\* What is left unchecked: nothing but zeros where holes are allowed, and
\* everything where there is neither a MAC nor a hole to look for.
SkipCheck(c) ==
    IF volume.holes THEN \A i \in 1..Len(c) : c[i].byte = 0 ELSE ~volume.mac
MacAgrees(c) ==
    volume.mac => \A i \in 1..H : c[i].sum = PlainOf(SubSeq(c, H + 1, Len(c)))

\* readOneBlock throws when the MAC disagrees, unless it is only to warn.
\* (Mutant: it warns and goes on.)
ReadOneBlockWarns(f, blk) ==
    LET at == LocWithHeader(blk * DB)
        c == SubSeq(f.base, at + 1, Least(at + RBS, Len(f.base)))
    IN [f |-> f, data |-> PlainOf(SubSeq(c, H + 1, Len(c))), failed |-> FALSE]
ReadOneBlock(f, blk) ==
    LET at == LocWithHeader(blk * DB)
        c == SubSeq(f.base, at + 1, Least(at + RBS, Len(f.base)))
        g == [f EXCEPT !.reads = @ - 1]
        refused == ~SkipCheck(c) /\ ~MacAgrees(c) /\ ~volume.warnOnly
    IN CASE f.reads = 0 -> [f |-> f, data |-> <<>>, failed |-> TRUE]
         [] f.reads # 0 /\ Len(c) > H /\ refused ->
              [f |-> [g EXCEPT !.threw = TRUE], data |-> <<>>, failed |-> TRUE]
         [] OTHER -> [f |-> g, data |-> PlainOf(SubSeq(c, H + 1, Len(c))), failed |-> FALSE]

WriteOneBlock(f, blk, data) ==
    LET at == LocWithHeader(blk * DB)
        b == BaseResize(f.base, Most(at, Len(f.base)))
        c == Header(data) \o Bytes(data)
    IN IF f.left = 0 THEN [f EXCEPT !.ok = FALSE]
       ELSE [f EXCEPT !.base = SubSeq(b, 1, at) \o c \o SubSeq(b, at + Len(c) + 1, Len(b)),
                      !.left = @ - 1, !.ok = TRUE]

CutNothing(f, n) == f

IO == INSTANCE BlockIO WITH BS <- DB, AllowHoles <- volume.holes, SizeOf <- Size,
        ReadOne <- ReadOneBlock, WriteOne <- WriteOneBlock, CutBase <- CutNothing

\* truncate: the file below is cut at last, and whether that succeeds is not
\* looked at.
TruncateFile(f, n, cuts) ==
    LET g == IO!TruncateFile(f, n)
    IN IF g.threw \/ ~cuts THEN g ELSE [g EXCEPT !.base = BaseResize(@, LocWithHeader(n))]

----------------------------------------------------------------------------
(* Actions: the calls, under FileNode's mutex.  What was thrown reaches    *)
(* the caller as an error.                                                 *)

Gave(call, data) == [call |-> call, ok |-> TRUE, data |-> data]
Ok(call) == Gave(call, <<>>)
Failed(call) == [call |-> call, ok |-> FALSE, data |-> <<>>]
NoCall == <<"none">>

Init ==
    /\ volume \in Volumes
    /\ base = <<>>
    /\ cache = [blk |-> 0, data |-> <<>>]
    /\ ret = Ok(NoCall)

Read ==
    \E off \in 0..MaxSize, n \in Sizes, reads \in {0, 1, Plenty} :
      /\ off < Size(Current(0, 0)) \/ "past end" \in Unsafe
      /\ reads # Plenty /\ ~(off % DB = 0 /\ n <= DB) => "short read" \in Unsafe
      /\ LET r == IO!ReadFile(Current(Plenty, reads), off, n)
             call == <<"read", off, n>>
         IN /\ Commit(r.f)
            /\ ret' = IF r.failed THEN Failed(call) ELSE Gave(call, r.data)

Write ==
    \E data \in Data, off \in 0..MaxSize, left \in {0, 1, Plenty}, reads \in {0, Plenty} :
      /\ off + Len(data) <= MaxSize
      /\ reads # Plenty => "failed merge" \in Unsafe
      /\ LET f == IO!WriteFile(Current(left, reads), off, data)
             call == <<"write", off, data>>
         IN /\ Commit(f)
            /\ ret' = IF f.ok /\ ~f.threw THEN Ok(call) ELSE Failed(call)

Truncate ==
    \E n \in 0..MaxSize, left \in {0, 1, Plenty}, reads \in {0, Plenty}, cuts \in BOOLEAN :
      /\ left # Plenty => "unnoticed failure" \in Unsafe
      /\ reads # Plenty => "failed merge" \in Unsafe
      /\ ~cuts => "refused cut" \in Unsafe
      /\ n < Size(Current(0, 0)) /\ n % DB = 0 /\ volume.holes => "stale hole" \in Unsafe
      /\ LET f == TruncateFile(Current(left, reads), n, cuts)
             call == <<"truncate", n>>
         IN /\ Commit(f)
            /\ ret' = IF f.threw THEN Failed(call) ELSE Ok(call)

\* Released by its last user and opened again.
Reopen ==
    /\ cache' = [blk |-> 0, data |-> <<>>]
    /\ ret' = Ok(NoCall)
    /\ UNCHANGED <<volume, base>>

\* A byte below is altered, at most one at a time: a data byte to one nobody
\* writes, a byte of a header to one of another MAC.
Altered(c) == c.byte # c.was
Alter ==
    /\ (volume.mac /\ ~volume.warnOnly) \/ "unprotected" \in Unsafe
    /\ \A i \in 1..Len(base) : ~Altered(base[i])
    /\ \E i \in 1..Len(base) :
         base' = [base EXCEPT ![i] = [sum |-> <<9>>, byte |-> 9, was |-> @.was]]
    /\ ret' = Ok(NoCall)
    /\ UNCHANGED <<volume, cache>>

Next == Read \/ Write \/ Truncate \/ Reopen \/ Alter

Spec == Init /\ [][Next]_vars

----------------------------------------------------------------------------
(* Properties.                                                             *)

\* The data bytes as they were written, in order.
DataAt == {i \in 1..Len(base) : (i - 1) % RBS >= H}
Content ==
    [k \in 1..Cardinality(DataAt) |-> base[k + ((k - 1) \div DB + 1) * H].was]

Plain == INSTANCE PlainFile WITH content <- Content

\* Every variable has its type.
TypeOK ==
    /\ volume \in Volumes
    /\ Len(base) <= LocWithHeader(MaxSize)
    /\ cache.blk \in 0..MaxSize /\ Len(cache.data) <= DB

\* The size reported, of the file with its headers, is the number of data bytes
\* in it: converting between the two loses and invents none, and no block has a
\* header and nothing else (MACFileIO.cpp:107-158).
SizesAgree ==
    /\ Size(Current(0, 0)) = Cardinality(DataAt)
    /\ LocWithHeader(Size(Current(0, 0))) = Len(base)

\* A block is refused only if it was altered: no sequence of calls leaves one
\* whose MAC is of other data (MACFileIO.cpp:227-288).
NoFalseAlarm ==
    \A blk \in 0..MaxSize :
      LET c == SubSeq(base, blk * RBS + 1, Least(blk * RBS + RBS, Len(base)))
      IN Len(c) > H /\ (\A i \in 1..Len(c) : ~Altered(c[i])) => SkipCheck(c) \/ MacAgrees(c)

\* The file behaves as the plain file that was written: its bytes come back
\* unless their MAC disagrees, and then the call fails.  An altered block is
\* never returned, nor merged into what is written (MACFileIO.cpp:160-288).
IsPlainFile == Plain!Spec
=============================================================================
