------------------------------ MODULE Packing ------------------------------
(***************************************************************************)
(* How the bytes of an encoded name become the characters of a file name:  *)
(* base64.cpp, and the sizes the two name codings reckon with.  A value    *)
(* takes the next bits from the low end, in place.                         *)
(***************************************************************************)
EXTENDS Integers, SequencesExt

CONSTANTS Bytes,   \* the bytes names are made of here
          MaxLen,  \* up to so many
          Lengths  \* the sizes of names that are only reckoned with

VARIABLE bytes  \* what is to be encoded

Init == bytes = <<>>
Append1 == Len(bytes) < MaxLen /\ \E b \in Bytes : bytes' = Append(bytes, b)
StartOver == bytes # <<>> /\ bytes' = <<>>
Next == Append1 \/ StartOver

----------------------------------------------------------------------------
(* base64.cpp.                                                             *)

B256ToB64Bytes(n) == (n * 8 + 5) \div 6
B64ToB256Bytes(n) == (n * 6) \div 8

\* The work buffer after values of so many bits have come in on top.
Loaded(values, from, work, bits) ==
    FoldLeftDomain(LAMBDA w, i : w + values[i] * 2^(bits + (i - 1) * from), work, values)

\* changeBase2: as many values as the bits make, and the rest if there is room.
ChangeBase2(src, from, room, to) ==
    LET Take(acc, v) ==
          LET work == Loaded(<<v>>, from, acc.work, acc.bits)
              n == (acc.bits + from) \div to
          IN [out |-> acc.out \o [i \in 1..n |-> (work \div 2^((i - 1) * to)) % 2^to],
              work |-> work \div 2^(n * to), bits |-> acc.bits + from - n * to]
        all == FoldLeft(Take, [out |-> <<>>, work |-> 0, bits |-> 0], src)
    IN IF all.bits # 0 /\ Len(all.out) < room THEN Append(all.out, all.work % 2^to)
       ELSE all.out

\* changeBase2Inline: one value for each call, and what the last call has left.
RECURSIVE Inline(_, _, _, _, _, _)
Inline(src, from, to, partial, work, bits) ==
    LET missing == IF bits < to THEN (to - bits + from - 1) \div from ELSE 0
        n == IF missing < Len(src) THEN missing ELSE Len(src)
        full == Loaded(SubSeq(src, 1, n), from, work, bits)
        rest == full \div 2^to
        left == bits + n * from - to
    IN <<full % 2^to>> \o
       (IF n < Len(src)
        THEN Inline(SubSeq(src, n + 1, Len(src)), from, to, partial, rest, left)
        ELSE IF left # 0 /\ partial THEN <<rest % 2^to>> ELSE <<>>)
ChangeBase2Inline(src, from, to, partial) == Inline(src, from, to, partial, 0, 0)

\* , - 0..9 A..Z a..z
B64ToAscii(v) == IF v > 37 THEN v + 97 - 38
                 ELSE IF v > 11 THEN v + 65 - 12
                 ELSE IF v < 2 THEN 44 + v ELSE v + 48 - 2
AsciiToB64(c) == IF c >= 97 THEN c + 38 - 97
                 ELSE IF c >= 65 THEN c + 12 - 65
                 ELSE IF c < 46 THEN c - 44 ELSE c - 48 + 2

Characters(src) == LET v == ChangeBase2Inline(src, 8, 6, TRUE)
                   IN [i \in 1..Len(v) |-> B64ToAscii(v[i])]
Unpacked(name) ==
    ChangeBase2Inline([i \in 1..Len(name) |-> AsciiToB64(name[i])], 6, 8, FALSE)

----------------------------------------------------------------------------
(* The sizes of coded names, with the two bytes of the checksum.  bs is 1  *)
(* for the stream coding, which does not pad.                              *)

Padding(bs, len) == IF bs = 1 THEN 0 ELSE bs - (len % bs)
EncodedLen(bs, len) == B256ToB64Bytes(len + 2 + Padding(bs, len))
MaxEncodedNameLen(bs, len) ==
    B256ToB64Bytes(2 + (IF bs = 1 THEN len ELSE ((len + bs) \div bs) * bs))
MaxDecodedNameLen(len) == B64ToB256Bytes(len) - 2
TooSmall(bs, len) == MaxDecodedNameLen(len) < bs

----------------------------------------------------------------------------
(* Properties.                                                             *)

\* The bits of what is to be encoded, from the low end.
Bit(i) == (bytes[i \div 8 + 1] \div 2^(i % 8)) % 2
Value(j) ==
    LET B(m) == IF 6 * (j - 1) + m < 8 * Len(bytes) THEN Bit(6 * (j - 1) + m) * 2^m ELSE 0
    IN B(0) + B(1) + B(2) + B(3) + B(4) + B(5)

\* Characters are the bits in groups of six, all of them and nothing else, none is a
\* separator or a dot, and they come back as the same bytes, with both forms of the
\* conversion (base64.cpp:25-110).
PacksExactly ==
    bytes # <<>> =>
      LET name == Characters(bytes)
          size == B256ToB64Bytes(Len(bytes))
      IN /\ Len(name) = size
         /\ \A j \in 1..size : AsciiToB64(name[j]) = Value(j) /\ name[j] \notin {46, 47, 92}
         /\ SubSeq(Unpacked(name), 1, B64ToB256Bytes(size)) = bytes
         /\ Len(Unpacked(name)) <= size
         /\ ChangeBase2(bytes, 8, size, 6) = ChangeBase2Inline(bytes, 8, 6, TRUE)

\* What recodePath asserts: a coded name fits the buffer made for it, and so does
\* what it decodes to, for names of any size in both codings (NameIO.cpp:204-214).
SizesFit ==
    \A bs \in {1, 8, 16}, len \in Lengths :
        LET size == EncodedLen(bs, len)
        IN /\ size <= MaxEncodedNameLen(bs, len)
           /\ ~TooSmall(bs, size)
           /\ MaxDecodedNameLen(size) = len + Padding(bs, len)
           /\ len <= MaxDecodedNameLen(size)
=============================================================================
