------------------------------ MODULE PlainFile ------------------------------
(***************************************************************************)
(* What an encrypted file promises its callers: it behaves as a file that  *)
(* holds the plain bytes.  A read returns the bytes asked for as far as    *)
(* they exist, a write replaces bytes and fills the gap it leaves with     *)
(* zeros, a truncation cuts or pads with zeros.  A read or a truncation    *)
(* that fails has done nothing, a write its work up to some point.         *)
(***************************************************************************)
EXTENDS Integers, Sequences

CONSTANTS Data,     \* the byte sequences callers write
          Sizes,    \* the sizes callers read
          MaxSize   \* the largest file the callers make

VARIABLES content,  \* the plain bytes
          ret       \* the last call and what it returned

vars == <<content, ret>>

Zeros(n) == [i \in 1..n |-> 0]
Least(a, b) == IF a < b THEN a ELSE b
Slice(s, off, n) == SubSeq(s, off + 1, Least(off + n, Len(s)))

Cut(s, n) == IF n <= Len(s) THEN SubSeq(s, 1, n) ELSE s \o Zeros(n - Len(s))

\* s with data written at off.
Overlay(s, off, data) ==
    LET end == off + Len(data)
        base == IF off > Len(s) THEN Cut(s, off) ELSE s
    IN SubSeq(base, 1, off) \o data \o SubSeq(base, end + 1, Len(base))

\* The first n bytes of new, then what old has after them.
UpTo(n, new, old) == SubSeq(new, 1, n) \o SubSeq(old, n + 1, Len(old))

\* A call and what it returned.
Gave(call, data) == [call |-> call, ok |-> TRUE, data |-> data]
Ok(call) == Gave(call, <<>>)
Failed(call) == [call |-> call, ok |-> FALSE, data |-> <<>>]
NoCall == <<"none">>

Init == content = <<>> /\ ret = Ok(NoCall)

Read(off, n) ==
    /\ \/ ret' = Gave(<<"read", off, n>>, Slice(content, off, n))
       \/ ret' = Failed(<<"read", off, n>>)
    /\ UNCHANGED content

Write(off, data) ==
    \/ /\ ret' = Ok(<<"write", off, data>>)
       /\ content' = Overlay(content, off, data)
    \/ /\ ret' = Failed(<<"write", off, data>>)
       /\ \E n \in 0..(off + Len(data)) :
            content' = UpTo(n, Overlay(content, off, data), content)

Truncate(n) ==
    \/ ret' = Ok(<<"truncate", n>>) /\ content' = Cut(content, n)
    \/ ret' = Failed(<<"truncate", n>>) /\ UNCHANGED content

\* Opening the file again and renaming it leave it alone.
Other == ret' = Ok(NoCall) /\ UNCHANGED content

Next ==
    \/ \E off \in 0..MaxSize, n \in Sizes : Read(off, n)
    \/ \E off \in 0..MaxSize, data \in Data : Write(off, data)
    \/ \E n \in 0..MaxSize : Truncate(n)
    \/ Other

Spec == Init /\ [][Next]_vars
=============================================================================
