------------------------------ MODULE Ciphers ------------------------------
(***************************************************************************)
(* SSL_Cipher: the passes of the stream and block codings, and the keys    *)
(* made of a password.  The cipher and the digests of OpenSSL are ideal: a *)
(* byte is a set of terms, to add two is to take what is in one of them    *)
(* only, and what the cipher adds is a term that nothing else makes.       *)
(***************************************************************************)
EXTENDS Integers, SequencesExt

CONSTANTS CB,      \* the size of a cipher block (_ivLength)
          Group,   \* and of the buffer of flipBytes
          Digest,  \* and of a digest
          MaxSize, \* of what is encoded
          Ifaces,  \* the versions of the cipher's interface
          Narrow,  \* how many initialization vectors there are in 32 bits
          Wide,    \* and in 64
          Wanted,  \* the time a key derivation should take
          Times,   \* what it may take
          MaxIter  \* and at most so many iterations

VARIABLES size,   \* of what is encoded
          count,  \* the iterations the configuration says: 0 for a new password
          trial,  \* those of the derivation under way
          made    \* the iterations the key in hand was made with

vars == <<size, count, trial, made>>

----------------------------------------------------------------------------
(* The stream coding: two passes of the cipher.                            *)

Term(seed, block, at) == {<<seed, block, at>>}
Plus(a, b) == (a \ b) \cup (b \ a)
Data(n) == [i \in 1..n |-> Term(-1, <<>>, i)]

\* Up to version 2 only the low half of the initialization vector counts.
SetIVec(iface, iv) == IF iface >= 3 THEN iv ELSE iv % Narrow
Succ(iv) == (iv + 1) % Wide

\* What cipher feedback adds to a byte: it depends on the cipher block before it.
Pad(ivec, coded, i) ==
    LET before == ((i - 1) \div CB) * CB IN
    IF before = 0 THEN Term(ivec, <<>>, i)
    ELSE Term(-2, SubSeq(coded, before - CB + 1, before), i - before)
Encrypt(ivec, buf) ==
    FoldLeftDomain(LAMBDA out, i : Append(out, Plus(buf[i], Pad(ivec, out, i))), <<>>, buf)
Decrypt(ivec, buf) == [i \in 1..Len(buf) |-> Plus(buf[i], Pad(ivec, buf, i))]

FlipBytes(buf) ==
    [i \in 1..Len(buf) |->
        LET first == ((i - 1) \div Group) * Group + 1
            last == IF first + Group - 1 < Len(buf) THEN first + Group - 1 ELSE Len(buf)
        IN buf[first + last - i]]

ShuffleBytes(buf) ==
    FoldLeftDomain(LAMBDA out, i : Append(out, IF i = 1 THEN buf[1] ELSE Plus(buf[i], out[i - 1])),
                   <<>>, buf)
\* (Mutant: from the front.)
UnshuffleBytesForward(buf) == ShuffleBytes(buf)
UnshuffleBytes(buf) ==
    [i \in 1..Len(buf) |-> IF i = 1 THEN buf[1] ELSE Plus(buf[i], buf[i - 1])]

StreamEncode(iface, iv, buf) ==
    LET first == Encrypt(SetIVec(iface, iv), ShuffleBytes(buf))
    IN Encrypt(SetIVec(iface, Succ(iv)), ShuffleBytes(FlipBytes(first)))
StreamDecode(iface, iv, buf) ==
    LET first == FlipBytes(UnshuffleBytes(Decrypt(SetIVec(iface, Succ(iv)), buf)))
    IN UnshuffleBytes(Decrypt(SetIVec(iface, iv), first))

(* The block coding: one cipher block after the other, each added to the   *)
(* one before.  A size that is not theirs is refused.                      *)

WholeBlocks(buf) == Len(buf) % CB = 0
Block(buf, k) == SubSeq(buf, k * CB + 1, (k + 1) * CB)
PlusBlock(a, b) == [i \in 1..CB |-> Plus(a[i], b[i])]
Before(ivec, buf, k) ==
    IF k = 0 THEN [i \in 1..CB |-> Term(ivec, <<>>, -i)] ELSE Block(buf, k - 1)
Permuted(block) == [i \in 1..CB |-> Term(-3, block, i)]
Unpermuted(block) == (CHOOSE t \in block[1] : TRUE)[2]

Blocks(buf) == [k \in 1..(Len(buf) \div CB) |-> Block(buf, k - 1)]
BlockEncode(iface, iv, buf) ==
    FoldLeftDomain(LAMBDA out, k :
                     out \o Permuted(PlusBlock(Blocks(buf)[k],
                                               Before(SetIVec(iface, iv), out, k - 1))),
                   <<>>, Blocks(buf))
BlockDecode(iface, iv, buf) ==
    FlattenSeq([k \in 1..Len(Blocks(buf)) |->
        PlusBlock(Unpermuted(Blocks(buf)[k]), Before(SetIVec(iface, iv), buf, k - 1))])

----------------------------------------------------------------------------
(* Keys.                                                                   *)

\* BytesToKey: digest after digest, first for the key and then for the vector.
TakeOf(d, from, n) == SubSeq(d, from + 1, from + n)
Smaller(a, b) == IF a < b THEN a ELSE b
RECURSIVE FromDigests(_, _, _, _)
FromDigests(nkey, niv, n, acc) ==
    LET digest == [i \in 1..Digest |-> <<n, i>>]
        k == Smaller(nkey, Digest)
        v == Smaller(niv, Digest - k)
        now == [key |-> acc.key \o TakeOf(digest, 0, k), iv |-> acc.iv \o TakeOf(digest, k, v)]
    IN IF nkey = k /\ niv = v THEN now ELSE FromDigests(nkey - k, niv - v, n + 1, now)
BytesToKey(nkey, niv) == FromDigests(nkey, niv, 1, [key |-> <<>>, iv |-> <<>>])

Init ==
    /\ size = 1
    /\ count = 0 /\ trial = 0 /\ made = 0

\* newKey with a new password: TimedPBKDF2 tries again until it takes long enough.
Begin ==
    /\ count = 0 /\ trial = 0
    /\ trial' = 1 /\ made' = 0
    /\ UNCHANGED <<size, count>>

Derive(delta) ==
    /\ trial > 0
    /\ made' = trial
    /\ IF delta < Wanted \div 8
       THEN trial' = trial * 4 /\ UNCHANGED count
       ELSE IF delta < (5 * Wanted) \div 6
       THEN trial' = (trial * Wanted) \div delta /\ UNCHANGED count
       ELSE count' = trial /\ trial' = 0
    /\ trial' <= MaxIter
    /\ UNCHANGED size

\* newKey with the count of the configuration.
Known ==
    /\ count > 0
    /\ made' = count
    /\ UNCHANGED <<size, count, trial>>

\* A new password: kdfIterations = 0.
NewPassword ==
    /\ count > 0
    /\ count' = 0
    /\ UNCHANGED <<size, trial, made>>

Longer ==
    /\ size < MaxSize
    /\ size' = size + 1
    /\ UNCHANGED <<count, trial, made>>

Next == Longer \/ Begin \/ (\E d \in Times : Derive(d)) \/ Known \/ NewPassword

----------------------------------------------------------------------------
(* Properties.                                                             *)

\* What either coding makes of data of any size, with any initialization vector, comes
\* back as it was (SSL_Cipher.cpp:790-933).
Inverts ==
    \A iface \in Ifaces, iv \in {0, Narrow - 1, Wide - 1} :
      LET buf == Data(size) IN
        /\ StreamDecode(iface, iv, StreamEncode(iface, iv, buf)) = buf
        /\ WholeBlocks(buf) => BlockDecode(iface, iv, BlockEncode(iface, iv, buf)) = buf

\* Another initialization vector gives other bytes, unless the two agree in what an
\* old version keeps of them.
TellsApart ==
    \A iface \in Ifaces, a, b \in 0..(Wide - 1) :
      StreamEncode(iface, a, Data(size)) = StreamEncode(iface, b, Data(size)) =>
        SetIVec(iface, a) = SetIVec(iface, b)

\* "This produces the same result as OpenSSL's EVP_BytesToKey" (SSL_Cipher.cpp:66): the
\* digests one after the other, the key from the front and the vector behind it.
BytesAsOpenSSL ==
    \A nkey \in 1..(2 * Digest + 1), niv \in 0..(Digest + 1) :
      LET all == BytesToKey(nkey, niv).key \o BytesToKey(nkey, niv).iv
      IN all = [i \in 1..(nkey + niv) |->
                <<((i - 1) \div Digest) + 1, ((i - 1) % Digest) + 1>>]

\* The count that is kept makes the key again that the password was saved with.
SameKeyAgain == count > 0 => made = count
=============================================================================
