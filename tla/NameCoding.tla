----------------------------- MODULE NameCoding -----------------------------
(***************************************************************************)
(* NameIO and its three codings, with the listing of DirNode: how a path   *)
(* is coded name by name, each under the initialization vector the names   *)
(* before it have left, and how a directory's entries are decoded.  The    *)
(* cipher is ideal: what another seed opens is garbage, and a MAC tells    *)
(* everything apart that went into it.                                     *)
(***************************************************************************)
EXTENDS Integers, SequencesExt

CONSTANTS Names,       \* what plain files are called
          Alien,       \* the name of a file no coding has made
          Garbage,     \* what comes out under the wrong seed
          Sep, Dot,    \* "/", and "." or ".."
          MaxDepth, MaxEntries, MaxTokens

VARIABLES coder,  \* the coding and the options of the volume
          path,   \* the directory as it is called from outside
          dir     \* its entries on the disk, in the order of readdir

vars == <<coder, path, dir>>

Coders == [kind : {"stream"}, iface : 0..2, chained : BOOLEAN, reverse : BOOLEAN]
            \cup [kind : {"block"}, iface : 2..3, chained : BOOLEAN, reverse : BOOLEAN]
            \cup [kind : {"null"}, iface : {1}, chained : BOOLEAN, reverse : BOOLEAN]

----------------------------------------------------------------------------
(* One name.                                                               *)

\* MAC_16, and what it makes of the vector it is given.
Mac(text, iv) == <<text, iv>>
Chained(iv, text) == IF coder.chained THEN Append(iv, text) ELSE iv

IsCoded(name) == name \notin Names \cup {Alien, Garbage, Sep, Dot}
Sealed(text, seed, mac) == [mac |-> mac, text |-> text, seed |-> seed]
Opened(name, seed) == IF IsCoded(name) /\ name.seed = seed THEN name.text ELSE Garbage
MacOf(name) == IF IsCoded(name) THEN name.mac ELSE Mac(Alien, <<>>)
Coded(ok, name, iv) == [ok |-> ok, name |-> name, iv |-> iv]

\* The stream coding: before version 2 the vector counts in the MAC alone.
StreamSeed(mac, iv) == <<mac, IF coder.iface >= 2 THEN iv ELSE <<>>>>
StreamEncode(text, iv) ==
    LET mac == Mac(text, iv)
    IN Coded(TRUE, Sealed(text, StreamSeed(mac, iv), mac), Chained(iv, text))
StreamDecode(name, iv) ==
    LET mac == MacOf(name)
        text == Opened(name, StreamSeed(mac, iv))
    IN Coded(Mac(text, iv) = mac, text, Chained(iv, text))

\* The block coding: the MAC is one of the name with its padding, and the vector
\* counts in the seed from version 3 on.
Padded(text) == <<text, "padded">>
BlockSeed(mac, iv) == <<mac, IF coder.iface >= 3 THEN iv ELSE <<>>>>
BlockEncode(text, iv) ==
    LET mac == Mac(Padded(text), iv)
    IN Coded(TRUE, Sealed(Padded(text), BlockSeed(mac, iv), mac), Chained(iv, Padded(text)))
BlockDecode(name, iv) ==
    LET mac == MacOf(name)
        text == Opened(name, BlockSeed(mac, iv))
    IN IF text = Garbage THEN Coded(FALSE, text, iv)
       ELSE Coded(Mac(text, iv) = mac, text[1], Chained(iv, text))

\* No coding, and the vector is left alone.
NullEncode(text, iv) == Coded(TRUE, text, iv)
NullDecode(name, iv) == Coded(TRUE, name, iv)

EncodeName(text, iv) ==
    CASE coder.kind = "stream" -> StreamEncode(text, iv)
      [] coder.kind = "block" -> BlockEncode(text, iv)
      [] OTHER -> NullEncode(text, iv)
DecodeName(name, iv) ==
    CASE coder.kind = "stream" -> StreamDecode(name, iv)
      [] coder.kind = "block" -> BlockDecode(name, iv)
      [] OTHER -> NullDecode(name, iv)

----------------------------------------------------------------------------
(* A path.                                                                 *)

\* recodePath: leading separators go, others and dots stay, the first name that fails
\* is an exception, with the vector as it is by then.
RecodePath(tokens, start, decode) ==
    LET Take(acc, token) ==
          IF ~acc.ok THEN acc
          ELSE IF token = Sep /\ acc.name = <<>> THEN acc
          ELSE IF token \in {Sep, Dot} THEN [acc EXCEPT !.name = Append(@, token)]
          ELSE LET one == IF decode THEN DecodeName(token, acc.iv)
                             ELSE EncodeName(token, acc.iv)
               IN [ok |-> one.ok, iv |-> one.iv, name |-> Append(acc.name, one.name)]
    IN FoldLeft(Take, [ok |-> TRUE, name |-> <<>>, iv |-> start], tokens)

\* A volume in reverse shows what is on the disk encoded.
EncodePath(tokens, iv) == RecodePath(tokens, iv, coder.reverse)
DecodePath(tokens, iv) == RecodePath(tokens, iv, ~coder.reverse)

----------------------------------------------------------------------------
(* A directory.                                                            *)

\* openDir: the vector of this level, from 0 at the root.
DirIV(tokens) == IF coder.chained THEN EncodePath(tokens, <<>>).iv ELSE <<>>

\* (Mutant: the entries are decoded with one vector, which each of them advances.)
DecodeEntriesShared(iv) ==
    FoldLeft(LAMBDA acc, e : LET d == DecodePath(<<e>>, acc.iv)
                             IN [out |-> Append(acc.out, d), iv |-> d.iv],
             [out |-> <<>>, iv |-> iv], dir).out
\* nextPlaintextName, until it says there are no more, with a copy of the vector each time.
DecodeEntries(iv) == [i \in 1..Len(dir) |-> DecodePath(<<dir[i]>>, iv)]
Listed(i) == DecodeEntries(DirIV(path))[i].ok
PlaintextName(i) == DecodeEntries(DirIV(path))[i].name
\* nextInvalid: the others.
InvalidNames == {dir[i] : i \in {j \in 1..Len(dir) : ~Listed(j)}}

\* A name in a directory, and its path.
In(tokens, name) == tokens \o <<Sep, name>>
EntryOf(tokens) == Last(EncodePath(tokens, <<>>).name)

Init == coder \in Coders /\ path = <<>> /\ dir = <<>>

\* Into a directory that is listed, which is empty by then.
Enter(i) ==
    /\ Listed(i) /\ Len(path) < 2 * MaxDepth
    /\ path' = In(path, PlaintextName(i)[1])
    /\ dir' = <<>>
    /\ UNCHANGED coder

Room(entry) == Len(dir) < MaxEntries /\ entry \notin ToSet(dir)

\* A file is made through the volume (in reverse, on the disk).
Create(name) ==
    LET entry == IF coder.reverse THEN name ELSE EntryOf(In(path, name)) IN
    /\ Room(entry)
    /\ dir' = Append(dir, entry)
    /\ UNCHANGED <<coder, path>>

\* An encoded file is moved here without the volume, from another directory.
Elsewhere == {In(In(<<>>, n), m) : n, m \in Names} \cup {In(<<>>, n) : n \in Names}
Bring ==
    /\ ~coder.reverse
    /\ \E entry \in {EntryOf(p) : p \in Elsewhere} \cup {Alien} :
         Room(entry) /\ dir' = Append(dir, entry)
    /\ UNCHANGED <<coder, path>>

StartOver == dir # <<>> /\ path' = <<>> /\ dir' = <<>> /\ UNCHANGED coder

Next == StartOver \/ (\E i \in 1..Len(dir) : Enter(i)) 
          \/ (\E n \in Names : Create(n)) \/ Bring

----------------------------------------------------------------------------
(* Properties.                                                             *)

\* What is listed leads back to the entry it was listed for, and an entry the volume
\* has made here is listed (DirNode.cpp:123-140 and 413-439, NameIO.cpp:176-225).
ListedLeadsBack ==
    \A i \in 1..Len(dir) :
      /\ Listed(i) =>
           LET code == EncodePath(In(path, PlaintextName(i)[1]), <<>>)
           IN code.ok /\ Last(code.name) = dir[i]
      /\ (\E n \in Names : ~coder.reverse /\ dir[i] = EntryOf(In(path, n))) => Listed(i)

\* With chained vectors an entry of another directory is not listed but reported as
\* invalid, for it has no name here that leads to it.
WrongDirectoryRefused ==
    coder.chained /\ coder.kind # "null" /\ ~coder.reverse =>
        \A p \in Elsewhere :
          LET entry == EntryOf(p) IN
          entry \in ToSet(dir) =>
            (entry \in InvalidNames <=> p \notin {In(path, n) : n \in Names})

\* Paths of any form come back as they were, but for the separators they begin with.
WellFormed(tokens) ==
    \A i \in 1..(Len(tokens) - 1) : tokens[i] = Sep \/ tokens[i + 1] = Sep
Unrooted(tokens) ==
    LET F == {i \in 1..Len(tokens) : tokens[i] # Sep}
    IN IF F = {} THEN <<>>
       ELSE SubSeq(tokens, CHOOSE i \in F : \A j \in F : i <= j, Len(tokens))
PathsComeBack ==
    dir = <<>> /\ path = <<>> /\ ~coder.reverse =>
        \A tokens \in UNION {[1..n -> Names \cup {Sep, Dot}] : n \in 0..MaxTokens} :
          WellFormed(tokens) =>
            LET iv == <<>>
                code == EncodePath(tokens, iv)
            IN DecodePath(code.name, iv).name = Unrooted(tokens)
=============================================================================
