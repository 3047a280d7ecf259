---------------------------- MODULE ConfigCodec ----------------------------
(***************************************************************************)
(* The configuration files of versions 4 and 5, which EncFS writes itself: *)
(* ConfigVar's integers and strings, ConfigReader's file, and how what it  *)
(* says finds the implementation again: Interface, the registries of       *)
(* Cipher and NameIO, Range.                                               *)
(***************************************************************************)
EXTENDS Integers, SequencesExt

CONSTANTS Keys,     \* the names of the values, as bytes
          Ints,     \* the integers that are saved
          Strings,  \* and the strings, as bytes
          Sizes,    \* that a user asks for
          MaxSaves  \* so often the file is saved

VARIABLES vars,   \* what has been put in: from names to bytes
          file,   \* the bytes of the file, <<>> for none
          saved,  \* what was saved last
          saves   \* and how often

----------------------------------------------------------------------------
(* ConfigVar.                                                              *)

Digit(val, k) == (val \div 2^(7 * k)) % (IF k = 4 THEN 16 ELSE 128)
\* writeInt: seven bits in a byte, from the first that is not zero.
\* (Mutant: the mask of the third byte is the one in the comment.)
WriteIntCommented(val) ==
    LET D(k) == IF k = 2 THEN 2 * (Digit(val, 2) \div 2) ELSE Digit(val, k)
        top == CHOOSE k \in 0..4 : (k = 0 \/ D(k) # 0) /\ \A j \in (k + 1)..4 : D(j) = 0
    IN [i \in 1..(top + 1) |-> D((top + 1) - i) + IF i <= top THEN 128 ELSE 0]
WriteInt(val) ==
    LET top == CHOOSE k \in 0..4 :
                   (k = 0 \/ Digit(val, k) # 0) /\ \A j \in (k + 1)..4 : Digit(val, j) = 0
    IN [i \in 1..(top + 1) |-> Digit(val, (top + 1) - i) + IF i <= top THEN 128 ELSE 0]

\* readInt: to the first byte without the high bit, or the end; not if it is negative.
ReadInt(buf, at) ==
    LET last == CHOOSE i \in at..Len(buf) :
                    (buf[i] < 128 \/ i = Len(buf)) /\ \A j \in at..(i - 1) : buf[j] >= 128
        n == (last - at) + 1
        negative == n = 5 /\ (buf[at] % 128) >= 8
    IN IF at > Len(buf) \/ negative THEN [ok |-> FALSE, val |-> 0, at |-> at]
       ELSE [ok |-> TRUE, at |-> last + 1,
             val |-> FoldLeft(LAMBDA v, b : v * 128 + (b % 128), 0, SubSeq(buf, at, last))]

WriteString(bytes) == WriteInt(Len(bytes)) \o bytes
\* A string that is not there as a whole is an exception.
ReadString(buf, at) ==
    LET len == ReadInt(buf, at)
        next == len.at + len.val
    IN [ok |-> len.ok /\ next <= Len(buf) + 1, at |-> next, val |-> SubSeq(buf, len.at, next - 1)]

----------------------------------------------------------------------------
(* ConfigReader.                                                           *)

ToVar(v) ==
    LET names == SetToSeq(DOMAIN v)
    IN WriteInt(Len(names)) \o
       FlattenSeq([i \in 1..Len(names) |-> WriteString(names[i]) \o WriteString(v[names[i]])])

\* loadFromVar: the first value of a name stays; a name without a character fails.
LoadFromVar(in) ==
    LET num == ReadInt(in, 1)
        Entry(acc, i) ==
          LET key == ReadString(in, acc.at)
              val == ReadString(in, key.at)
          IN IF ~acc.ok THEN acc
             ELSE IF ~key.ok \/ ~val.ok \/ key.val = <<>> THEN [acc EXCEPT !.ok = FALSE]
             ELSE [acc EXCEPT !.at = val.at,
                     !.vars = [k \in DOMAIN @ \cup {key.val} |->
                                 IF k \in DOMAIN @ THEN @[k] ELSE val.val]]
    IN FoldLeft(Entry, [ok |-> num.ok, at |-> num.at, vars |-> <<>>],
                [i \in 1..num.val |-> i])

\* The descriptor is in text mode: a line feed is written as two bytes, and what is
\* read ends at 26 and makes one of them again.
Bytes(marked) == SelectSeq(marked, LAMBDA b : b >= 0)
AsText(bytes) ==
    Bytes([i \in 1..(2 * Len(bytes)) |->
             IF i % 2 = 0 THEN bytes[i \div 2] ELSE IF bytes[(i + 1) \div 2] = 10 THEN 13 ELSE -1])
FromText(bytes) ==
    LET end == {i \in 1..Len(bytes) : bytes[i] = 26}
        part == IF end = {} THEN bytes
                ELSE SubSeq(bytes, 1, (CHOOSE i \in end : \A j \in end : i <= j) - 1)
    IN Bytes([i \in 1..Len(part) |->
                IF part[i] = 13 /\ i < Len(part) /\ part[i + 1] = 10 THEN -1 ELSE part[i]])

\* load: a read of less than the size of the file fails.
Load ==
    IF Len(FromText(file)) # Len(file) THEN [ok |-> FALSE, vars |-> <<>>]
    ELSE LET in == LoadFromVar(FromText(file)) IN [ok |-> in.ok, vars |-> in.vars]

Init == vars = <<>> /\ file = <<>> /\ saved = <<>> /\ saves = 0

Put(key, bytes) ==
    /\ key \notin DOMAIN vars
    /\ vars' = [k \in DOMAIN vars \cup {key} |-> IF k = key THEN bytes ELSE vars[k]]
    /\ UNCHANGED <<file, saved, saves>>

\* save: the file is not emptied before, so what was longer keeps its end.
Save ==
    /\ vars # <<>> /\ saves < MaxSaves
    /\ LET out == AsText(ToVar(vars))
       IN file' = out \o SubSeq(file, Len(out) + 1, Len(file))
    /\ saved' = vars /\ vars' = <<>> /\ saves' = saves + 1

\* Another volume.
StartOver == saves > 0 /\ vars' = <<>> /\ file' = <<>> /\ saved' = <<>> /\ saves' = 0

Next ==
    \/ StartOver
    \/ \E key \in Keys, i \in Ints : Put(key, WriteInt(i))
    \/ \E key \in Keys, s \in Strings : Put(key, WriteString(s))
    \/ Save

----------------------------------------------------------------------------
(* What a configuration names.                                             *)

\* The algorithms, in the order of the names they are registered under.
CipherAlgorithms ==
    <<[title |-> "AES", name |-> "ssl/aes", current |-> 3, age |-> 2, hidden |-> FALSE,
       keys |-> <<128, 256, 64>>, blocks |-> <<64, 4096, 16>>, default |-> 192],
      [title |-> "Blowfish", name |-> "ssl/blowfish", current |-> 3, age |-> 2,
       hidden |-> FALSE, keys |-> <<128, 256, 32>>, blocks |-> <<64, 4096, 8>>, default |-> 160],
      [title |-> "Null", name |-> "nullCipher", current |-> 1, age |-> 0, hidden |-> TRUE,
       keys |-> <<0, 0, 1>>, blocks |-> <<1, 4096, 1>>, default |-> 0]>>
NameAlgorithms ==
    <<[title |-> "Block", name |-> "nameio/block", current |-> 3, age |-> 1, hidden |-> FALSE],
      [title |-> "Null", name |-> "nameio/null", current |-> 1, age |-> 0, hidden |-> FALSE],
      [title |-> "Stream", name |-> "nameio/stream", current |-> 2, age |-> 2, hidden |-> FALSE]>>

Implements(a, b) == a.name = b.name /\ (a.current - b.current) \in 0..a.age
\* Cipher::New, NameIO::New: the first that implements what is asked for, or none.
NewCipher(iface) == SelectSeq(CipherAlgorithms, LAMBDA a : Implements(a, iface))
NewNameIO(iface) == SelectSeq(NameAlgorithms, LAMBDA a : Implements(a, iface))
GetAlgorithmList == SelectSeq(CipherAlgorithms, LAMBDA a : ~a.hidden)

Allowed(range, value) ==
    value \in range[1]..range[2] /\ ((value - range[1]) % range[3]) = 0
\* closest: between two allowed values it adds how far it is from the least, rounded,
\* and tries again.  Never: it calls itself with the same value, for ever.
Never == -1
Rounded(range, value) == LET tmp == (value - range[1]) + (range[3] \div 2) IN tmp - (tmp % range[3])
RECURSIVE Closest(_, _)
Closest(range, value) ==
    IF Allowed(range, value) THEN value
    ELSE IF value < range[1] THEN range[1]
    ELSE IF value > range[2] THEN range[2]
    ELSE IF Rounded(range, value) = 0 THEN Never
    ELSE Closest(range, value + Rounded(range, value))

\* What the questions of the expert mode make of a number, and the menus of one; what
\* the other modes look for by name.
DefaultBlockSize == 1024
SelectKeySize(alg, answer) == Closest(alg.keys, answer)
SelectBlockSize(alg, answer) ==
    Closest(alg.blocks, IF answer >= alg.blocks[1] THEN answer ELSE DefaultBlockSize)
Select(algorithms, num) == SubSeq(algorithms, num, num)
FindCipherAlgorithm(title, size) ==
    SelectSeq(GetAlgorithmList, LAMBDA a : a.title = title /\ Allowed(a.keys, size))
\* NewAESCipher, NewBFCipher: the length of the keys of a cipher.
NewKeyLength(alg, size) == Closest(alg.keys, IF size <= 0 THEN alg.default ELSE size)

----------------------------------------------------------------------------
(* Properties.                                                             *)

\* What is loaded is what was saved, also over a longer file; nothing is loaded where
\* the bytes are not what text mode leaves alone (ConfigReader.cpp:46-146).
Altered(bytes) == {10, 26} \cap ToSet(bytes) # {}
SavedComesBack ==
    saved # <<>> =>
      IF Load.ok THEN Load.vars = saved /\ ~Altered(ToVar(saved)) ELSE Altered(file)

\* Integers up to 2^31 - 1 come back from any place, negative ones are refused
\* (ConfigVar.cpp:120-180).
Boundaries == {2^n : n \in 0..30} \cup {2^n - 1 : n \in 0..30} \cup {2^30 - 1 + 2^30, 10, -1}
IntsComeBack ==
  vars = <<>> =>
    \A i \in Boundaries : LET back == ReadInt(<<1>> \o WriteInt(i) \o <<1>>, 2) IN
        /\ back.ok <=> i >= 0
        /\ back.ok => back.val = i /\ back.at = Len(WriteInt(i)) + 2

\* An algorithm that is chosen is found again by the interface it writes, and for every
\* version it says it is compatible with; a size that is chosen is one the cipher
\* supports, and its keys have the length that was chosen.  Nothing is chosen, for
\* closest does not end, less than half an increment above the least.
FoundAgain ==
    vars = <<>> =>
      /\ \A num \in 1..3 :
           LET alg == Select(NameAlgorithms, num)
           IN \A c \in (alg[1].current - alg[1].age)..alg[1].current :
                NewNameIO([name |-> alg[1].name, current |-> c]) = alg
      /\ \A num \in 1..Len(GetAlgorithmList), s \in Sizes :
           LET alg == Select(GetAlgorithmList, num)[1]
               key == SelectKeySize(alg, s)
               block == SelectBlockSize(alg, s)
               Between(r) == (s - r[1]) \in 1..((r[3] \div 2) - 1)
           IN /\ \A c \in (alg.current - alg.age)..alg.current :
                    NewCipher([name |-> alg.name, current |-> c]) = <<alg>>
              /\ key = Never <=> Between(alg.keys)
              /\ block = Never <=> Between(alg.blocks)
              /\ key # Never => Allowed(alg.keys, key) /\ NewKeyLength(alg, key) = key
              /\ block # Never => Allowed(alg.blocks, block)
              /\ Allowed(alg.keys, s) => key = s /\ FindCipherAlgorithm(alg.title, s) = <<alg>>
      /\ \A size \in {192, 256} : FindCipherAlgorithm("AES", size) # <<>>
=============================================================================
