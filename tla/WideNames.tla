----------------------------- MODULE WideNames -----------------------------
(***************************************************************************)
(* What passes between Windows and the callbacks: names, which Windows has *)
(* in units of 16 bits and encfs in bytes, times and error codes           *)
(* (fuse4win's utils.cpp).  A name given by Windows is turned into bytes   *)
(* and, when its directory is listed, back.                                *)
(***************************************************************************)
EXTENDS Integers, Sequences, FiniteSets

CONSTANTS Units,     \* the units names are made of
          MaxUnits,  \* bound: the units in a name
          Leftovers, \* what a byte nobody has written may be
          Second, Epoch, IntBits \* file times in a second and at 1970; bits of an int

VARIABLE wide  \* a name as Windows has it

Failed == "failed"
Slash == 47
Backslash == 92

----------------------------------------------------------------------------
(* One character.                                                          *)

\* How put_utf8 reckons the length, and how many bytes its loop writes after the
\* first: it stops as soon as what is left has six bits, not as many as fit.
Utf8Length(c) == IF c < 2048 THEN 2 ELSE IF c < 65536 THEN 3 ELSE 4
Continuations(c) == CHOOSE n \in 1..3 : /\ c \div (64 ^ n) < 64
                                        /\ n > 1 => c \div (64 ^ (n - 1)) >= 64

\* The bytes before the first that is written keep what was there.
PutUtf8(c, left) ==
    LET len == Utf8Length(c)
        n == Continuations(c)
        room == 2 ^ (7 - n)
    IN IF c < 128 THEN <<c>>
       ELSE [k \in 1..len |->
               IF k > len - n THEN 128 + ((c \div (64 ^ (len - k))) % 64)
               ELSE IF k = len - n THEN 256 - room + ((c \div (64 ^ n)) % room)
               ELSE left]

\* The characters put_utf8 writes whole.
Whole(c) == c < 128 \/ Utf8Length(c) = Continuations(c) + 1

\* get_utf8: the length is in the first byte; what the others begin with is not looked at.
Utf8Announced(b) ==
    CASE b < 128 -> 1 [] b \in 192..223 -> 2 [] b \in 224..239 -> 3 [] b \in 240..247 -> 4
      [] b \in 248..251 -> 5 [] b \in 252..253 -> 6 [] OTHER -> 0
GetUtf8(s) ==
    LET len == Utf8Announced(s[1])
        bits == IF len = 1 THEN 7 ELSE 7 - len
        code[k \in 1..len] == IF k = 1 THEN s[1] % (2 ^ bits) ELSE code[k - 1] * 64 + (s[k] % 64)
    IN IF len = 0 \/ len > Len(s) THEN [len |-> 0] ELSE [len |-> len, char |-> code[len]]

HighUnit(u) == u \in 55296..56319
LowUnit(u) == u \in 56320..57343

\* get_utf16: a high and a low unit are one character, any other is one by itself.
GetUtf16(s) ==
    IF HighUnit(s[1]) /\ Len(s) > 1 /\ LowUnit(s[2])
      THEN [len |-> 2, char |-> 65536 + (s[1] - 55296) * 1024 + (s[2] - 56320)]
      ELSE [len |-> 1, char |-> s[1]]

PutUtf16(c) == IF c < 65536 THEN <<c>>
               ELSE <<55296 + (c - 65536) \div 1024, 56320 + ((c - 65536) % 1024)>>

----------------------------------------------------------------------------
(* convert_char, up to the byte 0 that ends a string.                      *)

\* wchar_to_utf8_cstr.
WideToUtf8(w, left) ==
    LET from[k \in 1..Len(w) + 1] ==
          IF k = Len(w) + 1 THEN <<>>
          ELSE LET r == GetUtf16(SubSeq(w, k, Len(w)))
               IN PutUtf8(r.char, left) \o from[k + r.len]
        all == from[1]
        zeros == {k \in DOMAIN all : all[k] = 0}
    IN IF zeros = {} THEN all
       ELSE SubSeq(all, 1, (CHOOSE k \in zeros : \A j \in zeros : k <= j) - 1)

\* utf8_to_wchar_buf; the name is empty when it fails or there is no room.
Utf8ToWideBuf(s, maxlen) ==
    LET from[k \in 1..Len(s) + 1] ==
          IF k = Len(s) + 1 THEN <<>>
          ELSE LET r == GetUtf8(SubSeq(s, k, Len(s)))
               IN IF r.len = 0 \/ (r.len > 0 /\ r.char >= 1114112) THEN Failed
                  ELSE IF from[k + r.len] = Failed THEN Failed
                  ELSE PutUtf16(r.char) \o from[k + r.len]
    IN IF from[1] = Failed \/ Len(from[1]) + 1 > maxlen THEN <<>> ELSE from[1]

\* unixify: the name an entry has in fuse4win's tables.
Unixify(s) ==
    LET slashed == [k \in DOMAIN s |-> IF s[k] = Backslash THEN Slash ELSE s[k]]
    IN IF Len(s) > 1 /\ slashed[Len(s)] = Slash THEN SubSeq(slashed, 1, Len(s) - 1) ELSE slashed

----------------------------------------------------------------------------
(* Times and errors.                                                       *)

AsInt(n) == LET m == n % (2 ^ IntBits) IN IF m < 2 ^ (IntBits - 1) THEN m ELSE m - 2 ^ IntBits

\* Int32x32To64 takes what it multiplies for an int.
UnixTimeToFiletime(t) == AsInt(t) * Second + Epoch
\* A time of 0 is none.
FiletimeToUnixTime(f) == IF f = 0 THEN 0 ELSE (f - Epoch) \div Second

\* errtable, in its order.
Errtable == <<
    <<1, "EINVAL">>, <<2, "ENOENT">>, <<3, "ENOENT">>, <<4, "EMFILE">>, <<5, "EACCES">>,
    <<6, "EBADF">>, <<7, "ENOMEM">>, <<8, "ENOMEM">>, <<9, "ENOMEM">>, <<10, "E2BIG">>,
    <<11, "ENOEXEC">>, <<12, "EINVAL">>, <<13, "EINVAL">>, <<15, "ENOENT">>, <<16, "EACCES">>,
    <<17, "EXDEV">>, <<18, "ENOENT">>, <<33, "EACCES">>, <<53, "ENOENT">>, <<65, "EACCES">>,
    <<67, "ENOENT">>, <<183, "EEXIST">>, <<80, "EEXIST">>, <<82, "EACCES">>, <<83, "EACCES">>,
    <<87, "EINVAL">>, <<89, "EAGAIN">>, <<108, "EACCES">>, <<109, "EPIPE">>, <<112, "ENOSPC">>,
    <<114, "EBADF">>, <<6, "EINVAL">>, <<128, "ECHILD">>, <<129, "ECHILD">>, <<130, "EBADF">>,
    <<131, "EINVAL">>, <<132, "EACCES">>, <<145, "ENOTEMPTY">>, <<158, "EACCES">>,
    <<161, "ENOENT">>, <<164, "EAGAIN">>, <<167, "EACCES">>, <<206, "ENOENT">>,
    <<215, "EAGAIN">>, <<1816, "ENOMEM">> >>
Rows(column, x) == {k \in DOMAIN Errtable : Errtable[k][column] = x}
First(rows) == CHOOSE k \in rows : \A j \in rows : k <= j

Win32ErrorToErrno(e) ==
    IF e = 0 THEN "ok" ELSE IF Rows(1, e) = {} THEN "EINVAL" ELSE Errtable[First(Rows(1, e))][2]
ErrnoToWin32Error(e) ==
    IF e = "ok" THEN 0 ELSE IF Rows(2, e) = {} THEN 1 ELSE Errtable[First(Rows(2, e))][1]

\* What the callbacks return besides what is in the table.
Errnos == {Errtable[k][2] : k \in DOMAIN Errtable} \cup {"EIO", "ENOTDIR", "EBUSY"}

----------------------------------------------------------------------------

Init == wide = <<>>
\* One unit more, or another name.
Next == \E u \in Units : wide' = IF Len(wide) < MaxUnits THEN Append(wide, u) ELSE <<u>>
Spec == Init /\ [][Next]_wide

----------------------------------------------------------------------------
(* Properties.                                                             *)

MaxPath == 260
Characters(w) ==
    {GetUtf16(SubSeq(w, k, Len(w))).char :
        k \in {j \in DOMAIN w : ~(j > 1 /\ HighUnit(w[j - 1]) /\ LowUnit(w[j]))}}
ComesBack(w) == \A left \in Leftovers : Utf8ToWideBuf(WideToUtf8(w, left), MaxPath) = w

\* "Rewrote utf8 conversion to support full Unicode" (src/web/encfs.html:83): a name
\* that Windows gives is listed as it was given.
NamesComeBack == ComesBack(wide)

\* Names do come back, even with halves of surrogate pairs, as long as put_utf8
\* writes the first byte of each of their characters (utils.cpp:60-193).
WholeNamesComeBack == (\A c \in Characters(wide) : Whole(c)) => ComesBack(wide)

\* A path has one name in the tables, whichever slashes Windows puts in it and after it
\* (utils.cpp:227-240).
PathsAgree ==
    LET s == WideToUtf8(wide, 0)
        other == [k \in DOMAIN s |-> IF s[k] = Slash THEN Backslash ELSE s[k]]
    IN /\ Unixify(other) = Unixify(s)
       /\ s # <<>> /\ s[Len(s)] \notin {Slash, Backslash}
            => Unixify(Append(s, Backslash)) = Unixify(s)

\* From 1970 for as long as an int lasts, a time that is set is the time that is
\* listed (utils.cpp:242-268).
TimesComeBack ==
    \A t \in 0..(2 ^ (IntBits - 1) - 1) : FiletimeToUnixTime(UnixTimeToFiletime(t)) = t

\* An error stays an error both ways, and one of the table the same (utils.cpp:273-341).
ErrorsStayErrors ==
    \A e \in Errnos :
        /\ ErrnoToWin32Error(e) # 0
        /\ Rows(2, e) # {} => Win32ErrorToErrno(ErrnoToWin32Error(e)) = e
=============================================================================
