------------------------------- MODULE RawFile -------------------------------
(***************************************************************************)
(* RawFileIO, the lowest layer of an encfs file: one node's descriptors    *)
(* and the size it remembers, over a file of the operating system as       *)
(* compatwin.cpp reaches it.  The contents of the file is kept byte by     *)
(* byte; FileNode's mutex makes each call one action, except that an open  *)
(* which changes the file's permission for a moment takes three steps,     *)
(* between which others may look or the process may end.                   *)
(***************************************************************************)
EXTENDS Integers, Sequences

CONSTANTS Data,     \* the byte sequences the layer above writes
          Sizes,    \* the sizes it reads
          MaxSize,  \* the largest file it makes
          Unsafe    \* the calls a run includes although they break the promise:
                    \* a subset of UnsafeCalls

VARIABLES content,  \* the file
          mode,     \* its permission: "r" or "rw"
          asked,    \* the permission it was last given by chmod
          fd,       \* fd, oldfd and canWrite of the node
          known,    \* knownSize and fileSize
          open,     \* what open is doing: the flags while it has changed the mode
          handles,  \* the handles the process has open on the file
          ret       \* the last call and what it returned

vars == <<content, mode, asked, fd, known, open, handles, ret>>

UnsafeCalls == {"to nothing",  \* ftruncate to 0, which is not done and may return 0
                "elsewhere",   \* somebody else changes the file's size
                "ended"}       \* the process ends while open has changed the mode

NoFd == "none"
Access == {"r", "rw"}

Zeros(n) == [i \in 1..n |-> 0]
Least(a, b) == IF a < b THEN a ELSE b
Resize(s, n) == IF n <= Len(s) THEN SubSeq(s, 1, n) ELSE s \o Zeros(n - Len(s))
Overlay(s, off, data) ==
    LET end == off + Len(data)
        b == IF off > Len(s) THEN Resize(s, off) ELSE s
    IN SubSeq(b, 1, off) \o data \o SubSeq(b, end + 1, Len(b))

Gave(call, data) == [call |-> call, ok |-> TRUE, data |-> data]
Ok(call) == Gave(call, <<>>)
Failed(call) == [call |-> call, ok |-> FALSE, data |-> <<>>]
NoCall == <<"none">>

Idle == open = NoFd

Init ==
    /\ content = <<>>
    /\ mode \in Access /\ asked = mode
    /\ fd = [cur |-> NoFd, old |-> NoFd, canWrite |-> FALSE]
    /\ known = [is |-> FALSE, size |-> 0]
    /\ open = NoFd
    /\ handles = 0
    /\ ret = Ok(NoCall)

----------------------------------------------------------------------------
(* open.                                                                   *)

\* A descriptor is there that does for these flags.
Serves(flags) == fd.cur # NoFd /\ (fd.canWrite \/ flags = "r")

\* The handles behind the node's two descriptors.
Handle(d) == IF d = NoFd THEN 0 ELSE 1
Owned == Handle(fd.cur) + Handle(fd.old)

\* The descriptor before the new one is kept: it might still be in use.
Opened(flags) ==
    /\ fd' = [cur |-> flags, old |-> fd.cur, canWrite |-> flags = "rw"]
    /\ handles' = handles + 1

\* my_open: every access it asks for writes, so a read-only file refuses it.
\* It may also fail for another reason.
OpenCall(flags) ==
    /\ Idle /\ ~Serves(flags)
    /\ \/ mode = "rw" /\ Opened(flags) /\ UNCHANGED open
       \/ UNCHANGED <<fd, handles, open>>                 \* fails
       \/ mode = "r" /\ open' = flags /\ UNCHANGED <<fd, handles>>
    /\ ret' = Ok(NoCall)
    /\ UNCHANGED <<content, mode, asked, known>>

\* open_readonly_workaround: chmod, open, and chmod back.
WorkaroundGrant ==
    /\ ~Idle /\ mode = "r"
    /\ mode' = "rw"
    /\ ret' = Ok(NoCall)
    /\ UNCHANGED <<content, asked, fd, known, open, handles>>

WorkaroundOpen ==
    /\ ~Idle /\ mode = "rw"
    /\ open' = NoFd
    /\ mode' = asked
    /\ \/ Opened(open)
       \/ UNCHANGED <<fd, handles>>
    /\ ret' = Ok(NoCall)
    /\ UNCHANGED <<content, asked, known>>

\* encfs_chmod, which goes to the file by its name.
Chmod ==
    /\ Idle
    /\ \E m \in Access : mode' = m /\ asked' = m
    /\ ret' = Ok(NoCall)
    /\ UNCHANGED <<content, fd, known, open, handles>>

\* The node is destroyed: both descriptors are closed, and a new node knows
\* nothing of the file.
Destroy ==
    /\ Idle
    /\ handles' = handles - Owned
    /\ fd' = [cur |-> NoFd, old |-> NoFd, canWrite |-> FALSE]
    /\ known' = [is |-> FALSE, size |-> 0]
    /\ ret' = Ok(NoCall)
    /\ UNCHANGED <<content, mode, asked, open>>

\* The process ends and the volume is mounted again.
Ended ==
    /\ ~Idle => "ended" \in Unsafe
    /\ handles' = 0
    /\ fd' = [cur |-> NoFd, old |-> NoFd, canWrite |-> FALSE]
    /\ known' = [is |-> FALSE, size |-> 0]
    /\ open' = NoFd
    /\ ret' = Ok(NoCall)
    /\ UNCHANGED <<content, mode, asked>>

----------------------------------------------------------------------------
(* getSize, read, write and truncate.                                      *)

GetSize ==
    /\ Idle
    /\ IF known.is THEN UNCHANGED known /\ ret' = Gave(<<"size">>, <<known.size>>)
       ELSE \/ known' = [is |-> TRUE, size |-> Len(content)]
               /\ ret' = Gave(<<"size">>, <<Len(content)>>)
            \/ UNCHANGED known /\ ret' = Failed(<<"size">>)    \* lstat fails
    /\ UNCHANGED <<content, mode, asked, fd, open, handles>>

\* A descriptor opened for reading has only write access, so ReadFile fails.
Read ==
    /\ Idle /\ fd.cur # NoFd
    /\ \E off \in 0..MaxSize, n \in Sizes :
         \/ /\ fd.cur = "rw"
            /\ ret' = Gave(<<"read", off, n>>, SubSeq(content, off + 1, Least(off + n, Len(content))))
         \/ ret' = Failed(<<"read", off, n>>)
    /\ UNCHANGED <<content, mode, asked, fd, known, open, handles>>

\* The bytes that round after round of pwrite took: all of them, or fewer because
\* one failed or the ten rounds ran out.
Rounds(n) == {[done |-> n, failed |-> FALSE]} \cup [done : 0..(n - 1), failed : {TRUE}]

\* What is remembered of the size after a write.  (Mutant: it is not forgotten
\* when the write fails.)
KnownAfterKept(end, failed) ==
    [is |-> known.is, size |-> IF known.is /\ ~failed /\ end > known.size THEN end ELSE known.size]
KnownAfter(end, failed) ==
    [is |-> known.is /\ ~failed,
     size |-> IF known.is /\ ~failed /\ end > known.size THEN end ELSE known.size]

Write ==
    /\ Idle /\ fd.canWrite
    /\ \E off \in 0..MaxSize, data \in Data :
         /\ off + Len(data) <= MaxSize
         /\ \E r \in Rounds(Len(data)) :
              /\ content' = IF r.done = 0 THEN content
                            ELSE Overlay(content, off, SubSeq(data, 1, r.done))
              /\ known' = KnownAfter(off + Len(data), r.failed)
              /\ ret' = IF r.failed THEN Failed(<<"write", off, data>>)
                        ELSE Ok(<<"write", off, data>>)
    /\ UNCHANGED <<mode, asked, fd, open, handles>>

\* ftruncate of a descriptor that writes; otherwise truncate by name, which opens
\* the file for itself alone and fails if it is open or read-only.  Either takes
\* the position 0 for an error, and returns the last error's code, that may be 0.
CanCut == fd.canWrite \/ (fd.cur = NoFd /\ mode = "rw")
Truncate ==
    /\ Idle
    /\ \E n \in 0..MaxSize :
         \/ /\ CanCut /\ n # 0
            /\ content' = Resize(content, n)
            /\ known' = [is |-> TRUE, size |-> n]
            /\ ret' = Ok(<<"truncate", n>>)
         \/ /\ known' = [known EXCEPT !.is = FALSE]
            /\ UNCHANGED content
            /\ \/ ret' = Failed(<<"truncate", n>>)
               \/ n = 0 /\ CanCut /\ "to nothing" \in Unsafe /\ ret' = Ok(<<"truncate", n>>)
    /\ UNCHANGED <<mode, asked, fd, open, handles>>

\* Another node on the same file, or another program.
Elsewhere ==
    /\ "elsewhere" \in Unsafe
    /\ \E n \in 0..MaxSize : content' = Resize(content, n)
    /\ ret' = Ok(NoCall)
    /\ UNCHANGED <<mode, asked, fd, known, open, handles>>

Next ==
    \/ \E flags \in Access : OpenCall(flags)
    \/ WorkaroundGrant \/ WorkaroundOpen \/ Chmod \/ Destroy \/ Ended
    \/ GetSize \/ Read \/ Write \/ Truncate \/ Elsewhere

Spec == Init /\ [][Next]_vars

----------------------------------------------------------------------------
(* Properties.                                                             *)

Plain == INSTANCE PlainFile
           WITH ret <- IF ret.call = <<"size">> THEN Ok(NoCall) ELSE ret

\* Every variable has its type.
TypeOK ==
    /\ content \in Seq(Nat) /\ Len(content) <= MaxSize
    /\ mode \in Access /\ asked \in Access
    /\ fd \in [cur : Access \cup {NoFd}, old : Access \cup {NoFd}, canWrite : BOOLEAN]
    /\ known \in [is : BOOLEAN, size : 0..MaxSize]
    /\ open \in Access \cup {NoFd}
    /\ handles \in Int

\* The size that getSize remembers is the file's, after every sequence of opens,
\* writes that stop half-way and truncations that fail: the layers above compute
\* the last block and the padding from it (RawFileIO.cpp:203-300).
KnownSize == known.is => known.size = Len(content)

\* Every handle the process has on the file is one the node will close, and a
\* node with two descriptors opens no third, which would leak one
\* (RawFileIO.cpp:143-170, "leaking FD?").
NeverLeaks ==
    /\ handles = Owned
    /\ fd.old # NoFd => \A flags \in Access : Serves(flags)

\* A permission that open changed to get in is as it was when open returns,
\* whether the open succeeded or not (RawFileIO.cpp:91-118).
ModeRestored == Idle => mode = asked

\* To the layer above, whatever it does with descriptors, it is a plain file;
\* a write that fails has done its first bytes.
IsPlainFile == Plain!Spec
=============================================================================
