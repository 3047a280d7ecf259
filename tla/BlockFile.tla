------------------------------ MODULE BlockFile ------------------------------
(***************************************************************************)
(* One open file of encfs: BlockFileIO (BlockIO) over CipherFileIO's       *)
(* encoding and file header, over the raw file.  A block is encoded as a   *)
(* whole, a full one by the block cipher and a shorter one by the stream   *)
(* cipher, so a raw byte says nothing without the rest of what was encoded *)
(* with it: the model keeps, in place of a cipher byte, which encoded      *)
(* buffer it is which byte of.  FileNode's mutex makes each call one       *)
(* action, except a rename, which leaves that mutex aside                  *)
(* (FileNode.cpp:126) and takes two steps.                                 *)
(***************************************************************************)
EXTENDS Integers, Sequences

CONSTANTS BS,       \* block size
          MaxSize,  \* the largest file the callers make
          Data,     \* the byte sequences callers write
          Sizes,    \* the sizes callers read
          Exts,     \* external IVs: one per path of the file, one each
          Volumes,  \* the volumes: [header |-> uniqueIV, holes |-> allowHoles]
          NoHdr,
          Unsafe    \* the calls a run includes although they break the promise: a
                    \* subset of UnsafeCalls

VARIABLES volume,   \* the configuration of this volume
          raw,      \* the raw file after its header
          hdr,      \* the raw header, NoHdr while the raw file is empty
          node,     \* what the node keeps: fileIV, externalIV and the cache
          moving,   \* the IV setIV is about to write back, 0 when it is not
          ret       \* the last call and what it returned

vars == <<volume, raw, hdr, node, moving, ret>>

UnsafeCalls == {"extend",             \* truncate beyond the end, without headers
                "stale hole",         \* truncate to a block boundary, with holes
                "unnoticed failure",  \* a raw write that fails inside truncate
              "refused cut",        \* a raw truncation that fails, where the last
                                    \* block is rewritten or the result is dropped
              "failed merge",       \* a raw read that fails inside write or truncate
              "short read",         \* a raw read that fails in a read of several blocks
              "unread header",      \* the read of a header fails
                "lost header",        \* the write of a new header fails
                "past end",           \* a read that starts beyond the end
                "to nothing",         \* truncate to 0, without headers
                "renaming"}           \* calls between the two steps of a rename

Unknown == 0   \* fileIV before initHeader
FileIV == 1    \* the IV drawn for this file
WrongIV == 2   \* what a header decoded with another external IV gives
Garbage == -1  \* a byte decoded from anything but what was encoded
Plenty == 2 * MaxSize + 2  \* more raw reads or writes than a call makes

\* A layer is written bytes, at least one: BlockFileIO passes an empty write on only
\* at the end of the file, where it changes nothing (BlockFileIO.cpp:199-208).
ASSUME BlockAssumption ==
    /\ BS \in Nat \ {0} /\ MaxSize \in Nat /\ Sizes \subseteq Nat
    /\ Data \subseteq Seq(Nat) \ {<<>>}
    /\ Volumes \subseteq [header : BOOLEAN, holes : BOOLEAN]
    /\ \A ext \in Exts : NoHdr # [iv |-> FileIV, ext |-> ext]

Zeros(n) == [i \in 1..n |-> 0]
Least(a, b) == IF a < b THEN a ELSE b
Most(a, b) == IF a < b THEN b ELSE a

----------------------------------------------------------------------------
(* Encoded buffers, byte by byte.                                          *)

Cells(blk, iv, plain) ==
    [i \in 1..Len(plain) |-> [blk |-> blk, iv |-> iv, plain |-> plain, at |-> i]]
Hole == [blk |-> 0, iv |-> 0, plain |-> <<>>, at |-> 0]  \* a 0 the system put there
Holes(n) == [i \in 1..n |-> Hole]

\* blockRead and streamRead: plain bytes come back only from one buffer, whole,
\* at its block and with its IV; a full block of zeros is a hole where allowed.
Decode(c, blk, iv) ==
    IF c = Cells(blk, iv, c[1].plain) THEN c[1].plain
    ELSE IF volume.holes /\ c = Holes(BS) THEN Zeros(BS)
    ELSE [i \in 1..Len(c) |-> Garbage]

----------------------------------------------------------------------------
(* The calls work on a file f, see BlockIO: here the raw file, the node,   *)
(* how many raw writes (left) and reads (reads) will still succeed, and    *)
(* whether raw truncations do (cuts).                                      *)

Current(left, reads, cuts) ==
    [raw |-> raw, hdr |-> hdr, iv |-> node.iv, ext |-> node.ext,
     cblk |-> node.cblk, cdata |-> node.cdata, ok |-> TRUE, threw |-> FALSE,
     uncut |-> FALSE, left |-> left, reads |-> reads, cuts |-> cuts]
Commit(f) ==
    /\ raw' = f.raw
    /\ hdr' = f.hdr
    /\ node' = [iv |-> f.iv, ext |-> f.ext, cblk |-> f.cblk, cdata |-> f.cdata]
    /\ UNCHANGED <<volume, moving>>

\* getSize: the header, when there is one, does not count.
Size(f) == Len(f.raw)

RawResize(c, n) == IF n <= Len(c) THEN SubSeq(c, 1, n) ELSE c \o Holes(n - Len(c))
RawWrite(f, off, c) ==
    IF f.left = 0 THEN [f EXCEPT !.ok = FALSE]
    ELSE LET r == RawResize(f.raw, Most(off, Len(f.raw)))
         IN [f EXCEPT !.raw = SubSeq(r, 1, off) \o c \o SubSeq(r, off + Len(c) + 1, Len(r)),
                      !.left = @ - 1, !.ok = TRUE]

\* The IV a header read gives: that of another path turns it to another.
HeaderIV(f) ==
    IF f.reads = 0 \/ f.hdr.ext # f.ext THEN WrongIV ELSE f.hdr.iv

\* (Mutant: the header drawn is not written.)
InitHeaderUnwritten(f) ==
    IF f.hdr # NoHdr
      THEN [f EXCEPT !.iv = HeaderIV(f), !.reads = Most(@ - 1, 0)]
      ELSE [f EXCEPT !.iv = FileIV]

\* initHeader reads the header if there is one, or draws the file's IV and
\* writes the header; it does not look whether that read or write succeeds.
InitHeader(f) ==
    IF f.hdr # NoHdr THEN [f EXCEPT !.iv = HeaderIV(f), !.reads = Most(@ - 1, 0)]
    ELSE IF f.raw # <<>> THEN [f EXCEPT !.iv = WrongIV]
    ELSE IF f.left = 0 THEN [f EXCEPT !.iv = FileIV]
    ELSE [f EXCEPT !.iv = FileIV, !.left = @ - 1,
                   !.hdr = [iv |-> FileIV, ext |-> f.ext]]
NeedHeader(f) == IF volume.header /\ f.iv = Unknown THEN InitHeader(f) ELSE f

\* readOneBlock, which always asks for a full block.
ReadOneBlock(f, blk) ==
    LET c == SubSeq(f.raw, blk * BS + 1, Least(blk * BS + BS, Len(f.raw)))
        g == NeedHeader([f EXCEPT !.reads = @ - 1])
    IN CASE f.reads = 0 -> [f |-> f, data |-> <<>>, failed |-> TRUE]
         [] f.reads # 0 /\ c = <<>> ->
              [f |-> [f EXCEPT !.reads = @ - 1], data |-> <<>>, failed |-> FALSE]
         [] OTHER -> [f |-> g, data |-> Decode(c, blk, g.iv), failed |-> FALSE]

\* writeOneBlock.
WriteOneBlock(f, blk, data) ==
    LET g == NeedHeader(f) IN RawWrite(g, blk * BS, Cells(blk, g.iv, data))

\* truncate of the raw file, which BlockFileIO is passed only where there is no
\* header.  compatwin.cpp does not cut a raw file to 0: it takes the position 0
\* for an error, whose code may be 0, that is none.
CutRaw(f, n) ==
    IF volume.header \/ n = 0 THEN f
    ELSE IF f.cuts THEN [f EXCEPT !.raw = RawResize(@, n)]
    ELSE [f EXCEPT !.uncut = TRUE]

IO == INSTANCE BlockIO WITH AllowHoles <- volume.holes, SizeOf <- Size,
        ReadOne <- ReadOneBlock, WriteOne <- WriteOneBlock, CutBase <- CutRaw

\* CipherFileIO::truncate cuts a raw file with a header itself, and does not look
\* whether that succeeds.
TruncateFile(f, n) ==
    LET g == IO!TruncateFile(NeedHeader(f), n)
    IN IF volume.header /\ f.cuts THEN [g EXCEPT !.raw = RawResize(@, n)] ELSE g

----------------------------------------------------------------------------
(* Actions.                                                                *)

Gave(call, data) == [call |-> call, ok |-> TRUE, data |-> data]
Ok(call) == Gave(call, <<>>)
Failed(call) == [call |-> call, ok |-> FALSE, data |-> <<>>]
NoCall == <<"none">>

Init ==
    /\ volume \in Volumes
    /\ raw = <<>>
    /\ hdr = NoHdr
    /\ node \in [iv : {Unknown}, ext : Exts, cblk : {0}, cdata : {<<>>}]
    /\ moving = 0
    /\ ret = Ok(NoCall)

\* During a rename only the calls of a run that includes them go on.
MayRun == moving # 0 => "renaming" \in Unsafe

\* Raw reads fail at once, after one block, or never.
Read ==
    /\ MayRun
    /\ \E off \in 0..MaxSize, n \in Sizes, reads \in {0, 1, Plenty} :
         /\ off < Len(raw) \/ "past end" \in Unsafe
         /\ reads # Plenty /\ ~(off % BS = 0 /\ n <= BS) => "short read" \in Unsafe
         /\ reads # Plenty /\ hdr # NoHdr /\ node.iv = Unknown => "unread header" \in Unsafe
         /\ LET r == IO!ReadFile(Current(Plenty, reads, TRUE), off, n)
                call == <<"read", off, n>>
            IN /\ Commit(r.f)
               /\ ret' = IF r.failed THEN Failed(call) ELSE Gave(call, r.data)

\* The first left raw writes succeed.
Write ==
    /\ MayRun
    /\ \E data \in Data, off \in 0..MaxSize, left \in {0, 1, Plenty}, reads \in {0, Plenty} :
         /\ off + Len(data) <= MaxSize
         /\ left = 0 /\ volume.header /\ hdr = NoHdr => "lost header" \in Unsafe
         /\ reads # Plenty => "failed merge" \in Unsafe
         /\ LET f == IO!WriteFile(Current(left, reads, TRUE), off, data)
                call == <<"write", off, data>>
            IN /\ Commit(f)
               /\ ret' = IF f.ok THEN Ok(call) ELSE Failed(call)

\* What padFile and the last block's rewriting meet is not reported.
Truncate ==
    /\ MayRun
    /\ \E n \in 0..MaxSize, left \in {0, 1, Plenty}, reads \in {0, Plenty}, cuts \in BOOLEAN :
         /\ left # Plenty => "unnoticed failure" \in Unsafe
         /\ reads # Plenty => "failed merge" \in Unsafe
         /\ ~cuts /\ n # Len(raw) /\ (volume.header \/ n % BS # 0) => "refused cut" \in Unsafe
         /\ n > Len(raw) /\ ~volume.header => "extend" \in Unsafe
         /\ n < Len(raw) /\ n % BS = 0 /\ volume.holes => "stale hole" \in Unsafe
         /\ n < Len(raw) /\ n = 0 /\ ~volume.header => "to nothing" \in Unsafe
         /\ LET f == TruncateFile(Current(left, reads, cuts), n)
                call == <<"truncate", n>>
            IN /\ Commit(f)
               /\ ret' = IF f.uncut THEN Failed(call) ELSE Ok(call)

\* setIV, on a rename: the new external IV is set, and the file's IV is shifted
\* out into the buffer writeHeader will write, leaving fileIV 0.
StartRename ==
    /\ moving = 0
    /\ volume.header
    /\ \E ext \in Exts \ {node.ext} :
         LET f == NeedHeader(Current(Plenty, Plenty, TRUE))
         IN /\ raw' = f.raw
            /\ hdr' = f.hdr
            /\ node' = [node EXCEPT !.ext = ext, !.iv = Unknown]
            /\ moving' = f.iv
    /\ ret' = Ok(NoCall)
    /\ UNCHANGED volume

\* (Mutant: writeHeader encodes fileIV after it has shifted it out.)
FinishRenameShifted ==
    /\ moving # 0
    /\ hdr' = [iv |-> node.iv, ext |-> node.ext]
    /\ moving' = 0
    /\ ret' = Ok(NoCall)
    /\ UNCHANGED <<volume, raw, node>>

\* writeHeader's write.
FinishRename ==
    /\ moving # 0
    /\ hdr' = [iv |-> moving, ext |-> node.ext]
    /\ moving' = 0
    /\ ret' = Ok(NoCall)
    /\ UNCHANGED <<volume, raw, node>>

\* Released by its last user and opened again under the same path.
Reopen ==
    /\ moving = 0
    /\ node' = [iv |-> Unknown, ext |-> node.ext, cblk |-> 0, cdata |-> <<>>]
    /\ ret' = Ok(NoCall)
    /\ UNCHANGED <<volume, raw, hdr, moving>>

Next == Read \/ Write \/ Truncate \/ StartRename \/ FinishRename \/ Reopen

Spec == Init /\ [][Next]_vars

----------------------------------------------------------------------------
(* Properties.                                                             *)

\* The blocks on disk, decoded with the IV the header keeps.
DiskIV == IF ~volume.header THEN Unknown ELSE IF hdr = NoHdr THEN WrongIV ELSE hdr.iv
BlockAt(blk) ==
    Decode(SubSeq(raw, blk * BS + 1, Least(blk * BS + BS, Len(raw))), blk, DiskIV)
Content ==
    LET block == [blk \in {(i - 1) \div BS : i \in 1..Len(raw)} |-> BlockAt(blk)]
    IN [i \in 1..Len(raw) |-> block[(i - 1) \div BS][((i - 1) % BS) + 1]]

Plain == INSTANCE PlainFile WITH content <- Content

\* Every variable has its type.
TypeOK ==
    /\ volume \in Volumes
    /\ Len(raw) <= MaxSize
    /\ hdr \in {NoHdr} \cup [iv : {FileIV, WrongIV}, ext : Exts]
    /\ node.iv \in {Unknown, FileIV, WrongIV} /\ node.ext \in Exts
    /\ node.cblk \in 0..MaxSize /\ Len(node.cdata) <= BS
    /\ moving \in {0, FileIV, WrongIV}

\* The encrypted file, through its cache, its padding, its header and its
\* reopening, is a plain file: what is on disk decodes to the bytes written, and
\* a read returns them (BlockFileIO.cpp:102-429, CipherFileIO.cpp:274-430).
IsPlainFile == Plain!Spec

\* Outside a rename the header on disk is the one the node's external IV
\* decodes, and the node's own IV is unknown or the header's
\* (CipherFileIO.cpp:101-150, 238-272).
HeaderMatches ==
    (volume.header /\ moving = 0) =>
        /\ hdr = NoHdr => raw = <<>>
        /\ hdr # NoHdr => hdr.ext = node.ext /\ node.iv \in {Unknown, hdr.iv}

\* A cached block that lies in the file holds what is on disk: the cache is
\* updated before the write and cleared if it fails (BlockFileIO.cpp:89-100).
CacheCoherent ==
    node.cdata # <<>> /\ node.cblk * BS < Len(raw) => node.cdata = BlockAt(node.cblk)
=============================================================================
