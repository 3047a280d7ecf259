------------------------------- MODULE FuseIO -------------------------------
(***************************************************************************)
(* Reads, writes and changes of size of one file through its handles: the  *)
(* Dokan callbacks of fusemain.cpp over the byte-range locks of            *)
(* RangeLocks, and under them encfs.cpp's handlers on the one FileNode the *)
(* handles share.  FileNode's mutex makes each call of the file system one *)
(* action; the check of the locks and each chunk of a read are others, and *)
(* worker threads run in between.                                          *)
(*                                                                         *)
(* A byte of the file is the handle that wrote it.                         *)
(***************************************************************************)
EXTENDS RangeLocks, Sequences

CONSTANTS Threads,  \* Dokan worker threads
          MaxRead,  \* MAX_READ_SIZE
          MaxSize,  \* the largest file the callers make
          NoHandle, \* who wrote the bytes that fill a gap, and no handle at all
          Unsafe    \* what a run includes although it breaks the promise:
                    \* a subset of UnsafeCalls

ASSUME ReadAssumption ==
    MaxRead \in Nat \ {0} /\ MaxSize \in Nat /\ NoHandle \notin Handles

VARIABLES content,  \* the bytes of the file
          pending   \* each thread's call between its check and its end

iovars == <<listed, locks, content, pending>>

UnsafeCalls == {"granted in between"}  \* a range is locked while an access that
                                       \* was let through has not happened yet

None == [op |-> "none", handle |-> NoHandle, start |-> 0, len |-> 0, data |-> <<>>,
         guarded |-> FALSE]

Idle(t) == pending[t].op = "none"
Return(t) == pending' = [pending EXCEPT ![t] = None]
Busy(h) == \E t \in Threads : pending[t].handle = h
Least(a, b) == IF a < b THEN a ELSE b

Gap(n) == [i \in 1..n |-> NoHandle]
Resize(s, n) == IF n <= Len(s) THEN SubSeq(s, 1, n) ELSE s \o Gap(n - Len(s))
Overlay(s, off, data) ==
    LET b == IF off > Len(s) THEN Resize(s, off) ELSE s
    IN SubSeq(b, 1, off) \o data \o SubSeq(b, off + Len(data) + 1, Len(b))

IOInit ==
    /\ Init
    /\ content = <<>>
    /\ pending = [t \in Threads |-> None]

----------------------------------------------------------------------------
(* Opening and closing: the system closes a handle when no call uses it.   *)

Open(h) == AddFile(h) /\ UNCHANGED <<content, pending>>

\* Cleanup, the last handle of the callers being closed, does nothing: the ranges
\* of the handle stay locked until CloseFile.
Close(h) == ~Busy(h) /\ RemoveFile(h) /\ UNCHANGED <<content, pending>>

----------------------------------------------------------------------------
(* Locks.                                                                  *)

\* Reads and writes that were let through but are not done.
LetThrough(h, s, n) ==
    \E t \in Threads : /\ pending[t].handle \notin {h, NoHandle}
                       /\ Overlap([start |-> pending[t].start, len |-> pending[t].len], s, n)

Lock(h, s, n) ==
    /\ LetThrough(h, s, n) => "granted in between" \in Unsafe
    /\ LockFile(h, s, n)
    /\ UNCHANGED <<content, pending>>

\* What a read of h saw is no longer protected.
Unguarded(h) ==
    [t \in Threads |-> IF pending[t].handle = h THEN [pending[t] EXCEPT !.guarded = FALSE]
                       ELSE pending[t]]

Unlock(h, s, n) ==
    /\ UnlockFile(h, s, n)
    /\ pending' = Unguarded(h)
    /\ UNCHANGED content

----------------------------------------------------------------------------
(* read_file: encfs_read of chunk after chunk until there is no more.      *)

Covers(r, s, n) == r.start <= s /\ s + n <= End(r)

\* (Mutant: the check looks at the first byte.)
CheckLockFirst(h, s, n) == n > 0 /\ MayAccess(h, s, 1)
CheckLock(h, s, n) == MayAccess(h, s, n)

ReadFile(t, h, s, n) ==
    /\ Idle(t) /\ h \in listed
    /\ CheckLock(h, s, n)
    /\ pending' = [pending EXCEPT ![t] =
                     [op |-> "read", handle |-> h, start |-> s, len |-> n, data |-> <<>>,
                      guarded |-> \E r \in locks[h] : Covers(r, s, n)]]
    /\ UNCHANGED <<listed, locks, content>>

\* (Mutant: the offset does not move on.)
ChunkAgain(c) == SubSeq(content, c.start + 1, Least(c.start + MaxRead, Len(content)))
Chunk(c) ==
    LET from == c.start + Len(c.data)
    IN SubSeq(content, from + 1, Least(from + Least(c.len - Len(c.data), MaxRead), Len(content)))

ReadChunk(t) ==
    LET c == pending[t] IN
    /\ c.op = "read"
    /\ Len(c.data) < c.len /\ Chunk(c) # <<>>
    /\ pending' = [pending EXCEPT ![t].data = @ \o Chunk(c)]
    /\ UNCHANGED <<listed, locks, content>>

\* All was read, or the end of the file was reached, or encfs_read failed, which
\* it also does when the volume has been detached.
ReadEnd(t) ==
    /\ pending[t].op = "read"
    /\ Return(t)
    /\ UNCHANGED <<listed, locks, content>>

----------------------------------------------------------------------------
(* write_file: one encfs_write.                                            *)

WriteFile(t, h, s, n) ==
    /\ Idle(t) /\ h \in listed
    /\ s + n <= MaxSize
    /\ CheckLock(h, s, n)
    /\ pending' = [pending EXCEPT ![t] = [None EXCEPT !.op = "write", !.handle = h,
                                                      !.start = s, !.len = n]]
    /\ UNCHANGED <<listed, locks, content>>

\* It may fail after any of its bytes.
Write(t) ==
    LET c == pending[t] IN
    /\ c.op = "write"
    /\ \E k \in 0..c.len :
         content' = IF k = 0 THEN content
                    ELSE Overlay(content, c.start, [i \in 1..k |-> c.handle])
    /\ pending' = [Unguarded(c.handle) EXCEPT ![t] = None]
    /\ UNCHANGED <<listed, locks>>

----------------------------------------------------------------------------
(* set_end_of_file: getattr of the name, then ftruncate by the handle.  No *)
(* lock is asked for.                                                      *)

SetEndOfFile(t, h, n) ==
    /\ Idle(t) /\ h \in listed
    /\ pending' = [pending EXCEPT ![t] = [None EXCEPT !.op = "cut", !.handle = h, !.len = 0,
                                                      !.start = n]]
    /\ UNCHANGED <<listed, locks, content>>

FTruncate(t) ==
    /\ pending[t].op = "cut"
    /\ content' = Resize(content, pending[t].start)
    /\ pending' = [u \in Threads |-> IF u = t THEN None
                                     ELSE [pending[u] EXCEPT !.guarded = FALSE]]
    /\ UNCHANGED <<listed, locks>>

\* The name is not there, or ftruncate fails.
FTruncateFails(t) ==
    /\ pending[t].op = "cut"
    /\ Return(t)
    /\ UNCHANGED <<listed, locks, content>>

----------------------------------------------------------------------------

IONext ==
    \/ \E h \in Handles :
         \/ Open(h) \/ Close(h)
         \/ \E s \in Offsets, n \in Lengths :
              \/ Lock(h, s, n) \/ Unlock(h, s, n)
              \/ \E t \in Threads : ReadFile(t, h, s, n) \/ WriteFile(t, h, s, n)
         \/ \E t \in Threads, n \in 0..MaxSize : SetEndOfFile(t, h, n)
    \/ \E t \in Threads :
         ReadChunk(t) \/ ReadEnd(t) \/ Write(t) \/ FTruncate(t) \/ FTruncateFails(t)

IOSpec == IOInit /\ [][IONext]_iovars

----------------------------------------------------------------------------
(* Properties.                                                             *)

\* A byte in a range that a handle holds locked is changed by no other handle:
\* what it becomes is what the owner wrote, however reads, writes and requests
\* for locks interleave ("check locking", fusemain.cpp:540).
Protected ==
    \A h \in Handles : \A r \in locks[h] \cap locks'[h] :
      \A i \in 1..Least(Len(content), Len(content')) :
        r.start < i /\ i <= End(r) /\ content'[i] # content[i] => content'[i] = h
LockedBytesStay == [][Protected]_iovars

\* A read in chunks of a range its handle has locked all the while returns what
\* the file holds, as one read would (fusemain.cpp:500-513).
LockedReadWhole ==
    \A t \in Threads : LET c == pending[t] IN
        c.op = "read" /\ c.guarded =>
            \A k \in 1..Len(c.data) : /\ c.start + k <= Len(content)
                                       /\ c.data[k] = content[c.start + k]
=============================================================================
