----------------------------- MODULE RangeLocks -----------------------------
(***************************************************************************)
(* The byte-range locks of one impl_file_lock (fusemain.cpp): each handle  *)
(* of the path keeps a map from the start of a locked range to its length. *)
(* lock_file, unlock_file, the check read_file and write_file make, the    *)
(* addition of a handle and its destruction each run inside the object's   *)
(* critical section, so each is one action.                                *)
(***************************************************************************)
EXTENDS Integers

CONSTANTS Handles,  \* the handles that may be open on the path
          Offsets,  \* the byte offsets locks start at
          Lengths   \* the lengths callers pass, positive or not

\* Offsets is a finite set of naturals, said the way the proofs use it: every
\* nonempty part of it has a least and a greatest element.
ASSUME OffsetsAssumption ==
    /\ Offsets \subseteq Nat
    /\ Lengths \subseteq Int
    /\ \A S \in SUBSET Offsets : S # {} =>
         /\ \E lo \in S : \A x \in S : lo <= x
         /\ \E hi \in S : \A x \in S : x <= hi

VARIABLES listed,  \* the handles in the object's list
          locks    \* impl_file_handle::locks, a set of [start, len] per handle

vars == <<listed, locks>>

End(r) == r.start + r.len
Overlap(r, s, n) == r.start < s + n /\ s < End(r)

----------------------------------------------------------------------------
(* The search lock_file makes in one handle's map: lower_bound(start) gives *)
(* the first range that starts at or after ours, and only that one and the  *)
(* one before it are looked at.                                             *)

After(R, s) == {r \in R : r.start >= s}
Before(R, s) == {r \in R : r.start < s}

HitsNext(R, s, n) ==
    \E j \in After(R, s) : /\ \A k \in After(R, s) : j.start <= k.start
                           /\ n > j.start - s
\* (Mutant: a range that ends where ours starts counts.)
HitsPreviousTouching(R, s) ==
    \E j \in Before(R, s) : /\ \A k \in Before(R, s) : k.start <= j.start
                            /\ j.len >= s - j.start
HitsPrevious(R, s) ==
    \E j \in Before(R, s) : /\ \A k \in Before(R, s) : k.start <= j.start
                            /\ j.len > s - j.start
\* (Mutant: the range before ours is not looked at.)
ConflictNextOnly(R, s, n) == HitsNext(R, s, n)
Conflict(R, s, n) == HitsNext(R, s, n) \/ HitsPrevious(R, s)

\* mark: a request to lock looks at every handle, the caller's own included;
\* the check before a read or a write leaves the caller's own ranges out.
Locked(h, s, n, mark) ==
    \E g \in listed : (mark \/ g # h) /\ Conflict(locks[g], s, n)

----------------------------------------------------------------------------

Init == listed = {} /\ locks = [h \in Handles |-> {}]

AddFile(h) ==
    /\ h \notin listed
    /\ listed' = listed \cup {h}
    /\ locks' = [locks EXCEPT ![h] = {}]

\* ~impl_file_handle: the handle leaves the list and its map goes with it.
RemoveFile(h) ==
    /\ h \in listed
    /\ listed' = listed \ {h}
    /\ locks' = [locks EXCEPT ![h] = {}]

\* (Mutant: the length is not checked.)
GrantedAnyLength(h, s, n) == ~Locked(h, s, n, TRUE)

\* lock_file(mark=true), refused with -EINVAL or -EACCES without a change.
\* file->locks[start] = len replaces a range with the same start.
Granted(h, s, n) == n > 0 /\ ~Locked(h, s, n, TRUE)
LockFile(h, s, n) ==
    /\ h \in listed
    /\ Granted(h, s, n)
    /\ locks' = [locks EXCEPT ![h] = {r \in @ : r.start # s}
                                       \cup {[start |-> s, len |-> n]}]
    /\ UNCHANGED listed

\* unlock_file needs exactly a range it locked.
UnlockFile(h, s, n) ==
    /\ h \in listed
    /\ [start |-> s, len |-> n] \in locks[h]
    /\ n > 0
    /\ locks' = [locks EXCEPT ![h] = @ \ {[start |-> s, len |-> n]}]
    /\ UNCHANGED listed

\* check_lock: what read_file and write_file go by (nonzero is -EACCES).
MayAccess(h, s, n) == n > 0 /\ ~Locked(h, s, n, FALSE)

Next ==
    \E h \in Handles :
      \/ AddFile(h)
      \/ RemoveFile(h)
      \/ \E s \in Offsets, n \in Lengths : LockFile(h, s, n) \/ UnlockFile(h, s, n)

Spec == Init /\ [][Next]_vars

----------------------------------------------------------------------------
(* Properties.                                                             *)

\* Every variable has its type.
TypeOK ==
    /\ listed \subseteq Handles
    /\ locks \in [Handles -> SUBSET [start : Offsets, len : Nat \ {0}]]

\* No byte is locked twice, by two handles or by one ("multiple locks are not
\* allowed", fusemain.cpp:990), although lock_file looks at two neighbours only.
Disjoint ==
    \A g, h \in Handles : \A q \in locks[g], r \in locks[h] :
        Overlap(q, r.start, r.len) => g = h /\ q = r

\* A read or a write of a nonempty range is refused exactly when it touches a
\* byte another handle has locked (fusemain.cpp:493, 541).
AccessExact ==
    \A h \in listed, s \in Offsets, n \in Lengths : n > 0 =>
        (MayAccess(h, s, n) <=>
           \A g \in listed \ {h} : \A r \in locks[g] : ~Overlap(r, s, n))

\* Only an open handle holds ranges: closing it gives up what it locked.
OnlyListedLock == \A h \in Handles \ listed : locks[h] = {}
=============================================================================
