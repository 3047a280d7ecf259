------------------------------ MODULE FuseFiles ------------------------------
(***************************************************************************)
(* The open-file table of the fuse4win bridge (fusemain.cpp): CreateFile,  *)
(* CloseFile, DeleteFile and MoveFile run by Dokan's worker threads over   *)
(* impl_file_locks (path -> impl_file_lock), impl_file_lock (the handles   *)
(* of one path) and impl_file_handle.  One action per stretch of code that *)
(* runs inside one critical section or makes one call into the file system *)
(* below (FUSE operations, modelled by what they do to the files on disk). *)
(***************************************************************************)
EXTENDS FiniteSets

CONSTANTS Threads,      \* Dokan worker threads (docanfuse.cpp:470: 10, or 1 with -s)
          Names,        \* paths
          Handles,      \* impl_file_handle objects
          LockIds,      \* impl_file_lock objects
          Shares,       \* the (required share, share mode) pairs callers pass
          Dispositions, \* the creation dispositions callers pass
          Moves,        \* the (name, new name) pairs MoveFile is called with
          NoLock, NoThread, NoName, NoHandle

ASSUME NoneAssumption == /\ NoLock \notin LockIds
                         /\ NoThread \notin Threads
                         /\ NoName \notin Names
                         /\ NoHandle \notin Handles

VARIABLES table,  \* impl_file_locks::file_locks
          alive,  \* the impl_file_lock objects allocated and not deleted
          lname,  \* impl_file_lock::name_
          files,  \* impl_file_lock::first, the list of handles as a set
          lcs,    \* owner of impl_file_lock::lock
          gcs,    \* owner of impl_file_locks::lock
          hlock,  \* impl_file_handle::file_lock
          mode,   \* what a handle was opened with: [need, share]
          older,  \* handles already listed when this one was added
          opened, \* handles a caller holds (DokanFileInfo->Context)
          hfile,  \* the path on disk a handle's descriptor refers to
          disk,   \* the file at each path
          pc,     \* where each thread is
          call,   \* the arguments and locals of each thread's call
          freedUse \* a deleted impl_file_lock was dereferenced

tvars == <<table, alive, lname, files, lcs, gcs>>
hvars == <<hlock, mode, older>>
dvars == <<opened, hfile, disk>>
vars == <<tvars, hvars, dvars, pc, call, freedUse>>

Creating == {"CREATE_NEW", "CREATE_ALWAYS", "OPEN_ALWAYS"}
ShareBits == {"read", "write", "delete"}
Modes == [need : SUBSET ShareBits, share : SUBSET ShareBits]

ASSUME InputsAssumption ==
    /\ Shares \subseteq Modes
    /\ Dispositions \subseteq Creating \cup {"OPEN_EXISTING", "TRUNCATE_EXISTING"}
    /\ Moves \subseteq Names \X Names

NoCall == [name |-> NoName, to |-> NoName, mode |-> [need |-> {}, share |-> {}],
           disp |-> "OPEN_EXISTING", handle |-> NoHandle, lock |-> NoLock,
           wiped |-> FALSE, result |-> "none"]

Init ==
    /\ table = [n \in Names |-> NoLock]
    /\ alive = {}
    /\ lname = [l \in LockIds |-> NoName]
    /\ files = [l \in LockIds |-> {}]
    /\ lcs = [l \in LockIds |-> NoThread]
    /\ gcs = NoThread
    /\ hlock = [h \in Handles |-> NoLock]
    /\ mode = [h \in Handles |-> NoCall.mode]
    /\ older = [h \in Handles |-> {}]
    /\ opened = {}
    /\ hfile = [h \in Handles |-> NoName]
    /\ disk \in [Names -> {"none", "data"}]
    /\ pc = [t \in Threads |-> "idle"]
    /\ call = [t \in Threads |-> NoCall]
    /\ freedUse = FALSE

----------------------------------------------------------------------------
(* Control.                                                                *)

At(t, where) == pc[t] = where
Goto(t, to) == pc' = [pc EXCEPT ![t] = to]

\* (Mutant: the handle to fill in is not passed on.)
OpeningNothing(n, m, d, h) == [NoCall EXCEPT !.name = n, !.mode = m, !.disp = d]

\* What a thread's call is when it begins, and what it leaves when it ends.
Opening(n, m, d, h) == [NoCall EXCEPT !.name = n, !.mode = m, !.disp = d, !.handle = h]
Closing(h) == [NoCall EXCEPT !.handle = h]
Moving(n, to) == [NoCall EXCEPT !.name = n, !.to = to]
Ended(result, wiped) == [NoCall EXCEPT !.result = result, !.wiped = wiped]

\* What changes while it runs.
Wiping(c, wiped) == [c EXCEPT !.wiped = wiped]
Locking(c, l) == [c EXCEPT !.lock = l]
Failing(c) == [c EXCEPT !.result = "failed"]
Erasing(c, l) == [c EXCEPT !.lock = l, !.handle = NoHandle]

Put(t, c) == call' = [call EXCEPT ![t] = c]
Keep(t) == call' = call
Return(t, result) == Goto(t, "idle") /\ Put(t, Ended(result, call[t].wiped))

(* The file system below.  A file deleted while a descriptor is open on it *)
(* stays visible until the last descriptor is closed: DeleteFileW on files *)
(* opened with FILE_SHARE_DELETE (compatwin.cpp my_open, unix::unlink).    *)
Exists(n) == disk[n] # "none"
Openers(n) == {h \in Handles : hfile[h] = n}
Unlinked(n) == [disk EXCEPT ![n] = IF Openers(n) = {} THEN "none" ELSE "pending"]

----------------------------------------------------------------------------
(* create_file, then do_create_file / do_open_file.                        *)

FreeHandles == {h \in Handles : /\ h \notin opened
                                /\ \A t \in Threads : call[t].handle # h}

\* create_file's getattr decides what to do from the disposition.
FirstStep(n, d) ==
    CASE ~Exists(n) /\ d \in Creating -> "mknod"
      [] Exists(n) /\ d = "CREATE_ALWAYS" -> "unlink"
      [] Exists(n) /\ d = "TRUNCATE_EXISTING" -> "trunc"
      [] Exists(n) /\ d \in {"OPEN_EXISTING", "OPEN_ALWAYS"} -> "resolve"
      [] OTHER -> "refused"

CreateFile(t) ==
    \E n \in Names, m \in Shares, d \in Dispositions, h \in FreeHandles :
      /\ pc[t] = "idle"
      /\ \/ /\ FirstStep(n, d) # "refused"
            /\ Goto(t, FirstStep(n, d))
            /\ Put(t, Opening(n, m, d, h))
         \/ /\ FirstStep(n, d) = "refused"
            /\ Put(t, Ended("failed", FALSE))
            /\ UNCHANGED pc
      /\ UNCHANGED <<tvars, hvars, dvars, freedUse>>

\* CREATE_ALWAYS on an existing file deletes it first.
CreateUnlink(t) ==
    /\ At(t, "unlink")
    /\ LET n == call[t].name IN
       \/ /\ disk[n] \in {"data", "empty"}
          /\ Goto(t, "mknod")
          /\ disk' = Unlinked(n)
          /\ Put(t, Wiping(call[t], disk[n] = "data"))
          /\ UNCHANGED <<tvars, hvars, opened, hfile, freedUse>>
       \/ /\ disk[n] \in {"none", "pending"}
          /\ Return(t, "failed")
          /\ UNCHANGED <<tvars, hvars, dvars, freedUse>>

\* TRUNCATE_EXISTING empties it first.
CreateTruncate(t) ==
    /\ At(t, "trunc")
    /\ LET n == call[t].name IN
       \/ /\ disk[n] \in {"data", "empty"}
          /\ Goto(t, "resolve")
          /\ disk' = [disk EXCEPT ![n] = "empty"]
          /\ Put(t, Wiping(call[t], disk[n] = "data"))
          /\ UNCHANGED <<tvars, hvars, opened, hfile, freedUse>>
       \/ /\ disk[n] \in {"none", "pending"}
          /\ Return(t, "failed")
          /\ UNCHANGED <<tvars, hvars, dvars, freedUse>>

\* encfs has no create operation, so do_create_file calls mknod and opens.
CreateMknod(t) ==
    /\ At(t, "mknod")
    /\ LET n == call[t].name IN
       \/ /\ ~Exists(n)
          /\ Goto(t, "resolve")
          /\ disk' = [disk EXCEPT ![n] = "empty"]
          /\ Keep(t)
          /\ UNCHANGED <<tvars, hvars, opened, hfile, freedUse>>
       \/ /\ Exists(n)
          /\ Return(t, "failed")
          /\ UNCHANGED <<tvars, hvars, dvars, freedUse>>

\* do_open_file's check_and_resolve needs the file to be there.
OpenResolve(t) ==
    /\ At(t, "resolve")
    /\ \/ /\ Exists(call[t].name)
          /\ Goto(t, "get")
          /\ Keep(t)
          /\ UNCHANGED <<tvars, hvars, dvars, freedUse>>
       \/ /\ ~Exists(call[t].name)
          /\ Return(t, "failed")
          /\ UNCHANGED <<tvars, hvars, dvars, freedUse>>

----------------------------------------------------------------------------
(* impl_file_locks::get_file.                                              *)

\* An address is not modelled as reused while something still points at it.
FreshLocks == {l \in LockIds : /\ l \notin alive
                               /\ \A h \in Handles : hlock[h] # l
                               /\ \A t \in Threads : call[t].lock # l}

AddFile(h, l, m) ==
    /\ files' = [files EXCEPT ![l] = @ \cup {h}]
    /\ older' = [older EXCEPT ![h] = files[l]]
    /\ mode' = [mode EXCEPT ![h] = m]

\* The path is not in the map: a new lock object, all under the global lock.
GetFileNew(t) ==
    /\ At(t, "get")
    /\ LET h == call[t].handle IN
       /\ table[call[t].name] = NoLock
       /\ gcs = NoThread
       /\ Goto(t, "fopen")
       /\ LET l == CHOOSE x \in FreshLocks : TRUE
          IN /\ FreshLocks # {}
             /\ alive' = alive \cup {l}
             /\ lname' = [lname EXCEPT ![l] = call[t].name]
             /\ table' = [table EXCEPT ![call[t].name] = l]
             /\ AddFile(h, l, call[t].mode)
             /\ hlock' = [hlock EXCEPT ![h] = l]
       /\ Keep(t)
       /\ UNCHANGED <<lcs, gcs, dvars, freedUse>>

\* The path is in the map: keep the global lock and wait for the object's.
GetFileFound(t) ==
    /\ At(t, "get")
    /\ table[call[t].name] # NoLock
    /\ gcs = NoThread
    /\ Goto(t, "enter")
    /\ gcs' = t
    /\ Put(t, Locking(call[t], table[call[t].name]))
    /\ UNCHANGED <<table, alive, lname, files, lcs, hvars, dvars, freedUse>>

GetFileEnter(t) ==
    /\ At(t, "enter")
    /\ LET l == call[t].lock IN
       /\ Goto(t, "check")
       /\ lcs[l] = NoThread
       /\ lcs' = [lcs EXCEPT ![l] = t]
       /\ gcs' = NoThread
       /\ hlock' = [hlock EXCEPT ![call[t].handle] = l]
       /\ Keep(t)
       /\ UNCHANGED <<table, alive, lname, files, mode, older, dvars, freedUse>>

\* (Mutant: the scan stops at the first handle that allows it.)
CompatibleWithOne(need, l) ==
    files[l] = {} \/ \E g \in files[l] : need \subseteq mode[g].share

\* The share modes of the handles listed must allow what the caller asks.
Compatible(need, l) == \A g \in files[l] : need \subseteq mode[g].share

\* (Mutant: a refused handle keeps its file_lock.)
GetFileCheckKeepsLock(t) ==
    /\ At(t, "check")
    /\ LET l == call[t].lock
           h == call[t].handle
       IN /\ l \in alive
          /\ lcs' = [lcs EXCEPT ![l] = NoThread]
          /\ \/ /\ Compatible(call[t].mode.need, l)
                /\ Goto(t, "fopen")
                /\ AddFile(h, l, call[t].mode)
                /\ Put(t, Locking(call[t], NoLock))
             \/ /\ ~Compatible(call[t].mode.need, l)
                /\ Return(t, "denied")
                /\ UNCHANGED <<files, mode, older>>
          /\ UNCHANGED <<table, alive, lname, gcs, hlock, dvars, freedUse>>

GetFileCheck(t) ==
    /\ At(t, "check")
    /\ LET l == call[t].lock
           h == call[t].handle
       IN /\ l \in alive
          /\ lcs' = [lcs EXCEPT ![l] = NoThread]
          /\ \/ /\ Compatible(call[t].mode.need, l)
                /\ Goto(t, "fopen")
                /\ AddFile(h, l, call[t].mode)
                /\ Put(t, Locking(call[t], NoLock))
                /\ UNCHANGED hlock
             \/ /\ ~Compatible(call[t].mode.need, l)
                /\ Return(t, "denied")
                /\ hlock' = [hlock EXCEPT ![h] = NoLock]
                /\ UNCHANGED <<files, mode, older>>
          /\ UNCHANGED <<table, alive, lname, gcs, dvars, freedUse>>

\* do_open_file calls ops_.open; on failure the handle is destroyed.
OpenFile(t) ==
    /\ At(t, "fopen")
    /\ LET h == call[t].handle IN
       \/ /\ disk[call[t].name] \in {"data", "empty"}
          /\ Return(t, "ok")
          /\ opened' = opened \cup {h}
          /\ hfile' = [hfile EXCEPT ![h] = call[t].name]
          /\ UNCHANGED <<tvars, hvars, disk, freedUse>>
       \/ /\ disk[call[t].name] \in {"none", "pending"}
          /\ Goto(t, "remove")
          /\ Put(t, Failing(call[t]))
          /\ UNCHANGED <<tvars, hvars, dvars, freedUse>>

----------------------------------------------------------------------------
(* close_file and ~impl_file_handle.                                       *)

\* close() flushes and releases the file below.
CloseFile(t) ==
    /\ At(t, "idle")
    /\ \E h \in opened :
         /\ Goto(t, "remove")
         /\ opened' = opened \ {h}
         /\ hfile' = [hfile EXCEPT ![h] = NoName]
         /\ LET n == hfile[h]
            IN disk' = IF n # NoName /\ disk[n] = "pending" /\ Openers(n) = {h}
                         THEN [disk EXCEPT ![n] = "none"] ELSE disk
         /\ Put(t, Closing(h))
         /\ UNCHANGED <<tvars, hvars, freedUse>>

Forget(h) == /\ hlock' = [hlock EXCEPT ![h] = NoLock]
             /\ mode' = [mode EXCEPT ![h] = NoCall.mode]
             /\ older' = [g \in Handles |-> IF g = h THEN {} ELSE older[g] \ {h}]

\* (Mutant: the table is asked to drop the object with its own lock held.)
RemoveFileHoldsLock(t) ==
    /\ At(t, "remove")
    /\ LET h == call[t].handle
           l == hlock[h]
       IN /\ l \in alive
          /\ lcs[l] = NoThread
          /\ files' = [files EXCEPT ![l] = @ \ {h}]
          /\ Forget(h)
          /\ \/ /\ files[l] \ {h} # {}
                /\ Return(t, call[t].result)
                /\ UNCHANGED lcs
             \/ /\ files[l] \ {h} = {}
                /\ Goto(t, "erase")
                /\ Put(t, Erasing(call[t], l))
                /\ lcs' = [lcs EXCEPT ![l] = t]
          /\ UNCHANGED <<table, alive, lname, gcs, dvars, freedUse>>

\* impl_file_lock::remove_file: unlink the handle under the object's lock,
\* then leave it ("avoid dead lock") and ask the table to drop an empty object.
RemoveFile(t) ==
    /\ At(t, "remove")
    /\ LET h == call[t].handle
           l == hlock[h]
       IN /\ l \in alive
          /\ lcs[l] = NoThread
          /\ files' = [files EXCEPT ![l] = @ \ {h}]
          /\ Forget(h)
          /\ \/ /\ files[l] \ {h} # {}
                /\ Return(t, call[t].result)
             \/ /\ files[l] \ {h} = {}
                /\ Goto(t, "erase")
                /\ Put(t, Erasing(call[t], l))
          /\ UNCHANGED <<table, alive, lname, lcs, gcs, dvars, freedUse>>

\* impl_file_locks::remove_file(name_): the emptiness test reads the list of
\* whatever object the map holds for the name, without that object's lock.
EraseLock(t) ==
    /\ At(t, "erase")
    /\ call[t].lock \in alive
    /\ gcs = NoThread
    /\ Return(t, call[t].result)
    /\ LET n == lname[call[t].lock]
           e == table[n]
       IN IF e # NoLock /\ files[e] = {}
            THEN /\ table' = [table EXCEPT ![n] = NoLock]
                 /\ alive' = alive \ {e}
            ELSE UNCHANGED <<table, alive>>
    /\ UNCHANGED <<lname, files, lcs, gcs, hvars, dvars, freedUse>>

----------------------------------------------------------------------------
(* delete_file and move_file.                                              *)

DeleteFile(t) ==
    \E n \in Names :
      /\ pc[t] = "idle"
      /\ disk[n] \in {"data", "empty"}
      /\ disk' = Unlinked(n)
      /\ UNCHANGED <<tvars, hvars, opened, hfile, pc, call, freedUse>>

\* The first getattr of the target: absent, or replaced by deleting it.
MoveFile(t) ==
    /\ At(t, "idle")
    /\ \E mv \in Moves, replace \in BOOLEAN :
         /\ Exists(mv[2]) => replace
         /\ Goto(t, IF Exists(mv[2]) THEN "mvunlink" ELSE "mvcheck")
         /\ Put(t, Moving(mv[1], mv[2]))
    /\ UNCHANGED <<tvars, hvars, dvars, freedUse>>

MoveUnlink(t) ==
    /\ At(t, "mvunlink")
    /\ LET m == call[t].to IN
       \/ /\ disk[m] \in {"data", "empty"}
          /\ Goto(t, "mvcheck")
          /\ disk' = Unlinked(m)
          /\ Keep(t)
          /\ UNCHANGED <<tvars, hvars, opened, hfile, freedUse>>
       \/ /\ disk[m] \in {"none", "pending"}
          /\ Return(t, "failed")
          /\ UNCHANGED <<tvars, hvars, dvars, freedUse>>

\* A deleted target may still be there: the second getattr.
MoveCheck(t) ==
    /\ At(t, "mvcheck")
    /\ \/ ~Exists(call[t].to) /\ Goto(t, "rename") /\ Keep(t)
       \/ Exists(call[t].to) /\ Return(t, "failed")
    /\ UNCHANGED <<tvars, hvars, dvars, freedUse>>

\* ops_.rename: MoveFileW refuses an existing target.
MoveRename(t) ==
    /\ At(t, "rename")
    /\ LET n == call[t].name
           m == call[t].to
       IN \/ /\ disk[n] \in {"data", "empty"} /\ ~Exists(m)
             /\ Goto(t, "renamed")
             /\ disk' = [disk EXCEPT ![m] = disk[n], ![n] = "none"]
             /\ hfile' = [h \in Handles |-> IF hfile[h] = n THEN m ELSE hfile[h]]
             /\ Keep(t)
             /\ UNCHANGED <<tvars, hvars, opened, freedUse>>
          \/ /\ disk[n] \in {"none", "pending"} \/ Exists(m)
             /\ Return(t, "failed")
             /\ UNCHANGED <<tvars, hvars, dvars, freedUse>>

\* impl_file_locks::renamed_file: nothing to do, or wait for the object.
Renamed(t) ==
    /\ At(t, "renamed")
    /\ gcs = NoThread
    /\ \/ /\ table[call[t].name] = NoLock
          /\ Return(t, "ok")
          /\ UNCHANGED gcs
       \/ /\ table[call[t].name] # NoLock
          /\ Goto(t, "rnenter")
          /\ gcs' = t
          /\ Put(t, Locking(call[t], table[call[t].name]))
    /\ UNCHANGED <<table, alive, lname, files, lcs, hvars, dvars, freedUse>>

\* (Mutant: the object keeps its old name.)
RenamedEnterKeepsName(t) ==
    /\ At(t, "rnenter")
    /\ LET l == call[t].lock IN
       /\ lcs[l] = NoThread
       /\ Return(t, "ok")
       /\ table' = [table EXCEPT ![call[t].to] = l, ![call[t].name] = NoLock]
       /\ gcs' = NoThread
       /\ UNCHANGED <<alive, lname, files, lcs, hvars, dvars, freedUse>>

\* The entry moves to the new name, whatever that name's entry was.
RenamedEnter(t) ==
    /\ At(t, "rnenter")
    /\ LET l == call[t].lock IN
       /\ lcs[l] = NoThread
       /\ Return(t, "ok")
       /\ lname' = [lname EXCEPT ![l] = call[t].to]
       /\ table' = [table EXCEPT ![call[t].to] = l, ![call[t].name] = NoLock]
       /\ gcs' = NoThread
       /\ UNCHANGED <<alive, files, lcs, hvars, dvars, freedUse>>

----------------------------------------------------------------------------
(* A thread about to touch a lock object that another thread has deleted.  *)
(* What follows is undefined, so the behaviour ends there.                 *)

Target(t) == CASE pc[t] \in {"check", "erase"} -> call[t].lock
               [] pc[t] = "remove" -> hlock[call[t].handle]
               [] OTHER -> NoLock

TouchDeleted(t) ==
    /\ Target(t) # NoLock
    /\ Target(t) \notin alive
    /\ freedUse' = TRUE
    /\ UNCHANGED <<tvars, hvars, dvars, pc, call>>

Step(t) ==
    \/ CreateFile(t) \/ CreateUnlink(t) \/ CreateTruncate(t) \/ CreateMknod(t)
    \/ OpenResolve(t) \/ GetFileNew(t) \/ GetFileFound(t) \/ GetFileEnter(t)
    \/ GetFileCheck(t) \/ OpenFile(t) \/ CloseFile(t) \/ RemoveFile(t)
    \/ EraseLock(t) \/ DeleteFile(t) \/ MoveFile(t) \/ MoveUnlink(t)
    \/ MoveCheck(t) \/ MoveRename(t) \/ Renamed(t) \/ RenamedEnter(t)
    \/ TouchDeleted(t)

Undefined == freedUse /\ UNCHANGED vars

Next == (~freedUse /\ \E t \in Threads : Step(t)) \/ Undefined

Spec == Init /\ [][Next]_vars

----------------------------------------------------------------------------
(* Properties.                                                             *)

PCs == {"idle", "mknod", "unlink", "trunc", "resolve", "get", "enter", "check",
        "fopen", "remove", "erase", "mvunlink", "mvcheck", "rename", "renamed",
        "rnenter"}
Calls == [name : Names \cup {NoName}, to : Names \cup {NoName}, mode : Modes,
          disp : Creating \cup {"OPEN_EXISTING", "TRUNCATE_EXISTING"},
          handle : Handles \cup {NoHandle}, lock : LockIds \cup {NoLock},
          wiped : BOOLEAN, result : {"none", "ok", "failed", "denied"}]

\* Every variable has its type.
TypeOK ==
    /\ table \in [Names -> LockIds \cup {NoLock}]
    /\ alive \subseteq LockIds
    /\ lname \in [LockIds -> Names \cup {NoName}]
    /\ files \in [LockIds -> SUBSET Handles]
    /\ lcs \in [LockIds -> Threads \cup {NoThread}]
    /\ gcs \in Threads \cup {NoThread}
    /\ hlock \in [Handles -> LockIds \cup {NoLock}]
    /\ mode \in [Handles -> Modes]
    /\ older \in [Handles -> SUBSET Handles]
    /\ opened \subseteq Handles
    /\ hfile \in [Handles -> Names \cup {NoName}]
    /\ disk \in [Names -> {"none", "data", "empty", "pending"}]
    /\ pc \in [Threads -> PCs]
    /\ call \in [Threads -> Calls]
    /\ freedUse \in BOOLEAN

Quiescent == \A t \in Threads : pc[t] = "idle"

\* A handle granted by get_file asked for nothing that a handle already open
\* on the same lock object refuses to share, whatever was opened, closed or
\* renamed since (fusemain.cpp:908-917).
ShareRespected ==
    \A l \in alive : \A h \in files[l] : \A g \in older[h] \cap files[l] :
        mode[h].need \subseteq mode[g].share

\* No thread waits for the table's critical section while it owns the one of
\* a lock object: the order get_file and renamed_file take them in makes any
\* such wait a deadlock ("avoid dead lock", fusemain.cpp:943).
LockOrder ==
    \A t \in Threads : pc[t] \in {"get", "erase", "renamed"} =>
        \A l \in LockIds : lcs[l] # t

\* Each list holds exactly the handles whose file_lock points at its object,
\* apart from the ones a thread is adding (fusemain.cpp:900-916, 928-941).
ListsAgree ==
    \A h \in Handles, l \in LockIds :
        h \in files[l] <=> /\ hlock[h] = l
                           /\ \A t \in Threads : pc[t] = "check" => call[t].handle # h

\* A handle never refers to a lock object that has been deleted (note.txt:21,
\* "riferimento file in file_handle": the handle holds a reference to the file).
NoDangling == \A h \in Handles : hlock[h] # NoLock => hlock[h] \in alive

\* The map's entry for the name of an open handle's lock object is that object:
\* one lock object per path ("map per filename", note.txt:21).
OneLockPerName ==
    \A h \in opened : gcs = NoThread => table[lname[hlock[h]]] = hlock[h]

\* Between calls a lock object exists exactly for the paths that have an open
\* handle, and it carries the path the handles' file is at, after any renames
\* (fusemain.cpp:946-962, 964-981).
TableMatchesDisk ==
    Quiescent => /\ alive = {hlock[h] : h \in opened}
                 /\ \A n \in Names : table[n] # NoLock => table[n] \in alive
                 /\ \A h \in opened : hfile[h] = lname[hlock[h]]

\* A CreateFile that fails leaves the data of an existing file alone: "Check if
\* we'll be able to truncate or delete the opened file" (fusemain.cpp:438).
FailedCreateKeepsData ==
    \A t \in Threads : call[t].result \in {"denied", "failed"} => ~call[t].wiped
=============================================================================
