------------------------------ MODULE FuseDirs ------------------------------
(***************************************************************************)
(* Directories under the Dokan callbacks: listing, creating, removing and  *)
(* moving them, and reading and changing what is known of one entry.  Each *)
(* callback of fusemain.cpp makes several calls of encfs.cpp, and each of  *)
(* these a call of the operating system with a path it has encoded; no     *)
(* lock is held from one to the next.  Only DirNode's renames and unlinks  *)
(* keep each other out.                                                    *)
(*                                                                         *)
(* The volume has directories below its root and entries in them.  On a    *)
(* chained volume the name of an entry is encoded with the vector of its   *)
(* directory's path: moving the directory renames what is in it, in place, *)
(* before the directory itself (RenameTree has the steps for one entry).   *)
(***************************************************************************)
EXTENDS Naturals, FiniteSets

CONSTANTS Dirs,    \* the names of directories in the root
          Kids,    \* the names of entries in a directory
          Callers, \* Dokan worker threads
          Mishaps  \* what a run includes although it breaks the promises:
                   \* a subset of AllMishaps

VARIABLES chained, \* the volume has chained name vectors
          held,    \* directory -> its entries as they are on disk
          calls    \* each thread's callback

dirvars == <<chained, held, calls>>

AllMishaps == {"created while moved", \* an entry is created in a directory on its way
               "listed while moved",  \* a directory on its way is listed
               "unreadable",          \* the OS refuses to list a directory
               "detached"}            \* the volume cannot be mounted again any more

\* There is a directory.
DirsAssumption == Dirs # {}

Kinds == {"file", "dir"}
Fields == {"attributes", "times"}  \* those of an entry that have been set

\* What the names in a directory are encoded with.
IV(d) == IF chained THEN {d} ELSE {}
Entry == [kid : Kids, iv : {IV(d) : d \in Dirs}, kind : Kinds, set : SUBSET Fields]

Exists(d) == d \in DOMAIN held
OnDisk(d) == IF Exists(d) THEN held[d] ELSE {}
\* Entries whose names decode to something.
Plain(d) == {e \in OnDisk(d) : e.iv = IV(d)}
About(e) == [kid |-> e.kid, kind |-> e.kind, set |-> e.set]
Find(d, k) == {e \in Plain(d) : e.kid = k}

NoDir == CHOOSE d \in Dirs : TRUE
NoCall == [op |-> "none", dir |-> NoDir, pc |-> "done", result |-> "ok",
           names |-> {}, now |-> {}, to |-> NoDir, done |-> {}, shown |-> {}, stays |-> {}, ever |-> {}]
Idle(t) == calls[t].op = "none"
Renames(c) == c.op = "rename" /\ c.pc # "done"
NoRename == \A t \in Callers : ~Renames(calls[t])
OnItsWay(d) == \E t \in Callers : Renames(calls[t]) /\ calls[t].dir = d
Lists(d) == \E t \in Callers : calls[t].op = "list" /\ calls[t].pc # "done" /\ calls[t].dir = d

DirInit ==
    /\ chained \in BOOLEAN
    /\ held \in [{NoDir} -> {{}}]
    /\ calls = [t \in Callers |-> NoCall]

----------------------------------------------------------------------------
(* What an observer of the plain names knows: the entries that have been   *)
(* in the directory since a call began, and those it has had meanwhile.    *)

Observe(c) ==
    LET now == IF c.dir \in DOMAIN held' THEN held'[c.dir] ELSE {}
    IN IF c.op \notin {"list", "info"} \/ c.pc = "done" THEN c
       ELSE [c EXCEPT !.stays = @ \cap {e.kid : e \in now},
                      !.ever = @ \cup {About(e) : e \in {f \in now : f.iv = IV(c.dir)}}]

\* The callback of t goes on as c.
Goes(t, c) == calls' = [u \in Callers |-> Observe(IF u = t THEN c ELSE calls[u])]
\* The callbacks of the others see what t does at once.
Does(t) == Idle(t) /\ calls' = [u \in Callers |-> Observe(calls[u])]

\* ...having changed nothing.
Sees(t, c) == UNCHANGED <<chained, held>> /\ Goes(t, c)

Begin(t, op, d, pc) ==
    /\ Idle(t)
    /\ Sees(t, [NoCall EXCEPT !.op = op, !.dir = d, !.pc = pc,
                              !.stays = {e.kid : e \in Plain(d)}])
End(t, c, result) == Goes(t, [c EXCEPT !.pc = "done", !.result = result])
Finish(t) == Goes(t, NoCall)
Ends(t, c, result) == UNCHANGED <<chained, held>> /\ End(t, c, result)

\* A callback that lists returns what it has; the others return where they end.
Return(t) ==
    /\ calls[t].op # "none" /\ calls[t].pc = "done"
    /\ calls' = [calls EXCEPT ![t] = NoCall]
    /\ UNCHANGED <<chained, held>>

At(t, op, pc) == calls[t].op = op /\ calls[t].pc = pc

----------------------------------------------------------------------------
(* find_files: check_and_resolve, getdir for the names, then for each name *)
(* getattr and win_get_attributes.                                         *)

FindFiles(t, d) ==
    /\ Exists(d)
    /\ OnItsWay(d) => "listed while moved" \in Mishaps
    /\ Begin(t, "list", d, "open")

\* encfs_getdir of what is no directory any more, or that cannot be opened, succeeds.
OpenDir(t) ==
    LET c == calls[t] IN
    /\ At(t, "list", "open")
    /\ \/ Exists(c.dir) /\ Sees(t, [c EXCEPT !.pc = "getdir"])
       \/ ~Exists(c.dir) /\ Ends(t, c, "ok")
       \/ Exists(c.dir) /\ "unreadable" \in Mishaps /\ Ends(t, c, "ok")

\* nextPlaintextName passes over what it cannot decode.
Getdir(t, k) ==
    LET c == calls[t] IN
    /\ At(t, "list", "getdir")
    /\ k \notin c.names /\ Find(c.dir, k) # {}
    /\ Sees(t, [c EXCEPT !.names = @ \cup {k}])

\* FindNextFile has no more: it has had all that was there from the first on.
GetdirEnd(t) ==
    LET c == calls[t] IN
    /\ At(t, "list", "getdir")
    /\ \A k \in c.stays : Find(c.dir, k) # {} => k \in c.names
    /\ Sees(t, [c EXCEPT !.pc = "walk"])

Walks(t, pc) == calls[t].op \in {"list", "info"} /\ calls[t].pc = pc

\* get_file_information: the same two calls for one name.
GetFileInformation(t, d, k) ==
    /\ Idle(t)
    /\ Sees(t, [NoCall EXCEPT !.op = "info", !.dir = d, !.pc = "walk", !.names = {k}])

\* walk_directory: the first name that is not there any more ends the listing.
\* (Mutant: it ends as if it was complete.)
Getattr(t, k, otherwise) ==
    LET c == calls[t] IN
    /\ Walks(t, "walk") /\ k \in c.names
    /\ \/ \E e \in Find(c.dir, k) :
            Sees(t, [c EXCEPT !.pc = "attributes", !.names = @ \ {k}, !.now = {About(e)}])
       \/ Find(c.dir, k) = {} /\ Ends(t, c, otherwise)
WalkDirectoryStops(t, k) == Getattr(t, k, "ok")
WalkDirectory(t, k) == Getattr(t, k, "failed")

\* win_get_attributes: what it returns, if anything, replaces what getattr has found
\* but for the times.  When the volume is not there, that is an error taken for
\* attributes.
Attributes(t) ==
    LET c == calls[t]
        Shows(set) == Sees(t, [c EXCEPT !.pc = "walk", !.now = {}, !.shown = @ \cup set])
        Both(s, e) == [About(e) EXCEPT !.set = (@ \ {"times"}) \cup (s.set \cap {"times"})]
        Found(s) == Find(c.dir, s.kid)
    IN
    /\ Walks(t, "attributes")
    /\ \/ \E s \in c.now : Shows(IF Found(s) = {} THEN {s} ELSE {Both(s, e) : e \in Found(s)})
       \/ "detached" \in Mishaps /\ Shows({[s EXCEPT !.kind = "error"] : s \in c.now})

WalkEnd(t) ==
    /\ Walks(t, "walk") /\ calls[t].names = {}
    /\ Ends(t, calls[t], "ok")

----------------------------------------------------------------------------
(* One entry: what the operating system does with its path.  A callback    *)
(* that is refused changes nothing.                                        *)

Put(d, set) == held' = [held EXCEPT ![d] = set] /\ UNCHANGED chained

\* mkdir and mknod.
Create(t, d, k, kind) ==
    /\ Exists(d) /\ Find(d, k) = {}
    /\ OnItsWay(d) => "created while moved" \in Mishaps
    /\ Put(d, held[d] \cup {[kid |-> k, iv |-> IV(d), kind |-> kind, set |-> {}]})
    /\ Does(t)

\* unlink keeps renames out, rmdir does not.
Remove(t, d, k) ==
    /\ \E e \in Find(d, k) : (e.kind = "file" => NoRename) /\ Put(d, held[d] \ {e})
    /\ Does(t)

\* A file, or a directory with nothing in it, from one name to another.
Move(t, d, k, x, l) ==
    /\ NoRename /\ Exists(x) /\ Find(x, l) = {}
    /\ \E e \in Find(d, k) :
         LET left == [held EXCEPT ![d] = @ \ {e}]
         IN held' = [left EXCEPT ![x] = @ \cup {[e EXCEPT !.kid = l, !.iv = IV(x)]}]
    /\ UNCHANGED chained /\ Does(t)

\* getattr for links, then the change by name.
Change(t, d, k, field) ==
    /\ Idle(t) /\ Find(d, k) # {}
    /\ Sees(t, [NoCall EXCEPT !.op = field, !.dir = d, !.pc = "set", !.names = {k}])
SetFileAttributes(t, d, k) == Change(t, d, k, "attributes")
SetFileTime(t, d, k) == Change(t, d, k, "times")

\* win_set_attributes and win_set_times by name.
Set(t) ==
    LET c == calls[t]
        found == UNION {Find(c.dir, k) : k \in c.names}
    IN
    /\ c.op \in Fields /\ c.pc = "set"
    /\ \/ /\ found # {}
          /\ Put(c.dir, (held[c.dir] \ found) \cup {[e EXCEPT !.set = @ \cup {c.op}] : e \in found})
          /\ Finish(t)
       \/ Sees(t, NoCall)

----------------------------------------------------------------------------
(* A directory of the root.                                                *)

CreateDirectory(t, d) ==
    /\ ~Exists(d)
    /\ held' = [x \in DOMAIN held \cup {d} |-> IF x = d THEN {} ELSE held[x]] /\ UNCHANGED chained
    /\ Does(t)

Without(d) == [x \in DOMAIN held \ {d} |-> held[x]]

\* delete_directory: it is there and no link, then rmdir.  The handle the callback
\* looks for is never there: open_directory makes none.
DeleteDirectory(t, d) ==
    /\ Exists(d)
    /\ Begin(t, "rmdir", d, "rmdir")

Rmdir(t) ==
    LET c == calls[t] IN
    /\ At(t, "rmdir", "rmdir")
    /\ IF Exists(c.dir) /\ held[c.dir] = {}
       THEN held' = Without(c.dir) /\ UNCHANGED chained /\ Finish(t)
       ELSE Sees(t, NoCall)

\* genRenameList: what is to be renamed with the directory.
\* (Mutant: only files are.)
GenRenameListFiles(d) ==
    IF chained THEN {e.kid : e \in {f \in Plain(d) : f.kind = "file"}} ELSE {}
GenRenameList(d) == IF chained THEN {e.kid : e \in Plain(d)} ELSE {}

\* DirNode::rename, for as long as it has its mutex.
Rename(t, d, x) ==
    /\ NoRename /\ d # x /\ Exists(d)
    /\ Lists(d) => "listed while moved" \in Mishaps
    /\ Idle(t)
    /\ Sees(t, [NoCall EXCEPT !.op = "rename", !.dir = d, !.pc = "entries", !.to = x,
                              !.names = GenRenameList(d)])

\* One entry gets another name in place, or is not there or in the way.
Recode(d, k, from, to) ==
    LET old == {e \in OnDisk(d) : e.kid = k /\ e.iv = from} IN
    /\ old # {} /\ ~\E e \in held[d] : e.kid = k /\ e.iv = to
    /\ Put(d, (held[d] \ old) \cup {[e EXCEPT !.iv = to] : e \in old})
CannotRecode(d, k, from, to) ==
    {e \in OnDisk(d) : e.kid = k /\ e.iv = from} = {} \/ \E e \in held[d] : e.kid = k /\ e.iv = to

RenameEntry(t) ==
    LET c == calls[t] IN
    /\ At(t, "rename", "entries")
    /\ \E k \in c.names :
         \/ /\ Recode(c.dir, k, IV(c.dir), IV(c.to))
            /\ Goes(t, [c EXCEPT !.names = @ \ {k}, !.done = @ \cup {k}])
         \/ Sees(t, [c EXCEPT !.pc = "undo"])

\* The directory itself; the OS does not replace another, and may refuse.
RenameDirectory(t) ==
    LET c == calls[t] IN
    /\ At(t, "rename", "entries") /\ c.names = {}
    /\ \/ /\ Exists(c.dir) /\ ~Exists(c.to)
          /\ held' = [x \in (DOMAIN held \ {c.dir}) \cup {c.to} |->
                        IF x = c.to THEN held[c.dir] ELSE held[x]]
          /\ UNCHANGED chained /\ Finish(t)
       \/ Sees(t, [c EXCEPT !.pc = "undo"])

\* undo goes on whatever a step of it does.
Undo(t) ==
    LET c == calls[t] IN
    /\ At(t, "rename", "undo")
    /\ \E k \in c.done :
         /\ \/ Recode(c.dir, k, IV(c.to), IV(c.dir))
            \/ CannotRecode(c.dir, k, IV(c.to), IV(c.dir)) /\ UNCHANGED <<chained, held>>
         /\ Goes(t, [c EXCEPT !.done = @ \ {k}])

RenameFails(t) ==
    /\ At(t, "rename", "undo") /\ calls[t].done = {}
    /\ Sees(t, NoCall)

----------------------------------------------------------------------------

DirNext ==
    \E t \in Callers :
      \/ Return(t) \/ OpenDir(t) \/ GetdirEnd(t) \/ Attributes(t) \/ WalkEnd(t) \/ Set(t)
      \/ Rmdir(t) \/ RenameEntry(t) \/ RenameDirectory(t) \/ Undo(t) \/ RenameFails(t)
      \/ \E k \in Kids : Getdir(t, k) \/ WalkDirectory(t, k)
      \/ \E d \in Dirs :
           \/ FindFiles(t, d) \/ CreateDirectory(t, d) \/ DeleteDirectory(t, d)
           \/ \E x \in Dirs : Rename(t, d, x)
           \/ \E k \in Kids :
                \/ GetFileInformation(t, d, k) \/ Remove(t, d, k)
                \/ SetFileAttributes(t, d, k) \/ SetFileTime(t, d, k)
                \/ \E kind \in Kinds : Create(t, d, k, kind)
                \/ \E x \in Dirs, l \in Kids : Move(t, d, k, x, l)

DirSpec == DirInit /\ [][DirNext]_dirvars

----------------------------------------------------------------------------
(* Properties.                                                             *)

DirTypeOK ==
    /\ chained \in BOOLEAN
    /\ DOMAIN held \subseteq Dirs
    /\ \A d \in DOMAIN held : held[d] \subseteq Entry
    /\ \A t \in Callers : calls[t].dir \in Dirs /\ calls[t].result \in {"ok", "failed"}

Done(t, op) == calls[t].op = op /\ calls[t].pc = "done"

\* A listing that succeeds has every entry that was in the directory all the while,
\* each of a kind, with attributes and times, that it had meanwhile; one that fails
\* has met an entry that went away (fusemain.cpp:224-320, DirNode.cpp:123-139).
ListingStands ==
    \A t \in Callers : LET c == calls[t] IN
      /\ Done(t, "list") =>
           IF c.result = "ok" THEN c.stays \subseteq {s.kid : s \in c.shown}
           ELSE {s.kid : s \in c.ever} # c.stays
      /\ \A s \in c.shown :
           /\ \E o \in c.ever : o.kid = s.kid /\ o.kind = s.kind
           /\ \A f \in Fields : \E o \in c.ever : o.kid = s.kid /\ (f \in s.set <=> f \in o.set)

\* When no directory is on its way, every entry on the disk has a name in the volume,
\* whatever was created, removed and moved meanwhile and however a rename ended; and
\* no two have the same (DirNode.cpp:441-556, 614-684).
EntriesKept ==
    NoRename => \A d \in DOMAIN held : \A e \in held[d] :
                  e.iv = IV(d) /\ \A f \in held[d] : f.kid = e.kid => f = e
=============================================================================
