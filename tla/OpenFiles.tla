------------------------------ MODULE OpenFiles ------------------------------
(***************************************************************************)
(* encfs's table of open files: EncFS_Context::openFiles (plain path -> set *)
(* of Placeholders), the FileNodes the placeholders point at, and the FUSE *)
(* handlers that use them through DirNode: open, release and rename, run   *)
(* concurrently.  DirNode's mutex covers openNode and rename; contextMutex *)
(* covers each table operation and nothing longer; release takes only      *)
(* contextMutex.  The caller keeps the path a handle was opened by and     *)
(* learns of a rename when the rename has returned (fuse4win's             *)
(* renamed_file), and passes that path back to release.                    *)
(***************************************************************************)
EXTENDS FiniteSets

CONSTANTS Threads, Names,
          Holders,   \* Placeholder objects, one per open file handle
          Nodes,     \* FileNode objects
          Files,     \* files on disk, by identity
          NoThread, NoName, NoNode, NoFile, NoHolder,
          Renames,   \* the (from, to) pairs rename is called with
          MaySetNameFail \* whether FileNode::setName can fail (external IVs)

ASSUME NoneAssumption ==
    /\ NoThread \notin Threads /\ NoName \notin Names /\ NoNode \notin Nodes
    /\ NoFile \notin Files /\ NoHolder \notin Holders
ASSUME RenamesAssumption == Renames \subseteq Names \X Names
ASSUME ThreadsAssumption == IsFiniteSet(Threads)

VARIABLES openFiles, \* EncFS_Context::openFiles
          nodeOf,    \* Placeholder::node, NoNode when not allocated
          nname,     \* FileNode::_pname (and _cname, its encoding)
          nfile,     \* the file a node's descriptor is open on
          dmutex,    \* owner of DirNode::mutex
          held,      \* the path the caller holds a handle under
          disk,      \* the file at each path
          pc, call,  \* each thread's place and arguments
          leaked     \* placeholders release failed to find, and where

cvars == <<openFiles, nodeOf>>
nvars == <<nname, nfile>>
vars == <<cvars, nvars, dmutex, held, disk, pc, call, leaked>>

NoCall == [from |-> NoName, to |-> NoName, holder |-> NoHolder, node |-> NoNode]

Init ==
    /\ openFiles = [p \in Names |-> {}]
    /\ nodeOf = [h \in Holders |-> NoNode]
    /\ nname = [d \in Nodes |-> NoName]
    /\ nfile = [d \in Nodes |-> NoFile]
    /\ dmutex = NoThread
    /\ held = [h \in Holders |-> NoName]
    /\ disk \in {d \in [Names -> Files \cup {NoFile}] :
                   \A p, q \in Names : d[p] = d[q] /\ d[p] # NoFile => p = q}
    /\ pc = [t \in Threads |-> "idle"]
    /\ call = [t \in Threads |-> NoCall]
    /\ leaked = {}

----------------------------------------------------------------------------
(* Control, and the operations of EncFS_Context.                           *)

At(t, where) == pc[t] = where
Goto(t, to) == pc' = [pc EXCEPT ![t] = to]
Done(t) == Goto(t, "idle") /\ call' = [call EXCEPT ![t] = NoCall]

\* A shared_ptr keeps a node alive: a placeholder's or a handler's local one.
Referenced(d) == \/ \E h \in Holders : nodeOf[h] = d
                 \/ \E t \in Threads : call[t].node = d
FreshNodes == {d \in Nodes : ~Referenced(d)}

\* lookupNode: the node of the first placeholder in the path's set.
Lookups(p) == {nodeOf[h] : h \in openFiles[p]}

\* (Mutant: it is copied instead.)
RenamedTableCopies(from, to) ==
    IF openFiles[from] = {} THEN openFiles
    ELSE [p \in Names |-> IF p = to THEN openFiles[from] ELSE openFiles[p]]

\* renameNode: the set moves, over whatever was filed under the new path.
\* from = to erases the set and files it again.
RenamedTable(from, to) ==
    IF openFiles[from] = {} THEN openFiles
    ELSE [p \in Names |-> IF p = to THEN openFiles[from]
                          ELSE IF p = from THEN {} ELSE openFiles[p]]

----------------------------------------------------------------------------
(* encfs_open.                                                             *)

FreeHolders == {h \in Holders : /\ nodeOf[h] = NoNode /\ held[h] = NoName
                                /\ \A t \in Threads : call[t].holder # h}

\* The caller registers the handle under its path before it calls open.
Open(t) ==
    /\ At(t, "idle")
    /\ \E p \in Names, h \in FreeHolders :
         /\ held' = [held EXCEPT ![h] = p]
         /\ call' = [call EXCEPT ![t] = [NoCall EXCEPT !.from = p, !.holder = h]]
    /\ Goto(t, "open")
    /\ UNCHANGED <<cvars, nvars, dmutex, disk, leaked>>

\* The node openNode opens: the one the path has in the table, or a new one.
NodesFor(p) == IF openFiles[p] = {} THEN FreshNodes ELSE Lookups(p)

\* DirNode::openNode, all under DirNode's mutex: find the path's node or make
\* one, and open it; a node that is open already keeps its descriptor.
OpenNode(t) ==
    LET p == call[t].from
        h == call[t].holder
    IN
    /\ At(t, "open")
    /\ dmutex = NoThread
    /\ \E d \in NodesFor(p) :
         LET fresh == d \in FreshNodes
             at == IF fresh THEN p ELSE nname[d]
             file == IF fresh \/ nfile[d] = NoFile THEN disk[at] ELSE nfile[d]
         IN \/ /\ file # NoFile
               /\ nname' = [nname EXCEPT ![d] = at]
               /\ nfile' = [nfile EXCEPT ![d] = file]
               /\ Goto(t, "put")
               /\ call' = [call EXCEPT ![t].node = d]
               /\ UNCHANGED <<held>>
            \/ /\ file = NoFile
               /\ Done(t)
               /\ held' = [held EXCEPT ![h] = NoName]
               /\ UNCHANGED nvars
    /\ UNCHANGED <<cvars, dmutex, disk, leaked>>

\* (Mutant: the placeholder points at the path's first placeholder.)
PutNodeMixed(t) ==
    LET p == call[t].from
        h == call[t].holder
    IN
    /\ At(t, "put")
    /\ nodeOf' = [nodeOf EXCEPT ![h] = h]
    /\ openFiles' = [openFiles EXCEPT ![p] = @ \cup {h}]
    /\ Done(t)
    /\ UNCHANGED <<nvars, dmutex, held, disk, leaked>>
\* (Mutant: the placeholder replaces the path's other ones.)
PutNodeAlone(t) ==
    LET p == call[t].from
        h == call[t].holder
    IN
    /\ At(t, "put")
    /\ nodeOf' = [nodeOf EXCEPT ![h] = call[t].node]
    /\ openFiles' = [openFiles EXCEPT ![p] = {h}]
    /\ Done(t)
    /\ UNCHANGED <<nvars, dmutex, held, disk, leaked>>

\* putNode, after DirNode's mutex has been let go, under the path opened.
PutNode(t) ==
    LET p == call[t].from
        h == call[t].holder
    IN
    /\ At(t, "put")
    /\ nodeOf' = [nodeOf EXCEPT ![h] = call[t].node]
    /\ openFiles' = [openFiles EXCEPT ![p] = @ \cup {h}]
    /\ Done(t)
    /\ UNCHANGED <<nvars, dmutex, held, disk, leaked>>

----------------------------------------------------------------------------
(* encfs_release: eraseNode asserts that the path's set holds the          *)
(* placeholder; when it does not, -EIO is ignored and the object stays.    *)

Found(h, p) == h \in openFiles[p]

\* (Mutant: the placeholder is freed and stays in the table.)
ReleaseKeepsEntry(t) ==
    /\ At(t, "idle")
    /\ \E h \in Holders :
         /\ held[h] # NoName
         /\ \A u \in Threads : call[u].holder # h
         /\ held' = [held EXCEPT ![h] = NoName]
         /\ \/ /\ Found(h, held[h])
               /\ nodeOf' = [nodeOf EXCEPT ![h] = NoNode]
               /\ UNCHANGED <<openFiles, leaked>>
            \/ /\ ~Found(h, held[h])
               /\ leaked' = leaked \cup {[holder |-> h, path |-> held[h]]}
               /\ UNCHANGED cvars
    /\ UNCHANGED <<nvars, dmutex, disk, pc, call>>

Release(t) ==
    /\ At(t, "idle")
    /\ \E h \in Holders :
         /\ held[h] # NoName
         /\ \A u \in Threads : call[u].holder # h
         /\ held' = [held EXCEPT ![h] = NoName]
         /\ \/ /\ Found(h, held[h])
               /\ openFiles' = [openFiles EXCEPT ![held[h]] = @ \ {h}]
               /\ nodeOf' = [nodeOf EXCEPT ![h] = NoNode]
               /\ UNCHANGED leaked
            \/ /\ ~Found(h, held[h])
               /\ leaked' = leaked \cup {[holder |-> h, path |-> held[h]]}
               /\ UNCHANGED cvars
    /\ UNCHANGED <<nvars, dmutex, disk, pc, call>>

----------------------------------------------------------------------------
(* DirNode::rename of a file.                                              *)

\* The bridge calls rename after it has seen that the target is not there.
Move(t) ==
    /\ At(t, "idle")
    /\ \E r \in Renames :
         /\ disk[r[2]] = NoFile
         /\ call' = [call EXCEPT ![t] = [NoCall EXCEPT !.from = r[1], !.to = r[2]]]
    /\ Goto(t, "rename")
    /\ UNCHANGED <<cvars, nvars, dmutex, held, disk, leaked>>

Rename(t) ==
    /\ At(t, "rename")
    /\ dmutex = NoThread
    /\ dmutex' = t
    /\ Goto(t, "lookup")
    /\ UNCHANGED <<cvars, nvars, held, disk, call, leaked>>

\* renameNode(from, to) starts with findOrCreate(from); the temporary node it
\* makes for a file that is not open is not kept (NoNode).
FindNode(t, p) ==
    IF openFiles[p] = {} THEN call' = [call EXCEPT ![t].node = NoNode]
    ELSE \E d \in Lookups(p) : call' = [call EXCEPT ![t].node = d]

RenameLookup(t) ==
    /\ At(t, "lookup")
    /\ FindNode(t, call[t].from)
    /\ Goto(t, "setname")
    /\ UNCHANGED <<cvars, nvars, dmutex, held, disk, leaked>>

\* (Mutant: the node keeps its name.)
NodeRenamedNot(d, p) == nname
NodeRenamed(d, p) ==
    IF d = NoNode THEN nname ELSE [nname EXCEPT ![d] = p]

\* setName, then ctx->renameNode.  If setName fails the exception ends rename
\* with -EIO and nothing is undone.
RenameSetName(t) ==
    /\ At(t, "setname")
    /\ \/ /\ nname' = NodeRenamed(call[t].node, call[t].to)
          /\ openFiles' = RenamedTable(call[t].from, call[t].to)
          /\ Goto(t, "move")
          /\ call' = [call EXCEPT ![t].node = NoNode]
          /\ UNCHANGED dmutex
       \/ /\ MaySetNameFail
          /\ Done(t)
          /\ dmutex' = NoThread
          /\ UNCHANGED <<nname, openFiles>>
    /\ UNCHANGED <<nodeOf, nfile, held, disk, leaked>>

\* unix::rename (MoveFileW): the source must exist and the target must not.
CanMove(from, to) == disk[from] # NoFile /\ (from = to \/ disk[to] = NoFile)

RenameOnDisk(t) ==
    LET from == call[t].from
        to == call[t].to
    IN
    /\ At(t, "move")
    /\ \/ /\ CanMove(from, to)
          /\ disk' = [p \in Names |-> IF p = to THEN disk[from]
                                      ELSE IF p = from THEN NoFile ELSE disk[p]]
          /\ Goto(t, "renamed")
          /\ dmutex' = NoThread
       \/ /\ ~CanMove(from, to)
          /\ Goto(t, "undolookup")
          /\ UNCHANGED <<disk, dmutex>>
    /\ UNCHANGED <<cvars, nvars, held, call, leaked>>

\* The undo renames whatever is filed under the new path back to the old one.
UndoLookup(t) ==
    /\ At(t, "undolookup")
    /\ FindNode(t, call[t].to)
    /\ Goto(t, "undosetname")
    /\ UNCHANGED <<cvars, nvars, dmutex, held, disk, leaked>>

UndoSetName(t) ==
    /\ At(t, "undosetname")
    /\ \/ /\ nname' = NodeRenamed(call[t].node, call[t].from)
          /\ openFiles' = RenamedTable(call[t].to, call[t].from)
       \/ /\ MaySetNameFail
          /\ UNCHANGED <<nname, openFiles>>
    /\ dmutex' = NoThread
    /\ Done(t)
    /\ UNCHANGED <<nodeOf, nfile, held, disk, leaked>>

\* rename has returned to the caller, which now files its handles as renamed.
CallerRenamed(t) ==
    /\ At(t, "renamed")
    /\ held' = [h \in Holders |-> IF held[h] = call[t].from THEN call[t].to ELSE held[h]]
    /\ Done(t)
    /\ UNCHANGED <<cvars, nvars, dmutex, disk, leaked>>

----------------------------------------------------------------------------
(* encfs_mknod and encfs_unlink, as far as they change what is on disk: a  *)
(* file some node has open stays until that node is gone.                  *)

Mknod(t) ==
    /\ At(t, "idle")
    /\ \E p \in Names, f \in Files :
         /\ disk[p] = NoFile
         /\ \A q \in Names : disk[q] # f
         /\ disk' = [disk EXCEPT ![p] = f]
    /\ UNCHANGED <<cvars, nvars, dmutex, held, pc, call, leaked>>

OpenOnDisk(f) == \E d \in Nodes : Referenced(d) /\ nfile[d] = f

Unlink(t) ==
    /\ At(t, "idle")
    /\ dmutex = NoThread
    /\ \E p \in Names : /\ disk[p] # NoFile
                        /\ ~OpenOnDisk(disk[p])
                        /\ disk' = [disk EXCEPT ![p] = NoFile]
    /\ UNCHANGED <<cvars, nvars, dmutex, held, pc, call, leaked>>

\* The handlers that only look a node up (getattr and the like).
Lookup(t) ==
    /\ At(t, "idle")
    /\ dmutex = NoThread
    /\ UNCHANGED vars

Step(t) ==
    \/ Open(t) \/ OpenNode(t) \/ PutNode(t) \/ Release(t)
    \/ Move(t) \/ Rename(t) \/ RenameLookup(t) \/ RenameSetName(t) \/ RenameOnDisk(t)
    \/ UndoLookup(t) \/ UndoSetName(t) \/ CallerRenamed(t)
    \/ Mknod(t) \/ Unlink(t) \/ Lookup(t)

Next == \E t \in Threads : Step(t)

Spec == Init /\ [][Next]_vars

----------------------------------------------------------------------------
(* Properties.                                                             *)

PCs == {"idle", "open", "put", "rename", "lookup", "setname", "move", "undolookup",
        "undosetname", "renamed"}

\* Every variable has its type.
TypeOK ==
    /\ openFiles \in [Names -> SUBSET Holders]
    /\ nodeOf \in [Holders -> Nodes \cup {NoNode}]
    /\ nname \in [Nodes -> Names \cup {NoName}]
    /\ nfile \in [Nodes -> Files \cup {NoFile}]
    /\ dmutex \in Threads \cup {NoThread}
    /\ held \in [Holders -> Names \cup {NoName}]
    /\ disk \in [Names -> Files \cup {NoFile}]
    /\ pc \in [Threads -> PCs]
    /\ call \in [Threads -> [from : Names \cup {NoName}, to : Names \cup {NoName},
                             holder : Holders \cup {NoHolder},
                             node : Nodes \cup {NoNode}]]
    /\ leaked \subseteq [holder : Holders, path : Names]

Quiescent == \A t \in Threads : pc[t] = "idle"

\* A placeholder is filed under one path at most, and what is filed has not been
\* deleted: renameNode moves a set, it never copies one (Context.cpp:123-134).
FiledOnce ==
    \A h \in Holders :
        /\ \A p, q \in Names : h \in openFiles[p] /\ h \in openFiles[q] => p = q
        /\ (\E p \in Names : h \in openFiles[p]) => nodeOf[h] # NoNode

\* All the placeholders filed under a path point to the same node
\* (Context.cpp:114, "all the items in the set point to the same node").
OneNodePerPath ==
    \A p \in Names : \A g, h \in openFiles[p] : nodeOf[g] = nodeOf[h]

\* The node of an open file carries the path it is filed under ("The node is
\* keyed by filename", DirNode.cpp:719), and its descriptor is on the file that
\* path names on disk, after any sequence of renames done and undone.
NodeFollowsFile ==
    Quiescent => \A p \in Names : \A h \in openFiles[p] :
        nname[nodeOf[h]] = p /\ nfile[nodeOf[h]] = disk[p]

\* release finds the placeholder where it looks for it (the assertions
\* it != openFiles.end() and rmCount == 1, Context.cpp:159, 163).
ReleaseFinds == leaked = {}

\* When no handle is held and no call runs, the table is empty: openFileCount()
\* is what lets the idle monitor unmount (main.cpp:695-704).
CountReturnsToZero ==
    (Quiescent /\ leaked = {} /\ \A h \in Holders : held[h] = NoName) =>
        \A p \in Names : openFiles[p] = {}
=============================================================================
