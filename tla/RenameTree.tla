----------------------------- MODULE RenameTree -----------------------------
(***************************************************************************)
(* DirNode::rename on a volume with chained name IVs and external IV       *)
(* chaining.  The name of a file on disk is encoded with an IV that        *)
(* depends on the whole path of its directory, and its header with one     *)
(* that depends on its own path: moving a directory renames everything     *)
(* below it, one by one and in place, before the directory itself, and     *)
(* re-encodes every header.  RenameOp::apply does it and RenameOp::undo    *)
(* takes it back.  DirNode's mutex keeps other renames and opens out; a    *)
(* close takes another mutex and may come at any time.                     *)
(*                                                                         *)
(* A path is the sequence of the names on the way from the root, and an IV *)
(* is the path it was computed from (distinct paths have distinct IVs).    *)
(* Siblings never share a name.                                            *)
(***************************************************************************)
EXTENDS Naturals, Sequences, FiniteSets

CONSTANTS Entries, Files,  \* what is in the volume, and which of it is a file
          Chain,           \* entry -> the entries from the root down to it
          Names,           \* the names an entry may have
          Orders,          \* entry -> the orders readdir may list what is below it
          NoNode,
          MaxRefusals      \* bound: how often the OS refuses in one rename

Below(e) == {d \in Entries \ {e} : \E k \in DOMAIN Chain[d] : Chain[d][k] = e}

\* What the constants are taken to be.  Entries are a tree, with the files at its leaves.
\* An order has everything below an entry once, the contents of a directory before it,
\* as genRenameList goes into a directory before it adds it to its list.  A second
\* refusal is told from the first.
TreeAssumption ==
    /\ Files \subseteq Entries
    /\ Chain \in [Entries -> Seq(Entries)]
    /\ \A e \in Entries :
         /\ Chain[e] # <<>> /\ Chain[e][Len(Chain[e])] = e
         /\ \A k \in 1..Len(Chain[e]) : Chain[Chain[e][k]] = SubSeq(Chain[e], 1, k)
    /\ \A f \in Files : Below(f) = {}
    /\ \A e \in Entries : \A order \in Orders[e] :
         /\ order \in Seq(Below(e))
         /\ \A d \in Below(e) : \E k \in 1..Len(order) : order[k] = d
         /\ \A i, j \in 1..Len(order) :
              (order[i] = order[j] => i = j) /\ (order[i] \in Below(order[j]) => i < j)
    /\ MaxRefusals \in Nat /\ MaxRefusals >= 2

VARIABLES
    disk,     \* the path whose encoding an entry bears as its name on disk
    header,   \* the path whose IV a file's header is encoded with
    node,     \* the FileNode the table of open files has for a file
    queue,    \* the RenameOp's list, with the entry renamed as its last element
    at,       \* the place in queue: RenameOp::last, or undo's iterator
    pc,
    result,   \* what the last rename returned
    refusals, \* how often the OS has refused something in this rename
    before, after \* disk as it was before this rename, and as it should become

tree == <<disk, header>>
vars == <<disk, header, node, queue, at, pc, result, refusals, before, after>>

Garbled == <<>>   \* a header that was read with one IV and written with another
Depth(e) == Len(Chain[e])

\* lstat or open of the encoding of path p leads to entry e.
FoundAs(e, p) == \A k \in DOMAIN p : disk[Chain[e][k]] = SubSeq(p, 1, k)
Visible(e) == FoundAs(e, disk[e])
\* A name in e's directory, reached by the directory's old path.
NamedIn(e, dir, name) == FoundAs(e, dir) /\ disk[e] = name
DirOf(p) == SubSeq(p, 1, Len(p) - 1)

\* Windows does not move a directory while a file below it is open.
Busy(e) == \E f \in Below(e) \cap Files : node[f] # NoNode

Start(n) == [e \in Entries |-> [k \in 1..Depth(e) |-> n]]

Init ==
    /\ \E n \in Names : disk = Start(n)
    /\ header = [f \in Files |-> disk[f]]
    /\ node = [f \in Files |-> NoNode]
    /\ queue = <<>> /\ at = 0
    /\ pc = "idle" /\ result = "ok" /\ refusals = 0
    /\ before = disk /\ after = disk

----------------------------------------------------------------------------
(* Opening and closing.  That a close finds its node while a rename files  *)
(* it elsewhere is the subject of OpenFiles.                               *)

\* openNode: writable or not; a second open may only add writing.
Open(f) ==
    /\ pc = "idle" /\ Visible(f)
    /\ \E rw \in BOOLEAN :
         node' = [node EXCEPT ![f] =
                    IF node[f] = NoNode
                    THEN [key |-> disk[f], io |-> disk[f], iv |-> disk[f], rw |-> rw]
                    ELSE [node[f] EXCEPT !.rw = node[f].rw \/ rw]]
    /\ UNCHANGED <<tree, queue, at, pc, result, refusals, before, after>>

Close(f) ==
    /\ node[f] # NoNode
    /\ node' = [node EXCEPT ![f] = NoNode]
    /\ UNCHANGED <<tree, queue, at, pc, result, refusals, before, after>>

----------------------------------------------------------------------------
(* The parts of a rename.                                                  *)

\* A refusal the model shows no cause for, and one for an open file.
Refuse == refusals < MaxRefusals /\ refusals' = refusals + 1
Counted == refusals' = IF refusals < MaxRefusals THEN refusals + 1 ELSE refusals

Finish(res) ==
    /\ pc' = "idle" /\ result' = res /\ queue' = <<>> /\ at' = 0

\* What of an order can be decoded.
Listed(order) ==
    LET seen == {k \in 1..Len(order) : Visible(order[k])}
    IN [m \in 1..Cardinality(seen) |->
          order[CHOOSE k \in seen : Cardinality({j \in seen : j <= k}) = m]]

\* (Mutant: a directory is queued before what is in it.)
QueueParentFirst(e, order, name) ==
    LET To(p) == [p EXCEPT ![Depth(e)] = name]
        El(d) == [entry |-> d, from |-> disk[d], to |-> To(disk[d])]
        listed == Listed(order)
    IN [k \in 1..Len(listed) |-> El(listed[Len(listed) + 1 - k])] \o <<El(e)>>

\* (Mutant: the new name goes behind the path and not into it.)
QueueAppends(e, order, name) ==
    LET El(d) == [entry |-> d, from |-> disk[d], to |-> Append(disk[d], name)]
        listed == Listed(order)
    IN [k \in 1..Len(listed) |-> El(listed[k])] \o <<El(e)>>

\* genRenameList: what is below e and can be decoded, the contents of a
\* directory before the directory.
Queue(e, order, name) ==
    LET To(p) == [p EXCEPT ![Depth(e)] = name]
        El(d) == [entry |-> d, from |-> disk[d], to |-> To(disk[d])]
        listed == Listed(order)
    IN [k \in 1..Len(listed) |-> El(listed[k])] \o <<El(e)>>

\* findOrCreate: the path's node in the table, or one made for the occasion.
InTable(e, p) == e \in Files /\ node[e] # NoNode /\ node[e].key = p
NodeAt(e, p) == IF InTable(e, p) THEN node[e]
                ELSE [key |-> p, io |-> p, iv |-> p, rw |-> FALSE]

\* setIV finds a directory, or opens the file for writing if it is not.
Reaches(e, n, io) == (e \in Files /\ n.rw) \/ FoundAs(e, io)
MayRefuse(e, n) == e \in Files /\ ~n.rw

\* (Mutant: a table's node keeps its old external IV.)
SetNameKeepsIV(e, p, q) ==
    LET n == NodeAt(e, p) IN
    /\ header' = IF e \in Files
                 THEN [header EXCEPT ![e] = IF @ = n.iv THEN q ELSE Garbled]
                 ELSE header
    /\ node' = IF InTable(e, p)
               THEN [node EXCEPT ![e] = [@ EXCEPT !.key = q, !.io = q, !.rw = TRUE]]
               ELSE node

\* setName and EncFS_Context::renameNode, when they succeed: the header is
\* read with the IV the node has and written with the new path's.
SetName(e, p, q) ==
    LET n == NodeAt(e, p) IN
    /\ header' = IF e \in Files
                 THEN [header EXCEPT ![e] = IF @ = n.iv THEN q ELSE Garbled]
                 ELSE header
    /\ node' = IF InTable(e, p)
               THEN [node EXCEPT ![e] = [key |-> q, io |-> q, iv |-> q, rw |-> TRUE]]
               ELSE node

\* renameNode with forwardMode: the IV first, through the old name.
Forward(e, p, q) == Reaches(e, NodeAt(e, p), NodeAt(e, p).io) /\ SetName(e, p, q)
ForwardFails(e, p) ==
    /\ \/ ~Reaches(e, NodeAt(e, p), NodeAt(e, p).io) /\ UNCHANGED refusals
       \/ MayRefuse(e, NodeAt(e, p)) /\ Refuse
    /\ UNCHANGED <<header, node>>

\* renameNode without it: the names first, so through the new one.  When it
\* throws, the node's names are put back but not RawFileIO's.
Backward(e, p, q) == Reaches(e, NodeAt(e, p), q) /\ SetName(e, p, q)
BackwardFails(e, p, q) ==
    /\ \/ ~Reaches(e, NodeAt(e, p), q) /\ UNCHANGED refusals
       \/ MayRefuse(e, NodeAt(e, p)) /\ Refuse
    /\ node' = IF InTable(e, p) THEN [node EXCEPT ![e].io = q] ELSE node
    /\ UNCHANGED header

El == queue[at]
Last == at = Len(queue)

\* (Mutant: undo begins one element too early.)
UndoFromBefore(k) ==
    IF k <= 2 THEN Finish("failed")
    ELSE pc' = "undoDisk" /\ at' = k - 2 /\ UNCHANGED <<queue, result>>

\* RenameOp::undo begins with the element before last.
UndoFrom(k) ==
    IF k = 1 THEN Finish("failed")
    ELSE pc' = "undoDisk" /\ at' = k - 1 /\ UNCHANGED <<queue, result>>

----------------------------------------------------------------------------
(* The steps of a rename.                                                  *)

\* DirNode::rename up to the first renameNode.  Bound: a volume on which the
\* OS refused twice in one rename is not followed any further.
Rename(e) ==
    /\ pc = "idle" /\ refusals <= 1 /\ Visible(e)
    /\ \E name \in Names \ {disk[e][Depth(e)]} :
       LET moved == [d \in Entries |->
                       IF d = e \/ d \in Below(e)
                       THEN [disk[d] EXCEPT ![Depth(e)] = name] ELSE disk[d]]
       IN /\ before' = disk
          /\ after' = moved
          /\ \/ /\ \E order \in Orders[e] : queue' = Queue(e, order, name)
                /\ at' = 1 /\ pc' = "node" /\ refusals' = 0
                /\ UNCHANGED result
             \* opendir or encodePath fails while the list is made
             \/ /\ e \notin Files
                /\ Finish("failed") /\ refusals' = 1
    /\ UNCHANGED <<tree, node>>

\* renameNode.  RenameOp::apply catches what it throws and is undone; for the
\* entry itself, rename catches it and undoes nothing.
RenameNode ==
    /\ pc = "node"
    /\ \/ /\ Forward(El.entry, El.from, El.to)
          /\ pc' = "disk"
          /\ UNCHANGED <<queue, at, result, refusals>>
       \/ /\ ForwardFails(El.entry, El.from)
          /\ IF Last THEN Finish("failed") ELSE UndoFrom(at)
    /\ UNCHANGED <<disk, before, after>>

Moves(e, p, q) == NamedIn(e, DirOf(p), p) /\ ~Busy(e) /\ disk' = [disk EXCEPT ![e] = q]

\* unix::rename
RenameDisk ==
    /\ pc = "disk"
    /\ \/ /\ Moves(El.entry, El.from, El.to)
          /\ IF Last THEN Finish("ok")
             ELSE pc' = "node" /\ at' = at + 1 /\ UNCHANGED <<queue, result>>
          /\ UNCHANGED refusals
       \/ /\ \/ ~NamedIn(El.entry, DirOf(El.from), El.from) /\ UNCHANGED refusals
             \/ Busy(El.entry) /\ Counted
             \/ Refuse
          /\ pc' = "back"
          /\ UNCHANGED <<disk, queue, at, result>>
    /\ UNCHANGED <<header, node, before, after>>

\* The disk refused: renameNode back, then undo; what it throws for the entry
\* itself is caught behind the undo.
RenameNodeBack ==
    /\ pc = "back"
    /\ \/ /\ Backward(El.entry, El.to, El.from)
          /\ UndoFrom(at)
          /\ UNCHANGED refusals
       \/ /\ BackwardFails(El.entry, El.to, El.from)
          /\ IF Last THEN Finish("failed") ELSE UndoFrom(at)
    /\ UNCHANGED <<disk, before, after>>

\* undo goes on whether or not the disk obeys...
UndoDisk ==
    /\ pc = "undoDisk"
    /\ \/ /\ NamedIn(El.entry, DirOf(El.from), El.to) /\ ~Busy(El.entry)
          /\ disk' = [disk EXCEPT ![El.entry] = El.from]
          /\ UNCHANGED refusals
       \/ /\ \/ ~NamedIn(El.entry, DirOf(El.from), El.to) /\ UNCHANGED refusals
             \/ Busy(El.entry) /\ Counted
             \/ Refuse
          /\ UNCHANGED disk
    /\ pc' = "undoNode"
    /\ UNCHANGED <<header, node, queue, at, result, before, after>>

\* ...and whether or not renameNode throws.
UndoNode ==
    /\ pc = "undoNode"
    /\ \/ Backward(El.entry, El.to, El.from) /\ UNCHANGED refusals
       \/ BackwardFails(El.entry, El.to, El.from)
    /\ UndoFrom(at)
    /\ UNCHANGED <<disk, before, after>>

\* The handlers that only look a node up (getattr and the like).
Lookup == pc = "idle" /\ UNCHANGED vars

Next == \/ \E f \in Files : Open(f) \/ Close(f)
        \/ \E e \in Entries : Rename(e)
        \/ RenameNode \/ RenameDisk \/ RenameNodeBack \/ UndoDisk \/ UndoNode
        \/ Lookup

Spec == Init /\ [][Next]_vars

----------------------------------------------------------------------------
(* Properties.                                                             *)

PathOf(e) == {p \in Seq(Names) : Len(p) = Depth(e)}
Places == {p \in [Entries -> Seq(Names)] : \A e \in Entries : p[e] \in PathOf(e)}
Nodes == [key : Seq(Names), io : Seq(Names), iv : Seq(Names), rw : BOOLEAN]

\* Every variable has its type; the path of an entry has a name for each entry on its way.
TypeOK ==
    /\ disk \in Places /\ before \in Places /\ after \in Places
    /\ header \in [Files -> Seq(Names)]
    /\ \A f \in Files : header[f] \in PathOf(f) \cup {Garbled}
    /\ node \in [Files -> {NoNode} \cup Nodes]
    /\ queue \in Seq([entry : Entries, from : Seq(Names), to : Seq(Names)])
    /\ at \in 0..Len(queue) /\ (at = 0 <=> pc = "idle")
    /\ pc \in {"idle", "node", "disk", "back", "undoDisk", "undoNode"}
    /\ result \in {"ok", "failed"} /\ refusals \in 0..MaxRefusals

Rested == pc = "idle" /\ refusals <= 1

\* rename moves the whole tree or, if one thing failed, leaves the disk as it
\* was: a directory that could not be moved is where it was, with its contents.
\* Either way every entry is found by its path, its header can be read with that
\* path's IV, and its node is filed and named likewise (DirNode.cpp:217-356, 614-684).
AllOrNothing ==
    Rested => /\ disk = IF result = "ok" THEN after ELSE before
              /\ \A e \in Entries : Visible(e)
              /\ \A f \in Files :
                   /\ header[f] = disk[f]
                   /\ node[f] # NoNode =>
                        /\ node[f].key = disk[f] /\ node[f].io = disk[f]
                        /\ node[f].iv = header[f]

\* No header is ever re-encoded from an IV it was not written with, not even when the
\* undoing of a rename fails; and wherever a rename is cut short, at most one file's
\* header does not go with the file's name on disk: that of the one whose turn it is
\* (CipherFileIO.cpp:101-150, DirNode.cpp:221-304).
HeadersFollow ==
    /\ \A f \in Files : header[f] # Garbled
    /\ refusals <= 1 => Cardinality({f \in Files : header[f] # disk[f]}) <= 1

\* A rename fails only because the OS refused it something, never because its
\* own earlier steps took away what a later one looks for.
FailsForCause == pc = "idle" /\ result = "failed" => refusals > 0
=============================================================================
