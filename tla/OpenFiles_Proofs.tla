--------------------------- MODULE OpenFiles_Proofs ---------------------------
(***************************************************************************)
(* The table of open files, whatever the calls and their interleaving: a   *)
(* placeholder is filed once and leaves the table with its handle.  With   *)
(* one worker the table, the nodes and the disk agree about every open     *)
(* file; with several, only a path that is renamed can lose one.           *)
(***************************************************************************)
EXTENDS MCOpenFiles, FiniteSetTheorems, TLAPS

Calls == [from : Names \cup {NoName}, to : Names \cup {NoName},
          holder : Holders \cup {NoHolder}, node : Nodes \cup {NoNode}]

InFlight == {"open", "put"}
Renaming == {"rename", "lookup", "setname", "move", "undolookup", "undosetname", "renamed"}

\* What a thread at a place has among its arguments.
ShapeOf(at, c) ==
    /\ at = "idle" => c = NoCall
    /\ at \in InFlight => c.from \in Names /\ c.holder \in Holders
    /\ at = "put" => c.node \in Nodes
    /\ at \in Renaming => c.from \in Names /\ c.to \in Names /\ c.holder = NoHolder
Shape == \A t \in Threads : ShapeOf(pc[t], call[t])

\* No two calls are about one placeholder, and one that is being opened points nowhere.
OwnHolder ==
    \A t, u \in Threads :
      call[t].holder = call[u].holder /\ call[t].holder # NoHolder => t = u
InHand ==
    \A t \in Threads : pc[t] \in InFlight =>
      nodeOf[call[t].holder] = NoNode /\ held[call[t].holder] # NoName

\* A placeholder in the table has a handle, or was looked for in vain.
Filed(h) == \E p \in Names : h \in openFiles[p]
Filing ==
    \A h \in Holders : Filed(h) => held[h] # NoName \/ \E x \in leaked : x.holder = h

\* A node that a placeholder points at, or is about to, has a descriptor.
Opened ==
    /\ \A h \in Holders : nodeOf[h] # NoNode => nfile[nodeOf[h]] # NoFile
    /\ \A t \in Threads : pc[t] = "put" => nfile[call[t].node] # NoFile

IInv == TypeOK /\ Shape /\ OwnHolder /\ InHand /\ FiledOnce /\ Filing /\ Opened

----------------------------------------------------------------------------
(* The operators.                                                          *)

LEMMA NoCallIs ==
    /\ NoCall \in Calls /\ NoCall.from = NoName /\ NoCall.to = NoName
    /\ NoCall.holder = NoHolder /\ NoCall.node = NoNode
BY DEF NoCall, Calls

\* renameNode moves a set of the table and copies none.
LEMMA RenamedTableIs ==
    ASSUME openFiles \in [Names -> SUBSET Holders], NEW from \in Names, NEW to \in Names
    PROVE  LET new == RenamedTable(from, to)
           IN /\ new \in [Names -> SUBSET Holders]
              /\ \A p \in Names \ {from, to} : new[p] = openFiles[p]
              /\ new[to] = IF openFiles[from] = {} THEN openFiles[to] ELSE openFiles[from]
              /\ from # to => new[from] = {}
BY DEF RenamedTable

LEMMA RenamedTableFilesOnce ==
    ASSUME openFiles \in [Names -> SUBSET Holders], NEW from \in Names, NEW to \in Names,
           \A h \in Holders : \A p, q \in Names : h \in openFiles[p] /\ h \in openFiles[q] => p = q
    PROVE  LET new == RenamedTable(from, to)
           IN \A h \in Holders :
                /\ \A p, q \in Names : h \in new[p] /\ h \in new[q] => p = q
                /\ (\E p \in Names : h \in new[p]) => Filed(h)
<1> DEFINE new == RenamedTable(from, to)
<1> SUFFICES ASSUME NEW h \in Holders
             PROVE  /\ \A p, q \in Names : h \in new[p] /\ h \in new[q] => p = q
                    /\ (\E p \in Names : h \in new[p]) => Filed(h)
  OBVIOUS
<1>1. CASE openFiles[from] = {}
  BY <1>1 DEF RenamedTable, Filed
<1>2. CASE openFiles[from] # {}
  <2>1. \A p \in Names : new[p] = IF p = to THEN openFiles[from]
                                  ELSE IF p = from THEN {} ELSE openFiles[p]
    BY <1>2 DEF RenamedTable
  <2> HIDE DEF new
  <2> QED
    BY <2>1 DEF Filed
<1> QED
  BY <1>1, <1>2

\* A thread's step to a place and to arguments that go together.
LEMMA Calling ==
    ASSUME IInv, NEW t \in Threads, NEW at \in PCs, NEW c \in Calls,
           Goto(t, at), call' = [call EXCEPT ![t] = c], ShapeOf(at, c),
           c.holder # NoHolder => \A u \in Threads \ {t} : call[u].holder # c.holder
    PROVE  /\ pc' \in [Threads -> PCs] /\ call' \in [Threads -> Calls]
           /\ Shape' /\ OwnHolder'
           /\ pc'[t] = at /\ call'[t] = c
           /\ \A u \in Threads \ {t} : pc'[u] = pc[u] /\ call'[u] = call[u]
<1>1. /\ pc \in [Threads -> PCs] /\ call \in [Threads -> Calls]
      /\ Shape /\ OwnHolder
  BY DEF IInv, TypeOK, Calls
<1>2. /\ pc'[t] = at /\ call'[t] = c
      /\ \A u \in Threads \ {t} : pc'[u] = pc[u] /\ call'[u] = call[u]
      /\ pc' \in [Threads -> PCs] /\ call' \in [Threads -> Calls]
  BY <1>1 DEF Goto
<1>3. Shape'
  BY <1>1, <1>2 DEF Shape
<1>4. OwnHolder'
  BY <1>1, <1>2 DEF OwnHolder
<1> QED
  BY <1>2, <1>3, <1>4

----------------------------------------------------------------------------
(* The steps.                                                              *)

LEMMA OpenStep ==
    ASSUME IInv, NEW t \in Threads, Open(t) PROVE IInv'
<1>1. PICK p \in Names, h \in FreeHolders :
        /\ held' = [held EXCEPT ![h] = p]
        /\ call' = [call EXCEPT ![t] = [NoCall EXCEPT !.from = p, !.holder = h]]
  BY DEF Open
<1> DEFINE c == [NoCall EXCEPT !.from = p, !.holder = h]
<1>2. /\ h \in Holders /\ h # NoHolder /\ nodeOf[h] = NoNode /\ p # NoName
      /\ \A u \in Threads : call[u].holder # h
  BY NoneAssumption DEF FreeHolders
<1>3. c \in Calls /\ c.from = p /\ c.holder = h
  BY <1>2, NoCallIs DEF Calls
<1>4. call' = [call EXCEPT ![t] = c]
  BY <1>1
<1> HIDE DEF c
<1>5. /\ pc' \in [Threads -> PCs] /\ call' \in [Threads -> Calls]
      /\ Shape' /\ OwnHolder'
      /\ pc'[t] = "open" /\ call'[t] = c
      /\ \A u \in Threads \ {t} : pc'[u] = pc[u] /\ call'[u] = call[u]
  <2>1. ShapeOf("open", c) /\ Goto(t, "open") /\ "open" \in PCs
    BY <1>2, <1>3 DEF ShapeOf, InFlight, Renaming, Open, PCs
  <2> QED
    BY <1>2, <1>3, <1>4, <2>1, Calling
<1>6. TypeOK'
  BY <1>1, <1>2, <1>5 DEF IInv, TypeOK, Open, Calls, cvars, nvars
<1>7. InHand'
  BY <1>1, <1>2, <1>3, <1>5 DEF IInv, TypeOK, InHand, Shape, ShapeOf, Open, cvars
<1>8. FiledOnce' /\ Filing' /\ Opened'
  BY <1>1, <1>2, <1>5 DEF IInv, TypeOK, FiledOnce, Filing, Filed, Opened, Open, cvars, nvars
<1> QED
  BY <1>5, <1>6, <1>7, <1>8 DEF IInv

\* The nodes openNode may take are nodes.
LEMMA NodesForIs ==
    ASSUME IInv, NEW p \in Names, NEW d \in NodesFor(p)
    PROVE  d \in Nodes /\ (d \in FreshNodes \/ nfile[d] # NoFile)
BY DEF IInv, TypeOK, FiledOnce, Opened, NodesFor, FreshNodes, Lookups

LEMMA OpenNodeStep ==
    ASSUME IInv, NEW t \in Threads, OpenNode(t) PROVE IInv'
<1> DEFINE p == call[t].from
           h == call[t].holder
           at(d) == IF d \in FreshNodes THEN p ELSE nname[d]
           file(d) == IF d \in FreshNodes \/ nfile[d] = NoFile THEN disk[at(d)] ELSE nfile[d]
<1>1. PICK d \in NodesFor(p) :
        \/ /\ file(d) # NoFile
           /\ nname' = [nname EXCEPT ![d] = at(d)]
           /\ nfile' = [nfile EXCEPT ![d] = file(d)]
           /\ Goto(t, "put")
           /\ call' = [call EXCEPT ![t].node = d]
           /\ UNCHANGED held
        \/ /\ file(d) = NoFile
           /\ Done(t)
           /\ held' = [held EXCEPT ![h] = NoName]
           /\ UNCHANGED nvars
  BY DEF OpenNode
<1>2. /\ pc[t] = "open" /\ p \in Names /\ h \in Holders /\ call[t] \in Calls
      /\ UNCHANGED <<cvars, dmutex, disk, leaked>>
      /\ nodeOf[h] = NoNode
  BY DEF OpenNode, At, IInv, Shape, ShapeOf, InFlight, InHand, TypeOK, Calls
<1>3. d \in Nodes /\ (d \in FreshNodes \/ nfile[d] # NoFile)
  BY <1>2, NodesForIs
<1>4. \A u \in Threads \ {t} : call[u].holder # h
  BY <1>2, NoneAssumption DEF IInv, OwnHolder
<1>5. CASE /\ nname' = [nname EXCEPT ![d] = at(d)]
           /\ nfile' = [nfile EXCEPT ![d] = file(d)]
           /\ Goto(t, "put")
           /\ call' = [call EXCEPT ![t].node = d]
           /\ UNCHANGED held
           /\ file(d) # NoFile
  <2> DEFINE c == [call[t] EXCEPT !.node = d]
  <2>1. c \in Calls /\ c.from = p /\ c.holder = h /\ c.node = d
    BY <1>2, <1>3 DEF Calls
  <2>2. call' = [call EXCEPT ![t] = c]
    BY <1>5
  <2> HIDE DEF c
  <2>3. ShapeOf("put", c) /\ "put" \in PCs
    BY <1>2, <1>3, <2>1 DEF ShapeOf, InFlight, Renaming, PCs
  <2>4. /\ pc' \in [Threads -> PCs] /\ call' \in [Threads -> Calls]
        /\ Shape' /\ OwnHolder'
        /\ pc'[t] = "put" /\ call'[t] = c
        /\ \A u \in Threads \ {t} : pc'[u] = pc[u] /\ call'[u] = call[u]
    BY <1>4, <1>5, <2>1, <2>2, <2>3, Calling
  <2>5. TypeOK'
    <3>1. at(d) \in Names \cup {NoName} /\ nname' \in [Nodes -> Names \cup {NoName}]
      BY <1>2, <1>3, <1>5 DEF IInv, TypeOK
    <3>2. file(d) \in Files \cup {NoFile}
      <4>1. CASE d \in FreshNodes
        BY <1>2, <4>1 DEF IInv, TypeOK
      <4>2. CASE d \notin FreshNodes
        BY <1>3, <4>2 DEF IInv, TypeOK
      <4> QED
        BY <4>1, <4>2
    <3> QED
      BY <1>2, <1>3, <1>5, <2>4, <3>1, <3>2 DEF IInv, TypeOK, Calls, cvars
  <2>6. InHand'
    BY <1>2, <1>5, <2>1, <2>4 DEF IInv, InHand, Shape, ShapeOf, InFlight, cvars
  <2>7. FiledOnce' /\ Filing'
    BY <1>2, <1>5 DEF IInv, FiledOnce, Filing, Filed, cvars
  <2>8. Opened'
    BY <1>2, <1>3, <1>5, <2>1, <2>4 DEF IInv, TypeOK, Opened, cvars
  <2> QED
    BY <2>4, <2>5, <2>6, <2>7, <2>8 DEF IInv
<1>6. CASE Done(t) /\ held' = [held EXCEPT ![h] = NoName] /\ UNCHANGED nvars
  <2>1. Goto(t, "idle") /\ call' = [call EXCEPT ![t] = NoCall] /\ ShapeOf("idle", NoCall)
        /\ "idle" \in PCs
    BY <1>6 DEF Done, ShapeOf, InFlight, Renaming, PCs
  <2>2. /\ pc' \in [Threads -> PCs] /\ call' \in [Threads -> Calls]
        /\ Shape' /\ OwnHolder'
        /\ pc'[t] = "idle" /\ call'[t] = NoCall
        /\ \A u \in Threads \ {t} : pc'[u] = pc[u] /\ call'[u] = call[u]
    BY <2>1, NoCallIs, Calling
  <2>3. TypeOK'
    BY <1>2, <1>6, <2>2 DEF IInv, TypeOK, Calls, cvars, nvars
  <2>4. InHand'
    BY <1>2, <1>4, <1>6, <2>2 DEF IInv, TypeOK, InHand, Shape, ShapeOf, InFlight, cvars
  <2>5. FiledOnce' /\ Filing' /\ Opened'
    BY <1>2, <1>6, <2>2 DEF IInv, TypeOK, FiledOnce, Filing, Filed, Opened, cvars, nvars
  <2> QED
    BY <2>2, <2>3, <2>4, <2>5 DEF IInv
<1> QED
  BY <1>1, <1>5, <1>6

LEMMA PutNodeStep ==
    ASSUME IInv, NEW t \in Threads, PutNode(t) PROVE IInv'
<1> DEFINE p == call[t].from
           h == call[t].holder
<1>1. /\ pc[t] = "put" /\ p \in Names /\ h \in Holders /\ call[t].node \in Nodes
      /\ nodeOf[h] = NoNode /\ held[h] # NoName /\ call[t].node # NoNode
      /\ nfile[call[t].node] # NoFile
  BY NoneAssumption DEF PutNode, At, IInv, Shape, ShapeOf, InFlight, InHand, Opened
<1>2. /\ nodeOf' = [nodeOf EXCEPT ![h] = call[t].node]
      /\ openFiles' = [openFiles EXCEPT ![p] = @ \cup {h}]
      /\ Goto(t, "idle") /\ call' = [call EXCEPT ![t] = NoCall]
      /\ UNCHANGED <<nvars, dmutex, held, disk, leaked>>
  BY DEF PutNode, Done
<1>3. ShapeOf("idle", NoCall) /\ "idle" \in PCs
  BY DEF ShapeOf, InFlight, Renaming, PCs
<1>4. /\ pc' \in [Threads -> PCs] /\ call' \in [Threads -> Calls]
      /\ Shape' /\ OwnHolder'
      /\ pc'[t] = "idle" /\ call'[t] = NoCall
      /\ \A u \in Threads \ {t} : pc'[u] = pc[u] /\ call'[u] = call[u]
  BY <1>2, <1>3, NoCallIs, Calling
<1>5. \A u \in Threads \ {t} : call[u].holder # h
  BY <1>1, NoneAssumption DEF IInv, OwnHolder
<1>6. TypeOK'
  BY <1>1, <1>2, <1>4 DEF IInv, TypeOK, Calls, nvars
<1>7. InHand'
  BY <1>1, <1>2, <1>4, <1>5 DEF IInv, TypeOK, InHand, Shape, ShapeOf, InFlight
<1>8. ~Filed(h)
  BY <1>1 DEF IInv, FiledOnce, Filed
<1>9. FiledOnce'
  BY <1>1, <1>2, <1>8 DEF IInv, TypeOK, FiledOnce, Filed
<1>10. Filing' /\ Opened'
  BY SMTT(30), <1>1, <1>2, <1>4 DEF IInv, TypeOK, Filing, Filed, Opened, nvars
<1> QED
  BY <1>4, <1>6, <1>7, <1>9, <1>10 DEF IInv

\* release takes the placeholder out of the set it was opened under, or leaks it.
LEMMA ReleaseStep ==
    ASSUME IInv, NEW t \in Threads, Release(t) PROVE IInv'
<1>1. PICK h \in Holders :
        /\ held[h] # NoName
        /\ \A u \in Threads : call[u].holder # h
        /\ held' = [held EXCEPT ![h] = NoName]
        /\ \/ /\ Found(h, held[h])
              /\ openFiles' = [openFiles EXCEPT ![held[h]] = @ \ {h}]
              /\ nodeOf' = [nodeOf EXCEPT ![h] = NoNode]
              /\ UNCHANGED leaked
           \/ /\ ~Found(h, held[h])
              /\ leaked' = leaked \cup {[holder |-> h, path |-> held[h]]}
              /\ UNCHANGED cvars
  BY DEF Release
<1>2. held[h] \in Names /\ UNCHANGED <<nvars, dmutex, disk, pc, call>>
  BY <1>1 DEF IInv, TypeOK, Release
<1>3. Shape' /\ OwnHolder'
  BY <1>2 DEF IInv, Shape, OwnHolder
<1>4. TypeOK'
  BY <1>1, <1>2 DEF IInv, TypeOK, cvars, nvars
<1>5. InHand'
  BY <1>1, <1>2 DEF IInv, TypeOK, InHand, Shape, ShapeOf, cvars
<1>6. FiledOnce' /\ Filing'
  <2>1. CASE /\ Found(h, held[h])
             /\ openFiles' = [openFiles EXCEPT ![held[h]] = @ \ {h}]
             /\ nodeOf' = [nodeOf EXCEPT ![h] = NoNode]
             /\ UNCHANGED leaked
    <3>1. \A p \in Names : h \notin openFiles'[p]
      BY <1>2, <2>1 DEF IInv, TypeOK, FiledOnce, Found
    <3>2. \A p \in Names : openFiles'[p] \subseteq openFiles[p]
      BY <1>2, <2>1 DEF IInv, TypeOK
    <3>3. \A g \in Holders \ {h} : nodeOf'[g] = nodeOf[g] /\ held'[g] = held[g]
      BY <1>1, <2>1 DEF IInv, TypeOK
    <3> QED
      BY <2>1, <3>1, <3>2, <3>3 DEF IInv, FiledOnce, Filing, Filed
  <2>2. CASE /\ leaked' = leaked \cup {[holder |-> h, path |-> held[h]]}
             /\ UNCHANGED cvars
    <3>1. \E x \in leaked' : x.holder = h
      <4>1. [holder |-> h, path |-> held[h]].holder = h
        OBVIOUS
      <4>2. [holder |-> h, path |-> held[h]] \in leaked'
        BY <2>2
      <4> QED
        BY <4>1, <4>2
    <3>2. \A g \in Holders \ {h} : held'[g] = held[g]
      BY <1>1 DEF IInv, TypeOK
    <3>3. Filing'
      BY <2>2, <3>1, <3>2 DEF IInv, Filing, Filed, cvars
    <3>4. FiledOnce'
      BY <2>2 DEF IInv, FiledOnce, cvars
    <3> QED
      BY <3>3, <3>4
  <2> QED
    BY <1>1, <2>1, <2>2
<1>7. Opened'
  BY <1>1, <1>2 DEF IInv, TypeOK, Opened, cvars, nvars
<1> QED
  BY <1>3, <1>4, <1>5, <1>6, <1>7 DEF IInv

\* A step of rename: a thread goes on, with the table as it was or one set moved.
LEMMA RenamingStep ==
    ASSUME IInv, NEW t \in Threads, NEW at \in PCs, NEW c \in Calls,
           Goto(t, at), call' = [call EXCEPT ![t] = c], ShapeOf(at, c),
           c.holder = NoHolder, at \notin InFlight,
           NEW from \in Names, NEW to \in Names,
           openFiles' \in {openFiles, RenamedTable(from, to)},
           nname' \in [Nodes -> Names \cup {NoName}],
           dmutex' \in Threads \cup {NoThread}, disk' \in [Names -> Files \cup {NoFile}],
           UNCHANGED <<nodeOf, nfile, leaked>>,
           held' \in [Holders -> Names \cup {NoName}],
           \A h \in Holders : held[h] # NoName => held'[h] # NoName
    PROVE  IInv'
<1>1. /\ pc' \in [Threads -> PCs] /\ call' \in [Threads -> Calls]
      /\ Shape' /\ OwnHolder'
      /\ pc'[t] = at /\ call'[t] = c
      /\ \A u \in Threads \ {t} : pc'[u] = pc[u] /\ call'[u] = call[u]
  BY Calling
<1>2. openFiles \in [Names -> SUBSET Holders]
  BY DEF IInv, TypeOK
<1>3. openFiles' \in [Names -> SUBSET Holders]
  BY <1>2, RenamedTableIs
<1>4. TypeOK'
  BY <1>1, <1>3 DEF IInv, TypeOK, Calls
<1>5. InHand'
  BY <1>1 DEF IInv, InHand, Shape, ShapeOf
<1>6. \A h \in Holders : /\ \A p, q \in Names : h \in openFiles'[p] /\ h \in openFiles'[q] => p = q
                         /\ (\E p \in Names : h \in openFiles'[p]) => Filed(h)
  BY <1>2, RenamedTableFilesOnce DEF IInv, FiledOnce, Filed
<1>7. FiledOnce' /\ Filing'
  BY <1>6 DEF IInv, FiledOnce, Filing, Filed
<1>8. Opened'
  BY <1>1 DEF IInv, Opened, InFlight
<1> QED
  BY <1>1, <1>4, <1>5, <1>7, <1>8 DEF IInv

LEMMA MoveStep ==
    ASSUME IInv, NEW t \in Threads, Move(t) PROVE IInv'
<1>1. PICK r \in Renames :
        call' = [call EXCEPT ![t] = [NoCall EXCEPT !.from = r[1], !.to = r[2]]]
  BY DEF Move
<1> DEFINE c == [NoCall EXCEPT !.from = r[1], !.to = r[2]]
<1>2. r[1] \in Names /\ r[2] \in Names
  BY RenamesAssumption
<1>3. c \in Calls /\ c.from = r[1] /\ c.to = r[2] /\ c.holder = NoHolder
  BY <1>2, NoCallIs DEF Calls
<1>4. call' = [call EXCEPT ![t] = c] /\ Goto(t, "rename")
      /\ UNCHANGED <<cvars, nvars, dmutex, held, disk, leaked>>
  BY <1>1 DEF Move
<1> HIDE DEF c
<1>5. ShapeOf("rename", c) /\ "rename" \in PCs /\ "rename" \notin InFlight
  BY <1>2, <1>3 DEF ShapeOf, InFlight, Renaming, PCs
<1>6. TypeOK
  BY DEF IInv
<1> QED
  BY <1>2, <1>3, <1>4, <1>5, <1>6, RenamingStep DEF TypeOK, cvars, nvars

\* The steps of a rename that is under way.
LEMMA RenameSteps ==
    ASSUME IInv, NEW t \in Threads,
           \/ Rename(t) \/ RenameLookup(t) \/ RenameSetName(t) \/ RenameOnDisk(t)
           \/ UndoLookup(t) \/ UndoSetName(t) \/ CallerRenamed(t)
    PROVE  IInv'
<1> DEFINE from == call[t].from
           to == call[t].to
           with(d) == [call[t] EXCEPT !.node = d]
<1>1. pc[t] \in Renaming
  BY DEF Rename, RenameLookup, RenameSetName, RenameOnDisk, UndoLookup, UndoSetName,
         CallerRenamed, At, Renaming
<1>2. /\ TypeOK /\ from \in Names /\ to \in Names /\ call[t] \in Calls
      /\ call[t].holder = NoHolder
  BY <1>1 DEF IInv, Shape, ShapeOf, TypeOK, Calls
<1>3. \A at \in Renaming : at \in PCs /\ at \notin InFlight /\ ShapeOf(at, call[t])
  BY <1>2 DEF ShapeOf, InFlight, Renaming, PCs
<1>4. /\ "idle" \in PCs /\ "idle" \notin InFlight /\ ShapeOf("idle", NoCall)
      /\ NoCall \in Calls /\ NoCall.holder = NoHolder
  BY NoCallIs DEF ShapeOf, InFlight, Renaming, PCs
<1>5. \A d \in Nodes \cup {NoNode} : \A at \in Renaming :
        with(d) \in Calls /\ with(d).holder = NoHolder /\ ShapeOf(at, with(d))
  BY <1>2 DEF Calls, ShapeOf, InFlight, Renaming
<1>6. \A d \in Nodes \cup {NoNode}, p \in Names :
        NodeRenamed(d, p) \in [Nodes -> Names \cup {NoName}]
  BY <1>2 DEF NodeRenamed, TypeOK
<1>7. call[t].node \in Nodes \cup {NoNode} /\ NoNode \in Nodes \cup {NoNode}
  BY <1>2 DEF Calls
<1>8. ASSUME NEW p \in Names, FindNode(t, p)
      PROVE  \E d \in Nodes \cup {NoNode} : call' = [call EXCEPT ![t] = with(d)]
  <2>1. Lookups(p) \subseteq Nodes \cup {NoNode}
    BY <1>2 DEF Lookups, TypeOK
  <2> QED
    BY <1>8, <2>1 DEF FindNode
<1>9. call' = call => call' = [call EXCEPT ![t] = call[t]]
  BY <1>2 DEF TypeOK
<1> HIDE DEF with
<1>10. CASE Rename(t)
  <2>1. /\ Goto(t, "lookup") /\ dmutex' = t /\ UNCHANGED <<cvars, nvars, held, disk, call, leaked>>
        /\ "lookup" \in Renaming
    BY <1>10 DEF Rename, Renaming
  <2> QED
    BY <1>2, <1>3, <1>9, <2>1, RenamingStep DEF TypeOK, cvars, nvars
<1>11. CASE RenameLookup(t)
  <2>1. PICK d \in Nodes \cup {NoNode} : call' = [call EXCEPT ![t] = with(d)]
    BY <1>2, <1>8, <1>11 DEF RenameLookup
  <2>2. /\ Goto(t, "setname") /\ UNCHANGED <<cvars, nvars, dmutex, held, disk, leaked>>
        /\ "setname" \in Renaming
    BY <1>11 DEF RenameLookup, Renaming
  <2> QED
    BY <1>2, <1>3, <1>5, <2>1, <2>2, RenamingStep DEF TypeOK, cvars, nvars
<1>12. CASE RenameSetName(t)
  <2>1. UNCHANGED <<nodeOf, nfile, held, disk, leaked>>
    BY <1>12 DEF RenameSetName
  <2>2. CASE /\ nname' = NodeRenamed(call[t].node, to)
             /\ openFiles' = RenamedTable(from, to)
             /\ Goto(t, "move")
             /\ call' = [call EXCEPT ![t].node = NoNode]
             /\ UNCHANGED dmutex
    <3>1. call' = [call EXCEPT ![t] = with(NoNode)] /\ "move" \in Renaming
      BY <2>2 DEF with, Renaming
    <3> QED
      BY <1>2, <1>3, <1>5, <1>6, <1>7, <2>1, <2>2, <3>1, RenamingStep DEF TypeOK
  <2>3. CASE Done(t) /\ dmutex' = NoThread /\ UNCHANGED <<nname, openFiles>>
    BY <1>2, <1>4, <2>1, <2>3, RenamingStep DEF TypeOK, Done
  <2> QED
    BY <1>12, <2>2, <2>3 DEF RenameSetName
<1>13. CASE RenameOnDisk(t)
  <2>1. /\ UNCHANGED <<cvars, nvars, held, call, leaked>>
        /\ disk' \in [Names -> Files \cup {NoFile}] /\ dmutex' \in Threads \cup {NoThread}
        /\ \E at \in {"renamed", "undolookup"} : Goto(t, at)
    BY <1>2, <1>13 DEF RenameOnDisk, TypeOK
  <2>2. PICK at \in {"renamed", "undolookup"} : Goto(t, at)
    BY <2>1
  <2>3. at \in Renaming
    BY DEF Renaming
  <2> QED
    BY <1>2, <1>3, <1>9, <2>1, <2>2, <2>3, RenamingStep DEF TypeOK, cvars, nvars
<1>14. CASE UndoLookup(t)
  <2>1. PICK d \in Nodes \cup {NoNode} : call' = [call EXCEPT ![t] = with(d)]
    BY <1>2, <1>8, <1>14 DEF UndoLookup
  <2>2. /\ Goto(t, "undosetname") /\ UNCHANGED <<cvars, nvars, dmutex, held, disk, leaked>>
        /\ "undosetname" \in Renaming
    BY <1>14 DEF UndoLookup, Renaming
  <2> QED
    BY <1>2, <1>3, <1>5, <2>1, <2>2, RenamingStep DEF TypeOK, cvars, nvars
<1>15. CASE UndoSetName(t)
  <2>1. /\ UNCHANGED <<nodeOf, nfile, held, disk, leaked>> /\ dmutex' = NoThread /\ Done(t)
        /\ \/ /\ nname' = NodeRenamed(call[t].node, from)
              /\ openFiles' = RenamedTable(to, from)
           \/ UNCHANGED <<nname, openFiles>>
    BY <1>15 DEF UndoSetName
  <2>2. nname' \in [Nodes -> Names \cup {NoName}] /\ openFiles' \in {openFiles, RenamedTable(to, from)}
    <3>1. NodeRenamed(call[t].node, from) \in [Nodes -> Names \cup {NoName}]
      BY <1>2, <1>6, <1>7
    <3> QED
      BY <1>2, <2>1, <3>1 DEF TypeOK
  <2> QED
    BY <1>2, <1>4, <2>1, <2>2, RenamingStep DEF TypeOK, Done
<1>16. CASE CallerRenamed(t)
  <2>1. /\ held' = [h \in Holders |-> IF held[h] = from THEN to ELSE held[h]] /\ Done(t)
        /\ UNCHANGED <<cvars, nvars, dmutex, disk, leaked>>
    BY <1>16 DEF CallerRenamed
  <2>2. /\ held' \in [Holders -> Names \cup {NoName}]
        /\ \A h \in Holders : held[h] # NoName => held'[h] # NoName
    BY <1>2, <2>1, NoneAssumption DEF TypeOK
  <2> QED
    BY <1>2, <1>4, <2>1, <2>2, RenamingStep DEF TypeOK, Done, cvars, nvars
<1> QED
  BY <1>10, <1>11, <1>12, <1>13, <1>14, <1>15, <1>16

\* mknod and unlink change the disk alone, and a lookup nothing.
LEMMA DiskStep ==
    ASSUME IInv, NEW t \in Threads, Mknod(t) \/ Unlink(t) \/ Lookup(t) PROVE IInv'
<1>1. UNCHANGED <<cvars, nvars, dmutex, held, pc, call, leaked>>
  BY DEF Mknod, Unlink, Lookup, vars
<1>2. disk' \in [Names -> Files \cup {NoFile}]
  BY DEF IInv, TypeOK, Mknod, Unlink, Lookup, vars
<1> QED
  BY <1>1, <1>2 DEF IInv, TypeOK, Shape, OwnHolder, InHand, FiledOnce, Filing, Filed, Opened,
                    cvars, nvars

LEMMA StepIInv ==
    ASSUME IInv, NEW t \in Threads, Step(t) PROVE IInv'
<1>1. CASE Open(t)
  BY <1>1, OpenStep
<1>2. CASE OpenNode(t)
  BY <1>2, OpenNodeStep
<1>3. CASE PutNode(t)
  BY <1>3, PutNodeStep
<1>4. CASE Release(t)
  BY <1>4, ReleaseStep
<1>5. CASE Move(t)
  BY <1>5, MoveStep
<1>6. CASE \/ Rename(t) \/ RenameLookup(t) \/ RenameSetName(t) \/ RenameOnDisk(t)
           \/ UndoLookup(t) \/ UndoSetName(t) \/ CallerRenamed(t)
  BY <1>6, RenameSteps
<1>7. CASE Mknod(t) \/ Unlink(t) \/ Lookup(t)
  BY <1>7, DiskStep
<1> QED
  BY <1>1, <1>2, <1>3, <1>4, <1>5, <1>6, <1>7 DEF Step

LEMMA StutterIInv == IInv /\ UNCHANGED vars => IInv'
BY DEF IInv, TypeOK, Shape, OwnHolder, InHand, FiledOnce, Filing, Filed, Opened, vars, cvars, nvars

LEMMA InitIInv == Init => IInv
<1> SUFFICES ASSUME Init PROVE IInv
  OBVIOUS
<1>1. TypeOK
  BY NoCallIs DEF Init, TypeOK, Calls, PCs
<1>2. Shape /\ OwnHolder /\ InHand
  BY NoCallIs DEF Init, Shape, ShapeOf, OwnHolder, InHand, InFlight, Renaming
<1>3. FiledOnce /\ Filing /\ Opened
  BY DEF Init, FiledOnce, Filing, Filed, Opened
<1> QED
  BY <1>1, <1>2, <1>3 DEF IInv

\* Whatever the calls and their interleaving, a placeholder that is being opened is
\* in nobody else's hands, what is in the table has a handle or was leaked, and its
\* node has a descriptor (putNode and eraseNode, Context.cpp:136-171).
THEOREM Invariant == Spec => []IInv
<1>1. Init => IInv
  BY InitIInv
<1>2. IInv /\ [Next]_vars => IInv'
  BY StepIInv, StutterIInv DEF Next
<1> QED
  BY <1>1, <1>2, PTL DEF Spec

\* Every variable has its type.
THEOREM TypeCorrect == Spec => []TypeOK
BY Invariant, PTL DEF IInv

\* renameNode never files a placeholder twice, and none is deleted that is still
\* filed (Context.cpp:123-171).
THEOREM AlwaysFiledOnce == Spec => []FiledOnce
BY Invariant, PTL DEF IInv

\* Unless release failed to find a placeholder, the table is empty when the last
\* handle is gone, so that the idle monitor may unmount (Context.cpp:145-171,
\* main.cpp:695-704).
THEOREM CountAlwaysReturns == Spec => []CountReturnsToZero
<1>1. IInv => CountReturnsToZero
  BY DEF IInv, TypeOK, Filing, Filed, CountReturnsToZero
<1> QED
  BY <1>1, Invariant, PTL

----------------------------------------------------------------------------
(* One worker: what the table, the nodes, the callers and the disk say of  *)
(* each other between any two steps.  From setName until the file has been *)
(* moved the node is ahead of the disk, and until rename has returned the  *)
(* table is ahead of the caller.                                           *)

OnDisk(t, p) == IF pc[t] = "move" /\ p = call[t].to THEN disk[call[t].from] ELSE disk[p]
FiledAs(t, p) ==
    IF pc[t] \in {"move", "renamed"} /\ p = call[t].from THEN call[t].to ELSE p

TableAgrees(t) ==
    \A p \in Names : \A h \in openFiles[p] :
      /\ nname[nodeOf[h]] = p
      /\ nfile[nodeOf[h]] = OnDisk(t, p) /\ OnDisk(t, p) # NoFile
HeldAgrees(t) ==
    \A h \in Holders : held[h] # NoName /\ call[t].holder # h =>
      h \in openFiles[FiledAs(t, held[h])]
OpenAgrees(t) ==
    /\ pc[t] \in InFlight => held[call[t].holder] = call[t].from
    /\ pc[t] = "put" =>
         /\ nname[call[t].node] = call[t].from
         /\ nfile[call[t].node] = disk[call[t].from] /\ disk[call[t].from] # NoFile
         /\ \A h \in openFiles[call[t].from] : nodeOf[h] = call[t].node
RenameAgrees(t) ==
    /\ pc[t] \in Renaming \ {"renamed"} => disk[call[t].to] = NoFile
    /\ pc[t] = "setname" =>
         /\ call[t].node = NoNode <=> openFiles[call[t].from] = {}
         /\ \A h \in openFiles[call[t].from] : nodeOf[h] = call[t].node
    /\ pc[t] = "move" /\ call[t].from # call[t].to => openFiles[call[t].from] = {}
    /\ pc[t] \in {"undolookup", "undosetname"} => disk[call[t].from] = NoFile
    /\ pc[t] = "undosetname" => call[t].node = NoNode
Agrees(t) ==
    /\ leaked = {} /\ OneNodePerPath
    /\ TableAgrees(t) /\ HeldAgrees(t) /\ OpenAgrees(t) /\ RenameAgrees(t)

LEMMA OpenAgreesStep ==
    ASSUME IInv, IInv', NEW t \in Threads, Agrees(t), Open(t) PROVE Agrees(t)'
<1>1. PICK p \in Names, h \in FreeHolders :
        /\ held' = [held EXCEPT ![h] = p]
        /\ call' = [call EXCEPT ![t] = [NoCall EXCEPT !.from = p, !.holder = h]]
  BY DEF Open
<1> DEFINE c == [NoCall EXCEPT !.from = p, !.holder = h]
<1>2. c.from = p /\ c.holder = h /\ h \in Holders
  BY NoCallIs DEF Calls, FreeHolders
<1> HIDE DEF c
<1>3. /\ pc[t] = "idle" /\ pc'[t] = "open" /\ call'[t] = c
      /\ UNCHANGED <<openFiles, nodeOf, nname, nfile, disk, leaked>>
  BY <1>1 DEF Open, At, Goto, IInv, TypeOK, c, cvars, nvars
<1>4. call[t].holder = NoHolder
  BY <1>3, NoCallIs DEF IInv, Shape, ShapeOf
<1>5. \A g \in Holders : held'[g] = IF g = h THEN p ELSE held[g]
  BY <1>1 DEF IInv, TypeOK
<1>6. HeldAgrees(t)'
  BY <1>2, <1>3, <1>4, <1>5, NoneAssumption DEF Agrees, HeldAgrees, FiledAs
<1>7. TableAgrees(t)' /\ OpenAgrees(t)' /\ RenameAgrees(t)' /\ OneNodePerPath'
  BY <1>2, <1>3, <1>5 DEF Agrees, TableAgrees, OnDisk, OpenAgrees, RenameAgrees, OneNodePerPath,
                          InFlight, Renaming
<1> QED
  BY <1>3, <1>6, <1>7 DEF Agrees

LEMMA OpenNodeAgreesStep ==
    ASSUME IInv, IInv', NEW t \in Threads, Agrees(t), OpenNode(t) PROVE Agrees(t)'
<1> DEFINE p == call[t].from
           h == call[t].holder
           at(d) == IF d \in FreshNodes THEN p ELSE nname[d]
           file(d) == IF d \in FreshNodes \/ nfile[d] = NoFile THEN disk[at(d)] ELSE nfile[d]
<1>1. PICK d \in NodesFor(p) :
        \/ /\ file(d) # NoFile
           /\ nname' = [nname EXCEPT ![d] = at(d)]
           /\ nfile' = [nfile EXCEPT ![d] = file(d)]
           /\ Goto(t, "put")
           /\ call' = [call EXCEPT ![t].node = d]
           /\ UNCHANGED held
        \/ /\ file(d) = NoFile
           /\ Done(t)
           /\ held' = [held EXCEPT ![h] = NoName]
           /\ UNCHANGED nvars
  BY DEF OpenNode
<1>2. /\ pc[t] = "open" /\ p \in Names /\ h \in Holders /\ call[t] \in Calls
      /\ UNCHANGED <<openFiles, nodeOf, dmutex, disk, leaked>>
      /\ TypeOK
  BY DEF OpenNode, At, IInv, Shape, ShapeOf, InFlight, InHand, TypeOK, Calls, cvars
<1>3. d \in Nodes
  BY <1>2, NodesForIs
<1>4. OneNodePerPath'
  BY <1>2 DEF Agrees, OneNodePerPath
<1>5. CASE /\ nname' = [nname EXCEPT ![d] = at(d)]
           /\ nfile' = [nfile EXCEPT ![d] = file(d)]
           /\ Goto(t, "put")
           /\ call' = [call EXCEPT ![t].node = d]
           /\ UNCHANGED held
           /\ file(d) # NoFile
  <2>1. /\ pc'[t] = "put" /\ call'[t].from = p /\ call'[t].holder = h /\ call'[t].node = d
    BY <1>2, <1>5 DEF TypeOK, Goto, Calls
  <2>2. HeldAgrees(t)' /\ RenameAgrees(t)'
    BY <1>2, <1>5, <2>1 DEF Agrees, HeldAgrees, FiledAs, RenameAgrees, Renaming
  <2>3. CASE openFiles[p] = {}
    <3>1. d \in FreshNodes /\ nname'[d] = p /\ nfile'[d] = disk[p] /\ disk[p] # NoFile
      BY <1>2, <1>3, <1>5, <2>3 DEF NodesFor, TypeOK
    <3>2. \A q \in Names : \A g \in openFiles[q] :
            nodeOf[g] # d /\ nname'[nodeOf[g]] = nname[nodeOf[g]] /\ nfile'[nodeOf[g]] = nfile[nodeOf[g]]
      BY <1>2, <1>3, <1>5, <3>1 DEF FreshNodes, Referenced, TypeOK
    <3>3. TableAgrees(t)'
      BY <1>2, <2>1, <3>2 DEF Agrees, TableAgrees, OnDisk
    <3>4. OpenAgrees(t)'
      BY <1>2, <1>5, <2>1, <2>3, <3>1 DEF Agrees, OpenAgrees, InFlight
    <3> QED
      BY <1>2, <1>4, <2>2, <3>3, <3>4 DEF Agrees
  <2>4. CASE openFiles[p] # {}
    <3>1. /\ d \notin FreshNodes /\ \A g \in openFiles[p] : nodeOf[g] = d
          /\ \E g \in openFiles[p] : nodeOf[g] = d
      BY <1>2, <2>4 DEF NodesFor, Lookups, FreshNodes, Referenced, Agrees, OneNodePerPath, TypeOK
    <3>2. nname[d] = p /\ nfile[d] = disk[p] /\ disk[p] # NoFile
      BY <1>2, <3>1 DEF Agrees, TableAgrees, OnDisk
    <3>3. nname' = nname /\ nfile' = nfile
      BY <1>2, <1>3, <1>5, <3>1, <3>2 DEF TypeOK
    <3>4. TableAgrees(t)' /\ OpenAgrees(t)'
      BY <1>2, <1>5, <2>1, <3>1, <3>2, <3>3 DEF Agrees, TableAgrees, OnDisk, OpenAgrees, InFlight
    <3> QED
      BY <1>2, <1>4, <2>2, <3>4 DEF Agrees
  <2> QED
    BY <2>3, <2>4
<1>6. CASE Done(t) /\ held' = [held EXCEPT ![h] = NoName] /\ UNCHANGED nvars
  <2>1. pc'[t] = "idle" /\ call'[t] = NoCall
    BY <1>2, <1>6 DEF Done, Goto, TypeOK
  <2>2. \A g \in Holders : held'[g] = IF g = h THEN NoName ELSE held[g]
    BY <1>2, <1>6 DEF TypeOK
  <2>3. HeldAgrees(t)'
    BY <1>2, <2>1, <2>2 DEF Agrees, HeldAgrees, FiledAs
  <2>4. TableAgrees(t)' /\ OpenAgrees(t)' /\ RenameAgrees(t)'
    BY <1>2, <1>6, <2>1 DEF Agrees, TableAgrees, OnDisk, OpenAgrees, RenameAgrees, Renaming, InFlight,
                            nvars
  <2> QED
    BY <1>2, <1>4, <2>3, <2>4 DEF Agrees
<1> QED
  BY <1>1, <1>5, <1>6

LEMMA PutNodeAgreesStep ==
    ASSUME IInv, IInv', NEW t \in Threads, Agrees(t), PutNode(t) PROVE Agrees(t)'
<1> DEFINE p == call[t].from
           h == call[t].holder
           d == call[t].node
<1>1. /\ pc[t] = "put" /\ p \in Names /\ h \in Holders /\ d \in Nodes /\ TypeOK
      /\ nodeOf[h] = NoNode /\ held[h] = p /\ pc'[t] = "idle" /\ call'[t] = NoCall
      /\ UNCHANGED <<nname, nfile, held, disk, leaked>>
  BY DEF PutNode, At, Done, Goto, IInv, Shape, ShapeOf, InFlight, InHand, TypeOK, Agrees, OpenAgrees, nvars
<1>2. /\ nodeOf' = [nodeOf EXCEPT ![h] = d]
      /\ openFiles' = [openFiles EXCEPT ![p] = @ \cup {h}]
  BY DEF PutNode
<1>3. \A q \in Names : h \notin openFiles[q]
  BY <1>1 DEF IInv, FiledOnce
<1>4. /\ \A q \in Names : openFiles'[q] = IF q = p THEN openFiles[p] \cup {h} ELSE openFiles[q]
      /\ \A q \in Names : \A g \in openFiles[q] : nodeOf'[g] = nodeOf[g]
      /\ nodeOf'[h] = d
  BY <1>1, <1>2, <1>3 DEF TypeOK
<1>5. TableAgrees(t)'
  BY <1>1, <1>4 DEF Agrees, TableAgrees, OnDisk, OpenAgrees
<1>6. OneNodePerPath'
  BY <1>1, <1>4 DEF Agrees, OneNodePerPath, OpenAgrees
<1>7. HeldAgrees(t)'
  BY <1>1, <1>4 DEF Agrees, HeldAgrees, FiledAs, TypeOK
<1>8. OpenAgrees(t)' /\ RenameAgrees(t)'
  BY <1>1 DEF OpenAgrees, RenameAgrees, InFlight, Renaming
<1> QED
  BY <1>1, <1>5, <1>6, <1>7, <1>8 DEF Agrees

LEMMA ReleaseAgreesStep ==
    ASSUME IInv, IInv', NEW t \in Threads, Agrees(t), Release(t) PROVE Agrees(t)'
<1>1. PICK h \in Holders :
        /\ held[h] # NoName
        /\ \A u \in Threads : call[u].holder # h
        /\ held' = [held EXCEPT ![h] = NoName]
        /\ \/ /\ Found(h, held[h])
              /\ openFiles' = [openFiles EXCEPT ![held[h]] = @ \ {h}]
              /\ nodeOf' = [nodeOf EXCEPT ![h] = NoNode]
              /\ UNCHANGED leaked
           \/ ~Found(h, held[h])
  BY DEF Release
<1>2. /\ held[h] \in Names /\ TypeOK /\ pc[t] = "idle" /\ pc'[t] = "idle" /\ call'[t] = call[t]
      /\ UNCHANGED <<nname, nfile, disk, pc, call>>
  BY <1>1 DEF IInv, TypeOK, Release, At, nvars
<1>3. Found(h, held[h])
  BY <1>1, <1>2 DEF Agrees, HeldAgrees, FiledAs, Found
<1>4. /\ openFiles' = [openFiles EXCEPT ![held[h]] = @ \ {h}]
      /\ nodeOf' = [nodeOf EXCEPT ![h] = NoNode]
      /\ UNCHANGED leaked
  BY <1>1, <1>3
<1>5. \A q \in Names : openFiles'[q] = openFiles[q] \ {h}
  BY <1>2, <1>3, <1>4 DEF TypeOK, IInv, FiledOnce, Found
<1>6. \A g \in Holders \ {h} : nodeOf'[g] = nodeOf[g] /\ held'[g] = held[g]
  BY <1>1, <1>2, <1>4 DEF TypeOK
<1>7. held'[h] = NoName /\ \A q \in Names : openFiles[q] \subseteq Holders
  BY <1>1, <1>2 DEF TypeOK
<1>8. HeldAgrees(t)'
  BY <1>2, <1>5, <1>6, <1>7 DEF Agrees, HeldAgrees, FiledAs, TypeOK
<1>9. TableAgrees(t)' /\ OneNodePerPath'
  BY <1>2, <1>5, <1>6, <1>7 DEF Agrees, TableAgrees, OnDisk, OneNodePerPath
<1>10. OpenAgrees(t)' /\ RenameAgrees(t)'
  BY <1>2 DEF OpenAgrees, RenameAgrees, InFlight, Renaming
<1> QED
  BY <1>4, <1>8, <1>9, <1>10 DEF Agrees

\* Nothing is open under a path at which there is no file.
LEMMA NoFileNothingOpen ==
    ASSUME IInv, NEW t \in Threads, Agrees(t), NEW p \in Names, OnDisk(t, p) = NoFile
    PROVE  openFiles[p] = {}
BY DEF IInv, TypeOK, Agrees, TableAgrees

\* The steps of rename before setName change nothing but the thread.
LEMMA RenameBeginsAgreesStep ==
    ASSUME IInv, IInv', NEW t \in Threads, Agrees(t), Move(t) \/ Rename(t) \/ RenameLookup(t)
    PROVE  Agrees(t)'
<1>1. /\ UNCHANGED <<openFiles, nodeOf, nname, nfile, held, disk, leaked>> /\ TypeOK
      /\ pc[t] \in {"idle", "rename", "lookup"} /\ pc'[t] \in {"rename", "lookup", "setname"}
  BY DEF Move, Rename, RenameLookup, cvars, nvars, IInv, TypeOK, At, Goto
<1>2. call[t].holder = NoHolder /\ call'[t].holder = NoHolder
  BY <1>1, NoCallIs DEF IInv, Shape, ShapeOf, Renaming
<1>3. TableAgrees(t)' /\ HeldAgrees(t)' /\ OpenAgrees(t)' /\ OneNodePerPath'
  BY <1>1, <1>2, NoneAssumption DEF Agrees, TableAgrees, OnDisk, HeldAgrees, FiledAs, OpenAgrees,
                                    InFlight, OneNodePerPath
<1>4. CASE Move(t)
  <2>1. PICK r \in Renames :
          /\ disk[r[2]] = NoFile
          /\ call' = [call EXCEPT ![t] = [NoCall EXCEPT !.from = r[1], !.to = r[2]]]
    BY <1>4 DEF Move
  <2>2. call'[t].to = r[2] /\ pc'[t] = "rename"
    BY <1>1, <1>4, <2>1, NoCallIs DEF Move, Goto, TypeOK, Calls
  <2>3. RenameAgrees(t)'
    BY <1>1, <2>1, <2>2 DEF RenameAgrees
  <2> QED
    BY <1>1, <1>3, <2>3 DEF Agrees
<1>5. CASE Rename(t)
  <2>1. pc[t] = "rename" /\ pc'[t] = "lookup" /\ call' = call
    BY <1>1, <1>5 DEF Rename, At, Goto, TypeOK
  <2>2. RenameAgrees(t)'
    BY <1>1, <2>1 DEF Agrees, RenameAgrees, Renaming
  <2> QED
    BY <1>1, <1>3, <2>2 DEF Agrees
<1>6. CASE RenameLookup(t)
  <2> DEFINE p == call[t].from
  <2>1. pc[t] = "lookup" /\ pc'[t] = "setname" /\ FindNode(t, p) /\ p \in Names /\ call[t] \in Calls
    BY <1>1, <1>6 DEF RenameLookup, At, Goto, TypeOK, IInv, Shape, ShapeOf, Renaming, Calls
  <2>2. PICK d : /\ call' = [call EXCEPT ![t].node = d]
                 /\ IF openFiles[p] = {} THEN d = NoNode ELSE d \in Lookups(p)
    BY <2>1 DEF FindNode
  <2>3. call'[t].to = call[t].to /\ call'[t].from = p /\ call'[t].node = d
    BY <1>1, <2>1, <2>2 DEF TypeOK, Calls
  <2>4. \A h \in openFiles[p] : nodeOf[h] = d
    BY <2>1, <2>2 DEF Lookups, Agrees, OneNodePerPath
  <2>5. d = NoNode <=> openFiles[p] = {}
    BY <1>1, <2>1, <2>2 DEF Lookups, IInv, FiledOnce, TypeOK
  <2>6. RenameAgrees(t)'
    BY <1>1, <2>1, <2>3, <2>4, <2>5 DEF Agrees, RenameAgrees, Renaming
  <2> QED
    BY <1>1, <1>3, <2>6 DEF Agrees
<1> QED
  BY <1>4, <1>5, <1>6

\* setName and renameNode together take the node and its set to the new path.
LEMMA RenameSetNameAgreesStep ==
    ASSUME IInv, IInv', NEW t \in Threads, Agrees(t), RenameSetName(t) PROVE Agrees(t)'
<1> DEFINE from == call[t].from
           to == call[t].to
           d == call[t].node
<1>1. /\ UNCHANGED <<nodeOf, nfile, held, disk, leaked>> /\ TypeOK
      /\ pc[t] = "setname" /\ from \in Names /\ to \in Names /\ call[t] \in Calls
      /\ call[t].holder = NoHolder /\ disk[to] = NoFile
  BY DEF RenameSetName, IInv, TypeOK, At, Shape, ShapeOf, Renaming, Calls, Agrees, RenameAgrees
<1>2. openFiles[to] = {}
  BY <1>1, NoFileNothingOpen DEF OnDisk
<1>3. CASE Done(t) /\ UNCHANGED <<nname, openFiles>>
  <2>1. pc'[t] = "idle" /\ call'[t].holder = NoHolder
    BY <1>1, <1>3, NoCallIs DEF Done, Goto, TypeOK
  <2>2. TableAgrees(t)' /\ HeldAgrees(t)' /\ OneNodePerPath'
    BY <1>1, <1>3, <2>1, NoneAssumption DEF Agrees, TableAgrees, OnDisk, HeldAgrees, FiledAs,
                                            OneNodePerPath
  <2>3. OpenAgrees(t)' /\ RenameAgrees(t)'
    BY <2>1 DEF OpenAgrees, RenameAgrees, InFlight, Renaming
  <2> QED
    BY <1>1, <2>2, <2>3 DEF Agrees
<1>4. CASE /\ nname' = NodeRenamed(d, to)
           /\ openFiles' = RenamedTable(from, to)
           /\ Goto(t, "move")
           /\ call' = [call EXCEPT ![t].node = NoNode]
  <2>1. /\ pc'[t] = "move" /\ call'[t].from = from /\ call'[t].to = to
        /\ call'[t].holder = NoHolder
    BY <1>1, <1>4 DEF Goto, TypeOK, Calls
  <2>2. /\ \A p \in Names \ {from, to} : openFiles'[p] = openFiles[p]
        /\ openFiles'[to] = openFiles[from]
        /\ from # to => openFiles'[from] = {}
        /\ from = to => openFiles' = openFiles
    BY <1>1, <1>2, <1>4, RenamedTableIs DEF TypeOK, RenamedTable
  <2>3. OneNodePerPath'
    BY <1>1, <2>2 DEF Agrees, OneNodePerPath
  <2>4. \A h \in openFiles[from] : nname'[nodeOf[h]] = to /\ nodeOf[h] = d
    <3>1. \A h \in openFiles[from] : nodeOf[h] = d /\ d # NoNode
      BY <1>1 DEF Agrees, RenameAgrees
    <3> QED
      BY <1>1, <1>4, <3>1 DEF NodeRenamed, TypeOK, Calls
  <2>5. \A p \in Names \ {from} : \A h \in openFiles[p] : nname'[nodeOf[h]] = p
    <3>1. \A p \in Names \ {from} : \A h \in openFiles[p] : nname[nodeOf[h]] = p
      BY DEF Agrees, TableAgrees
    <3>2. CASE openFiles[from] = {}
      <4>1. d = NoNode
        BY <1>1, <3>2 DEF Agrees, RenameAgrees
      <4> QED
        BY <1>4, <3>1, <4>1 DEF NodeRenamed
    <3>3. CASE openFiles[from] # {}
      <4>1. nname[d] = from /\ d \in Nodes
        BY <1>1, <3>3 DEF Agrees, RenameAgrees, TableAgrees, TypeOK, Calls
      <4> QED
        BY <1>1, <1>4, <3>1, <4>1 DEF NodeRenamed, TypeOK
    <3> QED
      BY <3>2, <3>3
  <2>6. TableAgrees(t)'
    <3> SUFFICES ASSUME NEW p \in Names, NEW h \in openFiles'[p]
                 PROVE  /\ nname'[nodeOf[h]] = p
                        /\ nfile[nodeOf[h]] = (IF p = to THEN disk[from] ELSE disk[p])
                        /\ (IF p = to THEN disk[from] ELSE disk[p]) # NoFile
      BY <1>1, <2>1 DEF TableAgrees, OnDisk
    <3>1. CASE p = to
      BY <1>1, <2>2, <2>4, <3>1 DEF Agrees, TableAgrees, OnDisk
    <3>2. CASE p # to
      <4>1. p # from /\ h \in openFiles[p]
        BY <1>2, <2>2, <3>2
      <4> QED
        BY <1>1, <2>5, <3>2, <4>1 DEF Agrees, TableAgrees, OnDisk
    <3> QED
      BY <3>1, <3>2
  <2>7. HeldAgrees(t)'
    <3> SUFFICES ASSUME NEW h \in Holders, held[h] # NoName
                 PROVE  h \in openFiles'[IF held[h] = from THEN to ELSE held[h]]
      BY <1>1, <2>1 DEF HeldAgrees, FiledAs
    <3>1. held[h] \in Names /\ h \in openFiles[held[h]]
      BY <1>1, NoneAssumption DEF Agrees, HeldAgrees, FiledAs, TypeOK
    <3> QED
      BY <1>2, <2>2, <3>1
  <2>8. OpenAgrees(t)' /\ RenameAgrees(t)'
    BY <1>1, <2>1, <2>2 DEF OpenAgrees, RenameAgrees, InFlight
  <2> QED
    BY <1>1, <2>3, <2>6, <2>7, <2>8 DEF Agrees
<1> QED
  BY <1>3, <1>4 DEF RenameSetName

\* The disk follows; if it cannot, nothing was open and nothing has to be undone.
LEMMA RenameEndsAgreesStep ==
    ASSUME IInv, IInv', NEW t \in Threads, Agrees(t),
           RenameOnDisk(t) \/ UndoLookup(t) \/ UndoSetName(t) \/ CallerRenamed(t)
    PROVE  Agrees(t)'
<1> DEFINE from == call[t].from
           to == call[t].to
<1>1. /\ UNCHANGED <<nodeOf, nfile, leaked>> /\ TypeOK
      /\ pc[t] \in Renaming /\ from \in Names /\ to \in Names /\ call[t] \in Calls
      /\ call[t].holder = NoHolder
  BY DEF RenameOnDisk, UndoLookup, UndoSetName, CallerRenamed, IInv, TypeOK, At, Shape, ShapeOf,
         Renaming, Calls, cvars, nvars
<1>2. CASE RenameOnDisk(t)
  <2>1. /\ pc[t] = "move" /\ UNCHANGED <<openFiles, nname, held, call>> /\ disk[to] = NoFile
        /\ from # to => openFiles[from] = {}
    BY <1>2 DEF RenameOnDisk, At, cvars, nvars, Agrees, RenameAgrees, Renaming
  <2>2. OneNodePerPath'
    BY <1>1, <2>1 DEF Agrees, OneNodePerPath
  <2>3. CASE CanMove(from, to)
    <3>1. /\ pc'[t] = "renamed" /\ from # to
          /\ disk'[to] = disk[from] /\ \A p \in Names \ {from, to} : disk'[p] = disk[p]
      BY <1>1, <1>2, <2>1, <2>3 DEF RenameOnDisk, CanMove, Goto, TypeOK
    <3>2. TableAgrees(t)'
      BY <1>1, <2>1, <3>1 DEF Agrees, TableAgrees, OnDisk
    <3>3. HeldAgrees(t)' /\ OpenAgrees(t)' /\ RenameAgrees(t)'
      BY <1>1, <2>1, <3>1 DEF Agrees, HeldAgrees, FiledAs, OpenAgrees, RenameAgrees, InFlight, Renaming
    <3> QED
      BY <1>1, <2>2, <3>2, <3>3 DEF Agrees
  <2>4. CASE ~CanMove(from, to)
    <3>1. pc'[t] = "undolookup" /\ disk' = disk /\ disk[from] = NoFile
      BY <1>1, <1>2, <2>1, <2>4 DEF RenameOnDisk, CanMove, Goto, TypeOK
    <3>2. openFiles[to] = {} /\ openFiles[from] = {}
      BY <1>1, <2>1, <3>1, NoFileNothingOpen DEF OnDisk
    <3>3. TableAgrees(t)'
      BY <1>1, <2>1, <3>1, <3>2 DEF Agrees, TableAgrees, OnDisk
    <3>4. HeldAgrees(t)'
      BY <1>1, <2>1, <3>1, <3>2 DEF Agrees, HeldAgrees, FiledAs
    <3>5. OpenAgrees(t)' /\ RenameAgrees(t)'
      BY <1>1, <2>1, <3>1 DEF OpenAgrees, RenameAgrees, InFlight, Renaming
    <3> QED
      BY <1>1, <2>2, <3>3, <3>4, <3>5 DEF Agrees
  <2> QED
    BY <2>3, <2>4
<1>3. CASE UndoLookup(t)
  <2>1. /\ pc[t] = "undolookup" /\ pc'[t] = "undosetname" /\ disk[from] = NoFile /\ disk[to] = NoFile
        /\ UNCHANGED <<openFiles, nname, held, disk>>
    BY <1>1, <1>3 DEF UndoLookup, At, Goto, TypeOK, cvars, nvars, Agrees, RenameAgrees, Renaming
  <2>2. openFiles[to] = {}
    BY <1>1, <2>1, NoFileNothingOpen DEF OnDisk
  <2>3. call' = [call EXCEPT ![t].node = NoNode]
    BY <1>3, <2>2 DEF UndoLookup, FindNode
  <2>4. /\ call'[t].from = from /\ call'[t].to = to /\ call'[t].holder = NoHolder
        /\ call'[t].node = NoNode
    BY <1>1, <2>3 DEF TypeOK, Calls
  <2>5. TableAgrees(t)' /\ HeldAgrees(t)' /\ OneNodePerPath'
    BY <1>1, <2>1, <2>4 DEF Agrees, TableAgrees, OnDisk, HeldAgrees, FiledAs, OneNodePerPath
  <2>6. OpenAgrees(t)' /\ RenameAgrees(t)'
    BY <2>1, <2>4 DEF OpenAgrees, RenameAgrees, InFlight, Renaming
  <2> QED
    BY <1>1, <2>5, <2>6 DEF Agrees
<1>4. CASE UndoSetName(t)
  <2>1. /\ pc[t] = "undosetname" /\ pc'[t] = "idle" /\ disk[to] = NoFile /\ call[t].node = NoNode
        /\ call'[t].holder = NoHolder /\ UNCHANGED <<held, disk>>
    BY <1>1, <1>4, NoCallIs DEF UndoSetName, At, Done, Goto, TypeOK, Agrees, RenameAgrees, Renaming
  <2>2. openFiles[to] = {}
    BY <1>1, <2>1, NoFileNothingOpen DEF OnDisk
  <2>3. openFiles' = openFiles /\ nname' = nname
    BY <1>4, <2>1, <2>2 DEF UndoSetName, RenamedTable, NodeRenamed
  <2>4. TableAgrees(t)' /\ HeldAgrees(t)' /\ OneNodePerPath'
    BY <1>1, <2>1, <2>3 DEF Agrees, TableAgrees, OnDisk, HeldAgrees, FiledAs, OneNodePerPath
  <2>5. OpenAgrees(t)' /\ RenameAgrees(t)'
    BY <2>1 DEF OpenAgrees, RenameAgrees, InFlight, Renaming
  <2> QED
    BY <1>1, <2>4, <2>5 DEF Agrees
<1>5. CASE CallerRenamed(t)
  <2>1. /\ pc[t] = "renamed" /\ pc'[t] = "idle" /\ call'[t].holder = NoHolder
        /\ UNCHANGED <<openFiles, nname, disk>>
        /\ \A h \in Holders : held'[h] = IF held[h] = from THEN to ELSE held[h]
    BY <1>1, <1>5, NoCallIs DEF CallerRenamed, At, Done, Goto, TypeOK, cvars, nvars
  <2>2. TableAgrees(t)' /\ OneNodePerPath'
    BY <1>1, <2>1 DEF Agrees, TableAgrees, OnDisk, OneNodePerPath
  <2>3. HeldAgrees(t)'
    BY <1>1, <2>1, NoneAssumption DEF Agrees, HeldAgrees, FiledAs
  <2>4. OpenAgrees(t)' /\ RenameAgrees(t)'
    BY <2>1 DEF OpenAgrees, RenameAgrees, InFlight, Renaming
  <2> QED
    BY <1>1, <2>2, <2>3, <2>4 DEF Agrees
<1> QED
  BY <1>2, <1>3, <1>4, <1>5

\* A file is made where there was none, and removed where nobody has it open.
LEMMA DiskAgreesStep ==
    ASSUME IInv, IInv', NEW t \in Threads, Agrees(t), Mknod(t) \/ Unlink(t) \/ Lookup(t)
    PROVE  Agrees(t)'
<1>1. /\ UNCHANGED <<openFiles, nodeOf, nname, nfile, held, pc, call, leaked>> /\ TypeOK
      /\ pc[t] = "idle"
  BY DEF Mknod, Unlink, Lookup, At, IInv, cvars, nvars, vars
<1>2. \A p \in Names : openFiles[p] # {} => disk'[p] = disk[p]
  <2>1. CASE Mknod(t)
    BY <1>1, <2>1 DEF Mknod, TypeOK, Agrees, TableAgrees, OnDisk
  <2>2. CASE Unlink(t)
    <3>1. \A p \in Names : openFiles[p] # {} => OpenOnDisk(disk[p])
      BY <1>1 DEF OpenOnDisk, Referenced, TypeOK, Agrees, TableAgrees, OnDisk, IInv, FiledOnce
    <3> QED
      BY <1>1, <2>2, <3>1 DEF Unlink, TypeOK
  <2>3. CASE Lookup(t)
    BY <2>3 DEF Lookup, vars
  <2> QED
    BY <2>1, <2>2, <2>3
<1>3. TableAgrees(t)'
  BY <1>1, <1>2 DEF Agrees, TableAgrees, OnDisk
<1>4. HeldAgrees(t)' /\ OpenAgrees(t)' /\ RenameAgrees(t)' /\ OneNodePerPath'
  BY <1>1 DEF Agrees, HeldAgrees, FiledAs, OpenAgrees, RenameAgrees, InFlight, Renaming, OneNodePerPath
<1> QED
  BY <1>1, <1>3, <1>4 DEF Agrees

LEMMA StepAgrees ==
    ASSUME IInv, NEW t \in Threads, Agrees(t), Step(t) PROVE Agrees(t)'
<1>1. IInv'
  BY StepIInv
<1>2. CASE Open(t)
  BY <1>1, <1>2, OpenAgreesStep
<1>3. CASE OpenNode(t)
  BY <1>1, <1>3, OpenNodeAgreesStep
<1>4. CASE PutNode(t)
  BY <1>1, <1>4, PutNodeAgreesStep
<1>5. CASE Release(t)
  BY <1>1, <1>5, ReleaseAgreesStep
<1>6. CASE Move(t) \/ Rename(t) \/ RenameLookup(t)
  BY <1>1, <1>6, RenameBeginsAgreesStep
<1>7. CASE RenameSetName(t)
  BY <1>1, <1>7, RenameSetNameAgreesStep
<1>8. CASE RenameOnDisk(t) \/ UndoLookup(t) \/ UndoSetName(t) \/ CallerRenamed(t)
  BY <1>1, <1>8, RenameEndsAgreesStep
<1>9. CASE Mknod(t) \/ Unlink(t) \/ Lookup(t)
  BY <1>1, <1>9, DiskAgreesStep
<1> QED
  BY <1>2, <1>3, <1>4, <1>5, <1>6, <1>7, <1>8, <1>9 DEF Step

----------------------------------------------------------------------------
(* Several workers, of which those that rename rename one path to one      *)
(* other: the rest of the table and the callers agree.                     *)

Pair == {p \in Names : \E r \in OneWay : p \in {r[1], r[2]}}

LostPaths == \A x \in leaked : x.path \in Pair
PairCalls ==
    \A t \in Threads :
      /\ pc[t] \in Renaming => call[t].from \in Pair /\ call[t].to \in Pair
      /\ pc[t] \in InFlight =>
           \/ held[call[t].holder] = call[t].from
           \/ held[call[t].holder] \in Pair /\ call[t].from \in Pair
OthersFiled ==
    \A h \in Holders :
      held[h] # NoName /\ (\A t \in Threads : call[t].holder # h) /\ held[h] \notin Pair =>
        h \in openFiles[held[h]]
OnlyPairLost == LostPaths /\ PairCalls /\ OthersFiled

\* A step outside open and release, that leaves what is filed elsewhere alone.
LEMMA PairStep ==
    ASSUME IInv, OnlyPairLost, NEW t \in Threads,
           call[t].holder = NoHolder, call'[t].holder = NoHolder,
           \A u \in Threads \ {t} : pc'[u] = pc[u] /\ call'[u] = call[u],
           pc'[t] \notin InFlight,
           pc'[t] \in Renaming => call'[t].from \in Pair /\ call'[t].to \in Pair,
           UNCHANGED leaked,
           \A p \in Names : p \notin Pair => openFiles'[p] = openFiles[p],
           \A h \in Holders : held'[h] = held[h] \/ (held[h] \in Pair /\ held'[h] \in Pair)
    PROVE  OnlyPairLost'
<1>1. LostPaths'
  BY DEF OnlyPairLost, LostPaths
<1>2. PairCalls'
  <2> SUFFICES ASSUME NEW u \in Threads \ {t}
               PROVE  /\ pc[u] \in Renaming => call[u].from \in Pair /\ call[u].to \in Pair
                      /\ pc[u] \in InFlight =>
                           \/ held'[call[u].holder] = call[u].from
                           \/ held'[call[u].holder] \in Pair /\ call[u].from \in Pair
    BY DEF PairCalls
  <2>1. pc[u] \in InFlight => call[u].holder \in Holders
    BY DEF IInv, Shape, ShapeOf
  <2> QED
    BY <2>1 DEF OnlyPairLost, PairCalls
<1>3. OthersFiled'
  <2> SUFFICES ASSUME NEW h \in Holders, held'[h] # NoName,
                      \A u \in Threads : call'[u].holder # h, held'[h] \notin Pair
               PROVE  h \in openFiles'[held'[h]]
    BY DEF OthersFiled
  <2>1. held'[h] = held[h] /\ held[h] \in Names
    BY DEF IInv, TypeOK
  <2>2. \A u \in Threads : call[u].holder # h
    BY NoneAssumption
  <2> QED
    BY <2>1, <2>2 DEF OnlyPairLost, OthersFiled
<1> QED
  BY <1>1, <1>2, <1>3 DEF OnlyPairLost

LEMMA PairOpenStep ==
    ASSUME IInv, OnlyPairLost, NEW t \in Threads, Open(t) PROVE OnlyPairLost'
<1>1. PICK p \in Names, h \in FreeHolders :
        /\ held' = [held EXCEPT ![h] = p]
        /\ call' = [call EXCEPT ![t] = [NoCall EXCEPT !.from = p, !.holder = h]]
  BY DEF Open
<1> DEFINE c == [NoCall EXCEPT !.from = p, !.holder = h]
<1>2. c.from = p /\ c.holder = h /\ h \in Holders /\ \A u \in Threads : call[u].holder # h
  BY NoCallIs DEF Calls, FreeHolders
<1>3. call' = [call EXCEPT ![t] = c]
  BY <1>1
<1> HIDE DEF c
<1>4. /\ pc[t] = "idle" /\ pc'[t] = "open" /\ call'[t] = c /\ UNCHANGED <<openFiles, leaked>>
      /\ \A u \in Threads \ {t} : pc'[u] = pc[u] /\ call'[u] = call[u]
      /\ \A g \in Holders : held'[g] = IF g = h THEN p ELSE held[g]
      /\ call[t].holder = NoHolder
  BY <1>1, <1>3, NoCallIs DEF Open, At, Goto, IInv, TypeOK, cvars, Shape, ShapeOf
<1>5. PairCalls'
  BY <1>2, <1>4 DEF OnlyPairLost, PairCalls, IInv, Shape, ShapeOf, InFlight, Renaming
<1>6. OthersFiled'
  BY <1>2, <1>4, NoneAssumption DEF OnlyPairLost, OthersFiled
<1> QED
  BY <1>4, <1>5, <1>6 DEF OnlyPairLost, LostPaths

LEMMA PairOpenNodeStep ==
    ASSUME IInv, OnlyPairLost, NEW t \in Threads, OpenNode(t) PROVE OnlyPairLost'
<1> DEFINE h == call[t].holder
<1>1. /\ pc[t] = "open" /\ h \in Holders /\ call[t] \in Calls /\ TypeOK
      /\ UNCHANGED <<openFiles, leaked>>
  BY DEF OpenNode, At, IInv, Shape, ShapeOf, InFlight, TypeOK, Calls, cvars
<1>2. \A u \in Threads \ {t} : call[u].holder # h
  BY <1>1, NoneAssumption DEF IInv, OwnHolder
<1>3. \/ \E d : Goto(t, "put") /\ call' = [call EXCEPT ![t].node = d] /\ UNCHANGED held
      \/ Done(t) /\ held' = [held EXCEPT ![h] = NoName]
  BY DEF OpenNode
<1>4. CASE \E d : Goto(t, "put") /\ call' = [call EXCEPT ![t].node = d] /\ UNCHANGED held
  <2>1. /\ pc'[t] = "put" /\ call'[t].from = call[t].from /\ call'[t].holder = h /\ held' = held
        /\ \A u \in Threads \ {t} : pc'[u] = pc[u] /\ call'[u] = call[u]
    BY <1>1, <1>4 DEF Goto, TypeOK, Calls
  <2>2. PairCalls' /\ OthersFiled'
    BY <1>1, <2>1 DEF OnlyPairLost, PairCalls, OthersFiled, InFlight, Renaming
  <2> QED
    BY <1>1, <2>2 DEF OnlyPairLost, LostPaths
<1>5. CASE Done(t) /\ held' = [held EXCEPT ![h] = NoName]
  <2>1. /\ pc'[t] = "idle" /\ call'[t] = NoCall
        /\ \A u \in Threads \ {t} : pc'[u] = pc[u] /\ call'[u] = call[u]
        /\ \A g \in Holders : held'[g] = IF g = h THEN NoName ELSE held[g]
    BY <1>1, <1>5 DEF Done, Goto, TypeOK
  <2>2. PairCalls'
    BY <1>1, <1>2, <2>1 DEF OnlyPairLost, PairCalls, IInv, Shape, ShapeOf, InFlight, Renaming
  <2>3. OthersFiled'
    BY <1>1, <1>2, <2>1 DEF OnlyPairLost, OthersFiled
  <2> QED
    BY <1>1, <2>2, <2>3 DEF OnlyPairLost, LostPaths
<1> QED
  BY <1>3, <1>4, <1>5

LEMMA PairPutNodeStep ==
    ASSUME IInv, OnlyPairLost, NEW t \in Threads, PutNode(t) PROVE OnlyPairLost'
<1> DEFINE p == call[t].from
           h == call[t].holder
<1>1. /\ pc[t] = "put" /\ p \in Names /\ h \in Holders /\ TypeOK
      /\ openFiles' = [openFiles EXCEPT ![p] = @ \cup {h}]
      /\ UNCHANGED <<held, leaked>> /\ pc'[t] = "idle" /\ call'[t] = NoCall
      /\ \A u \in Threads \ {t} : pc'[u] = pc[u] /\ call'[u] = call[u]
  BY DEF PutNode, At, Done, Goto, IInv, Shape, ShapeOf, InFlight, TypeOK
<1>2. \A q \in Names : openFiles[q] \subseteq openFiles'[q]
  BY <1>1 DEF TypeOK
<1>3. h \in openFiles'[p]
  BY <1>1 DEF TypeOK
<1>4. PairCalls'
  BY <1>1 DEF OnlyPairLost, PairCalls, InFlight, Renaming
<1>5. OthersFiled'
  <2> SUFFICES ASSUME NEW g \in Holders, held[g] # NoName,
                      \A u \in Threads : call'[u].holder # g, held[g] \notin Pair
               PROVE  g \in openFiles'[held[g]]
    BY <1>1 DEF OthersFiled
  <2>1. CASE g = h
    BY <1>1, <1>3, <2>1 DEF OnlyPairLost, PairCalls, InFlight
  <2>2. CASE g # h
    <3>1. \A u \in Threads : call[u].holder # g
      BY <1>1, <2>2
    <3>2. held[g] \in Names
      BY <1>1 DEF TypeOK
    <3> QED
      BY <1>2, <3>1, <3>2 DEF OnlyPairLost, OthersFiled
  <2> QED
    BY <2>1, <2>2
<1> QED
  BY <1>1, <1>4, <1>5 DEF OnlyPairLost, LostPaths

LEMMA PairReleaseStep ==
    ASSUME IInv, OnlyPairLost, NEW t \in Threads, Release(t) PROVE OnlyPairLost'
<1>1. PICK h \in Holders :
        /\ held[h] # NoName
        /\ \A u \in Threads : call[u].holder # h
        /\ held' = [held EXCEPT ![h] = NoName]
        /\ \/ /\ Found(h, held[h])
              /\ openFiles' = [openFiles EXCEPT ![held[h]] = @ \ {h}]
              /\ UNCHANGED leaked
           \/ /\ ~Found(h, held[h])
              /\ leaked' = leaked \cup {[holder |-> h, path |-> held[h]]}
              /\ UNCHANGED openFiles
  BY DEF Release, cvars
<1>2. /\ held[h] \in Names /\ TypeOK /\ UNCHANGED <<pc, call>>
      /\ \A g \in Holders : held'[g] = IF g = h THEN NoName ELSE held[g]
  BY <1>1 DEF IInv, TypeOK, Release
<1>3. \A q \in Names : openFiles[q] \ {h} \subseteq openFiles'[q]
  BY <1>1, <1>2 DEF TypeOK
<1>4. LostPaths'
  <2>1. ~Found(h, held[h]) => held[h] \in Pair
    BY <1>1 DEF Found, OnlyPairLost, OthersFiled
  <2>2. [holder |-> h, path |-> held[h]].path = held[h]
    OBVIOUS
  <2> QED
    BY <1>1, <2>1, <2>2 DEF OnlyPairLost, LostPaths
<1>5. PairCalls'
  BY <1>1, <1>2 DEF OnlyPairLost, PairCalls, IInv, Shape, ShapeOf
<1>6. OthersFiled'
  <2> SUFFICES ASSUME NEW g \in Holders \ {h}, held[g] # NoName,
                      \A u \in Threads : call[u].holder # g, held[g] \notin Pair
               PROVE  g \in openFiles'[held[g]]
    BY <1>2 DEF OthersFiled
  <2>1. held[g] \in Names /\ g \in openFiles[held[g]]
    BY <1>2 DEF TypeOK, OnlyPairLost, OthersFiled
  <2> QED
    BY <1>3, <2>1
<1> QED
  BY <1>4, <1>5, <1>6 DEF OnlyPairLost

LEMMA PairRenameSteps ==
    ASSUME IInv, OnlyPairLost, NEW t \in Threads,
           pc'[t] = "rename" => <<call'[t].from, call'[t].to>> \in OneWay,
           \/ Move(t) \/ Rename(t) \/ RenameLookup(t) \/ RenameSetName(t) \/ RenameOnDisk(t)
           \/ UndoLookup(t) \/ UndoSetName(t) \/ CallerRenamed(t)
           \/ Mknod(t) \/ Unlink(t) \/ Lookup(t)
    PROVE  OnlyPairLost'
<1> DEFINE from == call[t].from
           to == call[t].to
           Alike == \A u \in Threads \ {t} : pc'[u] = pc[u] /\ call'[u] = call[u]
           Ahead == pc'[t] \in Renaming /\ call'[t].from = from /\ call'[t].to = to
           Over == pc'[t] = "idle" /\ call'[t] = NoCall
<1>1. TypeOK /\ UNCHANGED leaked /\ Shape
  BY DEF IInv, Move, Rename, RenameLookup, RenameSetName, RenameOnDisk, UndoLookup, UndoSetName,
         CallerRenamed, Mknod, Unlink, Lookup, vars
<1>2. IInv'
  BY StepIInv DEF Step
<1>3. "idle" \notin InFlight \cup Renaming /\ InFlight \cap Renaming = {}
  BY DEF InFlight, Renaming
<1>4. CASE Move(t)
  <2>1. pc[t] = "idle" /\ pc'[t] = "rename" /\ Alike /\ UNCHANGED <<openFiles, held>>
    BY <1>1, <1>4 DEF Move, At, Goto, TypeOK, cvars
  <2>2. call[t].holder = NoHolder /\ call'[t].holder = NoHolder
    BY <1>1, <1>2, <2>1, NoCallIs DEF IInv, Shape, ShapeOf, Renaming
  <2>3. call'[t].from \in Pair /\ call'[t].to \in Pair
    BY <1>2, <2>1 DEF Pair, IInv, Shape, ShapeOf, Renaming
  <2>4. pc'[t] \notin InFlight
    BY <2>1 DEF InFlight
  <2>5. /\ \A p \in Names : p \notin Pair => openFiles'[p] = openFiles[p]
        /\ \A h \in Holders : held'[h] = held[h] \/ (held[h] \in Pair /\ held'[h] \in Pair)
    BY <2>1
  <2> QED
    BY <1>1, <2>1, <2>2, <2>3, <2>4, <2>5, PairStep
<1>5. CASE Mknod(t) \/ Unlink(t) \/ Lookup(t)
  <2>1. UNCHANGED <<openFiles, held, pc, call>>
    BY <1>5 DEF Mknod, Unlink, Lookup, vars, cvars
  <2> QED
    BY <1>1, <2>1 DEF OnlyPairLost, LostPaths, PairCalls, OthersFiled
<1>6. CASE \/ Rename(t) \/ RenameLookup(t) \/ RenameSetName(t) \/ RenameOnDisk(t)
           \/ UndoLookup(t) \/ UndoSetName(t) \/ CallerRenamed(t)
  <2>1. pc[t] \in Renaming
    BY <1>6 DEF Rename, RenameLookup, RenameSetName, RenameOnDisk, UndoLookup, UndoSetName,
                CallerRenamed, At, Renaming
  <2>2. /\ from \in Names /\ to \in Names /\ call[t] \in Calls /\ call[t].holder = NoHolder
        /\ from \in Pair /\ to \in Pair
    BY <1>1, <2>1 DEF Shape, ShapeOf, TypeOK, Calls, OnlyPairLost, PairCalls
  <2>3. Alike /\ (Ahead \/ Over)
    <3>1. CASE Rename(t) \/ RenameOnDisk(t)
      BY <1>1, <3>1 DEF Rename, RenameOnDisk, Goto, TypeOK, Renaming
    <3>2. CASE RenameLookup(t) \/ UndoLookup(t)
      <4>1. \E d : call' = [call EXCEPT ![t].node = d]
        BY <3>2 DEF RenameLookup, UndoLookup, FindNode
      <4> QED
        BY <1>1, <2>2, <3>2, <4>1 DEF RenameLookup, UndoLookup, Goto, TypeOK, Calls, Renaming
    <3>3. CASE RenameSetName(t)
      BY <1>1, <2>2, <3>3 DEF RenameSetName, Done, Goto, TypeOK, Calls, Renaming
    <3>4. CASE UndoSetName(t) \/ CallerRenamed(t)
      BY <1>1, <3>4 DEF UndoSetName, CallerRenamed, Done, Goto, TypeOK
    <3> QED
      BY <1>6, <3>1, <3>2, <3>3, <3>4
  <2>4. call'[t].holder = NoHolder
    BY <1>2, <2>3, NoCallIs DEF IInv, Shape, ShapeOf
  <2>5. \A p \in Names : p \notin Pair => openFiles'[p] = openFiles[p]
    <3>1. openFiles' \in {openFiles, RenamedTable(from, to), RenamedTable(to, from)}
      BY <1>6 DEF Rename, RenameLookup, RenameSetName, RenameOnDisk, UndoLookup, UndoSetName,
                  CallerRenamed, cvars
    <3>2. \A p \in Names \ {from, to} : /\ RenamedTable(from, to)[p] = openFiles[p]
                                        /\ RenamedTable(to, from)[p] = openFiles[p]
      BY <1>1, <2>2, RenamedTableIs DEF TypeOK
    <3> QED
      BY <2>2, <3>1, <3>2
  <2>6. \A h \in Holders : held'[h] = held[h] \/ (held[h] \in Pair /\ held'[h] \in Pair)
    <3>1. CASE CallerRenamed(t)
      BY <2>2, <3>1 DEF CallerRenamed, cvars, nvars
    <3>2. CASE ~CallerRenamed(t)
      <4>1. held' = held
        BY <1>6, <3>2 DEF Rename, RenameLookup, RenameSetName, RenameOnDisk, UndoLookup, UndoSetName,
                          cvars, nvars
      <4> QED
        BY <4>1
    <3> QED
      BY <3>1, <3>2
  <2>7. /\ pc'[t] \notin InFlight
        /\ pc'[t] \in Renaming => call'[t].from \in Pair /\ call'[t].to \in Pair
    BY <1>3, <2>2, <2>3
  <2> QED
    BY <1>1, <2>2, <2>3, <2>4, <2>5, <2>6, <2>7, PairStep
<1> QED
  BY <1>4, <1>5, <1>6

----------------------------------------------------------------------------
(* Workers.                                                                *)

MCIInv ==
    /\ IInv
    /\ workers \subseteq Threads
    /\ Alone => \A t \in workers : Agrees(t)
    /\ ~Alone => OnlyPairLost

LEMMA MCInitIInv == MCInit => MCIInv
<1> SUFFICES ASSUME MCInit PROVE MCIInv
  OBVIOUS
<1>1. Init /\ IInv /\ workers \subseteq Threads
  BY InitIInv DEF MCInit
<1>2. \A t \in Threads : pc[t] = "idle" /\ call[t] = NoCall
  BY <1>1 DEF Init
<1>3. \A t \in Threads : Agrees(t)
  BY <1>1, <1>2 DEF Init, Agrees, OneNodePerPath, TableAgrees, HeldAgrees, OpenAgrees, RenameAgrees,
                    InFlight, Renaming
<1>4. OnlyPairLost
  BY <1>1, <1>2 DEF Init, OnlyPairLost, LostPaths, PairCalls, OthersFiled, InFlight, Renaming
<1> QED
  BY <1>1, <1>3, <1>4 DEF MCIInv

LEMMA AloneIs ==
    ASSUME workers \subseteq Threads, Alone
    PROVE  \E t \in Threads : workers = {t}
<1>1. IsFiniteSet(workers)
  BY ThreadsAssumption, FS_Subset
<1> QED
  BY <1>1, FS_Singleton DEF Alone

LEMMA MCNextIInv == MCIInv /\ [MCNext]_<<vars, workers>> => MCIInv'
<1> SUFFICES ASSUME MCIInv, [MCNext]_<<vars, workers>> PROVE MCIInv'
  OBVIOUS
<1>1. CASE MCNext
  <2>1. PICK t \in workers : Step(t)
    BY <1>1 DEF MCNext
  <2>2. /\ t \in Threads /\ workers' = workers /\ (Alone' <=> Alone)
        /\ Alone \/ (pc'[t] = "rename" => <<call'[t].from, call'[t].to>> \in OneWay)
    BY <1>1 DEF MCIInv, MCNext, Alone
  <2>3. IInv'
    BY <2>1, <2>2, StepIInv DEF MCIInv
  <2>4. ASSUME Alone PROVE \A u \in workers : Agrees(u)'
    <3>1. workers = {t}
      BY <2>4, AloneIs DEF MCIInv
    <3>2. Agrees(t)'
      BY <2>1, <2>2, <2>4, StepAgrees DEF MCIInv
    <3> QED
      BY <3>1, <3>2
  <2>5. ASSUME ~Alone PROVE OnlyPairLost'
    <3>1. OnlyPairLost /\ IInv /\ (pc'[t] = "rename" => <<call'[t].from, call'[t].to>> \in OneWay)
      BY <2>2, <2>5 DEF MCIInv
    <3> QED
      BY <2>1, <2>2, <3>1, PairOpenStep, PairOpenNodeStep, PairPutNodeStep, PairReleaseStep,
         PairRenameSteps DEF Step
  <2> QED
    BY <2>2, <2>3, <2>4, <2>5 DEF MCIInv
<1>2. CASE UNCHANGED <<vars, workers>>
  <2>1. IInv'
    BY <1>2, StutterIInv DEF MCIInv
  <2>2. \A t : Agrees(t)' <=> Agrees(t)
    BY <1>2 DEF vars, cvars, nvars, Agrees, OneNodePerPath, TableAgrees, HeldAgrees, OpenAgrees,
                RenameAgrees, OnDisk, FiledAs
  <2>3. OnlyPairLost' <=> OnlyPairLost
    BY <1>2 DEF vars, cvars, OnlyPairLost, LostPaths, PairCalls, OthersFiled
  <2> QED
    BY <1>2, <2>1, <2>2, <2>3 DEF MCIInv, Alone
<1> QED
  BY <1>1, <1>2

\* With one worker, after any sequence of opens, releases and renames, done, failed or
\* undone, a path's handles share one node, whose name and file are the path's, and
\* release finds every placeholder (Context.cpp:114-171, DirNode.cpp:640-750).
THEOREM AloneAlwaysAgrees == MCSpec => []AloneAgrees
<1>1. MCIInv => AloneAgrees
  <2> SUFFICES ASSUME MCIInv, Alone PROVE OneNodePerPath /\ NodeFollowsFile /\ ReleaseFinds
    BY DEF AloneAgrees
  <2>1. PICK t \in Threads : Agrees(t)
    BY AloneIs DEF MCIInv
  <2>2. NodeFollowsFile
    BY <2>1 DEF NodeFollowsFile, Quiescent, Agrees, TableAgrees, OnDisk
  <2> QED
    BY <2>1, <2>2 DEF Agrees, ReleaseFinds
<1> QED
  BY <1>1, MCInitIInv, MCNextIInv, PTL DEF MCSpec

\* With several workers a placeholder is looked for in vain only under a path that a
\* rename takes a file from or to: an open under way and a caller that has not learnt
\* of the rename are the two ways (DirNode.cpp:640-700, Context.cpp:123-171).
THEOREM AlwaysLostOnlyByRename == MCSpec => []LostOnlyByRename
<1>1. MCIInv => LostOnlyByRename
  BY DEF MCIInv, OnlyPairLost, LostPaths, Pair, LostOnlyByRename
<1> QED
  BY <1>1, MCInitIInv, MCNextIInv, PTL DEF MCSpec
=============================================================================
