----------------------------- MODULE MCOpenFiles -----------------------------
(***************************************************************************)
(* Small instances of OpenFiles, with one worker thread or several.  With  *)
(* several, one path is renamed to one other and the rest are left alone.  *)
(***************************************************************************)
EXTENDS OpenFiles, TLC

VARIABLE workers  \* the threads that take calls

AllRenames == {r \in Names \X Names : r[1] # r[2]}
OneWay == LET from == CHOOSE n \in Names : TRUE
          IN {<<from, CHOOSE n \in Names \ {from} : TRUE>>}

Alone == Cardinality(workers) = 1

MCInit == Init /\ workers \in SUBSET Threads \ {{}}

MCNext ==
    /\ \E t \in workers : Step(t)
    /\ Alone \/ \A t \in Threads :
                  pc'[t] = "rename" => <<call'[t].from, call'[t].to>> \in OneWay
    /\ UNCHANGED workers

MCSpec == MCInit /\ [][MCNext]_<<vars, workers>>

\* With one thread a path's handles share their node; nodes, table and disk follow
\* every rename; and release finds every placeholder.
AloneAgrees == Alone => OneNodePerPath /\ NodeFollowsFile /\ ReleaseFinds
\* With several, only a path that is renamed loses one.
LostOnlyByRename ==
    ~Alone => \A x \in leaked : \E r \in OneWay : x.path \in {r[1], r[2]}

\* What a node nobody refers to was last is read by no action and no property.
Kept(field, none) == [d \in Nodes |-> IF Referenced(d) THEN field[d] ELSE none]
WithoutFreed == <<cvars, Kept(nname, NoName), Kept(nfile, NoFile), dmutex, held, disk,
                  pc, call, leaked, workers>>

Symmetric == Permutations(Threads) \cup Permutations(Holders) \cup Permutations(Nodes)
             \cup Permutations(Files)
=============================================================================
