----------------------------- MODULE MCFuseFiles -----------------------------
(***************************************************************************)
(* Small instances of FuseFiles, with one worker thread (the option -s) or *)
(* several.  With several, callers only open existing files, with two of   *)
(* the three pairs of access and share mode, and files are only renamed    *)
(* one way.                                                                *)
(***************************************************************************)
EXTENDS FuseFiles, TLC

VARIABLE workers  \* the threads that take calls

\* A reader that shares reading, a writer that shares everything but deletion,
\* and a caller that only looks at attributes and shares nothing.
TwoShares == {[need |-> {"read"}, share |-> {"read"}],
              [need |-> {"read", "write"}, share |-> {"read", "write"}]}
MCShares == TwoShares \cup {[need |-> {}, share |-> {}]}
AllDispositions == Creating \cup {"OPEN_EXISTING", "TRUNCATE_EXISTING"}
OpenOnly == {"OPEN_EXISTING"}
AllMoves == Names \X Names
NoMoves == {}
OneWay == {mv \in Names \X Names : mv[1] # mv[2] /\ mv[1] = CHOOSE n \in Names : TRUE}

ASSUME ThreadsAssumption == IsFiniteSet(Threads)

Alone == Cardinality(workers) = 1

\* What several threads leave out.
Narrow(c) ==
    /\ c.disp \in OpenOnly
    /\ c.mode \in TwoShares \cup {NoCall.mode}
    /\ c.to # NoName => <<c.name, c.to>> \in OneWay

MCInit == Init /\ workers \in SUBSET Threads \ {{}}

MCNext ==
    /\ \/ ~freedUse /\ \E t \in workers : Step(t)
       \/ Undefined
    /\ Alone \/ \A t \in Threads : pc'[t] # "idle" => Narrow(call'[t])
    /\ UNCHANGED workers

MCSpec == MCInit /\ [][MCNext]_<<vars, workers>>

\* With one thread no handle refers to a deleted lock object, there is one such object
\* per path, and between calls the map agrees with the disk.
AloneAgrees == Alone => NoDangling /\ OneLockPerName /\ TableMatchesDisk

Symmetric == Permutations(Threads) \cup Permutations(Handles)
=============================================================================
