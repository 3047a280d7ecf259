---------------------------- MODULE MCCallbacks ----------------------------
(***************************************************************************)
(* What Dokan calls once a file is open, and on directories; a behaviour   *)
(* is one of one part, and the others stay as they are.                    *)
(*                                                                         *)
(*   locks  three handles over a file of six bytes, under locks alone      *)
(*   io     two threads and two handles, a file of three bytes read one    *)
(*          at a time                                                      *)
(*   dirs   two directories with two names for entries, under every        *)
(*          callback, one thread listing and the other changing            *)
(*   tree   a directory with a file and a subdirectory that holds two      *)
(*          files, renamed with every header                               *)
(***************************************************************************)
EXTENDS FuseIO, FiniteSets, TLC

CONSTANTS lister, changer, d1, d2, k1, k2,   \* of FuseDirs
          top, sub, f1, f2, f3, n1, n2, NoNode \* of RenameTree

VARIABLES part,
          dChained, dHeld, dCalls,           \* of FuseDirs
          disk, header, node, queue, at, pc, result, refusals, before, after \* of RenameTree

MCOffsets == 0..5
MCLengths == -1..3
Nothing == {}

Tree == top :> <<top>> @@ f1 :> <<top, f1>> @@ sub :> <<top, sub>>
        @@ f2 :> <<top, sub, f2>> @@ f3 :> <<top, sub, f3>>
Listings == top :> {<<f1, f2, f3, sub>>, <<f1, f3, f2, sub>>,
                    <<f2, f3, sub, f1>>, <<f3, f2, sub, f1>>}
            @@ sub :> {<<f2, f3>>, <<f3, f2>>}
            @@ f1 :> {<<>>} @@ f2 :> {<<>>} @@ f3 :> {<<>>}

T == INSTANCE RenameTree
       WITH Entries <- {top, sub, f1, f2, f3}, Files <- {f1, f2, f3}, Names <- {n1, n2},
            Chain <- Tree, Orders <- Listings, MaxRefusals <- 2
D == INSTANCE FuseDirs
       WITH Dirs <- {d1, d2}, Kids <- {k1, k2}, Callers <- {lister, changer}, Mishaps <- {},
            chained <- dChained, held <- dHeld, calls <- dCalls

ASSUME TreeAssumption == T!TreeAssumption
ASSUME DirsAssumption == D!DirsAssumption

tVars == <<disk, header, node, queue, at, pc, result, refusals, before, after>>
dVars == <<dChained, dHeld, dCalls>>

Symmetric == Permutations(Handles) \cup Permutations(Threads)
             \cup Permutations({n1, n2}) \cup Permutations({k1, k2})

\* What a run with accesses leaves out.
NarrowIO ==
    /\ \A h \in Handles : \A r \in locks'[h] : End(r) <= MaxSize
    /\ \E h \in Handles : h \notin listed'
    /\ \A t \in Threads : pending'[t].start + pending'[t].len <= MaxSize

\* One thread lists one directory, with two things to tell apart in it and no other
\* directory meanwhile; there are at most two entries, and what is set is set of one
\* of them and without chained vectors.
NarrowDirs ==
    LET here == UNION {{<<d, e>> : e \in dHeld'[d]} : d \in DOMAIN dHeld'}
        set == {h \in here : h[2].set # {}}
        c == dCalls'[lister]
    IN /\ c.op \in {"none", "list", "info"} /\ c.dir = D!NoDir
       /\ c.op # "none" => DOMAIN dHeld' \subseteq {c.dir}
       /\ Cardinality(c.ever) <= 2
       /\ dCalls'[changer].op \notin {"list", "info"}
       /\ Cardinality(here) <= 2 /\ Cardinality(set) <= 1
       /\ dChained => set = {}

MCInit ==
    /\ part \in {"locks", "io", "dirs", "tree"}
    /\ IOInit
    /\ D!DirInit /\ (part # "dirs" => dChained)
    /\ T!Init /\ (part # "tree" => disk = T!Start(n1))

MCNext ==
    \/ part = "locks" /\ IONext /\ (\A t \in Threads : pending'[t].op = "none")
       /\ UNCHANGED <<part, dVars, tVars>>
    \/ part = "io" /\ IONext /\ NarrowIO /\ UNCHANGED <<part, dVars, tVars>>
    \/ part = "dirs" /\ D!DirNext /\ NarrowDirs /\ UNCHANGED <<part, iovars, tVars>>
    \/ part = "tree" /\ T!Next /\ UNCHANGED <<part, iovars, dVars>>

MCSpec == MCInit /\ [][MCNext]_<<part, iovars, dVars, tVars>>

----------------------------------------------------------------------------

\* Every variable of FuseDirs and of RenameTree has its type.
TypesOK == (part = "dirs" => D!DirTypeOK) /\ (part = "tree" => T!TypeOK)
\* What a listing says has been so (fusemain.cpp:224-320).
ListingStands == part = "dirs" => D!ListingStands
\* No entry is left under a name nothing decodes to (DirNode.cpp:441-556, 614-684).
EntriesKept == part = "dirs" => D!EntriesKept
\* A rename moves the whole tree or nothing (DirNode.cpp:217-356, 614-684).
AllOrNothing == part = "tree" => T!AllOrNothing
\* Headers go with names, but for one at a time (CipherFileIO.cpp:101-150).
HeadersFollow == part = "tree" => T!HeadersFollow
\* A rename fails only because the OS refused it something (DirNode.cpp:217-304).
FailsForCause == part = "tree" => T!FailsForCause
=============================================================================
