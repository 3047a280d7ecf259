------------------------------ MODULE MCVolume ------------------------------
(***************************************************************************)
(* A volume of any version with any of three sets of options, or none, and *)
(* two processes.                                                          *)
(***************************************************************************)
EXTENDS Volume, FiniteSets, TLC

MCOptions == {Plain, [Plain EXCEPT !.mac = TRUE], Standard(FALSE), Paranoia}

\* What may be there at the start: for each version, a key encoded with a password.
MCInit ==
    /\ \E k \in Keys, w \in Words :
         LET Some(recent, known, opts) ==
               [key |-> k, word |-> w, recent |-> recent, salted |-> recent,
                known |-> known, opts |-> opts]
         IN /\ \E six \in {Absent, Broken, Some(TRUE, TRUE, Plain), Some(TRUE, TRUE, Paranoia),
                          Some(TRUE, FALSE, Paranoia), Some(FALSE, TRUE, Standard(FALSE))},
                  five \in {Absent, Broken, Some(FALSE, TRUE, Standard(FALSE))},
                  rest \in {Absent, Unsupported, Some(FALSE, TRUE, Plain)} :
                disk = [pl \in Places |-> CASE pl = "v6" -> six [] pl = "v5" -> five
                                             [] (rest = Unsupported) = (pl = "old") -> rest
                                             [] OTHER -> Absent]
            /\ word = w
    /\ Init
    /\ env # Overridable
    /\ \A a, b \in Places : disk[a] # Absent /\ disk[b] # Absent => a = b \/ Broken \in {disk[a], disk[b]}

\* One mishap, or one and the new password of an old file, is enough to see what
\* follows from each.
MCNext == Next /\ Cardinality(mishaps' \ {"upgrade", "text"}) <= 1
MCSpec == MCInit /\ [][MCNext]_vars
Symmetric == Permutations(Procs) \cup Permutations(Keys) \cup Permutations(Words)
=============================================================================
