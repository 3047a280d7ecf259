--------------------------- MODULE MCIdleMonitor ---------------------------
(***************************************************************************)
(* How mounts begin and end; a behaviour is of one part, and the others    *)
(* stay as they are.                                                       *)
(*                                                                         *)
(*   idle    two handlers and up to two open paths; timeoutCycles as for   *)
(*           one minute and as for a number of minutes whose product       *)
(*           overflows to 0 or to 1                                        *)
(*   drives  two directories, letters and processes, two commands in one   *)
(*           another, and of the mishaps a torn entry; of directories,     *)
(*           letters and processes the first is used first                 *)
(***************************************************************************)
EXTENDS IdleMonitor, FiniteSets

CONSTANTS Parts,             \* the parts there are behaviours of
          d1, d2, l1, l2, p1, p2,
          Dirs, Letters, Pids, None, MaxKeys, MaxNested, Kinds \* of Drives

VARIABLES part,
          procs, drive, gui, heap, list, frames, saved, mishaps, lost \* of Drives

MCTimeouts == {0, 1, 6}
OneMinute == {6}

MCDirs == {d1, d2}
MCLetters == {l1, l2}
MCPids == {p1, p2}

Tray == INSTANCE Drives

\* What Drives keeps in one variable is told apart.
ASSUME TrayAssumption ==
    /\ MaxKeys \in Nat /\ MaxNested \in Nat
    /\ None \notin Dirs \cup Letters \cup Pids
    /\ Pids \cap {"free", "dead", "other"} = {}
    /\ None \notin [key : 1..MaxKeys, dir : Dirs, letter : Letters, mounted : BOOLEAN,
                   child : Pids \cup {None}]
    /\ None \notin [dir : Dirs, letter : Letters \cup {None}, pid : Pids \cup {None}]

trayVars == <<procs, drive, gui, heap, list, frames, saved, mishaps, lost>>

\* As long as nothing tells two directories apart it does not matter which is used
\* first, nor with letters and processes.
Known(x) ==
    \/ \E k \in DOMAIN saved :
          saved[k] # None /\ x \in {saved[k].dir, saved[k].letter, saved[k].pid}
    \/ \E o \in DOMAIN heap :
          heap[o] # None /\ x \in {heap[o].dir, heap[o].letter, heap[o].child}
    \/ \E p \in DOMAIN procs :
          ~Tray!Dead(p) /\ x \in {p, procs[p].dir, procs[p].letter}
    \/ x \in DOMAIN drive /\ drive[x] # "free"
\* The equation with TRUE makes TLC evaluate the formula as one value instead
\* of exploring each of its disjuncts as a way to take the step.
InOrder == TRUE = (\A pair \in {<<d1, d2>>, <<l1, l2>>, <<p1, p2>>} :
                      (Known(pair[2]))' => Known(pair[1]) \/ Known(pair[2]))

\* An entry is torn while no process runs, and none is started after it.
AloneTorn == "torn" \in mishaps' => procs' = [p \in DOMAIN procs |-> Tray!NoProc]

MCInit ==
    /\ part \in Parts
    /\ Init /\ (part # "idle" => onDemand /\ timeoutCycles = 0)
    /\ Tray!Init
MCNext ==
    \/ part = "idle" /\ Next /\ UNCHANGED <<part, trayVars>>
    \/ part = "drives" /\ Tray!Next /\ InOrder /\ AloneTorn /\ UNCHANGED <<part, vars>>
MCSpec == MCInit /\ [][MCNext]_<<part, vars, trayVars>> /\ Fairness

\* The menu says what is mounted, no volume is mounted twice, and no process takes down
\* the drive of another (drives.cpp:33-346, docanfuse.cpp:443-733).
DrivesStand == /\ Tray!DrivesTypeOK /\ Tray!ChildKnown /\ Tray!OneServer
               /\ Tray!OwnDrive /\ Tray!MenuTrue
=============================================================================
