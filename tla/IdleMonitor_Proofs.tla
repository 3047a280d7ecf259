------------------------- MODULE IdleMonitor_Proofs -------------------------
(***************************************************************************)
(* How mounts begin and end, proved for any constants.                     *)
(*                                                                         *)
(* encfs_destroy's signal is never lost, for any number of handlers and    *)
(* any timeout.  The argument: the monitor owns wakeupMutex from the time  *)
(* it reads running to the time it is counted as a waiter, so a signal,    *)
(* sent with the mutex and after running was cleared, finds the monitor    *)
(* either counted (and releases it) or about to read that running is false.*)
(*                                                                         *)
(* The menu of the tray program stands, for any directories, letters,      *)
(* processes and registry.  The argument: a process that has its drive is  *)
(* one a command waits for or one the registry records with its directory, *)
(* letter and identifier; there is one entry for a directory and one       *)
(* object for an entry, which is mounted exactly when it names a process   *)
(* no command waits for.                                                   *)
(***************************************************************************)
EXTENDS MCIdleMonitor, SequenceTheorems, FiniteSetTheorems, WellFoundedInduction, TLAPS

\* The monitor's places with the mutex, and those of them it reaches only by
\* having found running set.
Owning == {"loop", "usage", "mounted", "count", "unmount", "sleep", "await", "leave"}
Committed == {"usage", "mounted", "count", "unmount", "sleep", "await"}

\* The mutex is owned by whoever is at a place that owns it.
Mutex ==
    /\ wmutex = "monitor" <=> mpc \in Owning
    /\ wmutex = "destroy" <=> dpc = "unlock"

\* running is cleared by the first step of encfs_destroy.
Stopped == running <=> dpc = "none"

\* The condition variable counts the monitor while it waits, and a release is
\* for the generation after the one the monitor came in with.
Counted ==
    /\ cond.waiters = IF mpc \in Waiting \cup Waking THEN 1 ELSE 0
    /\ cond.releases <= cond.waiters
    /\ mpc \in Waking => cond.releases = 1
    /\ mpc \in Waiting => cond.generation = seen + cond.releases

\* After the signal the monitor is not on its way to sleep, nor left asleep.
Signalled ==
    dpc \in {"unlock", "join", "done"} =>
        /\ mpc \notin Committed
        /\ mpc \in Waiting => cond.releases = 1

IInv == TypeOK /\ Mutex /\ Stopped /\ Counted /\ EventMeansRelease /\ Signalled

\* At first the monitor is there and nothing was signalled.
LEMMA InitIInv == ASSUME Init PROVE IInv
<1> USE DEF Init
<1>1. TypeOK
  <2>1. cond \in [waiters : 0..1, releases : 0..1, generation : Nat, event : BOOLEAN]
    BY DEF Cond
  <2>2. cpc \in [Clients -> {"idle", "again", "remount", "in"}]
    OBVIOUS
  <2>3. openCount \in 0..MaxOpen
    BY ConstantsAssumption
  <2> QED
    BY <2>1, <2>2, <2>3, Zenon DEF TypeOK, MonitorPlaces
<1>2. Mutex /\ Stopped /\ Signalled  BY DEF Mutex, Stopped, Signalled, Owning
<1>3. Counted  BY DEF Counted, Waiting, Waking, Cond
<1>4. EventMeansRelease  BY DEF EventMeansRelease, Cond
<1> QED
  BY <1>1, <1>2, <1>3, <1>4 DEF IInv

\* A step of the monitor.
LEMMA MonitorStep == ASSUME IInv, Monitor PROVE IInv'
<1> USE DEF IInv, TypeOK, Mutex, Stopped, Counted, EventMeansRelease, Signalled,
            MonitorPlaces, Owning, Committed, Waiting, Waking, opts, context, sync
<1>1. CASE MonitorStart  BY <1>1 DEF MonitorStart
<1>2. CASE MonitorLoop  BY <1>2 DEF MonitorLoop
<1>3. CASE MonitorUsage  BY <1>3 DEF MonitorUsage
<1>4. CASE MonitorMounted  BY <1>4 DEF MonitorMounted
<1>5. CASE MonitorCount  BY <1>5 DEF MonitorCount
<1>6. CASE MonitorUnmount  BY <1>6 DEF MonitorUnmount
<1>7. CASE MonitorSleep  BY <1>7 DEF MonitorSleep, CondEnter, Cond
<1>8. CASE MonitorWake  BY <1>8 DEF MonitorWake, CondWoken
<1>9. CASE MonitorBack
  <2> USE <1>9 DEF MonitorBack, CondLeave, Cond
  <2>1. cond.releases = 1 /\ cond.waiters = 1 /\ cond.event
    OBVIOUS
  <2>2. cond' = [waiters |-> 0, releases |-> 0, generation |-> cond.generation,
                 event |-> FALSE]
    <3>1. cond' = Cond(0, 0, cond.generation, FALSE)
      <4>1. cond.waiters - 1 = 0 /\ cond.releases - 1 = 0
        BY <2>1
      <4>2. (cond.event /\ cond.releases # 1) = FALSE
        BY <2>1
      <4> QED
        BY <4>1, <4>2 DEF MonitorBack, CondLeave
    <3> QED
      BY <3>1
  <2>3. TypeOK' /\ Mutex' /\ Stopped'
    BY <2>2
  <2>4. Counted' /\ EventMeansRelease' /\ Signalled'
    BY <2>2
  <2> QED
    BY <2>3, <2>4
<1>10. CASE MonitorLeave  BY <1>10 DEF MonitorLeave
<1> QED
  BY <1>1, <1>2, <1>3, <1>4, <1>5, <1>6, <1>7, <1>8, <1>9, <1>10 DEF Monitor

\* A step of encfs_destroy, whose signal comes with the mutex.
LEMMA DestroyStep == ASSUME IInv, DestroyStop \/ Destroy PROVE IInv'
<1> USE DEF IInv, TypeOK, Mutex, Stopped, Counted, EventMeansRelease, Signalled,
            MonitorPlaces, Owning, Committed, Waiting, Waking, opts, context, monitor, sync
<1>1. CASE DestroyStop
  <2>1. TypeOK'
    BY <1>1 DEF DestroyStop
  <2>2. Mutex' /\ Stopped'
    BY <1>1 DEF DestroyStop
  <2>3. Counted' /\ EventMeansRelease' /\ Signalled'
    BY <1>1 DEF DestroyStop
  <2> QED
    BY <2>1, <2>2, <2>3
<1>2. CASE DestroySignal
  <2> USE <1>2 DEF DestroySignal, CondSignal, Cond
  <2>1. CASE cond.waiters > cond.releases
    <3>0. cond.waiters = 1 /\ cond.releases = 0
      BY <2>1
    <3>1. cond' = [waiters |-> 1, releases |-> 1, generation |-> cond.generation + 1,
                   event |-> TRUE]
      <4>1. cond' = Cond(1, 1, cond.generation + 1, TRUE)
        <5>1. cond.releases + 1 = 1
          BY <3>0
        <5> QED
          BY <2>1, <3>0, <5>1, Zenon
      <4> QED
        BY <4>1
    <3>2. TypeOK' /\ Mutex' /\ Stopped'
      BY <3>1
    <3>3. Counted' /\ EventMeansRelease' /\ Signalled'
      BY <2>1, <3>1
    <3> QED
      BY <3>2, <3>3
  <2>2. CASE ~(cond.waiters > cond.releases)
    BY <2>2
  <2> QED
    BY <2>1, <2>2
<1>3. CASE DestroyUnlock  BY <1>3 DEF DestroyUnlock
<1>4. CASE DestroyJoin  BY <1>4 DEF DestroyJoin
<1> QED
  BY <1>1, <1>2, <1>3, <1>4 DEF Destroy

\* A step of a handler, which leaves the monitor and its mutex alone.
LEMMA ClientStep == ASSUME IInv, NEW c \in Clients, Client(c) PROVE IInv'
<1>a. TypeOK
  BY DEF IInv
<1>1. UNCHANGED <<running, wmutex, cond, mpc, idle, seen, dpc>>
  BY DEF Client, GetRoot, Remount, Return, Release, opts, monitor, sync
<1>2. TypeOK'
  <2> USE ConstantsAssumption DEF TypeOK, opts, monitor, sync
  <2>1. CASE GetRoot(c)  BY <1>a, <2>1 DEF GetRoot
  <2>2. CASE Remount(c)  BY <1>a, <2>2 DEF Remount
  <2>3. CASE Return(c)  BY <1>a, <2>3 DEF Return
  <2>4. CASE Release(c)  BY <1>a, <2>4 DEF Release
  <2> QED
    BY <2>1, <2>2, <2>3, <2>4 DEF Client
<1>3. /\ Mutex' /\ Stopped' /\ Counted' /\ EventMeansRelease' /\ Signalled'
  BY <1>1 DEF IInv, Mutex, Stopped, Counted, EventMeansRelease, Signalled
<1> QED
  BY <1>2, <1>3 DEF IInv

\* No step.
LEMMA StutterStep == ASSUME IInv, UNCHANGED vars PROVE IInv'
BY DEF IInv, TypeOK, Mutex, Stopped, Counted, EventMeansRelease, Signalled,
       vars, opts, monitor, context, sync

\* The inductive invariant of the specification.
THEOREM Invariant == Spec => []IInv
<1>1. Init => IInv  BY InitIInv
<1>2. IInv /\ [Next]_vars => IInv'
  BY MonitorStep, DestroyStep, ClientStep, StutterStep DEF Next
<1> QED
  BY <1>1, <1>2, PTL DEF Spec

\* Every variable keeps its type: in particular the condition variable never
\* has more than one waiter or release (compatwin.cpp:149-282).
THEOREM TypeCorrect == Spec => []TypeOK
<1>1. IInv => TypeOK  BY DEF IInv
<1> QED
  BY <1>1, Invariant, PTL

\* The event is set exactly while a release is left (compatwin.cpp:271-282).
THEOREM EventAlwaysMeansRelease == Spec => []EventMeansRelease
<1>1. IInv => EventMeansRelease  BY DEF IInv
<1> QED
  BY <1>1, Invariant, PTL

\* encfs_destroy never waits for a monitor that slept through its signal,
\* although running is written without the mutex (main.cpp:465-471).
THEOREM NeverLost == Spec => []SignalNotLost
<1>1. IInv => SignalNotLost
  BY DEF IInv, TypeOK, Counted, EventMeansRelease, Signalled, SignalNotLost,
         CondWoken, Waiting
<1> QED
  BY <1>1, Invariant, PTL

----------------------------------------------------------------------------
(* The tray program and its processes.  What is said of the program's      *)
(* variables is said of values for them, since a command goes through      *)
(* several before it waits: h for heap, ls for list, fs for frames, s for  *)
(* saved, P for procs, D for drive, m for mishaps.                         *)

Process == [phase : {"starting", "serving", "ending"}, dir : Dirs, letter : Letters]
DriveRec == [key : Tray!Keys, dir : Dirs, letter : Letters, mounted : BOOLEAN,
             child : Pids \cup {None}]
EntryRec == [dir : Dirs, letter : Letters \cup {None}, pid : Pids \cup {None}]
Frame == [obj : Tray!Objs \cup {Tray!Null}, at : {"choose", "letter", "password", "wait"},
          open : BOOLEAN]

\* The objects are those of the list, one for each key, and the registry has each.
Listing(h, ls, s) ==
    /\ h \in [Tray!Objs -> {None} \cup DriveRec]
    /\ ls \in Seq(Tray!Objs \cup {Tray!Null})
    /\ s \in [Tray!Keys -> {None} \cup EntryRec]
    /\ \A o \in Tray!Objs : h[o] # None <=> \E i \in 1..Len(ls) : ls[i] = o
    /\ \A i, j \in 1..Len(ls) : ls[i] = ls[j] /\ ls[i] # Tray!Null => i = j
    /\ \A o, q \in Tray!Objs : h[o] # None /\ h[q] # None /\ h[o].key = h[q].key => o = q
    /\ \A o \in Tray!Objs : h[o] # None =>
          /\ s[h[o].key] # None
          /\ s[h[o].key].dir = h[o].dir
          /\ s[h[o].key].letter = h[o].letter

\* A command has begun on an object that is not mounted, no two on the same and one
\* OpenOrCreate at most, and only the last waits for a process.
Commands(h, fs) ==
    /\ fs \in Seq(Frame) /\ Len(fs) <= MaxNested
    /\ \A i \in 1..Len(fs) :
          /\ fs[i].obj = Tray!Null <=> fs[i].at = "choose"
          /\ fs[i].at = "choose" => fs[i].open
          /\ fs[i].at = "wait" => i = Len(fs) /\ h[fs[i].obj].child # None
          /\ fs[i].obj # Tray!Null => h[fs[i].obj] # None /\ ~h[fs[i].obj].mounted
    /\ \A i, j \in 1..Len(fs) : (fs[i].open /\ fs[j].open) \/ fs[i].obj = fs[j].obj => i = j
    /\ \A o \in Tray!Objs : h[o] # None =>
          IF h[o].mounted THEN h[o].child # None
          ELSE h[o].child # None => \E i \in 1..Len(fs) : fs[i].obj = o /\ fs[i].at = "wait"

\* The letter a command is about to mount at is free.
FreeLetters(D, h, fs) ==
    \A i \in 1..Len(fs) : fs[i].at = "password" => D[h[fs[i].obj].letter] = "free"

\* The letter of a process is free, or the process has it.
OwnLetters(P, D) ==
    \A p \in Pids : P[p] # Tray!NoProc =>
        D[P[p].letter] = "free" \/ (P[p].phase = "serving" /\ D[P[p].letter] = p)

\* The process an object or an entry names has its directory and letter.
Agrees(P, p, d, l) == P[p].phase # "none" => P[p].dir = d /\ P[p].letter = l
SameDrive(P, h, s) ==
    /\ \A o \in Tray!Objs : h[o] # None /\ h[o].child # None =>
          Agrees(P, h[o].child, h[o].dir, h[o].letter)
    /\ \A k \in Tray!Keys : s[k] # None /\ s[k].pid # None =>
          Agrees(P, s[k].pid, s[k].dir, s[k].letter)

\* A process whose start a command waits for, and one the registry and the list have.
Watched(P, h, fs, p) ==
    \E i \in 1..Len(fs) :
      /\ fs[i].at = "wait"
      /\ h[fs[i].obj].child = p
      /\ h[fs[i].obj].dir = P[p].dir
      /\ h[fs[i].obj].letter = P[p].letter
Recorded(P, g, h, s, p) ==
    \E k \in Tray!Keys :
      /\ s[k] = [dir |-> P[p].dir, letter |-> P[p].letter, pid |-> p]
      /\ g => \E o \in Tray!Objs :
                h[o] # None /\ h[o].key = k /\ h[o].child = p /\ h[o].mounted

\* The list is whole, and so is the registry, which has one entry for a directory.
Whole(g, h, ls, s) ==
    /\ \A i \in 1..Len(ls) : ls[i] # Tray!Null
    /\ \A k \in Tray!Keys : s[k] # None =>
          /\ s[k].letter # None
          /\ g => \E o \in Tray!Objs : h[o] # None /\ h[o].key = k
    /\ \A k, j \in Tray!Keys : s[k] # None /\ s[j] # None /\ s[k].dir = s[j].dir => k = j
Attended(P, D, g, h, fs, s) ==
    /\ \A p \in Pids : P[p].phase = "starting" => Watched(P, h, fs, p)
    /\ \A p \in Pids : P[p].phase = "serving" /\ D[P[p].letter] = p =>
          Watched(P, h, fs, p) \/ Recorded(P, g, h, s, p)

NoneTaken(m) == "taken" \notin m
NoneReused(m) == "reused" \notin m
Untroubled(m) == m \cap {"taken", "nested", "slow", "killed", "torn"} = {}

TrayInv ==
    /\ procs \in [Pids -> {Tray!NoProc} \cup Process]
    /\ drive \in [Letters -> Pids \cup {"free", "dead", "other"}]
    /\ gui \in BOOLEAN /\ lost \in BOOLEAN /\ mishaps \subseteq Kinds
    /\ Listing(heap, list, saved) /\ Commands(heap, frames)
    /\ ~gui => list = <<>> /\ frames = <<>>
    /\ NoneTaken(mishaps) => ~lost /\ FreeLetters(drive, heap, frames) /\ OwnLetters(procs, drive)
    /\ NoneReused(mishaps) => SameDrive(procs, heap, saved)
    /\ Untroubled(mishaps) =>
          /\ Whole(gui, heap, list, saved)
          /\ Attended(procs, drive, gui, heap, frames, saved)

Procs == [Pids -> {Tray!NoProc} \cup Process]
DriveMap == [Letters -> Pids \cup {"free", "dead", "other"}]

\* Objects and keys are numbers, and no object is the null pointer.
LEMMA NumbersOf ==
    /\ Tray!Objs \subseteq Nat /\ Tray!Keys \subseteq Nat
    /\ Tray!Null \notin Tray!Objs
BY TrayAssumption DEF Tray!Objs, Tray!Keys, Tray!Null

\* A process that is there has a phase of its own, a directory and a letter.
LEMMA ProcessIs ==
    ASSUME NEW P \in Procs, NEW p \in Pids
    PROVE  /\ P[p] = Tray!NoProc <=> P[p].phase = "none"
           /\ P[p] # Tray!NoProc => /\ P[p] \in Process
                                    /\ P[p].letter \in Letters
                                    /\ P[p].dir \in Dirs
BY DEF Procs, Process, Tray!NoProc

\* So have an object and an entry, and a command is about an object that is there.
LEMMA RecordsAre ==
    ASSUME NEW h, NEW ls, NEW s, Listing(h, ls, s)
    PROVE  /\ \A o \in Tray!Objs : h[o] # None => h[o] \in DriveRec
           /\ \A k \in Tray!Keys : s[k] # None => s[k] \in EntryRec
BY DEF Listing

\* A command that is past its first dialogue is about an object that is there and not mounted.
LEMMA FramesAre ==
    ASSUME NEW h, NEW ls, NEW s, NEW fs, Listing(h, ls, s), Commands(h, fs)
    PROVE  \A i \in 1..Len(fs) :
             /\ fs[i] \in Frame
             /\ fs[i].at # "choose" =>
                  /\ fs[i].obj \in Tray!Objs /\ fs[i].obj # Tray!Null
                  /\ h[fs[i].obj] # None /\ h[fs[i].obj] \in DriveRec
                  /\ h[fs[i].obj].letter \in Letters /\ ~h[fs[i].obj].mounted
<1> TAKE i \in 1..Len(fs)
<1>1. fs[i] \in Frame
  BY DEF Commands
<1>2. ASSUME fs[i].at # "choose"
      PROVE  /\ fs[i].obj \in Tray!Objs /\ fs[i].obj # Tray!Null
             /\ h[fs[i].obj] # None /\ ~h[fs[i].obj].mounted
  BY <1>1, <1>2 DEF Commands, Frame
<1>3. ASSUME fs[i].at # "choose"
      PROVE  h[fs[i].obj] \in DriveRec /\ h[fs[i].obj].letter \in Letters
  BY <1>2, <1>3, RecordsAre DEF DriveRec
<1> QED
  BY <1>1, <1>2, <1>3

\* What is free of a mishap later was so before.
LEMMA MishapsGrow ==
    ASSUME NEW m, NEW n, m \subseteq n
    PROVE  /\ NoneTaken(n) => NoneTaken(m)
           /\ NoneReused(n) => NoneReused(m)
           /\ Untroubled(n) => Untroubled(m) /\ NoneTaken(n)
BY Zenon DEF NoneTaken, NoneReused, Untroubled

\* A step adds its mishaps to those of the behaviour.
LEMMA MishapIs ==
    ASSUME NEW c, Tray!Mishap(c), mishaps \subseteq Kinds
    PROVE  mishaps \subseteq mishaps' /\ mishaps' \subseteq Kinds /\ c \subseteq mishaps'
BY DEF Tray!Mishap

----------------------------------------------------------------------------
(* Steps of the processes and the drives: the tray program's variables stay. *)

\* What such a step keeps.
LEMMA OutsideKeeps ==
    ASSUME TrayInv, UNCHANGED Tray!inside,
           procs' \in Procs, drive' \in DriveMap, lost' \in BOOLEAN,
           mishaps \subseteq mishaps', mishaps' \subseteq Kinds,
           NoneTaken(mishaps') /\ ~lost /\ FreeLetters(drive, heap, frames) /\ OwnLetters(procs, drive) =>
               ~lost' /\ FreeLetters(drive', heap, frames) /\ OwnLetters(procs', drive'),
           SameDrive(procs, heap, saved) => SameDrive(procs', heap, saved),
           NoneTaken(mishaps') /\ OwnLetters(procs, drive)
             /\ Attended(procs, drive, gui, heap, frames, saved) =>
               Attended(procs', drive', gui, heap, frames, saved)
    PROVE  TrayInv'
BY MishapsGrow, Zenon DEF TrayInv, Procs, DriveMap, Tray!inside

\* A process is no more.
LEMMA GoneStep ==
    ASSUME TrayInv, NEW p \in Pids, Tray!Gone(p)
    PROVE  /\ procs' \in Procs /\ drive' \in DriveMap
           /\ FreeLetters(drive, heap, frames) => FreeLetters(drive', heap, frames)
           /\ OwnLetters(procs, drive) => OwnLetters(procs', drive')
           /\ SameDrive(procs, heap, saved) => SameDrive(procs', heap, saved)
           /\ Attended(procs, drive, gui, heap, frames, saved) =>
                Attended(procs', drive', gui, heap, frames, saved)
<1>0. procs \in Procs /\ drive \in DriveMap
      /\ Listing(heap, list, saved) /\ Commands(heap, frames)
  BY DEF TrayInv, Procs, DriveMap
<1>1. procs' \in Procs /\ drive' \in DriveMap
  BY <1>0 DEF Tray!Gone, Procs, DriveMap
<1>2. /\ \A l \in Letters : drive'[l] = IF drive[l] = p THEN "dead" ELSE drive[l]
      /\ \A q \in Pids : q # p => procs'[q] = procs[q]
      /\ procs'[p] = Tray!NoProc /\ procs'[p].phase = "none" /\ p # "free" /\ p # "dead"
  BY <1>0, TrayAssumption DEF Tray!Gone, Procs, DriveMap, Tray!NoProc
<1>3. \A l \in Letters : /\ drive[l] = "free" => drive'[l] = "free"
                         /\ \A q \in Pids : drive'[l] = q <=> drive[l] = q /\ q # p
  BY <1>2, TrayAssumption
<1>4. FreeLetters(drive, heap, frames) => FreeLetters(drive', heap, frames)
  BY <1>0, <1>3, FramesAre DEF FreeLetters
<1>5. OwnLetters(procs, drive) => OwnLetters(procs', drive')
  BY <1>0, <1>2, <1>3, ProcessIs DEF OwnLetters
<1>6. SameDrive(procs, heap, saved) => SameDrive(procs', heap, saved)
  BY <1>0, <1>2, RecordsAre DEF SameDrive, Agrees, DriveRec, EntryRec
<1>7. ASSUME Attended(procs, drive, gui, heap, frames, saved) PROVE Attended(procs', drive', gui, heap, frames, saved)
  <2>1. ASSUME NEW q \in Pids, procs'[q].phase = "starting" PROVE Watched(procs', heap, frames, q)
    BY <1>2, <1>7, <2>1 DEF Attended, Watched
  <2>2. ASSUME NEW q \in Pids, procs'[q].phase = "serving", drive'[procs'[q].letter] = q
        PROVE  Watched(procs', heap, frames, q) \/ Recorded(procs', gui, heap, saved, q)
    <3>1. q # p /\ procs'[q] = procs[q] /\ drive[procs[q].letter] = q
      BY <1>0, <1>2, <1>3, <2>2, ProcessIs DEF Tray!NoProc
    <3> QED
      BY <1>7, <2>2, <3>1 DEF Attended, Watched, Recorded
  <2> QED
    BY <2>1, <2>2 DEF Attended
<1> QED
  BY <1>1, <1>4, <1>5, <1>6, <1>7

\* main returns before there was a drive.
LEMMA MainFailsKeeps == ASSUME TrayInv, NEW p \in Pids, Tray!MainFails(p) PROVE TrayInv'
<1>1. /\ Tray!Gone(p) /\ UNCHANGED Tray!inside /\ lost' = lost /\ lost \in BOOLEAN
      /\ mishaps' = mishaps /\ mishaps \subseteq Kinds
  BY DEF Tray!MainFails, Tray!Calm, TrayInv
<1> QED
  BY <1>1, GoneStep, OutsideKeeps, Zenon

\* A process crashes or is ended.
LEMMA CrashKeeps == ASSUME TrayInv, NEW p \in Pids, Tray!Crash(p) PROVE TrayInv'
<1>1. /\ Tray!Gone(p) /\ UNCHANGED Tray!inside /\ lost' = lost /\ lost \in BOOLEAN
      /\ mishaps' = mishaps /\ mishaps \subseteq Kinds
  BY DEF Tray!Crash, Tray!Calm, TrayInv
<1> QED
  BY <1>1, GoneStep, OutsideKeeps, Zenon

\* Nobody else counts on the letter, or a mishap is recorded.
LEMMA NobodyCounts ==
    ASSUME TrayInv, NEW l \in Letters, NEW p, ~Tray!Counted(l, p)
    PROVE  /\ \A q \in Pids \ {p} : procs[q].letter # l
           /\ \A i \in 1..Len(frames) :
                frames[i].at = "password" => heap[frames[i].obj].letter # l
<1>1. DOMAIN frames = 1..Len(frames)
  BY DEF TrayInv, Commands
<1> QED
  BY <1>1 DEF Tray!Counted

\* DokanMain gets the letter, or finds it taken: whoever counts on it is told by "taken".
LEMMA DokanMainKeeps == ASSUME TrayInv, NEW p \in Pids, Tray!DokanMain(p) PROVE TrayInv'
<1> DEFINE l == procs[p].letter
<1>1. procs \in Procs /\ drive \in DriveMap
  BY DEF TrayInv, Procs, DriveMap
<1>2. procs[p].phase = "starting" /\ l \in Letters /\ procs[p] \in Process
  BY <1>1, ProcessIs DEF Tray!DokanMain
<1>3. CASE /\ drive[l] = "free"
           /\ drive' = [drive EXCEPT ![l] = p]
           /\ procs' = [procs EXCEPT ![p].phase = "serving"]
           /\ Tray!Mishap(IF Tray!Counted(l, p) THEN {"taken"} ELSE {})
           /\ UNCHANGED <<Tray!inside, lost>>
  <2>1. /\ procs' \in Procs /\ drive' \in DriveMap
        /\ procs'[p].phase = "serving" /\ procs'[p].letter = l /\ procs'[p].dir = procs[p].dir
        /\ \A q \in Pids : q # p => procs'[q] = procs[q]
        /\ drive'[l] = p /\ \A x \in Letters : x # l => drive'[x] = drive[x]
    BY <1>1, <1>2, <1>3 DEF Procs, DriveMap, Process
  <2>2. mishaps \subseteq mishaps' /\ mishaps' \subseteq Kinds
    BY <1>3, MishapIs DEF TrayInv
  <2>3. ASSUME NoneTaken(mishaps') PROVE ~Tray!Counted(l, p)
    BY <1>3, <2>3, MishapIs, Zenon DEF TrayInv, NoneTaken
  <2>4. ASSUME NoneTaken(mishaps'), FreeLetters(drive, heap, frames)
        PROVE  FreeLetters(drive', heap, frames)
    BY <1>2, <2>1, <2>3, <2>4, NobodyCounts, FramesAre DEF FreeLetters, TrayInv
  <2>5. ASSUME NoneTaken(mishaps'), OwnLetters(procs, drive)
        PROVE  OwnLetters(procs', drive')
    BY <1>1, <1>2, <2>1, <2>3, <2>5, NobodyCounts, ProcessIs DEF OwnLetters
  <2>6. ASSUME SameDrive(procs, heap, saved) PROVE SameDrive(procs', heap, saved)
    BY <1>2, <2>1, <2>6, RecordsAre DEF SameDrive, Agrees, DriveRec, EntryRec, TrayInv
  <2>7. ASSUME Attended(procs, drive, gui, heap, frames, saved)
        PROVE  Attended(procs', drive', gui, heap, frames, saved)
    <3>1. ASSUME NEW q \in Pids, procs'[q].phase = "starting"
          PROVE Watched(procs', heap, frames, q)
      BY <2>1, <2>7, <3>1 DEF Attended, Watched
    <3>2. ASSUME NEW q \in Pids, procs'[q].phase = "serving", drive'[procs'[q].letter] = q
          PROVE  Watched(procs', heap, frames, q) \/ Recorded(procs', gui, heap, saved, q)
      <4>1. CASE q = p
        BY <1>2, <2>1, <2>7, <4>1 DEF Attended, Watched
      <4>2. CASE q # p
        <5>1. procs'[q] = procs[q] /\ procs[q].letter # l /\ procs[q].letter \in Letters
          BY <1>1, <2>1, <3>2, <4>2, ProcessIs DEF Tray!NoProc
        <5> QED
          BY <2>1, <2>7, <3>2, <5>1 DEF Attended, Watched, Recorded
      <4> QED
        BY <4>1, <4>2
    <3> QED
      BY <3>1, <3>2 DEF Attended
  <2>8. UNCHANGED Tray!inside /\ lost' = lost /\ lost \in BOOLEAN
    BY <1>3 DEF TrayInv
  <2> QED
    BY <2>1, <2>2, <2>4, <2>5, <2>6, <2>7, <2>8, OutsideKeeps, Zenon
<1>4. CASE /\ drive[l] # "free"
           /\ procs' = [procs EXCEPT ![p].phase = "ending"]
           /\ Tray!Calm /\ UNCHANGED drive
           /\ UNCHANGED <<Tray!inside, lost>>
  <2>1. /\ procs' \in Procs /\ drive' \in DriveMap
        /\ procs'[p].phase = "ending" /\ procs'[p].letter = l /\ procs'[p].dir = procs[p].dir
        /\ \A q \in Pids : q # p => procs'[q] = procs[q]
    BY <1>1, <1>2, <1>4 DEF Procs, DriveMap, Process
  <2>2. ~OwnLetters(procs, drive)
    BY <1>2, <1>4 DEF OwnLetters, Tray!NoProc
  <2>3. ASSUME SameDrive(procs, heap, saved) PROVE SameDrive(procs', heap, saved)
    BY <1>2, <2>1, <2>3, RecordsAre DEF SameDrive, Agrees, DriveRec, EntryRec, TrayInv
  <2>4. UNCHANGED Tray!inside /\ lost' = lost /\ lost \in BOOLEAN
        /\ mishaps' = mishaps /\ mishaps \subseteq Kinds
    BY <1>4 DEF TrayInv, Tray!Calm
  <2> QED
    BY <2>1, <2>2, <2>3, <2>4, OutsideKeeps, Zenon
<1> QED
  BY <1>3, <1>4 DEF Tray!DokanMain

\* The drive was taken down, and DokanMain returns.
LEMMA UnmountedKeeps == ASSUME TrayInv, NEW p \in Pids, Tray!Unmounted(p) PROVE TrayInv'
<1>1. procs \in Procs /\ drive \in DriveMap
  BY DEF TrayInv, Procs, DriveMap
<1>2. procs[p].phase = "serving" /\ procs[p].letter \in Letters /\ procs[p] \in Process
  BY <1>1, ProcessIs DEF Tray!Unmounted
<1>3. /\ procs' \in Procs /\ drive' = drive
      /\ procs'[p].phase = "ending" /\ procs'[p].letter = procs[p].letter
      /\ procs'[p].dir = procs[p].dir /\ drive[procs[p].letter] # p
      /\ \A q \in Pids : q # p => procs'[q] = procs[q]
  BY <1>1, <1>2 DEF Tray!Unmounted, Procs, Process
<1>4. ASSUME OwnLetters(procs, drive) PROVE OwnLetters(procs', drive')
  BY <1>1, <1>2, <1>3, <1>4, ProcessIs DEF OwnLetters
<1>5. ASSUME SameDrive(procs, heap, saved) PROVE SameDrive(procs', heap, saved)
  BY <1>2, <1>3, <1>5, RecordsAre DEF SameDrive, Agrees, DriveRec, EntryRec, TrayInv
<1>6. ASSUME Attended(procs, drive, gui, heap, frames, saved)
      PROVE  Attended(procs', drive', gui, heap, frames, saved)
  BY <1>3, <1>6 DEF Attended, Watched, Recorded
<1>7. UNCHANGED Tray!inside /\ lost' = lost /\ lost \in BOOLEAN
      /\ mishaps' = mishaps /\ mishaps \subseteq Kinds
  BY DEF TrayInv, Tray!Calm, Tray!Unmounted
<1> QED
  BY <1>1, <1>3, <1>4, <1>5, <1>6, <1>7, OutsideKeeps, Zenon

\* A process takes down the drive of its letter: its own or none, as OwnLetters has it.
LEMMA TeardownKeeps == ASSUME TrayInv, NEW p \in Pids, Tray!Teardown(p) PROVE TrayInv'
<1> DEFINE l == procs[p].letter
<1>1. procs \in Procs /\ drive \in DriveMap
  BY DEF TrayInv, Procs, DriveMap
<1>2. procs[p].phase = "ending" /\ l \in Letters /\ procs[p] # Tray!NoProc
  BY <1>1, ProcessIs DEF Tray!Teardown, Tray!NoProc
<1>3. /\ procs' \in Procs /\ drive' \in DriveMap
      /\ procs'[p] = Tray!NoProc /\ procs'[p].phase = "none"
      /\ \A q \in Pids : q # p => procs'[q] = procs[q]
      /\ drive[l] = "free" => drive' = drive
      /\ lost' = (lost \/ drive[l] \in Pids)
  BY <1>1, <1>2 DEF Tray!Teardown, Procs, DriveMap, Tray!FuseUnmount, Tray!NoProc
<1>4. ASSUME OwnLetters(procs, drive) PROVE drive[l] = "free" /\ drive' = drive /\ lost' = lost
  BY <1>2, <1>3, <1>4, TrayAssumption DEF OwnLetters, TrayInv
<1>5. ASSUME OwnLetters(procs, drive) PROVE OwnLetters(procs', drive')
  BY <1>1, <1>2, <1>3, <1>4, <1>5, ProcessIs DEF OwnLetters
<1>6. ASSUME SameDrive(procs, heap, saved) PROVE SameDrive(procs', heap, saved)
  BY <1>2, <1>3, <1>6, RecordsAre DEF SameDrive, Agrees, DriveRec, EntryRec, TrayInv
<1>7. ASSUME OwnLetters(procs, drive), Attended(procs, drive, gui, heap, frames, saved)
      PROVE  Attended(procs', drive', gui, heap, frames, saved)
  BY <1>3, <1>4, <1>7 DEF Attended, Watched, Recorded
<1>8. UNCHANGED Tray!inside /\ lost \in BOOLEAN
      /\ mishaps' = mishaps /\ mishaps \subseteq Kinds
  BY DEF TrayInv, Tray!Calm, Tray!Teardown
<1>9. lost' \in BOOLEAN
  BY <1>3, <1>8, Zenon
<1> QED
  BY <1>1, <1>3, <1>4, <1>5, <1>6, <1>7, <1>8, <1>9, OutsideKeeps, Zenon

\* A drive is taken out.
LEMMA DriveGoesKeeps == ASSUME TrayInv, NEW l \in Letters, Tray!DriveGoes(l) PROVE TrayInv'
<1>1. procs \in Procs /\ drive \in DriveMap /\ procs' = procs /\ lost' = lost /\ lost \in BOOLEAN
      /\ mishaps' = mishaps /\ mishaps \subseteq Kinds /\ UNCHANGED Tray!inside
  BY DEF TrayInv, Procs, DriveMap, Tray!DriveGoes, Tray!Calm
<1>2. /\ drive' \in DriveMap /\ drive'[l] = "free"
      /\ \A x \in Letters : x # l => drive'[x] = drive[x]
      /\ \A x \in Letters, q \in Pids : drive'[x] = q => drive[x] = q
  BY <1>1, TrayAssumption DEF Tray!DriveGoes, DriveMap
<1>3. ASSUME FreeLetters(drive, heap, frames) PROVE FreeLetters(drive', heap, frames)
  BY <1>2, <1>3, FramesAre DEF FreeLetters, TrayInv
<1>4. ASSUME OwnLetters(procs, drive) PROVE OwnLetters(procs, drive')
  BY <1>1, <1>2, <1>4, ProcessIs DEF OwnLetters
<1>5. ASSUME Attended(procs, drive, gui, heap, frames, saved)
      PROVE  Attended(procs, drive', gui, heap, frames, saved)
  BY <1>1, <1>2, <1>5, ProcessIs DEF Attended, Tray!NoProc
<1> QED
  BY <1>1, <1>2, <1>3, <1>4, <1>5, OutsideKeeps, Zenon

\* Another program's drive takes a letter.
LEMMA OtherComesKeeps == ASSUME TrayInv, NEW l \in Letters, Tray!OtherComes(l) PROVE TrayInv'
<1>1. procs \in Procs /\ drive \in DriveMap /\ procs' = procs /\ lost' = lost /\ lost \in BOOLEAN
      /\ UNCHANGED Tray!inside /\ Tray!Mishap(IF Tray!Counted(l, None) THEN {"taken"} ELSE {})
  BY DEF TrayInv, Procs, DriveMap, Tray!OtherComes
<1>2. mishaps \subseteq mishaps' /\ mishaps' \subseteq Kinds
  BY <1>1, MishapIs DEF TrayInv
<1>3. ASSUME NoneTaken(mishaps') PROVE ~Tray!Counted(l, None)
  BY <1>1, <1>3, MishapIs, Zenon DEF TrayInv, NoneTaken
<1>4. /\ drive' \in DriveMap
      /\ \A x \in Letters : x # l => drive'[x] = drive[x]
      /\ \A x \in Letters, q \in Pids : drive'[x] = q => drive[x] = q
  BY <1>1, TrayAssumption DEF Tray!OtherComes, DriveMap
<1>5. ASSUME NoneTaken(mishaps')
      PROVE  /\ \A q \in Pids : procs[q].letter # l
             /\ \A i \in 1..Len(frames) :
                  frames[i].at = "password" => heap[frames[i].obj].letter # l
  BY <1>3, <1>5, NobodyCounts, TrayAssumption
<1>6. ASSUME NoneTaken(mishaps'), FreeLetters(drive, heap, frames)
      PROVE  FreeLetters(drive', heap, frames)
  BY <1>4, <1>5, <1>6, FramesAre DEF FreeLetters, TrayInv
<1>7. ASSUME NoneTaken(mishaps'), OwnLetters(procs, drive) PROVE OwnLetters(procs, drive')
  BY <1>1, <1>4, <1>5, <1>7, ProcessIs DEF OwnLetters
<1>8. ASSUME Attended(procs, drive, gui, heap, frames, saved)
      PROVE  Attended(procs, drive', gui, heap, frames, saved)
  BY <1>1, <1>4, <1>8, ProcessIs DEF Attended, Tray!NoProc
<1> QED
  BY <1>1, <1>2, <1>4, <1>6, <1>7, <1>8, OutsideKeeps, Zenon

\* A step of the processes and the drives.
LEMMA OutsideStep == ASSUME TrayInv, Tray!Outside PROVE TrayInv'
BY MainFailsKeeps, CrashKeeps, DokanMainKeeps, UnmountedKeeps, TeardownKeeps, DriveGoesKeeps,
   OtherComesKeeps, Zenon DEF Tray!Outside

----------------------------------------------------------------------------
(* Steps of the tray program: what the list and the commands are after them. *)

\* What a step of the tray program is to keep for the invariant to hold after it.
LEMMA StepKeeps ==
    ASSUME TrayInv, procs' \in Procs, drive' \in DriveMap, lost' = lost, gui' \in BOOLEAN,
           mishaps \subseteq mishaps', mishaps' \subseteq Kinds,
           Listing(heap', list', saved'), Commands(heap', frames'),
           ~gui' => list' = <<>> /\ frames' = <<>>,
           NoneTaken(mishaps') /\ FreeLetters(drive, heap, frames) /\ OwnLetters(procs, drive) =>
               FreeLetters(drive', heap', frames') /\ OwnLetters(procs', drive'),
           NoneReused(mishaps') /\ SameDrive(procs, heap, saved) => SameDrive(procs', heap', saved'),
           Untroubled(mishaps') /\ OwnLetters(procs, drive)
             /\ Whole(gui, heap, list, saved) /\ Attended(procs, drive, gui, heap, frames, saved) =>
               /\ Whole(gui', heap', list', saved')
               /\ Attended(procs', drive', gui', heap', frames', saved')
    PROVE  TrayInv'
BY MishapsGrow, Zenon DEF TrayInv, Procs, DriveMap

\* An object is in the list once, so the list without it is shorter by one.
LEMMA WithoutIs ==
    ASSUME NEW S, NEW ls \in Seq(S), NEW o, NEW k \in 1..Len(ls), ls[k] = o,
           \A i \in 1..Len(ls) : ls[i] = o => i = k
    PROVE  /\ Tray!Without(ls, o) \in Seq(S)
           /\ Len(Tray!Without(ls, o)) = Len(ls) - 1
           /\ \A i \in 1..(Len(ls) - 1) :
                Tray!Without(ls, o)[i] = ls[IF i < k THEN i ELSE i + 1]
<1> DEFINE a == SubSeq(ls, 1, k - 1)
           b == SubSeq(ls, k + 1, Len(ls))
<1>1. DOMAIN ls = 1..Len(ls) /\ Len(ls) \in Nat
  OBVIOUS
<1>2. Tray!Without(ls, o) = a \o b
  <2>1. (CHOOSE i \in DOMAIN ls : ls[i] = o) = k
    BY <1>1
  <2> QED
    BY <1>1, <2>1 DEF Tray!Without
<1>3. /\ a \in Seq(S) /\ Len(a) = k - 1 /\ \A i \in 1..(k - 1) : a[i] = ls[i]
      /\ b \in Seq(S) /\ Len(b) = Len(ls) - k
      /\ \A i \in 1..(Len(ls) - k) : b[i] = ls[k + i]
  <2>1. a \in Seq(S) /\ Len(a) = k - 1 /\ \A i \in 1..(k - 1) : a[i] = ls[i]
    BY <1>1
  <2>2. \A i \in (k + 1)..Len(ls) : ls[i] \in S
    BY <1>1
  <2>3. /\ b \in Seq(S)
        /\ Len(b) = IF k + 1 <= Len(ls) THEN Len(ls) - (k + 1) + 1 ELSE 0
        /\ \A i \in 1..(Len(ls) - (k + 1) + 1) : b[i] = ls[(k + 1) + i - 1]
    BY <1>1, <2>2, SubSeqProperties
  <2> HIDE DEF a, b
  <2>4. Len(b) = Len(ls) - k /\ \A i \in 1..(Len(ls) - k) : b[i] = ls[k + i]
    <3>0. \A n \in Nat : \A j \in 1..n :
            n - (j + 1) + 1 = n - j /\ (j + 1 <= n <=> n - j # 0)
      OBVIOUS
    <3>1. Len(ls) - (k + 1) + 1 = Len(ls) - k /\ (k + 1 <= Len(ls) <=> Len(ls) - k # 0)
      BY <1>1, <3>0, Zenon
    <3>3. Len(b) = Len(ls) - k
      BY <2>3, <3>1
    <3>2. ASSUME NEW i \in 1..(Len(ls) - k) PROVE b[i] = ls[k + i]
      <4>1. (k + 1) + i - 1 = k + i
        OBVIOUS
      <4> QED
        BY <2>3, <3>1, <4>1
    <3> QED
      BY <3>2, <3>3
  <2> QED
    BY <2>1, <2>3, <2>4
<1>4. /\ a \o b \in Seq(S) /\ Len(a \o b) = Len(ls) - 1
      /\ \A i \in 1..(Len(ls) - 1) : (a \o b)[i] = IF i <= Len(a) THEN a[i] ELSE b[i - Len(a)]
  <2> HIDE DEF a, b
  <2>1. Len(a) + Len(b) = Len(ls) - 1
    BY <1>1, <1>3
  <2>2. /\ a \o b \in Seq(S) /\ Len(a \o b) = Len(a) + Len(b)
        /\ \A i \in 1..(Len(a) + Len(b)) :
             (a \o b)[i] = IF i <= Len(a) THEN a[i] ELSE b[i - Len(a)]
    BY <1>3, ConcatProperties, Zenon
  <2> QED
    BY <2>1, <2>2
<1>5. ASSUME NEW i \in 1..(Len(ls) - 1) PROVE (a \o b)[i] = ls[IF i < k THEN i ELSE i + 1]
  <2> HIDE DEF a, b
  <2>1. CASE i < k
    BY <1>1, <1>3, <1>4, <2>1
  <2>2. CASE ~(i < k)
    <3>1. i - (k - 1) \in 1..(Len(ls) - k) /\ k + (i - (k - 1)) = i + 1
      BY <1>1, <2>2
    <3> QED
      BY <1>1, <1>3, <1>4, <2>2, <3>1
  <2> QED
    BY <2>1, <2>2
<1> QED
  BY <1>2, <1>4, <1>5

\* An object taken off the list, with its entry.
LEMMA DroppedKeeps ==
    ASSUME NEW h, NEW ls, NEW s, Listing(h, ls, s), NEW o \in Tray!Objs, h[o] # None
    PROVE  /\ Listing([h EXCEPT ![o] = None], Tray!Without(ls, o), [s EXCEPT ![h[o].key] = None])
           /\ (\A i \in 1..Len(ls) : ls[i] # Tray!Null) =>
                \A i \in 1..Len(Tray!Without(ls, o)) : Tray!Without(ls, o)[i] # Tray!Null
<1> DEFINE g == [h EXCEPT ![o] = None]
           w == Tray!Without(ls, o)
           t == [s EXCEPT ![h[o].key] = None]
<1>1. PICK k \in 1..Len(ls) : ls[k] = o
  BY DEF Listing
<1>2. \A i \in 1..Len(ls) : ls[i] = o => i = k
  BY <1>1, NumbersOf DEF Listing
<1>3. ls \in Seq(Tray!Objs \cup {Tray!Null}) /\ Len(ls) \in Nat /\ h[o].key \in Tray!Keys
  BY RecordsAre DEF Listing, DriveRec
<1>4. /\ w \in Seq(Tray!Objs \cup {Tray!Null}) /\ Len(w) = Len(ls) - 1
      /\ \A i \in 1..(Len(ls) - 1) : w[i] = ls[IF i < k THEN i ELSE i + 1]
  <2> DEFINE S == Tray!Objs \cup {Tray!Null}
  <2>1. ls \in Seq(S) /\ ls[k] = o /\ \A i \in 1..Len(ls) : ls[i] = o => i = k
    BY <1>1, <1>2, <1>3
  <2> HIDE DEF w, S
  <2>2. w = Tray!Without(ls, o)
    BY DEF w
  <2>3. /\ Tray!Without(ls, o) \in Seq(S) /\ Len(Tray!Without(ls, o)) = Len(ls) - 1
        /\ \A i \in 1..(Len(ls) - 1) :
             Tray!Without(ls, o)[i] = ls[IF i < k THEN i ELSE i + 1]
    BY <2>1, WithoutIs
  <2> QED
    BY <2>2, <2>3 DEF S
<1>5. ASSUME NEW i \in 1..Len(w)
      PROVE  /\ (IF i < k THEN i ELSE i + 1) \in 1..Len(ls)
             /\ (IF i < k THEN i ELSE i + 1) # k
  BY <1>3, <1>4
<1>6. ASSUME NEW i \in 1..Len(ls), i # k
      PROVE  \E j \in 1..Len(w) : w[j] = ls[i]
  <2>1. CASE i < k
    BY <1>3, <1>4, <2>1
  <2>2. CASE i > k
    <3>1. i - 1 \in 1..Len(w) /\ ~(i - 1 < k) /\ (i - 1) + 1 = i
      BY <1>3, <1>4, <2>2
    <3> QED
      BY <1>4, <3>1
  <2> QED
    BY <1>3, <1>6, <2>1, <2>2
<1>7. /\ g \in [Tray!Objs -> {None} \cup DriveRec] /\ t \in [Tray!Keys -> {None} \cup EntryRec]
      /\ g[o] = None /\ \A q \in Tray!Objs : q # o => g[q] = h[q]
      /\ \A x \in Tray!Keys : x # h[o].key => t[x] = s[x]
  BY <1>3 DEF Listing
<1> HIDE DEF g, w, t
<1>8. ASSUME NEW q \in Tray!Objs PROVE g[q] # None <=> \E i \in 1..Len(w) : w[i] = q
  <2>1. CASE q = o
    BY <1>2, <1>4, <1>5, <1>7, <2>1
  <2>2. CASE q # o
    <3>1. ASSUME g[q] # None PROVE \E i \in 1..Len(w) : w[i] = q
      <4>1. PICK i \in 1..Len(ls) : ls[i] = q
        BY <1>7, <2>2, <3>1 DEF Listing
      <4> QED
        BY <1>1, <1>6, <2>2, <4>1
    <3>2. ASSUME NEW i \in 1..Len(w), w[i] = q PROVE g[q] # None
      <4>1. PICK j \in 1..Len(ls) : ls[j] = q
        BY <1>4, <1>5, <3>2
      <4>2. h[q] # None
        BY <4>1 DEF Listing
      <4> QED
        BY <1>7, <2>2, <4>2
    <3> QED
      BY <3>1, <3>2
  <2> QED
    BY <2>1, <2>2
<1>9. ASSUME NEW i \in 1..Len(w), NEW j \in 1..Len(w), w[i] = w[j], w[i] # Tray!Null PROVE i = j
  <2>1. (IF i < k THEN i ELSE i + 1) = (IF j < k THEN j ELSE j + 1)
    <3> DEFINE x == IF i < k THEN i ELSE i + 1
               y == IF j < k THEN j ELSE j + 1
    <3>1. /\ x \in 1..Len(ls) /\ y \in 1..Len(ls)
          /\ i \in 1..(Len(ls) - 1) /\ j \in 1..(Len(ls) - 1)
      BY <1>4, <1>5
    <3>2. w[i] = ls[x] /\ w[j] = ls[y]
      BY <1>4, <3>1, Zenon
    <3> HIDE DEF x, y
    <3>3. x = y
      <4>1. ls[x] = ls[y] /\ ls[x] # Tray!Null
        BY <1>9, <3>2
      <4>2. \A a, b \in 1..Len(ls) : ls[a] = ls[b] /\ ls[a] # Tray!Null => a = b
        BY DEF Listing
      <4> QED
        BY <3>1, <4>1, <4>2, Zenon
    <3> QED
      BY <3>3 DEF x, y
  <2> QED
    BY <1>3, <1>4, <2>1
<1>10. \A q, r \in Tray!Objs : g[q] # None /\ g[r] # None /\ g[q].key = g[r].key => q = r
  BY <1>7 DEF Listing
<1>11. ASSUME NEW q \in Tray!Objs, g[q] # None
       PROVE  t[g[q].key] # None /\ t[g[q].key].dir = g[q].dir /\ t[g[q].key].letter = g[q].letter
  <2>1. q # o /\ g[q] = h[q] /\ h[q].key # h[o].key /\ h[q].key \in Tray!Keys
    BY <1>7, <1>11, RecordsAre DEF Listing, DriveRec
  <2> QED
    BY <1>7, <1>11, <2>1 DEF Listing
<1>12. Listing(g, w, t)
  BY <1>4, <1>7, <1>8, <1>9, <1>10, <1>11 DEF Listing
<1>13. (\A i \in 1..Len(ls) : ls[i] # Tray!Null) => \A i \in 1..Len(w) : w[i] # Tray!Null
  BY <1>4, <1>5
<1> QED
  BY <1>12, <1>13 DEF g, w, t

\* What SetDrives leaves: the objects of g are those of the list, and of the commands.
LEMMA SetDrivesIs ==
    ASSUME NEW g, NEW h, NEW ls, NEW fs, NEW s, Listing(g, ls, s), DOMAIN fs = 1..Len(fs),
           \A o \in Tray!Objs : g[o] # None => h[o] = g[o],
           \A i \in 1..Len(fs) : fs[i].obj \in Tray!Objs => g[fs[i].obj] # None,
           Tray!SetDrives(h, ls, fs)
    PROVE  heap' = g /\ list' = ls /\ frames' = fs
<1>1. DOMAIN ls = 1..Len(ls)
  BY DEF Listing
<1>2. list' = ls /\ frames' = fs
  BY DEF Tray!SetDrives
<1>3. heap' = [o \in Tray!Objs |-> IF \/ \E i \in DOMAIN ls : ls[i] = o
                                      \/ \E i \in DOMAIN fs : fs[i].obj = o
                                     THEN h[o] ELSE None]
  BY DEF Tray!SetDrives
<1>4. ASSUME NEW o \in Tray!Objs PROVE heap'[o] = g[o]
  BY <1>1, <1>3 DEF Listing
<1>5. g = [o \in Tray!Objs |-> g[o]] /\ heap' = [o \in Tray!Objs |-> heap'[o]]
  BY <1>3 DEF Listing
<1> QED
  BY <1>2, <1>4, <1>5

\* Nothing waits when the program takes commands, and then nothing is being started.
Idle(fs) == \A i \in 1..Len(fs) : fs[i].at # "wait"

\* Then no object that is not mounted has a process, and what is attended to is recorded.
LEMMA IdleIs ==
    ASSUME NEW P, NEW D, NEW g, NEW h, NEW fs, NEW ss, NEW s, Idle(fs), Idle(ss)
    PROVE  /\ Commands(h, fs) =>
                \A o \in Tray!Objs : h[o] # None /\ ~h[o].mounted => h[o].child = None
           /\ Attended(P, D, g, h, fs, s) =>
                /\ Attended(P, D, g, h, ss, s)
                /\ \A p \in Pids : P[p].phase # "starting"
                /\ \A p \in Pids : P[p].phase = "serving" /\ D[P[p].letter] = p =>
                     Recorded(P, g, h, s, p)
BY DEF Idle, Commands, Attended, Watched

\* Nothing waits: what is recorded is enough.
LEMMA AttendedIs ==
    ASSUME NEW P, NEW D, NEW g, NEW h, NEW fs, NEW s,
           \A p \in Pids : P[p].phase # "starting",
           \A p \in Pids : P[p].phase = "serving" /\ D[P[p].letter] = p => Recorded(P, g, h, s, p)
    PROVE  Attended(P, D, g, h, fs, s)
BY DEF Attended

\* One more command.
LEMMA AppendedKeeps ==
    ASSUME NEW h, NEW ls, NEW s, NEW fs, Listing(h, ls, s), Commands(h, fs), Idle(fs),
           Len(fs) < MaxNested, NEW f \in Frame, f.at # "wait",
           f.obj = Tray!Null <=> f.at = "choose", f.at = "choose" => f.open,
           f.obj # Tray!Null => h[f.obj] # None /\ ~h[f.obj].mounted,
           \A i \in 1..Len(fs) : fs[i].obj # f.obj /\ (f.open => ~fs[i].open)
    PROVE  /\ Commands(h, Append(fs, f)) /\ Idle(Append(fs, f))
           /\ \A D : /\ FreeLetters(D, h, fs)
                     /\ f.at = "password" => D[h[f.obj].letter] = "free"
                     => FreeLetters(D, h, Append(fs, f))
<1> DEFINE a == Append(fs, f)
<1>1. fs \in Seq(Frame) /\ Len(fs) \in Nat /\ Idle(fs)
  BY DEF Commands
<1>2. /\ a \in Seq(Frame) /\ Len(a) = Len(fs) + 1 /\ a[Len(fs) + 1] = f
      /\ \A i \in 1..Len(fs) : a[i] = fs[i]
  BY <1>1, AppendProperties
<1> HIDE DEF a
<1>3. \A i \in 1..Len(a) : i \in 1..Len(fs) \/ (i = Len(fs) + 1 /\ a[i] = f)
  BY <1>1, <1>2
<1>4. Idle(a)
  BY <1>1, <1>2, <1>3 DEF Idle
<1>5. \A i \in 1..Len(a) :
        /\ a[i].obj = Tray!Null <=> a[i].at = "choose"
        /\ a[i].at = "choose" => a[i].open
        /\ a[i].obj # Tray!Null => h[a[i].obj] # None /\ ~h[a[i].obj].mounted
  BY <1>2, <1>3 DEF Commands
<1>6. ASSUME NEW i \in 1..Len(a), NEW j \in 1..Len(a),
             (a[i].open /\ a[j].open) \/ a[i].obj = a[j].obj
      PROVE  i = j
  BY <1>2, <1>3, <1>6 DEF Commands
<1>7. \A o \in Tray!Objs : h[o] # None =>
        IF h[o].mounted THEN h[o].child # None ELSE h[o].child = None
  BY <1>1 DEF Commands, Idle
<1>8. Len(a) <= MaxNested
  BY <1>1, <1>2, TrayAssumption
<1>9. Commands(h, a)
  BY <1>2, <1>4, <1>5, <1>6, <1>7, <1>8 DEF Commands, Idle
<1>10. ASSUME NEW D, FreeLetters(D, h, fs), f.at = "password" => D[h[f.obj].letter] = "free"
       PROVE  FreeLetters(D, h, a)
  BY <1>2, <1>3, <1>10 DEF FreeLetters
<1> QED
  BY <1>4, <1>9, <1>10 DEF a

----------------------------------------------------------------------------
(* Mount.                                                                  *)

\* Mount may be called: the object is not mounted, no command is about it, and the
\* objects are those of g.
Mountable(o, g, h, ls, below, open, s) ==
    /\ Listing(g, ls, s) /\ Commands(g, below) /\ Idle(below) /\ Len(below) < MaxNested
    /\ \A x \in Tray!Objs : g[x] # None => h[x] = g[x]
    /\ g[o] # None /\ ~g[o].mounted
    /\ \A i \in 1..Len(below) : below[i].obj # o /\ (open => ~below[i].open)

\* Mount, from the check of the letter to its dialogue.
LEMMA MountKeeps ==
    ASSUME TrayInv, gui = TRUE, gui' = TRUE, UNCHANGED Tray!outside, Idle(frames),
           mishaps \subseteq mishaps', mishaps' \subseteq Kinds,
           NEW o \in Tray!Objs, NEW g, NEW h, NEW ls, NEW below, NEW open \in BOOLEAN, NEW s,
           Tray!Mount(o, h, ls, below, open, s), Mountable(o, g, h, ls, below, open, s),
           NoneTaken(mishaps') /\ FreeLetters(drive, heap, frames) => FreeLetters(drive, g, below),
           NoneReused(mishaps') /\ SameDrive(procs, heap, saved) => SameDrive(procs, g, s),
           Untroubled(mishaps') /\ Whole(TRUE, heap, list, saved)
             /\ Attended(procs, drive, TRUE, heap, frames, saved) =>
               Whole(TRUE, g, ls, s) /\ Attended(procs, drive, TRUE, g, below, s)
    PROVE  TrayInv'
<1> SUFFICES ASSUME
      Listing(g, ls, s), Commands(g, below), Idle(below), Len(below) < MaxNested,
      \A x \in Tray!Objs : g[x] # None => h[x] = g[x],
      g[o] # None, ~g[o].mounted,
      \A i \in 1..Len(below) : below[i].obj # o /\ (open => ~below[i].open)
    PROVE TrayInv'
  BY DEF Mountable
<1>1. /\ procs' = procs /\ drive' = drive /\ lost' = lost
      /\ procs' \in Procs /\ drive' \in DriveMap
  BY DEF TrayInv, Procs, DriveMap, Tray!outside
<1>2. /\ below \in Seq(Frame) /\ DOMAIN below = 1..Len(below) /\ Len(below) \in Nat
      /\ \A i \in 1..Len(below) : below[i].obj \in Tray!Objs => g[below[i].obj] # None
  BY NumbersOf DEF Commands
<1>3. h[o] = g[o] /\ o # Tray!Null
  BY NumbersOf
<1>4. ASSUME NEW at \in {"letter", "password"},
             at = "password" => drive[g[o].letter] = "free",
             Tray!SetDrives(h, ls, Append(below, [obj |-> o, at |-> at, open |-> open])),
             saved' = s
      PROVE  TrayInv'
  <2> DEFINE f == [obj |-> o, at |-> at, open |-> open]
             a == Append(below, f)
  <2>1. /\ f \in Frame /\ f.at # "wait" /\ f.at # "choose" /\ f.obj = o /\ f.open = open /\ f.at = at
    BY DEF Frame
  <2> HIDE DEF f
  <2>2. /\ Commands(g, a) /\ Idle(a)
        /\ FreeLetters(drive, g, below) => FreeLetters(drive, g, a)
    BY <1>3, <1>4, <2>1, AppendedKeeps
  <2>3. /\ DOMAIN a = 1..Len(a)
        /\ \A i \in 1..Len(a) : a[i].obj \in Tray!Objs => g[a[i].obj] # None
    BY <2>2, NumbersOf DEF Commands
  <2>4. heap' = g /\ list' = ls /\ frames' = a
    <3>1. Tray!SetDrives(h, ls, a)
      BY <1>4 DEF f
    <3> HIDE DEF a
    <3> QED
      BY <3>1, <2>3, SetDrivesIs
  <2>5. ASSUME Attended(procs, drive, TRUE, g, below, s)
        PROVE  Attended(procs, drive, TRUE, g, a, s)
    BY <2>2, <2>5, IdleIs
  <2> QED
    BY <1>1, <1>4, <2>2, <2>4, <2>5, StepKeeps
<1>5. ASSUME Tray!SetDrives(h, Tray!Without(ls, o), below),
             saved' = [s EXCEPT ![h[o].key] = None]
      PROVE  TrayInv'
  <2> DEFINE k == g[o].key
             d == [g EXCEPT ![o] = None]
             w == Tray!Without(ls, o)
             t == [s EXCEPT ![k] = None]
  <2>1. /\ Listing(d, w, t)
        /\ (\A i \in 1..Len(ls) : ls[i] # Tray!Null) => \A i \in 1..Len(w) : w[i] # Tray!Null
    BY DroppedKeeps
  <2>2. /\ d[o] = None /\ \A x \in Tray!Objs : x # o => d[x] = g[x]
        /\ k \in Tray!Keys
        /\ t[k] = None /\ \A x \in Tray!Keys : x # k => t[x] = s[x]
    BY RecordsAre DEF Listing, DriveRec
  <2> HIDE DEF d, w, t, k
  <2>3. \A i \in 1..Len(below) :
          below[i].obj # o /\ (below[i].obj \in Tray!Objs => d[below[i].obj] = g[below[i].obj])
    BY <2>2
  <2>4. heap' = d /\ list' = w /\ frames' = below
    <3>1. Tray!SetDrives(h, w, below)
      BY <1>5 DEF w
    <3>2. \A i \in 1..Len(below) : below[i].obj \in Tray!Objs => d[below[i].obj] # None
      BY <1>2, <2>3
    <3>3. \A x \in Tray!Objs : d[x] # None => h[x] = d[x]
      BY <2>2
    <3> QED
      BY <1>2, <2>1, <3>1, <3>2, <3>3, SetDrivesIs
  <2>5. saved' = t
    BY <1>3, <1>5 DEF t, k
  <2>6. Commands(d, below)
    <3>1. ASSUME NEW i \in 1..Len(below), below[i].obj # Tray!Null
          PROVE  d[below[i].obj] # None /\ ~d[below[i].obj].mounted
      <4>1. below[i].obj \in Tray!Objs
        <5>1. below[i].at # "choose"
          BY <3>1 DEF Commands
        <5> QED
          BY <5>1, FramesAre
      <4> QED
        BY <1>2, <2>3, <3>1, <4>1 DEF Commands
    <3>2. \A x \in Tray!Objs : d[x] # None =>
            IF d[x].mounted THEN d[x].child # None
            ELSE d[x].child # None => \E i \in 1..Len(below) : below[i].obj = x /\ below[i].at = "wait"
      BY <2>2 DEF Commands
    <3> QED
      BY <3>1, <3>2 DEF Commands, Idle
  <2>7. ASSUME FreeLetters(drive, g, below) PROVE FreeLetters(drive, d, below)
    BY <2>3, <2>7, FramesAre DEF FreeLetters
  <2>8. ASSUME SameDrive(procs, g, s) PROVE SameDrive(procs, d, t)
    BY <2>2, <2>8 DEF SameDrive
  <2>9. ASSUME Whole(TRUE, g, ls, s) PROVE Whole(TRUE, d, w, t)
    <3>1. \A x \in Tray!Keys : t[x] # None => t[x] = s[x] /\ x # k
      BY <2>2
    <3>2. ASSUME NEW x \in Tray!Keys, t[x] # None
          PROVE  t[x].letter # None /\ \E q \in Tray!Objs : d[q] # None /\ d[q].key = x
      BY <2>2, <2>9, <3>1, <3>2 DEF Whole, k
    <3>3. \A x, y \in Tray!Keys : t[x] # None /\ t[y] # None /\ t[x].dir = t[y].dir => x = y
      BY <2>9, <3>1 DEF Whole
    <3> QED
      BY <2>1, <2>9, <3>2, <3>3 DEF Whole
  <2>10. ASSUME Attended(procs, drive, TRUE, g, below, s)
         PROVE  Attended(procs, drive, TRUE, d, below, t)
    <3>1. /\ \A p \in Pids : procs[p].phase # "starting"
          /\ \A p \in Pids : procs[p].phase = "serving" /\ drive[procs[p].letter] = p =>
               Recorded(procs, TRUE, g, s, p)
      BY <2>10, IdleIs
    <3>2. ASSUME NEW p \in Pids, Recorded(procs, TRUE, g, s, p)
          PROVE  Recorded(procs, TRUE, d, t, p)
      <4>1. PICK x \in Tray!Keys :
              /\ s[x] = [dir |-> procs[p].dir, letter |-> procs[p].letter, pid |-> p]
              /\ \E q \in Tray!Objs : g[q] # None /\ g[q].key = x /\ g[q].child = p /\ g[q].mounted
        BY <3>2 DEF Recorded
      <4>2. PICK q \in Tray!Objs : g[q] # None /\ g[q].key = x /\ g[q].child = p /\ g[q].mounted
        BY <4>1
      <4>3. q # o /\ x # k
        BY <4>2 DEF Listing, k
      <4> QED
        BY <2>2, <4>1, <4>2, <4>3 DEF Recorded
    <3> QED
      BY <3>1, <3>2, AttendedIs
  <2> QED
    BY <1>1, <2>1, <2>4, <2>5, <2>6, <2>7, <2>8, <2>9, <2>10, StepKeeps
<1> QED
  BY <1>3, <1>4, <1>5 DEF Tray!Mount

----------------------------------------------------------------------------
(* The commands.                                                           *)

\* The last command, and those it has begun inside of.
LEMMA BelowIs ==
    ASSUME TrayInv, frames # <<>>
    PROVE  /\ Tray!Depth \in 1..MaxNested /\ Tray!Depth = Len(frames)
           /\ Tray!Top = frames[Tray!Depth] /\ Tray!Top \in Frame
           /\ Tray!Below \in Seq(Frame) /\ DOMAIN Tray!Below = 1..Len(Tray!Below)
           /\ Len(Tray!Below) = Tray!Depth - 1
           /\ \A i \in 1..(Tray!Depth - 1) : Tray!Below[i] = frames[i] /\ i \in 1..Len(frames)
           /\ Idle(Tray!Below)
           /\ Tray!Top.at # "wait" => Idle(frames)
           /\ Tray!Depth \in 1..Len(frames)
<1>1. frames \in Seq(Frame) /\ Len(frames) \in Nat /\ Len(frames) <= MaxNested
      /\ \A i \in 1..Len(frames) : frames[i].at = "wait" => i = Len(frames)
  BY DEF TrayInv, Commands
<1>2. Len(frames) >= 1
  BY <1>1, EmptySeq
<1>3. /\ Tray!Depth = Len(frames) /\ Tray!Depth \in 1..MaxNested /\ Tray!Depth \in 1..Len(frames)
      /\ Tray!Top = frames[Tray!Depth] /\ Tray!Top \in Frame
  BY <1>1, <1>2, TrayAssumption DEF Tray!Depth, Tray!Top
<1>4. /\ Tray!Below \in Seq(Frame) /\ Len(Tray!Below) = Tray!Depth - 1
      /\ \A i \in 1..(Tray!Depth - 1) : Tray!Below[i] = frames[i] /\ i \in 1..Len(frames)
  BY <1>1, <1>3 DEF Tray!Below
<1>5. DOMAIN Tray!Below = 1..Len(Tray!Below)
  BY <1>4
<1>6. Idle(Tray!Below)
  BY <1>1, <1>3, <1>4 DEF Idle
<1>7. Tray!Top.at # "wait" => Idle(frames)
  BY <1>1, <1>3 DEF Idle
<1> QED
  BY <1>3, <1>4, <1>5, <1>6, <1>7

\* In a dialogue, or in no command, nothing waits.
LEMMA PumpsIs == ASSUME TrayInv, Tray!Pumps PROVE gui = TRUE /\ Idle(frames)
<1>1. CASE frames = <<>>
  BY <1>1 DEF Tray!Pumps, Idle, TrayInv
<1>2. CASE frames # <<>>
  BY <1>2, BelowIs DEF Tray!Pumps, TrayInv
<1> QED
  BY <1>1, <1>2

\* The commands below the last are as they were.
LEMMA BelowKeeps ==
    ASSUME TrayInv, frames # <<>>, NEW h,
           \A i \in 1..Len(Tray!Below) : Tray!Below[i].obj # Tray!Null =>
             h[Tray!Below[i].obj] # None /\ ~h[Tray!Below[i].obj].mounted,
           \A o \in Tray!Objs : h[o] # None =>
             IF h[o].mounted THEN h[o].child # None ELSE h[o].child = None
    PROVE  Commands(h, Tray!Below)
<1> DEFINE b == Tray!Below
<1>1. /\ Commands(heap, frames)
      /\ b \in Seq(Frame) /\ Len(b) \in Nat /\ Len(b) <= MaxNested
      /\ \A i \in 1..Len(b) : b[i] = frames[i] /\ i \in 1..Len(frames) /\ b[i].at # "wait"
  BY BelowIs, TrayAssumption DEF TrayInv, Idle
<1> HIDE DEF b
<1> QED
  BY <1>1 DEF Commands, b

\* A command ends without having done anything.
LEMMA BackKeeps ==
    ASSUME TrayInv, gui = TRUE, gui' = TRUE, Idle(frames), frames # <<>>,
           Tray!SetDrives(heap, list, Tray!Below), saved' = saved,
           UNCHANGED Tray!outside, mishaps' = mishaps
    PROVE  TrayInv'
<1>1. procs' = procs /\ drive' = drive /\ lost' = lost
  BY DEF Tray!outside
<1>2. /\ Listing(heap, list, saved) /\ Commands(heap, frames)
      /\ procs \in Procs /\ drive \in DriveMap /\ mishaps \subseteq Kinds
  BY DEF TrayInv, Procs, DriveMap
<1>3. \A i \in 1..Len(Tray!Below) :
        /\ Tray!Below[i] = frames[i] /\ i \in 1..Len(frames)
        /\ Tray!Below[i].obj # Tray!Null =>
             heap[Tray!Below[i].obj] # None /\ ~heap[Tray!Below[i].obj].mounted
  BY <1>1, <1>2, BelowIs DEF Commands
<1>4. Commands(heap, Tray!Below)
  BY <1>1, <1>2, <1>3, BelowKeeps DEF Commands, Idle
<1>5. heap' = heap /\ list' = list /\ frames' = Tray!Below
  BY <1>1, <1>2, <1>3, BelowIs, NumbersOf, SetDrivesIs
<1>6. FreeLetters(drive, heap, frames) => FreeLetters(drive, heap, Tray!Below)
  BY <1>3 DEF FreeLetters
<1>7. Attended(procs, drive, gui, heap, frames, saved) =>
        Attended(procs, drive, gui, heap, Tray!Below, saved)
  BY <1>1, BelowIs, IdleIs
<1> QED
  BY <1>1, <1>2, <1>4, <1>5, <1>6, <1>7, StepKeeps

\* A dialogue is cancelled.
LEMMA CancelKeeps == ASSUME TrayInv, Tray!Cancel PROVE TrayInv'
<1>1. /\ gui = TRUE /\ Idle(frames) /\ frames # <<>>
      /\ Tray!SetDrives(heap, list, Tray!Below) /\ saved' = saved
      /\ UNCHANGED Tray!outside /\ gui' = TRUE /\ mishaps' = mishaps
  BY PumpsIs DEF Tray!Cancel, Tray!Calm
<1> QED
  BY <1>1, BackKeeps

\* OpenOrCreate begins, inside no other.
LEMMA OpenKeeps == ASSUME TrayInv, Tray!Open PROVE TrayInv'
<1> DEFINE f == [obj |-> Tray!Null, at |-> "choose", open |-> TRUE]
           a == Append(frames, f)
<1>1. /\ gui = TRUE /\ Idle(frames) /\ Len(frames) < MaxNested /\ ~Tray!Opening
      /\ frames' = a /\ saved' = saved /\ heap' = heap /\ list' = list
      /\ procs' = procs /\ drive' = drive /\ lost' = lost /\ gui' = TRUE /\ mishaps' = mishaps
  BY PumpsIs DEF Tray!Open, Tray!outside, Tray!Calm, Tray!Depth
<1>2. /\ Listing(heap, list, saved) /\ Commands(heap, frames)
      /\ procs \in Procs /\ drive \in DriveMap /\ mishaps \subseteq Kinds
  BY DEF TrayInv, Procs, DriveMap
<1>3. f \in Frame /\ f.at = "choose" /\ f.obj = Tray!Null /\ f.open
  BY DEF Frame
<1>4. \A i \in 1..Len(frames) : frames[i].obj # Tray!Null /\ ~frames[i].open
  <2>1. DOMAIN frames = 1..Len(frames)
    BY <1>2 DEF Commands
  <2>2. \A i \in 1..Len(frames) : ~frames[i].open
    BY <1>1, <2>1 DEF Tray!Opening
  <2> QED
    BY <1>2, <2>2 DEF Commands
<1> HIDE DEF f
<1>5. /\ Commands(heap, a) /\ Idle(a)
      /\ FreeLetters(drive, heap, frames) => FreeLetters(drive, heap, a)
  BY <1>1, <1>2, <1>3, <1>4, AppendedKeeps
<1>6. Attended(procs, drive, gui, heap, frames, saved) => Attended(procs, drive, gui, heap, a, saved)
  BY <1>1, <1>5, IdleIs
<1> HIDE DEF a
<1> QED
  BY <1>1, <1>2, <1>5, <1>6, StepKeeps

\* Objects are no longer mounted; their entries may say so.
EndedObject(r) == [r EXCEPT !.mounted = FALSE, !.child = None]
EndedEntry(r) == [dir |-> r.dir, letter |-> r.letter, pid |-> None]
Ends(h, s, ended, g, t) ==
    /\ ended \subseteq Tray!Objs
    /\ \A o \in ended : h[o] # None /\ h[o].mounted
    /\ g = [o \in Tray!Objs |-> IF o \in ended THEN EndedObject(h[o]) ELSE h[o]]
    /\ t = [k \in Tray!Keys |-> t[k]]
    /\ \A k \in Tray!Keys :
         t[k] = s[k] \/ \E o \in ended : h[o].key = k /\ t[k] = EndedEntry(h[o])

\* CheckMounted leaves the key, directory and letter of an object as they are,
LEMMA EndedObjectIs ==
    ASSUME NEW r \in DriveRec
    PROVE  LET e == EndedObject(r)
           IN  /\ e \in DriveRec /\ e # None
               /\ e.key = r.key /\ e.dir = r.dir /\ e.letter = r.letter
               /\ ~e.mounted /\ e.child = None
<1> DEFINE e == EndedObject(r)
<1>2. r = [key |-> r.key, dir |-> r.dir, letter |-> r.letter, mounted |-> r.mounted,
           child |-> r.child]
  BY DEF DriveRec
<1>3. e.key = r.key /\ e.dir = r.dir /\ e.letter = r.letter
  BY <1>2 DEF EndedObject
<1>4. e.child = None
  BY <1>2 DEF EndedObject
<1>5. e.mounted = FALSE
  BY <1>2 DEF EndedObject
<1>7. e \in DriveRec
  BY DEF EndedObject, DriveRec
<1>8. None \notin DriveRec
  BY TrayAssumption DEF DriveRec, Tray!Keys
<1> QED
  BY <1>3, <1>4, <1>5, <1>7, <1>8, Zenon

\* and so does what it saves;
LEMMA EndedEntryIs ==
    ASSUME NEW r \in DriveRec
    PROVE  LET e == EndedEntry(r)
           IN  /\ e \in EntryRec /\ e # None
               /\ e.dir = r.dir /\ e.letter = r.letter /\ e.pid = None
<1>1. r.dir \in Dirs /\ r.letter \in Letters
  BY DEF DriveRec
<1>2. EndedEntry(r) \in EntryRec
  BY <1>1 DEF EntryRec, EndedEntry
<1>3. None \notin EntryRec
  BY TrayAssumption DEF EntryRec
<1> QED
  BY <1>2, <1>3 DEF EndedEntry

\* so the list, the commands and the registry still fit when some of them ended.
LEMMA EndsIs ==
    ASSUME NEW h, NEW ls, NEW s, Listing(h, ls, s), NEW ended, NEW g, NEW t,
           Ends(h, s, ended, g, t)
    PROVE  /\ Listing(g, ls, t)
           /\ \A o \in Tray!Objs :
                /\ g[o] # None <=> h[o] # None
                /\ g[o] # None => g[o].key = h[o].key
                /\ o \notin ended => g[o] = h[o]
                /\ o \in ended => ~g[o].mounted /\ g[o].child = None
           /\ \A k \in Tray!Keys :
                /\ t[k] # None <=> s[k] # None
                /\ t[k] # None => t[k].dir = s[k].dir /\ t[k].letter = s[k].letter
                /\ t[k] = s[k] \/ (t[k].pid = None /\ \E o \in ended : h[o].key = k)
<1>1. ASSUME NEW o \in Tray!Objs
      PROVE  /\ g[o] \in {None} \cup DriveRec
             /\ g[o] # None <=> h[o] # None
             /\ g[o] # None => /\ g[o].key = h[o].key /\ g[o].dir = h[o].dir
                               /\ g[o].letter = h[o].letter
             /\ o \notin ended => g[o] = h[o]
             /\ o \in ended => ~g[o].mounted /\ g[o].child = None
  <2>1. CASE o \in ended
    <3>1. h[o] # None /\ g[o] = EndedObject(h[o])
      BY <2>1 DEF Ends
    <3>2. h[o] \in DriveRec
      BY <3>1, RecordsAre
    <3> QED
      BY <2>1, <3>1, <3>2, EndedObjectIs
  <2>2. CASE o \notin ended
    <3>1. g[o] = h[o]
      BY <2>2 DEF Ends
    <3> QED
      BY <2>2, <3>1, RecordsAre
  <2> QED
    BY <2>1, <2>2
<1>2. ASSUME NEW k \in Tray!Keys
      PROVE  /\ t[k] \in {None} \cup EntryRec
             /\ t[k] # None <=> s[k] # None
             /\ t[k] # None => t[k].dir = s[k].dir /\ t[k].letter = s[k].letter
             /\ t[k] = s[k] \/ (t[k].pid = None /\ \E o \in ended : h[o].key = k)
  <2>1. CASE t[k] = s[k]
    BY <2>1, RecordsAre
  <2>2. ASSUME NEW o \in ended, h[o].key = k, t[k] = EndedEntry(h[o])
        PROVE  /\ t[k] \in EntryRec /\ t[k] # None /\ s[k] # None
               /\ t[k].dir = s[k].dir /\ t[k].letter = s[k].letter /\ t[k].pid = None
    <3>1. o \in Tray!Objs /\ h[o] # None
      BY DEF Ends
    <3>2. h[o] \in DriveRec
      BY <3>1, RecordsAre
    <3>3. s[k] # None /\ s[k].dir = h[o].dir /\ s[k].letter = h[o].letter
      BY <2>2, <3>1 DEF Listing
    <3> QED
      BY <2>2, <3>2, <3>3, EndedEntryIs
  <2> QED
    BY <2>1, <2>2 DEF Ends
<1>3. /\ g = [o \in Tray!Objs |-> g[o]] /\ t = [k \in Tray!Keys |-> t[k]]
  BY DEF Ends
<1>4. /\ g \in [Tray!Objs -> {None} \cup DriveRec] /\ t \in [Tray!Keys -> {None} \cup EntryRec]
  BY <1>1, <1>2, <1>3
<1>5. ASSUME NEW o \in Tray!Objs, g[o] # None
      PROVE  t[g[o].key] # None /\ t[g[o].key].dir = g[o].dir /\ t[g[o].key].letter = g[o].letter
  <2>1. h[o] # None /\ h[o].key \in Tray!Keys
    BY <1>1, <1>5, RecordsAre DEF DriveRec
  <2> QED
    BY <1>1, <1>2, <1>5, <2>1 DEF Listing
<1>6. Listing(g, ls, t)
  BY <1>1, <1>4, <1>5 DEF Listing
<1> QED
  BY <1>1, <1>2, <1>6

\* The processes of those objects are no more.
LEMMA EndedKeeps ==
    ASSUME TrayInv, gui = TRUE, gui' = TRUE, Idle(frames), frames' = frames, list' = list,
           lost' = lost, mishaps' = mishaps, procs' \in Procs, drive' \in DriveMap,
           FreeLetters(drive, heap, frames) => FreeLetters(drive', heap, frames),
           OwnLetters(procs, drive) => OwnLetters(procs', drive'),
           SameDrive(procs, heap, saved) => SameDrive(procs', heap, saved),
           Attended(procs, drive, gui, heap, frames, saved) =>
             Attended(procs', drive', gui, heap, frames, saved),
           NEW ended, Ends(heap, saved, ended, heap', saved'),
           \A o \in ended : procs'[heap[o].child].phase = "none"
    PROVE  TrayInv'
<1>1. Listing(heap, list, saved) /\ Commands(heap, frames) /\ mishaps \subseteq Kinds
  BY DEF TrayInv
<1>2. \A o \in Tray!Objs :
        /\ heap'[o] # None <=> heap[o] # None
        /\ heap'[o] # None => heap'[o].key = heap[o].key
        /\ o \notin ended => heap'[o] = heap[o]
        /\ o \in ended => ~heap'[o].mounted /\ heap'[o].child = None
  BY <1>1, EndsIs
<1>3. \A k \in Tray!Keys :
        /\ saved'[k] # None <=> saved[k] # None
        /\ saved'[k] # None => saved'[k].dir = saved[k].dir /\ saved'[k].letter = saved[k].letter
        /\ saved'[k] = saved[k] \/ (saved'[k].pid = None /\ \E o \in ended : heap[o].key = k)
  BY <1>1, EndsIs
<1>4. Listing(heap', list', saved')
  BY <1>1, EndsIs
<1>11. \A o \in ended : o \in Tray!Objs /\ heap[o] # None /\ heap[o].mounted
  BY DEF Ends
<1>5. \A i \in 1..Len(frames) : frames[i].obj # Tray!Null =>
        frames[i].obj \in Tray!Objs /\ frames[i].obj \notin ended
        /\ heap'[frames[i].obj] = heap[frames[i].obj]
  <2>1. ASSUME NEW i \in 1..Len(frames), frames[i].obj # Tray!Null
        PROVE  frames[i].obj \in Tray!Objs /\ ~heap[frames[i].obj].mounted
    BY <1>1, <2>1, FramesAre DEF Commands
  <2> QED
    BY <1>2, <1>11, <2>1
<1>6. Commands(heap', frames')
  BY <1>1, <1>2, <1>5 DEF Commands, Idle
<1>7. FreeLetters(drive', heap, frames) => FreeLetters(drive', heap', frames')
  BY <1>1, <1>5, FramesAre DEF FreeLetters
<1>8. ASSUME SameDrive(procs', heap, saved) PROVE SameDrive(procs', heap', saved')
  <2>1. ASSUME NEW o \in Tray!Objs, heap'[o] # None, heap'[o].child # None
        PROVE  Agrees(procs', heap'[o].child, heap'[o].dir, heap'[o].letter)
    BY <1>2, <1>8, <2>1 DEF SameDrive
  <2>2. ASSUME NEW k \in Tray!Keys, saved'[k] # None, saved'[k].pid # None
        PROVE  Agrees(procs', saved'[k].pid, saved'[k].dir, saved'[k].letter)
    BY <1>3, <1>8, <2>2 DEF SameDrive
  <2> QED
    BY <2>1, <2>2 DEF SameDrive
<1>9. ASSUME Whole(gui, heap, list, saved) PROVE Whole(gui', heap', list', saved')
  BY <1>2, <1>3, <1>9 DEF Whole
<1>10. ASSUME Attended(procs', drive', gui, heap, frames, saved)
       PROVE  Attended(procs', drive', gui', heap', frames', saved')
  <2>1. /\ \A p \in Pids : procs'[p].phase # "starting"
        /\ \A p \in Pids : procs'[p].phase = "serving" /\ drive'[procs'[p].letter] = p =>
             Recorded(procs', TRUE, heap, saved, p)
    BY <1>10, IdleIs
  <2>2. ASSUME NEW p \in Pids, procs'[p].phase = "serving", Recorded(procs', TRUE, heap, saved, p)
        PROVE  Recorded(procs', TRUE, heap', saved', p)
    <3>1. PICK k \in Tray!Keys :
            /\ saved[k] = [dir |-> procs'[p].dir, letter |-> procs'[p].letter, pid |-> p]
            /\ \E q \in Tray!Objs :
                 heap[q] # None /\ heap[q].key = k /\ heap[q].child = p /\ heap[q].mounted
      BY <2>2 DEF Recorded
    <3>2. PICK q \in Tray!Objs :
            heap[q] # None /\ heap[q].key = k /\ heap[q].child = p /\ heap[q].mounted
      BY <3>1
    <3>3. q \notin ended
      BY <2>2, <3>2
    <3>4. \A o \in ended : heap[o].key # k
      BY <1>1, <1>11, <3>2, <3>3 DEF Listing
    <3> QED
      BY <1>2, <1>3, <3>1, <3>2, <3>3, <3>4 DEF Recorded
  <2> QED
    BY <2>1, <2>2, AttendedIs
<1> QED
  BY <1>1, <1>4, <1>6, <1>7, <1>8, <1>9, <1>10, StepKeeps DEF TrayInv

\* What CheckMounted does to objects.
LEMMA CheckedIs ==
    ASSUME TrayInv, NEW os \in SUBSET Tray!Objs, \A o \in os : heap[o] # None,
           heap' = Tray!Checked(os), saved' = Tray!SavedChecked(os)
    PROVE  /\ Ends(heap, saved, {o \in os : Tray!Ended(heap[o])}, heap', saved')
           /\ \A o \in {o \in os : Tray!Ended(heap[o])} : procs[heap[o].child].phase = "none"
<1> DEFINE ended == {o \in os : Tray!Ended(heap[o])}
<1>1. Listing(heap, list, saved) /\ Commands(heap, frames)
  BY DEF TrayInv
<1>2. \A o \in os : heap[o].mounted => heap[o].child # None
  BY <1>1 DEF Commands
<1>3. \A o \in os : Tray!CheckMounted(heap[o]) = IF o \in ended THEN EndedObject(heap[o]) ELSE heap[o]
  BY <1>2 DEF Tray!CheckMounted, Tray!Ended, EndedObject
<1>4. \A o \in ended : /\ o \in Tray!Objs /\ heap[o] # None /\ heap[o].mounted
                       /\ procs[heap[o].child].phase = "none"
  BY DEF Tray!Ended, Tray!Dead
<1>5. heap' = [o \in Tray!Objs |-> IF o \in ended THEN EndedObject(heap[o]) ELSE heap[o]]
  BY <1>3 DEF Tray!Checked
<1>6. saved' = [k \in Tray!Keys |-> saved'[k]]
  BY DEF Tray!SavedChecked
<1>7. ASSUME NEW k \in Tray!Keys
      PROVE  saved'[k] = saved[k]
             \/ \E o \in ended : heap[o].key = k /\ saved'[k] = EndedEntry(heap[o])
  <2> DEFINE here == {o \in os : heap[o].key = k /\ Tray!Ended(heap[o])}
  <2>1. saved'[k] = IF here = {} THEN saved[k]
                    ELSE Tray!Entry(Tray!CheckMounted(heap[CHOOSE o \in here : TRUE]))
    BY DEF Tray!SavedChecked
  <2>2. CASE here = {}
    BY <2>1, <2>2
  <2>3. CASE here # {}
    <3>1. PICK o : o = CHOOSE x \in here : TRUE
      OBVIOUS
    <3>2. o \in here
      BY <2>3, <3>1
    <3>3. o \in ended /\ o \in os /\ heap[o].key = k
      BY <3>2
    <3>4. saved'[k] = Tray!Entry(EndedObject(heap[o]))
      BY <1>3, <2>1, <2>3, <3>1, <3>3
    <3>5. heap[o] \in DriveRec
      BY <1>1, <3>3, RecordsAre
    <3>6. Tray!Entry(EndedObject(heap[o])) = EndedEntry(heap[o])
      BY <3>5, EndedObjectIs DEF Tray!Entry, EndedEntry
    <3> QED
      BY <3>3, <3>4, <3>6
  <2> QED
    BY <2>2, <2>3
<1> HIDE DEF ended
<1>8. Ends(heap, saved, ended, heap', saved')
  BY <1>4, <1>5, <1>6, <1>7 DEF Ends
<1> QED
  BY <1>4, <1>8 DEF ended

\* The objects in the menu are there.
LEMMA ListedIs ==
    ASSUME TrayInv
    PROVE  \A o \in Tray!Listed : o \in Tray!Objs /\ heap[o] # None /\ heap[o] \in DriveRec
<1>1. Listing(heap, list, saved)
  BY DEF TrayInv
<1>2. ASSUME NEW o \in Tray!Listed PROVE o \in Tray!Objs /\ heap[o] # None
  BY <1>1 DEF Tray!Listed, Listing
<1> QED
  BY <1>1, <1>2, RecordsAre

\* The program ends.
LEMMA EndKeeps ==
    ASSUME TrayInv, UNCHANGED Tray!outside, gui' = FALSE,
           mishaps \subseteq mishaps', mishaps' \subseteq Kinds,
           Tray!SetDrives(heap, <<>>, <<>>), saved' \in [Tray!Keys -> {None} \cup EntryRec],
           NoneReused(mishaps') /\ SameDrive(procs, heap, saved) => SameDrive(procs, heap, saved'),
           Untroubled(mishaps') => saved' = saved /\ (Attended(procs, drive, gui, heap, frames, saved) => Idle(frames))
    PROVE  TrayInv'
<1>1. /\ procs' = procs /\ drive' = drive /\ lost' = lost
      /\ procs \in Procs /\ drive \in DriveMap
  BY DEF TrayInv, Procs, DriveMap, Tray!outside
<1>2. /\ list' = <<>> /\ frames' = <<>>
      /\ heap' = [o \in Tray!Objs |-> None]
  BY DEF Tray!SetDrives
<1>3. /\ <<>> \in Seq(Tray!Objs \cup {Tray!Null}) /\ <<>> \in Seq(Frame)
      /\ 1..Len(<<>>) = {} /\ Len(<<>>) = 0
  OBVIOUS
<1>4. Listing(heap', list', saved')
  BY <1>2, <1>3 DEF Listing
<1>5. Commands(heap', frames') /\ Idle(frames') /\ FreeLetters(drive', heap', frames')
  BY <1>2, <1>3, TrayAssumption DEF Commands, Idle, FreeLetters
<1>6. SameDrive(procs, heap, saved') => SameDrive(procs', heap', saved')
  BY <1>1, <1>2 DEF SameDrive
<1>7. ASSUME saved' = saved, Whole(gui, heap, list, saved)
      PROVE  Whole(gui', heap', list', saved')
  BY <1>2, <1>3, <1>7 DEF Whole
<1>8. ASSUME saved' = saved, Idle(frames), Attended(procs, drive, gui, heap, frames, saved)
      PROVE  Attended(procs', drive', gui', heap', frames', saved')
  <2>1. /\ \A p \in Pids : procs[p].phase # "starting"
        /\ \A p \in Pids : procs[p].phase = "serving" /\ drive[procs[p].letter] = p =>
             Recorded(procs, gui, heap, saved, p)
    BY <1>8, IdleIs
  <2>2. \A p \in Pids : Recorded(procs, gui, heap, saved, p) => Recorded(procs', gui', heap', saved', p)
    BY <1>1, <1>8 DEF Recorded
  <2> QED
    BY <1>1, <2>1, <2>2, AttendedIs
<1> QED
  BY <1>1, <1>2, <1>4, <1>5, <1>6, <1>7, <1>8, StepKeeps

\* The program ends, and tears an entry at worst.
LEMMA ExitKeeps == ASSUME TrayInv, Tray!Exit PROVE TrayInv'
<1>1. /\ gui = TRUE /\ gui' = FALSE /\ Tray!SetDrives(heap, <<>>, <<>>)
      /\ UNCHANGED Tray!outside
  BY DEF Tray!Exit, Tray!outside, TrayInv
<1>2. Listing(heap, list, saved)
  BY DEF TrayInv
<1>3. CASE UNCHANGED saved /\ Tray!Mishap(IF Tray!Pumps THEN {} ELSE {"killed"})
  <2>1. mishaps \subseteq mishaps' /\ mishaps' \subseteq Kinds
    BY <1>3, MishapIs DEF TrayInv
  <2>2. Untroubled(mishaps') => Tray!Pumps
    BY <1>3, MishapIs, Zenon DEF TrayInv, Untroubled
  <2>3. Untroubled(mishaps') => Idle(frames)
    BY <2>2, PumpsIs
  <2> QED
    BY <1>1, <1>2, <1>3, <2>1, <2>3, EndKeeps DEF Listing
<1>4. CASE /\ Tray!Mishap({"torn"})
           /\ \E d \in Dirs, k \in Tray!Unused(saved) :
                saved' = [saved EXCEPT ![k] = [dir |-> d, letter |-> None, pid |-> None]]
  <2>1. mishaps \subseteq mishaps' /\ mishaps' \subseteq Kinds
    BY <1>4, MishapIs DEF TrayInv
  <2>2. ~Untroubled(mishaps')
    BY <1>4, MishapIs, Zenon DEF TrayInv, Untroubled
  <2>3. PICK d \in Dirs, k \in Tray!Unused(saved) :
          saved' = [saved EXCEPT ![k] = [dir |-> d, letter |-> None, pid |-> None]]
    BY <1>4
  <2> DEFINE e == [dir |-> d, letter |-> None, pid |-> None]
  <2>4. e \in EntryRec /\ e.pid = None /\ k \in Tray!Keys
    BY DEF EntryRec, Tray!Unused
  <2> HIDE DEF e
  <2>5. saved' = [saved EXCEPT ![k] = e]
    BY <2>3 DEF e
  <2>6. /\ saved' \in [Tray!Keys -> {None} \cup EntryRec]
        /\ \A j \in Tray!Keys : saved'[j] = saved[j] \/ saved'[j].pid = None
    BY <1>2, <2>4, <2>5 DEF Listing
  <2>7. SameDrive(procs, heap, saved) => SameDrive(procs, heap, saved')
    BY <2>6 DEF SameDrive
  <2> QED
    BY <1>1, <2>1, <2>2, <2>6, <2>7, EndKeeps
<1> QED
  BY <1>3, <1>4 DEF Tray!Exit

\* The menu is shown, and every drive in it checked.
LEMMA ShowMenuKeeps == ASSUME TrayInv, Tray!ShowMenu PROVE TrayInv'
<1>1. gui = TRUE /\ Idle(frames) /\ mishaps' = mishaps /\ UNCHANGED Tray!outside
  BY PumpsIs DEF Tray!ShowMenu, Tray!Calm
<1>2. CASE /\ heap' = Tray!Checked(Tray!Listed) /\ saved' = Tray!SavedChecked(Tray!Listed)
           /\ UNCHANGED <<gui, list, frames>>
  <2> DEFINE ended == {o \in Tray!Listed : Tray!Ended(heap[o])}
  <2>1. /\ Ends(heap, saved, ended, heap', saved')
        /\ \A o \in ended : procs[heap[o].child].phase = "none"
    BY <1>2, ListedIs, CheckedIs
  <2>2. /\ procs' = procs /\ drive' = drive /\ lost' = lost /\ gui' = TRUE
        /\ list' = list /\ frames' = frames /\ procs \in Procs /\ drive \in DriveMap
    BY <1>1, <1>2 DEF TrayInv, Procs, DriveMap, Tray!outside
  <2> HIDE DEF ended
  <2> QED
    BY <1>1, <2>1, <2>2, EndedKeeps
<1>3. CASE /\ \E i \in DOMAIN list : list[i] = Tray!Null
           /\ gui' = FALSE /\ Tray!SetDrives(heap, <<>>, <<>>) /\ UNCHANGED saved
  <2>1. saved' = saved /\ saved \in [Tray!Keys -> {None} \cup EntryRec] /\ mishaps \subseteq Kinds
    BY <1>3 DEF TrayInv, Listing
  <2> QED
    BY <1>1, <1>3, <2>1, EndKeeps
<1> QED
  BY <1>2, <1>3 DEF Tray!ShowMenu

\* A drive is unmounted from the menu.
LEMMA MenuUmountKeeps ==
    ASSUME TrayInv, NEW o \in Tray!Objs, Tray!MenuUmount(o) PROVE TrayInv'
<1>1. /\ gui = TRUE /\ Idle(frames) /\ mishaps' = mishaps
      /\ lost' = lost /\ gui' = TRUE /\ list' = list /\ frames' = frames
      /\ o \in Tray!Listed /\ heap[o].mounted
  BY PumpsIs DEF Tray!MenuUmount, Tray!Calm
<1>2. /\ heap[o] # None /\ heap[o] \in DriveRec
      /\ Listing(heap, list, saved) /\ Commands(heap, frames)
      /\ procs \in Procs /\ drive \in DriveMap
  BY <1>1, ListedIs DEF TrayInv, Procs, DriveMap
<1>3. CASE heap' = Tray!Checked({o}) /\ saved' = Tray!SavedChecked({o}) /\ UNCHANGED <<procs, drive>>
  <2> DEFINE ended == {x \in {o} : Tray!Ended(heap[x])}
  <2>1. /\ Ends(heap, saved, ended, heap', saved')
        /\ \A x \in ended : procs[heap[x].child].phase = "none"
    BY <1>2, <1>3, CheckedIs
  <2> HIDE DEF ended
  <2> QED
    BY <1>1, <1>2, <1>3, <2>1, EndedKeeps
<1>4. ASSUME Tray!Gone(heap[o].child), NEW r, r = EndedObject(heap[o]),
             \/ heap' = [heap EXCEPT ![o] = r] /\ saved' = Tray!Save(saved, r)
             \/ UNCHANGED <<heap, saved>>
      PROVE  TrayInv'
  <2>1. heap[o].child \in Pids
    <3>1. heap[o].child # None
      BY <1>1, <1>2 DEF Commands
    <3> QED
      BY <1>2, <3>1 DEF DriveRec
  <2>2. procs'[heap[o].child].phase = "none"
    BY <1>2, <1>4, <2>1 DEF Tray!Gone, Procs, Tray!NoProc
  <2>3. PICK ended \in SUBSET {o} : Ends(heap, saved, ended, heap', saved')
    <3>1. CASE UNCHANGED <<heap, saved>>
      <4>1. Ends(heap, saved, {}, heap', saved')
        BY <1>2, <3>1 DEF Ends, Listing
      <4> QED
        BY <4>1
    <3>2. CASE heap' = [heap EXCEPT ![o] = r] /\ saved' = Tray!Save(saved, r)
      <4>1. r.key = heap[o].key /\ r.key \in Tray!Keys /\ Tray!Entry(r) = EndedEntry(heap[o])
        <5>1. r.key = heap[o].key /\ r.dir = heap[o].dir /\ r.letter = heap[o].letter /\ r.child = None
          BY <1>2, <1>4, EndedObjectIs
        <5> QED
          BY <1>2, <5>1 DEF Tray!Entry, EndedEntry, DriveRec
      <4>2. /\ heap' = [x \in Tray!Objs |-> IF x \in {o} THEN EndedObject(heap[x]) ELSE heap[x]]
        BY <1>2, <1>4, <3>2 DEF Listing
      <4>3. /\ saved' = [k \in Tray!Keys |-> saved'[k]]
            /\ \A k \in Tray!Keys :
                 saved'[k] = IF k = heap[o].key THEN EndedEntry(heap[o]) ELSE saved[k]
        BY <1>2, <3>2, <4>1 DEF Tray!Save, Listing
      <4>4. Ends(heap, saved, {o}, heap', saved')
        BY <1>1, <1>2, <4>2, <4>3 DEF Ends
      <4> QED
        BY <4>4
    <3> QED
      BY <1>4, <3>1, <3>2
  <2>4. \A x \in ended : procs'[heap[x].child].phase = "none"
    BY <2>2, <2>3
  <2> QED
    BY <1>1, <1>4, <2>1, <2>3, <2>4, GoneStep, EndedKeeps
<1> QED
  BY <1>3, <1>4 DEF Tray!MenuUmount, EndedObject

\* The object of a command that is past its first dialogue.
LEMMA TopIs ==
    ASSUME TrayInv, NEW place, Tray!At(place), place # "choose"
    PROVE  /\ gui = TRUE /\ frames # <<>> /\ Tray!Top.at = place
           /\ Tray!Top.obj \in Tray!Objs /\ Tray!Top.obj # Tray!Null
           /\ heap[Tray!Top.obj] # None /\ heap[Tray!Top.obj] \in DriveRec
           /\ ~heap[Tray!Top.obj].mounted
           /\ \A i \in 1..Len(Tray!Below) : Tray!Below[i].obj # Tray!Top.obj
           /\ Tray!Top.open => \A i \in 1..Len(Tray!Below) : ~Tray!Below[i].open
<1>1. gui = TRUE /\ frames # <<>> /\ Tray!Top.at = place
  BY DEF Tray!At, TrayInv
<1>2. Listing(heap, list, saved) /\ Commands(heap, frames)
  BY DEF TrayInv
<1>3. /\ Tray!Top = frames[Tray!Depth] /\ Tray!Depth \in 1..Len(frames)
      /\ \A i \in 1..Len(Tray!Below) :
           Tray!Below[i] = frames[i] /\ i \in 1..Len(frames) /\ i # Tray!Depth
  BY <1>1, BelowIs
<1>4. /\ Tray!Top.obj \in Tray!Objs /\ Tray!Top.obj # Tray!Null
      /\ heap[Tray!Top.obj] # None /\ heap[Tray!Top.obj] \in DriveRec
      /\ ~heap[Tray!Top.obj].mounted
  BY <1>1, <1>2, <1>3, FramesAre
<1>5. ASSUME NEW i \in 1..Len(Tray!Below)
      PROVE  /\ Tray!Below[i].obj # Tray!Top.obj
             /\ Tray!Top.open => ~Tray!Below[i].open
  BY <1>2, <1>3 DEF Commands
<1> QED
  BY <1>1, <1>4, <1>5

\* Another letter for an object that is not mounted, and its entry.
LEMMA RelettersIs ==
    ASSUME NEW h, NEW ls, NEW s, Listing(h, ls, s), NEW o \in Tray!Objs, h[o] # None,
           NEW l \in Letters
    PROVE  LET g == [h EXCEPT ![o].letter = l]
               t == Tray!Save(s, g[o])
           IN  /\ g[o] \in DriveRec /\ g[o] # None
               /\ g[o].key = h[o].key /\ g[o].dir = h[o].dir /\ g[o].letter = l
               /\ g[o].mounted = h[o].mounted /\ g[o].child = h[o].child
               /\ \A x \in Tray!Objs : x # o => g[x] = h[x]
               /\ t[h[o].key] = [dir |-> h[o].dir, letter |-> l, pid |-> h[o].child]
               /\ \A k \in Tray!Keys : k # h[o].key => t[k] = s[k]
               /\ h[o].key \in Tray!Keys
               /\ Listing(g, ls, t)
<1> DEFINE g == [h EXCEPT ![o].letter = l]
           t == Tray!Save(s, g[o])
           e == [dir |-> h[o].dir, letter |-> l, pid |-> h[o].child]
<1>1. h[o] \in DriveRec /\ h[o].key \in Tray!Keys /\ h[o].dir \in Dirs /\ h[o].child \in Pids \cup {None}
  BY RecordsAre DEF DriveRec
<1>2. g[o] = [h[o] EXCEPT !.letter = l] /\ \A x \in Tray!Objs : x # o => g[x] = h[x]
  BY DEF Listing
<1>3. g[o] \in DriveRec
  <2>1. [h[o] EXCEPT !.letter = l] \in DriveRec
    BY <1>1 DEF DriveRec
  <2> QED
    BY <1>2, <2>1
<1>4. None \notin DriveRec /\ None \notin EntryRec
  BY TrayAssumption DEF DriveRec, EntryRec, Tray!Keys
<1>5. /\ g[o].key = h[o].key /\ g[o].dir = h[o].dir /\ g[o].letter = l
      /\ g[o].mounted = h[o].mounted /\ g[o].child = h[o].child
  BY <1>1, <1>2 DEF DriveRec
<1>6. g \in [Tray!Objs -> {None} \cup DriveRec]
  <2>1. g = [x \in Tray!Objs |-> g[x]]
    BY DEF Listing
  <2> HIDE DEF g
  <2> QED
    BY <1>2, <1>3, <2>1, RecordsAre
<1> HIDE DEF g
<1>7. t = [s EXCEPT ![h[o].key] = e]
  BY <1>5 DEF Tray!Save, Tray!Entry
<1>8. e \in EntryRec /\ e.dir = h[o].dir /\ e.letter = l
  BY <1>1 DEF EntryRec
<1> HIDE DEF e, t
<1>9. /\ t \in [Tray!Keys -> {None} \cup EntryRec]
      /\ t[h[o].key] = e /\ \A k \in Tray!Keys : k # h[o].key => t[k] = s[k]
  BY <1>1, <1>7, <1>8 DEF Listing
<1>10. ASSUME NEW x \in Tray!Objs, g[x] # None
       PROVE  t[g[x].key] # None /\ t[g[x].key].dir = g[x].dir /\ t[g[x].key].letter = g[x].letter
  <2>1. CASE x = o
    BY <1>4, <1>5, <1>8, <1>9, <2>1
  <2>2. CASE x # o
    <3>1. g[x] = h[x] /\ h[x].key # h[o].key /\ h[x].key \in Tray!Keys
      BY <1>2, <1>10, <2>2, RecordsAre DEF Listing, DriveRec
    <3> QED
      BY <1>9, <1>10, <3>1 DEF Listing
  <2> QED
    BY <2>1, <2>2
<1>11. \A x \in Tray!Objs : /\ g[x] # None <=> h[x] # None
                            /\ g[x] # None => g[x].key = h[x].key
  BY <1>2, <1>3, <1>4, <1>5
<1>12. Listing(g, ls, t)
  BY <1>6, <1>9, <1>10, <1>11 DEF Listing
<1> QED
  BY <1>1, <1>2, <1>3, <1>4, <1>5, <1>9, <1>12 DEF g, t, e

\* Another letter is chosen, and saved, before the mount goes on.
LEMMA ChooseLetterKeeps ==
    ASSUME TrayInv, NEW l \in Letters, Tray!ChooseLetter(l) PROVE TrayInv'
<1> DEFINE o == Tray!Top.obj
           h == [heap EXCEPT ![o].letter = l]
           t == Tray!Save(saved, h[o])
<1>1. /\ Tray!At("letter") /\ Tray!Mount(o, h, list, Tray!Below, Tray!Top.open, t)
      /\ gui' = gui /\ mishaps' = mishaps /\ UNCHANGED Tray!outside
  BY DEF Tray!ChooseLetter, Tray!Calm
<1>2. /\ gui = TRUE /\ frames # <<>> /\ Tray!Top.at = "letter"
      /\ o \in Tray!Objs /\ o # Tray!Null
      /\ heap[o] # None /\ ~heap[o].mounted
      /\ \A i \in 1..Len(Tray!Below) : Tray!Below[i].obj # o
      /\ Tray!Top.open => \A i \in 1..Len(Tray!Below) : ~Tray!Below[i].open
  BY <1>1, TopIs
<1>3. Listing(heap, list, saved) /\ Commands(heap, frames) /\ mishaps \subseteq Kinds
  BY DEF TrayInv
<1>4. /\ h[o] # None /\ h[o].key = heap[o].key /\ h[o].dir = heap[o].dir /\ h[o].letter = l
      /\ h[o].mounted = heap[o].mounted /\ h[o].child = heap[o].child
      /\ \A x \in Tray!Objs : x # o => h[x] = heap[x]
      /\ t[heap[o].key] = [dir |-> heap[o].dir, letter |-> l, pid |-> heap[o].child]
      /\ \A k \in Tray!Keys : k # heap[o].key => t[k] = saved[k]
      /\ heap[o].key \in Tray!Keys
      /\ Listing(h, list, t)
  BY <1>2, <1>3, RelettersIs, SMTT(30)
<1> HIDE DEF h, t
<1>5. /\ Idle(frames) /\ Idle(Tray!Below) /\ Len(Tray!Below) < MaxNested /\ Tray!Top.open \in BOOLEAN
      /\ \A i \in 1..Len(Tray!Below) : Tray!Below[i] = frames[i] /\ i \in 1..Len(frames)
  <2>1. Tray!Depth \in 1..MaxNested /\ Len(Tray!Below) = Tray!Depth - 1 /\ Tray!Top \in Frame
    BY <1>2, BelowIs
  <2>2. Tray!Top.open \in BOOLEAN
    BY <2>1 DEF Frame
  <2>3. Len(Tray!Below) < MaxNested
    BY <2>1, TrayAssumption
  <2> QED
    BY <1>2, <2>1, <2>2, <2>3, BelowIs
<1>6. heap[o].child = None /\ t[heap[o].key].pid = None
  BY <1>2, <1>3, <1>4, <1>5 DEF Commands, Idle
<1>7. ASSUME NEW i \in 1..Len(Tray!Below), Tray!Below[i].obj # Tray!Null
      PROVE  /\ Tray!Below[i].obj \in Tray!Objs
             /\ h[Tray!Below[i].obj] = heap[Tray!Below[i].obj]
             /\ heap[Tray!Below[i].obj] # None /\ ~heap[Tray!Below[i].obj].mounted
  <2>1. Tray!Below[i].at # "choose"
    BY <1>3, <1>5, <1>7 DEF Commands
  <2>2. Tray!Below[i].obj \in Tray!Objs
    BY <1>3, <1>5, <2>1, FramesAre
  <2> QED
    BY <1>2, <1>3, <1>4, <1>5, <1>7, <2>2 DEF Commands
<1>8. Commands(h, Tray!Below)
  <2>1. \A x \in Tray!Objs : h[x] # None =>
          IF h[x].mounted THEN h[x].child # None ELSE h[x].child = None
    BY <1>2, <1>3, <1>4, <1>5, <1>6 DEF Commands, Idle
  <2> QED
    BY <1>2, <1>7, <2>1, BelowKeeps
<1>9. ASSUME FreeLetters(drive, heap, frames) PROVE FreeLetters(drive, h, Tray!Below)
  BY <1>3, <1>5, <1>7, <1>9, FramesAre DEF FreeLetters
<1>10. ASSUME SameDrive(procs, heap, saved) PROVE SameDrive(procs, h, t)
  BY <1>4, <1>6, <1>10 DEF SameDrive
<1>11. ASSUME Whole(TRUE, heap, list, saved) PROVE Whole(TRUE, h, list, t)
  <2>1. t[heap[o].key].letter # None /\ t[heap[o].key].dir = heap[o].dir
    BY <1>4, TrayAssumption
  <2>2. saved[heap[o].key] # None /\ saved[heap[o].key].dir = heap[o].dir
    BY <1>2, <1>3 DEF Listing
  <2>3. \A k \in Tray!Keys : t[k] # None => saved[k] # None /\ t[k].dir = saved[k].dir
    BY <1>4, <2>1, <2>2
  <2>4. \A k \in Tray!Keys : t[k] # None =>
          t[k].letter # None /\ \E x \in Tray!Objs : h[x] # None /\ h[x].key = k
    BY <1>2, <1>4, <1>11, <2>1 DEF Whole
  <2> QED
    BY <1>11, <2>3, <2>4 DEF Whole
<1>12. ASSUME Attended(procs, drive, TRUE, heap, frames, saved)
       PROVE  Attended(procs, drive, TRUE, h, Tray!Below, t)
  <2>1. /\ \A p \in Pids : procs[p].phase # "starting"
        /\ \A p \in Pids : procs[p].phase = "serving" /\ drive[procs[p].letter] = p =>
             Recorded(procs, TRUE, heap, saved, p)
    BY <1>5, <1>12, IdleIs
  <2>2. \A p \in Pids : Recorded(procs, TRUE, heap, saved, p) => Recorded(procs, TRUE, h, t, p)
    BY <1>2, <1>3, <1>4 DEF Recorded, Listing
  <2> QED
    BY <2>1, <2>2, AttendedIs
<1>13. Mountable(o, h, h, list, Tray!Below, Tray!Top.open, t)
  BY <1>2, <1>4, <1>5, <1>8 DEF Mountable
<1> QED
  BY <1>1, <1>2, <1>3, <1>5, <1>9, <1>10, <1>11, <1>12, <1>13, MountKeeps

\* A command may begin on an object no other command is about.
LEMMA MenuMountKeeps ==
    ASSUME TrayInv, "nested" \notin Kinds, NEW o \in Tray!Objs, Tray!MenuMount(o) PROVE TrayInv'
<1> DEFINE c == IF \E i \in DOMAIN frames : /\ frames[i].obj # Tray!Null
                                            /\ heap[frames[i].obj].key = heap[o].key
                  THEN {"nested"} ELSE {}
<1>1. /\ gui = TRUE /\ Idle(frames) /\ Len(frames) < MaxNested
      /\ o \in Tray!Listed /\ ~heap[o].mounted
      /\ Tray!Mount(o, heap, list, frames, FALSE, saved) /\ Tray!Mishap(c)
      /\ gui' = gui /\ UNCHANGED Tray!outside
  BY PumpsIs DEF Tray!MenuMount, Tray!Depth
<1>2. /\ Listing(heap, list, saved) /\ Commands(heap, frames) /\ heap[o] # None
      /\ DOMAIN frames = 1..Len(frames)
  <2>1. Listing(heap, list, saved) /\ Commands(heap, frames)
    BY DEF TrayInv
  <2> QED
    BY <1>1, <2>1, ListedIs DEF Commands
<1>3. mishaps \subseteq mishaps' /\ mishaps' \subseteq Kinds /\ c \subseteq mishaps'
  <2> HIDE DEF c
  <2> QED
    BY <1>1, MishapIs DEF TrayInv
<1>4. "nested" \notin c
  BY <1>3
<1>5. \A i \in 1..Len(frames) : frames[i].obj # o
  <2>1. ASSUME NEW i \in 1..Len(frames), frames[i].obj = o PROVE FALSE
    <3>1. frames[i].obj # Tray!Null
      BY <2>1, NumbersOf
    <3> QED
      BY <1>2, <1>4, <2>1, <3>1
  <2> QED
    BY <2>1
<1>6. Mountable(o, heap, heap, list, frames, FALSE, saved)
  BY <1>1, <1>2, <1>5 DEF Mountable
<1> QED
  BY <1>1, <1>3, <1>6, MountKeeps

\* A process is started, whose identifier no object has.
LEMMA SpawnKeeps == ASSUME TrayInv, NEW p \in Pids, Tray!Spawn(p) PROVE TrayInv'
<1> DEFINE o == Tray!Top.obj
           d == Tray!Depth
           r == heap[o]
           f == [frames[d] EXCEPT !.at = "wait"]
           new == [phase |-> "starting", dir |-> r.dir, letter |-> r.letter]
           c == IF \E k \in Tray!Keys : saved[k] # None /\ saved[k].pid = p THEN {"reused"} ELSE {}
<1>1. /\ Tray!At("password") /\ procs[p].phase = "none"
      /\ \A x \in Tray!Objs : heap[x] # None => heap[x].child # p
      /\ procs' = [procs EXCEPT ![p] = new]
      /\ heap' = [heap EXCEPT ![o] = [r EXCEPT !.mounted = FALSE, !.child = p]]
      /\ frames' = [frames EXCEPT ![d].at = "wait"]
      /\ Tray!Mishap(c) /\ drive' = drive /\ lost' = lost /\ gui' = gui /\ list' = list
      /\ saved' = saved
  BY DEF Tray!Spawn, Tray!Dead
<1>2. /\ gui = TRUE /\ frames # <<>> /\ Tray!Top.at = "password"
      /\ o \in Tray!Objs /\ o # Tray!Null
      /\ r # None /\ r \in DriveRec /\ ~r.mounted
  BY <1>1, TopIs
<1>3. Listing(heap, list, saved) /\ Commands(heap, frames) /\ procs \in Procs /\ drive \in DriveMap
  BY DEF TrayInv, Procs, DriveMap
<1>4. /\ d \in 1..Len(frames) /\ d = Len(frames) /\ frames[d] = Tray!Top /\ frames[d] \in Frame
      /\ Idle(frames) /\ frames \in Seq(Frame) /\ Len(frames) \in Nat
  BY <1>2, <1>3, BelowIs DEF Commands
<1>5. mishaps \subseteq mishaps' /\ mishaps' \subseteq Kinds /\ c \subseteq mishaps'
  <2> HIDE DEF c
  <2> QED
    BY <1>1, MishapIs DEF TrayInv
<1>6. ASSUME NoneReused(mishaps'), NEW k \in Tray!Keys, saved[k] # None PROVE saved[k].pid # p
  BY <1>5, <1>6, Zenon DEF NoneReused
<1>7. /\ procs' \in Procs /\ procs'[p] = new /\ new \in Process
      /\ \A q \in Pids : q # p => procs'[q] = procs[q]
  <2>1. r.dir \in Dirs /\ r.letter \in Letters
    BY <1>2 DEF DriveRec
  <2>2. new \in Process
    BY <2>1 DEF Process
  <2> HIDE DEF new
  <2> QED
    BY <1>1, <1>3, <2>2 DEF Procs
<1>8. /\ heap'[o] \in DriveRec /\ heap'[o] # None
      /\ heap'[o].key = r.key /\ heap'[o].dir = r.dir /\ heap'[o].letter = r.letter
      /\ ~heap'[o].mounted /\ heap'[o].child = p
      /\ \A x \in Tray!Objs : x # o => heap'[x] = heap[x]
      /\ heap' \in [Tray!Objs -> {None} \cup DriveRec]
  <2> DEFINE e == [r EXCEPT !.mounted = FALSE, !.child = p]
  <2>1. e \in DriveRec
    BY <1>2 DEF DriveRec
  <2>2. e.key = r.key /\ e.dir = r.dir /\ e.letter = r.letter /\ ~e.mounted /\ e.child = p
    BY <1>2 DEF DriveRec
  <2>3. None \notin DriveRec
    BY TrayAssumption DEF DriveRec, Tray!Keys
  <2>4. heap' = [heap EXCEPT ![o] = e]
    BY <1>1
  <2> HIDE DEF e
  <2>5. /\ heap'[o] = e /\ \A x \in Tray!Objs : x # o => heap'[x] = heap[x]
        /\ heap' \in [Tray!Objs -> {None} \cup DriveRec]
    BY <1>2, <1>3, <2>1, <2>4 DEF Listing
  <2> QED
    BY <2>1, <2>2, <2>3, <2>5
<1>9. /\ frames' \in Seq(Frame) /\ Len(frames') = Len(frames)
      /\ frames'[d].obj = o /\ frames'[d].at = "wait" /\ frames'[d].open = frames[d].open
      /\ \A i \in 1..Len(frames) : i # d => frames'[i] = frames[i]
  <2>1. f \in Frame
    BY <1>4 DEF Frame
  <2>2. f.obj = o /\ f.at = "wait" /\ f.open = frames[d].open
    BY <1>4 DEF Frame
  <2>3. frames' = [frames EXCEPT ![d] = f]
    BY <1>1
  <2> HIDE DEF f
  <2>4. /\ frames' \in Seq(Frame) /\ Len(frames') = Len(frames) /\ frames'[d] = f
        /\ \A i \in 1..Len(frames) : i # d => frames'[i] = frames[i]
    BY <1>4, <2>1, <2>3
  <2> QED
    BY <2>2, <2>4
<1> HIDE DEF new, o, d, c
<1>10. /\ \A x \in Tray!Objs : /\ heap'[x] # None <=> heap[x] # None
                               /\ heap'[x] # None => /\ heap'[x].key = heap[x].key
                                                     /\ heap'[x].dir = heap[x].dir
                                                     /\ heap'[x].letter = heap[x].letter
                                                     /\ heap'[x].mounted <=> heap[x].mounted
                                                     /\ x # o => heap'[x].child = heap[x].child
  BY <1>2, <1>8
<1>11. Listing(heap', list', saved')
  BY <1>1, <1>3, <1>8, <1>10 DEF Listing
<1>12. \A i \in 1..Len(frames) :
         /\ frames'[i].obj = frames[i].obj /\ frames'[i].open = frames[i].open
         /\ frames'[i].at = "wait" <=> i = d
         /\ i # d => frames'[i].at = frames[i].at /\ frames[i].obj # o
         /\ frames[d].obj = o /\ frames[d].at = "password"
  BY <1>2, <1>3, <1>4, <1>9 DEF Commands, Idle, o
<1>13. Commands(heap', frames')
  <2>1. ASSUME NEW i \in 1..Len(frames')
        PROVE  /\ frames'[i].obj = Tray!Null <=> frames'[i].at = "choose"
               /\ frames'[i].at = "choose" => frames'[i].open
               /\ frames'[i].at = "wait" => i = Len(frames') /\ heap'[frames'[i].obj].child # None
    <3>1. p # None
      BY TrayAssumption
    <3> QED
      BY <1>2, <1>3, <1>4, <1>8, <1>9, <1>12, <3>1 DEF Commands
  <2>2. ASSUME NEW i \in 1..Len(frames'), frames'[i].obj # Tray!Null
        PROVE  heap'[frames'[i].obj] # None /\ ~heap'[frames'[i].obj].mounted
    <3>1. frames[i].obj \in Tray!Objs /\ frames[i].obj # Tray!Null
      BY <1>3, <1>9, <1>12, <2>2, FramesAre DEF Commands
    <3> QED
      BY <1>3, <1>9, <1>10, <1>12, <2>2, <3>1 DEF Commands
  <2>3. ASSUME NEW i \in 1..Len(frames'), NEW j \in 1..Len(frames'),
               (frames'[i].open /\ frames'[j].open) \/ frames'[i].obj = frames'[j].obj
        PROVE  i = j
    BY <1>3, <1>9, <1>12, <2>3 DEF Commands
  <2>4. ASSUME NEW x \in Tray!Objs, heap'[x] # None
        PROVE  IF heap'[x].mounted THEN heap'[x].child # None
               ELSE heap'[x].child # None =>
                      \E i \in 1..Len(frames') : frames'[i].obj = x /\ frames'[i].at = "wait"
    <3>1. CASE x = o
      BY <1>4, <1>8, <1>9, <3>1
    <3>2. CASE x # o
      BY <1>3, <1>4, <1>10, <2>4, <3>2 DEF Commands, Idle
    <3> QED
      BY <3>1, <3>2
  <2>5. Len(frames') <= MaxNested
    BY <1>3, <1>9 DEF Commands
  <2> QED
    BY <1>9, <2>1, <2>2, <2>3, <2>4, <2>5 DEF Commands
<1>14. ASSUME FreeLetters(drive, heap, frames), OwnLetters(procs, drive)
       PROVE  FreeLetters(drive', heap', frames') /\ OwnLetters(procs', drive')
  <2>1. drive[r.letter] = "free"
    BY <1>4, <1>12, <1>14 DEF FreeLetters
  <2>2. ASSUME NEW i \in 1..Len(frames'), frames'[i].at = "password"
        PROVE  drive[heap'[frames'[i].obj].letter] = "free"
    <3>1. i \in 1..Len(frames) /\ i # d /\ frames[i].at = "password" /\ frames[i].obj # o
      BY <1>9, <1>12, <2>2
    <3>2. frames[i].obj \in Tray!Objs
      BY <1>3, <3>1, FramesAre
    <3> QED
      BY <1>8, <1>9, <1>14, <3>1, <3>2 DEF FreeLetters
  <2>3. ASSUME NEW q \in Pids, procs'[q] # Tray!NoProc
        PROVE  drive[procs'[q].letter] = "free"
               \/ (procs'[q].phase = "serving" /\ drive[procs'[q].letter] = q)
    <3>1. CASE q = p
      BY <1>7, <2>1, <3>1 DEF new
    <3>2. CASE q # p
      BY <1>7, <1>14, <2>3, <3>2 DEF OwnLetters
    <3> QED
      BY <3>1, <3>2
  <2> QED
    BY <1>1, <2>2, <2>3 DEF FreeLetters, OwnLetters
<1>15. ASSUME NoneReused(mishaps'), SameDrive(procs, heap, saved)
       PROVE  SameDrive(procs', heap', saved')
  <2>1. ASSUME NEW x \in Tray!Objs, heap'[x] # None, heap'[x].child # None
        PROVE  Agrees(procs', heap'[x].child, heap'[x].dir, heap'[x].letter)
    <3>1. CASE x = o
      BY <1>7, <1>8, <3>1 DEF Agrees, new
    <3>2. CASE x # o
      <4>1. heap[x] # None /\ heap[x].child # p /\ heap[x].child \in Pids /\ heap'[x] = heap[x]
        BY <1>1, <1>3, <1>8, <2>1, <3>2, RecordsAre DEF DriveRec
      <4> QED
        BY <1>7, <1>15, <2>1, <4>1 DEF SameDrive, Agrees
    <3> QED
      BY <3>1, <3>2
  <2>2. ASSUME NEW k \in Tray!Keys, saved[k] # None, saved[k].pid # None
        PROVE  Agrees(procs', saved[k].pid, saved[k].dir, saved[k].letter)
    <3>1. saved[k].pid # p /\ saved[k].pid \in Pids
      BY <1>3, <1>6, <1>15, <2>2, RecordsAre DEF EntryRec
    <3> QED
      BY <1>7, <1>15, <2>2, <3>1 DEF SameDrive, Agrees
  <2> QED
    BY <1>1, <2>1, <2>2 DEF SameDrive
<1>16. ASSUME Whole(gui, heap, list, saved) PROVE Whole(gui', heap', list', saved')
  BY <1>1, <1>10, <1>16 DEF Whole
<1>17. ASSUME Attended(procs, drive, gui, heap, frames, saved)
       PROVE  Attended(procs', drive', gui', heap', frames', saved')
  <2>1. /\ \A q \in Pids : procs[q].phase # "starting"
        /\ \A q \in Pids : procs[q].phase = "serving" /\ drive[procs[q].letter] = q =>
             Recorded(procs, gui, heap, saved, q)
    BY <1>4, <1>17, IdleIs
  <2>2. Watched(procs', heap', frames', p)
    BY <1>4, <1>7, <1>8, <1>9 DEF Watched, new
  <2>3. ASSUME NEW q \in Pids, q # p, Recorded(procs, gui, heap, saved, q)
        PROVE  Recorded(procs', gui', heap', saved', q)
    BY <1>1, <1>2, <1>7, <1>8, <2>3 DEF Recorded
  <2> QED
    BY <1>1, <1>7, <2>1, <2>2, <2>3 DEF Attended
<1> QED
  BY <1>1, <1>2, <1>3, <1>5, <1>7, <1>11, <1>13, <1>14, <1>15, <1>16, <1>17, StepKeeps

\* Another record for an object, with the same key, directory and letter.
Put(h, o, e) == [h EXCEPT ![o] = e]

\* What Put leaves at the object and at the others.
LEMMA PutIs ==
    ASSUME NEW h, NEW ls, NEW s, Listing(h, ls, s), NEW o \in Tray!Objs, h[o] # None,
           NEW e \in DriveRec, e.key = h[o].key, e.dir = h[o].dir, e.letter = h[o].letter
    PROVE  /\ Listing(Put(h, o, e), ls, s) /\ Put(h, o, e)[o] = e /\ e # None
           /\ \A x \in Tray!Objs : x # o => Put(h, o, e)[x] = h[x]
<1> DEFINE g == Put(h, o, e)
<1>1. None \notin DriveRec
  BY TrayAssumption DEF DriveRec, Tray!Keys
<1>2. /\ g \in [Tray!Objs -> {None} \cup DriveRec] /\ g[o] = e
      /\ \A x \in Tray!Objs : x # o => g[x] = h[x]
  BY DEF Listing, Put
<1> HIDE DEF g
<1>3. \A x \in Tray!Objs : /\ g[x] # None <=> h[x] # None
                           /\ g[x] # None => /\ g[x].key = h[x].key
                                             /\ g[x].dir = h[x].dir
                                             /\ g[x].letter = h[x].letter
  BY <1>1, <1>2
<1>4. Listing(g, ls, s)
  BY <1>2, <1>3 DEF Listing
<1> QED
  BY <1>1, <1>2, <1>4 DEF g

\* The wait is over: nobody else waits, and what it waited for is recorded.
LEMMA MountReturnsKeeps == ASSUME TrayInv, Tray!MountReturns PROVE TrayInv'
<1> DEFINE o == Tray!Top.obj
           d == Tray!Depth
           r == heap[o]
           b == Tray!Below
<1>1. /\ Tray!At("wait") /\ procs' = procs /\ drive' = drive /\ lost' = lost /\ gui' = gui
  BY DEF Tray!MountReturns, Tray!outside
<1>2. /\ gui = TRUE /\ frames # <<>> /\ Tray!Top.at = "wait"
      /\ o \in Tray!Objs /\ o # Tray!Null
      /\ r # None /\ r \in DriveRec /\ ~r.mounted
      /\ \A i \in 1..Len(b) : b[i].obj # o
  BY <1>1, TopIs
<1>3. Listing(heap, list, saved) /\ Commands(heap, frames) /\ procs \in Procs /\ drive \in DriveMap
      /\ mishaps \subseteq Kinds
  BY DEF TrayInv, Procs, DriveMap
<1>4. /\ d \in 1..Len(frames) /\ d = Len(frames) /\ frames[d] = Tray!Top
      /\ Idle(b) /\ b \in Seq(Frame) /\ DOMAIN b = 1..Len(b)
      /\ \A i \in 1..Len(b) : b[i] = frames[i] /\ i \in 1..Len(frames)
  BY <1>2, BelowIs
<1>5. r.child # None /\ r.child \in Pids
  <2>1. r.child # None
    BY <1>2, <1>3, <1>4 DEF Commands
  <2> QED
    BY <1>2, <2>1 DEF DriveRec
<1>6. \A x \in Tray!Objs : heap[x] # None /\ x # o =>
        IF heap[x].mounted THEN heap[x].child # None ELSE heap[x].child = None
  BY <1>2, <1>3, <1>4 DEF Commands
<1>7. \A i \in 1..Len(b) : b[i].obj # Tray!Null =>
        /\ b[i].obj \in Tray!Objs /\ b[i].obj # o
        /\ heap[b[i].obj] # None /\ ~heap[b[i].obj].mounted
  <2>1. ASSUME NEW i \in 1..Len(b), b[i].obj # Tray!Null
        PROVE  b[i].at # "choose" /\ heap[b[i].obj] # None /\ ~heap[b[i].obj].mounted
    BY <1>3, <1>4, <2>1 DEF Commands
  <2> QED
    BY <1>2, <1>3, <1>4, <2>1, FramesAre
<1>8. \A p \in Pids : Watched(procs, heap, frames, p) =>
        r.child = p /\ r.dir = procs[p].dir /\ r.letter = procs[p].letter
  BY <1>3, <1>4 DEF Watched, Commands
<1>9. ASSUME NEW g, Listing(g, list, saved'), g = heap',
             list' = list, frames' = b,
             \A x \in Tray!Objs : x # o => g[x] = heap[x],
             g[o] # None /\ g[o].key = r.key,
             IF g[o].mounted THEN g[o].child # None ELSE g[o].child = None,
             mishaps \subseteq mishaps', mishaps' \subseteq Kinds,
             SameDrive(procs, heap, saved) => SameDrive(procs, g, saved'),
             \A k \in Tray!Keys :
               \/ saved'[k] = saved[k]
               \/ k = r.key /\ saved'[k] = [dir |-> r.dir, letter |-> r.letter, pid |-> r.child]
                  /\ g[o].mounted /\ g[o].child = r.child,
             Untroubled(mishaps') /\ OwnLetters(procs, drive)
               /\ Attended(procs, drive, gui, heap, frames, saved) =>
                 procs[r.child].phase # "starting",
             procs[r.child].phase = "serving" =>
               saved'[r.key] = [dir |-> r.dir, letter |-> r.letter, pid |-> r.child]
               /\ g[o].mounted /\ g[o].child = r.child
      PROVE  TrayInv'
  <2>1. Commands(g, b)
    <3>1. \A i \in 1..Len(b) : b[i].obj # Tray!Null => g[b[i].obj] # None /\ ~g[b[i].obj].mounted
      BY <1>7, <1>9
    <3>2. \A x \in Tray!Objs : g[x] # None =>
            IF g[x].mounted THEN g[x].child # None ELSE g[x].child = None
      BY <1>6, <1>9
    <3> QED
      BY <1>2, <3>1, <3>2, BelowKeeps
  <2>2. ASSUME FreeLetters(drive, heap, frames) PROVE FreeLetters(drive, g, b)
    <3>1. ASSUME NEW i \in 1..Len(b), b[i].at = "password"
          PROVE  drive[g[b[i].obj].letter] = "free"
      <4>1. b[i].obj # Tray!Null
        BY <1>3, <1>4, <3>1 DEF Commands
      <4>2. g[b[i].obj] = heap[b[i].obj]
        BY <1>7, <1>9, <4>1
      <4> QED
        BY <1>4, <2>2, <3>1, <4>2 DEF FreeLetters
    <3> QED
      BY <3>1 DEF FreeLetters
  <2>3. ASSUME Whole(gui, heap, list, saved) PROVE Whole(gui, g, list, saved')
    <3>1. ASSUME NEW k \in Tray!Keys, saved'[k] # None
          PROVE  saved[k] # None /\ saved'[k].dir = saved[k].dir /\ saved'[k].letter # None
      <4>1. CASE saved'[k] = saved[k]
        BY <2>3, <3>1, <4>1 DEF Whole
      <4>2. CASE /\ k = r.key
                 /\ saved'[k] = [dir |-> r.dir, letter |-> r.letter, pid |-> r.child]
        <5>1. saved[k] # None /\ saved[k].dir = r.dir
          BY <1>2, <1>3, <4>2 DEF Listing
        <5>2. r.letter # None
          BY <1>2, TrayAssumption DEF DriveRec
        <5> QED
          BY <4>2, <5>1, <5>2
      <4> QED
        BY <1>9, <4>1, <4>2
    <3>2. ASSUME NEW k \in Tray!Keys, saved'[k] # None
          PROVE  \E x \in Tray!Objs : g[x] # None /\ g[x].key = k
      BY <1>2, <1>9, <2>3, <3>1, <3>2 DEF Whole
    <3> QED
      BY <2>3, <3>1, <3>2 DEF Whole
  <2>4. ASSUME Untroubled(mishaps'), OwnLetters(procs, drive),
               Attended(procs, drive, gui, heap, frames, saved)
        PROVE  Attended(procs, drive, gui, g, b, saved')
    <3>1. ASSUME NEW p \in Pids PROVE procs[p].phase # "starting"
      BY <1>8, <1>9, <2>4 DEF Attended
    <3>2. ASSUME NEW p \in Pids, procs[p].phase = "serving", Watched(procs, heap, frames, p)
          PROVE  Recorded(procs, gui, g, saved', p)
      <4>1. r.child = p /\ r.dir = procs[p].dir /\ r.letter = procs[p].letter
        BY <1>8, <3>2
      <4>2. r.key \in Tray!Keys
        BY <1>2 DEF DriveRec
      <4> QED
        BY <1>2, <1>9, <3>2, <4>1, <4>2 DEF Recorded
    <3>3. ASSUME NEW p \in Pids, Recorded(procs, gui, heap, saved, p)
          PROVE  Recorded(procs, gui, g, saved', p)
      <4>1. PICK k \in Tray!Keys :
              /\ saved[k] = [dir |-> procs[p].dir, letter |-> procs[p].letter, pid |-> p]
              /\ \E q \in Tray!Objs : heap[q] # None /\ heap[q].key = k /\ heap[q].child = p /\ heap[q].mounted
        BY <1>2, <3>3 DEF Recorded
      <4>2. PICK q \in Tray!Objs : heap[q] # None /\ heap[q].key = k /\ heap[q].child = p /\ heap[q].mounted
        BY <4>1
      <4>3. q # o /\ k # r.key
        BY <1>2, <1>3, <4>2 DEF Listing
      <4>4. g[q] = heap[q] /\ saved'[k] = saved[k]
        BY <1>9, <4>3
      <4> QED
        BY <4>1, <4>2, <4>4 DEF Recorded
    <3> QED
      BY <2>4, <3>1, <3>2, <3>3 DEF Attended
  <2>5. /\ procs' = procs /\ drive' = drive /\ lost' = lost /\ gui' = gui /\ gui = TRUE
        /\ procs \in Procs /\ drive \in DriveMap
        /\ Listing(heap', list', saved') /\ Commands(heap', frames')
    BY <1>1, <1>2, <1>3, <1>9, <2>1
  <2>6. FreeLetters(drive, heap, frames) => FreeLetters(drive, heap', frames')
    BY <1>9, <2>2
  <2>7. SameDrive(procs, heap, saved) => SameDrive(procs, heap', saved')
    BY <1>9
  <2>8. Whole(gui, heap, list, saved) => Whole(gui, heap', list', saved')
    BY <1>9, <2>3
  <2>9. Untroubled(mishaps') /\ OwnLetters(procs, drive)
          /\ Attended(procs, drive, gui, heap, frames, saved) =>
             Attended(procs, drive, gui, heap', frames', saved')
    BY <1>9, <2>4
  <2> QED
    BY <1>9, <2>5, <2>6, <2>7, <2>8, <2>9, StepKeeps
<1> HIDE DEF o, d, r, b
<1>13. ASSUME NEW g, Listing(g, list, saved), g[o] # None,
              \A x \in Tray!Objs : x # o => g[x] = heap[x],
              Tray!SetDrives(g, list, b)
       PROVE  heap' = g /\ list' = list /\ frames' = b
  <2>1. \A i \in 1..Len(b) : b[i].obj \in Tray!Objs => g[b[i].obj] # None
    BY <1>7, <1>13, NumbersOf
  <2> QED
    BY <1>4, <1>13, <2>1, SetDrivesIs
<1>11. CASE /\ Tray!SetDrives([heap EXCEPT ![o] = [r EXCEPT !.mounted = TRUE]], list, b)
            /\ saved' = Tray!Save(saved, [r EXCEPT !.mounted = TRUE])
            /\ Tray!Mishap(IF drive[r.letter] = "free" /\ ~Tray!Dead(r.child) THEN {"slow"} ELSE {})
  <2> DEFINE e == [r EXCEPT !.mounted = TRUE]
             g == [heap EXCEPT ![o] = e]
             t == Tray!Save(saved, e)
  <2>1. e \in DriveRec
    BY <1>2 DEF DriveRec
  <2>2. e.key = r.key /\ e.dir = r.dir /\ e.letter = r.letter /\ e.mounted /\ e.child = r.child
    BY <1>2 DEF DriveRec
  <2>3. mishaps \subseteq mishaps' /\ mishaps' \subseteq Kinds
    BY <1>3, <1>11, MishapIs
  <2>4. Untroubled(mishaps') => ~(drive[r.letter] = "free" /\ ~Tray!Dead(r.child))
    BY <1>3, <1>11, MishapIs, Zenon DEF Untroubled
  <2>5. Tray!SetDrives(g, list, b) /\ saved' = t
    BY <1>11
  <2> HIDE DEF e
  <2>10. g = Put(heap, o, e) /\ t = Tray!Save(saved, e)
    BY DEF Put
  <2> HIDE DEF g, t
  <2>6. /\ Listing(g, list, saved) /\ g[o] = e /\ e # None
        /\ \A x \in Tray!Objs : x # o => g[x] = heap[x]
    BY <1>2, <1>3, <2>1, <2>2, <2>10, PutIs DEF r
  <2>7. /\ t \in [Tray!Keys -> {None} \cup EntryRec]
        /\ t[r.key] = [dir |-> r.dir, letter |-> r.letter, pid |-> r.child]
        /\ \A k \in Tray!Keys : k # r.key => t[k] = saved[k]
    <3> DEFINE n == [dir |-> r.dir, letter |-> r.letter, pid |-> r.child]
    <3>1. r.key \in Tray!Keys /\ n \in EntryRec
      BY <1>2 DEF DriveRec, EntryRec
    <3>2. t = [saved EXCEPT ![r.key] = n]
      BY <2>2, <2>10 DEF Tray!Save, Tray!Entry
    <3> HIDE DEF n
    <3>3. /\ t \in [Tray!Keys -> {None} \cup EntryRec] /\ t[r.key] = n
          /\ \A k \in Tray!Keys : k # r.key => t[k] = saved[k]
      BY <1>3, <3>1, <3>2 DEF Listing
    <3> QED
      BY <3>3 DEF n
  <2>11. Listing(g, list, t)
    <3>1. t[r.key] # None
      <4>1. [dir |-> r.dir, letter |-> r.letter, pid |-> r.child] \in EntryRec
        BY <1>2 DEF DriveRec, EntryRec
      <4> QED
        BY <2>7, <4>1, TrayAssumption DEF EntryRec
    <3>2. ASSUME NEW x \in Tray!Objs, g[x] # None
          PROVE  t[g[x].key] # None /\ t[g[x].key].dir = g[x].dir /\ t[g[x].key].letter = g[x].letter
      <4>1. CASE x = o
        BY <2>2, <2>6, <2>7, <3>1, <4>1
      <4>2. CASE x # o
        <5>1. g[x].key # r.key /\ g[x].key \in Tray!Keys
          BY <1>2, <2>2, <2>6, <3>2, <4>2, RecordsAre DEF Listing, DriveRec
        <5> QED
          BY <2>6, <2>7, <3>2, <5>1 DEF Listing
      <4> QED
        BY <4>1, <4>2
    <3> QED
      BY <2>6, <2>7, <3>2 DEF Listing
  <2>12. heap' = g /\ list' = list /\ frames' = b
    BY <1>13, <2>5, <2>6
  <2>8. ASSUME SameDrive(procs, heap, saved) PROVE SameDrive(procs, g, t)
    <3>1. Agrees(procs, r.child, r.dir, r.letter)
      BY <1>2, <1>5, <2>8 DEF SameDrive, r
    <3>2. ASSUME NEW x \in Tray!Objs, g[x] # None, g[x].child # None
          PROVE  Agrees(procs, g[x].child, g[x].dir, g[x].letter)
      BY <2>2, <2>6, <2>8, <3>1, <3>2 DEF SameDrive
    <3>3. ASSUME NEW k \in Tray!Keys, t[k] # None, t[k].pid # None
          PROVE  Agrees(procs, t[k].pid, t[k].dir, t[k].letter)
      <4>1. CASE k = r.key
        BY <2>7, <3>1, <4>1
      <4>2. CASE k # r.key
        BY <2>7, <2>8, <3>3, <4>2 DEF SameDrive
      <4> QED
        BY <4>1, <4>2
    <3> QED
      BY <3>2, <3>3 DEF SameDrive
  <2>9. ASSUME Untroubled(mishaps'), OwnLetters(procs, drive), procs[r.child].phase = "starting",
               Attended(procs, drive, gui, heap, frames, saved)
        PROVE  FALSE
    <3>1. procs[r.child] # Tray!NoProc /\ ~Tray!Dead(r.child)
      BY <2>9 DEF Tray!NoProc, Tray!Dead
    <3>2. Watched(procs, heap, frames, r.child)
      BY <1>5, <2>9 DEF Attended
    <3>3. drive[r.letter] = "free"
      BY <1>5, <1>8, <2>9, <3>1, <3>2 DEF OwnLetters
    <3> QED
      BY <2>4, <2>9, <3>1, <3>3
  <2> QED
    BY <1>5, <1>9, <2>2, <2>3, <2>5, <2>6, <2>7, <2>8, <2>9, <2>11, <2>12
<1>12. CASE /\ Tray!Dead(r.child)
            /\ Tray!SetDrives([heap EXCEPT ![o].child = None], list, b)
            /\ mishaps' = mishaps /\ saved' = saved
  <2> DEFINE e == [r EXCEPT !.child = None]
             g == [heap EXCEPT ![o] = e]
  <2>1. e \in DriveRec
    BY <1>2 DEF DriveRec
  <2>2. e.key = r.key /\ e.dir = r.dir /\ e.letter = r.letter /\ ~e.mounted /\ e.child = None
    BY <1>2 DEF DriveRec
  <2>3. Tray!SetDrives(g, list, b)
    BY <1>12 DEF r
  <2> HIDE DEF e
  <2>7. g = Put(heap, o, e)
    BY DEF Put
  <2> HIDE DEF g
  <2>8. /\ Listing(g, list, saved) /\ g[o] = e /\ e # None
        /\ \A x \in Tray!Objs : x # o => g[x] = heap[x]
    BY <1>2, <1>3, <2>1, <2>2, <2>7, PutIs DEF r
  <2>4. /\ heap' = g /\ list' = list /\ frames' = b
        /\ Listing(g, list, saved) /\ g[o] = e /\ e # None
        /\ \A x \in Tray!Objs : x # o => g[x] = heap[x]
    BY <1>13, <2>3, <2>8
  <2>5. SameDrive(procs, heap, saved) => SameDrive(procs, g, saved)
    BY <2>2, <2>4 DEF SameDrive
  <2>6. procs[r.child].phase = "none"
    BY <1>12 DEF Tray!Dead
  <2> QED
    BY <1>3, <1>9, <1>12, <2>2, <2>4, <2>5, <2>6
<1> QED
  BY <1>11, <1>12 DEF Tray!MountReturns, Tray!Calm, o, r, b

\* There is always an object for another drive: no more are there than keys, and a
\* command has begun.
LEMMA FreeObject ==
    ASSUME TrayInv, frames # <<>>
    PROVE  \E o \in Tray!Objs : heap[o] = None
<1> SUFFICES ASSUME \A o \in Tray!Objs : heap[o] # None PROVE FALSE
  OBVIOUS
<1>1. Listing(heap, list, saved)
  BY DEF TrayInv
<1> DEFINE f == [o \in Tray!Objs |-> heap[o].key]
<1>2. f \in [Tray!Objs -> Tray!Keys]
  BY <1>1, RecordsAre DEF DriveRec
<1>3. MaxKeys \in Nat /\ MaxNested \in Nat /\ MaxNested >= 1
  BY BelowIs, TrayAssumption
<1>4. /\ IsFiniteSet(Tray!Objs) /\ Cardinality(Tray!Objs) = MaxKeys + MaxNested
      /\ IsFiniteSet(Tray!Keys) /\ Cardinality(Tray!Keys) = MaxKeys
  <2>1. MaxKeys + MaxNested \in Nat /\ MaxKeys + MaxNested >= 1
    BY <1>3
  <2>2. /\ IsFiniteSet(1..(MaxKeys + MaxNested))
        /\ Cardinality(1..(MaxKeys + MaxNested)) = MaxKeys + MaxNested
    BY <2>1, FS_Interval
  <2>3. IsFiniteSet(1..MaxKeys) /\ Cardinality(1..MaxKeys) = MaxKeys
    BY <1>3, FS_Interval
  <2> QED
    BY <2>2, <2>3 DEF Tray!Objs, Tray!Keys
<1>5. Cardinality(Tray!Keys) < Cardinality(Tray!Objs)
  BY <1>3, <1>4
<1>6. PICK x, y \in Tray!Objs : x # y /\ f[x] = f[y]
  <2> HIDE DEF f
  <2> QED
    BY <1>2, <1>4, <1>5, FS_PigeonHole, Zenon
<1> QED
  BY <1>1, <1>6 DEF Listing

\* Add's command is the last that is OpenOrCreate, and the others are about objects.
LEMMA ChooseIs ==
    ASSUME TrayInv, Tray!At("choose")
    PROVE  /\ gui = TRUE /\ frames # <<>> /\ Idle(frames) /\ Idle(Tray!Below)
           /\ Len(Tray!Below) < MaxNested
           /\ \A i \in 1..Len(Tray!Below) :
                /\ Tray!Below[i] = frames[i] /\ i \in 1..Len(frames) /\ i \in 1..(Tray!Depth - 1)
                /\ ~Tray!Below[i].open /\ Tray!Below[i].obj # Tray!Null
                /\ Tray!Below[i].obj \in Tray!Objs
                /\ heap[Tray!Below[i].obj] # None /\ ~heap[Tray!Below[i].obj].mounted
                /\ heap[Tray!Below[i].obj].letter \in Letters
<1>1. gui = TRUE /\ frames # <<>> /\ Tray!Top.at = "choose"
  BY DEF Tray!At, TrayInv
<1>2. Listing(heap, list, saved) /\ Commands(heap, frames)
  BY DEF TrayInv
<1>3. /\ Idle(frames) /\ Idle(Tray!Below) /\ Len(Tray!Below) = Tray!Depth - 1
      /\ Tray!Depth \in 1..MaxNested /\ Tray!Depth \in 1..Len(frames)
      /\ Tray!Top = frames[Tray!Depth]
      /\ \A i \in 1..Len(Tray!Below) :
           Tray!Below[i] = frames[i] /\ i \in 1..Len(frames) /\ i \in 1..(Tray!Depth - 1)
           /\ i # Tray!Depth
  BY <1>1, BelowIs
<1>4. Len(Tray!Below) < MaxNested
  BY <1>3, TrayAssumption
<1>5. Tray!Top.open
  BY <1>1, <1>2, <1>3 DEF Commands
<1>6. ASSUME NEW i \in 1..Len(Tray!Below)
      PROVE  ~Tray!Below[i].open /\ Tray!Below[i].at # "choose"
  BY <1>2, <1>3, <1>5 DEF Commands
<1>7. ASSUME NEW i \in 1..Len(Tray!Below)
      PROVE  /\ Tray!Below[i].obj \in Tray!Objs /\ Tray!Below[i].obj # Tray!Null
             /\ heap[Tray!Below[i].obj] # None /\ ~heap[Tray!Below[i].obj].mounted
             /\ heap[Tray!Below[i].obj].letter \in Letters
  BY <1>2, <1>3, <1>6, FramesAre
<1> QED
  BY <1>1, <1>3, <1>4, <1>6, <1>7

\* What Add puts in the list: o is new, of key k, and q is the object it replaces, or a
\* null pointer.
Addable(o, q, k, d, ls) ==
    /\ o \in Tray!Objs /\ heap[o] = None /\ q # o /\ k \in Tray!Keys
    /\ ls \in Seq(Tray!Objs \cup {Tray!Null})
    /\ \A x \in Tray!Objs :
         (\E i \in 1..Len(ls) : ls[i] = x) <=> x = o \/ (x # q /\ heap[x] # None)
    /\ \A i, j \in 1..Len(ls) : ls[i] = ls[j] /\ ls[i] # Tray!Null => i = j
    /\ \A x \in Tray!Objs : heap[x] # None /\ heap[x].key = k => x = q /\ ~heap[x].mounted
    /\ q \in Tray!Objs => heap[q] # None /\ heap[q].key = k
    /\ \A i \in 1..Len(Tray!Below) : Tray!Below[i].obj # q
    /\ Whole(TRUE, heap, list, saved) =>
         /\ \A i \in 1..Len(ls) : ls[i] # Tray!Null
         /\ \A j \in Tray!Keys : j # k /\ saved[j] # None => saved[j].dir # d

\* A drive is added at the end of the list or in the place of another, and mounted.
LEMMA AddToKeeps ==
    ASSUME TrayInv, Tray!At("choose"), gui' = gui, UNCHANGED Tray!outside,
           mishaps \subseteq mishaps', mishaps' \subseteq Kinds,
           NEW o, NEW q, NEW k, NEW d \in Dirs, NEW l \in Letters, NEW ls,
           Addable(o, q, k, d, ls),
           Tray!Mount(o, [heap EXCEPT ![o] = Tray!NewDrive(k, d, l, None)], ls, Tray!Below, TRUE,
                      Tray!Save(saved, Tray!NewDrive(k, d, l, None)))
    PROVE  TrayInv'
<1> DEFINE r == Tray!NewDrive(k, d, l, None)
<1> SUFFICES ASSUME
      o \in Tray!Objs, heap[o] = None, q # o, k \in Tray!Keys,
      ls \in Seq(Tray!Objs \cup {Tray!Null}),
      \A x \in Tray!Objs :
        (\E i \in 1..Len(ls) : ls[i] = x) <=> x = o \/ (x # q /\ heap[x] # None),
      \A i, j \in 1..Len(ls) : ls[i] = ls[j] /\ ls[i] # Tray!Null => i = j,
      \A x \in Tray!Objs : heap[x] # None /\ heap[x].key = k => x = q /\ ~heap[x].mounted,
      q \in Tray!Objs => heap[q] # None /\ heap[q].key = k,
      \A i \in 1..Len(Tray!Below) : Tray!Below[i].obj # q,
      Whole(TRUE, heap, list, saved) =>
        /\ \A i \in 1..Len(ls) : ls[i] # Tray!Null
        /\ \A j \in Tray!Keys : j # k /\ saved[j] # None => saved[j].dir # d
    PROVE TrayInv'
  BY DEF Addable
<1> DEFINE b == Tray!Below
           h == [heap EXCEPT ![o] = r]
           g == [x \in Tray!Objs |-> IF x = o THEN r ELSE IF x = q THEN None ELSE heap[x]]
           e == [dir |-> d, letter |-> l, pid |-> None]
           t == Tray!Save(saved, r)
<1>1. Listing(heap, list, saved) /\ Commands(heap, frames)
  BY DEF TrayInv
<1>2. /\ gui = TRUE /\ frames # <<>> /\ Idle(frames) /\ Idle(b) /\ Len(b) < MaxNested
      /\ \A i \in 1..Len(b) :
           /\ b[i] = frames[i] /\ i \in 1..Len(frames) /\ ~b[i].open
           /\ b[i].obj \in Tray!Objs /\ heap[b[i].obj] # None /\ ~heap[b[i].obj].mounted
  BY ChooseIs
<1>3. /\ r \in DriveRec /\ r.key = k /\ r.dir = d /\ r.letter = l /\ ~r.mounted /\ r.child = None
      /\ r # None
  <2>1. r = [key |-> k, dir |-> d, letter |-> l, mounted |-> FALSE, child |-> None]
    BY DEF Tray!NewDrive
  <2>2. r \in DriveRec
    BY <2>1 DEF DriveRec
  <2>3. None \notin DriveRec
    BY TrayAssumption DEF DriveRec, Tray!Keys
  <2>4. r.key = k /\ r.dir = d /\ r.letter = l /\ r.child = None
    BY <2>1
  <2>5. r.mounted = FALSE
    BY <2>1
  <2> QED
    BY <2>2, <2>3, <2>4, <2>5
<1>4. /\ g[o] = r /\ (q \in Tray!Objs => g[q] = None)
      /\ \A x \in Tray!Objs : x # o /\ x # q => g[x] = heap[x]
      /\ g \in [Tray!Objs -> {None} \cup DriveRec]
  BY <1>1, <1>3 DEF Listing
<1>5. h[o] = r /\ \A x \in Tray!Objs : x # o => h[x] = heap[x]
  BY <1>1 DEF Listing
<1>6. /\ t \in [Tray!Keys -> {None} \cup EntryRec] /\ t[k] = e
      /\ \A j \in Tray!Keys : j # k => t[j] = saved[j]
      /\ e # None /\ e.dir = d /\ e.letter = l /\ e.pid = None
  <2>1. e \in EntryRec
    BY DEF EntryRec
  <2>2. None \notin EntryRec
    BY TrayAssumption DEF EntryRec
  <2>3. t = [saved EXCEPT ![k] = e]
    BY <1>3 DEF Tray!Save, Tray!Entry
  <2>4. e.dir = d /\ e.letter = l /\ e.pid = None
    OBVIOUS
  <2> HIDE DEF e, t
  <2> QED
    BY <1>1, <2>1, <2>2, <2>3, <2>4 DEF Listing
<1>7. Tray!Mount(o, h, ls, b, TRUE, t)
  OBVIOUS
<1> HIDE DEF g, h, t, e, b, r
<1>8. \A x \in Tray!Objs : g[x] # None /\ x # o => g[x] = heap[x] /\ heap[x].key # k /\ x # q
  BY <1>4
<1>9. Listing(g, ls, t)
  <2>1. \A x \in Tray!Objs : g[x] # None <=> \E i \in 1..Len(ls) : ls[i] = x
    BY <1>3, <1>4
  <2>2. \A x, y \in Tray!Objs : g[x] # None /\ g[y] # None /\ g[x].key = g[y].key => x = y
    BY <1>1, <1>3, <1>4, <1>8 DEF Listing
  <2>3. ASSUME NEW x \in Tray!Objs, g[x] # None
        PROVE  t[g[x].key] # None /\ t[g[x].key].dir = g[x].dir /\ t[g[x].key].letter = g[x].letter
    <3>1. CASE x = o
      BY <1>3, <1>4, <1>6, <3>1
    <3>2. CASE x # o
      <4>1. g[x] = heap[x] /\ heap[x].key # k /\ heap[x].key \in Tray!Keys /\ heap[x] # None
        BY <1>1, <1>8, <2>3, <3>2, RecordsAre DEF DriveRec
      <4> QED
        BY <1>1, <1>6, <4>1 DEF Listing
    <3> QED
      BY <3>1, <3>2
  <2> QED
    BY <1>4, <1>6, <2>1, <2>2, <2>3 DEF Listing
<1>10. \A i \in 1..Len(b) : /\ b[i].obj # o /\ b[i].obj # q
                            /\ g[b[i].obj] = heap[b[i].obj] /\ b[i].obj \in Tray!Objs
  BY <1>2, <1>4 DEF b
<1>11. Commands(g, b)
  <2>1. \A x \in Tray!Objs : heap[x] # None =>
          IF heap[x].mounted THEN heap[x].child # None ELSE heap[x].child = None
    BY <1>1, <1>2 DEF Commands, Idle
  <2>2. \A x \in Tray!Objs : g[x] # None =>
          IF g[x].mounted THEN g[x].child # None ELSE g[x].child = None
    BY <1>3, <1>4, <1>8, <2>1
  <2>3. \A i \in 1..Len(b) : b[i].obj # Tray!Null => g[b[i].obj] # None /\ ~g[b[i].obj].mounted
    BY <1>2, <1>10
  <2> QED
    BY <1>2, <2>2, <2>3, BelowKeeps DEF b
<1>12. ASSUME FreeLetters(drive, heap, frames) PROVE FreeLetters(drive, g, b)
  BY <1>2, <1>10, <1>12 DEF FreeLetters
<1>13. ASSUME SameDrive(procs, heap, saved) PROVE SameDrive(procs, g, t)
  <2>1. \A x \in Tray!Objs : g[x] # None /\ g[x].child # None =>
          Agrees(procs, g[x].child, g[x].dir, g[x].letter)
    BY <1>3, <1>4, <1>8, <1>13 DEF SameDrive
  <2>2. \A j \in Tray!Keys : t[j] # None /\ t[j].pid # None =>
          Agrees(procs, t[j].pid, t[j].dir, t[j].letter)
    BY <1>6, <1>13 DEF SameDrive
  <2> QED
    BY <2>1, <2>2 DEF SameDrive
<1>14. ASSUME Whole(TRUE, heap, list, saved) PROVE Whole(TRUE, g, ls, t)
  <2>1. /\ \A i \in 1..Len(ls) : ls[i] # Tray!Null
        /\ \A j \in Tray!Keys : j # k /\ saved[j] # None => saved[j].dir # d
    BY <1>14
  <2>2. ASSUME NEW j \in Tray!Keys, t[j] # None
        PROVE  t[j].letter # None /\ \E x \in Tray!Objs : g[x] # None /\ g[x].key = j
    <3>1. CASE j = k
      BY <1>3, <1>4, <1>6, <3>1, TrayAssumption
    <3>2. CASE j # k
      <4>1. t[j] = saved[j] /\ saved[j].letter # None
        BY <1>6, <1>14, <2>2, <3>2 DEF Whole
      <4>2. PICK x \in Tray!Objs : heap[x] # None /\ heap[x].key = j
        BY <1>14, <2>2, <4>1 DEF Whole
      <4>3. x # o /\ x # q
        BY <3>2, <4>2
      <4> QED
        BY <1>4, <4>1, <4>2, <4>3
    <3> QED
      BY <3>1, <3>2
  <2>3. \A j, i \in Tray!Keys : t[j] # None /\ t[i] # None /\ t[j].dir = t[i].dir => j = i
    BY <1>6, <1>14, <2>1 DEF Whole
  <2> QED
    BY <2>1, <2>2, <2>3 DEF Whole
<1>15. ASSUME Attended(procs, drive, TRUE, heap, frames, saved)
       PROVE  Attended(procs, drive, TRUE, g, b, t)
  <2>1. /\ \A p \in Pids : procs[p].phase # "starting"
        /\ \A p \in Pids : procs[p].phase = "serving" /\ drive[procs[p].letter] = p =>
             Recorded(procs, TRUE, heap, saved, p)
    BY <1>2, <1>15, IdleIs
  <2>2. ASSUME NEW p \in Pids, Recorded(procs, TRUE, heap, saved, p)
        PROVE  Recorded(procs, TRUE, g, t, p)
    <3>1. PICK j \in Tray!Keys :
            /\ saved[j] = [dir |-> procs[p].dir, letter |-> procs[p].letter, pid |-> p]
            /\ \E x \in Tray!Objs :
                 heap[x] # None /\ heap[x].key = j /\ heap[x].child = p /\ heap[x].mounted
      BY <2>2 DEF Recorded
    <3>2. PICK x \in Tray!Objs :
            heap[x] # None /\ heap[x].key = j /\ heap[x].child = p /\ heap[x].mounted
      BY <3>1
    <3>3. j # k
      BY <3>2
    <3>4. x # o /\ x # q
      BY <3>2, <3>3
    <3> QED
      BY <1>4, <1>6, <3>1, <3>2, <3>3, <3>4 DEF Recorded
  <2> QED
    BY <2>1, <2>2, AttendedIs
<1>16. \A x \in Tray!Objs : g[x] # None => h[x] = g[x]
  BY <1>4, <1>5
<1>17. g[o] # None /\ ~g[o].mounted /\ gui' = TRUE
  BY <1>2, <1>3, <1>4
<1>18. Mountable(o, g, h, ls, b, TRUE, t)
  BY <1>2, <1>9, <1>10, <1>11, <1>16, <1>17 DEF Mountable
<1>19. Idle(frames) /\ gui = TRUE
  BY <1>2
<1> QED
  BY <1>7, <1>12, <1>13, <1>14, <1>15, <1>17, <1>18, <1>19, MountKeeps

\* Add: the drive of the directory that is mounted already stays.
LEMMA AddKeeps ==
    ASSUME TrayInv, "nested" \notin Kinds, NEW d \in Dirs, NEW l \in Letters, Tray!Add(d, l)
    PROVE  TrayInv'
<1> DEFINE o == CHOOSE x \in Tray!Objs : heap[x] = None
           r(k) == Tray!NewDrive(k, d, l, None)
           AddTo(ls, k) == Tray!Mount(o, [heap EXCEPT ![o] = r(k)], ls, Tray!Below, TRUE,
                                      Tray!Save(saved, r(k)))
           again == \E j \in 1..(Tray!Depth - 1) : heap[frames[j].obj].dir = d
<1>1. /\ Tray!At("choose") /\ gui' = gui /\ UNCHANGED Tray!outside
      /\ \/ \E i \in DOMAIN list :
              /\ Tray!Reaches(d, i) /\ list[i] # Tray!Null /\ heap[list[i]].dir = d
              /\ \/ /\ heap[list[i]].mounted
                    /\ Tray!SetDrives(heap, list, Tray!Below) /\ Tray!Calm /\ UNCHANGED saved
                 \/ /\ ~heap[list[i]].mounted
                    /\ AddTo([list EXCEPT ![i] = o], heap[list[i]].key)
                    /\ Tray!Mishap(IF again THEN {"nested"} ELSE {})
         \/ /\ Tray!Reaches(d, Len(list) + 1)
            /\ \E k \in Tray!Unused(saved) : AddTo(Append(list, o), k)
            /\ Tray!Calm
  BY DEF Tray!Add
<1>2. /\ gui = TRUE /\ frames # <<>> /\ Idle(frames)
      /\ \A i \in 1..Len(Tray!Below) :
           /\ Tray!Below[i] = frames[i] /\ i \in 1..(Tray!Depth - 1)
           /\ Tray!Below[i].obj # Tray!Null
  BY <1>1, ChooseIs
<1>3. Listing(heap, list, saved) /\ mishaps \subseteq Kinds
  BY DEF TrayInv
<1>4. list \in Seq(Tray!Objs \cup {Tray!Null}) /\ DOMAIN list = 1..Len(list) /\ Len(list) \in Nat
  BY <1>3 DEF Listing
<1>5. o \in Tray!Objs /\ heap[o] = None /\ o # Tray!Null
  BY <1>2, FreeObject, NumbersOf
<1>6. \A i \in 1..Len(list) : list[i] # o
  BY <1>3, <1>5 DEF Listing
<1> HIDE DEF o
<1>7. ASSUME NEW i \in 1..Len(list), list[i] # Tray!Null, heap[list[i]].dir = d,
             heap[list[i]].mounted,
             Tray!SetDrives(heap, list, Tray!Below), Tray!Calm, saved' = saved
      PROVE  TrayInv'
  BY <1>1, <1>2, <1>7, BackKeeps DEF Tray!Calm
<1>8. ASSUME NEW i \in 1..Len(list), list[i] # Tray!Null, heap[list[i]].dir = d,
             ~heap[list[i]].mounted, AddTo([list EXCEPT ![i] = o], heap[list[i]].key),
             Tray!Mishap(IF again THEN {"nested"} ELSE {})
      PROVE  TrayInv'
  <2> DEFINE q == list[i]
             k == heap[q].key
             ls == [list EXCEPT ![i] = o]
  <2>1. q \in Tray!Objs /\ q # o /\ heap[q] # None /\ heap[q].dir = d /\ ~heap[q].mounted
    BY <1>3, <1>4, <1>6, <1>8 DEF Listing
  <2>2. k \in Tray!Keys /\ saved[k] # None /\ saved[k].dir = d
    BY <1>3, <2>1, RecordsAre DEF Listing, DriveRec
  <2>3. /\ mishaps \subseteq mishaps' /\ mishaps' \subseteq Kinds /\ ~again
    <3> HIDE DEF again
    <3> QED
      BY <1>3, <1>8, MishapIs
  <2>4. /\ ls \in Seq(Tray!Objs \cup {Tray!Null}) /\ Len(ls) = Len(list) /\ ls[i] = o
        /\ \A j \in 1..Len(list) : j # i => ls[j] = list[j]
    BY <1>4, <1>5
  <2>5. Tray!Mount(o, [heap EXCEPT ![o] = r(k)], ls, Tray!Below, TRUE, Tray!Save(saved, r(k)))
    BY <1>8
  <2> HIDE DEF ls
  <2>6. ASSUME NEW x \in Tray!Objs
        PROVE  (\E j \in 1..Len(ls) : ls[j] = x) <=> x = o \/ (x # q /\ heap[x] # None)
    <3>1. ASSUME NEW j \in 1..Len(ls), ls[j] = x, x # o PROVE x # q /\ heap[x] # None
      BY <1>3, <1>8, <2>4, <3>1, NumbersOf DEF Listing
    <3>2. ASSUME x = o PROVE \E j \in 1..Len(ls) : ls[j] = x
      BY <2>4, <3>2
    <3>3. ASSUME x # q, heap[x] # None PROVE \E j \in 1..Len(ls) : ls[j] = x
      <4>1. PICK j \in 1..Len(list) : list[j] = x
        BY <1>3, <3>3 DEF Listing
      <4> QED
        BY <2>4, <3>3, <4>1
    <3> QED
      BY <3>1, <3>2, <3>3
  <2>7. ASSUME NEW j \in 1..Len(ls), NEW n \in 1..Len(ls), ls[j] = ls[n], ls[j] # Tray!Null
        PROVE  j = n
    BY <1>3, <1>6, <2>4, <2>7 DEF Listing
  <2>8. \A x \in Tray!Objs : heap[x] # None /\ heap[x].key = k => x = q /\ ~heap[x].mounted
    BY <1>3, <2>1 DEF Listing
  <2>9. \A j \in 1..Len(Tray!Below) : Tray!Below[j].obj # q
    BY <1>2, <2>1, <2>3
  <2>10. ASSUME Whole(TRUE, heap, list, saved)
         PROVE  /\ \A j \in 1..Len(ls) : ls[j] # Tray!Null
                /\ \A j \in Tray!Keys : j # k /\ saved[j] # None => saved[j].dir # d
    BY <1>5, <2>2, <2>4, <2>10 DEF Whole
  <2>11. Addable(o, q, k, d, ls)
    BY <1>5, <2>1, <2>2, <2>4, <2>6, <2>7, <2>8, <2>9, <2>10 DEF Addable
  <2> HIDE DEF q, k
  <2> QED
    BY <1>1, <2>3, <2>5, <2>11, AddToKeeps
<1>9. ASSUME Tray!Reaches(d, Len(list) + 1), NEW k \in Tray!Unused(saved),
             AddTo(Append(list, o), k), Tray!Calm
      PROVE  TrayInv'
  <2> DEFINE ls == Append(list, o)
  <2>1. k \in Tray!Keys /\ saved[k] = None
    BY DEF Tray!Unused
  <2>2. \A i \in 1..Len(list) : list[i] # Tray!Null => heap[list[i]].dir # d
    <3>1. \A i \in 1..Len(list) : i \in 1..(Len(list) + 1 - 1)
      BY <1>4
    <3> QED
      BY <1>9, <3>1 DEF Tray!Reaches
  <2>3. \A x \in Tray!Objs : heap[x] # None => heap[x].key # k /\ heap[x].dir # d
    BY <1>3, <2>1, <2>2, NumbersOf DEF Listing
  <2>4. /\ ls \in Seq(Tray!Objs \cup {Tray!Null}) /\ Len(ls) = Len(list) + 1
        /\ ls[Len(list) + 1] = o /\ \A j \in 1..Len(list) : ls[j] = list[j]
        /\ \A j \in 1..Len(ls) : j \in 1..Len(list) \/ (j = Len(list) + 1 /\ ls[j] = o)
        /\ Len(list) + 1 \in 1..Len(ls) /\ \A j \in 1..Len(list) : j \in 1..Len(ls)
    <3>1. /\ ls \in Seq(Tray!Objs \cup {Tray!Null}) /\ Len(ls) = Len(list) + 1
          /\ ls[Len(list) + 1] = o /\ \A j \in 1..Len(list) : ls[j] = list[j]
      BY <1>4, <1>5, AppendProperties
    <3> HIDE DEF ls
    <3> QED
      BY <1>4, <3>1
  <2>5. Tray!Mount(o, [heap EXCEPT ![o] = r(k)], ls, Tray!Below, TRUE, Tray!Save(saved, r(k)))
    BY <1>9
  <2> HIDE DEF ls
  <2>6. ASSUME NEW x \in Tray!Objs
        PROVE  (\E j \in 1..Len(ls) : ls[j] = x) <=> x = o \/ (x # Tray!Null /\ heap[x] # None)
    BY <1>3, <1>5, <2>4, NumbersOf DEF Listing
  <2>7. ASSUME NEW j \in 1..Len(ls), NEW n \in 1..Len(ls), ls[j] = ls[n], ls[j] # Tray!Null
        PROVE  j = n
    BY <1>3, <1>6, <2>4, <2>7 DEF Listing
  <2>8. \A x \in Tray!Objs : heap[x] # None /\ heap[x].key = k => x = Tray!Null /\ ~heap[x].mounted
    BY <2>3
  <2>9. \A j \in 1..Len(Tray!Below) : Tray!Below[j].obj # Tray!Null
    BY <1>2
  <2>10. ASSUME Whole(TRUE, heap, list, saved)
         PROVE  /\ \A j \in 1..Len(ls) : ls[j] # Tray!Null
                /\ \A j \in Tray!Keys : j # k /\ saved[j] # None => saved[j].dir # d
    <3>1. \A j \in 1..Len(ls) : ls[j] # Tray!Null
      BY <1>5, <2>4, <2>10 DEF Whole
    <3>2. ASSUME NEW j \in Tray!Keys, saved[j] # None PROVE saved[j].dir # d
      <4>1. PICK x \in Tray!Objs : heap[x] # None /\ heap[x].key = j
        BY <2>10, <3>2 DEF Whole
      <4> QED
        BY <1>3, <2>3, <4>1 DEF Listing
    <3> QED
      BY <3>1, <3>2
  <2>11. mishaps' = mishaps /\ Tray!Null \notin Tray!Objs /\ Tray!Null # o
    BY <1>5, <1>9, NumbersOf DEF Tray!Calm
  <2>12. Addable(o, Tray!Null, k, d, ls)
    BY <1>5, <2>1, <2>4, <2>6, <2>7, <2>8, <2>9, <2>10, <2>11 DEF Addable
  <2> QED
    BY <1>1, <1>3, <2>5, <2>11, <2>12, AddToKeeps
<1> HIDE DEF AddTo, again
<1> QED
  BY <1>1, <1>4, <1>7, <1>8, <1>9
----------------------------------------------------------------------------
(* The entries in the order the registry gives them.                       *)

\* A set of numbers that is not empty has a least one.
LEMMA LeastNumber ==
    ASSUME NEW T, T \subseteq Nat, T # {}
    PROVE  \E x \in T : \A y \in T : x <= y
<1> DEFINE R == OpToRel(<, Nat)
<1>1. IsWellFoundedOn(R, Nat)
  BY NatLessThanWellFounded
<1> HIDE DEF R
<1>2. PICK x \in T : \A y \in T : ~(<<y, x>> \in R)
  BY <1>1, WFMin
<1>3. ASSUME NEW y \in T PROVE x <= y
  <2>1. ~(y < x)
    BY <1>2 DEF OpToRel, R
  <2> QED
    BY <2>1
<1> QED
  BY <1>3

\* Induction from MaxKeys down to 0, over a set of numbers.
LEMMA Downwards ==
    ASSUME NEW K, MaxKeys \in K,
           \A k \in 0..MaxKeys : (\A j \in Tray!Keys : j > k => j \in K) => k \in K
    PROVE  \A k \in 0..MaxKeys : k \in K
<1>0. MaxKeys \in Nat
  BY TrayAssumption
<1> DEFINE T == {n \in 0..MaxKeys : MaxKeys - n \notin K}
<1>1. T = {}
  <2>1. SUFFICES ASSUME T # {} PROVE FALSE
    OBVIOUS
  <2>2. T \subseteq Nat
    OBVIOUS
  <2>3. PICK n \in T : \A m \in T : n <= m
    <3> HIDE DEF T
    <3> QED
      BY <2>1, <2>2, LeastNumber
  <2>4. n \in 0..MaxKeys /\ MaxKeys - n \in 0..MaxKeys /\ MaxKeys - n \notin K
    BY <1>0
  <2>5. ASSUME NEW j \in Tray!Keys, j > MaxKeys - n PROVE j \in K
    <3>1. MaxKeys - j \in 0..MaxKeys /\ MaxKeys - j < n /\ MaxKeys - (MaxKeys - j) = j
      BY <1>0, <2>4, <2>5 DEF Tray!Keys
    <3>2. MaxKeys - j \notin T
      BY <1>0, <2>3, <2>4, <3>1
    <3> QED
      BY <3>1, <3>2
  <2> QED
    BY <2>4, <2>5
<1>2. ASSUME NEW k \in 0..MaxKeys PROVE k \in K
  <2>1. MaxKeys - k \in 0..MaxKeys /\ MaxKeys - (MaxKeys - k) = k
    BY <1>0
  <2>2. MaxKeys - k \notin T
    BY <1>1
  <2> QED
    BY <2>1, <2>2
<1> QED
  BY <1>2

\* The entry after one is the least of those later.
LEMMA AfterIs ==
    ASSUME NEW k \in 0..MaxKeys, Tray!Later(k) # {}
    PROVE  /\ Tray!After(k) \in Tray!Later(k)
           /\ Tray!After(k) \in Tray!Keys /\ Tray!After(k) > k /\ Tray!After(k) \in 0..MaxKeys
           /\ saved[Tray!After(k)] # None
           /\ \A i \in Tray!Later(k) : i = Tray!After(k) \/ i \in Tray!Later(Tray!After(k))
<1>1. Tray!Later(k) \subseteq Nat
  BY TrayAssumption DEF Tray!Later, Tray!Keys
<1>2. \E j \in Tray!Later(k) : \A i \in Tray!Later(k) : j <= i
  BY <1>1, LeastNumber
<1>3. Tray!After(k) \in Tray!Later(k) /\ \A i \in Tray!Later(k) : Tray!After(k) <= i
  BY <1>2 DEF Tray!After
<1> HIDE DEF Tray!After
<1> QED
  BY <1>1, <1>3, TrayAssumption DEF Tray!Later, Tray!Keys

\* What is listed from an entry on, when f is what is listed from those after it.
ListFrom(f, k) ==
    IF Tray!Later(k) = {} THEN <<>>
    ELSE <<Tray!After(k)>> \o
           (IF ~Tray!Rejected(Tray!After(k)) THEN f[Tray!After(k)]
            ELSE IF Tray!Later(Tray!After(k)) = {} THEN <<>>
                 ELSE f[Tray!After(Tray!After(k))])
IsFrom(f, m) == f = [k \in m..MaxKeys |-> ListFrom(f, k)]

\* There is such a list for every entry,
LEMMA FromThere == \E f : IsFrom(f, 0)
<1>0. MaxKeys \in Nat
  BY TrayAssumption
<1> DEFINE K == {m \in 0..MaxKeys : \E f : IsFrom(f, m)}
<1>1. MaxKeys \in K
  <2>1. Tray!Later(MaxKeys) = {}
    BY <1>0 DEF Tray!Later, Tray!Keys
  <2> DEFINE f == [k \in MaxKeys..MaxKeys |-> <<>>]
  <2>2. \A k \in MaxKeys..MaxKeys : ListFrom(f, k) = <<>>
    BY <1>0, <2>1 DEF ListFrom
  <2>3. IsFrom(f, MaxKeys)
    BY <2>2 DEF IsFrom
  <2> QED
    BY <1>0, <2>3
<1>2. ASSUME NEW m \in 0..MaxKeys, \A j \in Tray!Keys : j > m => j \in K PROVE m \in K
  <2>1. CASE m = MaxKeys
    BY <1>1, <2>1
  <2>2. CASE m # MaxKeys
    <3>1. m + 1 \in Tray!Keys /\ m + 1 > m
      BY <1>0, <2>2 DEF Tray!Keys
    <3>2. PICK f : IsFrom(f, m + 1)
      BY <1>2, <3>1
    <3> DEFINE g == [k \in m..MaxKeys |-> IF k = m THEN ListFrom(f, m) ELSE f[k]]
    <3>3. \A k \in (m + 1)..MaxKeys : k \in m..MaxKeys /\ g[k] = f[k]
      BY <1>0
    <3>4. ASSUME NEW k \in m..MaxKeys PROVE ListFrom(g, k) = ListFrom(f, k)
      <4>1. k \in 0..MaxKeys
        BY <1>0
      <4>2. ASSUME Tray!Later(k) # {}
            PROVE  /\ Tray!After(k) \in (m + 1)..MaxKeys /\ Tray!After(k) \in 0..MaxKeys
        BY <1>0, <4>1, <4>2, AfterIs DEF Tray!Keys
      <4>3. ASSUME Tray!Later(k) # {}, Tray!Later(Tray!After(k)) # {}
            PROVE  Tray!After(Tray!After(k)) \in (m + 1)..MaxKeys
        <5>1. /\ Tray!After(Tray!After(k)) > Tray!After(k)
              /\ Tray!After(Tray!After(k)) \in 0..MaxKeys
          BY <4>2, <4>3, AfterIs
        <5> QED
          BY <1>0, <4>2, <4>3, <5>1
      <4> HIDE DEF g
      <4> QED
        BY <3>3, <4>2, <4>3, Zenon DEF ListFrom
    <3>5. \A k \in m..MaxKeys : g[k] = ListFrom(f, k)
      <4>1. ASSUME NEW k \in m..MaxKeys, k # m PROVE f[k] = ListFrom(f, k)
        <5>1. k \in (m + 1)..MaxKeys
          BY <1>0, <4>1
        <5> QED
          BY <3>2, <5>1 DEF IsFrom
      <4> QED
        BY <4>1
    <3>6. g = [k \in m..MaxKeys |-> ListFrom(g, k)]
      BY <3>4, <3>5
    <3> HIDE DEF g
    <3> QED
      BY <3>6 DEF IsFrom
  <2> QED
    BY <2>1, <2>2
<1>3. \A k \in 0..MaxKeys : k \in K
  <2> HIDE DEF K
  <2> QED
    BY <1>1, <1>2, Downwards
<1> QED
  BY <1>0, <1>3

\* and Enum gives the one from the beginning.
LEMMA EnumeratedIs == \E f : IsFrom(f, 0) /\ Tray!Enumerated = f[0]
<1> DEFINE from == CHOOSE f : f = [k \in 0..MaxKeys |->
              IF Tray!Later(k) = {} THEN <<>>
              ELSE LET n == Tray!After(k)
                   IN <<n>> \o (IF ~Tray!Rejected(n) THEN f[n]
                                ELSE IF Tray!Later(n) = {} THEN <<>> ELSE f[Tray!After(n)])]
<1>1. PICK f : IsFrom(f, 0)
  BY FromThere
<1>2. f = [k \in 0..MaxKeys |->
              IF Tray!Later(k) = {} THEN <<>>
              ELSE LET n == Tray!After(k)
                   IN <<n>> \o (IF ~Tray!Rejected(n) THEN f[n]
                                ELSE IF Tray!Later(n) = {} THEN <<>> ELSE f[Tray!After(n)])]
  BY <1>1 DEF IsFrom, ListFrom
<1>3. from = [k \in 0..MaxKeys |->
              IF Tray!Later(k) = {} THEN <<>>
              ELSE LET n == Tray!After(k)
                   IN <<n>> \o (IF ~Tray!Rejected(n) THEN from[n]
                                ELSE IF Tray!Later(n) = {} THEN <<>> ELSE from[Tray!After(n)])]
  BY <1>2
<1>4. Tray!Enumerated = from[0]
  BY DEF Tray!Enumerated
<1> HIDE DEF from
<1>5. IsFrom(from, 0)
  BY <1>3 DEF IsFrom, ListFrom
<1> QED
  BY <1>4, <1>5

\* Entries later than k, in order, and all of them if none is rejected.
InOrderFrom(q, k) ==
    /\ q \in Seq(Tray!Keys) /\ Len(q) <= MaxKeys - k
    /\ \A i \in 1..Len(q) : q[i] > k /\ saved[q[i]] # None
    /\ \A i, j \in 1..Len(q) : i < j => q[i] < q[j]
    /\ (\A j \in Tray!Keys : saved[j] # None => ~Tray!Rejected(j)) =>
          \A j \in Tray!Later(k) : \E i \in 1..Len(q) : q[i] = j

\* One more in front of such a sequence.
LEMMA FrontKeeps ==
    ASSUME NEW k \in 0..MaxKeys, Tray!Later(k) # {}, NEW q, NEW m \in 0..MaxKeys,
           m >= Tray!After(k), InOrderFrom(q, m),
           m = Tray!After(k) \/ Tray!Rejected(Tray!After(k))
    PROVE  InOrderFrom(<<Tray!After(k)>> \o q, k)
<1> DEFINE n == Tray!After(k)
           r == <<n>> \o q
<1>0. MaxKeys \in Nat /\ Tray!Keys \subseteq Nat
  BY TrayAssumption, NumbersOf
<1>1. /\ n \in Tray!Keys /\ n > k /\ saved[n] # None
      /\ \A i \in Tray!Later(k) : i = n \/ i \in Tray!Later(n)
  BY AfterIs
<1> HIDE DEF n
<1>2. q \in Seq(Tray!Keys) /\ Len(q) \in Nat
  BY DEF InOrderFrom
<1>3. /\ r \in Seq(Tray!Keys) /\ Len(r) = Len(q) + 1 /\ r[1] = n
      /\ \A i \in 1..Len(q) : r[i + 1] = q[i]
  <2>1. <<n>> \in Seq(Tray!Keys) /\ Len(<<n>>) = 1 /\ <<n>>[1] = n
    BY <1>1
  <2>2. /\ r \in Seq(Tray!Keys) /\ Len(r) = 1 + Len(q)
        /\ \A i \in 1..(1 + Len(q)) : r[i] = IF i <= 1 THEN <<n>>[i] ELSE q[i - 1]
    BY <1>2, <2>1, ConcatProperties
  <2> HIDE DEF r
  <2>3. ASSUME NEW i \in 1..Len(q) PROVE r[i + 1] = q[i]
    <3>1. i + 1 \in 1..(1 + Len(q)) /\ ~(i + 1 <= 1) /\ (i + 1) - 1 = i
      BY <1>2
    <3> QED
      BY <2>2, <3>1
  <2> QED
    BY <1>2, <2>1, <2>2, <2>3
<1> HIDE DEF r
<1>4. \A i \in 1..Len(r) : i = 1 \/ (i - 1 \in 1..Len(q) /\ r[i] = q[i - 1])
  BY <1>2, <1>3
<1>5. \A i \in 1..Len(q) : q[i] \in Tray!Keys /\ q[i] > m /\ saved[q[i]] # None
  BY <1>2 DEF InOrderFrom
<1>6. n <= m /\ m \in Nat /\ k \in Nat /\ n \in Nat
  <2>1. n \in Nat
    BY <1>0, <1>1, Zenon
  <2>2. m >= n
    BY DEF n
  <2> QED
    BY <1>0, <2>1, <2>2
<1>7. Len(r) <= MaxKeys - k
  BY <1>0, <1>1, <1>2, <1>3, <1>6 DEF InOrderFrom
<1>8. \A i \in 1..Len(r) : r[i] > k /\ saved[r[i]] # None
  <2>1. ASSUME NEW i \in 1..Len(q) PROVE q[i] > k
    <3>1. q[i] \in Nat /\ q[i] > m
      BY <1>0, <1>5
    <3> QED
      BY <1>1, <1>6, <3>1
  <2> QED
    BY <1>1, <1>3, <1>4, <1>5, <2>1
<1>9. ASSUME NEW i \in 1..Len(r), NEW j \in 1..Len(r), i < j PROVE r[i] < r[j]
  <2>1. j - 1 \in 1..Len(q) /\ r[j] = q[j - 1] /\ r[j] > m /\ r[j] \in Nat
    <3>1. j # 1
      BY <1>2, <1>3, <1>9
    <3>2. j - 1 \in 1..Len(q) /\ r[j] = q[j - 1]
      BY <1>4, <3>1
    <3> QED
      BY <1>0, <1>5, <3>2
  <2>2. CASE i = 1
    BY <1>3, <1>6, <2>1, <2>2
  <2>3. CASE i # 1
    <3>1. i - 1 \in 1..Len(q) /\ r[i] = q[i - 1] /\ i - 1 < j - 1
      BY <1>2, <1>3, <1>4, <1>9, <2>3
    <3> QED
      BY <2>1, <3>1 DEF InOrderFrom
  <2> QED
    BY <2>2, <2>3
<1>10. ASSUME \A j \in Tray!Keys : saved[j] # None => ~Tray!Rejected(j), NEW j \in Tray!Later(k)
       PROVE  \E i \in 1..Len(r) : r[i] = j
  <2>1. m = n
    BY <1>1, <1>10 DEF n
  <2>2. CASE j = n
    BY <1>2, <1>3, <2>2
  <2>3. CASE j # n
    <3>1. PICK i \in 1..Len(q) : q[i] = j
      BY <1>1, <1>10, <2>1, <2>3 DEF InOrderFrom
    <3>2. i + 1 \in 1..Len(r) /\ r[i + 1] = j
      BY <1>2, <1>3, <3>1
    <3> QED
      BY <3>2
  <2> QED
    BY <2>2, <2>3
<1>11. InOrderFrom(r, k)
  BY <1>3, <1>7, <1>8, <1>9, <1>10 DEF InOrderFrom
<1> QED
  BY <1>11 DEF r, n

\* Enum gives entries in order.
LEMMA EnumeratedInOrder == InOrderFrom(Tray!Enumerated, 0)
<1>0. MaxKeys \in Nat
  BY TrayAssumption
<1>1. PICK f : IsFrom(f, 0) /\ Tray!Enumerated = f[0]
  BY EnumeratedIs
<1>2. \A k \in 0..MaxKeys : f[k] = ListFrom(f, k)
  BY <1>1 DEF IsFrom
<1>3. ASSUME NEW k \in 0..MaxKeys PROVE Tray!Later(k) = {} => InOrderFrom(<<>>, k)
  BY <1>0 DEF InOrderFrom
<1> DEFINE K == {k \in 0..MaxKeys : InOrderFrom(f[k], k)}
<1>4. ASSUME NEW k \in 0..MaxKeys, \A j \in Tray!Keys : j > k => j \in K PROVE k \in K
  <2>1. CASE Tray!Later(k) = {}
    BY <1>2, <1>3, <2>1 DEF ListFrom
  <2>2. CASE Tray!Later(k) # {}
    <3> DEFINE n == Tray!After(k)
    <3>1. n \in Tray!Keys /\ n > k /\ n \in 0..MaxKeys
      BY <2>2, AfterIs
    <3>2. InOrderFrom(f[n], n)
      BY <1>4, <3>1
    <3>0. n >= n
      BY <3>1, NumbersOf
    <3>3. CASE ~Tray!Rejected(n)
      <4>1. f[k] = <<n>> \o f[n]
        BY <1>2, <2>2, <3>3 DEF ListFrom
      <4> QED
        BY <2>2, <3>0, <3>1, <3>2, <4>1, FrontKeeps
    <3>4. CASE Tray!Rejected(n) /\ Tray!Later(n) = {}
      <4>1. f[k] = <<n>> \o <<>>
        BY <1>2, <2>2, <3>4 DEF ListFrom
      <4>2. InOrderFrom(<<>>, n)
        BY <1>3, <3>1, <3>4
      <4> QED
        BY <2>2, <3>0, <3>1, <4>1, <4>2, FrontKeeps
    <3>5. CASE Tray!Rejected(n) /\ Tray!Later(n) # {}
      <4> DEFINE m == Tray!After(n)
      <4>1. f[k] = <<n>> \o f[m]
        BY <1>2, <2>2, <3>5 DEF ListFrom
      <4>2. m \in Tray!Keys /\ m > n /\ m \in 0..MaxKeys
        BY <3>1, <3>5, AfterIs
      <4>3. m > k /\ m >= n
        BY <1>0, <3>1, <4>2
      <4>4. InOrderFrom(f[m], m)
        BY <1>4, <4>2, <4>3
      <4> QED
        BY <2>2, <3>5, <4>1, <4>2, <4>3, <4>4, FrontKeeps
    <3> QED
      BY <3>3, <3>4, <3>5
  <2> QED
    BY <2>1, <2>2
<1>5. MaxKeys \in K
  <2>1. \A j \in Tray!Keys : j > MaxKeys => j \in K
    BY <1>0 DEF Tray!Keys
  <2> QED
    BY <1>0, <1>4, <2>1
<1>6. \A k \in 0..MaxKeys : k \in K
  <2> HIDE DEF K
  <2> QED
    BY <1>4, <1>5, Downwards
<1> QED
  BY <1>0, <1>1, <1>6

\* What stands of the list when the program starts.
Standing(ks, i) == i \in 1..Len(ks) /\ ~Tray!Rejected(ks[i])

\* What Load leaves, for the entries Enum gives.
LEMMA LoadIs ==
    ASSUME Tray!Load
    PROVE  \E ks :
      /\ InOrderFrom(ks, 0)
      /\ ~gui /\ gui' = TRUE /\ frames' = <<>> /\ mishaps' = mishaps
      /\ UNCHANGED Tray!outside
      /\ list' = [i \in 1..Len(ks) |-> IF Standing(ks, i) THEN i ELSE Tray!Null]
      /\ heap' = [o \in Tray!Objs |-> IF Standing(ks, o) THEN Tray!Resumed(ks[o]) ELSE None]
      /\ saved' = [k \in Tray!Keys |-> IF \E i \in 1..Len(ks) : ks[i] = k /\ Tray!Rejected(k)
                                         THEN None ELSE saved[k]]
<1> DEFINE ks == Tray!Enumerated
<1>1. InOrderFrom(ks, 0) /\ DOMAIN ks = 1..Len(ks)
  BY EnumeratedInOrder DEF InOrderFrom
<1>2. /\ ~gui
      /\ gui' = TRUE /\ frames' = <<>> /\ mishaps' = mishaps
      /\ UNCHANGED Tray!outside
      /\ list' = [i \in DOMAIN ks |-> IF i \in DOMAIN ks /\ ~Tray!Rejected(ks[i]) THEN i ELSE Tray!Null]
      /\ heap' = [o \in Tray!Objs |-> IF o \in DOMAIN ks /\ ~Tray!Rejected(ks[o])
                                        THEN Tray!Resumed(ks[o]) ELSE None]
      /\ saved' = [k \in Tray!Keys |-> IF \E i \in DOMAIN ks : ks[i] = k /\ Tray!Rejected(k)
                                         THEN None ELSE saved[k]]
  BY DEF Tray!Load, Tray!Calm
<1> HIDE DEF ks
<1> QED
  BY <1>1, <1>2, Zenon DEF Standing

\* The program starts: a process that serves still has the entry that names it.
LEMMA LoadKeeps ==
    ASSUME TrayInv, Tray!Load PROVE TrayInv'
<1>1. PICK ks :
      /\ InOrderFrom(ks, 0)
      /\ ~gui /\ gui' = TRUE /\ frames' = <<>> /\ mishaps' = mishaps
      /\ UNCHANGED Tray!outside
      /\ list' = [i \in 1..Len(ks) |-> IF Standing(ks, i) THEN i ELSE Tray!Null]
      /\ heap' = [o \in Tray!Objs |-> IF Standing(ks, o) THEN Tray!Resumed(ks[o]) ELSE None]
      /\ saved' = [k \in Tray!Keys |-> IF \E i \in 1..Len(ks) : ks[i] = k /\ Tray!Rejected(k)
                                         THEN None ELSE saved[k]]
  BY LoadIs
<1>2. /\ Listing(heap, list, saved) /\ procs \in Procs /\ drive \in DriveMap
      /\ mishaps \subseteq Kinds
      /\ frames = <<>>
      /\ procs' = procs /\ drive' = drive /\ lost' = lost
  BY <1>1 DEF TrayInv, Procs, DriveMap, Tray!outside
<1>3. /\ ks \in Seq(Tray!Keys) /\ Len(ks) \in Nat /\ 1..Len(ks) \subseteq Tray!Objs
      /\ \A i \in 1..Len(ks) : ks[i] \in Tray!Keys /\ saved[ks[i]] # None /\ saved[ks[i]] \in EntryRec
      /\ \A i, j \in 1..Len(ks) : ks[i] = ks[j] => i = j
  <2>1. /\ ks \in Seq(Tray!Keys) /\ Len(ks) \in Nat /\ Len(ks) <= MaxKeys - 0
        /\ \A i \in 1..Len(ks) : ks[i] \in Tray!Keys /\ ks[i] \in Nat /\ saved[ks[i]] # None
        /\ \A i, j \in 1..Len(ks) : i < j => ks[i] < ks[j]
    <3>1. /\ ks \in Seq(Tray!Keys) /\ Len(ks) <= MaxKeys - 0
          /\ \A i \in 1..Len(ks) : saved[ks[i]] # None
          /\ \A i, j \in 1..Len(ks) : i < j => ks[i] < ks[j]
      BY <1>1 DEF InOrderFrom
    <3>2. Len(ks) \in Nat /\ \A i \in 1..Len(ks) : ks[i] \in Tray!Keys
      BY <3>1
    <3>3. \A i \in 1..Len(ks) : ks[i] \in Nat
      BY <3>2, NumbersOf
    <3> QED
      BY <3>1, <3>2, <3>3
  <2>2. 1..Len(ks) \subseteq Tray!Objs
    BY <2>1, TrayAssumption DEF Tray!Objs
  <2>3. ASSUME NEW i \in 1..Len(ks), NEW j \in 1..Len(ks), ks[i] = ks[j] PROVE i = j
    <3>1. ~(i < j) /\ ~(j < i)
      BY <2>1, <2>3
    <3> QED
      BY <2>1, <3>1
  <2> QED
    BY <1>2, <2>1, <2>2, <2>3, RecordsAre
<1>4. ASSUME NEW o \in Tray!Objs, Standing(ks, o)
      PROVE  /\ heap'[o] = Tray!Resumed(ks[o]) /\ heap'[o] \in DriveRec /\ heap'[o] # None
             /\ heap'[o].key = ks[o] /\ heap'[o].dir = saved[ks[o]].dir
             /\ heap'[o].letter = saved[ks[o]].letter
             /\ heap'[o].mounted <=> heap'[o].child # None
             /\ heap'[o].child # None => heap'[o].child = saved[ks[o]].pid
             /\ saved[ks[o]].pid # None /\ drive[saved[ks[o]].letter] # "free"
                  /\ procs[saved[ks[o]].pid].phase # "none" =>
                    heap'[o].child = saved[ks[o]].pid
             /\ saved'[ks[o]] = saved[ks[o]]
  <2> DEFINE e == saved[ks[o]]
  <2>1. /\ o \in 1..Len(ks) /\ ks[o] \in Tray!Keys /\ e \in EntryRec /\ e.letter # None
    BY <1>3, <1>4 DEF Standing, Tray!Rejected
  <2>2. heap'[o] = Tray!Resumed(ks[o])
    BY <1>1, <1>4
  <2> DEFINE c == IF e.pid # None /\ drive[e.letter] # "free" /\ ~Tray!Dead(e.pid)
                    THEN e.pid ELSE None
  <2>3. heap'[o] = [key |-> ks[o], dir |-> e.dir, letter |-> e.letter, mounted |-> c # None,
                    child |-> c]
    BY <2>2 DEF Tray!Resumed, Tray!NewDrive
  <2>4. e.dir \in Dirs /\ e.letter \in Letters /\ e.pid \in Pids \cup {None}
    BY <2>1 DEF EntryRec
  <2>5. c \in Pids \cup {None} /\ (c # None => c = e.pid)
    BY <2>4
  <2>6. saved'[ks[o]] = saved[ks[o]]
    BY <1>1, <1>4, <2>1 DEF Standing
  <2>7. /\ e.pid # None /\ drive[e.letter] # "free" /\ procs[e.pid].phase # "none" => c = e.pid
    BY DEF Tray!Dead
  <2> HIDE DEF c, e
  <2>8. heap'[o] \in DriveRec
    BY <2>1, <2>3, <2>4, <2>5 DEF DriveRec
  <2>9. heap'[o] # None
    BY <2>8, TrayAssumption DEF DriveRec, Tray!Keys
  <2>10. /\ heap'[o].key = ks[o] /\ heap'[o].dir = e.dir /\ heap'[o].letter = e.letter
         /\ heap'[o].child = c
    BY <2>3
  <2>11. heap'[o].mounted = (c # None)
    BY <2>3
  <2>12. heap'[o].mounted <=> heap'[o].child # None
    BY <2>10, <2>11
  <2>13. /\ heap'[o].child # None => heap'[o].child = e.pid
         /\ e.pid # None /\ drive[e.letter] # "free" /\ procs[e.pid].phase # "none" =>
              heap'[o].child = e.pid
    BY <2>5, <2>7, <2>10
  <2> QED
    BY <2>2, <2>6, <2>8, <2>9, <2>10, <2>12, <2>13, Zenon DEF e
<1>5. \A o \in Tray!Objs : ~Standing(ks, o) => heap'[o] = None
  BY <1>1
<1>6. /\ list' \in Seq(Tray!Objs \cup {Tray!Null}) /\ Len(list') = Len(ks)
      /\ \A i \in 1..Len(ks) : list'[i] = IF Standing(ks, i) THEN i ELSE Tray!Null
  <2>1. \A i \in 1..Len(ks) : (IF Standing(ks, i) THEN i ELSE Tray!Null) \in Tray!Objs \cup {Tray!Null}
    BY <1>3
  <2> QED
    BY <1>1, <1>3, <2>1
<1>7. /\ saved' \in [Tray!Keys -> {None} \cup EntryRec]
      /\ \A k \in Tray!Keys : saved'[k] # None => saved'[k] = saved[k] /\ saved[k] # None
  BY <1>1, <1>2 DEF Listing
<1>8. heap' \in [Tray!Objs -> {None} \cup DriveRec]
  BY <1>1, <1>4, <1>5
<1>9. Listing(heap', list', saved')
  <2>1. ASSUME NEW o \in Tray!Objs
        PROVE  heap'[o] # None <=> \E i \in 1..Len(list') : list'[i] = o
    <3>1. o # Tray!Null
      BY NumbersOf
    <3> QED
      BY <1>4, <1>5, <1>6, <3>1 DEF Standing
  <2>2. \A i, j \in 1..Len(list') : list'[i] = list'[j] /\ list'[i] # Tray!Null => i = j
    BY <1>6
  <2>3. ASSUME NEW o \in Tray!Objs, NEW q \in Tray!Objs, heap'[o] # None, heap'[q] # None,
               heap'[o].key = heap'[q].key
        PROVE  o = q
    <3>1. Standing(ks, o) /\ Standing(ks, q)
      BY <1>5, <2>3
    <3>2. ks[o] = ks[q]
      BY <1>4, <2>3, <3>1
    <3> QED
      BY <1>3, <3>1, <3>2 DEF Standing
  <2>4. ASSUME NEW o \in Tray!Objs, heap'[o] # None
        PROVE  /\ saved'[heap'[o].key] # None /\ saved'[heap'[o].key].dir = heap'[o].dir
               /\ saved'[heap'[o].key].letter = heap'[o].letter
    <3>1. Standing(ks, o)
      BY <1>5, <2>4
    <3>2. saved[ks[o]] # None
      BY <1>3, <3>1 DEF Standing
    <3> QED
      BY <1>4, <3>1, <3>2
  <2> QED
    BY <1>6, <1>7, <1>8, <2>1, <2>2, <2>3, <2>4 DEF Listing
<1>10. Commands(heap', frames')
  <2>1. frames' \in Seq(Frame) /\ Len(frames') = 0 /\ 1..Len(frames') = {} /\ 0 <= MaxNested
    BY <1>1, TrayAssumption
  <2>2. \A o \in Tray!Objs : heap'[o] # None =>
          (IF heap'[o].mounted THEN heap'[o].child # None ELSE heap'[o].child = None)
    BY <1>4, <1>5
  <2> QED
    BY <2>1, <2>2 DEF Commands
<1>11. FreeLetters(drive', heap', frames')
  BY <1>1 DEF FreeLetters
<1>12. ASSUME SameDrive(procs, heap, saved) PROVE SameDrive(procs', heap', saved')
  <2>1. \A k \in Tray!Keys : saved[k] # None /\ saved[k].pid # None =>
          Agrees(procs, saved[k].pid, saved[k].dir, saved[k].letter)
    BY <1>12 DEF SameDrive
  <2>2. ASSUME NEW o \in Tray!Objs, heap'[o] # None, heap'[o].child # None
        PROVE  Agrees(procs, heap'[o].child, heap'[o].dir, heap'[o].letter)
    <3>1. Standing(ks, o) /\ ks[o] \in Tray!Keys /\ saved[ks[o]] # None
      BY <1>3, <1>5, <2>2 DEF Standing
    <3> QED
      BY <1>4, <2>1, <2>2, <3>1
  <2> QED
    BY <1>2, <1>7, <2>1, <2>2 DEF SameDrive
<1>13. ASSUME Whole(gui, heap, list, saved), Attended(procs, drive, gui, heap, frames, saved)
       PROVE  /\ Whole(gui', heap', list', saved')
              /\ Attended(procs', drive', gui', heap', frames', saved')
  <2>1. \A k \in Tray!Keys : saved[k] # None => ~Tray!Rejected(k)
    BY <1>13 DEF Whole, Tray!Rejected
  <2>2. \A k \in Tray!Keys : saved[k] # None => \E i \in 1..Len(ks) : ks[i] = k
    <3>1. \A k \in Tray!Keys : saved[k] # None => k \in Tray!Later(0)
      BY TrayAssumption DEF Tray!Later, Tray!Keys
    <3> QED
      BY <1>1, <2>1, <3>1 DEF InOrderFrom
  <2>3. \A i \in 1..Len(ks) : Standing(ks, i)
    BY <1>3, <2>1 DEF Standing
  <2>4. \A k \in Tray!Keys : saved[k] # None =>
          \E o \in Tray!Objs : Standing(ks, o) /\ ks[o] = k /\ heap'[o] # None /\ heap'[o].key = k
    BY <1>3, <1>4, <2>2, <2>3
  <2>5. \A k \in Tray!Keys : saved'[k] = saved[k]
    BY <1>4, <1>7, <2>4
  <2>6. Whole(gui', heap', list', saved')
    <3>1. \A i \in 1..Len(list') : list'[i] # Tray!Null
      BY <1>3, <1>6, <2>3, NumbersOf
    <3>2. \A k \in Tray!Keys : saved'[k] # None =>
            /\ saved'[k].letter # None
            /\ \E o \in Tray!Objs : heap'[o] # None /\ heap'[o].key = k
      BY <1>13, <2>4, <2>5 DEF Whole
    <3>3. \A k, j \in Tray!Keys :
            saved'[k] # None /\ saved'[j] # None /\ saved'[k].dir = saved'[j].dir => k = j
      BY <1>13, <2>5 DEF Whole
    <3> QED
      BY <3>1, <3>2, <3>3 DEF Whole
  <2>7. /\ \A p \in Pids : procs[p].phase # "starting"
        /\ \A p \in Pids : procs[p].phase = "serving" /\ drive[procs[p].letter] = p =>
             Recorded(procs, gui, heap, saved, p)
    BY <1>2, <1>13 DEF Attended, Watched
  <2>8. ASSUME NEW p \in Pids, procs[p].phase = "serving", drive[procs[p].letter] = p
        PROVE  Recorded(procs', gui', heap', saved', p)
    <3>1. PICK k \in Tray!Keys :
            saved[k] = [dir |-> procs[p].dir, letter |-> procs[p].letter, pid |-> p]
      BY <2>7, <2>8 DEF Recorded
    <3>2. /\ saved[k].pid = p /\ saved[k].letter = procs[p].letter
          /\ p # None /\ p # "free"
      BY <3>1, TrayAssumption
    <3>3. saved[k] # None
      <4>1. procs[p].dir \in Dirs /\ procs[p].letter \in Letters
        <5>1. procs[p] # Tray!NoProc
          BY <2>8 DEF Tray!NoProc
        <5> QED
          BY <1>2, <5>1, ProcessIs
      <4>2. saved[k] \in EntryRec
        BY <3>1, <4>1 DEF EntryRec
      <4> QED
        BY <4>2, TrayAssumption DEF EntryRec
    <3>4. PICK o \in Tray!Objs : Standing(ks, o) /\ ks[o] = k /\ heap'[o] # None /\ heap'[o].key = k
      BY <2>4, <3>3
    <3>5. heap'[o].child = p /\ heap'[o].mounted
      BY <1>4, <2>8, <3>2, <3>4
    <3>6. saved'[k] = [dir |-> procs'[p].dir, letter |-> procs'[p].letter, pid |-> p]
      BY <1>2, <2>5, <3>1
    <3> QED
      BY <3>4, <3>5, <3>6 DEF Recorded
  <2> QED
    BY <1>2, <2>6, <2>7, <2>8, AttendedIs
<1> QED
  BY <1>1, <1>2, <1>9, <1>10, <1>11, <1>12, <1>13, StepKeeps

----------------------------------------------------------------------------
(* The invariant, and what it says of the properties.                      *)

\* A step of the tray program.
LEMMA InsideStep == ASSUME TrayInv, "nested" \notin Kinds, Tray!Inside PROVE TrayInv'
<1>1. CASE Tray!Cancel
  BY <1>1, CancelKeeps
<1>2. CASE Tray!MountReturns
  BY <1>2, MountReturnsKeeps
<1>3. CASE Tray!ShowMenu
  BY <1>3, ShowMenuKeeps
<1>4. CASE Tray!Open
  BY <1>4, OpenKeeps
<1>5. CASE Tray!Exit
  BY <1>5, ExitKeeps
<1>6. CASE Tray!Load
  BY <1>6, LoadKeeps
<1>7. ASSUME NEW l \in Letters, Tray!ChooseLetter(l) PROVE TrayInv'
  BY <1>7, ChooseLetterKeeps
<1>8. ASSUME NEW l \in Letters, NEW d \in Dirs, Tray!Add(d, l) PROVE TrayInv'
  BY <1>8, AddKeeps
<1>9. ASSUME NEW p \in Pids, Tray!Spawn(p) PROVE TrayInv'
  BY <1>9, SpawnKeeps
<1>10. ASSUME NEW o \in Tray!Objs, Tray!MenuMount(o) PROVE TrayInv'
  BY <1>10, MenuMountKeeps
<1>11. ASSUME NEW o \in Tray!Objs, Tray!MenuUmount(o) PROVE TrayInv'
  BY <1>11, MenuUmountKeeps
<1> QED
  BY <1>1, <1>2, <1>3, <1>4, <1>5, <1>6, <1>7, <1>8, <1>9, <1>10, <1>11, Zenon DEF Tray!Inside

\* A step of another part leaves the tray program as it is.
LEMMA StutterKeeps == ASSUME TrayInv, UNCHANGED trayVars PROVE TrayInv'
<1>1. /\ procs' = procs /\ drive' = drive /\ gui' = gui /\ heap' = heap /\ list' = list
      /\ frames' = frames /\ saved' = saved /\ mishaps' = mishaps /\ lost' = lost
  BY DEF trayVars
<1> QED
  BY <1>1, Zenon DEF TrayInv

\* At first there is nothing.
LEMMA TrayInvInit == ASSUME Tray!Init PROVE TrayInv
<1>1. /\ procs = [p \in Pids |-> Tray!NoProc] /\ drive = [l \in Letters |-> "free"]
      /\ gui = FALSE /\ lost = FALSE /\ mishaps = {} /\ list = <<>> /\ frames = <<>>
      /\ heap = [o \in Tray!Objs |-> None] /\ saved = [k \in Tray!Keys |-> None]
  BY DEF Tray!Init
<1>2. 1..Len(list) = {} /\ 1..Len(frames) = {} /\ Len(frames) = 0 /\ 0 <= MaxNested
      /\ list \in Seq(Tray!Objs \cup {Tray!Null}) /\ frames \in Seq(Frame)
  BY <1>1, TrayAssumption
<1>3. Listing(heap, list, saved)
  BY <1>1, <1>2 DEF Listing
<1>4. Commands(heap, frames)
  BY <1>1, <1>2 DEF Commands
<1>5. FreeLetters(drive, heap, frames) /\ OwnLetters(procs, drive)
  BY <1>1, <1>2 DEF FreeLetters, OwnLetters
<1>6. SameDrive(procs, heap, saved)
  BY <1>1 DEF SameDrive
<1>7. Whole(gui, heap, list, saved)
  BY <1>1, <1>2 DEF Whole
<1>8. Attended(procs, drive, gui, heap, frames, saved)
  BY <1>1 DEF Attended, Tray!NoProc
<1>9. procs \in [Pids -> {Tray!NoProc} \cup Process]
      /\ drive \in [Letters -> Pids \cup {"free", "dead", "other"}]
  BY <1>1
<1> QED
  BY <1>1, <1>3, <1>4, <1>5, <1>6, <1>7, <1>8, <1>9 DEF TrayInv

\* What the list and the commands point to is there.
LEMMA TrayTypes == ASSUME TrayInv PROVE Tray!DrivesTypeOK
<1>1. /\ Listing(heap, list, saved) /\ Commands(heap, frames)
      /\ procs \in [Pids -> {Tray!NoProc} \cup Process]
      /\ drive \in [Letters -> Pids \cup {"free", "dead", "other"}]
      /\ gui \in BOOLEAN /\ lost \in BOOLEAN
  BY DEF TrayInv
<1>2. ASSUME NEW o \in Tray!Listed \cup {frames[i].obj : i \in DOMAIN frames}
      PROVE  o = Tray!Null \/ heap[o].mounted \in BOOLEAN
  <2>1. SUFFICES ASSUME o # Tray!Null PROVE heap[o] \in DriveRec
    BY DEF DriveRec
  <2>2. CASE o \in Tray!Listed
    BY <1>1, <2>2, ListedIs
  <2>3. ASSUME NEW i \in DOMAIN frames, o = frames[i].obj PROVE heap[o] \in DriveRec
    <3>1. i \in 1..Len(frames)
      BY <1>1, <2>3 DEF Commands
    <3>2. frames[i].at # "choose"
      BY <1>1, <2>1, <2>3, <3>1 DEF Commands
    <3> QED
      BY <1>1, <2>3, <3>1, <3>2, FramesAre
  <2> QED
    BY <2>2, <2>3
<1>3. \A p \in Pids :
        \/ procs[p] = Tray!NoProc
        \/ procs[p] \in [phase : {"starting", "serving", "ending"}, dir : Dirs, letter : Letters]
  BY <1>1 DEF Process
<1> QED
  BY <1>1, <1>2, <1>3, Zenon DEF Tray!DrivesTypeOK

\* Whoever has its drive is waited for or recorded, so the menu of its directory has it.
LEMMA TrayChildKnown == ASSUME TrayInv PROVE Tray!ChildKnown
<1>1. Listing(heap, list, saved) /\ Commands(heap, frames)
  BY DEF TrayInv
<1> SUFFICES ASSUME Untroubled(mishaps), NEW p \in Pids, gui, Tray!Serves(p)
             PROVE  \E o \in Tray!Listed : /\ heap[o].child = p /\ heap[o].dir = procs[p].dir
                                           /\ heap[o].mounted \/ Tray!Waits(o)
  BY DEF Tray!ChildKnown, Untroubled
<1>2. Watched(procs, heap, frames, p) \/ Recorded(procs, gui, heap, saved, p)
  BY DEF TrayInv, Attended, Tray!Serves
<1>3. \A o \in Tray!Objs : heap[o] # None => o \in Tray!Listed
  <2>1. DOMAIN list = 1..Len(list)
    BY <1>1 DEF Listing
  <2> QED
    <3> SUFFICES ASSUME NEW o \in Tray!Objs, heap[o] # None PROVE o \in Tray!Listed
      OBVIOUS
    <3>1. PICK i \in 1..Len(list) : list[i] = o
      BY <1>1 DEF Listing
    <3>2. o # Tray!Null
      BY NumbersOf
    <3> QED
      BY <2>1, <3>1, <3>2 DEF Tray!Listed
<1>4. CASE Watched(procs, heap, frames, p)
  <2>1. PICK i \in 1..Len(frames) : /\ frames[i].at = "wait" /\ heap[frames[i].obj].child = p
                                    /\ heap[frames[i].obj].dir = procs[p].dir
    BY <1>4 DEF Watched
  <2>2. frames[i].obj \in Tray!Objs /\ heap[frames[i].obj] # None
    BY <1>1, <2>1, FramesAre
  <2>3. Tray!Waits(frames[i].obj)
    BY <1>1, <2>1 DEF Commands, Tray!Waits
  <2> QED
    BY <1>3, <2>1, <2>2, <2>3
<1>5. CASE Recorded(procs, gui, heap, saved, p)
  <2>1. PICK k \in Tray!Keys :
          /\ saved[k] = [dir |-> procs[p].dir, letter |-> procs[p].letter, pid |-> p]
          /\ \E o \in Tray!Objs : /\ heap[o] # None /\ heap[o].key = k /\ heap[o].child = p
                                  /\ heap[o].mounted
    BY <1>5 DEF Recorded
  <2>2. PICK o \in Tray!Objs : /\ heap[o] # None /\ heap[o].key = k /\ heap[o].child = p
                               /\ heap[o].mounted
    BY <2>1
  <2>3. heap[o].dir = procs[p].dir
    BY <1>1, <2>1, <2>2 DEF Listing
  <2> QED
    BY <1>3, <2>2, <2>3
<1> QED
  BY <1>2, <1>4, <1>5

\* There is one entry for a directory and one object for an entry, which names one process.
LEMMA TrayOneServer == ASSUME TrayInv PROVE Tray!OneServer
<1>1. Listing(heap, list, saved) /\ Commands(heap, frames)
  BY DEF TrayInv
<1> SUFFICES ASSUME Untroubled(mishaps), NEW p \in Pids, NEW q \in Pids,
                    Tray!Serves(p), Tray!Serves(q), procs[p].dir = procs[q].dir
             PROVE  p = q
  BY DEF Tray!OneServer, Untroubled
<1>2. Whole(gui, heap, list, saved) /\ Attended(procs, drive, gui, heap, frames, saved)
  BY DEF TrayInv
\* The object or, when the program does not run, the entry that names it.
<1> DEFINE Names(x, k) ==
             /\ k \in Tray!Keys /\ saved[k] # None /\ saved[k].dir = procs[x].dir
             /\ \/ \E o \in Tray!Objs : heap[o] # None /\ heap[o].key = k /\ heap[o].child = x
                \/ ~gui /\ saved[k].pid = x
<1>3. ASSUME NEW x \in Pids, Tray!Serves(x) PROVE \E k : Names(x, k)
  <2>1. Watched(procs, heap, frames, x) \/ Recorded(procs, gui, heap, saved, x)
    BY <1>2, <1>3 DEF Attended, Tray!Serves
  <2>2. CASE Watched(procs, heap, frames, x)
    <3>1. PICK i \in 1..Len(frames) : /\ frames[i].at = "wait" /\ heap[frames[i].obj].child = x
                                      /\ heap[frames[i].obj].dir = procs[x].dir
      BY <2>2 DEF Watched
    <3> DEFINE o == frames[i].obj
    <3>2. o \in Tray!Objs /\ heap[o] # None /\ heap[o] \in DriveRec
      BY <1>1, <3>1, FramesAre
    <3>3. heap[o].key \in Tray!Keys /\ saved[heap[o].key] # None /\ saved[heap[o].key].dir = heap[o].dir
      BY <1>1, <3>2 DEF DriveRec, Listing
    <3>4. Names(x, heap[o].key)
      BY <3>1, <3>2, <3>3
    <3> QED
      BY <3>4
  <2>3. CASE Recorded(procs, gui, heap, saved, x)
    <3>1. PICK k \in Tray!Keys :
            /\ saved[k] = [dir |-> procs[x].dir, letter |-> procs[x].letter, pid |-> x]
            /\ gui => \E o \in Tray!Objs : heap[o] # None /\ heap[o].key = k /\ heap[o].child = x
      BY <2>3 DEF Recorded
    <3>2. saved[k] # None
      <4>1. procs[x] # Tray!NoProc /\ procs \in Procs
        BY <1>3 DEF Tray!Serves, Tray!NoProc, TrayInv, Procs
      <4>2. procs[x].dir \in Dirs /\ procs[x].letter \in Letters
        BY <4>1, ProcessIs
      <4>3. saved[k] \in EntryRec
        BY <3>1, <4>2 DEF EntryRec
      <4> QED
        BY <4>3, TrayAssumption DEF EntryRec
    <3>3. Names(x, k)
      BY <3>1, <3>2
    <3> QED
      BY <3>3
  <2> QED
    BY <2>1, <2>2, <2>3
<1>4. PICK k : Names(p, k)
  <2> HIDE DEF Names
  <2> QED
    BY <1>3
<1>5. PICK j : Names(q, j)
  <2> HIDE DEF Names
  <2> QED
    BY <1>3
<1>6. k = j
  BY <1>2, <1>4, <1>5 DEF Whole
<1>7. CASE ~gui
  <2>1. list = <<>> /\ \A o \in Tray!Objs : heap[o] = None
    BY <1>1, <1>7 DEF TrayInv, Listing
  <2> QED
    BY <1>4, <1>5, <1>6, <2>1
<1>8. CASE gui
  <2>1. PICK o \in Tray!Objs : heap[o] # None /\ heap[o].key = k /\ heap[o].child = p
    BY <1>4, <1>8
  <2>2. PICK r \in Tray!Objs : heap[r] # None /\ heap[r].key = j /\ heap[r].child = q
    BY <1>5, <1>8
  <2>3. o = r
    BY <1>1, <1>6, <2>1, <2>2 DEF Listing
  <2> QED
    BY <2>1, <2>2, <2>3
<1> QED
  BY <1>7, <1>8

\* What is in the list names a process of its directory and letter, if it names one.
LEMMA TrayMenuTrue == ASSUME TrayInv PROVE Tray!MenuTrue
<1>1. Listing(heap, list, saved)
  BY DEF TrayInv
<1> SUFFICES ASSUME NoneReused(mishaps), NEW o \in Tray!Listed, heap[o].child # None,
                    Tray!Serves(heap[o].child)
             PROVE  /\ procs[heap[o].child].dir = heap[o].dir
                    /\ procs[heap[o].child].letter = heap[o].letter
  BY Zenon DEF Tray!MenuTrue, NoneReused
<1>2. o \in Tray!Objs /\ heap[o] # None
  BY <1>1, ListedIs
<1>3. Agrees(procs, heap[o].child, heap[o].dir, heap[o].letter)
  BY <1>2 DEF TrayInv, SameDrive
<1> QED
  BY <1>3 DEF Agrees, Tray!Serves

\* The inductive invariant of the tray program and its processes (drives.cpp:33-346,
\* docanfuse.cpp:443-733).
THEOREM TrayInvariant == ASSUME "nested" \notin Kinds PROVE MCSpec => []TrayInv
<1>1. MCInit => TrayInv
  BY TrayInvInit DEF MCInit
<1>2. TrayInv /\ [MCNext]_<<part, vars, trayVars>> => TrayInv'
  <2> SUFFICES ASSUME TrayInv, [MCNext]_<<part, vars, trayVars>> PROVE TrayInv'
    OBVIOUS
  <2>1. CASE UNCHANGED trayVars
    BY <2>1, StutterKeeps
  <2>2. CASE Tray!Next
    BY <2>2, OutsideStep, InsideStep DEF Tray!Next
  <2> QED
    BY <2>1, <2>2 DEF MCNext
<1> QED
  BY <1>1, <1>2, PTL DEF MCSpec

\* The menu says what is mounted, no volume is mounted twice, and no process takes down
\* the drive of another, whatever the directories, letters and processes and however many
\* entries and commands, of behaviours without "nested" (drives.cpp:33-346,
\* docanfuse.cpp:443-733).
THEOREM DrivesAlwaysStand == ASSUME "nested" \notin Kinds PROVE MCSpec => []DrivesStand
<1>1. TrayInv => DrivesStand
  <2> SUFFICES ASSUME TrayInv PROVE DrivesStand
    OBVIOUS
  <2>1. Tray!OwnDrive
    BY DEF TrayInv, Tray!OwnDrive, NoneTaken
  <2> QED
    BY <2>1, TrayTypes, TrayChildKnown, TrayOneServer, TrayMenuTrue DEF DrivesStand
<1> QED
  BY <1>1, TrayInvariant, PTL
=============================================================================
