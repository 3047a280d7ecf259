------------------------------- MODULE Drives -------------------------------
(***************************************************************************)
(* The tray program of win/, which keeps a list of volumes, mounts them in *)
(* encfs processes and finds these again when it is started anew, and      *)
(* those processes, from main_encfs to fuse_teardown.  The program has one *)
(* thread, but its dialogues let a command begin while another waits in    *)
(* one: frames are the commands on its stack.                              *)
(***************************************************************************)
EXTENDS Integers, Sequences, FiniteSets

CONSTANTS Dirs, Letters, Pids, None,
          MaxKeys,    \* bound: the entries of the registry
          MaxNested,  \* bound: the commands begun inside one another
          Kinds       \* the mishaps that are let happen, one kind in a behaviour

VARIABLES procs,   \* the encfs processes: phase, directory, letter
          drive,   \* what has each letter: a process, or free, dead or other
          gui,     \* whether the tray program runs
          heap,    \* its Drive objects
          list,    \* drives: the objects in the menu
          frames,  \* the commands that have begun: object, place, openAlreadyOpened
          saved,   \* the registry
          mishaps, \* what went wrong, of what the properties allow for
          lost     \* whether a process took down a drive that was not its own

vars == <<procs, drive, gui, heap, list, frames, saved, mishaps, lost>>
outside == <<procs, drive, lost>>
inside == <<gui, heap, list, frames, saved>>

Objs == 1..(MaxKeys + MaxNested)
Keys == 1..MaxKeys
Null == 0 \* a null pointer in drives
NoProc == [phase |-> "none", dir |-> None, letter |-> None]

Init ==
    /\ procs = [p \in Pids |-> NoProc]
    /\ drive = [l \in Letters |-> "free"]
    /\ gui = FALSE /\ heap = [o \in Objs |-> None] /\ list = <<>> /\ frames = <<>>
    /\ saved = [k \in Keys |-> None]
    /\ mishaps = {} /\ lost = FALSE

Mishap(kinds) ==
    /\ mishaps' = mishaps \cup kinds
    /\ mishaps' \subseteq Kinds /\ Cardinality(mishaps') <= 1
Calm == UNCHANGED mishaps

----------------------------------------------------------------------------
(* An encfs process.                                                       *)

Dead(p) == procs[p].phase = "none"

\* It is no more; a drive it has stays until Dokan misses it.
Gone(p) ==
    /\ procs' = [procs EXCEPT ![p] = NoProc]
    /\ drive' = [l \in Letters |-> IF drive[l] = p THEN "dead" ELSE drive[l]]

\* A wrong password, options nobody knows or no Dokan: main returns before there was
\* a drive, and fuse_unmount has no function to call.
MainFails(p) ==
    /\ procs[p].phase = "starting"
    /\ Gone(p)
    /\ Calm /\ UNCHANGED <<inside, lost>>

\* Whether anyone but p counts on the letter to be free, or is about to take down
\* what has it.
Counted(l, p) ==
    \/ \E q \in Pids \ {p} : procs[q].letter = l
    \/ \E i \in DOMAIN frames : frames[i].at = "password" /\ heap[frames[i].obj].letter = l

\* do_fuse_loop: DokanMain gets the letter, and returns at once if it is taken.
DokanMain(p) ==
    LET l == procs[p].letter
    IN /\ procs[p].phase = "starting"
       /\ \/ /\ drive[l] = "free"
             /\ drive' = [drive EXCEPT ![l] = p]
             /\ procs' = [procs EXCEPT ![p].phase = "serving"]
             /\ Mishap(IF Counted(l, p) THEN {"taken"} ELSE {})
          \/ /\ drive[l] # "free"
             /\ procs' = [procs EXCEPT ![p].phase = "ending"]
             /\ Calm /\ UNCHANGED drive
       /\ UNCHANGED <<inside, lost>>

\* The drive was taken down: FuseUnmount, and DokanMain returns.
Unmounted(p) ==
    /\ procs[p].phase = "serving"
    /\ drive[procs[p].letter] # p
    /\ procs' = [procs EXCEPT ![p].phase = "ending"]
    /\ Calm /\ UNCHANGED <<inside, drive, lost>>

\* fuse_unmount takes down the drive of Dokan's that has the letter, whosoever it is.
FuseUnmount(l) == drive' = [drive EXCEPT ![l] = IF @ = "other" THEN @ ELSE "free"]

\* fuse_teardown, however DokanMain ended.
Teardown(p) ==
    LET l == procs[p].letter
    IN /\ procs[p].phase = "ending"
       /\ procs' = [procs EXCEPT ![p] = NoProc]
       /\ FuseUnmount(l)
       /\ lost' = (lost \/ drive[l] \in Pids)
       /\ Calm /\ UNCHANGED inside

\* It crashes or somebody ends it.
Crash(p) == ~Dead(p) /\ Gone(p) /\ Calm /\ UNCHANGED <<inside, lost>>

----------------------------------------------------------------------------
(* Drives besides.                                                         *)

\* The user ejects it, Dokan's driver gives up waiting for its process, or a drive
\* of another program is taken out.
DriveGoes(l) ==
    /\ drive[l] # "free"
    /\ drive' = [drive EXCEPT ![l] = "free"]
    /\ Calm /\ UNCHANGED <<inside, procs, lost>>

\* Another program's drive takes a letter.
OtherComes(l) ==
    /\ drive[l] = "free"
    /\ drive' = [drive EXCEPT ![l] = "other"]
    /\ Mishap(IF Counted(l, None) THEN {"taken"} ELSE {})
    /\ UNCHANGED <<inside, procs, lost>>

Outside == \/ \E p \in Pids : \/ MainFails(p) \/ DokanMain(p) \/ Unmounted(p)
                              \/ Teardown(p) \/ Crash(p)
           \/ \E l \in Letters : DriveGoes(l) \/ OtherComes(l)

----------------------------------------------------------------------------
(* Drive objects and the registry.                                         *)

NewDrive(k, d, l, p) ==
    [key |-> k, dir |-> d, letter |-> l, mounted |-> p # None, child |-> p]
Entry(r) == [dir |-> r.dir, letter |-> r.letter, pid |-> r.child]

\* (Mutant: the process is left out.)
SaveNoPid(s, r) == [s EXCEPT ![r.key] = [Entry(r) EXCEPT !.pid = None]]

Save(s, r) == [s EXCEPT ![r.key] = Entry(r)]

Listed == {list[i] : i \in DOMAIN list} \ {Null}

\* Drives::Delete; an object is in the list once.
Without(ls, o) ==
    IF \E i \in DOMAIN ls : ls[i] = o
      THEN LET k == CHOOSE i \in DOMAIN ls : ls[i] = o
           IN SubSeq(ls, 1, k - 1) \o SubSeq(ls, k + 1, Len(ls))
      ELSE ls

\* shared_ptr: an object is there while the list or a command has it.
SetDrives(h, ls, fs) ==
    /\ list' = ls /\ frames' = fs
    /\ heap' = [o \in Objs |-> IF \/ \E i \in DOMAIN ls : ls[i] = o
                                  \/ \E i \in DOMAIN fs : fs[i].obj = o
                                 THEN h[o] ELSE None]

\* CheckMounted; it saves when it finds the process ended.
Ended(r) == r.mounted /\ r.child # None /\ Dead(r.child)
CheckMounted(r) ==
    IF r.mounted /\ (r.child = None \/ Ended(r)) THEN [r EXCEPT !.mounted = FALSE, !.child = None]
    ELSE r
Checked(os) == [o \in Objs |-> IF o \in os THEN CheckMounted(heap[o]) ELSE heap[o]]
SavedChecked(os) ==
    LET ended(k) == {o \in os : heap[o].key = k /\ Ended(heap[o])}
    IN [k \in Keys |-> IF ended(k) = {} THEN saved[k]
                      ELSE Entry(CheckMounted(heap[CHOOSE o \in ended(k) : TRUE]))]

Depth == Len(frames)
Top == frames[Depth]
Below == SubSeq(frames, 1, Depth - 1)
\* The program takes commands: it is in no command, or in a dialogue of one.
Pumps == gui /\ (frames # <<>> => Top.at # "wait")
At(place) == gui /\ frames # <<>> /\ Top.at = place
Opening == \E i \in DOMAIN frames : frames[i].open

----------------------------------------------------------------------------
(* Mount.                                                                  *)

\* From the check of the letter to the dialogue that asks for another or for the
\* password; when the directory is gone the drive may be taken off the list.
Mount(o, h, ls, below, open, s) ==
    \/ /\ drive[h[o].letter] # "free"
       /\ SetDrives(h, ls, Append(below, [obj |-> o, at |-> "letter", open |-> open]))
       /\ saved' = s
    \/ /\ drive[h[o].letter] = "free"
       /\ \/ /\ SetDrives(h, ls, Append(below, [obj |-> o, at |-> "password", open |-> open]))
             /\ saved' = s
          \/ /\ SetDrives(h, Without(ls, o), below)
             /\ saved' = [s EXCEPT ![h[o].key] = None]

\* SelectFreeDrive and GetPassword may be cancelled; so may what comes before Add.
Cancel ==
    /\ Pumps /\ frames # <<>>
    /\ SetDrives(heap, list, Below)
    /\ Calm /\ UNCHANGED <<outside, gui, saved>>

ChooseLetter(l) ==
    LET h == [heap EXCEPT ![Top.obj].letter = l]
    IN /\ At("letter")
       /\ Mount(Top.obj, h, list, Below, Top.open, Save(saved, h[Top.obj]))
       /\ Calm /\ UNCHANGED <<outside, gui>>

\* CreateSubProcess.  A process identifier is not used again while a handle is open.
Spawn(p) ==
    LET r == heap[Top.obj]
    IN /\ At("password")
       /\ Dead(p) /\ \A o \in Objs : heap[o] # None => heap[o].child # p
       /\ procs' = [procs EXCEPT ![p] = [phase |-> "starting", dir |-> r.dir, letter |-> r.letter]]
       /\ heap' = [heap EXCEPT ![Top.obj] = [r EXCEPT !.mounted = FALSE, !.child = p]]
       /\ frames' = [frames EXCEPT ![Depth].at = "wait"]
       /\ Mishap(IF \E k \in Keys : saved[k] # None /\ saved[k].pid = p THEN {"reused"} ELSE {})
       /\ UNCHANGED <<drive, lost, gui, list, saved>>

\* The wait for the drive: there is one, the process ended, or ten seconds are over.
MountReturns ==
    LET o == Top.obj
        r == heap[o]
        done == [r EXCEPT !.mounted = TRUE]
    IN /\ At("wait")
       /\ \/ /\ SetDrives([heap EXCEPT ![o] = done], list, Below)
             /\ saved' = Save(saved, done)
             /\ Mishap(IF drive[r.letter] = "free" /\ ~Dead(r.child) THEN {"slow"} ELSE {})
          \/ /\ Dead(r.child)
             /\ SetDrives([heap EXCEPT ![o].child = None], list, Below)
             /\ Calm /\ UNCHANGED saved
       /\ UNCHANGED <<outside, gui>>

----------------------------------------------------------------------------
(* The commands.                                                           *)

\* AddMenus looks at every drive before the menu is shown; a null pointer ends it.
ShowMenu ==
    /\ Pumps
    /\ \/ /\ \A i \in DOMAIN list : list[i] # Null
          /\ heap' = Checked(Listed)
          /\ saved' = SavedChecked(Listed)
          /\ UNCHANGED <<gui, list, frames>>
       \/ /\ \E i \in DOMAIN list : list[i] = Null
          /\ gui' = FALSE /\ SetDrives(heap, <<>>, <<>>)
          /\ UNCHANGED saved
    /\ Calm /\ UNCHANGED outside

MenuMount(o) ==
    /\ Pumps /\ Depth < MaxNested
    /\ o \in Listed /\ ~heap[o].mounted
    /\ Mount(o, heap, list, frames, FALSE, saved)
    /\ Mishap(IF \E i \in DOMAIN frames : frames[i].obj # Null /\ heap[frames[i].obj].key = heap[o].key
                THEN {"nested"} ELSE {})
    /\ UNCHANGED <<outside, gui>>

\* Umount; fuse_unmount without a channel does nothing, so the process is ended, by
\* Ctrl-C or by force, and whether the last check notices is a matter of time.
MenuUmount(o) ==
    /\ Pumps
    /\ o \in Listed /\ heap[o].mounted
    /\ \/ /\ ~CheckMounted(heap[o]).mounted
          /\ heap' = Checked({o}) /\ saved' = SavedChecked({o})
          /\ UNCHANGED <<procs, drive>>
       \/ /\ CheckMounted(heap[o]).mounted
          /\ Gone(heap[o].child)
          /\ LET r == [heap[o] EXCEPT !.mounted = FALSE, !.child = None]
             IN \/ heap' = [heap EXCEPT ![o] = r] /\ saved' = Save(saved, r)
                \/ UNCHANGED <<heap, saved>>
    /\ Calm /\ UNCHANGED <<lost, gui, list, frames>>

\* OpenOrCreate, which does not begin inside itself.
Open ==
    /\ Pumps /\ Depth < MaxNested /\ ~Opening
    /\ frames' = Append(frames, [obj |-> Null, at |-> "choose", open |-> TRUE])
    /\ Calm /\ UNCHANGED <<outside, gui, heap, list, saved>>

Unused(s) == {k \in Keys : s[k] = None /\ \A j \in 1..(k - 1) : s[j] # None}

\* Drives::Add looks at the i-th drive: none before it is of the directory, and no null
\* pointer has ended the program.
Reaches(d, i) == \A j \in 1..(i - 1) : list[j] # Null /\ heap[list[j]].dir # d

\* Add, and the mount that follows.  A drive of the directory that is not mounted is
\* replaced; one that is stays, and nothing more is done.
Add(d, l) ==
    LET o == CHOOSE x \in Objs : heap[x] = None
        AddTo(ls, k) == LET r == NewDrive(k, d, l, None)
                        IN Mount(o, [heap EXCEPT ![o] = r], ls, Below, TRUE, Save(saved, r))
        again == \E j \in 1..(Depth - 1) : heap[frames[j].obj].dir = d
    IN /\ At("choose")
       /\ \/ \E i \in DOMAIN list :
                /\ Reaches(d, i) /\ list[i] # Null /\ heap[list[i]].dir = d
                /\ \/ /\ heap[list[i]].mounted
                      /\ SetDrives(heap, list, Below) /\ Calm /\ UNCHANGED saved
                   \/ /\ ~heap[list[i]].mounted
                      /\ AddTo([list EXCEPT ![i] = o], heap[list[i]].key)
                      /\ Mishap(IF again THEN {"nested"} ELSE {})
          \/ /\ Reaches(d, Len(list) + 1)
             /\ \E k \in Unused(saved) : AddTo(Append(list, o), k)
             /\ Calm
       /\ UNCHANGED <<outside, gui>>

\* The program ends, by its menu or, at any time, without being asked; a new entry
\* may then be without its letter.
Exit ==
    /\ gui /\ gui' = FALSE
    /\ SetDrives(heap, <<>>, <<>>)
    /\ \/ UNCHANGED saved /\ Mishap(IF Pumps THEN {} ELSE {"killed"})
       \/ /\ At("choose") /\ Mishap({"torn"})
          /\ \E d \in Dirs, k \in Unused(saved) :
                /\ \A i \in DOMAIN list : list[i] # Null /\ heap[list[i]].dir # d
                /\ saved' = [saved EXCEPT ![k] = [dir |-> d, letter |-> None, pid |-> None]]
    /\ UNCHANGED outside

\* Config::Enum: the entries in order, by their number; when NewDrive deletes one, which
\* leaves a null pointer, the one after it has its number and is passed over.
Rejected(k) == saved[k].letter = None
Later(k) == {j \in Keys : j > k /\ saved[j] # None}
After(k) == CHOOSE j \in Later(k) : \A i \in Later(k) : j <= i
Enumerated ==
    LET from[k \in 0..MaxKeys] ==
          IF Later(k) = {} THEN <<>>
          ELSE LET n == After(k)
               IN <<n>> \o (IF ~Rejected(n) THEN from[n]
                            ELSE IF Later(n) = {} THEN <<>> ELSE from[After(n)])
    IN from[0]

\* Drive::Load and the constructor: the process of an entry is taken for the one that has
\* its identifier now, if the letter is in use and it is an encfs process.
Resumed(k) ==
    LET e == saved[k]
        running == e.pid # None /\ drive[e.letter] # "free" /\ ~Dead(e.pid)
    IN NewDrive(k, e.dir, e.letter, IF running THEN e.pid ELSE None)

\* Drives::Load, when the program starts.
Load ==
    LET ks == Enumerated
        Stands(i) == i \in DOMAIN ks /\ ~Rejected(ks[i])
    IN /\ ~gui
       /\ gui' = TRUE
       /\ list' = [i \in DOMAIN ks |-> IF Stands(i) THEN i ELSE Null]
       /\ heap' = [o \in Objs |-> IF Stands(o) THEN Resumed(ks[o]) ELSE None]
       /\ frames' = <<>>
       /\ saved' = [k \in Keys |-> IF \E i \in DOMAIN ks : ks[i] = k /\ Rejected(k)
                                     THEN None ELSE saved[k]]
       /\ Calm /\ UNCHANGED outside

Inside == \/ Cancel \/ MountReturns \/ ShowMenu \/ Open \/ Exit \/ Load
          \/ \E l \in Letters : ChooseLetter(l) \/ \E d \in Dirs : Add(d, l)
          \/ \E p \in Pids : Spawn(p)
          \/ \E o \in Objs : MenuMount(o) \/ MenuUmount(o)

Next == Outside \/ Inside

Spec == Init /\ [][Next]_vars

----------------------------------------------------------------------------
(* Properties.  They are stated of what happens without certain mishaps:   *)
(*                                                                         *)
(*   taken   a letter is taken while somebody counts on it to be free      *)
(*   nested  a volume is mounted by a command inside one that mounts it    *)
(*   slow    the wait for the drive ends before the process is done        *)
(*   killed  the program ends before it saved what it started              *)
(*   torn    it ends while it saves a new entry                            *)
(*   reused  a process gets the identifier an old entry still has          *)

Serves(p) == procs[p].phase = "serving" /\ drive[procs[p].letter] = p
Waits(o) == \E i \in DOMAIN frames : frames[i].obj = o /\ frames[i].at = "wait"

\* Every variable has its type, and what the list and the commands point to is there.
DrivesTypeOK ==
    /\ \A p \in Pids :
          \/ procs[p] = NoProc
          \/ procs[p] \in [phase : {"starting", "serving", "ending"}, dir : Dirs, letter : Letters]
    /\ drive \in [Letters -> Pids \cup {"free", "dead", "other"}]
    /\ gui \in BOOLEAN /\ lost \in BOOLEAN
    /\ \A o \in Listed \cup {frames[i].obj : i \in DOMAIN frames} :
          o = Null \/ heap[o].mounted \in BOOLEAN

\* A process that has its drive can be unmounted from the menu of its directory, or the
\* command that started it still waits for it; also after the program was started anew
\* (drives.cpp:33-116, 159-245).
ChildKnown ==
    mishaps \cap {"taken", "nested", "slow", "killed", "torn"} = {} =>
        \A p \in Pids : gui /\ Serves(p) =>
            \E o \in Listed : /\ heap[o].child = p /\ heap[o].dir = procs[p].dir
                              /\ heap[o].mounted \/ Waits(o)

\* No directory is served by two processes, which would each have their own idea of its
\* files (drives.cpp:33-116, 325-346).
OneServer ==
    mishaps \cap {"taken", "nested", "slow", "killed", "torn"} = {} =>
        \A p, q \in Pids : Serves(p) /\ Serves(q) /\ procs[p].dir = procs[q].dir => p = q

\* No process takes down the drive of another when it ends (docanfuse.cpp:688-697).
OwnDrive == "taken" \notin mishaps => ~lost

\* What is in the menu as mounted is what is unmounted by it (drives.cpp:192-245).
MenuTrue ==
    mishaps \cap {"nested", "reused"} = {} =>
        \A o \in Listed : heap[o].child # None /\ Serves(heap[o].child) =>
            /\ procs[heap[o].child].dir = heap[o].dir
            /\ procs[heap[o].child].letter = heap[o].letter
=============================================================================
