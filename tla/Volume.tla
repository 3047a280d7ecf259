------------------------------- MODULE Volume -------------------------------
(***************************************************************************)
(* The configuration of a volume: the file that holds its options and its  *)
(* volume key, encoded with the user's password.  Processes read it to     *)
(* mount the volume (encfs, encfsctl), replace it to change the password   *)
(* (encfsctl passwd) or make a new one where they find none (encfs, the    *)
(* tray program).  Nothing locks the file; a V6 file is emptied before it  *)
(* is written, and each step may be a process's last.                      *)
(***************************************************************************)
EXTENDS Naturals, Sequences

CONSTANTS Procs,    \* processes
          Words,    \* passwords
          Keys,     \* volume keys, as newRandomKey makes them
          NoKey,    \* none of them: what a wrong password decodes
          Options,  \* sets of options, as records
          Absent,   \* what a file can be besides a configuration: not there,
          Broken,   \* not to be parsed,
          Unsupported,  \* or of a type without a load function, of which nothing is read
          Missing   \* what readConfig says of the others: Config_None

VARIABLES disk,     \* the file in each place
          env,      \* the places an environment variable overrides
          proc,     \* what each process is doing
          data,     \* the key and options of the files in the volume
          word,     \* the password its user was last told to be in force
          mishaps   \* what went wrong so far

vars == <<disk, env, proc, data, word, mishaps>>

----------------------------------------------------------------------------
(* Configurations.                                                         *)

\* In the order they are looked for.  "old" is for versions no longer supported.
Order == <<"v6", "v5", "v4", "old">>
Places == {Order[i] : i \in 1..Len(Order)}
Overridable == {"v6", "v5"}

Plain == [chained |-> FALSE, unique |-> FALSE, external |-> FALSE, mac |-> FALSE]

\* What the three modes of creation make.  (Mutant: --reverse is not looked at.)
StandardAnyway(rev) == [Plain EXCEPT !.chained = TRUE, !.unique = TRUE]
Standard(rev) == [Plain EXCEPT !.chained = ~rev, !.unique = ~rev]
Paranoia == [chained |-> TRUE, unique |-> TRUE, external |-> TRUE, mac |-> TRUE]

\* recent: the subversion has the fields of the salt; salted: the fields are there
\* and the key was encoded with them; known: this build has its cipher and naming.
Configs == [key : Keys, word : Words, recent : BOOLEAN, salted : BOOLEAN,
            known : BOOLEAN, opts : Options]

\* A key or a file that is none is not one; every mode of creation makes options.
ASSUME VolumeAssumption ==
    /\ NoKey \notin Keys
    /\ Options \subseteq [chained : BOOLEAN, unique : BOOLEAN, external : BOOLEAN, mac : BOOLEAN]
    /\ {Plain, Standard(FALSE), Paranoia} \subseteq Options
    /\ {Absent, Broken, Unsupported, Missing} \cap Configs = {}
    /\ Missing # Unsupported /\ Absent \notin {Broken, Unsupported}

Present(pl) == pl \in env \/ disk[pl] # Absent

\* Without the fields of the salt in its subversion a file that has them does not
\* parse, for boost expects the end of the element there.
Loads(c) == c \in Configs /\ (c.salted => c.recent)

\* What the file in a place says: a V4 file has no options, and they are all off.
Contents(pl) == IF pl = "v4" THEN [disk[pl] EXCEPT !.opts = Plain] ELSE disk[pl]

\* readConfig: the first place that is there decides, and a file that does not load
\* is as good as none.
Found ==
    LET here == {i \in 1..Len(Order) : Present(Order[i])}
        first == CHOOSE i \in here : \A j \in here : i <= j
    IN IF here = {} THEN "none" ELSE Order[first]
\* (Mutant: nor is one that this build cannot use.)
ConfigUsable ==
    IF Found = "none" THEN Missing
    ELSE IF Found = "old" THEN Unsupported
    ELSE IF Loads(disk[Found]) /\ disk[Found].known THEN Contents(Found) ELSE Missing
Config ==
    IF Found = "none" THEN Missing
    ELSE IF Found = "old" THEN Unsupported
    ELSE IF Loads(disk[Found]) THEN Contents(Found) ELSE Missing

\* What the user may choose by hand.
Manual(rev) ==
    {o \in Options : /\ rev => o = Plain
                     /\ o.external => o.chained /\ o.unique}
Choices(rev) ==
    {Standard(rev)} \cup (IF rev THEN {} ELSE {Paranoia}) \cup Manual(rev)
\* The tray program has a box to tick.
GuiChoices == {Standard(FALSE), Paranoia}

\* The key encoded anew with another password: from V6 on with a salt.  The
\* subversion stays what it was.  (Mutant: with a salt in every version.)
ReencodedSalted(c, place, w) == [c EXCEPT !.word = w, !.salted = TRUE]
Reencoded(c, place, w) == [c EXCEPT !.word = w, !.salted = (place = "v6")]

----------------------------------------------------------------------------
(* Processes.                                                              *)

\* conf is the configuration read, or to be saved; key the volume key in hand.
NoProc == [pc |-> "idle", op |-> "none", rev |-> FALSE, conf |-> Missing,
           place |-> "none", key |-> NoKey]

\* On its way to save.
MaySave(q) ==
    \/ proc[q].pc \in {"create", "knows", "save", "saving"}
    \/ proc[q].op = "passwd" /\ proc[q].pc = "loaded"
Overlaps(p) == \E q \in Procs \ {p} : MaySave(q)
Note(what) == mishaps' = mishaps \cup what

To(p, r) == proc' = [proc EXCEPT ![p] = r]
End(p) == To(p, NoProc) /\ UNCHANGED <<disk, env, data, word, mishaps>>

\* What a process keeps of the configuration once the volume is mounted.
Mounted(p, k) == [NoProc EXCEPT !.pc = "mounted", !.op = proc[p].op, !.key = k]

Initial(c) == c \in Configs /\ Loads(c) /\ (c.opts.external => c.opts.chained /\ c.opts.unique)
Init ==
    /\ env \in SUBSET Overridable
    /\ disk \in [Places -> Configs \cup {Absent, Broken, Unsupported}]
    /\ \A pl \in Places : disk[pl] \in Configs =>
          /\ pl # "old" /\ Initial(disk[pl])
          /\ disk[pl].salted => pl = "v6"
          /\ disk[pl].recent => disk[pl].salted
          /\ pl = "v4" => disk[pl].opts = Plain
    /\ \A pl \in Places \ {"old"} : disk[pl] # Unsupported
    /\ disk["old"] # Broken
    /\ proc = [p \in Procs |-> NoProc]
    /\ LET c == Config IN
         /\ data = IF c \in Configs THEN [key |-> c.key, opts |-> c.opts]
                   ELSE [key |-> NoKey, opts |-> Plain]
         /\ word \in Words /\ (c \in Configs => word = c.word)
    /\ mishaps = {}

\* readConfig, by encfs (which with --anykey takes whatever key the password gives)
\* and encfsctl passwd.  The other commands of encfsctl are an --anykey that stops at
\* "create".
Start(p, op, rev) ==
    /\ proc[p].pc = "idle"
    /\ rev => op \in {"mount", "anykey"}
    /\ Note(IF Overlaps(p) THEN {"overlap"} ELSE {})
    /\ LET r == [NoProc EXCEPT !.op = op, !.rev = rev, !.conf = Config, !.place = Found] IN
       IF Config = Missing
       THEN op # "passwd" /\ To(p, [r EXCEPT !.pc = "create", !.place = "v6"])
       ELSE To(p, [r EXCEPT !.pc = "loaded"])
    /\ UNCHANGED <<disk, env, data, word>>

\* The tray program: a volume that is there is mounted by a process it starts.
OpenOrCreate(p) ==
    /\ proc[p].pc = "idle" /\ Config = Missing
    /\ Note(IF Overlaps(p) THEN {"overlap"} ELSE {})
    /\ To(p, [NoProc EXCEPT !.pc = "create", !.op = "gui", !.place = "v6"])
    /\ UNCHANGED <<disk, env, data, word>>

\* initFS.  Options that do not go with --reverse, a cipher or a naming this build
\* has not, a password that is not typed or does not decode the key: End.
Suits(p) ==
    /\ proc[p].conf # Unsupported
    /\ proc[p].conf.known
    /\ proc[p].rev => proc[p].conf.opts = Plain
\* readKey.
ReadKey(c, w, check) == IF c.word = w THEN {c.key} ELSE IF check THEN {} ELSE {NoKey}

Mount(p) ==
    /\ proc[p].pc = "loaded" /\ proc[p].op # "passwd"
    /\ Suits(p)
    /\ \E w \in Words : \E k \in ReadKey(proc[p].conf, w, proc[p].op # "anykey") :
         To(p, Mounted(p, k))
    /\ UNCHANGED <<disk, env, data, word, mishaps>>

\* do_chpasswd, with the present password and then with the new one.
PasswdCheck(p) ==
    /\ proc[p].pc = "loaded" /\ proc[p].op = "passwd"
    /\ proc[p].conf # Unsupported /\ proc[p].conf.known
    /\ \E w \in Words : \E k \in ReadKey(proc[p].conf, w, TRUE) :
         To(p, [proc[p] EXCEPT !.pc = "knows", !.key = k])
    /\ UNCHANGED <<disk, env, data, word, mishaps>>

\* (Mutant: the new key is made where the old one should be encoded.)
NewPasswordKeyless(c, k, place, w) == Reencoded([c EXCEPT !.key = CHOOSE j \in Keys : j # k], place, w)
NewPassword(c, k, place, w) == Reencoded([c EXCEPT !.key = k], place, w)

PasswdNew(p) ==
    /\ proc[p].pc = "knows"
    /\ \E w \in Words :
         To(p, [proc[p] EXCEPT !.pc = "save",
                  !.conf = NewPassword(proc[p].conf, proc[p].key, proc[p].place, w)])
    /\ Note(IF proc[p].place = "v6" /\ ~proc[p].conf.recent THEN {"upgrade"} ELSE {})
    /\ UNCHANGED <<disk, env, data, word>>

\* createV6Config and the tray program's createConfig.  A key that was ever made is
\* not made again.
Used == {disk[pl].key : pl \in {q \in Places : disk[q] \in Configs}} \cup {data.key}
          \cup {proc[p].key : p \in Procs}
Create(p) ==
    /\ proc[p].pc = "create"
    /\ \E o \in (IF proc[p].op = "gui" THEN GuiChoices ELSE Choices(proc[p].rev)),
          w \in Words, k \in Keys \ Used :
         To(p, [proc[p] EXCEPT !.pc = "save", !.key = k,
                  !.conf = [key |-> k, word |-> w, recent |-> TRUE, salted |-> TRUE,
                            known |-> TRUE, opts |-> o]])
    /\ UNCHANGED <<disk, env, data, word, mishaps>>

\* Saved, as the process is told: a new volume is mounted.
Saved(p) ==
    /\ To(p, IF proc[p].op \in {"passwd", "gui"} THEN NoProc
             ELSE Mounted(p, proc[p].key))
    /\ word' = proc[p].conf.word
    /\ data' = IF data.key = NoKey THEN [key |-> proc[p].conf.key, opts |-> proc[p].conf.opts]
               ELSE data

\* writeV6Config: opening the stream empties the file.
SaveOpen(p) ==
    /\ proc[p].pc = "save" /\ proc[p].place = "v6"
    /\ disk' = [disk EXCEPT !["v6"] = Broken]
    /\ To(p, [proc[p] EXCEPT !.pc = "saving"])
    /\ UNCHANGED <<env, data, word, mishaps>>

SaveWrite(p) ==
    /\ proc[p].pc = "saving"
    /\ disk' = [disk EXCEPT !["v6"] = proc[p].conf]
    /\ Saved(p)
    /\ UNCHANGED <<env, mishaps>>

\* The state of the stream is not looked at: what was not written is reported saved.
SaveLost(p) ==
    /\ proc[p].pc = "saving"
    /\ Note({"full"})
    /\ Saved(p)
    /\ UNCHANGED <<disk, env>>

\* writeV5Config and writeV4Config: one write over the old contents, whose count is
\* compared.  The descriptor is not in binary mode: a byte 10 becomes two, which
\* load reads as one, and then its size is not the file's.  A V5 file always has such
\* a byte, the length of the name subVersion; a V4 file may have one in its key.
SaveOld(p) ==
    /\ proc[p].pc = "save" /\ proc[p].place # "v6"
    /\ \E grows \in (IF proc[p].place = "v5" THEN {TRUE} ELSE BOOLEAN) :
         /\ disk' = [disk EXCEPT ![proc[p].place] = IF grows THEN Broken ELSE proc[p].conf]
         /\ Note(IF grows THEN {"text"} ELSE {})
    /\ Saved(p)
    /\ UNCHANGED env
SavePart(p) ==
    /\ proc[p].pc = "save" /\ proc[p].place # "v6"
    /\ disk' = [disk EXCEPT ![proc[p].place] = Broken]
    /\ Note({"full"})
    /\ To(p, NoProc)
    /\ UNCHANGED <<env, data, word>>

\* A refusal, an error that is noticed, a volume unmounted, or the end of the
\* process.
Stop(p) ==
    /\ proc[p].pc \notin {"idle", "saving"}
    /\ End(p)
Crash(p) ==
    /\ proc[p].pc = "saving"
    /\ Note({"ended"})
    /\ To(p, NoProc)
    /\ UNCHANGED <<disk, env, data, word>>

Next ==
    \E p \in Procs :
      \/ \E op \in {"mount", "anykey", "passwd"}, rev \in BOOLEAN : Start(p, op, rev)
      \/ OpenOrCreate(p)
      \/ Mount(p) \/ PasswdCheck(p) \/ PasswdNew(p) \/ Create(p)
      \/ SaveOpen(p) \/ SaveWrite(p) \/ SaveLost(p) \/ SaveOld(p) \/ SavePart(p)
      \/ Stop(p) \/ Crash(p)

Spec == Init /\ [][Next]_vars

----------------------------------------------------------------------------
(* Properties.                                                             *)

Quiet == \A p \in Procs : proc[p].pc # "saving"

\* Every variable has its type, and a volume created with --reverse can be mounted so
\* again (FileUtils.cpp:1017-1113, 1593-1602).
TypeOK ==
    /\ disk \in [Places -> Configs \cup {Absent, Broken, Unsupported}]
    /\ env \subseteq Overridable
    /\ data.key \in Keys \cup {NoKey} /\ data.opts \in Options
    /\ word \in Words
    /\ mishaps \subseteq {"overlap", "upgrade", "text", "full", "ended"}
    /\ \A p \in Procs :
         /\ proc[p].key \in Keys \cup {NoKey}
         /\ proc[p].pc \in {"save", "saving"} => proc[p].conf \in Configs
         /\ proc[p].pc = "save" /\ proc[p].rev => proc[p].conf.opts = Plain

\* Whatever is mounted, created and given new passwords, in any version and with
\* every way to refuse a step, the configuration that will be found next has the
\* key and the options of the files in the volume (FileUtils.cpp:373-395, 523-556;
\* encfsctl.cpp:712-800), as long as no mishap happened: no two processes on their
\* way to save at once, no disk full and no process ended in the middle of a save,
\* no new password for a V6 file from before the salt or for a file that grows.
\* Everyone who has the volume mounted and whose password was checked has the same
\* key, also if the password is changed between two of his steps
\* (FileUtils.cpp:1620-1640, SSL_Cipher.cpp:585-620).
KeyKept ==
    mishaps = {} =>
        /\ Quiet /\ data.key # NoKey =>
             /\ Config \in Configs
             /\ Config.key = data.key /\ Config.opts = data.opts
        /\ \A p \in Procs :
             proc[p].pc = "mounted" /\ proc[p].op # "anykey" => proc[p].key = data.key

\* The password that was last reported saved opens the volume: so encfsctl passwd
\* says, "Volume Key successfully updated." (encfsctl.cpp:786).  The second form
\* leaves out the V6 files from before the salt and the older files that grow.
Opens == Quiet /\ data.key # NoKey => Config \in Configs /\ Config.word = word
PasswordOpens == mishaps \subseteq {"upgrade", "text"} => Opens
CalmPasswordOpens == mishaps = {} => Opens

\* Whatever has gone wrong before, creating a volume never empties a configuration
\* that could be read, unless another process has saved it in the meantime
\* (FileUtils.cpp:1672-1679).
SparesReadable ==
    \A p \in Procs :
        /\ proc[p].pc = "save" /\ proc'[p].pc = "saving"
        /\ proc[p].op # "passwd" /\ Loads(disk["v6"])
        => "overlap" \in mishaps
CreationSpares == [][SparesReadable]_vars
=============================================================================
