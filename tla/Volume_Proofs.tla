---------------------------- MODULE Volume_Proofs ----------------------------
(***************************************************************************)
(* While nothing goes wrong the configuration keeps the volume's key, and  *)
(* no mishap but an overlap lets a creation empty a configuration that     *)
(* could be read.  The argument: a process on its way to save is alone     *)
(* until another begins beside it, which is an overlap; so what it read is *)
(* what it finds on the disk when it saves.                                *)
(***************************************************************************)
EXTENDS Volume, TLAPS

Records == [pc : {"idle", "loaded", "knows", "create", "save", "saving", "mounted"},
            op : {"none", "mount", "anykey", "passwd", "gui"}, rev : BOOLEAN,
            conf : Configs \cup {Missing, Unsupported},
            place : Places \cup {"none"}, key : Keys \cup {NoKey}]

\* What the checked type invariant leaves open: the whole of a process's record.
Typed ==
    /\ disk \in [Places -> Configs \cup {Absent, Broken, Unsupported}]
    /\ env \subseteq Overridable
    /\ data \in [key : Keys \cup {NoKey}, opts : Options]
    /\ word \in Words
    /\ mishaps \subseteq {"overlap", "upgrade", "text", "full", "ended"}
    /\ proc \in [Procs -> Records]

\* Records of processes that are to make a volume, to change its password, and to
\* save in either case.
Creates(r) == \/ r.pc = "create"
              \/ r.pc \in {"save", "saving"} /\ r.op # "passwd"
Changes(r) == r.op = "passwd" /\ r.pc \in {"loaded", "knows", "save", "saving"}
Saves(r) == \/ r.pc \in {"create", "knows", "save", "saving"}
            \/ r.op = "passwd" /\ r.pc = "loaded"

\* What a process has in hand at each of its places.
ShapeOf(r) ==
    /\ r.pc = "create" => r.op # "passwd"
    /\ r.pc = "knows" => r.op = "passwd" /\ r.key \in Keys
    /\ r.pc = "loaded" => r.conf # Missing
    /\ r.pc \in {"knows", "save", "saving"} => r.conf \in Configs
    /\ r.pc = "saving" => r.place = "v6"
    /\ Creates(r) => r.place = "v6"
    /\ Creates(r) /\ r.pc # "create" => r.conf.recent /\ r.key = r.conf.key
    /\ r.rev => r.op \in {"mount", "anykey"}
    /\ r.pc = "save" /\ r.rev => r.conf.opts = Plain
Shape == \A p \in Procs : ShapeOf(proc[p])

\* As long as nobody began beside it, a process on its way to save is alone, and one
\* that is to make a volume finds nothing that could be read.
Alone == "overlap" \notin mishaps =>
           \A p, q \in Procs : Saves(proc[p]) /\ Saves(proc[q]) => p = q
SparesOf(r) == r.pc # "saving" /\ Creates(r) => ~Loads(disk["v6"])
Spares == "overlap" \notin mishaps => \A p \in Procs : SparesOf(proc[p])

\* The configuration on the disk is the volume's, except while it is being written.
DiskKept ==
    Quiet => IF data.key = NoKey THEN Config \notin Configs
             ELSE /\ Config \in Configs
                  /\ Config.key = data.key /\ Config.opts = data.opts /\ Config.word = word

\* So is what processes have read of it; and nobody makes a volume anew.
ReadOf(r) ==
    /\ r.pc = "loaded" /\ r.conf \in Configs => data.key # NoKey /\ r.conf.key = data.key
    /\ r.pc = "mounted" => data.key # NoKey
    /\ r.pc = "mounted" /\ r.op # "anykey" => r.key = data.key
    /\ Creates(r) => data.key = NoKey

\* A process that changes the password has what is there, until it empties it.
ChangeOf(r) ==
    Changes(r) =>
      /\ r.pc # "saving" => r.place = Found
      /\ r.pc = "loaded" => r.conf = Config
      /\ r.pc = "knows" => r.conf = Config /\ r.key = r.conf.key
      /\ r.pc \in {"knows", "save", "saving"} =>
           /\ data.key # NoKey /\ r.place \in Places \ {"old"}
           /\ r.conf.key = data.key /\ r.conf.opts = data.opts
      /\ r.pc \in {"save", "saving"} => Loads(r.conf)

Kept(r) == ReadOf(r) /\ ChangeOf(r)

CalmKept == mishaps = {} => DiskKept /\ \A p \in Procs : Kept(proc[p])

IInv == Typed /\ Shape /\ Alone /\ Spares /\ CalmKept

----------------------------------------------------------------------------
(* The operators.                                                          *)

\* readConfig looks at the places in their order.
LEMMA FoundIs ==
    Found = IF Present("v6") THEN "v6" ELSE IF Present("v5") THEN "v5"
            ELSE IF Present("v4") THEN "v4" ELSE IF Present("old") THEN "old" ELSE "none"
<1> DEFINE here == {i \in 1..Len(Order) : Present(Order[i])}
           first == CHOOSE i \in here : \A j \in here : i <= j
<1>1. Len(Order) = 4 /\ Order[1] = "v6" /\ Order[2] = "v5" /\ Order[3] = "v4" /\ Order[4] = "old"
  BY DEF Order
<1>2. here = {i \in {1, 2, 3, 4} : Present(Order[i])}
  BY <1>1
<1>3. ASSUME NEW i \in here, \A j \in here : i <= j PROVE first = i
  <2>1. \A k \in here : (\A j \in here : k <= j) => k = i
    BY <1>2, <1>3
  <2> QED
    BY <1>3, <2>1
<1>4. Found = IF here = {} THEN "none" ELSE Order[first]
  BY DEF Found
<1> HIDE DEF here, first
<1>5. CASE Present("v6")
  <2>1. 1 \in here /\ \A j \in here : 1 <= j
    BY <1>1, <1>2, <1>5
  <2> QED
    BY <1>1, <1>3, <1>4, <1>5, <2>1
<1>6. CASE ~Present("v6") /\ Present("v5")
  <2>1. 2 \in here /\ \A j \in here : 2 <= j
    BY <1>1, <1>2, <1>6
  <2> QED
    BY <1>1, <1>3, <1>4, <1>6, <2>1
<1>7. CASE ~Present("v6") /\ ~Present("v5") /\ Present("v4")
  <2>1. 3 \in here /\ \A j \in here : 3 <= j
    BY <1>1, <1>2, <1>7
  <2> QED
    BY <1>1, <1>3, <1>4, <1>7, <2>1
<1>8. CASE ~Present("v6") /\ ~Present("v5") /\ ~Present("v4")
  <2>1. CASE Present("old")
    <3>1. 4 \in here /\ \A j \in here : 4 <= j
      BY <1>1, <1>2, <1>8, <2>1
    <3> QED
      BY <1>1, <1>3, <1>4, <1>8, <2>1, <3>1
  <2>2. CASE ~Present("old")
    <3>1. here = {}
      BY <1>1, <1>2, <1>8, <2>2
    <3> QED
      BY <1>4, <1>8, <2>2, <3>1
  <2> QED
    BY <2>1, <2>2
<1> QED
  BY <1>5, <1>6, <1>7, <1>8

LEMMA FoundNextIs ==
    (Found = IF Present("v6") THEN "v6" ELSE IF Present("v5") THEN "v5"
             ELSE IF Present("v4") THEN "v4" ELSE IF Present("old") THEN "old" ELSE "none")'
BY FoundIs, PTL

\* What the search finds is a configuration that loads, from a place that is there.
LEMMA ConfigIs ==
    ASSUME Typed
    PROVE  /\ Config \in Configs \cup {Missing, Unsupported}
           /\ Config \in Configs => /\ Found \in Places \ {"old"} /\ Loads(disk[Found])
                                    /\ Config = Contents(Found) /\ Loads(Config)
                                    /\ Present(Found)
           /\ Config = Missing => ~Loads(disk["v6"])
           /\ Found \in Places \cup {"none"}
<1>0. Places = {"v6", "v5", "v4", "old"}
  BY DEF Places, Order
<1>1. Plain \in Options
  BY VolumeAssumption
<1>2. ASSUME NEW pl \in Places, Loads(disk[pl])
      PROVE  Contents(pl) \in Configs /\ Loads(Contents(pl))
  BY <1>1, <1>2 DEF Contents, Loads, Configs
<1>3. Found \in Places \cup {"none"} /\ (Found # "none" => Present(Found))
  BY <1>0, FoundIs
<1>4. Present("v6") => Found = "v6"
  BY FoundIs
<1>5. ~Present("v6") => ~Loads(disk["v6"])
  BY <1>0, VolumeAssumption DEF Present, Loads
<1>6. Config = Missing => ~Loads(disk["v6"])
  <2>1. CASE Found = "v6"
    BY <1>0, <1>2, <2>1, VolumeAssumption DEF Config
  <2>2. CASE Found # "v6"
    BY <1>4, <1>5, <2>2
  <2> QED
    BY <2>1, <2>2
<1>7. Config \in Configs \cup {Missing, Unsupported}
  BY <1>2, <1>3 DEF Config
<1>8. Config \in Configs => /\ Found \in Places \ {"old"} /\ Loads(disk[Found])
                            /\ Config = Contents(Found) /\ Loads(Config)
                            /\ Present(Found)
  BY <1>2, <1>3, VolumeAssumption DEF Config
<1> QED
  BY <1>3, <1>6, <1>7, <1>8

----------------------------------------------------------------------------
(* The steps.                                                              *)

Mishaps == {"overlap", "upgrade", "text", "full", "ended"}

LEMMA NoProcIs ==
    /\ NoProc \in Records /\ NoProc.pc = "idle" /\ NoProc.op = "none" /\ ~NoProc.rev
    /\ NoProc.key = NoKey
<1>1. NoProc \in Records
  BY DEF NoProc, Records
<1>2. NoProc.pc = "idle" /\ NoProc.op = "none" /\ NoProc.key = NoKey
  BY DEF NoProc
<1>3. ~NoProc.rev
  BY DEF NoProc
<1> QED
  BY <1>1, <1>2, <1>3

\* A step of p to r that leaves the disk alone.
LEMMA ProcStep ==
    ASSUME IInv, NEW p \in Procs, NEW r \in Records, To(p, r),
           UNCHANGED <<disk, env, data, word>>,
           mishaps \subseteq mishaps', mishaps' \subseteq Mishaps,
           ShapeOf(r),
           Saves(r) => Saves(proc[p]) \/ "overlap" \in mishaps' \/ ~Overlaps(p),
           "overlap" \notin mishaps' => SparesOf(r),
           mishaps' = {} => Kept(r) /\ (r.pc = "saving" <=> proc[p].pc = "saving")
    PROVE  IInv'
<1> USE DEF To
<1>0. /\ Typed /\ Shape /\ Alone /\ Spares /\ CalmKept
      /\ proc \in [Procs -> Records]
  BY DEF IInv, Typed
<1>1. /\ proc'[p] = r
      /\ \A q \in Procs : q # p => proc'[q] = proc[q]
      /\ proc' \in [Procs -> Records]
  BY <1>0
<1>2. Typed'
  BY <1>0, <1>1 DEF Typed, Mishaps
<1>3. Shape'
  BY <1>0, <1>1 DEF Shape
<1>4. Alone'
  <2> SUFFICES ASSUME "overlap" \notin mishaps', NEW q \in Procs, NEW s \in Procs,
                      Saves(proc'[q]), Saves(proc'[s])
               PROVE  q = s
    BY DEF Alone
  <2>1. \A x, y \in Procs : Saves(proc[x]) /\ Saves(proc[y]) => x = y
    BY <1>0 DEF Alone
  <2>2. Saves(r) => Saves(proc[p]) \/ \A x \in Procs \ {p} : ~Saves(proc[x])
    BY DEF Overlaps, MaySave, Saves
  <2> QED
    BY <1>1, <2>1, <2>2
<1>5. Config' = Config /\ Found' = Found
  BY DEF Config, Found, Contents, Present
<1>6. Spares'
  BY <1>0, <1>1 DEF Spares, SparesOf
<1>7. CalmKept'
  <2> SUFFICES ASSUME mishaps' = {} PROVE DiskKept' /\ \A q \in Procs : Kept(proc[q])'
    BY DEF CalmKept
  <2>1. DiskKept /\ \A q \in Procs : Kept(proc[q])
    BY <1>0 DEF CalmKept
  <2>2. Quiet' <=> Quiet
    BY <1>1 DEF Quiet
  <2>3. DiskKept'
    BY <1>5, <2>1, <2>2 DEF DiskKept
  <2>4. \A x : Kept(x) => ReadOf(x)' /\ ChangeOf(x)'
    BY <1>5 DEF Kept, ReadOf, ChangeOf
  <2>5. \A q \in Procs : Kept(proc'[q])
    BY <1>1, <2>1
  <2> QED
    BY <1>5, <2>3, <2>5 DEF Kept, ReadOf, ChangeOf
<1> QED
  BY <1>2, <1>3, <1>4, <1>6, <1>7 DEF IInv

\* Nobody who has the volume mounted, or only has it open, is on its way to save.
LEMMA StartStep ==
    ASSUME IInv, NEW p \in Procs, NEW op \in {"mount", "anykey", "passwd"}, NEW rev \in BOOLEAN,
           Start(p, op, rev)
    PROVE  IInv'
<1> DEFINE r == [NoProc EXCEPT !.op = op, !.rev = rev, !.conf = Config, !.place = Found]
           new == [r EXCEPT !.pc = "create", !.place = "v6"]
           there == [r EXCEPT !.pc = "loaded"]
<1> USE DEF Start
<1>1. Typed /\ CalmKept
  BY DEF IInv
<1>2. /\ r \in Records /\ r.op = op /\ r.rev = rev /\ r.conf = Config /\ r.place = Found
      /\ r.key = NoKey
  BY <1>1, NoProcIs, ConfigIs DEF Records
<1>3. /\ new \in Records /\ new.op = op /\ new.rev = rev /\ new.pc = "create"
      /\ new.place = "v6" /\ new.key = NoKey
      /\ there \in Records /\ there.op = op /\ there.rev = rev /\ there.pc = "loaded"
      /\ there.conf = Config /\ there.place = Found /\ there.key = NoKey
  <2> HIDE DEF r
  <2>1. "v6" \in Places
    BY DEF Places, Order
  <2> QED
    BY <1>2, <2>1 DEF Records
<1>4. /\ mishaps \subseteq mishaps' /\ mishaps' \subseteq Mishaps
      /\ "overlap" \in mishaps' \/ ~Overlaps(p)
      /\ UNCHANGED <<disk, env, data, word>>
  BY <1>1 DEF Note, Typed, Mishaps
<1>5. proc[p].pc # "saving"
  OBVIOUS
<1>6. ASSUME mishaps' = {} PROVE Quiet /\ DiskKept
  <2>1. \A q \in Procs \ {p} : ~MaySave(q)
    BY <1>4, <1>6 DEF Overlaps
  <2> QED
    BY <1>1, <1>4, <1>5, <1>6, <2>1 DEF Quiet, MaySave, CalmKept
<1>7. CASE Config = Missing
  <2>1. To(p, new) /\ op # "passwd"
    BY <1>7
  <2>2. ShapeOf(new) /\ SparesOf(new)
    BY <1>1, <1>3, <1>7, <2>1, ConfigIs DEF ShapeOf, SparesOf, Creates
  <2>3. ASSUME mishaps' = {} PROVE Kept(new)
    <3>1. data.key = NoKey
      BY <1>6, <1>7, <2>3, VolumeAssumption DEF DiskKept
    <3> QED
      BY <1>3, <2>1, <3>1 DEF Kept, ReadOf, ChangeOf, Changes
  <2>4. new.pc # "saving"
    BY <1>3
  <2> QED
    BY <1>3, <1>4, <1>5, <2>1, <2>2, <2>3, <2>4, ProcStep
<1>8. CASE Config # Missing
  <2>1. To(p, there)
    BY <1>8
  <2>2. ShapeOf(there) /\ SparesOf(there)
    BY <1>3, <1>8, ConfigIs DEF ShapeOf, SparesOf, Creates
  <2>3. ASSUME mishaps' = {} PROVE Kept(there)
    <3>1. /\ Config \in Configs => data.key # NoKey /\ Config.key = data.key
      BY <1>6, <2>3 DEF DiskKept
    <3> QED
      BY <1>3, <3>1 DEF Kept, ReadOf, ChangeOf, Changes, Creates
  <2>4. there.pc # "saving"
    BY <1>3
  <2> QED
    BY <1>3, <1>4, <1>5, <2>1, <2>2, <2>3, <2>4, ProcStep
<1> QED
  BY <1>7, <1>8

LEMMA OpenOrCreateStep ==
    ASSUME IInv, NEW p \in Procs, OpenOrCreate(p) PROVE IInv'
<1> DEFINE r == [NoProc EXCEPT !.pc = "create", !.op = "gui", !.place = "v6"]
<1> USE DEF OpenOrCreate
<1>1. Typed /\ CalmKept
  BY DEF IInv
<1>2. /\ r \in Records /\ r.pc = "create" /\ r.op = "gui" /\ r.place = "v6" /\ ~r.rev
  <2>1. "v6" \in Places
    BY DEF Places, Order
  <2>2. r \in Records
    BY <2>1, NoProcIs DEF Records
  <2> QED
    BY <2>1, <2>2, NoProcIs DEF Records
<1>3. /\ mishaps \subseteq mishaps' /\ mishaps' \subseteq Mishaps
      /\ "overlap" \in mishaps' \/ ~Overlaps(p)
      /\ UNCHANGED <<disk, env, data, word>>
      /\ To(p, r) /\ Config = Missing /\ proc[p].pc = "idle"
  BY <1>1 DEF Note, Typed, Mishaps
<1> HIDE DEF r, OpenOrCreate
<1>4. ShapeOf(r) /\ SparesOf(r)
  BY <1>1, <1>2, <1>3, ConfigIs DEF ShapeOf, SparesOf, Creates
<1>5. ASSUME mishaps' = {} PROVE Kept(r)
  <2>1. \A q \in Procs \ {p} : ~MaySave(q)
    BY <1>3, <1>5 DEF Overlaps
  <2>2. Quiet
    BY <1>3, <2>1 DEF Quiet, MaySave
  <2>3. data.key = NoKey
    BY <1>1, <1>3, <1>5, <2>2, VolumeAssumption DEF CalmKept, DiskKept
  <2> QED
    BY <1>2, <2>3 DEF Kept, ReadOf, ChangeOf, Changes
<1> QED
  BY <1>2, <1>3, <1>4, <1>5, ProcStep

\* The key in hand is the configuration's, unless nobody asked whether it is.
LEMMA ReadKeyIs ==
    ASSUME NEW c \in Configs, NEW w, NEW check \in BOOLEAN, NEW k \in ReadKey(c, w, check)
    PROVE  k \in Keys \cup {NoKey} /\ (check => k = c.key /\ k \in Keys)
BY DEF ReadKey, Configs

LEMMA MountStep ==
    ASSUME IInv, NEW p \in Procs, Mount(p) PROVE IInv'
<1>1. Typed /\ Shape /\ CalmKept /\ proc[p] \in Records
  BY DEF IInv, Typed
<1>2. PICK w \in Words : \E k \in ReadKey(proc[p].conf, w, proc[p].op # "anykey") :
                            To(p, Mounted(p, k))
  BY DEF Mount
<1>3. PICK k \in ReadKey(proc[p].conf, w, proc[p].op # "anykey") : To(p, Mounted(p, k))
  BY <1>2
<1> DEFINE r == Mounted(p, k)
<1>4. /\ proc[p].pc = "loaded" /\ proc[p].op # "passwd" /\ proc[p].conf \in Configs
      /\ UNCHANGED <<disk, env, data, word, mishaps>>
  BY <1>1 DEF Mount, Suits, Shape, ShapeOf, Records
<1>5. k \in Keys \cup {NoKey} /\ (proc[p].op # "anykey" => k = proc[p].conf.key)
  BY <1>4, ReadKeyIs
<1>6. r \in Records /\ r.pc = "mounted" /\ r.op = proc[p].op /\ r.key = k /\ ~r.rev
  BY <1>1, <1>5, NoProcIs DEF Mounted, Records
<1> HIDE DEF r
<1>7. ShapeOf(r) /\ SparesOf(r) /\ ~Saves(r)
  BY <1>4, <1>6 DEF ShapeOf, SparesOf, Creates, Saves
<1>8. mishaps' = {} => Kept(r)
  BY <1>1, <1>4, <1>5, <1>6 DEF Kept, ReadOf, ChangeOf, Changes, Creates, CalmKept
<1>9. mishaps \subseteq mishaps' /\ mishaps' \subseteq Mishaps /\ To(p, r)
  BY <1>1, <1>3, <1>4 DEF Typed, Mishaps, r
<1> QED
  BY <1>4, <1>6, <1>7, <1>8, <1>9, ProcStep

LEMMA PasswdCheckStep ==
    ASSUME IInv, NEW p \in Procs, PasswdCheck(p) PROVE IInv'
<1>1. Typed /\ Shape /\ Spares /\ CalmKept /\ proc[p] \in Records
  BY DEF IInv, Typed
<1>2. /\ proc[p].pc = "loaded" /\ proc[p].op = "passwd" /\ proc[p].conf \in Configs
      /\ UNCHANGED <<disk, env, data, word, mishaps>>
  BY <1>1 DEF PasswdCheck, Shape, ShapeOf, Records
<1>3. PICK w \in Words : \E k \in ReadKey(proc[p].conf, w, TRUE) :
                            To(p, [proc[p] EXCEPT !.pc = "knows", !.key = k])
  BY DEF PasswdCheck
<1>4. PICK k \in ReadKey(proc[p].conf, w, TRUE) :
             To(p, [proc[p] EXCEPT !.pc = "knows", !.key = k])
  BY <1>3
<1> DEFINE r == [proc[p] EXCEPT !.pc = "knows", !.key = k]
<1>5. k = proc[p].conf.key /\ k \in Keys
  BY <1>2, ReadKeyIs
<1>6. /\ r \in Records /\ r.pc = "knows" /\ r.key = k /\ r.op = "passwd"
      /\ r.conf = proc[p].conf /\ r.place = proc[p].place /\ r.rev = proc[p].rev
  BY <1>1, <1>2, <1>5 DEF Records
<1>7. mishaps \subseteq mishaps' /\ mishaps' \subseteq Mishaps /\ To(p, r)
  BY <1>1, <1>2, <1>4 DEF Typed, Mishaps
<1> HIDE DEF r
<1>8. ShapeOf(r) /\ SparesOf(r) /\ Saves(proc[p])
  BY <1>1, <1>2, <1>5, <1>6 DEF Shape, ShapeOf, SparesOf, Creates, Saves
<1>9. mishaps' = {} => Kept(r)
  <2> SUFFICES ASSUME mishaps = {} PROVE Kept(r)
    BY <1>2
  <2>1. Kept(proc[p])
    BY <1>1 DEF CalmKept
  <2>2. data.key # NoKey /\ r.conf.key = data.key /\ r.place = Found /\ r.conf = Config
    BY <1>2, <1>6, <2>1 DEF Kept, ReadOf, ChangeOf, Changes
  <2>3. /\ Config \in Configs /\ Found \in Places \ {"old"}
    BY <1>1, <1>2, <1>6, <2>2, ConfigIs
  <2>4. Quiet
    <3>1. \A q \in Procs : Saves(proc[q]) => q = p
      BY <1>8 DEF IInv, Alone
    <3> QED
      BY <1>2, <3>1 DEF Quiet, Saves
  <2>5. Config.opts = data.opts
    BY <1>1, <2>2, <2>3, <2>4 DEF CalmKept, DiskKept
  <2> QED
    BY <1>5, <1>6, <2>2, <2>3, <2>5 DEF Kept, ReadOf, ChangeOf, Changes, Creates
<1> QED
  BY <1>2, <1>6, <1>7, <1>8, <1>9, ProcStep

LEMMA NewPasswordIs ==
    ASSUME NEW c \in Configs, NEW k \in Keys, NEW place, NEW w \in Words
    PROVE  LET n == NewPassword(c, k, place, w)
           IN /\ n \in Configs /\ n.key = k /\ n.word = w /\ n.opts = c.opts
              /\ n.recent = c.recent /\ (n.salted => place = "v6")
<1> DEFINE m == [c EXCEPT !.key = k]
           n == [m EXCEPT !.word = w, !.salted = (place = "v6")]
<1>1. m \in Configs /\ m.key = k /\ m.opts = c.opts /\ m.recent = c.recent
  BY DEF Configs
<1>2. NewPassword(c, k, place, w) = n
  BY DEF NewPassword, Reencoded
<1> HIDE DEF m
<1>3. /\ n \in Configs /\ n.key = m.key /\ n.word = w /\ n.opts = m.opts
      /\ n.recent = m.recent
  BY <1>1 DEF Configs
<1>4. n.salted => place = "v6"
  BY <1>1 DEF Configs
<1> QED
  BY <1>1, <1>2, <1>3, <1>4

LEMMA PasswdNewStep ==
    ASSUME IInv, NEW p \in Procs, PasswdNew(p) PROVE IInv'
<1>1. Typed /\ Shape /\ CalmKept /\ proc[p] \in Records
  BY DEF IInv, Typed
<1>2. /\ proc[p].pc = "knows" /\ proc[p].op = "passwd" /\ proc[p].conf \in Configs
      /\ proc[p].key \in Keys /\ ~proc[p].rev
      /\ UNCHANGED <<disk, env, data, word>>
      /\ mishaps \subseteq mishaps' /\ mishaps' \subseteq Mishaps
      /\ mishaps' = {} => (proc[p].place = "v6" => proc[p].conf.recent)
  BY <1>1 DEF PasswdNew, Shape, ShapeOf, Records, Note, Typed, Mishaps
<1>3. PICK w \in Words :
             To(p, [proc[p] EXCEPT !.pc = "save",
                      !.conf = NewPassword(proc[p].conf, proc[p].key, proc[p].place, w)])
  BY DEF PasswdNew
<1> DEFINE n == NewPassword(proc[p].conf, proc[p].key, proc[p].place, w)
           r == [proc[p] EXCEPT !.pc = "save", !.conf = n]
<1>4. /\ n \in Configs /\ n.key = proc[p].key /\ n.opts = proc[p].conf.opts
      /\ n.recent = proc[p].conf.recent /\ (n.salted => proc[p].place = "v6")
  BY <1>2, NewPasswordIs
<1>5. To(p, r)
  BY <1>3
<1> HIDE DEF n
<1>6. /\ r \in Records /\ r.pc = "save" /\ r.key = proc[p].key /\ r.op = "passwd"
      /\ r.conf = n /\ r.place = proc[p].place /\ r.rev = proc[p].rev
  BY <1>1, <1>2, <1>4 DEF Records
<1> HIDE DEF r
<1>7. ShapeOf(r) /\ SparesOf(r) /\ Saves(proc[p])
  BY <1>2, <1>4, <1>6 DEF ShapeOf, SparesOf, Creates, Saves
<1>8. mishaps' = {} => Kept(r)
  <2> SUFFICES ASSUME mishaps = {}, mishaps' = {} PROVE Kept(r)
    BY <1>2
  <2>1. Kept(proc[p])
    BY <1>1 DEF CalmKept
  <2>2. Loads(n)
    BY <1>2, <1>4 DEF Loads, Configs
  <2>3. /\ data.key # NoKey /\ r.conf.key = data.key /\ r.conf.opts = data.opts
        /\ r.place = Found /\ r.place \in Places \ {"old"}
    BY <1>2, <1>4, <1>6, <2>1 DEF Kept, ReadOf, ChangeOf, Changes
  <2> QED
    BY <1>6, <2>2, <2>3 DEF Kept, ReadOf, ChangeOf, Changes, Creates
<1> QED
  BY <1>2, <1>5, <1>6, <1>7, <1>8, ProcStep

\* What a mode of creation makes are options, and with --reverse they are all off.
LEMMA ChoicesAre ==
    ASSUME NEW rev \in BOOLEAN, NEW o \in Choices(rev)
    PROVE  o \in Options /\ (rev => o = Plain)
<1>1. Plain \in Options /\ Standard(FALSE) \in Options /\ Paranoia \in Options
  BY VolumeAssumption
<1>2. Standard(TRUE) = Plain
  <2> DEFINE x == [Plain EXCEPT !.chained = ~TRUE, !.unique = ~TRUE]
  <2>1. Plain \in [chained : BOOLEAN, unique : BOOLEAN, external : BOOLEAN, mac : BOOLEAN]
    BY <1>1, VolumeAssumption
  <2>2. ~Plain.chained /\ ~Plain.unique
    BY DEF Plain
  <2>3. [Plain EXCEPT !.chained = Plain.chained, !.unique = Plain.unique] = Plain
    BY <2>1
  <2>4. Plain.chained = ~TRUE /\ Plain.unique = ~TRUE
    BY <2>2, <2>1
  <2> QED
    BY <2>3, <2>4 DEF Standard
<1>3. CASE rev
  BY <1>1, <1>2, <1>3 DEF Choices, Manual
<1>4. CASE ~rev
  BY <1>1, <1>4 DEF Choices, Manual
<1> QED
  BY <1>3, <1>4

LEMMA CreateStep ==
    ASSUME IInv, NEW p \in Procs, Create(p) PROVE IInv'
<1>1. Typed /\ Shape /\ Spares /\ CalmKept /\ proc[p] \in Records
  BY DEF IInv, Typed
<1>2. /\ proc[p].pc = "create" /\ proc[p].op # "passwd" /\ proc[p].place = "v6"
      /\ proc[p].rev \in BOOLEAN /\ (proc[p].rev => proc[p].op # "gui")
      /\ UNCHANGED <<disk, env, data, word, mishaps>>
  BY <1>1 DEF Create, Shape, ShapeOf, Creates, Records
<1> DEFINE Opts == IF proc[p].op = "gui" THEN GuiChoices ELSE Choices(proc[p].rev)
           c(o, w, k) == [key |-> k, word |-> w, recent |-> TRUE, salted |-> TRUE,
                          known |-> TRUE, opts |-> o]
           R(o, w, k) == [proc[p] EXCEPT !.pc = "save", !.key = k, !.conf = c(o, w, k)]
<1>3. PICK o \in Opts, w \in Words, k \in Keys : To(p, R(o, w, k))
  BY Zenon DEF Create
<1>4. o \in Options /\ (proc[p].rev => o = Plain)
  BY <1>2, <1>3, ChoicesAre, VolumeAssumption DEF GuiChoices
<1> DEFINE d == c(o, w, k)
           r == R(o, w, k)
<1>5. d \in Configs /\ d.key = k /\ d.opts = o /\ d.recent
  BY <1>4 DEF Configs
<1> HIDE DEF c
<1>6. /\ r \in Records /\ r.pc = "save" /\ r.key = k /\ r.op = proc[p].op
      /\ r.conf = d /\ r.place = "v6" /\ r.rev = proc[p].rev
  BY <1>1, <1>2, <1>5 DEF Records
<1> HIDE DEF r, d
<1>7. To(p, r)
  BY <1>3 DEF r
<1>8. ShapeOf(r) /\ Saves(proc[p])
  BY <1>1, <1>2, <1>4, <1>5, <1>6 DEF Shape, ShapeOf, Creates, Saves
<1>9. /\ "overlap" \notin mishaps' => SparesOf(r)
      /\ mishaps \subseteq mishaps' /\ mishaps' \subseteq Mishaps
  BY <1>1, <1>2 DEF Spares, SparesOf, Creates, Typed, Mishaps
<1>10. mishaps' = {} => Kept(r)
  BY <1>1, <1>2, <1>6 DEF CalmKept, Kept, ReadOf, ChangeOf, Changes, Creates
<1> QED
  BY <1>2, <1>6, <1>7, <1>8, <1>9, <1>10, ProcStep

\* A process that stops, or ends in the middle of a save.
LEMMA EndStep ==
    ASSUME IInv, NEW p \in Procs, Stop(p) \/ Crash(p) PROVE IInv'
<1>1. Typed
  BY DEF IInv
<1>2. /\ To(p, NoProc) /\ UNCHANGED <<disk, env, data, word>>
      /\ mishaps \subseteq mishaps' /\ mishaps' \subseteq Mishaps
      /\ mishaps' = {} => proc[p].pc # "saving"
  BY <1>1 DEF Stop, Crash, End, Note, Typed, Mishaps
<1>3. ShapeOf(NoProc) /\ SparesOf(NoProc) /\ ~Saves(NoProc) /\ Kept(NoProc)
  BY NoProcIs DEF ShapeOf, SparesOf, Saves, Kept, ReadOf, ChangeOf, Changes, Creates
<1> QED
  BY <1>2, <1>3, NoProcIs, ProcStep

----------------------------------------------------------------------------
(* The steps that write.                                                   *)

\* A process that saves is alone, or there was an overlap.
LEMMA SaverAlone ==
    ASSUME IInv, NEW p \in Procs, Saves(proc[p]), "overlap" \notin mishaps
    PROVE  \A q \in Procs \ {p} : ~Saves(proc[q])
BY DEF IInv, Alone

\* What a saving step of p to r, in the order of the parts of the invariant, has to show
\* besides what it makes of a calm volume.
LEMMA SaveStep ==
    ASSUME IInv, NEW p \in Procs, NEW r \in Records, To(p, r), Saves(proc[p]),
           disk' \in [Places -> Configs \cup {Absent, Broken, Unsupported}],
           data' \in [key : Keys \cup {NoKey}, opts : Options], word' \in Words,
           UNCHANGED env, mishaps \subseteq mishaps', mishaps' \subseteq Mishaps,
           ShapeOf(r), r.pc = "saving" \/ ~Creates(r)
    PROVE  /\ Typed' /\ Shape' /\ Alone' /\ Spares'
           /\ proc'[p] = r /\ \A q \in Procs \ {p} : proc'[q] = proc[q]
<1>1. Typed /\ Shape
  BY DEF IInv
<1>2. proc'[p] = r /\ \A q \in Procs \ {p} : proc'[q] = proc[q]
  BY <1>1 DEF Typed, To
<1>3. Typed'
  BY <1>1 DEF Typed, To, Mishaps
<1>4. Shape'
  BY <1>1, <1>2 DEF Shape
<1>5. "overlap" \notin mishaps' => \A q \in Procs \ {p} : ~Saves(proc[q])
  BY SaverAlone
<1>6. Alone'
  BY <1>2, <1>5 DEF Alone
<1>7. Spares'
  <2>1. \A x : Creates(x) => Saves(x)
    BY DEF Creates, Saves
  <2> QED
    BY <1>2, <1>5, <2>1 DEF Spares, SparesOf
<1> QED
  BY <1>2, <1>3, <1>4, <1>6, <1>7

LEMMA SaveOpenStep ==
    ASSUME IInv, NEW p \in Procs, SaveOpen(p) PROVE IInv'
<1>1. Typed /\ Shape /\ CalmKept /\ proc[p] \in Records
  BY DEF IInv, Typed
<1> DEFINE r == [proc[p] EXCEPT !.pc = "saving"]
<1>2. /\ proc[p].pc = "save" /\ proc[p].place = "v6" /\ Saves(proc[p])
      /\ To(p, r) /\ disk' = [disk EXCEPT !["v6"] = Broken]
      /\ UNCHANGED <<env, data, word, mishaps>>
  BY DEF SaveOpen, Saves
<1>3. /\ r \in Records /\ r.pc = "saving" /\ r.op = proc[p].op /\ r.conf = proc[p].conf
      /\ r.place = "v6" /\ r.key = proc[p].key /\ r.rev = proc[p].rev
  BY <1>1, <1>2 DEF Records
<1>4. ShapeOf(r)
  BY <1>1, <1>2, <1>3 DEF Shape, ShapeOf, Creates
<1> HIDE DEF r
<1>5. disk' \in [Places -> Configs \cup {Absent, Broken, Unsupported}]
  BY <1>1, <1>2 DEF Typed
<1>6. /\ Typed' /\ Shape' /\ Alone' /\ Spares'
      /\ proc'[p] = r /\ \A q \in Procs \ {p} : proc'[q] = proc[q]
  BY <1>1, <1>2, <1>3, <1>4, <1>5, SaveStep DEF Typed, Mishaps
<1>7. CalmKept'
  <2> SUFFICES ASSUME mishaps = {} PROVE DiskKept' /\ \A q \in Procs : Kept(proc[q])'
    BY <1>2 DEF CalmKept
  <2>1. DiskKept'
    BY <1>3, <1>6 DEF DiskKept, Quiet
  <2>2. \A q \in Procs : Kept(proc[q])
    BY <1>1 DEF CalmKept
  <2>3. ASSUME NEW q \in Procs \ {p} PROVE Kept(proc[q])'
    <3>1. ~Saves(proc[q])
      BY <1>2, SaverAlone
    <3> QED
      BY <1>2, <1>6, <2>2, <3>1 DEF Kept, ReadOf, ChangeOf, Changes, Saves, Creates
  <2>4. Kept(proc[p])'
    BY <1>2, <1>3, <1>6, <2>2 DEF Kept, ReadOf, ChangeOf, Changes, Creates
  <2> QED
    BY <2>1, <2>3, <2>4
<1> QED
  BY <1>6, <1>7 DEF IInv

\* Where a process goes that is told its configuration is saved.
LEMMA SavedIs ==
    ASSUME IInv, NEW p \in Procs, Saved(p), proc[p].pc \in {"save", "saving"}
    PROVE  \E r \in Records :
             /\ To(p, r) /\ ShapeOf(r) /\ ~Saves(r) /\ ~Creates(r)
             /\ r.pc = "mounted" =>
                  proc[p].op # "passwd" /\ r.op = proc[p].op /\ r.key = proc[p].key
             /\ r.pc \in {"idle", "mounted"}
             /\ data' \in [key : Keys \cup {NoKey}, opts : Options] /\ word' \in Words
<1>1. Typed /\ proc[p] \in Records /\ proc[p].conf \in Configs
  BY DEF IInv, Typed, Shape, ShapeOf
<1>2. data' \in [key : Keys \cup {NoKey}, opts : Options] /\ word' \in Words
  BY <1>1 DEF Saved, Typed, Configs
<1>3. CASE proc[p].op \in {"passwd", "gui"}
  <2>1. ShapeOf(NoProc) /\ ~Saves(NoProc) /\ ~Creates(NoProc)
    BY NoProcIs DEF ShapeOf, Saves, Creates
  <2>2. To(p, NoProc)
    BY <1>3 DEF Saved
  <2> QED
    BY <1>2, <2>1, <2>2, NoProcIs
<1>4. CASE proc[p].op \notin {"passwd", "gui"}
  <2> DEFINE r == Mounted(p, proc[p].key)
  <2>1. r \in Records /\ r.pc = "mounted" /\ r.op = proc[p].op /\ r.key = proc[p].key /\ ~r.rev
    BY <1>1, NoProcIs DEF Mounted, Records
  <2>2. To(p, r)
    BY <1>4 DEF Saved
  <2> HIDE DEF r
  <2>3. ShapeOf(r) /\ ~Saves(r) /\ ~Creates(r)
    BY <1>4, <2>1 DEF ShapeOf, Saves, Creates
  <2> QED
    BY <1>2, <1>4, <2>1, <2>2, <2>3
<1> QED
  BY <1>3, <1>4

\* A save that leaves on the disk what it was to save keeps a calm volume.
LEMMA CalmSaved ==
    ASSUME IInv, NEW p \in Procs, Saved(p), proc[p].pc \in {"save", "saving"},
           mishaps = {},
           Config' \in Configs, Config'.key = proc[p].conf.key,
           Config'.opts = proc[p].conf.opts, Config'.word = proc[p].conf.word
    PROVE  CalmKept'
<1>1. /\ Typed /\ ShapeOf(proc[p]) /\ Kept(proc[p])
      /\ \A q \in Procs : Kept(proc[q])
      /\ proc \in [Procs -> Records]
  BY DEF IInv, Shape, CalmKept, Typed
<1>2. proc[p].conf \in Configs /\ proc[p].conf.key \in Keys
  BY <1>1 DEF ShapeOf, Configs
<1>3. PICK r \in Records :
        /\ To(p, r) /\ ~Saves(r) /\ r.pc \in {"idle", "mounted"}
        /\ r.pc = "mounted" =>
             proc[p].op # "passwd" /\ r.op = proc[p].op /\ r.key = proc[p].key
  BY SavedIs
<1>4. proc'[p] = r /\ \A q \in Procs \ {p} : proc'[q] = proc[q]
  BY <1>1, <1>3 DEF To
<1>5. Saves(proc[p]) /\ (proc[p].op # "passwd" <=> Creates(proc[p]))
  BY DEF Saves, Creates
<1>6. data'.key = proc[p].conf.key /\ data'.opts = proc[p].conf.opts /\ data'.key # NoKey
  <2>1. CASE data.key = NoKey
    BY <1>2, <2>1, VolumeAssumption DEF Saved
  <2>2. CASE data.key # NoKey
    <3>1. proc[p].op = "passwd"
      BY <1>1, <1>5, <2>2 DEF Kept, ReadOf
    <3>2. proc[p].conf.key = data.key /\ proc[p].conf.opts = data.opts
      BY <1>1, <3>1 DEF Kept, ChangeOf, Changes
    <3> QED
      BY <2>2, <3>2 DEF Saved
  <2> QED
    BY <2>1, <2>2
<1>7. DiskKept'
  BY <1>6 DEF DiskKept, Saved
<1>8. data.key # NoKey => data' = data
  BY DEF Saved
<1>9. ASSUME NEW q \in Procs \ {p} PROVE Kept(proc[q])'
  <2>1. ~Saves(proc[q]) /\ Kept(proc[q]) /\ proc'[q] = proc[q]
    BY <1>1, <1>4, <1>5, SaverAlone
  <2> QED
    BY <1>8, <2>1 DEF Kept, ReadOf, ChangeOf, Changes, Saves, Creates
<1>10. Kept(proc[p])'
  <2>1. proc[p].op # "passwd" => proc[p].key = proc[p].conf.key
    BY <1>1, <1>5 DEF ShapeOf
  <2> QED
    BY <1>3, <1>4, <1>6, <2>1 DEF Kept, ReadOf, ChangeOf, Changes, Creates
<1> QED
  BY <1>7, <1>9, <1>10 DEF CalmKept

LEMMA SaveWriteStep ==
    ASSUME IInv, NEW p \in Procs, SaveWrite(p) PROVE IInv'
<1>1. /\ Typed /\ Shape /\ CalmKept
      /\ proc[p].pc = "saving" /\ Saved(p) /\ UNCHANGED <<env, mishaps>>
      /\ disk' = [disk EXCEPT !["v6"] = proc[p].conf]
  BY DEF IInv, SaveWrite
<1>2. proc[p].conf \in Configs /\ Saves(proc[p]) /\ "v6" \in Places
  BY <1>1 DEF Shape, ShapeOf, Saves, Places, Order
<1>3. /\ disk' \in [Places -> Configs \cup {Absent, Broken, Unsupported}]
      /\ disk'["v6"] = proc[p].conf
  BY <1>1, <1>2 DEF Typed
<1>4. PICK r \in Records :
        /\ To(p, r) /\ ShapeOf(r) /\ ~Creates(r)
        /\ data' \in [key : Keys \cup {NoKey}, opts : Options] /\ word' \in Words
  BY <1>1, SavedIs
<1>5. Typed' /\ Shape' /\ Alone' /\ Spares'
  BY <1>1, <1>2, <1>3, <1>4, SaveStep DEF Typed, Mishaps
<1>6. CalmKept'
  <2> SUFFICES ASSUME mishaps = {} PROVE CalmKept'
    BY <1>1 DEF CalmKept
  <2>2. Found' = "v6"
    BY <1>2, <1>3, FoundNextIs, VolumeAssumption DEF Present
  <2>3. Loads(proc[p].conf)
    <3>1. CASE proc[p].op = "passwd"
      BY <1>1, <3>1 DEF CalmKept, Kept, ChangeOf, Changes
    <3>2. CASE proc[p].op # "passwd"
      BY <1>1, <1>2, <3>2 DEF Shape, ShapeOf, Creates, Loads
    <3> QED
      BY <3>1, <3>2
  <2>4. Config' = proc[p].conf
    BY <1>3, <2>2, <2>3 DEF Config, Contents
  <2> QED
    BY <1>1, <1>2, <2>4, CalmSaved
<1> QED
  BY <1>5, <1>6 DEF IInv

\* A save of which not all is written is a mishap.
LEMMA SaveLostStep ==
    ASSUME IInv, NEW p \in Procs, SaveLost(p) PROVE IInv'
<1>1. /\ proc[p].pc = "saving" /\ Saved(p) /\ UNCHANGED <<disk, env>>
      /\ mishaps' = mishaps \cup {"full"}
  BY DEF SaveLost, Note
<1>2. PICK r \in Records :
        /\ To(p, r) /\ ShapeOf(r) /\ ~Creates(r)
        /\ data' \in [key : Keys \cup {NoKey}, opts : Options] /\ word' \in Words
  BY <1>1, SavedIs
<1>3. Saves(proc[p])
  BY <1>1 DEF Saves
<1>4. Typed' /\ Shape' /\ Alone' /\ Spares'
  BY <1>1, <1>2, <1>3, SaveStep DEF IInv, Typed, Mishaps
<1> QED
  BY <1>1, <1>4 DEF IInv, CalmKept

LEMMA SavePartStep ==
    ASSUME IInv, NEW p \in Procs, SavePart(p) PROVE IInv'
<1>1. /\ proc[p].pc = "save" /\ To(p, NoProc) /\ UNCHANGED <<env, data, word>>
      /\ disk' = [disk EXCEPT ![proc[p].place] = Broken]
      /\ mishaps' = mishaps \cup {"full"}
  BY DEF SavePart, Note
<1>2. ShapeOf(NoProc) /\ ~Creates(NoProc) /\ Saves(proc[p])
  BY <1>1, NoProcIs DEF ShapeOf, Creates, Saves
<1>3. disk' \in [Places -> Configs \cup {Absent, Broken, Unsupported}]
  BY <1>1 DEF IInv, Typed
<1>4. Typed' /\ Shape' /\ Alone' /\ Spares'
  BY <1>1, <1>2, <1>3, NoProcIs, SaveStep DEF IInv, Typed, Mishaps
<1> QED
  BY <1>1, <1>4 DEF IInv, CalmKept

\* Of the older files only one of version 4 can be replaced without a mishap.
LEMMA SaveOldStep ==
    ASSUME IInv, NEW p \in Procs, SaveOld(p) PROVE IInv'
<1>1. /\ Typed /\ Shape /\ CalmKept
      /\ proc[p].pc = "save" /\ proc[p].place # "v6" /\ Saved(p) /\ UNCHANGED env
  BY DEF IInv, SaveOld
<1>2. PICK grows \in (IF proc[p].place = "v5" THEN {TRUE} ELSE BOOLEAN) :
        /\ disk' = [disk EXCEPT ![proc[p].place] = IF grows THEN Broken ELSE proc[p].conf]
        /\ Note(IF grows THEN {"text"} ELSE {})
  BY DEF SaveOld
<1>3. proc[p].conf \in Configs /\ Saves(proc[p]) /\ ~Creates(proc[p])
  BY <1>1 DEF Shape, ShapeOf, Saves, Creates
<1>4. /\ disk' \in [Places -> Configs \cup {Absent, Broken, Unsupported}]
      /\ mishaps \subseteq mishaps' /\ mishaps' \subseteq Mishaps
  BY <1>1, <1>2, <1>3 DEF Typed, Note, Mishaps
<1>5. PICK r \in Records :
        /\ To(p, r) /\ ShapeOf(r) /\ ~Creates(r)
        /\ data' \in [key : Keys \cup {NoKey}, opts : Options] /\ word' \in Words
  BY <1>1, SavedIs
<1>6. Typed' /\ Shape' /\ Alone' /\ Spares'
  BY <1>1, <1>3, <1>4, <1>5, SaveStep
<1>7. CalmKept'
  <2> SUFFICES ASSUME mishaps' = {} PROVE CalmKept'
    BY DEF CalmKept
  <2>1. mishaps = {} /\ ~grows /\ proc[p].place # "v5"
    BY <1>2, <1>4 DEF Note
  <2>2. Changes(proc[p]) /\ ChangeOf(proc[p]) /\ DiskKept
    BY <1>1, <1>3, <2>1 DEF Creates, Changes, CalmKept, Kept
  <2>3. /\ Found = "v4" /\ proc[p].place = "v4" /\ data.key # NoKey
        /\ Loads(proc[p].conf) /\ proc[p].conf.opts = data.opts
    BY <1>1, <2>1, <2>2 DEF ChangeOf, Places, Order
  <2>4. Quiet
    <3>1. \A q \in Procs \ {p} : ~Saves(proc[q])
      BY <1>3, <2>1, SaverAlone
    <3> QED
      BY <1>1, <3>1 DEF Quiet, Saves
  <2>5. Config = Contents("v4") /\ disk["v4"] \in Configs /\ data.opts = Config.opts
    BY <1>1, <2>2, <2>3, <2>4, ConfigIs DEF DiskKept, Loads
  <2>6. proc[p].conf.opts = Plain
    BY <2>3, <2>5 DEF Contents, Configs
  <2>7. /\ "v4" \in Places /\ "v4" # "v6" /\ "v4" # "v5"
        /\ disk' = [disk EXCEPT !["v4"] = proc[p].conf]
    BY <1>2, <2>1, <2>3 DEF Places, Order
  <2>8. ~Present("v6") /\ ~Present("v5")
    BY <2>3, FoundIs
  <2>9. Found' = "v4" /\ disk'["v4"] = proc[p].conf
    BY <1>1, <1>3, <2>7, <2>8, FoundNextIs, VolumeAssumption DEF Present, Typed
  <2>10. Config' = [proc[p].conf EXCEPT !.opts = Plain]
    BY <2>3, <2>9 DEF Config, Contents
  <2>11. /\ Config' \in Configs /\ Config'.key = proc[p].conf.key
         /\ Config'.opts = proc[p].conf.opts /\ Config'.word = proc[p].conf.word
    BY <1>3, <2>6, <2>10 DEF Configs
  <2> QED
    BY <1>1, <2>1, <2>11, CalmSaved
<1> QED
  BY <1>6, <1>7 DEF IInv

----------------------------------------------------------------------------
(* The theorems.                                                           *)

LEMMA InitIInv == Init => IInv
<1> SUFFICES ASSUME Init PROVE IInv
  OBVIOUS
<1>1. \A p \in Procs : proc[p] = NoProc
  BY DEF Init
<1>2. Plain \in Options
  BY VolumeAssumption
<1>3. Typed
  <2>1. Config \in Configs =>
          [key |-> Config.key, opts |-> Config.opts] \in [key : Keys \cup {NoKey}, opts : Options]
    BY DEF Configs
  <2>2. data \in [key : Keys \cup {NoKey}, opts : Options]
    BY <1>2, <2>1 DEF Init
  <2>3. proc \in [Procs -> Records] /\ word \in Words
    BY NoProcIs DEF Init
  <2> QED
    BY <2>2, <2>3 DEF Init, Typed
<1>4. Shape /\ Alone /\ Spares
  BY <1>1, NoProcIs DEF Shape, ShapeOf, Alone, Spares, SparesOf, Creates, Saves
<1>5. DiskKept
  <2>1. CASE Config \in Configs
    <3>1. data = [key |-> Config.key, opts |-> Config.opts] /\ word = Config.word
      BY <2>1 DEF Init
    <3>2. Config.key \in Keys
      BY <2>1 DEF Configs
    <3> QED
      BY <2>1, <3>1, <3>2, VolumeAssumption DEF DiskKept
  <2>2. CASE Config \notin Configs
    BY <2>2 DEF Init, DiskKept
  <2> QED
    BY <2>1, <2>2
<1>6. \A p \in Procs : Kept(proc[p])
  BY <1>1, NoProcIs DEF Kept, ReadOf, ChangeOf, Creates, Changes
<1> QED
  BY <1>3, <1>4, <1>5, <1>6 DEF IInv, CalmKept

LEMMA NextIInv == IInv /\ [Next]_vars => IInv'
<1> SUFFICES ASSUME IInv, [Next]_vars PROVE IInv'
  OBVIOUS
<1>1. CASE Next
  <2> SUFFICES ASSUME NEW p \in Procs,
                      \/ \E op \in {"mount", "anykey", "passwd"}, rev \in BOOLEAN : Start(p, op, rev)
                      \/ OpenOrCreate(p)
                      \/ Mount(p) \/ PasswdCheck(p) \/ PasswdNew(p) \/ Create(p)
                      \/ SaveOpen(p) \/ SaveWrite(p) \/ SaveLost(p) \/ SaveOld(p) \/ SavePart(p)
                      \/ Stop(p) \/ Crash(p)
               PROVE  IInv'
    BY <1>1 DEF Next
  <2>1. CASE \E op \in {"mount", "anykey", "passwd"}, rev \in BOOLEAN : Start(p, op, rev)
    BY <2>1, StartStep
  <2>2. CASE OpenOrCreate(p)
    BY <2>2, OpenOrCreateStep
  <2>3. CASE Mount(p)
    BY <2>3, MountStep
  <2>4. CASE PasswdCheck(p)
    BY <2>4, PasswdCheckStep
  <2>5. CASE PasswdNew(p)
    BY <2>5, PasswdNewStep
  <2>6. CASE Create(p)
    BY <2>6, CreateStep
  <2>7. CASE SaveOpen(p)
    BY <2>7, SaveOpenStep
  <2>8. CASE SaveWrite(p)
    BY <2>8, SaveWriteStep
  <2>9. CASE SaveLost(p)
    BY <2>9, SaveLostStep
  <2>10. CASE SaveOld(p)
    BY <2>10, SaveOldStep
  <2>11. CASE SavePart(p)
    BY <2>11, SavePartStep
  <2>12. CASE Stop(p) \/ Crash(p)
    BY <2>12, EndStep
  <2> QED
    BY <2>1, <2>2, <2>3, <2>4, <2>5, <2>6, <2>7, <2>8, <2>9, <2>10, <2>11, <2>12
<1>2. CASE UNCHANGED vars
  <2>1. Config' = Config /\ Found' = Found /\ (Quiet' <=> Quiet)
    BY <1>2 DEF vars, Config, Found, Contents, Present, Quiet
  <2>2. Typed' /\ Shape' /\ Alone' /\ Spares'
    BY <1>2 DEF vars, IInv, Typed, Shape, ShapeOf, Alone, Spares, SparesOf
  <2>3. CalmKept'
    BY <1>2, <2>1 DEF vars, IInv, CalmKept, DiskKept, Kept, ReadOf, ChangeOf
  <2> QED
    BY <2>2, <2>3 DEF IInv
<1> QED
  BY <1>1, <1>2

\* In every state: what each process has in hand, that one on its way to save is alone
\* and finds nothing to spare, and that what was read is what is there
\* (readConfig and saveConfig, FileUtils.cpp:326-470, 523-620).
THEOREM Invariant == Spec => []IInv
<1>1. Init => IInv
  BY InitIInv
<1>2. IInv /\ [Next]_vars => IInv'
  BY NextIInv
<1> QED
  BY <1>1, <1>2, PTL DEF Spec

\* Every variable has its type, and a process that is to save with --reverse saves no
\* option that does not go with it (createV6Config, FileUtils.cpp:1017-1113).
THEOREM TypeCorrect == Spec => []TypeOK
<1>1. IInv => TypeOK
  BY DEF IInv, Typed, Shape, ShapeOf, TypeOK, Records
<1> QED
  BY <1>1, Invariant, PTL

\* Whatever is mounted, created and given new passwords, by any number of processes:
\* while no mishap happens the configuration that is found has the key and options of
\* the volume's files, and whoever has it mounted with a password that was checked
\* has that key (readConfig, saveConfig and initFS, FileUtils.cpp:373-395, 523-556,
\* 1567-1696; do_chpasswd, encfsctl.cpp:712-800).
THEOREM KeyAlwaysKept == Spec => []KeyKept
<1>1. IInv => KeyKept
  BY DEF IInv, CalmKept, DiskKept, Kept, ReadOf, KeyKept
<1> QED
  BY <1>1, Invariant, PTL

\* While no mishap happens the password that do_chpasswd or initFS last reported saved
\* decodes the key that will be found (encfsctl.cpp:786).
THEOREM CalmPasswordAlwaysOpens == Spec => []CalmPasswordOpens
<1>1. IInv => CalmPasswordOpens
  BY DEF IInv, CalmKept, DiskKept, CalmPasswordOpens, Opens
<1> QED
  BY <1>1, Invariant, PTL

\* Creating a volume never empties a configuration that could be read, unless another
\* process was on its way to save at the time (initFS, FileUtils.cpp:1672-1679;
\* writeV6Config empties what it opens, FileUtils.cpp:545-556).
THEOREM CreationAlwaysSpares == Spec => CreationSpares
<1>1. IInv /\ [Next]_vars => SparesReadable
  <2> SUFFICES ASSUME IInv, NEW p \in Procs, proc[p].pc = "save", proc[p].op # "passwd",
                      Loads(disk["v6"])
               PROVE  "overlap" \in mishaps
    BY DEF SparesReadable
  <2> QED
    BY DEF IInv, Spares, SparesOf, Creates
<1>2. IInv /\ [Next]_vars => [SparesReadable]_vars
  BY <1>1
<1> QED
  BY <1>2, Invariant, PTL DEF Spec, CreationSpares
=============================================================================
