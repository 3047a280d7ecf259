-------------------------- MODULE FuseFiles_Proofs ---------------------------
(***************************************************************************)
(* The open-file table, whatever the calls and their interleaving: lists   *)
(* and handles agree, share modes are respected, and the two kinds of      *)
(* critical section are taken in one order.  With one thread the map, the  *)
(* lock objects, the handles and the disk agree as well.                   *)
(***************************************************************************)
EXTENDS MCFuseFiles, FiniteSetTheorems, TLAPS

Results == {"none", "ok", "failed", "denied"}
Disps == Creating \cup {"OPEN_EXISTING", "TRUNCATE_EXISTING"}

Early == {"unlink", "trunc", "mknod", "resolve", "get", "enter", "check"}
Calling == Early \cup {"fopen"}
Holding == Early \cup {"fopen", "remove"}
MovePCs == {"mvunlink", "mvcheck", "rename", "renamed", "rnenter"}

\* What a call holds at each place.
CallShape ==
    \A t \in Threads :
        /\ pc[t] \in Calling => call[t].name \in Names
        /\ pc[t] \in Holding <=> call[t].handle \in Handles
        /\ pc[t] \in MovePCs => call[t].name \in Names /\ call[t].to \in Names
        /\ pc[t] \in {"enter", "check", "erase", "rnenter"} => call[t].lock \in LockIds

\* A lock object's critical section is owned by the thread that checks shares.
LockOwner ==
    \A t \in Threads, l \in LockIds :
        lcs[l] = t => pc[t] = "check" /\ call[t].lock = l

\* A handle has one user: a caller, or one thread's call.
HandleUse ==
    \A t \in Threads : call[t].handle \in Handles =>
        /\ call[t].handle \notin opened
        /\ \A u \in Threads \ {t} : call[u].handle # call[t].handle

\* A handle nobody has used yet is in no list and was there before no other.
Unlisted(h) == /\ \A l \in LockIds : h \notin files[l]
               /\ \A g \in Handles : h \notin older[g]
Fresh ==
    \A h \in Handles :
        (h \notin opened /\ \A t \in Threads : call[t].handle = h => pc[t] \in Early)
            => Unlisted(h)

\* Lists and file_lock pointers agree, in the two directions.
Filed == \A l \in LockIds : \A h \in files[l] : hlock[h] = l
Pointing ==
    \A h \in Handles :
        (hlock[h] \in LockIds /\ \A t \in Threads : pc[t] = "check" => call[t].handle # h)
            => h \in files[hlock[h]]
Checking == \A t \in Threads : pc[t] = "check" => hlock[call[t].handle] = call[t].lock

\* ShareRespected, for the deleted lock objects too.
Shared ==
    \A l \in LockIds : \A h \in files[l] : \A g \in older[h] \cap files[l] :
        mode[h].need \subseteq mode[g].share

IInv == /\ TypeOK /\ CallShape /\ LockOwner /\ HandleUse /\ Fresh
        /\ Filed /\ Pointing /\ Checking /\ Shared

----------------------------------------------------------------------------
(* The records a call goes through.                                        *)

LEMMA NoCallType == NoCall \in Calls
  BY NoneAssumption DEF NoCall, Calls, Modes, Creating

LEMMA CallFields ==
    ASSUME NEW c \in Calls
    PROVE  /\ c.name \in Names \cup {NoName} /\ c.to \in Names \cup {NoName}
           /\ c.mode \in Modes /\ c.handle \in Handles \cup {NoHandle}
           /\ c.lock \in LockIds \cup {NoLock} /\ c.wiped \in BOOLEAN
           /\ c.result \in Results
  BY DEF Calls, Results

LEMMA OpeningCall ==
    ASSUME NEW n \in Names, NEW m \in Modes, NEW d \in Disps, NEW h \in Handles
    PROVE  /\ Opening(n, m, d, h) \in Calls
           /\ Opening(n, m, d, h).name = n /\ Opening(n, m, d, h).handle = h
  BY NoCallType DEF Calls, Disps, Opening

LEMMA ClosingCall ==
    ASSUME NEW h \in Handles
    PROVE  Closing(h) \in Calls /\ Closing(h).handle = h
  BY NoCallType DEF Calls, Closing

LEMMA MovingCall ==
    ASSUME NEW n \in Names, NEW m \in Names
    PROVE  /\ Moving(n, m) \in Calls /\ Moving(n, m).handle = NoHandle
           /\ Moving(n, m).name = n /\ Moving(n, m).to = m
  BY NoCallType DEF Calls, Moving, NoCall

LEMMA EndedCall ==
    ASSUME NEW r \in Results, NEW w \in BOOLEAN
    PROVE  Ended(r, w) \in Calls /\ Ended(r, w).handle = NoHandle
  BY NoCallType DEF Calls, Ended, NoCall, Results

LEMMA WipingCall ==
    ASSUME NEW c \in Calls, NEW w \in BOOLEAN
    PROVE  /\ Wiping(c, w) \in Calls /\ Wiping(c, w).handle = c.handle
           /\ Wiping(c, w).name = c.name
  BY DEF Calls, Wiping

LEMMA LockingCall ==
    ASSUME NEW c \in Calls, NEW l \in LockIds \cup {NoLock}
    PROVE  /\ Locking(c, l) \in Calls /\ Locking(c, l).handle = c.handle
           /\ Locking(c, l).name = c.name /\ Locking(c, l).to = c.to
           /\ Locking(c, l).mode = c.mode /\ Locking(c, l).lock = l
  BY DEF Calls, Locking

LEMMA FailingCall ==
    ASSUME NEW c \in Calls
    PROVE  Failing(c) \in Calls /\ Failing(c).handle = c.handle
  BY DEF Calls, Failing

LEMMA ErasingCall ==
    ASSUME NEW c \in Calls, NEW l \in LockIds
    PROVE  /\ Erasing(c, l) \in Calls /\ Erasing(c, l).handle = NoHandle
           /\ Erasing(c, l).lock = l
  BY DEF Calls, Erasing

----------------------------------------------------------------------------
(* Types.                                                                  *)

LEMMA FirstPlace ==
    ASSUME NEW n, NEW d, FirstStep(n, d) # "refused"
    PROVE  FirstStep(n, d) \in {"mknod", "unlink", "trunc", "resolve"}
  BY DEF FirstStep

LEMMA PCType ==
    ASSUME TypeOK, NEW t \in Threads, Step(t)
    PROVE  pc' \in [Threads -> PCs]
<1>a. pc \in [Threads -> PCs]
  BY DEF TypeOK
<1>b. \A x \in PCs : Goto(t, x) => pc' \in [Threads -> PCs]
  BY <1>a DEF Goto
<1>c. UNCHANGED pc => pc' \in [Threads -> PCs]
  BY <1>a
<1>1. CASE CreateFile(t)
  BY <1>a, <1>b, <1>c, <1>1, FirstPlace DEF CreateFile, Return, vars, PCs
<1>2. CASE CreateUnlink(t)
  BY <1>a, <1>b, <1>c, <1>2 DEF CreateUnlink, Return, vars, PCs
<1>3. CASE CreateTruncate(t)
  BY <1>a, <1>b, <1>c, <1>3 DEF CreateTruncate, Return, vars, PCs
<1>4. CASE CreateMknod(t)
  BY <1>a, <1>b, <1>c, <1>4 DEF CreateMknod, Return, vars, PCs
<1>5. CASE OpenResolve(t)
  BY <1>a, <1>b, <1>c, <1>5 DEF OpenResolve, Return, vars, PCs
<1>6. CASE GetFileNew(t)
  BY <1>a, <1>b, <1>c, <1>6 DEF GetFileNew, Return, vars, PCs
<1>7. CASE GetFileFound(t)
  BY <1>a, <1>b, <1>c, <1>7 DEF GetFileFound, Return, vars, PCs
<1>8. CASE GetFileEnter(t)
  BY <1>a, <1>b, <1>c, <1>8 DEF GetFileEnter, Return, vars, PCs
<1>9. CASE GetFileCheck(t)
  BY <1>a, <1>b, <1>c, <1>9 DEF GetFileCheck, Return, vars, PCs
<1>10. CASE OpenFile(t)
  BY <1>a, <1>b, <1>c, <1>10 DEF OpenFile, Return, vars, PCs
<1>11. CASE CloseFile(t)
  BY <1>a, <1>b, <1>c, <1>11 DEF CloseFile, Return, vars, PCs
<1>12. CASE RemoveFile(t)
  BY <1>a, <1>b, <1>c, <1>12 DEF RemoveFile, Return, vars, PCs
<1>13. CASE EraseLock(t)
  BY <1>a, <1>b, <1>c, <1>13 DEF EraseLock, Return, vars, PCs
<1>14. CASE DeleteFile(t)
  BY <1>a, <1>b, <1>c, <1>14 DEF DeleteFile, Return, vars, PCs
<1>15. CASE MoveFile(t)
  BY <1>a, <1>b, <1>c, <1>15 DEF MoveFile, Return, vars, PCs
<1>16. CASE MoveUnlink(t)
  BY <1>a, <1>b, <1>c, <1>16 DEF MoveUnlink, Return, vars, PCs
<1>17. CASE MoveCheck(t)
  BY <1>a, <1>b, <1>c, <1>17 DEF MoveCheck, Return, vars, PCs
<1>18. CASE MoveRename(t)
  BY <1>a, <1>b, <1>c, <1>18 DEF MoveRename, Return, vars, PCs
<1>19. CASE Renamed(t)
  BY <1>a, <1>b, <1>c, <1>19 DEF Renamed, Return, vars, PCs
<1>20. CASE RenamedEnter(t)
  BY <1>a, <1>b, <1>c, <1>20 DEF RenamedEnter, Return, vars, PCs
<1>21. CASE TouchDeleted(t)
  BY <1>a, <1>b, <1>c, <1>21 DEF TouchDeleted, Return, vars, PCs
<1> QED
  BY <1>1, <1>2, <1>3, <1>4, <1>5, <1>6, <1>7, <1>8, <1>9, <1>10, <1>11, <1>12, <1>13, <1>14, <1>15, <1>16, <1>17, <1>18, <1>19, <1>20, <1>21 DEF Step

LEMMA CallType ==
    ASSUME TypeOK, CallShape, NEW t \in Threads, Step(t)
    PROVE  call' \in [Threads -> Calls]
<1>a. call \in [Threads -> Calls] /\ call[t] \in Calls
  BY DEF TypeOK
<1>b. \A c \in Calls : Put(t, c) => call' \in [Threads -> Calls]
  BY <1>a DEF Put
<1>c. \A r \in Results : Return(t, r) => call' \in [Threads -> Calls]
  BY <1>a, <1>b, CallFields, EndedCall DEF Return
<1>d. UNCHANGED call \/ Keep(t) => call' \in [Threads -> Calls]
  BY <1>a DEF Keep
<1>e. pc[t] \in {"get", "renamed"} => call[t].name \in Names
  BY DEF CallShape, Calling, MovePCs, Early
<1>1. CASE CreateFile(t)
  BY <1>a, <1>b, <1>c, <1>d, <1>1, OpeningCall, EndedCall, InputsAssumption DEF CreateFile, Results, vars, Disps, FreeHandles
<1>2. CASE CreateUnlink(t)
  BY <1>a, <1>b, <1>c, <1>d, <1>2, WipingCall DEF CreateUnlink, Results, vars
<1>3. CASE CreateTruncate(t)
  BY <1>a, <1>b, <1>c, <1>d, <1>3, WipingCall DEF CreateTruncate, Results, vars
<1>4. CASE CreateMknod(t)
  BY <1>a, <1>b, <1>c, <1>d, <1>4 DEF CreateMknod, Results, vars
<1>5. CASE OpenResolve(t)
  BY <1>a, <1>b, <1>c, <1>d, <1>5 DEF OpenResolve, Results, vars
<1>6. CASE GetFileNew(t)
  BY <1>a, <1>b, <1>c, <1>d, <1>6 DEF GetFileNew, Results, vars
<1>7. CASE GetFileFound(t)
  BY <1>e, <1>a, <1>b, <1>c, <1>d, <1>7, LockingCall, CallFields, NoneAssumption DEF GetFileFound, At, Results, vars, TypeOK
<1>8. CASE GetFileEnter(t)
  BY <1>a, <1>b, <1>c, <1>d, <1>8 DEF GetFileEnter, Results, vars
<1>9. CASE GetFileCheck(t)
  BY <1>a, <1>b, <1>c, <1>d, <1>9, LockingCall DEF GetFileCheck, Results, vars
<1>10. CASE OpenFile(t)
  BY <1>a, <1>b, <1>c, <1>d, <1>10, FailingCall DEF OpenFile, Results, vars
<1>11. CASE CloseFile(t)
  BY <1>a, <1>b, <1>c, <1>d, <1>11, ClosingCall DEF CloseFile, Results, vars, TypeOK
<1>12. CASE RemoveFile(t)
  BY <1>a, <1>b, <1>c, <1>d, <1>12, ErasingCall, CallFields DEF RemoveFile, Results, vars, TypeOK
<1>13. CASE EraseLock(t)
  BY <1>a, <1>b, <1>c, <1>d, <1>13, CallFields DEF EraseLock, Results, vars
<1>14. CASE DeleteFile(t)
  BY <1>a, <1>b, <1>c, <1>d, <1>14 DEF DeleteFile, Results, vars
<1>15. CASE MoveFile(t)
  BY <1>a, <1>b, <1>c, <1>d, <1>15, MovingCall, InputsAssumption DEF MoveFile, Results, vars
<1>16. CASE MoveUnlink(t)
  BY <1>a, <1>b, <1>c, <1>d, <1>16 DEF MoveUnlink, Results, vars
<1>17. CASE MoveCheck(t)
  BY <1>a, <1>b, <1>c, <1>d, <1>17 DEF MoveCheck, Results, vars
<1>18. CASE MoveRename(t)
  BY <1>a, <1>b, <1>c, <1>d, <1>18 DEF MoveRename, Results, vars
<1>19. CASE Renamed(t)
  BY <1>e, <1>a, <1>b, <1>c, <1>d, <1>19, LockingCall, CallFields DEF Renamed, At, Results, vars, TypeOK
<1>20. CASE RenamedEnter(t)
  BY <1>a, <1>b, <1>c, <1>d, <1>20 DEF RenamedEnter, Results, vars
<1>21. CASE TouchDeleted(t)
  BY <1>a, <1>b, <1>c, <1>d, <1>21 DEF TouchDeleted, Results, vars
<1> QED
  BY <1>1, <1>2, <1>3, <1>4, <1>5, <1>6, <1>7, <1>8, <1>9, <1>10, <1>11, <1>12, <1>13, <1>14, <1>15, <1>16, <1>17, <1>18, <1>19, <1>20, <1>21 DEF Step

\* The thread that takes a step is the only one whose call and place change.
LEMMA OthersKeep ==
    ASSUME TypeOK, NEW t \in Threads, Step(t), NEW u \in Threads, u # t
    PROVE  pc'[u] = pc[u] /\ call'[u] = call[u]
<1>a. pc \in [Threads -> PCs] /\ call \in [Threads -> Calls]
  BY DEF TypeOK
<1>b. \A x : Goto(t, x) => pc'[u] = pc[u]
  BY <1>a DEF Goto
<1>c. \A c : Put(t, c) => call'[u] = call[u]
  BY <1>a DEF Put
<1>d. UNCHANGED call \/ Keep(t) => call'[u] = call[u]
  BY DEF Keep
<1>1. CASE CreateFile(t)
  BY <1>a, <1>b, <1>c, <1>d, <1>1 DEF CreateFile, Return, vars, Goto
<1>2. CASE CreateUnlink(t)
  BY <1>a, <1>b, <1>c, <1>d, <1>2 DEF CreateUnlink, Return, vars
<1>3. CASE CreateTruncate(t)
  BY <1>a, <1>b, <1>c, <1>d, <1>3 DEF CreateTruncate, Return, vars
<1>4. CASE CreateMknod(t)
  BY <1>a, <1>b, <1>c, <1>d, <1>4 DEF CreateMknod, Return, vars
<1>5. CASE OpenResolve(t)
  BY <1>a, <1>b, <1>c, <1>d, <1>5 DEF OpenResolve, Return, vars
<1>6. CASE GetFileNew(t)
  BY <1>a, <1>b, <1>c, <1>d, <1>6 DEF GetFileNew, Return, vars
<1>7. CASE GetFileFound(t)
  BY <1>a, <1>b, <1>c, <1>d, <1>7 DEF GetFileFound, Return, vars
<1>8. CASE GetFileEnter(t)
  BY <1>a, <1>b, <1>c, <1>d, <1>8 DEF GetFileEnter, Return, vars
<1>9. CASE GetFileCheck(t)
  BY <1>a, <1>b, <1>c, <1>d, <1>9 DEF GetFileCheck, Return, vars
<1>10. CASE OpenFile(t)
  BY <1>a, <1>b, <1>c, <1>d, <1>10 DEF OpenFile, Return, vars
<1>11. CASE CloseFile(t)
  BY <1>a, <1>b, <1>c, <1>d, <1>11 DEF CloseFile, Return, vars
<1>12. CASE RemoveFile(t)
  BY <1>a, <1>b, <1>c, <1>d, <1>12 DEF RemoveFile, Return, vars
<1>13. CASE EraseLock(t)
  BY <1>a, <1>b, <1>c, <1>d, <1>13 DEF EraseLock, Return, vars
<1>14. CASE DeleteFile(t)
  BY <1>a, <1>b, <1>c, <1>d, <1>14 DEF DeleteFile, Return, vars
<1>15. CASE MoveFile(t)
  BY <1>a, <1>b, <1>c, <1>d, <1>15 DEF MoveFile, Return, vars
<1>16. CASE MoveUnlink(t)
  BY <1>a, <1>b, <1>c, <1>d, <1>16 DEF MoveUnlink, Return, vars
<1>17. CASE MoveCheck(t)
  BY <1>a, <1>b, <1>c, <1>d, <1>17 DEF MoveCheck, Return, vars
<1>18. CASE MoveRename(t)
  BY <1>a, <1>b, <1>c, <1>d, <1>18 DEF MoveRename, Return, vars
<1>19. CASE Renamed(t)
  BY <1>a, <1>b, <1>c, <1>d, <1>19 DEF Renamed, Return, vars
<1>20. CASE RenamedEnter(t)
  BY <1>a, <1>b, <1>c, <1>d, <1>20 DEF RenamedEnter, Return, vars
<1>21. CASE TouchDeleted(t)
  BY <1>a, <1>b, <1>c, <1>d, <1>21 DEF TouchDeleted, Return, vars
<1> QED
  BY <1>1, <1>2, <1>3, <1>4, <1>5, <1>6, <1>7, <1>8, <1>9, <1>10, <1>11, <1>12, <1>13, <1>14, <1>15, <1>16, <1>17, <1>18, <1>19, <1>20, <1>21 DEF Step

\* Where a step takes its thread, and with which call.
LEMMA StepTarget ==
    ASSUME TypeOK, NEW t \in Threads
    PROVE  /\ \A x \in PCs : Goto(t, x) => pc'[t] = x
           /\ \A c : Put(t, c) => call'[t] = c
           /\ (UNCHANGED call \/ Keep(t)) => call'[t] = call[t]
           /\ \A r \in Results : Return(t, r) => pc'[t] = "idle" /\ call'[t].handle = NoHandle
<1>a. pc \in [Threads -> PCs] /\ call \in [Threads -> Calls] /\ call[t].wiped \in BOOLEAN
  BY CallFields DEF TypeOK
<1> QED
  BY <1>a, EndedCall DEF Goto, Put, Keep, Return, PCs

LEMMA ShapeInv ==
    ASSUME TypeOK, CallShape, NEW t \in Threads, Step(t)
    PROVE  CallShape'
<1> DEFINE Shape(p, c) ==
             /\ p \in Calling => c.name \in Names
             /\ p \in Holding <=> c.handle \in Handles
             /\ p \in MovePCs => c.name \in Names /\ c.to \in Names
             /\ p \in {"enter", "check", "erase", "rnenter"} => c.lock \in LockIds
<1>a. Shape(pc[t], call[t])
  BY DEF CallShape
<1>b. call[t] \in Calls /\ NoHandle \notin Handles
  BY NoneAssumption DEF TypeOK
<1> USE DEF Early, Calling, Holding, MovePCs, PCs, At
<1>c. Shape(pc'[t], call'[t])
  <2>1. CASE CreateFile(t)
    <3>1. PICK n \in Names, m \in Shares, d \in Dispositions, h \in Handles :
            \/ /\ FirstStep(n, d) # "refused" /\ Goto(t, FirstStep(n, d))
               /\ Put(t, Opening(n, m, d, h))
            \/ UNCHANGED pc /\ pc[t] = "idle" /\ Put(t, Ended("failed", FALSE))
      BY <2>1 DEF CreateFile, FreeHandles
    <3>2. m \in Modes /\ d \in Disps
      BY InputsAssumption DEF Disps
    <3>3. CASE UNCHANGED pc /\ pc[t] = "idle" /\ Put(t, Ended("failed", FALSE))
      BY <1>b, <3>3, StepTarget, EndedCall DEF Results
    <3>4. CASE FirstStep(n, d) # "refused" /\ Goto(t, FirstStep(n, d)) /\ Put(t, Opening(n, m, d, h))
      <4>1. pc'[t] \in {"mknod", "unlink", "trunc", "resolve"}
        BY <3>4, StepTarget, FirstPlace
      <4>2. call'[t] = Opening(n, m, d, h)
        BY <3>4, StepTarget
      <4> QED
        BY <1>b, <3>2, <4>1, <4>2, OpeningCall
    <3> QED
      BY <3>1, <3>3, <3>4
  <2>2. CASE CreateUnlink(t)
    <3>1. pc[t] = "unlink"
      BY <2>2 DEF CreateUnlink, At
    <3>2. \/ Goto(t, "mknod") /\ \E w \in BOOLEAN : Put(t, Wiping(call[t], w))
          \/ Return(t, "failed")
      BY <2>2, ZenonT(20) DEF CreateUnlink
    <3>3. CASE Return(t, "failed")
      BY <1>b, <3>3, StepTarget DEF Results, Return
    <3>4. CASE Goto(t, "mknod") /\ \E w \in BOOLEAN : Put(t, Wiping(call[t], w))
      <4>1. PICK w \in BOOLEAN : Put(t, Wiping(call[t], w))
        BY <3>4
      <4>2. pc'[t] = "mknod" /\ call'[t] = Wiping(call[t], w)
        BY <3>4, <4>1, StepTarget DEF PCs
      <4> QED
        BY <1>a, <1>b, <3>1, <4>2, WipingCall
    <3> QED
      BY <3>2, <3>3, <3>4
  <2>3. CASE CreateTruncate(t)
    <3>1. pc[t] = "trunc"
      BY <2>3 DEF CreateTruncate, At
    <3>2. \/ Goto(t, "resolve") /\ \E w \in BOOLEAN : Put(t, Wiping(call[t], w))
          \/ Return(t, "failed")
      BY <2>3, ZenonT(20) DEF CreateTruncate
    <3>3. CASE Return(t, "failed")
      BY <1>b, <3>3, StepTarget DEF Results, Return
    <3>4. CASE Goto(t, "resolve") /\ \E w \in BOOLEAN : Put(t, Wiping(call[t], w))
      <4>1. PICK w \in BOOLEAN : Put(t, Wiping(call[t], w))
        BY <3>4
      <4>2. pc'[t] = "resolve" /\ call'[t] = Wiping(call[t], w)
        BY <3>4, <4>1, StepTarget DEF PCs
      <4> QED
        BY <1>a, <1>b, <3>1, <4>2, WipingCall
    <3> QED
      BY <3>2, <3>3, <3>4
  <2>4. CASE CreateMknod(t)
    BY <1>a, <1>b, <2>4, StepTarget DEF CreateMknod, Results, vars
  <2>5. CASE OpenResolve(t)
    BY <1>a, <1>b, <2>5, StepTarget DEF OpenResolve, Results, vars
  <2>6. CASE GetFileNew(t)
    BY <1>a, <1>b, <2>6, StepTarget DEF GetFileNew, Results, vars
  <2>7. CASE GetFileFound(t)
    BY <1>a, <1>b, <2>7, StepTarget, LockingCall, CallFields, NoneAssumption DEF GetFileFound, Results, vars, TypeOK
  <2>8. CASE GetFileEnter(t)
    BY <1>a, <1>b, <2>8, StepTarget DEF GetFileEnter, Results, vars
  <2>9. CASE GetFileCheck(t)
    BY <1>a, <1>b, <2>9, StepTarget, LockingCall DEF GetFileCheck, Results, vars
  <2>10. CASE OpenFile(t)
    BY <1>a, <1>b, <2>10, StepTarget, FailingCall DEF OpenFile, Results, vars
  <2>11. CASE CloseFile(t)
    BY <1>a, <1>b, <2>11, StepTarget, ClosingCall DEF CloseFile, Results, vars, TypeOK
  <2>12. CASE RemoveFile(t)
    <3>1. call[t].result \in Results
      BY <1>b, CallFields
    <3>2. alive \subseteq LockIds
      BY DEF TypeOK
    <3>3. \/ pc'[t] = "idle" /\ call'[t].handle = NoHandle
          \/ \E l \in LockIds : pc'[t] = "erase" /\ call'[t] = Erasing(call[t], l)
      BY <2>12, <3>1, <3>2, StepTarget DEF RemoveFile
    <3> QED
      BY <1>b, <3>3, ErasingCall
  <2>13. CASE EraseLock(t)
    BY <1>a, <1>b, <2>13, StepTarget, CallFields DEF EraseLock, Results, vars
  <2>14. CASE DeleteFile(t)
    BY <1>a, <1>b, <2>14, StepTarget DEF DeleteFile, Results, vars
  <2>15. CASE MoveFile(t)
    BY <1>a, <1>b, <2>15, StepTarget, MovingCall, InputsAssumption DEF MoveFile, Results, vars
  <2>16. CASE MoveUnlink(t)
    BY <1>a, <1>b, <2>16, StepTarget DEF MoveUnlink, Results, vars
  <2>17. CASE MoveCheck(t)
    BY <1>a, <1>b, <2>17, StepTarget DEF MoveCheck, Results, vars
  <2>18. CASE MoveRename(t)
    BY <1>a, <1>b, <2>18, StepTarget DEF MoveRename, Results, vars
  <2>19. CASE Renamed(t)
    BY <1>a, <1>b, <2>19, StepTarget, LockingCall, CallFields DEF Renamed, Results, vars, TypeOK
  <2>20. CASE RenamedEnter(t)
    BY <1>a, <1>b, <2>20, StepTarget DEF RenamedEnter, Results, vars
  <2>21. CASE TouchDeleted(t)
    BY <1>a, <1>b, <2>21, StepTarget DEF TouchDeleted, Results, vars
  <2> QED
    BY <2>1, <2>2, <2>3, <2>4, <2>5, <2>6, <2>7, <2>8, <2>9, <2>10, <2>11, <2>12, <2>13, <2>14, <2>15, <2>16, <2>17, <2>18, <2>19, <2>20, <2>21 DEF Step
<1> HIDE DEF Shape
<1>d. ASSUME NEW u \in Threads
      PROVE  Shape(pc'[u], call'[u])
  BY <1>c, OthersKeep DEF CallShape, Shape
<1> QED
  BY <1>d DEF CallShape, Shape

\* The conjuncts of TypeOK about the table, the handles and the disk.
LEMMA RestType ==
    ASSUME TypeOK, CallShape, NEW t \in Threads, Step(t)
    PROVE  /\ table' \in [Names -> LockIds \cup {NoLock}]
           /\ alive' \subseteq LockIds
           /\ lname' \in [LockIds -> Names \cup {NoName}]
           /\ files' \in [LockIds -> SUBSET Handles]
           /\ lcs' \in [LockIds -> Threads \cup {NoThread}]
           /\ gcs' \in Threads \cup {NoThread}
           /\ hlock' \in [Handles -> LockIds \cup {NoLock}]
           /\ mode' \in [Handles -> Modes]
           /\ older' \in [Handles -> SUBSET Handles]
           /\ opened' \subseteq Handles
           /\ hfile' \in [Handles -> Names \cup {NoName}]
           /\ disk' \in [Names -> {"none", "data", "empty", "pending"}]
           /\ freedUse' \in BOOLEAN
<1>a. /\ call[t].mode \in Modes
      /\ pc[t] \in Calling \cup MovePCs => call[t].name \in Names
      /\ pc[t] \in Holding => call[t].handle \in Handles
      /\ pc[t] \in MovePCs => call[t].to \in Names
      /\ pc[t] \in {"enter", "check", "erase", "rnenter"} => call[t].lock \in LockIds
  BY CallFields DEF TypeOK, CallShape
<1> USE DEF TypeOK, tvars, hvars, dvars, vars, At
<1>1. CASE CreateFile(t)
  BY <1>a, <1>1 DEF CreateFile, Early, Calling, Holding, MovePCs
<1>2. CASE CreateUnlink(t)
  BY <1>a, <1>2 DEF CreateUnlink, Early, Calling, Holding, MovePCs, Unlinked
<1>3. CASE CreateTruncate(t)
  BY <1>a, <1>3 DEF CreateTruncate, Early, Calling, Holding, MovePCs
<1>4. CASE CreateMknod(t)
  BY <1>a, <1>4 DEF CreateMknod, Early, Calling, Holding, MovePCs
<1>5. CASE OpenResolve(t)
  BY <1>a, <1>5 DEF OpenResolve, Early, Calling, Holding, MovePCs
<1>6. CASE GetFileNew(t)
  BY <1>a, <1>6 DEF GetFileNew, Early, Calling, Holding, MovePCs, AddFile, FreshLocks
<1>7. CASE GetFileFound(t)
  BY <1>a, <1>7 DEF GetFileFound, Early, Calling, Holding, MovePCs
<1>8. CASE GetFileEnter(t)
  BY <1>a, <1>8 DEF GetFileEnter, Early, Calling, Holding, MovePCs
<1>9. CASE GetFileCheck(t)
  BY <1>a, <1>9 DEF GetFileCheck, Early, Calling, Holding, MovePCs, AddFile
<1>10. CASE OpenFile(t)
  BY <1>a, <1>10 DEF OpenFile, Early, Calling, Holding, MovePCs
<1>11. CASE CloseFile(t)
  BY <1>a, <1>11 DEF CloseFile, Early, Calling, Holding, MovePCs
<1>12. CASE RemoveFile(t)
  BY <1>a, <1>12 DEF RemoveFile, Early, Calling, Holding, MovePCs, Forget, NoCall, Modes
<1>13. CASE EraseLock(t)
  BY <1>a, <1>13 DEF EraseLock, Early, Calling, Holding, MovePCs
<1>14. CASE DeleteFile(t)
  BY <1>a, <1>14 DEF DeleteFile, Early, Calling, Holding, MovePCs, Unlinked
<1>15. CASE MoveFile(t)
  BY <1>a, <1>15 DEF MoveFile, Early, Calling, Holding, MovePCs
<1>16. CASE MoveUnlink(t)
  BY <1>a, <1>16 DEF MoveUnlink, Early, Calling, Holding, MovePCs, Unlinked
<1>17. CASE MoveCheck(t)
  BY <1>a, <1>17 DEF MoveCheck, Early, Calling, Holding, MovePCs
<1>18. CASE MoveRename(t)
  BY <1>a, <1>18 DEF MoveRename, Early, Calling, Holding, MovePCs
<1>19. CASE Renamed(t)
  BY <1>a, <1>19 DEF Renamed, Early, Calling, Holding, MovePCs
<1>20. CASE RenamedEnter(t)
  BY <1>a, <1>20 DEF RenamedEnter, Early, Calling, Holding, MovePCs
<1>21. CASE TouchDeleted(t)
  BY <1>a, <1>21 DEF TouchDeleted, Early, Calling, Holding, MovePCs
<1> QED
  BY <1>1, <1>2, <1>3, <1>4, <1>5, <1>6, <1>7, <1>8, <1>9, <1>10, <1>11, <1>12, <1>13, <1>14, <1>15, <1>16, <1>17, <1>18, <1>19, <1>20, <1>21 DEF Step

----------------------------------------------------------------------------
(* Handles.                                                                *)

\* Where the handle of a step's call comes from, and what happens to opened.
LEMMA NextHandle ==
    ASSUME TypeOK, CallShape, NEW t \in Threads, Step(t)
    PROVE  \/ call'[t].handle \in {call[t].handle, NoHandle} /\ opened' = opened
           \/ /\ call'[t].handle \in FreeHandles /\ opened' = opened
              /\ pc'[t] \in Early
           \/ /\ call'[t].handle \in opened /\ opened' = opened \ {call'[t].handle}
              /\ pc'[t] = "remove"
           \/ /\ call'[t].handle = NoHandle /\ opened' = opened \cup {call[t].handle}
              /\ pc[t] = "fopen"
<1>a. call[t] \in Calls /\ call[t].result \in Results
  BY CallFields DEF TypeOK
<1>b. pc[t] \in Holding <=> call[t].handle \in Handles
  BY DEF CallShape
<1> USE DEF tvars, hvars, dvars, vars, At, PCs, Results
<1>1. CASE CreateFile(t)
  <2>1. PICK n \in Names, m \in Shares, d \in Dispositions, h \in FreeHandles :
          \/ /\ FirstStep(n, d) # "refused" /\ Goto(t, FirstStep(n, d))
             /\ Put(t, Opening(n, m, d, h))
          \/ Put(t, Ended("failed", FALSE))
    BY <1>1 DEF CreateFile
  <2>2. m \in Modes /\ d \in Disps /\ h \in Handles
    BY InputsAssumption DEF Disps, FreeHandles
  <2>3. opened' = opened
    BY <1>1 DEF CreateFile
  <2>4. CASE Put(t, Ended("failed", FALSE))
    BY <2>3, <2>4, StepTarget, EndedCall
  <2>5. CASE FirstStep(n, d) # "refused" /\ Goto(t, FirstStep(n, d)) /\ Put(t, Opening(n, m, d, h))
    <3>1. pc'[t] \in Early
      BY <2>5, StepTarget, FirstPlace DEF Early
    <3> QED
      BY <2>2, <2>3, <2>5, <3>1, StepTarget, OpeningCall
  <2> QED
    BY <2>1, <2>4, <2>5
<1>2. CASE CreateUnlink(t)
  <2>1. opened' = opened
    BY <1>2 DEF CreateUnlink
  <2>2. (\E w \in BOOLEAN : Put(t, Wiping(call[t], w))) \/ Return(t, "failed")
    BY <1>2, ZenonT(20) DEF CreateUnlink
  <2> QED
    BY <1>a, <2>1, <2>2, StepTarget, WipingCall
<1>3. CASE CreateTruncate(t)
  <2>1. opened' = opened
    BY <1>3 DEF CreateTruncate
  <2>2. (\E w \in BOOLEAN : Put(t, Wiping(call[t], w))) \/ Return(t, "failed")
    BY <1>3, ZenonT(20) DEF CreateTruncate
  <2> QED
    BY <1>a, <2>1, <2>2, StepTarget, WipingCall
<1>4. CASE CreateMknod(t)
  BY <1>a, <1>b, <1>4, StepTarget DEF CreateMknod
<1>5. CASE OpenResolve(t)
  BY <1>a, <1>b, <1>5, StepTarget DEF OpenResolve
<1>6. CASE GetFileNew(t)
  BY <1>a, <1>b, <1>6, StepTarget DEF GetFileNew
<1>7. CASE GetFileFound(t)
  BY <1>a, <1>b, <1>7, StepTarget, LockingCall, CallFields, NoneAssumption DEF GetFileFound, TypeOK, CallShape, Calling, Early
<1>8. CASE GetFileEnter(t)
  BY <1>a, <1>b, <1>8, StepTarget DEF GetFileEnter
<1>9. CASE GetFileCheck(t)
  BY <1>a, <1>b, <1>9, StepTarget, LockingCall DEF GetFileCheck
<1>10. CASE OpenFile(t)
  BY <1>a, <1>b, <1>10, StepTarget, FailingCall DEF OpenFile
<1>11. CASE CloseFile(t)
  BY <1>a, <1>b, <1>11, StepTarget, ClosingCall DEF CloseFile, TypeOK
<1>12. CASE RemoveFile(t)
  BY <1>a, <1>b, <1>12, StepTarget, ErasingCall DEF RemoveFile, TypeOK
<1>13. CASE EraseLock(t)
  BY <1>a, <1>b, <1>13, StepTarget DEF EraseLock
<1>14. CASE DeleteFile(t)
  BY <1>a, <1>b, <1>14, StepTarget DEF DeleteFile
<1>15. CASE MoveFile(t)
  BY <1>a, <1>b, <1>15, StepTarget, MovingCall, InputsAssumption DEF MoveFile
<1>16. CASE MoveUnlink(t)
  BY <1>a, <1>b, <1>16, StepTarget DEF MoveUnlink
<1>17. CASE MoveCheck(t)
  BY <1>a, <1>b, <1>17, StepTarget DEF MoveCheck
<1>18. CASE MoveRename(t)
  BY <1>a, <1>b, <1>18, StepTarget DEF MoveRename
<1>19. CASE Renamed(t)
  BY <1>a, <1>b, <1>19, StepTarget, LockingCall, CallFields DEF Renamed, TypeOK, CallShape, MovePCs
<1>20. CASE RenamedEnter(t)
  BY <1>a, <1>b, <1>20, StepTarget DEF RenamedEnter
<1>21. CASE TouchDeleted(t)
  BY <1>a, <1>b, <1>21, StepTarget DEF TouchDeleted
<1> QED
  BY <1>1, <1>2, <1>3, <1>4, <1>5, <1>6, <1>7, <1>8, <1>9, <1>10, <1>11, <1>12, <1>13, <1>14, <1>15, <1>16, <1>17, <1>18, <1>19, <1>20, <1>21 DEF Step

LEMMA HandleUseInv ==
    ASSUME TypeOK, CallShape, HandleUse, NEW t \in Threads, Step(t)
    PROVE  HandleUse'
<1>a. \A u \in Threads \ {t} : call'[u].handle = call[u].handle
  BY OthersKeep
<1>b. NoHandle \notin Handles /\ opened \subseteq Handles
  BY NoneAssumption DEF TypeOK
<1>1. CASE call'[t].handle \in {call[t].handle, NoHandle} /\ opened' = opened
  BY <1>a, <1>b, <1>1 DEF HandleUse
<1>2. CASE call'[t].handle \in FreeHandles /\ opened' = opened
  BY <1>a, <1>b, <1>2 DEF HandleUse, FreeHandles
<1>3. CASE call'[t].handle \in opened /\ opened' = opened \ {call'[t].handle}
  BY <1>a, <1>b, <1>3 DEF HandleUse
<1>4. CASE call'[t].handle = NoHandle /\ opened' = opened \cup {call[t].handle}
  BY <1>a, <1>b, <1>4 DEF HandleUse
<1> QED
  BY <1>1, <1>2, <1>3, <1>4, NextHandle

----------------------------------------------------------------------------
(* Lists and critical sections.                                            *)

lists == <<files, hlock, mode, older, lcs>>

\* Four actions touch the lists; the others leave them alone, and let go of a
\* handle only before it is listed, or to a caller, or to be removed.
LEMMA ListStep ==
    ASSUME TypeOK, CallShape, NEW t \in Threads, Step(t)
    PROVE  \/ GetFileNew(t) \/ GetFileEnter(t) \/ GetFileCheck(t) \/ RemoveFile(t)
           \/ /\ UNCHANGED lists
              /\ pc[t] \notin {"check", "remove"} \/ UNCHANGED <<pc, call, opened>>
              /\ pc'[t] # "check" \/ UNCHANGED <<pc, call, opened>>
              /\ pc[t] = "fopen" =>
                    \/ opened' = opened \cup {call[t].handle}
                    \/ call'[t].handle = call[t].handle /\ pc'[t] = "remove"
<1>a. call[t] \in Calls
  BY DEF TypeOK
<1> USE DEF tvars, hvars, dvars, vars, At, PCs, Results, lists
<1>1. CASE CreateFile(t)
  <2>1. pc[t] = "idle" /\ UNCHANGED lists
    BY <1>1 DEF CreateFile
  <2>2. pc'[t] # "check"
    BY <1>1, <2>1, StepTarget, FirstPlace DEF CreateFile
  <2> QED
    BY <2>1, <2>2
<1>2. CASE CreateUnlink(t)
  BY <1>a, <1>2, StepTarget DEF CreateUnlink
<1>3. CASE CreateTruncate(t)
  BY <1>a, <1>3, StepTarget DEF CreateTruncate
<1>4. CASE CreateMknod(t)
  BY <1>a, <1>4, StepTarget DEF CreateMknod
<1>5. CASE OpenResolve(t)
  BY <1>a, <1>5, StepTarget DEF OpenResolve
<1>6. CASE GetFileNew(t)
  BY <1>6
<1>7. CASE GetFileFound(t)
  BY <1>a, <1>7, StepTarget DEF GetFileFound
<1>8. CASE GetFileEnter(t)
  BY <1>8
<1>9. CASE GetFileCheck(t)
  BY <1>9
<1>10. CASE OpenFile(t)
  BY <1>a, <1>10, StepTarget, FailingCall DEF OpenFile
<1>11. CASE CloseFile(t)
  BY <1>a, <1>11, StepTarget DEF CloseFile
<1>12. CASE RemoveFile(t)
  BY <1>12
<1>13. CASE EraseLock(t)
  BY <1>a, <1>13, StepTarget, CallFields DEF EraseLock
<1>14. CASE DeleteFile(t)
  BY <1>a, <1>14, StepTarget DEF DeleteFile
<1>15. CASE MoveFile(t)
  BY <1>a, <1>15, StepTarget DEF MoveFile
<1>16. CASE MoveUnlink(t)
  BY <1>a, <1>16, StepTarget DEF MoveUnlink
<1>17. CASE MoveCheck(t)
  BY <1>a, <1>17, StepTarget DEF MoveCheck
<1>18. CASE MoveRename(t)
  BY <1>a, <1>18, StepTarget DEF MoveRename
<1>19. CASE Renamed(t)
  BY <1>a, <1>19, StepTarget DEF Renamed
<1>20. CASE RenamedEnter(t)
  BY <1>a, <1>20, StepTarget DEF RenamedEnter
<1>21. CASE TouchDeleted(t)
  BY <1>a, <1>21, StepTarget DEF TouchDeleted, Target
<1> QED
  BY <1>1, <1>2, <1>3, <1>4, <1>5, <1>6, <1>7, <1>8, <1>9, <1>10, <1>11, <1>12, <1>13, <1>14, <1>15, <1>16, <1>17, <1>18, <1>19, <1>20, <1>21 DEF Step

LEMMA LockOwnerInv ==
    ASSUME TypeOK, CallShape, LockOwner, NEW t \in Threads, Step(t)
    PROVE  LockOwner'
<1>a. \A u \in Threads \ {t} : call'[u] = call[u] /\ pc'[u] = pc[u]
  BY OthersKeep
<1>b. NoThread \notin Threads /\ lcs \in [LockIds -> Threads \cup {NoThread}]
  BY NoneAssumption DEF TypeOK
<1>1. CASE UNCHANGED lists /\ (pc[t] # "check" \/ UNCHANGED <<pc, call>>)
  BY <1>a, <1>1 DEF LockOwner, lists
<1>2. CASE GetFileNew(t)
  BY <1>a, <1>2 DEF LockOwner, GetFileNew, At
<1>3. CASE GetFileEnter(t)
  <2>1. pc'[t] = "check" /\ call'[t] = call[t]
    BY <1>3, StepTarget DEF GetFileEnter, PCs
  <2>2. pc[t] = "enter" /\ lcs' = [lcs EXCEPT ![call[t].lock] = t]
    BY <1>3 DEF GetFileEnter, At
  <2> QED
    BY <1>a, <1>b, <2>1, <2>2 DEF LockOwner
<1>4. CASE GetFileCheck(t)
  <2>1. lcs' = [lcs EXCEPT ![call[t].lock] = NoThread]
    BY <1>4 DEF GetFileCheck
  <2> QED
    BY <1>a, <1>b, <2>1 DEF LockOwner
<1>5. CASE RemoveFile(t)
  BY <1>a, <1>5 DEF LockOwner, RemoveFile, At
<1> QED
  BY <1>1, <1>2, <1>3, <1>4, <1>5, ListStep

LEMMA CheckingInv ==
    ASSUME IInv, NEW t \in Threads, Step(t)
    PROVE  Checking'
<1> USE DEF IInv
<1>a. \A u \in Threads \ {t} : call'[u] = call[u] /\ pc'[u] = pc[u]
  BY OthersKeep
<1>b. \A u \in Threads : pc[u] = "check" => call[u].handle \in Handles
  BY DEF CallShape, Holding, Early
<1>c. hlock \in [Handles -> LockIds \cup {NoLock}]
  BY DEF TypeOK
<1>1. CASE UNCHANGED lists /\ (pc'[t] # "check" \/ UNCHANGED <<pc, call>>)
  BY <1>a, <1>1 DEF Checking, lists
<1>2. ASSUME NEW h \in Handles, NEW l, hlock' = [hlock EXCEPT ![h] = l],
             call[t].handle = h, pc'[t] # "check"
      PROVE  Checking'
  <2>1. \A u \in Threads \ {t} : call[u].handle # h
    BY <1>2 DEF HandleUse
  <2> QED
    BY <1>a, <1>b, <1>c, <1>2, <2>1 DEF Checking
<1>3. CASE GetFileNew(t)
  <2>1. call[t].handle \in Handles /\ pc'[t] = "fopen"
    BY <1>3, StepTarget DEF GetFileNew, At, CallShape, Holding, Early, PCs
  <2> QED
    BY <1>2, <1>3, <2>1 DEF GetFileNew
<1>4. CASE GetFileEnter(t)
  <2>1. /\ call[t].handle \in Handles /\ call'[t] = call[t]
        /\ hlock' = [hlock EXCEPT ![call[t].handle] = call[t].lock]
    BY <1>4, StepTarget DEF GetFileEnter, At, CallShape, Holding, Early, PCs
  <2>2. \A u \in Threads \ {t} : call[u].handle # call[t].handle
    BY <2>1 DEF HandleUse
  <2> QED
    BY <1>a, <1>b, <1>c, <2>1, <2>2 DEF Checking
<1>5. CASE GetFileCheck(t)
  <2>1. call[t].handle \in Handles /\ pc'[t] # "check"
    BY <1>5, StepTarget DEF GetFileCheck, At, CallShape, Holding, Early, PCs, Results
  <2>2. CASE UNCHANGED hlock
    BY <1>a, <2>1, <2>2 DEF Checking
  <2>3. CASE hlock' = [hlock EXCEPT ![call[t].handle] = NoLock]
    BY <1>2, <2>1, <2>3
  <2> QED
    BY <1>5, <2>2, <2>3 DEF GetFileCheck
<1>6. CASE RemoveFile(t)
  <2>1. call[t].handle \in Handles
    BY <1>6 DEF RemoveFile, At, CallShape, Holding
  <2>2. pc'[t] # "check"
    BY <1>6, StepTarget, CallFields DEF RemoveFile, PCs, TypeOK
  <2> QED
    BY <1>2, <1>6, <2>1, <2>2 DEF RemoveFile, Forget
<1> QED
  BY <1>1, <1>3, <1>4, <1>5, <1>6, ListStep

\* The handle of a call that has not listed it yet is nowhere.
LEMMA EarlyIsUnlisted ==
    ASSUME IInv, NEW t \in Threads, pc[t] \in Early
    PROVE  call[t].handle \in Handles /\ Unlisted(call[t].handle)
<1>1. call[t].handle \in Handles
  BY DEF IInv, CallShape, Holding
<1>2. call[t].handle \notin opened /\ \A u \in Threads : call[u].handle = call[t].handle => u = t
  BY <1>1 DEF IInv, HandleUse
<1> QED
  BY <1>1, <1>2 DEF IInv, Fresh

\* What the four actions do, in terms of the handle h and the lock object l.
Listing(h, l) ==
    /\ files' = [files EXCEPT ![l] = @ \cup {h}]
    /\ older' = [older EXCEPT ![h] = files[l]]
Delisting(h, l) ==
    /\ files' = [files EXCEPT ![l] = @ \ {h}]
    /\ older' = [g \in Handles |-> IF g = h THEN {} ELSE older[g] \ {h}]
    /\ hlock' = [hlock EXCEPT ![h] = NoLock]
    /\ mode' = [mode EXCEPT ![h] = NoCall.mode]

LEMMA NewStep ==
    ASSUME IInv, NEW t \in Threads, GetFileNew(t)
    PROVE  \E l \in LockIds :
             /\ files[l] = {} /\ Listing(call[t].handle, l)
             /\ hlock' = [hlock EXCEPT ![call[t].handle] = l]
             /\ mode' = [mode EXCEPT ![call[t].handle] = call[t].mode]
             /\ pc[t] = "get" /\ pc'[t] = "fopen" /\ call'[t] = call[t] /\ opened' = opened
<1>1. PICK l \in FreshLocks :
        /\ AddFile(call[t].handle, l, call[t].mode)
        /\ hlock' = [hlock EXCEPT ![call[t].handle] = l]
  BY DEF GetFileNew
<1>2. l \in LockIds /\ files[l] = {}
  <2>1. files[l] \subseteq Handles
    BY <1>1 DEF FreshLocks, IInv, TypeOK
  <2> QED
    BY <1>1, <2>1 DEF FreshLocks, IInv, Filed
<1>3. pc[t] = "get" /\ pc'[t] = "fopen" /\ call'[t] = call[t] /\ opened' = opened
  BY StepTarget DEF IInv, GetFileNew, At, PCs, dvars
<1> QED
  BY <1>1, <1>2, <1>3 DEF AddFile, Listing

LEMMA EnterStep ==
    ASSUME IInv, NEW t \in Threads, GetFileEnter(t)
    PROVE  /\ UNCHANGED <<files, mode, older, opened>>
           /\ hlock' = [hlock EXCEPT ![call[t].handle] = call[t].lock]
           /\ pc[t] = "enter" /\ pc'[t] = "check" /\ call'[t] = call[t]
  BY StepTarget DEF IInv, GetFileEnter, At, PCs, dvars

LEMMA CheckStep ==
    ASSUME IInv, NEW t \in Threads, GetFileCheck(t)
    PROVE  /\ pc[t] = "check" /\ opened' = opened /\ call[t].lock \in LockIds
           /\ hlock[call[t].handle] = call[t].lock
           /\ \/ /\ Listing(call[t].handle, call[t].lock) /\ UNCHANGED hlock
                 /\ Compatible(call[t].mode.need, call[t].lock)
                 /\ mode' = [mode EXCEPT ![call[t].handle] = call[t].mode]
                 /\ pc'[t] = "fopen" /\ call'[t].handle = call[t].handle
              \/ /\ UNCHANGED <<files, mode, older>>
                 /\ hlock' = [hlock EXCEPT ![call[t].handle] = NoLock]
                 /\ pc'[t] = "idle" /\ call'[t].handle = NoHandle
<1>1. call[t] \in Calls
  BY DEF IInv, TypeOK
<1>2. pc[t] = "check" /\ opened' = opened
  BY DEF GetFileCheck, At, dvars
<1>3. call[t].lock \in LockIds /\ hlock[call[t].handle] = call[t].lock
  BY <1>2 DEF IInv, CallShape, Checking
<1>4. ASSUME Goto(t, "fopen"), Put(t, Locking(call[t], NoLock))
      PROVE  pc'[t] = "fopen" /\ call'[t].handle = call[t].handle
  BY <1>1, <1>4, StepTarget, LockingCall DEF IInv, PCs
<1>5. ASSUME Return(t, "denied")
      PROVE  pc'[t] = "idle" /\ call'[t].handle = NoHandle
  BY <1>5, StepTarget DEF IInv, Results
<1> QED
  BY <1>2, <1>3, <1>4, <1>5 DEF GetFileCheck, AddFile, Listing

LEMMA RemoveStep ==
    ASSUME IInv, NEW t \in Threads, RemoveFile(t)
    PROVE  /\ call[t].handle \in Handles /\ hlock[call[t].handle] \in LockIds
           /\ Delisting(call[t].handle, hlock[call[t].handle])
           /\ pc[t] = "remove" /\ pc'[t] \in {"idle", "erase"}
           /\ call'[t].handle = NoHandle /\ opened' = opened
<1>1. pc[t] = "remove" /\ opened' = opened
  BY DEF RemoveFile, At, dvars
<1>2. call[t].handle \in Handles /\ hlock[call[t].handle] \in LockIds
  BY <1>1 DEF RemoveFile, IInv, CallShape, Holding, TypeOK
<1>3. pc'[t] \in {"idle", "erase"} /\ call'[t].handle = NoHandle
  <2>1. call[t] \in Calls /\ call[t].result \in Results
    BY CallFields DEF IInv, TypeOK
  <2> QED
    BY <1>2, <2>1, StepTarget, ErasingCall DEF RemoveFile, IInv, PCs
<1> QED
  BY <1>1, <1>2, <1>3 DEF RemoveFile, Forget, Delisting

LEMMA FiledInv ==
    ASSUME IInv, NEW t \in Threads, Step(t)
    PROVE  Filed'
<1> DEFINE h0 == call[t].handle
<1>a. /\ files \in [LockIds -> SUBSET Handles]
      /\ hlock \in [Handles -> LockIds \cup {NoLock}]
      /\ Filed
  BY DEF IInv, TypeOK
<1>1. CASE UNCHANGED lists
  BY <1>1, <1>a DEF Filed, lists
<1>2. CASE GetFileNew(t)
  <2>1. h0 \in Handles /\ Unlisted(h0)
    BY <1>2, EarlyIsUnlisted DEF GetFileNew, At, Early
  <2> QED
    BY <1>2, <1>a, <2>1, NewStep DEF Filed, Unlisted, Listing
<1>3. CASE GetFileEnter(t)
  <2>1. h0 \in Handles /\ Unlisted(h0)
    BY <1>3, EarlyIsUnlisted DEF GetFileEnter, At, Early
  <2> QED
    BY <1>3, <1>a, <2>1, EnterStep DEF Filed, Unlisted
<1>4. CASE GetFileCheck(t)
  <2>1. h0 \in Handles /\ Unlisted(h0)
    BY <1>4, EarlyIsUnlisted DEF GetFileCheck, At, Early
  <2> QED
    BY <1>4, <1>a, <2>1, CheckStep DEF Filed, Unlisted, Listing
<1>5. CASE RemoveFile(t)
  BY <1>5, <1>a, RemoveStep DEF Filed, Delisting
<1> QED
  BY <1>1, <1>2, <1>3, <1>4, <1>5, ListStep DEF IInv

LEMMA PointingInv ==
    ASSUME IInv, NEW t \in Threads, Step(t)
    PROVE  Pointing'
<1> DEFINE h0 == call[t].handle
<1>a. /\ files \in [LockIds -> SUBSET Handles]
      /\ hlock \in [Handles -> LockIds \cup {NoLock}]
      /\ Pointing /\ NoLock \notin LockIds
  BY NoneAssumption DEF IInv, TypeOK
<1>b. \A u \in Threads \ {t} : call'[u] = call[u] /\ pc'[u] = pc[u]
  BY OthersKeep DEF IInv
<1>1. CASE UNCHANGED lists /\ (pc[t] # "check" \/ UNCHANGED <<pc, call>>)
  BY <1>1, <1>a, <1>b DEF Pointing, lists
<1>2. CASE GetFileNew(t)
  <2>1. h0 \in Handles
    BY <1>2, EarlyIsUnlisted DEF GetFileNew, At, Early
  <2> QED
    BY <1>2, <1>a, <1>b, <2>1, NewStep DEF Pointing, Listing
<1>3. CASE GetFileEnter(t)
  BY <1>3, <1>a, <1>b, EnterStep DEF Pointing
<1>4. CASE GetFileCheck(t)
  <2>1. h0 \in Handles
    BY <1>4, EarlyIsUnlisted DEF GetFileCheck, At, Early
  <2>2. ASSUME NEW h \in Handles \ {h0},
               \A u \in Threads : pc'[u] = "check" => call'[u].handle # h
        PROVE  \A u \in Threads : pc[u] = "check" => call[u].handle # h
    BY <1>b, <2>2
  <2> QED
    BY <1>4, <1>a, <2>1, <2>2, CheckStep DEF Pointing, Listing
<1>5. CASE RemoveFile(t)
  <2>1. ASSUME NEW h \in Handles,
               \A u \in Threads : pc'[u] = "check" => call'[u].handle # h
        PROVE  \A u \in Threads : pc[u] = "check" => call[u].handle # h
    BY <1>5, <1>b, <2>1, RemoveStep
  <2> QED
    BY <1>5, <1>a, <2>1, RemoveStep DEF Pointing, Delisting
<1> QED
  BY <1>1, <1>2, <1>3, <1>4, <1>5, ListStep DEF IInv

LEMMA FreshInv ==
    ASSUME IInv, NEW t \in Threads, Step(t)
    PROVE  Fresh'
<1> DEFINE h0 == call[t].handle
           New(h) == /\ h \notin opened
                     /\ \A u \in Threads : call[u].handle = h => pc[u] \in Early
<1>a. /\ files \in [LockIds -> SUBSET Handles] /\ older \in [Handles -> SUBSET Handles]
      /\ opened \subseteq Handles /\ NoHandle \notin Handles
      /\ Filed /\ (pc[t] \in Holding <=> h0 \in Handles)
  BY NoneAssumption DEF IInv, TypeOK, CallShape
<1>b. \A u \in Threads \ {t} : call'[u] = call[u] /\ pc'[u] = pc[u]
  BY OthersKeep DEF IInv
<1>c. \A h \in Handles : New(h) => Unlisted(h)
  BY DEF IInv, Fresh
<1> SUFFICES ASSUME NEW h \in Handles, h \notin opened',
                    \A u \in Threads : call'[u].handle = h => pc'[u] \in Early
             PROVE  Unlisted(h)'
  BY DEF Fresh
<1>1. CASE /\ UNCHANGED lists
           /\ pc[t] \notin {"check", "remove"} \/ UNCHANGED <<pc, call, opened>>
           /\ pc'[t] # "check" \/ UNCHANGED <<pc, call, opened>>
           /\ pc[t] = "fopen" => \/ opened' = opened \cup {h0}
                                 \/ call'[t].handle = h0 /\ pc'[t] = "remove"
  <2>1. h \notin opened
    BY <1>a, NextHandle DEF IInv, Early
  <2>2. ASSUME call[t].handle = h
        PROVE  pc[t] \in Early
    <3>1. pc[t] \in Holding
      BY <1>a, <2>2
    <3>2. CASE pc[t] = "fopen"
      BY <1>1, <2>2, <3>2 DEF Early
    <3>3. CASE pc[t] = "remove"
      BY <1>1, <2>2, <3>3 DEF Early
    <3> QED
      BY <3>1, <3>2, <3>3 DEF Holding
  <2>3. New(h)
    BY <1>b, <2>1, <2>2
  <2> QED
    BY <1>1, <1>c, <2>3 DEF lists, Unlisted
<1>2. ASSUME h # h0, opened' = opened
      PROVE  Unlisted(h)
  BY <1>2, <1>b, <1>c
<1>3. CASE GetFileNew(t)
  <2>1. h # h0 /\ opened' = opened
    BY <1>3, NewStep DEF Early
  <2> QED
    BY <1>2, <1>3, <1>a, <2>1, NewStep DEF Unlisted, Listing
<1>4. CASE GetFileEnter(t)
  <2>1. opened' = opened /\ pc[t] \in Early
    BY <1>4, EnterStep DEF Early
  <2>2. Unlisted(h)
    BY <1>b, <1>c, <2>1
  <2> QED
    BY <1>4, <2>2, EnterStep DEF Unlisted
<1>5. CASE GetFileCheck(t)
  <2>1. opened' = opened /\ pc[t] \in Early
    BY <1>5, CheckStep DEF Early
  <2>2. Unlisted(h)
    BY <1>b, <1>c, <2>1
  <2>3. CASE UNCHANGED <<files, older>>
    BY <2>2, <2>3 DEF Unlisted
  <2>4. CASE /\ Listing(h0, call[t].lock) /\ pc'[t] = "fopen" /\ call'[t].handle = h0
    <3>1. h # h0
      BY <2>4 DEF Early
    <3> QED
      BY <1>5, <1>a, <2>2, <2>4, <3>1, CheckStep DEF Unlisted, Listing
  <2> QED
    BY <1>5, <2>3, <2>4, CheckStep
<1>6. CASE RemoveFile(t)
  <2>1. /\ h0 \in Handles /\ Delisting(h0, hlock[h0]) /\ hlock[h0] \in LockIds
        /\ opened' = opened
    BY <1>6, RemoveStep
  <2>2. CASE h = h0
    BY <1>a, <2>1, <2>2 DEF Filed, Unlisted, Delisting
  <2>3. CASE h # h0
    BY <1>2, <1>a, <2>1, <2>3 DEF Unlisted, Delisting
  <2> QED
    BY <2>2, <2>3
<1> QED
  BY <1>1, <1>3, <1>4, <1>5, <1>6, ListStep DEF IInv

\* A handle joins a list only if it asks for nothing the list refuses, and the
\* handles that were there before it stay older than it.
LEMMA ListingShared ==
    ASSUME IInv, NEW h \in Handles, NEW l \in LockIds, NEW m \in Modes,
           Unlisted(h), Compatible(m.need, l),
           Listing(h, l), mode' = [mode EXCEPT ![h] = m]
    PROVE  Shared'
<1>a. /\ files \in [LockIds -> SUBSET Handles] /\ older \in [Handles -> SUBSET Handles]
      /\ mode \in [Handles -> Modes] /\ Shared
  BY DEF IInv, TypeOK
<1> SUFFICES ASSUME NEW k \in LockIds, NEW f \in files'[k], NEW g \in older'[f] \cap files'[k]
             PROVE  mode'[f].need \subseteq mode'[g].share
  BY DEF Shared
<1>1. CASE f = h
  <2>1. k = l /\ g \in files[l] /\ g # h /\ g \in Handles
    BY <1>1, <1>a DEF Listing, Unlisted
  <2> QED
    BY <1>1, <1>a, <2>1 DEF Compatible
<1>2. CASE f # h
  <2>1. f \in Handles /\ f \in files[k] /\ g \in older[f] /\ g \in Handles
    BY <1>2, <1>a DEF Listing
  <2>2. g # h /\ g \in files[k]
    BY <1>a, <2>1 DEF Listing, Unlisted
  <2> QED
    BY <1>2, <1>a, <2>1, <2>2 DEF Shared
<1> QED
  BY <1>1, <1>2

LEMMA SharedInv ==
    ASSUME IInv, NEW t \in Threads, Step(t)
    PROVE  Shared'
<1> DEFINE h0 == call[t].handle
<1>a. /\ files \in [LockIds -> SUBSET Handles] /\ older \in [Handles -> SUBSET Handles]
      /\ mode \in [Handles -> Modes] /\ Shared /\ call[t].mode \in Modes
  BY CallFields DEF IInv, TypeOK
<1>1. CASE UNCHANGED <<files, mode, older>>
  BY <1>1, <1>a DEF Shared
<1>2. CASE GetFileNew(t)
  <2>1. h0 \in Handles /\ Unlisted(h0)
    BY <1>2, EarlyIsUnlisted DEF GetFileNew, At, Early
  <2>2. PICK l \in LockIds : /\ files[l] = {} /\ Listing(h0, l)
                             /\ mode' = [mode EXCEPT ![h0] = call[t].mode]
    BY <1>2, NewStep
  <2>3. Compatible(call[t].mode.need, l)
    BY <2>2 DEF Compatible
  <2> QED
    BY <1>a, <2>1, <2>2, <2>3, ListingShared
<1>3. CASE GetFileEnter(t)
  BY <1>1, <1>3, EnterStep
<1>4. CASE GetFileCheck(t)
  <2>1. h0 \in Handles /\ Unlisted(h0)
    BY <1>4, EarlyIsUnlisted DEF GetFileCheck, At, Early
  <2> QED
    BY <1>1, <1>4, <1>a, <2>1, CheckStep, ListingShared
<1>5. CASE RemoveFile(t)
  <2>1. h0 \in Handles /\ Delisting(h0, hlock[h0]) /\ hlock[h0] \in LockIds
    BY <1>5, RemoveStep
  <2>2. \A l \in LockIds : files'[l] \subseteq files[l] /\ h0 \notin files'[l]
    BY <1>a, <2>1 DEF IInv, Filed, Delisting
  <2>3. \A h \in Handles : older'[h] \subseteq older[h]
    BY <1>a, <2>1 DEF Delisting
  <2>4. \A h \in Handles \ {h0} : mode'[h] = mode[h]
    BY <1>a, <2>1 DEF Delisting
  <2> QED
    BY <1>a, <2>2, <2>3, <2>4 DEF Shared
<1> QED
  BY <1>1, <1>2, <1>3, <1>4, <1>5, ListStep DEF IInv, lists

----------------------------------------------------------------------------
(* The theorems.                                                           *)

LEMMA InitInv == Init => IInv
<1> SUFFICES ASSUME Init PROVE IInv
  OBVIOUS
<1>1. NoCall \in Calls /\ NoCall.mode \in Modes /\ NoCall.handle = NoHandle
  BY NoCallType, CallFields DEF NoCall
<1>2. TypeOK
  BY <1>1, NoneAssumption DEF Init, TypeOK, PCs
<1>3. CallShape
  BY <1>1, NoneAssumption DEF Init, CallShape, Calling, Holding, Early, MovePCs
<1>4. LockOwner /\ HandleUse
  BY <1>1, NoneAssumption DEF Init, LockOwner, HandleUse
<1>5. Fresh /\ Filed /\ Pointing /\ Checking /\ Shared
  BY NoneAssumption DEF Init, Fresh, Unlisted, Filed, Pointing, Checking, Shared
<1> QED
  BY <1>2, <1>3, <1>4, <1>5 DEF IInv

LEMMA NextInv == IInv /\ [Next]_vars => IInv'
<1>1. ASSUME IInv, NEW t \in Threads, Step(t)
      PROVE  IInv'
  <2>1. TypeOK'
    BY <1>1, PCType, CallType, RestType DEF IInv, TypeOK
  <2>2. CallShape' /\ LockOwner' /\ HandleUse'
    BY <1>1, ShapeInv, LockOwnerInv, HandleUseInv DEF IInv
  <2> QED
    BY <1>1, <2>1, <2>2, FreshInv, FiledInv, PointingInv, CheckingInv, SharedInv DEF IInv
<1>2. ASSUME IInv, UNCHANGED vars
      PROVE  IInv'
  BY <1>2 DEF IInv, vars, tvars, hvars, dvars, TypeOK, CallShape, LockOwner, HandleUse,
              Fresh, Unlisted, Filed, Pointing, Checking, Shared
<1> QED
  BY <1>1, <1>2 DEF Next, Undefined

\* The inductive invariant of the open-file table.
THEOREM Invariant == Spec => []IInv
<1> QED
  BY InitInv, NextInv, PTL DEF Spec

\* Every variable keeps its type.
THEOREM TypeCorrect == Spec => []TypeOK
<1>1. IInv => TypeOK
  BY DEF IInv
<1> QED
  BY <1>1, Invariant, PTL

\* No caller is granted what a handle already open on the lock object refuses
\* to share, for any threads, handles, names and interleaving (fusemain.cpp:908).
THEOREM SharesRespected == Spec => []ShareRespected
<1>1. IInv => ShareRespected
  BY DEF IInv, Shared, ShareRespected, TypeOK
<1> QED
  BY <1>1, Invariant, PTL

\* A thread never waits for the table while it owns a lock object: the two
\* kinds of critical section cannot deadlock (fusemain.cpp:943).
THEOREM LocksOrdered == Spec => []LockOrder
<1>1. IInv => LockOrder
  BY DEF IInv, LockOwner, LockOrder
<1> QED
  BY <1>1, Invariant, PTL

\* The lists of handles and the handles' file_lock pointers agree
\* (fusemain.cpp:900-941).
THEOREM ListsAgreeAlways == Spec => []ListsAgree
<1>1. IInv => ListsAgree
  <2> SUFFICES ASSUME IInv, NEW h \in Handles, NEW l \in LockIds
               PROVE  h \in files[l] <=>
                        /\ hlock[h] = l
                        /\ \A t \in Threads : pc[t] = "check" => call[t].handle # h
    BY DEF ListsAgree
  <2>1. ASSUME h \in files[l], NEW t \in Threads, pc[t] = "check"
        PROVE  call[t].handle # h
    BY <2>1, EarlyIsUnlisted DEF Early, Unlisted
  <2>2. h \in files[l] => hlock[h] = l
    BY DEF IInv, Filed
  <2>3. /\ hlock[h] = l
        /\ \A t \in Threads : pc[t] = "check" => call[t].handle # h
        => h \in files[l]
    BY DEF IInv, Pointing
  <2> QED
    BY <2>1, <2>2, <2>3
<1> QED
  BY <1>1, Invariant, PTL

----------------------------------------------------------------------------
(* One thread.                                                             *)

\* A handle's file_lock is there while a caller has the handle, and while it is being
\* opened or closed; its list has it, and its name is in the map.
HandlesAgree(w) ==
    \A h \in Handles :
        /\ h \in opened => hlock[h] # NoLock
        /\ hlock[h] # NoLock =>
             /\ hlock[h] \in alive
             /\ h \in opened \/ (h = call[w].handle /\ pc[w] \in {"check", "fopen", "remove"})
LocksAgree(w) ==
    \A l \in alive :
        /\ lname[l] \in Names /\ table[lname[l]] = l
        /\ files[l] # {} \/ (pc[w] = "erase" /\ call[w].lock = l)
MapAgrees == \A n \in Names : table[n] # NoLock => table[n] \in alive /\ lname[table[n]] = n

\* The file of a handle is on the disk, under the name of its lock object or, when
\* move_file has yet to tell the table, under the name that object is to get.
NameOf(w, l) == IF pc[w] \in {"renamed", "rnenter"} /\ lname[l] = call[w].name
                  THEN call[w].to ELSE lname[l]
FilesAgree(w) ==
    /\ \A h \in opened : hfile[h] \in Names /\ Exists(hfile[h]) /\ hfile[h] = NameOf(w, hlock[h])
    /\ \A h \in Handles \ opened : hfile[h] = NoName

\* What a call has found is still so.
CallAgrees(w) ==
    /\ pc[w] \in {"enter", "check", "rnenter"} =>
         call[w].lock = table[call[w].name] /\ call[w].lock \in alive
    /\ pc[w] \in {"renamed", "rnenter"} =>
         call[w].name # call[w].to /\ table[call[w].to] = NoLock
    /\ pc[w] = "fopen" => lname[hlock[call[w].handle]] = call[w].name
    /\ pc[w] \in {"fopen", "remove"} => hlock[call[w].handle] # NoLock
    /\ pc[w] = "erase" => call[w].lock \in alive /\ files[call[w].lock] = {}

Agrees(w) == HandlesAgree(w) /\ LocksAgree(w) /\ MapAgrees /\ FilesAgree(w) /\ CallAgrees(w)

Plain == {"idle", "unlink", "trunc", "mknod", "resolve", "get", "mvunlink", "mvcheck", "rename"}

\* Nothing but the disk changes, and no file goes that has a handle.
LEMMA PlainStep ==
    ASSUME TypeOK, NEW w \in Threads, Agrees(w), UNCHANGED <<tvars, hvars, opened, hfile>>,
           pc[w] \in Plain, pc'[w] \in Plain,
           \A h \in opened : disk[hfile[h]] # "none" => disk'[hfile[h]] # "none"
    PROVE  Agrees(w)'
<1>1. HandlesAgree(w)' /\ LocksAgree(w)' /\ MapAgrees'
  BY DEF Agrees, HandlesAgree, LocksAgree, MapAgrees, Plain, tvars, hvars
<1>2. CallAgrees(w)'
  BY DEF CallAgrees, Plain
<1>3. FilesAgree(w)'
  BY DEF Agrees, FilesAgree, NameOf, Exists, Plain, tvars, hvars
<1> QED
  BY <1>1, <1>2, <1>3 DEF Agrees

\* A file that is deleted stays as long as a handle has it.
LEMMA UnlinkedKeeps ==
    ASSUME TypeOK, NEW n \in Names, disk' = Unlinked(n), NEW h \in opened,
           hfile[h] \in Names, disk[hfile[h]] # "none"
    PROVE  disk'[hfile[h]] # "none"
<1>1. disk \in [Names -> {"none", "data", "empty", "pending"}] /\ h \in Handles
  BY DEF TypeOK
<1>2. hfile[h] = n => Openers(n) # {}
  BY <1>1 DEF Openers
<1> QED
  BY <1>1, <1>2 DEF Unlinked

\* The steps of create_file, delete_file and move_file that look at the disk or change it.
LEMMA DiskAgrees ==
    ASSUME IInv, NEW w \in Threads, Agrees(w),
           \/ CreateFile(w) \/ CreateUnlink(w) \/ CreateTruncate(w) \/ CreateMknod(w)
           \/ OpenResolve(w) \/ DeleteFile(w) \/ MoveFile(w) \/ MoveUnlink(w) \/ MoveCheck(w)
    PROVE  Agrees(w)'
<1>a. TypeOK /\ pc \in [Threads -> PCs] /\ disk \in [Names -> {"none", "data", "empty", "pending"}]
  BY DEF IInv, TypeOK
<1>b. pc[w] \in {"unlink", "trunc", "mknod"} => call[w].name \in Names
  BY DEF IInv, CallShape, Calling, Early
<1>c. pc[w] = "mvunlink" => call[w].to \in Names
  BY DEF IInv, CallShape, MovePCs
<1>d. \A h \in opened : hfile[h] \in Names
  BY DEF Agrees, FilesAgree
<1>1. UNCHANGED <<tvars, hvars, opened, hfile>>
  BY DEF CreateFile, CreateUnlink, CreateTruncate, CreateMknod, OpenResolve, DeleteFile, MoveFile,
         MoveUnlink, MoveCheck, dvars
<1>2. pc[w] \in Plain
  BY DEF CreateFile, CreateUnlink, CreateTruncate, CreateMknod, OpenResolve, DeleteFile, MoveFile,
         MoveUnlink, MoveCheck, At, Plain
<1>3. pc'[w] \in Plain
  <2>1. \A x \in Plain : Goto(w, x) => pc'[w] = x
    BY <1>a DEF Goto
  <2>2. \A r : Return(w, r) => pc'[w] \in Plain
    BY <1>a DEF Return, Goto, Plain
  <2>3. CASE CreateFile(w)
    <3>1. PICK n \in Names, d \in Dispositions :
            \/ FirstStep(n, d) # "refused" /\ Goto(w, FirstStep(n, d))
            \/ UNCHANGED pc
      BY <2>3 DEF CreateFile
    <3> QED
      BY <1>2, <2>1, <3>1, FirstPlace DEF Plain
  <2>4. CASE ~CreateFile(w)
    BY <1>2, <2>1, <2>2, <2>4
       DEF CreateUnlink, CreateTruncate, CreateMknod, OpenResolve, DeleteFile, MoveFile, MoveUnlink,
           MoveCheck, Plain
  <2> QED
    BY <2>3, <2>4
<1>4. ASSUME NEW h \in opened, disk[hfile[h]] # "none" PROVE disk'[hfile[h]] # "none"
  <2>1. CASE disk' = disk
    BY <1>4, <2>1
  <2>2. CASE \E n \in Names : disk' = Unlinked(n)
    BY <1>a, <1>d, <1>4, <2>2, UnlinkedKeeps
  <2>3. CASE \E n \in Names : disk' = [disk EXCEPT ![n] = "empty"]
    BY <1>a, <1>d, <1>4, <2>3
  <2>4. \/ disk' = disk \/ \E n \in Names : disk' = Unlinked(n)
        \/ \E n \in Names : disk' = [disk EXCEPT ![n] = "empty"]
    BY <1>b, <1>c DEF CreateFile, CreateUnlink, CreateTruncate, CreateMknod, OpenResolve, DeleteFile,
                      MoveFile, MoveUnlink, MoveCheck, At, dvars
  <2> QED
    BY <2>1, <2>2, <2>3, <2>4
<1> QED
  BY <1>a, <1>1, <1>2, <1>3, <1>4, PlainStep

\* A new lock object bears the path it is filed under.
LEMMA NewAgrees ==
    ASSUME IInv, NEW w \in Threads, Agrees(w), GetFileNew(w) PROVE Agrees(w)'
<1> DEFINE n == call[w].name
           h == call[w].handle
<1>a. /\ table \in [Names -> LockIds \cup {NoLock}] /\ alive \subseteq LockIds
      /\ lname \in [LockIds -> Names \cup {NoName}] /\ files \in [LockIds -> SUBSET Handles]
      /\ hlock \in [Handles -> LockIds \cup {NoLock}] /\ opened \subseteq Handles
      /\ NoLock \notin LockIds
  BY NoneAssumption DEF IInv, TypeOK
<1>b. pc[w] = "get" /\ n \in Names /\ h \in Handles /\ h \notin opened
  BY DEF GetFileNew, At, IInv, CallShape, HandleUse, Calling, Holding, Early
<1>c. pc'[w] = "fopen" /\ call'[w] = call[w]
  BY StepTarget DEF IInv, GetFileNew, Keep, PCs
<1>d. PICK l \in LockIds :
        /\ l \notin alive /\ \A g \in Handles : hlock[g] # l
        /\ table[n] = NoLock /\ alive' = alive \cup {l}
        /\ lname' = [lname EXCEPT ![l] = n] /\ table' = [table EXCEPT ![n] = l]
        /\ files' = [files EXCEPT ![l] = @ \cup {h}] /\ hlock' = [hlock EXCEPT ![h] = l]
  BY DEF GetFileNew, AddFile, FreshLocks
<1>e. hlock[h] = NoLock
  BY <1>b DEF Agrees, HandlesAgree
<1>1. HandlesAgree(w)'
  <2>1. opened' = opened
    BY DEF GetFileNew, dvars
  <2> QED
    BY <1>a, <1>b, <1>c, <1>d, <2>1 DEF Agrees, HandlesAgree
<1>2. LocksAgree(w)' /\ MapAgrees'
  BY <1>a, <1>b, <1>c, <1>d DEF Agrees, LocksAgree, MapAgrees
<1>3. FilesAgree(w)'
  <2>1. opened' = opened /\ hfile' = hfile /\ disk' = disk
    BY DEF GetFileNew, dvars
  <2>2. \A g \in opened : g \in Handles /\ g # h /\ hlock[g] \in LockIds /\ hlock[g] # l
    BY <1>a, <1>b, <1>d DEF Agrees, HandlesAgree
  <2> QED
    BY <1>a, <1>b, <1>c, <1>d, <2>1, <2>2 DEF Agrees, FilesAgree, NameOf, Exists
<1>4. CallAgrees(w)'
  BY <1>a, <1>b, <1>c, <1>d DEF CallAgrees
<1> QED
  BY <1>1, <1>2, <1>3, <1>4 DEF Agrees

\* What the map has for the path is the object the thread will wait for.
LEMMA FoundAgrees ==
    ASSUME IInv, NEW w \in Threads, Agrees(w), GetFileFound(w) PROVE Agrees(w)'
<1>a. pc[w] = "get" /\ call[w] \in Calls /\ call[w].name \in Names
  BY DEF GetFileFound, At, IInv, TypeOK, CallShape, Calling, Early
<1>b. table[call[w].name] \in LockIds /\ table[call[w].name] \in alive
  BY <1>a DEF GetFileFound, IInv, TypeOK, Agrees, MapAgrees
<1>c. pc'[w] = "enter" /\ call'[w] = Locking(call[w], table[call[w].name])
  BY StepTarget DEF IInv, GetFileFound, PCs
<1>d. /\ call'[w].name = call[w].name /\ call'[w].handle = call[w].handle
      /\ call'[w].lock = table[call[w].name]
  BY <1>a, <1>b, <1>c, LockingCall
<1>e. UNCHANGED <<table, alive, lname, files, hlock, opened, hfile, disk>>
  BY DEF GetFileFound, hvars, dvars
<1>1. HandlesAgree(w)' /\ LocksAgree(w)' /\ MapAgrees'
  BY <1>a, <1>c, <1>e DEF Agrees, HandlesAgree, LocksAgree, MapAgrees
<1>2. FilesAgree(w)'
  BY <1>a, <1>c, <1>e DEF Agrees, FilesAgree, NameOf, Exists
<1>3. CallAgrees(w)'
  BY <1>b, <1>c, <1>d, <1>e DEF CallAgrees
<1> QED
  BY <1>1, <1>2, <1>3 DEF Agrees

LEMMA EnterAgrees ==
    ASSUME IInv, NEW w \in Threads, Agrees(w), GetFileEnter(w) PROVE Agrees(w)'
<1> DEFINE h == call[w].handle
<1>a. /\ pc[w] = "enter" /\ call[w].lock \in LockIds /\ h \in Handles /\ h \notin opened
      /\ call[w].name \in Names /\ call[w].lock \in alive /\ NoLock \notin LockIds
  BY NoneAssumption DEF GetFileEnter, At, IInv, CallShape, HandleUse, Calling, Holding, Early, Agrees,
     CallAgrees
<1>b. pc'[w] = "check" /\ call'[w] = call[w]
  BY StepTarget DEF IInv, GetFileEnter, PCs
<1>c. /\ UNCHANGED <<table, alive, lname, files, opened, hfile, disk>>
      /\ hlock' = [hlock EXCEPT ![h] = call[w].lock]
      /\ hlock \in [Handles -> LockIds \cup {NoLock}] /\ opened \subseteq Handles
  BY DEF GetFileEnter, dvars, IInv, TypeOK
<1>1. HandlesAgree(w)'
  BY <1>a, <1>b, <1>c DEF Agrees, HandlesAgree
<1>2. LocksAgree(w)' /\ MapAgrees'
  BY <1>a, <1>b, <1>c DEF Agrees, LocksAgree, MapAgrees
<1>3. FilesAgree(w)'
  BY <1>a, <1>b, <1>c DEF Agrees, FilesAgree, NameOf, Exists
<1>4. CallAgrees(w)'
  BY <1>a, <1>b, <1>c DEF Agrees, CallAgrees
<1> QED
  BY <1>1, <1>2, <1>3, <1>4 DEF Agrees

\* A handle is added to the object of its path, or refused and forgotten.
LEMMA CheckAgrees ==
    ASSUME IInv, NEW w \in Threads, Agrees(w), GetFileCheck(w) PROVE Agrees(w)'
<1> DEFINE h == call[w].handle
           l == call[w].lock
<1>a. /\ pc[w] = "check" /\ l \in LockIds /\ h \in Handles /\ h \notin opened
      /\ call[w].name \in Names /\ l \in alive /\ l = table[call[w].name]
      /\ hlock[h] = l /\ NoLock \notin LockIds
  BY NoneAssumption DEF GetFileCheck, At, IInv, CallShape, HandleUse, Checking, Calling, Holding,
     Early, Agrees, CallAgrees
<1>b. lname[l] = call[w].name
  BY <1>a DEF Agrees, MapAgrees
<1>c. /\ UNCHANGED <<table, alive, lname, opened, hfile, disk>>
      /\ hlock \in [Handles -> LockIds \cup {NoLock}] /\ opened \subseteq Handles
      /\ files \in [LockIds -> SUBSET Handles] /\ call[w] \in Calls /\ alive \subseteq LockIds
  BY DEF GetFileCheck, dvars, IInv, TypeOK
<1>d. /\ \/ /\ pc'[w] = "fopen" /\ files' = [files EXCEPT ![l] = @ \cup {h}] /\ hlock' = hlock
            /\ call'[w].handle = h /\ call'[w].name = call[w].name
         \/ /\ pc'[w] = "idle" /\ files' = files /\ hlock' = [hlock EXCEPT ![h] = NoLock]
  BY <1>c, StepTarget, LockingCall DEF IInv, GetFileCheck, PCs, AddFile, Results
<1>1. HandlesAgree(w)'
  BY <1>a, <1>c, <1>d DEF Agrees, HandlesAgree
<1>2. LocksAgree(w)' /\ MapAgrees'
  BY <1>a, <1>c, <1>d DEF Agrees, LocksAgree, MapAgrees
<1>3. FilesAgree(w)'
  BY <1>a, <1>c, <1>d DEF Agrees, FilesAgree, NameOf, Exists
<1>4. CallAgrees(w)'
  BY <1>a, <1>b, <1>c, <1>d DEF CallAgrees
<1> QED
  BY <1>1, <1>2, <1>3, <1>4 DEF Agrees

\* The file that is opened is that of the lock object's path.
LEMMA OpenAgrees ==
    ASSUME IInv, NEW w \in Threads, Agrees(w), OpenFile(w) PROVE Agrees(w)'
<1> DEFINE h == call[w].handle
<1>a. /\ pc[w] = "fopen" /\ h \in Handles /\ h \notin opened /\ call[w].name \in Names
      /\ call[w] \in Calls /\ lname[hlock[h]] = call[w].name /\ hlock[h] # NoLock
  BY DEF OpenFile, At, IInv, TypeOK, CallShape, HandleUse, Calling, Holding, Early, Agrees, CallAgrees
<1>b. /\ UNCHANGED <<table, alive, lname, files, hlock, disk>>
      /\ hfile \in [Handles -> Names \cup {NoName}] /\ opened \subseteq Handles
  BY DEF OpenFile, tvars, hvars, dvars, IInv, TypeOK
<1>c. \/ /\ pc'[w] = "idle" /\ opened' = opened \cup {h} /\ disk[call[w].name] # "none"
         /\ hfile' = [hfile EXCEPT ![h] = call[w].name]
      \/ /\ pc'[w] = "remove" /\ opened' = opened /\ hfile' = hfile /\ call'[w].handle = h
  BY <1>a, StepTarget, FailingCall DEF IInv, OpenFile, PCs, Results, dvars
<1>1. HandlesAgree(w)'
  BY <1>a, <1>b, <1>c DEF Agrees, HandlesAgree
<1>2. LocksAgree(w)' /\ MapAgrees'
  BY <1>a, <1>b, <1>c DEF Agrees, LocksAgree, MapAgrees
<1>3. FilesAgree(w)'
  BY <1>a, <1>b, <1>c DEF Agrees, FilesAgree, NameOf, Exists
<1>4. CallAgrees(w)'
  BY <1>a, <1>b, <1>c DEF CallAgrees
<1> QED
  BY <1>1, <1>2, <1>3, <1>4 DEF Agrees

\* A file with a deletion pending goes with its last handle.
LEMMA CloseAgrees ==
    ASSUME IInv, NEW w \in Threads, Agrees(w), CloseFile(w) PROVE Agrees(w)'
<1>a. PICK h \in opened :
        /\ Goto(w, "remove") /\ opened' = opened \ {h} /\ hfile' = [hfile EXCEPT ![h] = NoName]
        /\ disk' = IF hfile[h] # NoName /\ disk[hfile[h]] = "pending" /\ Openers(hfile[h]) = {h}
                     THEN [disk EXCEPT ![hfile[h]] = "none"] ELSE disk
        /\ Put(w, Closing(h))
  BY DEF CloseFile
<1>b. /\ pc[w] = "idle" /\ UNCHANGED <<table, alive, lname, files, hlock>>
      /\ h \in Handles /\ opened \subseteq Handles /\ hfile \in [Handles -> Names \cup {NoName}]
      /\ disk \in [Names -> {"none", "data", "empty", "pending"}]
  BY DEF CloseFile, At, tvars, hvars, IInv, TypeOK
<1>c. pc'[w] = "remove" /\ call'[w].handle = h
  BY <1>a, <1>b, StepTarget, ClosingCall DEF IInv, PCs
<1>1. HandlesAgree(w)'
  BY <1>a, <1>b, <1>c DEF Agrees, HandlesAgree
<1>2. LocksAgree(w)' /\ MapAgrees'
  BY <1>b, <1>c DEF Agrees, LocksAgree, MapAgrees
<1>3. FilesAgree(w)'
  <2>1. ASSUME NEW g \in opened, g # h
        PROVE  hfile[g] \in Names /\ disk'[hfile[g]] # "none" /\ hfile[g] = lname[hlock[g]]
    <3>1. hfile[g] \in Names /\ disk[hfile[g]] # "none" /\ hfile[g] = lname[hlock[g]]
      BY <1>b DEF Agrees, FilesAgree, NameOf, Exists
    <3>2. hfile[g] = hfile[h] => g \in Openers(hfile[h])
      BY <1>b DEF Openers
    <3> QED
      BY <1>a, <1>b, <2>1, <3>1, <3>2
  <2>2. \A g \in Handles \ opened' : hfile'[g] = NoName
    BY <1>a, <1>b DEF Agrees, FilesAgree
  <2>3. \A g \in opened' : hfile'[g] = hfile[g] /\ g \in opened /\ g # h
    BY <1>a, <1>b
  <2> QED
    BY <1>b, <1>c, <2>1, <2>2, <2>3 DEF FilesAgree, NameOf, Exists
<1>4. CallAgrees(w)'
  BY <1>b, <1>c DEF Agrees, HandlesAgree, CallAgrees
<1> QED
  BY <1>1, <1>2, <1>3, <1>4 DEF Agrees

\* A lock object that loses its last handle is the one the table is asked to drop.
LEMMA RemoveAgrees ==
    ASSUME IInv, NEW w \in Threads, Agrees(w), RemoveFile(w) PROVE Agrees(w)'
<1> DEFINE h == call[w].handle
           l == hlock[h]
<1>a. /\ pc[w] = "remove" /\ h \in Handles /\ h \notin opened /\ l \in alive
      /\ call[w] \in Calls /\ NoLock \notin LockIds
  BY NoneAssumption DEF RemoveFile, At, IInv, TypeOK, CallShape, HandleUse, Holding
<1>b. /\ UNCHANGED <<table, alive, lname, opened, hfile, disk>> /\ alive \subseteq LockIds
      /\ hlock' = [hlock EXCEPT ![h] = NoLock] /\ files' = [files EXCEPT ![l] = @ \ {h}]
      /\ hlock \in [Handles -> LockIds \cup {NoLock}] /\ files \in [LockIds -> SUBSET Handles]
      /\ opened \subseteq Handles
  BY DEF RemoveFile, Forget, dvars, IInv, TypeOK
<1>c. \/ pc'[w] = "idle" /\ files'[l] # {}
      \/ pc'[w] = "erase" /\ files'[l] = {} /\ call'[w].lock = l
  BY <1>a, <1>b, StepTarget, ErasingCall, CallFields DEF IInv, RemoveFile, PCs
<1>1. HandlesAgree(w)'
  BY <1>a, <1>b, <1>c DEF Agrees, HandlesAgree
<1>2. LocksAgree(w)' /\ MapAgrees'
  BY <1>a, <1>b, <1>c DEF Agrees, LocksAgree, MapAgrees
<1>3. FilesAgree(w)'
  BY <1>a, <1>b, <1>c DEF Agrees, FilesAgree, NameOf, Exists
<1>4. CallAgrees(w)'
  BY <1>a, <1>b, <1>c DEF CallAgrees
<1> QED
  BY <1>1, <1>2, <1>3, <1>4 DEF Agrees

\* And that one is dropped.
LEMMA EraseAgrees ==
    ASSUME IInv, NEW w \in Threads, Agrees(w), EraseLock(w) PROVE Agrees(w)'
<1> DEFINE l == call[w].lock
<1>a. /\ pc[w] = "erase" /\ l \in alive /\ files[l] = {} /\ lname[l] \in Names /\ table[lname[l]] = l
      /\ NoLock \notin LockIds /\ alive \subseteq LockIds /\ opened \subseteq Handles
      /\ table \in [Names -> LockIds \cup {NoLock}]
  BY NoneAssumption DEF EraseLock, At, IInv, TypeOK, Agrees, CallAgrees, LocksAgree
<1>b. /\ table' = [table EXCEPT ![lname[l]] = NoLock] /\ alive' = alive \ {l}
      /\ UNCHANGED <<lname, files, hlock, opened, hfile, disk>>
  BY <1>a DEF EraseLock, hvars, dvars
<1>c. pc'[w] = "idle"
  BY StepTarget DEF IInv, EraseLock, Return, Goto, TypeOK
<1>d. \A h \in opened : hlock[h] # l
  <2> SUFFICES ASSUME NEW h \in opened, hlock[h] = l PROVE FALSE
    OBVIOUS
  <2>1. \A t \in Threads : call[t].handle # h
    BY <1>a DEF IInv, HandleUse
  <2>2. h \in files[l]
    BY <1>a, <2>1 DEF IInv, Pointing
  <2> QED
    BY <1>a, <2>2
<1>1. HandlesAgree(w)'
  BY <1>a, <1>b, <1>c, <1>d DEF Agrees, HandlesAgree
<1>2. LocksAgree(w)' /\ MapAgrees'
  BY <1>a, <1>b, <1>c DEF Agrees, LocksAgree, MapAgrees
<1>3. FilesAgree(w)'
  BY <1>a, <1>b, <1>c DEF Agrees, FilesAgree, NameOf, Exists
<1>4. CallAgrees(w)'
  BY <1>c DEF CallAgrees
<1> QED
  BY <1>1, <1>2, <1>3, <1>4 DEF Agrees

\* A path a file is moved to has no handle, and so no entry in the map.
LEMMA TargetIsFree ==
    ASSUME IInv, NEW w \in Threads, Agrees(w), pc[w] = "rename", NEW n \in Names, ~Exists(n)
    PROVE  table[n] = NoLock
<1> SUFFICES ASSUME table[n] # NoLock PROVE FALSE
  OBVIOUS
<1> DEFINE l == table[n]
<1>1. l \in alive /\ l \in LockIds /\ lname[l] = n /\ files[l] # {} /\ files[l] \subseteq Handles
  BY DEF Agrees, MapAgrees, LocksAgree, IInv, TypeOK
<1>2. PICK h \in files[l] : h \in Handles /\ hlock[h] = l
  BY <1>1 DEF IInv, Filed
<1>3. h \in opened
  BY <1>2 DEF Agrees, HandlesAgree
<1> QED
  BY <1>1, <1>2, <1>3 DEF Agrees, FilesAgree, NameOf

\* A file that is moved takes its descriptors along; the table is told next.
LEMMA RenameAgrees ==
    ASSUME IInv, NEW w \in Threads, Agrees(w), MoveRename(w) PROVE Agrees(w)'
<1> DEFINE n == call[w].name
           m == call[w].to
<1>a. /\ pc[w] = "rename" /\ n \in Names /\ m \in Names /\ TypeOK
      /\ UNCHANGED <<tvars, hvars, opened>>
      /\ disk \in [Names -> {"none", "data", "empty", "pending"}]
      /\ hfile \in [Handles -> Names \cup {NoName}] /\ opened \subseteq Handles
  BY DEF MoveRename, At, IInv, TypeOK, CallShape, MovePCs, dvars
<1>1. CASE disk' = disk /\ hfile' = hfile /\ pc'[w] = "idle"
  BY <1>a, <1>1, PlainStep DEF Plain
<1>2. CASE /\ disk[n] \in {"data", "empty"} /\ ~Exists(m) /\ Goto(w, "renamed") /\ Keep(w)
           /\ disk' = [disk EXCEPT ![m] = disk[n], ![n] = "none"]
           /\ hfile' = [h \in Handles |-> IF hfile[h] = n THEN m ELSE hfile[h]]
  <2>1. pc'[w] = "renamed" /\ call'[w] = call[w]
    BY <1>2, <1>a, StepTarget DEF PCs
  <2>2. table[m] = NoLock /\ n # m
    BY <1>2, <1>a, TargetIsFree DEF Exists
  <2>3. HandlesAgree(w)' /\ LocksAgree(w)' /\ MapAgrees'
    BY <1>a, <2>1 DEF Agrees, HandlesAgree, LocksAgree, MapAgrees, tvars, hvars
  <2>4. FilesAgree(w)'
    <3>1. ASSUME NEW h \in opened
          PROVE  hfile'[h] \in Names /\ disk'[hfile'[h]] # "none" /\ hfile'[h] = NameOf(w, hlock[h])'
      <4>1. hfile[h] \in Names /\ disk[hfile[h]] # "none" /\ hfile[h] = lname[hlock[h]]
        BY <1>a DEF Agrees, FilesAgree, NameOf, Exists
      <4>2. hfile'[h] = IF hfile[h] = n THEN m ELSE hfile[h]
        BY <1>2, <1>a
      <4>3. NameOf(w, hlock[h])' = IF lname[hlock[h]] = n THEN m ELSE lname[hlock[h]]
        BY <1>a, <2>1 DEF NameOf, tvars, hvars
      <4>4. hfile[h] # m
        BY <4>1, <1>2 DEF Exists
      <4> QED
        BY <1>2, <1>a, <2>2, <4>1, <4>2, <4>3, <4>4
    <3>2. ASSUME NEW h \in Handles \ opened PROVE hfile'[h] = NoName
      BY <1>2, <1>a, NoneAssumption DEF Agrees, FilesAgree
    <3> QED
      BY <1>a, <3>1, <3>2 DEF FilesAgree, Exists, NameOf, hvars
  <2>5. CallAgrees(w)'
    BY <1>a, <2>1, <2>2 DEF CallAgrees, tvars
  <2> QED
    BY <2>3, <2>4, <2>5 DEF Agrees
<1>3. \/ disk' = disk /\ hfile' = hfile /\ pc'[w] = "idle"
      \/ /\ disk[n] \in {"data", "empty"} /\ ~Exists(m) /\ Goto(w, "renamed") /\ Keep(w)
         /\ disk' = [disk EXCEPT ![m] = disk[n], ![n] = "none"]
         /\ hfile' = [h \in Handles |-> IF hfile[h] = n THEN m ELSE hfile[h]]
  BY <1>a, StepTarget DEF MoveRename, dvars, Results
<1> QED
  BY <1>1, <1>2, <1>3

\* No handle had the file that was moved, or the table waits for its lock object.
LEMMA RenamedAgrees ==
    ASSUME IInv, NEW w \in Threads, Agrees(w), Renamed(w) PROVE Agrees(w)'
<1> DEFINE n == call[w].name
<1>a. /\ pc[w] = "renamed" /\ n \in Names /\ call[w] \in Calls
      /\ UNCHANGED <<table, alive, lname, files, hlock, opened, hfile, disk>>
      /\ table[n] \in LockIds \cup {NoLock}
  BY DEF Renamed, At, IInv, TypeOK, CallShape, MovePCs, hvars, dvars
<1>b. \/ table[n] = NoLock /\ pc'[w] = "idle"
      \/ /\ table[n] # NoLock /\ pc'[w] = "rnenter" /\ call'[w].name = n
         /\ call'[w].to = call[w].to /\ call'[w].lock = table[n]
  BY <1>a, StepTarget, LockingCall DEF IInv, Renamed, PCs, Results
<1>1. HandlesAgree(w)' /\ LocksAgree(w)' /\ MapAgrees'
  BY <1>a, <1>b DEF Agrees, HandlesAgree, LocksAgree, MapAgrees
<1>2. FilesAgree(w)'
  <2>1. ASSUME NEW h \in opened PROVE table[n] = NoLock => lname[hlock[h]] # n
    <3>1. hlock[h] \in alive /\ hlock[h] # NoLock
      BY DEF Agrees, HandlesAgree, IInv, TypeOK
    <3> QED
      BY <3>1 DEF Agrees, LocksAgree
  <2> QED
    BY <1>a, <1>b, <2>1 DEF Agrees, FilesAgree, NameOf, Exists
<1>3. CallAgrees(w)'
  BY <1>a, <1>b DEF Agrees, MapAgrees, CallAgrees
<1> QED
  BY <1>1, <1>2, <1>3 DEF Agrees

\* The lock object takes the name its handles' file has.
LEMMA RenamedEnterAgrees ==
    ASSUME IInv, NEW w \in Threads, Agrees(w), RenamedEnter(w) PROVE Agrees(w)'
<1> DEFINE n == call[w].name
           m == call[w].to
           l == call[w].lock
<1>a. /\ pc[w] = "rnenter" /\ n \in Names /\ m \in Names /\ n # m /\ l \in LockIds
      /\ l \in alive /\ l = table[n] /\ table[m] = NoLock /\ lname[l] = n
      /\ NoLock \notin LockIds
  BY NoneAssumption DEF RenamedEnter, At, IInv, CallShape, MovePCs, Agrees, CallAgrees, MapAgrees
<1>b. /\ UNCHANGED <<alive, files, hlock, opened, hfile, disk>>
      /\ lname' = [lname EXCEPT ![l] = m]
      /\ table' = [table EXCEPT ![m] = l, ![n] = NoLock]
      /\ lname \in [LockIds -> Names \cup {NoName}] /\ alive \subseteq LockIds
      /\ table \in [Names -> LockIds \cup {NoLock}] /\ opened \subseteq Handles
  BY DEF RenamedEnter, hvars, dvars, IInv, TypeOK
<1>c. pc'[w] = "idle"
  BY StepTarget DEF IInv, RenamedEnter, Results
<1>d. \A k \in alive \ {l} : lname[k] # n /\ lname[k] # m
  BY <1>a, <1>b DEF Agrees, LocksAgree
<1>1. HandlesAgree(w)'
  BY <1>a, <1>b, <1>c DEF Agrees, HandlesAgree
<1>2. LocksAgree(w)' /\ MapAgrees'
  BY <1>a, <1>b, <1>c, <1>d DEF Agrees, LocksAgree, MapAgrees
<1>3. FilesAgree(w)'
  <2>1. \A h \in opened : hlock[h] \in alive
    BY <1>b DEF Agrees, HandlesAgree
  <2> QED
    BY <1>a, <1>b, <1>c, <1>d, <2>1 DEF Agrees, FilesAgree, NameOf, Exists
<1>4. CallAgrees(w)'
  BY <1>c DEF CallAgrees
<1> QED
  BY <1>1, <1>2, <1>3, <1>4 DEF Agrees

LEMMA AgreesStep ==
    ASSUME IInv, NEW w \in Threads, Agrees(w), Step(w) PROVE Agrees(w)'
<1>1. CASE TouchDeleted(w)
  BY <1>1 DEF TouchDeleted, tvars, hvars, dvars, Agrees, HandlesAgree, LocksAgree, MapAgrees,
              FilesAgree, CallAgrees, NameOf, Exists
<1> QED
  BY <1>1, DiskAgrees, NewAgrees, FoundAgrees, EnterAgrees, CheckAgrees, OpenAgrees, CloseAgrees,
     RemoveAgrees, EraseAgrees, RenameAgrees, RenamedAgrees, RenamedEnterAgrees DEF Step

MCIInv == IInv /\ workers \subseteq Threads /\ (Alone => \A w \in workers : Agrees(w))

LEMMA MCInitInv == MCInit => MCIInv
<1> SUFFICES ASSUME MCInit PROVE MCIInv
  OBVIOUS
<1>1. IInv /\ workers \subseteq Threads
  BY InitInv DEF MCInit
<1>2. ASSUME NEW w \in Threads PROVE Agrees(w)
  BY NoneAssumption DEF MCInit, Init, Agrees, HandlesAgree, LocksAgree, MapAgrees, FilesAgree,
                        CallAgrees, NameOf, Exists
<1> QED
  BY <1>1, <1>2 DEF MCIInv

LEMMA MCNextInv == MCIInv /\ [MCNext]_<<vars, workers>> => MCIInv'
<1> SUFFICES ASSUME MCIInv, [MCNext]_<<vars, workers>> PROVE MCIInv'
  OBVIOUS
<1>1. [Next]_vars /\ workers' = workers
  BY DEF MCIInv, MCNext, Next
<1>2. IInv'
  BY <1>1, NextInv DEF MCIInv
<1>3. ASSUME Alone, NEW w \in workers, UNCHANGED vars PROVE Agrees(w)'
  BY <1>3 DEF MCIInv, vars, tvars, hvars, dvars, Agrees, HandlesAgree, LocksAgree, MapAgrees,
              FilesAgree, CallAgrees, NameOf, Exists
<1>4. ASSUME Alone, NEW w \in workers, NEW t \in workers, Step(t) PROVE Agrees(w)'
  <2>1. PICK x : workers = {x}
    BY <1>4, ThreadsAssumption, FS_Subset, FS_Singleton DEF Alone, MCIInv
  <2>2. t = w /\ w \in Threads
    BY <2>1 DEF MCIInv
  <2> QED
    BY <1>4, <2>2, AgreesStep DEF MCIInv
<1>5. UNCHANGED vars \/ \E t \in workers : Step(t)
  BY DEF MCNext, Undefined
<1> QED
  BY <1>1, <1>2, <1>3, <1>4, <1>5 DEF MCIInv, Alone

\* With one worker thread, whatever it is asked for and however a call ends, a handle's lock
\* object is there and is the one its path has in the map; and between calls there are no
\* others, and each bears the path its handles' file is at (fusemain.cpp:841-981).
THEOREM AloneAlwaysAgrees == MCSpec => []AloneAgrees
<1>1. ASSUME MCIInv, Alone, NEW w \in workers PROVE NoDangling /\ OneLockPerName /\ TableMatchesDisk
  <2>1. Agrees(w) /\ w \in Threads
    BY <1>1 DEF MCIInv
  <2>2. NoDangling
    BY <2>1 DEF NoDangling, Agrees, HandlesAgree
  <2>3. OneLockPerName
    BY <2>1, <1>1 DEF OneLockPerName, Agrees, HandlesAgree, LocksAgree, MCIInv, IInv, TypeOK
  <2>4. TableMatchesDisk
    <3> SUFFICES ASSUME Quiescent
                 PROVE  /\ alive = {hlock[h] : h \in opened}
                        /\ \A n \in Names : table[n] # NoLock => table[n] \in alive
                        /\ \A h \in opened : hfile[h] = lname[hlock[h]]
      BY DEF TableMatchesDisk
    <3>1. pc[w] = "idle"
      BY <2>1 DEF Quiescent
    <3>2. ASSUME NEW l \in alive PROVE \E h \in opened : l = hlock[h]
      <4>1. PICK h \in files[l] : h \in Handles /\ hlock[h] = l /\ l # NoLock
        BY <1>1, <2>1, <3>1, NoneAssumption DEF Agrees, LocksAgree, MCIInv, IInv, TypeOK, Filed
      <4> QED
        BY <2>1, <3>1, <4>1 DEF Agrees, HandlesAgree
    <3>3. ASSUME NEW h \in opened PROVE hlock[h] \in alive
      BY <1>1, <2>1 DEF Agrees, HandlesAgree, MCIInv, IInv, TypeOK
    <3>4. \A n \in Names : table[n] # NoLock => table[n] \in alive
      BY <2>1 DEF Agrees, MapAgrees
    <3>5. \A h \in opened : hfile[h] = lname[hlock[h]]
      BY <2>1, <3>1 DEF Agrees, FilesAgree, NameOf
    <3> QED
      BY <3>2, <3>3, <3>4, <3>5
  <2> QED
    BY <2>2, <2>3, <2>4
<1>2. ASSUME Alone PROVE workers # {}
  BY <1>2, FS_EmptySet DEF Alone
<1>3. MCIInv => AloneAgrees
  BY <1>1, <1>2 DEF AloneAgrees
<1> QED
  BY <1>3, MCInitInv, MCNextInv, PTL DEF MCSpec
=============================================================================
