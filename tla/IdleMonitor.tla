----------------------------- MODULE IdleMonitor -----------------------------
(***************************************************************************)
(* The idle monitor of a volume mounted with --idle (main.cpp): its thread, *)
(* the handlers it watches through EncFS_Context, and encfs_destroy, which *)
(* stops it, over the condition variable compatwin.cpp builds from a       *)
(* Windows event.  Dokan calls encfs_destroy once, from a thread of its    *)
(* own, when the drive goes away.                                          *)
(***************************************************************************)
EXTENDS Integers

CONSTANTS Clients,     \* Dokan's threads, running handlers
          MaxOpen,     \* bound: the paths open at once
          Timeouts     \* the values timeoutCycles may have

\* timeoutCycles is 60 * idleTimeout / 10 in an int, for any positive int: a
\* multiple of 6 up to 214748364, anything else when the product overflows.
ASSUME ConstantsAssumption ==
    /\ MaxOpen \in Nat
    /\ Timeouts \subseteq Int

VARIABLES onDemand, timeoutCycles, \* the volume's options
          running,   \* EncFS_Context::running
          root,      \* whether EncFS_Context::root is set
          used,      \* usageCount > 0
          openCount, \* openFiles.size()
          wmutex,    \* owner of wakeupMutex: "none", "monitor" or "destroy"
          cond,      \* wakeupCond: waiters, releases, generation, event
          mpc, idle, seen, \* the monitor: place, idleCycles, usage or generation
          dpc,       \* encfs_destroy's place
          cpc        \* each client's place

opts == <<onDemand, timeoutCycles>>
monitor == <<mpc, idle, seen>>
context == <<root, used, openCount>>
sync == <<running, wmutex, cond>>
vars == <<opts, monitor, context, sync, dpc, cpc>>

Cond(waiters, releases, generation, event) ==
    [waiters |-> waiters, releases |-> releases, generation |-> generation,
     event |-> event]

Init ==
    /\ onDemand \in BOOLEAN
    /\ timeoutCycles \in Timeouts
    /\ running = TRUE
    /\ root = TRUE
    /\ used = FALSE
    /\ openCount = 0
    /\ wmutex = "none"
    /\ cond = Cond(0, 0, 0, FALSE)
    /\ mpc = "start" /\ idle = 0 /\ seen = 0
    /\ dpc = "none"
    /\ cpc = [c \in Clients |-> "idle"]

----------------------------------------------------------------------------
(* pthread_cond_wait and pthread_cond_timedwait, for the monitor.  Both    *)
(* wait for the event with INFINITE, so the time given has no effect.      *)

\* (Mutant: the mutex is let go before the waiter is counted.)
CondEnterUncounted(next) ==
    /\ wmutex' = "none"
    /\ seen' = cond.generation
    /\ mpc' = next
    /\ UNCHANGED cond

\* The waiter is counted before the mutex is let go.
CondEnter(next) ==
    /\ cond' = Cond(cond.waiters + 1, cond.releases, cond.generation, cond.event)
    /\ seen' = cond.generation
    /\ wmutex' = "none"
    /\ mpc' = next

\* The event is set and a release is there for a waiter of this generation.
CondWoken == cond.event /\ cond.releases > 0 /\ cond.generation # seen

\* (Mutant: the last waiter leaves the event set.)
CondLeaveEventSet(next) ==
    /\ wmutex = "none"
    /\ wmutex' = "monitor"
    /\ cond' = Cond(cond.waiters - 1, cond.releases - 1, cond.generation, cond.event)
    /\ mpc' = next

CondLeave(next) ==
    /\ wmutex = "none"
    /\ wmutex' = "monitor"
    /\ cond' = Cond(cond.waiters - 1, cond.releases - 1, cond.generation,
                    cond.event /\ cond.releases # 1)
    /\ mpc' = next

\* pthread_cond_signal.
CondSignal ==
    cond' = IF cond.waiters > cond.releases
              THEN Cond(cond.waiters, cond.releases + 1, cond.generation + 1, TRUE)
              ELSE cond

----------------------------------------------------------------------------
(* idleMonitor.                                                            *)

MonitorStart ==
    /\ mpc = "start"
    /\ wmutex = "none"
    /\ wmutex' = "monitor"
    /\ mpc' = "loop"
    /\ UNCHANGED <<opts, idle, seen, context, running, cond, dpc, cpc>>

\* while(ctx->running), read without a lock that running's writer takes.
MonitorLoop ==
    /\ mpc = "loop"
    /\ \/ running /\ mpc' = "usage" /\ UNCHANGED wmutex
       \/ ~running /\ mpc' = "done" /\ wmutex' = "none"
    /\ UNCHANGED <<opts, idle, seen, context, running, cond, dpc, cpc>>

MonitorUsage ==
    /\ mpc = "usage"
    /\ seen' = IF used THEN 1 ELSE 0
    /\ used' = FALSE
    /\ mpc' = "mounted"
    /\ UNCHANGED <<opts, idle, root, openCount, sync, dpc, cpc>>

\* isMounted reads root without contextMutex.
MonitorMounted ==
    /\ mpc = "mounted"
    /\ idle' = IF seen = 0 /\ root THEN idle + 1 ELSE 0
    /\ mpc' = IF idle' >= timeoutCycles THEN "count" ELSE "sleep"
    /\ UNCHANGED <<opts, seen, context, sync, dpc, cpc>>

MonitorCount ==
    /\ mpc = "count"
    /\ mpc' = IF openCount = 0 THEN "unmount" ELSE "sleep"
    /\ UNCHANGED <<opts, idle, seen, context, sync, dpc, cpc>>

\* unmountFS: an on-demand volume is detached; otherwise fuse_unmount is called
\* with a NULL channel, for which it does nothing (docanfuse.cpp:592).
MonitorUnmount ==
    /\ mpc = "unmount"
    /\ \/ /\ onDemand
          /\ root' = FALSE
          /\ mpc' = "sleep"
       \/ /\ ~onDemand
          /\ mpc' = "await"
          /\ UNCHANGED root
    /\ UNCHANGED <<opts, idle, seen, used, openCount, sync, dpc, cpc>>

MonitorSleep ==
    /\ \/ mpc = "sleep" /\ CondEnter("timedwait")
       \/ mpc = "await" /\ CondEnter("wait")
    /\ UNCHANGED <<opts, idle, context, running, dpc, cpc>>

MonitorWake ==
    /\ CondWoken
    /\ \/ mpc = "timedwait" /\ mpc' = "timedback"
       \/ mpc = "wait" /\ mpc' = "back"
    /\ UNCHANGED <<opts, idle, seen, context, sync, dpc, cpc>>

MonitorBack ==
    /\ \/ mpc = "timedback" /\ CondLeave("loop")
       \/ mpc = "back" /\ CondLeave("leave")
    /\ UNCHANGED <<opts, idle, seen, context, running, dpc, cpc>>

MonitorLeave ==
    /\ mpc = "leave"
    /\ mpc' = "done"
    /\ wmutex' = "none"
    /\ UNCHANGED <<opts, idle, seen, context, running, cond, dpc, cpc>>

Monitor == \/ MonitorStart \/ MonitorLoop \/ MonitorUsage \/ MonitorMounted
           \/ MonitorCount \/ MonitorUnmount \/ MonitorSleep \/ MonitorWake
           \/ MonitorBack \/ MonitorLeave

----------------------------------------------------------------------------
(* encfs_destroy.                                                          *)

\* running is cleared before the mutex is taken.
DestroyStop ==
    /\ dpc = "none"
    /\ running' = FALSE
    /\ dpc' = "lock"
    /\ UNCHANGED <<opts, monitor, context, wmutex, cond, cpc>>

\* (Mutant: the mutex is not taken.)
DestroySignalUnlocked ==
    /\ dpc = "lock"
    /\ CondSignal
    /\ dpc' = "unlock"
    /\ UNCHANGED <<opts, monitor, context, running, wmutex, cpc>>

DestroySignal ==
    /\ dpc = "lock"
    /\ wmutex = "none"
    /\ wmutex' = "destroy"
    /\ CondSignal
    /\ dpc' = "unlock"
    /\ UNCHANGED <<opts, monitor, context, running, cpc>>

DestroyUnlock ==
    /\ dpc = "unlock"
    /\ wmutex' = "none"
    /\ dpc' = "join"
    /\ UNCHANGED <<opts, monitor, context, running, cond, cpc>>

DestroyJoin ==
    /\ dpc = "join"
    /\ mpc = "done"
    /\ dpc' = "done"
    /\ UNCHANGED <<opts, monitor, context, sync, cpc>>

Destroy == DestroySignal \/ DestroyUnlock \/ DestroyJoin

----------------------------------------------------------------------------
(* The handlers, as far as the monitor sees them.                          *)

\* getRoot counts a use each time it looks.
GetRoot(c) ==
    /\ cpc[c] \in {"idle", "again"}
    /\ used' = TRUE
    /\ cpc' = [cpc EXCEPT ![c] = IF root THEN "in" ELSE "remount"]
    /\ UNCHANGED <<opts, monitor, sync, root, openCount, dpc>>

\* remountFS, whose initFS may fail.
Remount(c) ==
    /\ cpc[c] = "remount"
    /\ \/ root' = TRUE /\ cpc' = [cpc EXCEPT ![c] = "again"]
       \/ UNCHANGED root /\ cpc' = [cpc EXCEPT ![c] = "idle"]
    /\ UNCHANGED <<opts, monitor, sync, used, openCount, dpc>>

\* The handler ends; if it is encfs_open it may have filed another path.
Return(c) ==
    /\ cpc[c] = "in"
    /\ cpc' = [cpc EXCEPT ![c] = "idle"]
    /\ \/ UNCHANGED openCount
       \/ openCount < MaxOpen /\ openCount' = openCount + 1
    /\ UNCHANGED <<opts, monitor, sync, root, used, dpc>>

\* (Mutant: a path is taken out whether or not it is there.)
ReleaseUnchecked(c) ==
    /\ cpc[c] = "idle"
    /\ openCount' = openCount - 1
    /\ UNCHANGED <<opts, monitor, sync, root, used, dpc, cpc>>

\* encfs_release does not ask for the root, so it is not counted as a use.
Release(c) ==
    /\ cpc[c] = "idle"
    /\ openCount > 0
    /\ openCount' = openCount - 1
    /\ UNCHANGED <<opts, monitor, sync, root, used, dpc, cpc>>

Client(c) == GetRoot(c) \/ Remount(c) \/ Return(c) \/ Release(c)

Next == Monitor \/ DestroyStop \/ Destroy \/ \E c \in Clients : Client(c)

\* Threads that can run do.  Nobody has to unmount, or to call.
Fairness == WF_vars(Monitor) /\ WF_vars(Destroy)

Spec == Init /\ [][Next]_vars

FairSpec == Spec /\ Fairness

----------------------------------------------------------------------------
(* Properties.                                                             *)

MonitorPlaces == {"start", "loop", "usage", "mounted", "count", "unmount", "sleep",
                  "await", "timedwait", "wait", "timedback", "back", "leave", "done"}
Waiting == {"timedwait", "wait"}
Waking == {"timedback", "back"}

\* Every variable has its type.
TypeOK ==
    /\ onDemand \in BOOLEAN /\ timeoutCycles \in Timeouts
    /\ running \in BOOLEAN /\ root \in BOOLEAN /\ used \in BOOLEAN
    /\ openCount \in 0..MaxOpen
    /\ wmutex \in {"none", "monitor", "destroy"}
    /\ cond \in [waiters : 0..1, releases : 0..1, generation : Nat, event : BOOLEAN]
    /\ mpc \in MonitorPlaces /\ idle \in Nat /\ seen \in Nat
    /\ dpc \in {"none", "lock", "unlock", "join", "done"}
    /\ cpc \in [Clients -> {"idle", "again", "remount", "in"}]

\* The event is set exactly while a release is left for a waiter, so that a
\* later wait does not return without a signal (compatwin.cpp:271-282).
EventMeansRelease == cond.event <=> cond.releases > 0

\* While encfs_destroy waits for the monitor, the monitor is not asleep on a
\* signal that has passed: clearing running outside the mutex cannot make it
\* miss the wake-up (main.cpp:465-471, 691-722).
SignalNotLost == dpc = "join" /\ mpc \in Waiting => CondWoken

\* encfs_destroy comes back from joining the monitor (main.cpp:473).
ShutdownCompletes == dpc = "lock" ~> dpc = "done"

\* "It will cause the filesystem to be automatically unmounted [...] if the
\* filesystem stays idle too long" (main.cpp:672-673): when from some time on no
\* handler runs and no file is open, the volume is detached or taken down.
Quiet == openCount = 0 /\ \A c \in Clients : cpc[c] = "idle"
IdleUnmounts == <>[]Quiet => <>(~root \/ dpc # "none")
=============================================================================
