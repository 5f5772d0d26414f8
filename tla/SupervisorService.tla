-------------------------- MODULE SupervisorService --------------------------
(***************************************************************************)
(* SupervisorService: the instance manager's owner of the compositor and   *)
(* of one guard per Windows prefix.  The threads that call it, its polling *)
(* thread, its two mutexes and the main queue that the in-process          *)
(* compositor is started and stopped on.                                   *)
(*                                                                         *)
(* A guard is what AbstractGuard promises: guards is the set of prefixes   *)
(* that have one.  Stopping it holds the mutex until its stop() returns,   *)
(* which that of a stuck guard never does (GuardStopHangs.cfg).            *)
(***************************************************************************)
EXTENDS Naturals, FiniteSets

CONSTANTS
  Threads,    \* the threads that call the supervisor
  Main,       \* the one that runs the main queue
  Poll,       \* the supervisor's own polling thread
  Free,       \* a mutex nobody holds
  Calls,      \* Calls[t]: the operations thread t calls
  Prefixes,   \* names of Windows prefixes
  MaxEdits    \* bound: how many prefixes are created or deleted in all

CallNames == {"start", "stop", "created", "deleted", "restart"}

\* The main thread is one of the callers, the polling thread is not.
CallersFit ==
  /\ Main \in Threads
  /\ Poll \notin Threads
  /\ Free \notin Threads \cup {Poll}
  /\ Calls \in [Threads -> SUBSET CallNames]
  /\ MaxEdits \in Nat

ASSUME SupervisorAssumption == CallersFit

VARIABLES
  running,     \* running_
  lifecycle,   \* who holds lifecycle_mu_
  guardsMu,    \* who holds guards_mu_
  poll,        \* poll_thread_: "none" when not joinable, else where it is
  guards,      \* keys of wine_guards_
  stuck,       \* those whose monitor waits for an exit that it will not see
  late,        \* history: guards since the last stop_guards() that
               \* on_prefix_created() has brought up
  compositor,  \* the in-process compositor: "off", "on", "deaf" (no socket)
  relit,       \* history: restarted by the application since it was stopped
  pc,          \* where each calling thread is
  arg,         \* the prefix a thread's call is about
  listed,      \* each thread's result of list_prefixes()
  prefixes,    \* the Windows prefixes on disk
  fresh,       \* created on disk, on_prefix_created() not yet called
  edits,       \* how often the prefixes on disk were changed
  terminated   \* std::terminate() was called

svcVars  == <<running, lifecycle, poll, terminated>>
diskVars == <<prefixes, fresh, edits>>
guardVars == <<guards, stuck, late>>
compositorVars == <<compositor, relit>>
vars == <<svcVars, guardsMu, guardVars, compositorVars, pc, arg, listed, diskVars>>

Init ==
  /\ running = FALSE
  /\ lifecycle = Free /\ guardsMu = Free
  /\ poll = "none"
  /\ guards = {} /\ stuck = {} /\ late = {}
  /\ compositor = "off" /\ relit = FALSE
  /\ pc = [t \in Threads |-> "idle"]
  /\ prefixes \in SUBSET Prefixes
  /\ fresh = {} /\ edits = 0
  /\ arg = [t \in Threads |-> Free]
  /\ listed = [t \in Threads \cup {Poll} |-> {}]
  /\ terminated = FALSE

Goto(t, from, to) == pc[t] = from /\ pc' = [pc EXCEPT ![t] = to]

\* MuplarWawona{Start,Stop}InProcess: run at once on the main thread, and through
\* dispatch_sync, which waits for the main thread's run loop, on any other.
OnMainQueue(t) == t = Main \/ pc[Main] = "idle"

\* The stop() of each of gs returns.
StopsReturn(gs) == gs \cap stuck = {}

----
(* start()                                                                 *)

\* try_lock.  With the lock taken, start() returns and nothing happens.
StartTryLock(t) ==
  /\ "start" \in Calls[t]
  /\ Goto(t, "idle", "exchange")
  /\ lifecycle = Free
  /\ lifecycle' = t
  /\ UNCHANGED <<running, poll, terminated, guardsMu, guardVars, compositorVars, arg,
                 listed, diskVars>>

StartExchangeIgnored(t) ==
  /\ lifecycle' = Free
  /\ Goto(t, "exchange", "precheck")
  /\ running' = TRUE
  /\ UNCHANGED <<poll, terminated, guardsMu, guardVars, compositorVars, arg, listed,
                 diskVars>>

\* running_.exchange(true), joining a thread an earlier stop() may have left.
StartExchange(t) ==
  /\ lifecycle' = Free
  /\ \/ /\ Goto(t, "exchange", "idle")
        /\ running
        /\ UNCHANGED <<running, poll>>
     \/ /\ Goto(t, "exchange", "precheck")
        /\ ~running
        /\ running' = TRUE
        /\ poll \in {"none", "exited"}
        /\ poll' = "none"
  /\ UNCHANGED <<terminated, guardsMu, guardVars, compositorVars, arg, listed, diskVars>>

\* A stop() may have come since.
StartPrecheck(t) ==
  /\ \/ running /\ Goto(t, "precheck", "compositor")
     \/ ~running /\ Goto(t, "precheck", "idle")
  /\ UNCHANGED <<svcVars, guardsMu, guardVars, compositorVars, arg, listed, diskVars>>

\* wayland_guard_->start(): a compositor whose socket is dead is stopped and
\* started again, one that listens is left alone.  The new one listens or not.
StartCompositor(t) ==
  /\ Goto(t, "compositor", "list")
  /\ OnMainQueue(t)
  /\ compositor' \in IF compositor = "on" THEN {"on"} ELSE {"on", "deaf"}
  /\ UNCHANGED relit
  /\ UNCHANGED <<svcVars, guardsMu, guardVars, arg, listed, diskVars>>

StartPublishUnchecked(t) ==
  /\ lifecycle = Free
  /\ Goto(t, "publish", "idle")
  /\ IF poll = "none" THEN poll' = "top" /\ UNCHANGED terminated
                      ELSE terminated' = TRUE /\ UNCHANGED poll
  /\ UNCHANGED <<running, lifecycle, guardsMu, guardVars, compositorVars, arg, listed,
                 diskVars>>

\* Under the lock again: publish the polling thread unless a stop() has come.
\* Assigning to a joinable std::thread calls std::terminate().
StartPublish(t) ==
  /\ lifecycle = Free
  /\ \/ /\ running
        /\ Goto(t, "publish", "idle")
        /\ IF poll = "none" THEN poll' = "top" /\ UNCHANGED terminated
                            ELSE terminated' = TRUE /\ UNCHANGED poll
     \/ /\ ~running
        /\ Goto(t, "publish", "lockguards")
        /\ UNCHANGED <<poll, terminated>>
  /\ UNCHANGED <<running, lifecycle, guardsMu, guardVars, compositorVars, arg, listed,
                 diskVars>>

----
(* stop() and stop_guards()                                                *)

CallStop(t) ==
  /\ "stop" \in Calls[t]
  /\ Goto(t, "idle", "stop")
  /\ UNCHANGED <<svcVars, guardsMu, guardVars, compositorVars, arg, listed, diskVars>>

StopExchangeForgets(t) ==
  /\ lifecycle = Free
  /\ running
  /\ Goto(t, "stop", "join")
  /\ lifecycle' = t
  /\ UNCHANGED <<running, poll, terminated, guardsMu, guardVars, compositorVars, arg,
                 listed, diskVars>>

\* running_.exchange(false) under the lock, which is kept for the join.
StopExchange(t) ==
  /\ lifecycle = Free
  /\ \/ /\ running
        /\ Goto(t, "stop", "join")
        /\ running' = FALSE
        /\ lifecycle' = t
     \/ /\ ~running
        /\ Goto(t, "stop", "idle")
        /\ UNCHANGED <<running, lifecycle>>
  /\ UNCHANGED <<poll, terminated, guardsMu, guardVars, compositorVars, arg, listed,
                 diskVars>>

StopJoin(t) ==
  /\ Goto(t, "join", "lockguards")
  /\ poll \in {"none", "exited"}
  /\ poll' = "none"
  /\ lifecycle' = Free
  /\ UNCHANGED <<running, terminated, guardsMu, guardVars, compositorVars, arg, listed,
                 diskVars>>

LockGuards(t) ==
  /\ Goto(t, "lockguards", "stopguards")
  /\ guardsMu = Free
  /\ guardsMu' = t
  /\ UNCHANGED <<svcVars, guardVars, compositorVars, arg, listed, diskVars>>

\* Every guard's stop(), wine_guards_.clear()
StopWineGuards(t) ==
  /\ Goto(t, "stopguards", "stopcompositor")
  /\ StopsReturn(guards)
  /\ guards' = {} /\ late' = {} /\ UNCHANGED stuck
  /\ guardsMu' = Free
  /\ UNCHANGED <<svcVars, compositorVars, arg, listed, diskVars>>

\* wayland_guard_->stop()
StopCompositor(t) ==
  /\ Goto(t, "stopcompositor", "idle")
  /\ OnMainQueue(t)
  /\ compositor' = "off" /\ relit' = FALSE
  /\ UNCHANGED <<svcVars, guardsMu, guardVars, arg, listed, diskVars>>

----
(* sync_wine_guards(), called by start() and by the polling thread: the    *)
(* list is read before the lock is taken.                                  *)

ListPrefixes(t) ==
  /\ Goto(t, "list", "sync")
  /\ listed' = [listed EXCEPT ![t] = prefixes]
  /\ UNCHANGED <<svcVars, guardsMu, guardVars, compositorVars, arg, diskVars>>

SyncLock(t) ==
  /\ Goto(t, "sync", "syncing")
  /\ guardsMu = Free
  /\ guardsMu' = t
  /\ UNCHANGED <<svcVars, guardVars, compositorVars, arg, listed, diskVars>>

SyncedAddOnly(now, seen) == now \cup seen

\* Guards for the prefixes that have none, none for prefixes that are gone.
Synced(now, seen) == {p \in now : p \in seen} \cup {p \in seen : p \notin now}
Sync(seen) ==
  /\ StopsReturn(guards \ seen)
  /\ guards' = Synced(guards, seen)
  /\ late' = late \cap seen /\ UNCHANGED stuck

SyncGuards(t) ==
  /\ Goto(t, "syncing", "publish")
  /\ Sync(listed[t])
  /\ guardsMu' = Free
  /\ UNCHANGED <<svcVars, compositorVars, arg, listed, diskVars>>

\* poll_loop()
PollTop ==
  /\ poll = "top"
  /\ poll' = IF running THEN "sleep" ELSE "exited"
  /\ UNCHANGED <<running, lifecycle, terminated, guardsMu, guardVars, compositorVars,
                 pc, arg, listed, diskVars>>

PollWake ==
  /\ poll = "sleep"
  /\ poll' = IF running THEN "list" ELSE "exited"
  /\ UNCHANGED <<running, lifecycle, terminated, guardsMu, guardVars, compositorVars,
                 pc, arg, listed, diskVars>>

PollList ==
  /\ poll = "list"
  /\ poll' = "sync"
  /\ listed' = [listed EXCEPT ![Poll] = prefixes]
  /\ UNCHANGED <<running, lifecycle, terminated, guardsMu, guardVars, compositorVars,
                 pc, arg, diskVars>>

PollSyncLockWrongMutex ==
  /\ poll = "sync"
  /\ poll' = "syncing"
  /\ lifecycle = Free
  /\ lifecycle' = Poll
  /\ UNCHANGED <<running, terminated, guardsMu, guardVars, compositorVars, pc, arg,
                 listed, diskVars>>

PollSyncLock ==
  /\ poll = "sync"
  /\ poll' = "syncing"
  /\ guardsMu = Free
  /\ guardsMu' = Poll
  /\ UNCHANGED <<running, lifecycle, terminated, guardVars, compositorVars, pc, arg,
                 listed, diskVars>>

PollSyncGuards ==
  /\ poll = "syncing"
  /\ poll' = "top"
  /\ Sync(listed[Poll])
  /\ guardsMu' = Free
  /\ UNCHANGED <<running, lifecycle, terminated, compositorVars, pc, arg, listed,
                 diskVars>>

PollStep == PollTop \/ PollWake \/ PollList \/ PollSyncLock \/ PollSyncGuards

----
(* Prefixes come and go.                                                   *)

\* A background queue has created or cloned a prefix.
CreateOnDisk(p) ==
  /\ p \notin prefixes
  /\ edits < MaxEdits
  /\ prefixes' = prefixes \cup {p}
  /\ fresh' = fresh \cup {p}
  /\ edits' = edits + 1
  /\ UNCHANGED <<svcVars, guardsMu, guardVars, compositorVars, pc, arg, listed>>

CallOnPrefixCreated(t, p) ==
  /\ "created" \in Calls[t]
  /\ Goto(t, "idle", "created")
  /\ p \in fresh
  /\ fresh' = fresh \ {p}
  /\ arg' = [arg EXCEPT ![t] = p]
  /\ UNCHANGED <<svcVars, guardsMu, guardVars, compositorVars, listed, prefixes, edits>>

\* A guard for the prefix unless it has one.  Whether the supervisor runs is not
\* looked at.
OnPrefixCreated(t) ==
  /\ Goto(t, "created", "idle")
  /\ guardsMu = Free
  /\ guards' = guards \cup {arg[t]}
  /\ late' = late \cup ({arg[t]} \ guards) /\ UNCHANGED stuck
  /\ UNCHANGED <<svcVars, guardsMu, compositorVars, arg, listed, diskVars>>

CallOnPrefixDeleted(t, p) ==
  /\ "deleted" \in Calls[t]
  /\ Goto(t, "idle", "deleted")
  /\ p \in prefixes \ fresh
  /\ edits < MaxEdits
  /\ edits' = edits + 1
  /\ arg' = [arg EXCEPT ![t] = p]
  /\ UNCHANGED <<svcVars, guardsMu, guardVars, compositorVars, listed, prefixes, fresh>>

DeletedLock(t) ==
  /\ Goto(t, "deleted", "erasing")
  /\ guardsMu = Free
  /\ guardsMu' = t
  /\ UNCHANGED <<svcVars, guardVars, compositorVars, arg, listed, diskVars>>

\* The guard's stop(), erase(it)
OnPrefixDeleted(t) ==
  /\ Goto(t, "erasing", "remove")
  /\ StopsReturn(guards \cap {arg[t]})
  /\ guards' = guards \ {arg[t]} /\ late' = late \ {arg[t]} /\ UNCHANGED stuck
  /\ guardsMu' = Free
  /\ UNCHANGED <<svcVars, compositorVars, arg, listed, diskVars>>

\* deletePrefix: goes on to prefix::delete_prefix().
DeleteOnDisk(t) ==
  /\ Goto(t, "remove", "idle")
  /\ prefixes' = prefixes \ {arg[t]}
  /\ UNCHANGED <<svcVars, guardsMu, guardVars, compositorVars, arg, listed, fresh, edits>>

----
(* The compositor.                                                         *)

\* ensureMuplarWaylandForLinuxPrefix: the socket is not there, so stop() and
\* start() the compositor behind the supervisor's back.
RestartCompositor(t) ==
  /\ "restart" \in Calls[t]
  /\ pc[t] = "idle"
  /\ OnMainQueue(t)
  /\ compositor # "on"
  /\ compositor' \in {"on", "deaf"} /\ relit' = TRUE
  /\ UNCHANGED <<svcVars, guardsMu, guardVars, pc, arg, listed, diskVars>>

\* The compositor loses its socket.
CompositorGoesDeaf ==
  /\ compositor = "on"
  /\ compositor' = "deaf" /\ UNCHANGED relit
  /\ UNCHANGED <<svcVars, guardsMu, guardVars, pc, arg, listed, diskVars>>

----
\* The monitor of a guard misses the exit of its service, or a stop() comes while
\* it starts one.
GuardSticks(p) ==
  /\ p \in guards
  /\ stuck' = stuck \cup {p}
  /\ UNCHANGED <<svcVars, guardsMu, guards, late, compositorVars, pc, arg, listed, diskVars>>

----
StartStep(t) ==
  \/ StartExchange(t) \/ StartPrecheck(t) \/ StartCompositor(t)
  \/ ListPrefixes(t) \/ SyncLock(t) \/ SyncGuards(t) \/ StartPublish(t)

StopStep(t) ==
  \/ StopExchange(t) \/ StopJoin(t)
  \/ LockGuards(t) \/ StopWineGuards(t) \/ StopCompositor(t)

PrefixStep(t) ==
  \/ OnPrefixCreated(t)
  \/ DeletedLock(t) \/ OnPrefixDeleted(t) \/ DeleteOnDisk(t)

ThreadStep(t) == StartStep(t) \/ StopStep(t) \/ PrefixStep(t)

Call(t) ==
  \/ StartTryLock(t) \/ CallStop(t) \/ RestartCompositor(t)
  \/ \E p \in Prefixes : CallOnPrefixCreated(t, p) \/ CallOnPrefixDeleted(t, p)

Next ==
  \/ \E t \in Threads : ThreadStep(t) \/ Call(t)
  \/ PollStep
  \/ \E p \in Prefixes : CreateOnDisk(p) \/ GuardSticks(p)
  \/ CompositorGoesDeaf

Spec == Init /\ [][Next]_vars

\* Threads run, mutexes are handed on and the main queue serves its blocks in
\* order, so a thread that can go on again and again does; the callback that
\* follows a creation is queued on the main queue.
FairSpec ==
  /\ Spec
  /\ WF_vars(PollTop) /\ WF_vars(PollWake) /\ WF_vars(PollList)
  /\ SF_vars(PollSyncLock) /\ WF_vars(PollSyncGuards)
  /\ \A t \in Threads :
       /\ SF_vars(ThreadStep(t))
       /\ SF_vars(\E p \in Prefixes : CallOnPrefixCreated(t, p))

----
ThreadPc == {"idle", "exchange", "precheck", "compositor", "list", "sync",
             "syncing", "publish", "stop", "join", "lockguards", "stopguards",
             "stopcompositor", "created", "deleted", "erasing", "remove"}
PollPc == {"none", "top", "sleep", "list", "sync", "syncing", "exited"}

\* The type invariant of the supervisor's fields and its callers' locals.
TypeOK ==
  /\ running \in BOOLEAN /\ terminated \in BOOLEAN
  /\ lifecycle \in Threads \cup {Free}
  /\ guardsMu \in Threads \cup {Poll, Free}
  /\ poll \in PollPc
  /\ guards \subseteq Prefixes /\ stuck \subseteq guards /\ late \subseteq guards
  /\ compositor \in {"off", "on", "deaf"} /\ relit \in BOOLEAN
  /\ pc \in [Threads -> ThreadPc]
  /\ arg \in [Threads -> Prefixes \cup {Free}]
  /\ listed \in [Threads \cup {Poll} -> SUBSET Prefixes]
  /\ prefixes \subseteq Prefixes
  /\ fresh \subseteq Prefixes
  /\ edits \in 0 .. MaxEdits

Quiescent == \A t \in Threads : pc[t] = "idle"

\* start() never assigns over a polling thread that is still joinable, which
\* would end the program in std::terminate(), whenever a stop() overtakes it.
PollThreadNotOverwritten == ~terminated

\* "Stop everything cleanly": with no call under way a supervisor that does not
\* run has no polling thread, and no guard or compositor but those that
\* on_prefix_created() or the restart of a deaf compositor brought up after
\* stop_guards() had been through, also when stop() came while start() was
\* bringing them up.
StoppedIsClean ==
  Quiescent /\ ~running => /\ poll = "none" /\ guards \subseteq late
                           /\ compositor = "off" \/ relit

\* A thread waits for a guard whose stop() does not return, with guards_mu_ held.
Hung ==
  \/ \E t \in Threads :
       \/ pc[t] = "stopguards" /\ ~StopsReturn(guards)
       \/ pc[t] = "syncing" /\ ~StopsReturn(guards \ listed[t])
       \/ pc[t] = "erasing" /\ arg[t] \in stuck
  \/ poll = "syncing" /\ ~StopsReturn(guards \ listed[Poll])

\* Every call returns unless the stop() of a guard does not: start(), stop() and
\* the prefix callbacks never wait for each other for good through the two locks,
\* the polling thread and the main queue.
CallsComplete == \A t \in Threads : (pc[t] # "idle") ~> (pc[t] = "idle" \/ Hung)

\* Once prefixes stop changing, the guards of a supervisor that goes on running are
\* those of the prefixes on disk, if none has to be stopped that cannot be: what a
\* stale list added or removed is put right by a later round of the poll.
GuardsFollowPrefixes == <>[]running => <>[](guards = prefixes \/ Hung)
=============================================================================
