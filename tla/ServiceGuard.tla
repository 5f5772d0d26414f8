---------------------------- MODULE ServiceGuard ----------------------------
(***************************************************************************)
(* One guard of the supervisor: a monitor thread that keeps one service    *)
(* process alive, and the thread that calls start() and stop().            *)
(*                                                                         *)
(* Kind = "wine" is WineServerGuard; Kind = "wayland" is the process-based *)
(* WaylandGuard (the #else branch, built where the compositor is a process *)
(* of its own).  The two classes share their control; they differ in the   *)
(* backoff rule and in the compositor socket the wayland guard looks at    *)
(* before and after it spawns.                                             *)
(*                                                                         *)
(* Time is a tick: ages of crashes grow with it, saturating one past the   *)
(* window, and a sleeping monitor counts it down.                          *)
(***************************************************************************)
EXTENDS Integers, Sequences, FiniteSets

CONSTANTS
  Kind,           \* "wine" or "wayland"
  Pids,           \* process ids the kernel hands out
  NoPid,          \* pid_ == 0
  External,       \* a compositor that is not ours, as owner of the socket
  MaxCrashes,     \* RestartPolicy::max_crashes_in_window, 0 = restart forever
  Window,         \* RestartPolicy::crash_window_sec, in ticks
  InitialDelay,   \* RestartPolicy::initial_delay_ms, in ticks
  FirstDelay,     \* the 1000 ms a wine guard starts its backoff with
  BackoffFactor,  \* RestartPolicy::backoff_factor
  MaxDelay,       \* RestartPolicy::max_delay_ms, in ticks
  RetryDelay,     \* the 2 s slept after a spawn that failed
  PidReuse,       \* the kernel may give a free pid to somebody else
  AttachToExited  \* what EVFILT_PROC does with an exited, unreaped child

ASSUME GuardAssumption ==
  /\ Kind \in {"wine", "wayland"}
  /\ NoPid \notin Pids
  /\ External \notin Pids
  /\ External # NoPid
  /\ {MaxCrashes, Window, InitialDelay, FirstDelay, BackoffFactor,
      MaxDelay, RetryDelay} \subseteq Nat
  /\ PidReuse \in BOOLEAN
  /\ AttachToExited \in {"delivered", "lost"}

VARIABLES
  proc,           \* the process table
  pid,            \* pid_, the atomic both threads share
  stopRequested,  \* stop_requested_
  joinable,       \* monitor_thread_.joinable()
  mpc,            \* where the monitor thread is
  mpid,           \* the monitor's local pid
  knote,          \* the EVFILT_PROC knote of the monitor's kqueue
  crashAges,      \* crash_times_, as ages, the newest first
  delay,          \* current_delay_ms_
  sleepLeft,      \* what is left of the monitor's sleep_for
  spc,            \* where the caller of stop() is
  spid,           \* the caller's local pid
  sockOwner,      \* who listens on the compositor socket
  spawnAges       \* history: ages of the last MaxCrashes + 1 spawns

monitorVars == <<mpc, mpid, knote, sleepLeft>>
policyVars  == <<crashAges, delay, spawnAges>>
stopVars    == <<spc, spid>>
vars == <<proc, pid, stopRequested, joinable, monitorVars, policyVars,
          stopVars, sockOwner>>

----
(* Processes.  "live", "termed" (SIGTERM received) and "killed" (SIGKILL   *)
(* received) are our child running; "zombie" is our child exited and not   *)
(* yet waited for; "foreign" is a process of somebody else that got the    *)
(* pid, "struck" one that then received a signal of the guard.             *)

OwnLive == {"live", "termed", "killed"}
ProcState == OwnLive \cup {"free", "zombie", "foreign", "struck"}
Exists(p) == proc[p] # "free"            \* kill(p, 0) == 0, zombies included

ServiceUp == \E p \in Pids : proc[p] \in OwnLive

\* kill(p, SIGTERM) and kill(p, SIGKILL): what each does to the process.
AfterSignal(state, sig) ==
  CASE state = "foreign"                         -> "struck"
    [] state \in {"live", "termed"} /\ sig = "kill" -> "killed"
    [] state = "live" /\ sig = "term"            -> "termed"
    [] OTHER                                     -> state

Signal(p, sig) == proc' = [proc EXCEPT ![p] = AfterSignal(@, sig)]

\* waitpid(p, ..., 0): blocks while the child runs, reaps it once it has
\* exited, and returns ECHILD at once when p is no child of this process.
WaitPid(p) ==
  /\ proc[p] \notin OwnLive
  /\ proc' = [proc EXCEPT ![p] = IF @ = "zombie" THEN "free" ELSE @]

----
(* The restart policy.                                                     *)

Older(age) == IF age > Window THEN age ELSE age + 1
AgesOlder(ages) == [i \in DOMAIN ages |-> Older(ages[i])]

\* crash_times_.push_back(now)
NoteNow(ages) == <<0>> \o ages

\* The erase(remove_if(t < cutoff)): crash times are pushed in the order of the
\* steady clock, so the ones inside the window are the newest few.
Recent(ages) ==
  SubSeq(ages, 1, Cardinality({i \in DOMAIN ages : ages[i] <= Window}))

RateTooHighOffByOne(ages) == MaxCrashes > 0 /\ Len(ages) > MaxCrashes
RateTooHigh(ages) == MaxCrashes > 0 /\ Len(ages) >= MaxCrashes

\* The history of spawns, cut to the last MaxCrashes + 1.
NoteSpawn(ages) ==
  IF Len(ages) <= MaxCrashes THEN NoteNow(ages)
  ELSE NoteNow(SubSeq(ages, 1, MaxCrashes))

Capped(d) == IF d < MaxDelay THEN d ELSE MaxDelay

\* WineServerGuard: 0, then FirstDelay, then times the factor, capped.
WineBackoff(d) == IF d = 0 THEN FirstDelay ELSE Capped(d * BackoffFactor)

\* WaylandGuard::apply_backoff: a delay of zero stays the initial delay.
WaylandBackoff(d) == IF d = 0 THEN InitialDelay ELSE Capped(d * BackoffFactor)

NextDelay(d) == IF Kind = "wine" THEN WineBackoff(d) ELSE WaylandBackoff(d)

----
Init ==
  /\ proc = [p \in Pids |-> "free"]
  /\ pid = NoPid
  /\ stopRequested = FALSE
  /\ joinable = FALSE
  /\ mpc = "none" /\ mpid = NoPid /\ knote = "none" /\ sleepLeft = 0
  /\ crashAges = <<>> /\ delay = InitialDelay /\ spawnAges = <<>>
  /\ spc = "idle" /\ spid = NoPid
  /\ sockOwner = NoPid

(***************************************************************************)
(* The monitor thread.                                                     *)
(***************************************************************************)
Goto(from, to) == mpc = from /\ mpc' = to

\* The top of the loop: leave on stop, forget crashes older than the window,
\* give up when too many are left, sleep the backoff after a crash.
MonitorTop ==
  LET evicted == IF MaxCrashes > 0 THEN Recent(crashAges) ELSE crashAges
      toSpawn == IF Kind = "wayland" THEN "sockwait" ELSE "spawn"
  IN /\ mpc = "top"
     /\ IF stopRequested
        THEN mpc' = "exited" /\ UNCHANGED <<crashAges, sleepLeft>>
        ELSE /\ crashAges' = evicted
             /\ IF RateTooHigh(evicted)
                THEN mpc' = "exited" /\ UNCHANGED sleepLeft
                ELSE IF delay > 0 /\ evicted # <<>>
                THEN mpc' = "backoff" /\ sleepLeft' = delay
                ELSE mpc' = toSpawn /\ UNCHANGED sleepLeft
     /\ UNCHANGED <<proc, pid, stopRequested, joinable, mpid, knote, delay,
                    spawnAges, stopVars, sockOwner>>

\* The backoff sleep ends; stop is looked at once more.
MonitorBackoffOver ==
  /\ mpc = "backoff"
  /\ sleepLeft = 0
  /\ mpc' = IF stopRequested THEN "exited"
            ELSE IF Kind = "wayland" THEN "sockwait" ELSE "spawn"
  /\ UNCHANGED <<proc, pid, stopRequested, joinable, mpid, knote, sleepLeft,
                 policyVars, stopVars, sockOwner>>

\* WaylandGuard only: while somebody serves the socket there is nothing to do.
MonitorSocketFree ==
  /\ mpc = "sockwait"
  /\ stopRequested \/ sockOwner = NoPid
  /\ mpc' = IF stopRequested THEN "exited" ELSE "spawn"
  /\ UNCHANGED <<proc, pid, stopRequested, joinable, mpid, knote, sleepLeft,
                 policyVars, stopVars, sockOwner>>

\* spawn(): fork and exec.  The child exists from here on, its pid is known
\* only to the monitor.
MonitorSpawn ==
  /\ Goto("spawn", "publish")
  /\ \E p \in Pids :
       /\ proc[p] = "free"
       /\ proc' = [proc EXCEPT ![p] = "live"]
       /\ mpid' = p
  /\ spawnAges' = NoteSpawn(spawnAges)
  /\ UNCHANGED <<pid, stopRequested, joinable, knote, sleepLeft, crashAges,
                 delay, stopVars, sockOwner>>

MonitorSpawnFailsUnchecked ==
  /\ Goto("spawn", "publish")
  /\ mpid' = -1
  /\ UNCHANGED <<proc, pid, stopRequested, joinable, knote, sleepLeft,
                 policyVars, stopVars, sockOwner>>

\* spawn() returns -1 (no binary, fork failed): sleep and go round again.
MonitorSpawnFails ==
  /\ Goto("spawn", "retry")
  /\ sleepLeft' = RetryDelay
  /\ UNCHANGED <<proc, pid, stopRequested, joinable, mpid, knote, policyVars,
                 stopVars, sockOwner>>

MonitorRetry ==
  /\ Goto("retry", "top")
  /\ sleepLeft = 0
  /\ UNCHANGED <<proc, pid, stopRequested, joinable, mpid, knote, sleepLeft,
                 policyVars, stopVars, sockOwner>>

\* pid_.store(pid)
MonitorPublish ==
  /\ Goto("publish", IF Kind = "wayland" THEN "poll" ELSE "attach")
  /\ pid' = mpid
  /\ UNCHANGED <<proc, stopRequested, joinable, mpid, knote, sleepLeft,
                 policyVars, stopVars, sockOwner>>

\* poll_for_socket() sees a live socket.
MonitorSocketUp ==
  /\ Goto("poll", "attach")
  /\ sockOwner # NoPid
  /\ UNCHANGED <<proc, pid, stopRequested, joinable, mpid, knote, sleepLeft,
                 policyVars, stopVars, sockOwner>>

\* poll_for_socket() times out: the child is told to go.
MonitorSocketTimeout ==
  /\ Goto("poll", "attach")
  /\ sockOwner = NoPid
  /\ Signal(mpid, "term")
  /\ UNCHANGED <<pid, stopRequested, joinable, mpid, knote, sleepLeft,
                 policyVars, stopVars, sockOwner>>

\* kqueue_wait_pid(): register for NOTE_EXIT.  A pid that is gone cannot be
\* watched, nor a child that has exited already where the kernel says ESRCH
\* ("lost"), and neither the error nor the stop pipe wakes the thread then.
\* That kevent() itself fails, with a queue and arguments that are in order, is
\* left out.
MonitorAttach ==
  /\ mpc = "attach"
  /\ \/ /\ proc[mpid] \in OwnLive \cup {"foreign", "struck"}
        /\ knote' = "armed"
     \/ /\ proc[mpid] = "zombie" /\ AttachToExited = "delivered"
        /\ knote' = "fired"
     \/ /\ proc[mpid] = "free" \/ (proc[mpid] = "zombie" /\ AttachToExited = "lost")
        /\ knote' = "none"
  /\ mpc' = "wait"
  /\ UNCHANGED <<proc, pid, stopRequested, joinable, mpid, sleepLeft,
                 policyVars, stopVars, sockOwner>>

\* kqueue() itself failed: fall back on polling waitpid(WNOHANG).
MonitorNoKqueue ==
  /\ Goto("attach", "polling")
  /\ UNCHANGED <<proc, pid, stopRequested, joinable, mpid, knote, sleepLeft,
                 policyVars, stopVars, sockOwner>>

MonitorPollReap ==
  /\ Goto("polling", "reaped")
  /\ WaitPid(mpid)
  /\ UNCHANGED <<pid, stopRequested, joinable, mpid, knote, sleepLeft,
                 policyVars, stopVars, sockOwner>>

\* The NOTE_EXIT event: reap the child.
MonitorReap ==
  /\ Goto("wait", "reaped")
  /\ knote = "fired"
  /\ WaitPid(mpid)
  /\ knote' = "none"
  /\ UNCHANGED <<pid, stopRequested, joinable, mpid, sleepLeft, policyVars,
                 stopVars, sockOwner>>

MonitorNoteCrashWatchesAgain ==
  /\ Goto("reaped", "attach")
  /\ pid' = NoPid
  /\ crashAges' = NoteNow(crashAges)
  /\ delay' = NextDelay(delay)
  /\ UNCHANGED <<proc, stopRequested, joinable, mpid, knote, sleepLeft,
                 spawnAges, stopVars, sockOwner>>

\* pid_.store(0), note the crash, lengthen the delay, loop.
MonitorNoteCrash ==
  /\ Goto("reaped", "top")
  /\ pid' = NoPid
  /\ mpid' = NoPid
  /\ crashAges' = NoteNow(crashAges)
  /\ delay' = NextDelay(delay)
  /\ UNCHANGED <<proc, stopRequested, joinable, knote, sleepLeft, spawnAges,
                 stopVars, sockOwner>>

Monitor ==
  \/ MonitorTop \/ MonitorBackoffOver \/ MonitorSocketFree
  \/ MonitorSpawn \/ MonitorSpawnFails \/ MonitorRetry
  \/ MonitorPublish \/ MonitorSocketUp \/ MonitorSocketTimeout
  \/ MonitorAttach \/ MonitorNoKqueue \/ MonitorPollReap \/ MonitorReap
  \/ MonitorNoteCrash

(***************************************************************************)
(* start() and stop(), called one at a time.                               *)
(***************************************************************************)
\* start() on a guard whose monitor is joinable returns without effect.
Start ==
  /\ spc = "idle"
  /\ ~joinable
  /\ stopRequested' = FALSE
  /\ joinable' = TRUE
  /\ mpc' = "top"
  /\ UNCHANGED <<proc, pid, mpid, knote, sleepLeft, policyVars, stopVars,
                 sockOwner>>

\* stop(): stop_requested_.store(true)
StopRequest ==
  /\ spc = "idle"
  /\ spc' = "load"
  /\ stopRequested' = TRUE
  /\ UNCHANGED <<proc, pid, joinable, monitorVars, policyVars, spid, sockOwner>>

\* pid = pid_.load(); nothing to signal when it is 0
StopLoad ==
  /\ spc = "load"
  /\ spid' = pid
  /\ spc' = IF pid = NoPid THEN "join" ELSE "term"
  /\ UNCHANGED <<proc, pid, stopRequested, joinable, monitorVars, policyVars,
                 sockOwner>>

\* kill(pid, SIGTERM)
StopTerm ==
  /\ spc = "term"
  /\ Signal(spid, "term")
  /\ spc' = "grace"
  /\ UNCHANGED <<pid, stopRequested, joinable, monitorVars, policyVars, spid,
                 sockOwner>>

\* The thirty polls end, early when the pid is gone; then kill(pid, 0) decides
\* on SIGKILL.
StopGraceOver ==
  /\ spc = "grace"
  /\ spc' = IF Exists(spid) THEN "kill" ELSE "reap"
  /\ UNCHANGED <<proc, pid, stopRequested, joinable, monitorVars, policyVars,
                 spid, sockOwner>>

StopKillTermsAgain ==
  /\ spc = "kill"
  /\ Signal(spid, "term")
  /\ spc' = "reap"
  /\ UNCHANGED <<pid, stopRequested, joinable, monitorVars, policyVars, spid,
                 sockOwner>>

\* kill(pid, SIGKILL)
StopKill ==
  /\ spc = "kill"
  /\ Signal(spid, "kill")
  /\ spc' = "reap"
  /\ UNCHANGED <<pid, stopRequested, joinable, monitorVars, policyVars, spid,
                 sockOwner>>

\* waitpid(pid, nullptr, 0)
StopReap ==
  /\ spc = "reap"
  /\ WaitPid(spid)
  /\ spc' = "clear"
  /\ UNCHANGED <<pid, stopRequested, joinable, monitorVars, policyVars, spid,
                 sockOwner>>

\* pid_.store(0)
StopClear ==
  /\ spc = "clear"
  /\ pid' = NoPid
  /\ spid' = NoPid
  /\ spc' = "join"
  /\ UNCHANGED <<proc, stopRequested, joinable, monitorVars, policyVars,
                 sockOwner>>

StopDetaches ==
  /\ spc = "join"
  /\ joinable' = FALSE
  /\ spc' = "idle"
  /\ UNCHANGED <<proc, pid, stopRequested, monitorVars, policyVars, spid,
                 sockOwner>>

\* join() when the monitor thread is joinable, then return
StopJoin ==
  /\ spc = "join"
  /\ joinable => mpc = "exited"
  /\ joinable' = FALSE
  /\ mpc' = IF joinable THEN "none" ELSE mpc
  /\ spc' = "idle"
  /\ UNCHANGED <<proc, pid, stopRequested, mpid, knote, sleepLeft, policyVars,
                 spid, sockOwner>>

Stop ==
  \/ StopLoad \/ StopTerm \/ StopGraceOver \/ StopKill \/ StopReap
  \/ StopClear \/ StopJoin

(***************************************************************************)
(* The world around the guard.                                             *)
(***************************************************************************)
\* The service exits, crashed or told to; its socket dies with it.
ServiceExits(p) ==
  /\ proc[p] \in OwnLive
  /\ proc' = [proc EXCEPT ![p] = "zombie"]
  /\ knote' = IF knote = "armed" /\ mpid = p THEN "fired" ELSE knote
  /\ sockOwner' = IF sockOwner = p THEN NoPid ELSE sockOwner
  /\ UNCHANGED <<pid, stopRequested, joinable, mpc, mpid, sleepLeft,
                 policyVars, stopVars>>

\* The compositor process binds its socket.
ServiceBinds(p) ==
  /\ Kind = "wayland"
  /\ sockOwner = NoPid
  /\ proc[p] \in {"live", "termed"}
  /\ sockOwner' = p
  /\ UNCHANGED <<proc, pid, stopRequested, joinable, monitorVars, policyVars,
                 stopVars>>

\* Another compositor takes or leaves the socket.
ExternalSocket ==
  /\ Kind = "wayland"
  /\ \/ sockOwner = NoPid /\ sockOwner' = External
     \/ sockOwner = External /\ sockOwner' = NoPid
  /\ UNCHANGED <<proc, pid, stopRequested, joinable, monitorVars, policyVars,
                 stopVars>>

\* A free pid goes to a process of somebody else.
ForeignStarts(p) ==
  /\ PidReuse
  /\ proc[p] = "free"
  /\ proc' = [proc EXCEPT ![p] = "foreign"]
  /\ UNCHANGED <<pid, stopRequested, joinable, monitorVars, policyVars,
                 stopVars, sockOwner>>

ForeignExits(p) ==
  /\ proc[p] \in {"foreign", "struck"}
  /\ proc' = [proc EXCEPT ![p] = "free"]
  /\ knote' = IF knote = "armed" /\ mpid = p THEN "fired" ELSE knote
  /\ UNCHANGED <<pid, stopRequested, joinable, mpc, mpid, sleepLeft,
                 policyVars, stopVars, sockOwner>>

Tick ==
  /\ sleepLeft' = IF sleepLeft = 0 THEN 0 ELSE sleepLeft - 1
  /\ crashAges' = AgesOlder(crashAges)
  /\ spawnAges' = AgesOlder(spawnAges)
  /\ UNCHANGED <<proc, pid, stopRequested, joinable, mpc, mpid, knote, delay,
                 stopVars, sockOwner>>

Environment ==
  \/ \E p \in Pids : \/ ServiceExits(p) \/ ServiceBinds(p)
                     \/ ForeignStarts(p) \/ ForeignExits(p)
  \/ ExternalSocket
  \/ Tick

Next == Monitor \/ Start \/ StopRequest \/ Stop \/ Environment

Spec == Init /\ [][Next]_vars

\* The threads of a running process are scheduled, time passes, and a process
\* that got SIGKILL dies.  Nothing makes a service exit by itself.
Killed == \E p \in Pids : proc[p] = "killed" /\ ServiceExits(p)

FairSpec == Spec /\ WF_vars(Monitor) /\ WF_vars(Stop) /\ WF_vars(Tick)
                 /\ WF_vars(Killed)

----
MonitorState == {"none", "top", "backoff", "sockwait", "spawn", "retry",
                 "publish", "poll", "attach", "wait", "polling", "reaped",
                 "exited"}
StopState == {"idle", "load", "term", "grace", "kill", "reap", "clear", "join"}

\* The type invariant of the guard's fields and of its two threads' locals.
TypeOK ==
  /\ proc \in [Pids -> ProcState]
  /\ pid \in Pids \cup {NoPid}
  /\ stopRequested \in BOOLEAN
  /\ joinable \in BOOLEAN
  /\ mpc \in MonitorState
  /\ mpid \in Pids \cup {NoPid}
  /\ knote \in {"none", "armed", "fired"}
  /\ crashAges \in Seq(Nat)
  /\ delay \in Nat
  /\ sleepLeft \in Nat
  /\ spc \in StopState
  /\ spid \in Pids \cup {NoPid}
  /\ sockOwner \in Pids \cup {NoPid, External}
  /\ spawnAges \in Seq(Nat)

\* The guard as its users see it.
Services == {p \in Pids : proc[p] \in OwnLive}

Promise == INSTANCE AbstractGuard WITH
  Service  <- Pids,
  phase    <- IF spc # "idle" THEN "stopping"
              ELSE IF joinable THEN "guarding" ELSE "idle",
  services <- Services

\* Every step of the two threads, of the service and of the kernel is a step of
\* AbstractGuard or none at all: at most one service process at any time, and
\* none left when stop() returns.
ImplementsAbstractGuard == Promise!Spec

\* A service process runs only while a monitor thread is there to own it: once
\* stop() has joined the monitor, or the monitor has given up restarting,
\* no service process is left behind, however stop() and spawn() interleaved.
NoOrphanService == ServiceUp => joinable /\ mpc # "exited"

\* The crash-rate limit of RestartPolicy does what it is for: no more than
\* MaxCrashes processes are started within any stretch of Window ticks, whatever
\* the order of crashes, failed spawns, stops and restarts of the guard: the
\* spawn before the last MaxCrashes of them is out of the window.
SpawnRateBounded ==
  MaxCrashes > 0 =>
    \A i \in DOMAIN spawnAges : i > MaxCrashes => spawnAges[i] > Window

\* An exit that the monitor was there to see, while nobody stops the guard, is
\* reaped, and the monitor gets as far as starting the service again, or gives up
\* on the crash limit, unless a stop() arrives on the way.
ExitIsHandled ==
  (/\ spc = "idle" /\ ~stopRequested /\ mpid \in Pids /\ proc[mpid] = "zombie"
   /\ mpc = "polling" \/ (mpc = "wait" /\ knote = "fired"))
     ~> (mpc \in {"spawn", "exited"} \/ spc # "idle")

\* "The monitor thread blocks on kevent() until the watched pid exits, then applies
\* the restart policy and re-spawns", whenever the service exits.  (Refuted where
\* the kernel does not watch a child that has exited before it is asked to.)
EveryExitIsHandled ==
  (/\ spc = "idle" /\ ~stopRequested /\ mpid \in Pids /\ proc[mpid] = "zombie"
   /\ mpc \in {"attach", "wait", "polling"})
     ~> (mpc \in {"spawn", "exited"} \/ spc # "idle")

\* stop() returns when it finds the service published and its exit watched:
\* SIGTERM, and SIGKILL after the grace period, end the service, the monitor
\* sees it go, sees stop_requested_, and can be joined.
StopReturnsWhenWatched == (spc = "term" /\ mpc = "wait" /\ knote = "armed")
                             ~> (spc = "idle")

\* stop() always returns: the self-pipe is there "to wake the kqueue monitor
\* thread on stop()".  (Refuted: nothing writes to the pipe.)
StopAlwaysReturns == (spc = "load") ~> (spc = "idle")
=============================================================================
