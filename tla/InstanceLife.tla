---------------------------- MODULE InstanceLife ----------------------------
(***************************************************************************)
(* How a running instance is known: the PID file of a prefix, which every  *)
(* launch writes and removes in its own way, `mup instance start/stop`,    *)
(* and for Android the muplard daemon a launch starts when its socket does *)
(* not answer.  Nothing is locked; each read, check and removal of a file  *)
(* is a step.  Process ids are not reused.                                 *)
(***************************************************************************)
EXTENDS Naturals, FiniteSets

CONSTANTS Apps,    \* launches (`mup run`, `mup instance start`), by pid > 0
          Daemons  \* muplard processes that may be started, by pid > 0

None == 0

VARIABLES kind,   \* the kind of the prefix
          pidf,   \* the pid in its PID file, None without one
          app,    \* app[p]: where launch p is
          served, \* served[p]: the daemon whose socket p was given
          daemon, \* daemon[d]: "none", "starting", "bound", "up", "stopping", "dead"
          sock,   \* the daemon that bound the socket file, None without one
          stop,   \* `instance stop` or StopAndroidMuplard under way: its step and target
          calm    \* no two of these worked on the prefix at once so far

vars == <<kind, pidf, app, served, daemon, sock, stop, calm>>

Stages == {"idle", "stale", "checked", "registered", "awaiting", "running", "leaving", "ended"}

TypeOK == /\ kind \in {"Linux", "Wine", "Android"} /\ pidf \in Apps \cup Daemons \cup {None}
          /\ app \in [Apps -> Stages] /\ served \in [Apps -> Daemons \cup {None}]
          /\ daemon \in [Daemons -> {"none", "starting", "bound", "up", "stopping", "dead"}]
          /\ sock \in Daemons \cup {None} /\ calm \in BOOLEAN
          /\ stop.at \in {"none", "signalled", "stopped"} /\ stop.pid \in Apps \cup Daemons \cup {None}

Init == /\ kind \in {"Linux", "Wine", "Android"} /\ pidf = None
        /\ app = [p \in Apps |-> "idle"] /\ served = [p \in Apps |-> None]
        /\ daemon = [d \in Daemons |-> "none"] /\ sock = None
        /\ stop = [at |-> "none", pid |-> None] /\ calm = TRUE

----
Active(p) == app[p] \notin {"idle", "ended"}
Alive(q) == \/ q \in Apps /\ app[q] \in {"registered", "awaiting", "running", "leaving"}
            \/ q \in Daemons /\ daemon[q] \in {"starting", "bound", "up", "stopping"}

\* Launch p acts while another launch, a stop or an ending daemon is at work.
Crowded(p) == \/ \E q \in Apps \ {p} : Active(q)
              \/ stop.at # "none" \/ \E d \in Daemons : daemon[d] = "stopping"
Step(p, to) == app' = [app EXCEPT ![p] = to] /\ calm' = (calm /\ ~Crowded(p))

\* query_prefix_state() of `instance start`: a running instance is refused, the
\* file of a dead one is going to be removed.
QueryState(p) ==
    /\ app[p] = "idle"
    /\ Step(p, IF pidf = None THEN "checked" ELSE IF Alive(pidf) THEN "ended" ELSE "stale")
    /\ UNCHANGED <<kind, pidf, served, daemon, sock, stop>>
RemoveStale(p) ==
    /\ app[p] = "stale" /\ Step(p, "checked") /\ pidf' = None
    /\ UNCHANGED <<kind, served, daemon, sock, stop>>
\* `mup run` does not ask.
RunDirectly(p) ==
    /\ app[p] = "idle" /\ Step(p, "checked") /\ UNCHANGED <<kind, pidf, served, daemon, sock, stop>>

\* PrefixPidRegistration, or write_pid_file() for the forked wine.  The file of
\* an Android prefix is muplard's.
Register(p) ==
    /\ app[p] = "checked" /\ Step(p, IF kind = "Android" THEN "registered" ELSE "running")
    /\ pidf' = p
    /\ UNCHANGED <<kind, served, daemon, sock, stop>>

----
(* ensure_muplard and the daemon's own start and end. *)

\* Mutant: a daemon counts only once its PID file is written.
SocketIsUp == sock # None /\ daemon[sock] = "up"
\* unix_socket_is_live(): a connection is accepted.
SocketIsLive == sock # None /\ daemon[sock] \in {"bound", "up"}

EnsureMuplard(p) ==
    /\ app[p] = "registered"
    /\ IF SocketIsLive
       THEN Step(p, "running") /\ served' = [served EXCEPT ![p] = sock] /\ UNCHANGED daemon
       ELSE /\ \E d \in Daemons : daemon[d] = "none" /\ daemon' = [daemon EXCEPT ![d] = "starting"]
            /\ app' = [app EXCEPT ![p] = "awaiting"] /\ UNCHANGED served
            \* A daemon that an earlier launch gave up on may still be starting.
            /\ calm' = (calm /\ ~Crowded(p) /\ \A d \in Daemons : daemon[d] # "starting")
    /\ UNCHANGED <<kind, pidf, sock, stop>>
\* The socket answers within two seconds, or the launch goes on without it.
AwaitMuplard(p) ==
    /\ app[p] = "awaiting" /\ Step(p, "running")
    /\ served' = [served EXCEPT ![p] = IF SocketIsLive THEN sock ELSE None]
    /\ UNCHANGED <<kind, pidf, daemon, sock, stop>>

\* The old socket file is removed and the path bound; then the pid is written.
DaemonBinds(d) ==
    /\ daemon[d] = "starting" /\ daemon' = [daemon EXCEPT ![d] = "bound"] /\ sock' = d
    /\ UNCHANGED <<kind, pidf, app, served, stop, calm>>
DaemonWritesPid(d) ==
    /\ daemon[d] = "bound" /\ daemon' = [daemon EXCEPT ![d] = "up"] /\ pidf' = d
    /\ calm' = (calm /\ stop.at = "none")
    /\ UNCHANGED <<kind, app, served, sock, stop>>
\* The signal handler ends the loop; socket and PID file are removed, whosever.
DaemonExits(d) ==
    /\ daemon[d] = "stopping" /\ daemon' = [daemon EXCEPT ![d] = "dead"]
    /\ sock' = None /\ pidf' = None
    /\ calm' = (calm /\ \A p \in Apps : ~Active(p))
    /\ UNCHANGED <<kind, app, served, stop>>
DaemonCrashes(d) ==
    /\ daemon[d] \in {"starting", "bound", "up"} /\ daemon' = [daemon EXCEPT ![d] = "dead"]
    /\ UNCHANGED <<kind, pidf, app, served, sock, stop, calm>>

----
(* The end of a launch. *)

\* ~PrefixPidRegistration removes the file when it still has its pid; the wine
\* launch removes it in any case.
Leave(p) ==
    /\ app[p] = "running"
    /\ Step(p, IF kind = "Wine" \/ pidf = p THEN "leaving" ELSE "ended")
    /\ UNCHANGED <<kind, pidf, served, daemon, sock, stop>>
RemoveOwn(p) ==
    /\ app[p] = "leaving" /\ Step(p, "ended") /\ pidf' = None
    /\ UNCHANGED <<kind, served, daemon, sock, stop>>
Killed(p) ==
    /\ Active(p) /\ app' = [app EXCEPT ![p] = "ended"]
    /\ UNCHANGED <<kind, pidf, served, daemon, sock, stop, calm>>

----
(* `mup instance stop` and StopAndroidMuplard. *)

\* What SIGTERM does: a launch dies without its destructors, muplard ends its
\* loop, one that did not install its handler yet dies.
Signal(q) ==
    /\ app' = [p \in Apps |-> IF p = q THEN "ended" ELSE app[p]]
    /\ daemon' = [d \in Daemons |-> IF d # q THEN daemon[d]
                                    ELSE IF daemon[d] \in {"bound", "up"} THEN "stopping"
                                    ELSE IF daemon[d] = "starting" THEN "dead" ELSE daemon[d]]
StopBegins ==
    /\ stop.at = "none" /\ pidf # None /\ Alive(pidf)
    /\ stop' = [at |-> "signalled", pid |-> pidf] /\ Signal(pidf)
    /\ calm' = (calm /\ \A p \in Apps : Active(p) => p = pidf)
    /\ UNCHANGED <<kind, pidf, served, sock>>
\* --force: SIGKILL, and no wait.
StopForced ==
    /\ stop.at = "none" /\ pidf # None /\ Alive(pidf)
    /\ stop' = [at |-> "stopped", pid |-> pidf]
    /\ app' = [p \in Apps |-> IF p = pidf THEN "ended" ELSE app[p]]
    /\ daemon' = [d \in Daemons |-> IF d = pidf THEN "dead" ELSE daemon[d]]
    /\ calm' = (calm /\ \A p \in Apps : Active(p) => p = pidf)
    /\ UNCHANGED <<kind, pidf, served, sock>>
\* The last query: Stopped, a stale file being removed, or SIGKILL after 5 s.
StopEscalates ==
    /\ stop.at = "signalled" /\ stop' = [stop EXCEPT !.at = "stopped"]
    /\ IF pidf # None /\ Alive(pidf)
       THEN /\ app' = [p \in Apps |-> IF p = stop.pid THEN "ended" ELSE app[p]]
            /\ daemon' = [d \in Daemons |-> IF d = stop.pid THEN "dead" ELSE daemon[d]]
            /\ UNCHANGED pidf
       ELSE pidf' = None /\ UNCHANGED <<app, daemon>>
    /\ UNCHANGED <<kind, served, sock, calm>>
StopEnds ==
    /\ stop.at = "stopped" /\ stop' = [at |-> "none", pid |-> None] /\ pidf' = None
    /\ UNCHANGED <<kind, app, served, daemon, sock, calm>>
\* The session's restart path: signal, and both names are removed at once.
StopMuplard ==
    /\ kind = "Android"
    /\ IF pidf = None THEN UNCHANGED <<app, daemon>> ELSE Signal(pidf)
    /\ sock' = None /\ pidf' = None /\ calm' = FALSE
    /\ UNCHANGED <<kind, served, stop>>

Next == \/ \E p \in Apps : \/ QueryState(p) \/ RemoveStale(p) \/ RunDirectly(p) \/ Register(p)
                           \/ EnsureMuplard(p) \/ AwaitMuplard(p) \/ Leave(p) \/ RemoveOwn(p) \/ Killed(p)
        \/ \E d \in Daemons : DaemonBinds(d) \/ DaemonWritesPid(d) \/ DaemonExits(d) \/ DaemonCrashes(d)
        \/ StopBegins \/ StopForced \/ StopEscalates \/ StopEnds \/ StopMuplard

Spec == Init /\ [][Next]_vars

----
\* With one launch at a time the PID file tells the truth across crashes and
\* stale files: a running Linux or Windows instance is reported as running, and
\* nothing else is.
StatusTruthful ==
    calm /\ kind # "Android" =>
        /\ \A p \in Apps : app[p] = "running" => pidf = p
        /\ \A p \in Apps : pidf = p /\ Alive(p) => app[p] \in {"running", "leaving"}

\* With one launch at a time a prefix has one muplard, and the socket a launch
\* was given leads to it as long as that daemon lives, after crashes too.
OneMuplard ==
    calm => /\ Cardinality({d \in Daemons : daemon[d] \in {"bound", "up"}}) <= 1
            /\ \A p \in Apps : app[p] = "running" /\ served[p] # None /\ daemon[served[p]] = "up" => sock = served[p]

\* The process an undisturbed `instance stop` reports as stopped is gone.
StoppedIsGone == calm /\ stop.at = "stopped" => ~Alive(stop.pid)

InstanceSound == StatusTruthful /\ OneMuplard /\ StoppedIsGone
=============================================================================
