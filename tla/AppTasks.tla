------------------------------- MODULE AppTasks -------------------------------
(***************************************************************************)
(* The Linux and Windows applications of one prefix that the instance      *)
(* manager has started (PrefixManagerApp.mm): the task of each app key,    *)
(* the mark "Launching...", the wait for a Linux window, the PID file of   *)
(* the prefix and the session launcher that Linux apps run in.  The tables *)
(* change on the main queue only; a termination handler runs on a queue of *)
(* its own, removes the PID file there and posts a block.  Process ids are *)
(* not reused, and the list of prefixes is not reloaded.                   *)
(***************************************************************************)
EXTENDS Naturals, Sequences

CONSTANTS AppKeys, AppTaskIds,  \* apps; their NSTasks, numbered from 1
          Sessions,             \* tasks of the session launcher, numbered from 1
          MaxAttempts,          \* looks for a window before the app is stopped (600)
          MaxActs               \* bound on what the user does

None == 0

VARIABLES kind,      \* "linux" or "wine"
          task,      \* task[t]: app, stage, the windows there were when it was started
          running,   \* _runningTasks
          launching, \* _launchingAppPaths
          token,     \* _linuxLaunchTokens, as the task the token was made for
          wait,      \* wait[t]: the attempt whose timer runs, 0 without one
          timers,    \* tasks with the 1.5 s timer of a Windows app
          windows,   \* tasks with a visible window
          busy,      \* what the main thread is in the middle of
          main,      \* blocks of the main queue
          pidf,      \* the task in the PID file
          sess,      \* sess[s]: stage of a session launcher
          held,      \* _linuxSessionTasks
          dbus,      \* "absent", "expected" or "ready" in the root file system
          prestart,  \* prestartLinuxSessionIfNeeded() waits for the compositor
          told,      \* app tasks and sessions that were sent a signal
          quit,      \* how far quitting is, and the session it has set aside
          acts,      \* what the user did so far
          odd        \* overlaps that happened: "relaunch", "quick", "late"

vars == <<kind, task, running, launching, token, wait, timers, windows, busy, main, pidf,
          sess, held, dbus, prestart, told, quit, acts, odd>>
tables == <<running, launching, token>>
waiting == <<wait, timers, windows>>
session == <<sess, held, dbus, prestart>>

Idle == [step |-> "idle", app |-> "", t |-> None]

TypeOK ==
    /\ kind \in {"linux", "wine"}
    /\ \A t \in AppTaskIds : /\ task[t].app \in AppKeys \cup {""} /\ task[t].base \subseteq AppTaskIds
                             /\ task[t].at \in {"none", "live", "dead", "gone"}
    /\ running \in [AppKeys -> AppTaskIds \cup {None}] /\ token \in [AppKeys -> AppTaskIds \cup {None}]
    /\ launching \subseteq AppKeys /\ wait \in [AppTaskIds -> 0..(MaxAttempts + 1)]
    /\ timers \subseteq AppTaskIds /\ windows \subseteq AppTaskIds
    /\ busy.step \in {"idle", "session", "start", "pid"} /\ pidf \in AppTaskIds \cup {None}
    /\ sess \in [Sessions -> {"none", "live", "dead", "gone"}] /\ held \in Sessions \cup {None}
    /\ dbus \in {"absent", "expected", "ready"} /\ prestart \in {"no", "waiting", "posted"}
    /\ quit \in [at : {"no", "clients", "sessions", "ended"}, session : Sessions \cup {None}] /\ acts \in 0..MaxActs
    /\ odd \subseteq {"relaunch", "quick", "late"}

Init ==
    /\ kind \in {"linux", "wine"}
    /\ task = [t \in AppTaskIds |-> [app |-> "", at |-> "none", base |-> {}]]
    /\ running = [a \in AppKeys |-> None] /\ token = [a \in AppKeys |-> None] /\ launching = {}
    /\ wait = [t \in AppTaskIds |-> 0] /\ timers = {} /\ windows = {}
    /\ busy = Idle /\ main = <<>> /\ pidf = None
    /\ sess = [s \in Sessions |-> "none"] /\ held = None /\ dbus = "absent"
    /\ prestart = "no" /\ told = {} /\ quit = [at |-> "no", session |-> None] /\ acts = 0 /\ odd = {}

----
IsLive(t) == t \in AppTaskIds /\ task[t].at = "live"
SessionLive(s) == s \in Sessions /\ sess[s] = "live"
Lowest(S) == CHOOSE x \in S : \A y \in S : x <= y

\* The main thread is between two blocks of its queue.
Free == busy = Idle /\ quit.at # "ended"
Act == Free /\ quit.at = "no" /\ acts < MaxActs /\ acts' = acts + 1
App(t) == <<"app", t>>
Session(s) == <<"session", s>>

\* statusForApp(), for a Linux or a Windows prefix.
Status(a) == IF a \in launching THEN "Launching..." ELSE IF IsLive(running[a]) THEN "Running" ELSE "Stopped"

----
(* The session launcher. *)

\* ensureLinuxSessionForPrefix() keeps a session that runs, unless D-Bus was
\* installed and has no address yet: such a session is ended and replaced.
Keeps == SessionLive(held) /\ dbus # "expected"
NewSessions == {s \in Sessions : sess[s] = "none"}
EnsureLinuxSession ==
    IF Keeps
    THEN UNCHANGED <<sess, held, told>>
    ELSE /\ told' = told \cup {Session(s) : s \in {x \in {held} : SessionLive(x)}}
         /\ \/ /\ NewSessions # {}
               /\ held' = Lowest(NewSessions) /\ sess' = [sess EXCEPT ![Lowest(NewSessions)] = "live"]
            \/ /\ held' = (IF SessionLive(held) THEN None ELSE held) /\ UNCHANGED sess

\* prestartLinuxSessionIfNeeded(): the compositor's socket is waited for on the
\* background queue.
Prestart ==
    /\ kind = "linux" /\ prestart = "no" /\ ~SessionLive(held) /\ Act
    /\ prestart' = "waiting"
    /\ UNCHANGED <<kind, task, tables, waiting, busy, main, pidf, sess, held, dbus, told, quit, odd>>
CompositorReady ==
    /\ prestart = "waiting" /\ quit.at # "ended"
    /\ \/ prestart' = "posted" /\ main' = Append(main, <<"prestart", None>>)
       \/ prestart' = "no" /\ UNCHANGED main
    /\ UNCHANGED <<kind, task, tables, waiting, busy, pidf, sess, held, dbus, told, quit, acts, odd>>
RunPrestart ==
    /\ Free /\ main # <<>> /\ Head(main)[1] = "prestart" /\ main' = Tail(main)
    /\ prestart' = "no" /\ EnsureLinuxSession
    /\ odd' = IF quit.at # "no" /\ sess' # sess THEN odd \cup {"late"} ELSE odd
    /\ UNCHANGED <<kind, task, tables, waiting, busy, pidf, dbus, quit, acts>>

\* The default packages bring D-Bus; a session that starts with it writes its address.
PackagesInstalled ==
    /\ kind = "linux" /\ dbus = "absent" /\ dbus' = "expected"
    /\ UNCHANGED <<kind, task, tables, waiting, busy, main, pidf, sess, held, prestart, told, quit, acts, odd>>
DbusReady ==
    /\ dbus = "expected" /\ SessionLive(held) /\ dbus' = "ready"
    /\ UNCHANGED <<kind, task, tables, waiting, busy, main, pidf, sess, held, prestart, told, quit, acts, odd>>

SessionEnds(s) ==
    /\ SessionLive(s) /\ sess' = [sess EXCEPT ![s] = "dead"]
    /\ UNCHANGED <<kind, task, tables, waiting, busy, main, pidf, held, dbus, prestart, told, quit, acts, odd>>
SessionHandler(s) ==
    /\ sess[s] = "dead" /\ sess' = [sess EXCEPT ![s] = "gone"] /\ main' = Append(main, <<"session", s>>)
    /\ UNCHANGED <<kind, task, tables, waiting, busy, pidf, held, dbus, prestart, told, quit, acts, odd>>
\* Mutant: whatever session the prefix has now is forgotten.
WithoutAnySession(s) == None
WithoutSession(s) == IF held = s THEN None ELSE held
RunSessionEnded ==
    /\ Free /\ main # <<>> /\ Head(main)[1] = "session" /\ main' = Tail(main)
    /\ held' = WithoutSession(Head(main)[2])
    /\ UNCHANGED <<kind, task, tables, waiting, busy, pidf, sess, dbus, prestart, told, quit, acts, odd>>

----
(* Launching an app. *)

\* launchAppClicked() of an app that is "Stopped".  The main thread is in the
\* handler until the task runs; the compositor, the session, Wine or X11 may be
\* missing.
OpenApp(a) ==
    /\ Status(a) = "Stopped" /\ Act
    /\ busy' = [step |-> IF kind = "linux" THEN "session" ELSE "start", app |-> a, t |-> None]
    /\ UNCHANGED <<kind, task, tables, waiting, main, pidf, session, told, quit, odd>>
LaunchFails ==
    /\ busy.step \in {"session", "start"} /\ busy' = Idle
    /\ UNCHANGED <<kind, task, tables, waiting, main, pidf, session, told, quit, acts, odd>>
GetSession ==
    /\ busy.step = "session" /\ EnsureLinuxSession
    /\ busy' = IF Keeps \/ sess' # sess THEN [busy EXCEPT !.step = "start"] ELSE Idle
    /\ UNCHANGED <<kind, task, tables, waiting, main, pidf, dbus, prestart, quit, acts, odd>>

\* An earlier task of the app has ended and its block has not run.
Unfinished(a) == \E t \in AppTaskIds :
    task[t].app = a /\ (task[t].at = "dead" \/ \E i \in DOMAIN main : main[i] = <<"ended", t>>)

Unstarted == {t \in AppTaskIds : task[t].at = "none"}
Started(a, t) ==
    /\ task' = [task EXCEPT ![t] = [app |-> a, at |-> "live", base |-> windows]]
    /\ launching' = launching \cup {a} /\ running' = [running EXCEPT ![a] = t]
    /\ busy' = [busy EXCEPT !.step = "pid", !.t = t]
    /\ odd' = IF Unfinished(a) THEN odd \cup {"relaunch"} ELSE odd
    /\ UNCHANGED <<kind, waiting, main, pidf, session, told, quit, acts>>
StartLinuxTask ==
    /\ kind = "linux" /\ busy.step = "start" /\ Unstarted # {} /\ Started(busy.app, Lowest(Unstarted))
    /\ token' = [token EXCEPT ![busy.app] = Lowest(Unstarted)]
StartWineTask ==
    /\ kind = "wine" /\ busy.step = "start" /\ Unstarted # {} /\ Started(busy.app, Lowest(Unstarted))
    /\ UNCHANGED token

\* The PID file is written after the launch; the handler of a task that has
\* ended by then has removed nothing.
WritePid ==
    /\ busy.step = "pid" /\ busy' = Idle /\ pidf' = busy.t
    /\ IF kind = "linux" THEN wait' = [wait EXCEPT ![busy.t] = 1] /\ UNCHANGED timers
                         ELSE timers' = timers \cup {busy.t} /\ UNCHANGED wait
    /\ odd' = IF task[busy.t].at = "gone" THEN odd \cup {"quick"} ELSE odd
    /\ UNCHANGED <<kind, task, tables, windows, main, session, told, quit, acts>>

----
(* A task that runs, and its end. *)

ShowsWindow(t) ==
    /\ kind = "linux" /\ IsLive(t) /\ t \notin windows /\ windows' = windows \cup {t}
    /\ UNCHANGED <<kind, task, tables, wait, timers, busy, main, pidf, session, told, quit, acts, odd>>

\* waitForLinuxWindowForKey(): any new window counts, an app without one is
\* stopped after the last attempt.  A wait whose token is gone is over.
WaitForWindow(t) ==
    LET a == task[t].app
        mine == token[a] = t /\ IsLive(running[a])
        over == wait[t] > MaxAttempts
        seen == windows \ task[t].base # {}
    IN  /\ Free /\ wait[t] > 0
        /\ wait' = [wait EXCEPT ![t] = IF mine /\ ~over /\ ~seen THEN @ + 1 ELSE 0]
        /\ told' = IF mine /\ over THEN told \cup {App(running[a])} ELSE told
        /\ IF mine /\ (over \/ seen)
           THEN token' = [token EXCEPT ![a] = None] /\ launching' = launching \ {a}
           ELSE UNCHANGED <<token, launching>>
        /\ UNCHANGED <<kind, task, running, timers, windows, busy, main, pidf, session, quit, acts, odd>>
WineTimer(t) ==
    /\ Free /\ t \in timers /\ timers' = timers \ {t} /\ launching' = launching \ {task[t].app}
    /\ UNCHANGED <<kind, task, running, token, wait, windows, busy, main, pidf, session, told, quit, acts, odd>>

AppEnds(t) ==
    /\ IsLive(t) /\ task' = [task EXCEPT ![t].at = "dead"]
    /\ UNCHANGED <<kind, tables, waiting, busy, main, pidf, session, told, quit, acts, odd>>

\* The handler ends what is left of the process group and removes the PID
\* file, whoever wrote it.
TerminationHandler(t) ==
    /\ task[t].at = "dead" /\ quit.at # "ended" /\ task' = [task EXCEPT ![t].at = "gone"]
    /\ windows' = windows \ {t} /\ pidf' = None /\ main' = Append(main, <<"ended", t>>)
    /\ UNCHANGED <<kind, tables, wait, timers, busy, session, told, quit, acts, odd>>

\* Mutant: the mark is left to the window or the timer.
MarksKept(a) == launching
MarksWithout(a) == launching \ {a}

\* Its block clears the app's entries without a look at whose they are.
RunEnded ==
    LET a == task[Head(main)[2]].app
    IN  /\ Free /\ main # <<>> /\ Head(main)[1] = "ended" /\ main' = Tail(main)
        /\ token' = [token EXCEPT ![a] = None] /\ launching' = MarksWithout(a)
        /\ running' = [running EXCEPT ![a] = None]
        /\ UNCHANGED <<kind, task, waiting, busy, pidf, session, told, quit, acts, odd>>

----
StopApp(a) ==
    /\ Status(a) = "Running" /\ Act /\ told' = told \cup {App(running[a])}
    /\ UNCHANGED <<kind, task, tables, waiting, busy, main, pidf, session, quit, odd>>

\* deletePrefix() ends the session, waits for it a while, and forgets it.
DeletePrefix ==
    /\ Act /\ told' = told \cup {Session(s) : s \in {x \in {held} : SessionLive(x)}} /\ held' = None
    /\ UNCHANGED <<kind, task, tables, waiting, busy, main, pidf, sess, dbus, prestart, quit, odd>>

\* applicationShouldTerminate(): the apps first; the sessions once those are gone
\* or two seconds over; then the application ends.
Quit ==
    /\ Free /\ quit.at = "no"
    /\ quit' = [at |-> "clients", session |-> held]
    /\ told' = told \cup {App(t) : t \in {running[a] : a \in AppKeys} \cap {t \in AppTaskIds : IsLive(t)}}
    /\ running' = [a \in AppKeys |-> None] /\ held' = None
    /\ UNCHANGED <<kind, task, launching, token, waiting, busy, main, pidf, sess, dbus, prestart, acts, odd>>
QuitSessions ==
    /\ quit.at = "clients" /\ quit' = [quit EXCEPT !.at = "sessions"]
    /\ told' = told \cup {Session(s) : s \in {x \in {quit.session} : SessionLive(x)}}
    /\ UNCHANGED <<kind, task, tables, waiting, busy, main, pidf, session, acts, odd>>
QuitEnds ==
    /\ quit.at = "sessions" /\ Free /\ quit' = [quit EXCEPT !.at = "ended"]
    /\ UNCHANGED <<kind, task, tables, waiting, busy, main, pidf, session, told, acts, odd>>

Next ==
    \/ Prestart \/ CompositorReady \/ RunPrestart \/ PackagesInstalled \/ DbusReady \/ RunSessionEnded
    \/ \E s \in Sessions : SessionEnds(s) \/ SessionHandler(s)
    \/ LaunchFails \/ GetSession \/ StartLinuxTask \/ StartWineTask \/ WritePid \/ RunEnded
    \/ \E a \in AppKeys : OpenApp(a) \/ StopApp(a)
    \/ \E t \in AppTaskIds :
          ShowsWindow(t) \/ WaitForWindow(t) \/ WineTimer(t) \/ AppEnds(t) \/ TerminationHandler(t)
    \/ DeletePrefix \/ Quit \/ QuitSessions \/ QuitEnds

Spec == Init /\ [][Next]_vars

----
(* Properties. *)

\* An app that runs can be stopped: it is the task of its key, or was sent a
\* signal; and quitting has signalled every one.  Not so after an app was
\* started again before the block of its earlier task ran, which takes the new
\* task out of the table.
AppsKnown ==
    "relaunch" \in odd \/
    \A t \in AppTaskIds : IsLive(t) => (running[task[t].app] = t /\ quit.at = "no") \/ App(t) \in told

\* Of the session launchers that run one at most was not told to end, and it is
\* the one of the table, or the one that quitting ends next; none is left
\* behind, unless the start that waited for the compositor came after the quit.
SessionsKnown ==
    "late" \in odd \/
    \A s \in Sessions : SessionLive(s) /\ Session(s) \notin told =>
        \/ held = s /\ quit.at = "no"
        \/ quit.session = s /\ quit.at = "clients"

\* An app that is shown as launching has something under way that ends this: a
\* window wait for the task it has now, a timer, or the end of a task.
LaunchingEnds ==
    quit.at = "no" => \A a \in launching : \E t \in AppTaskIds :
        /\ task[t].app = a
        /\ \/ busy.t = t \/ t \in timers \/ task[t].at = "dead" \/ <<"ended", t>> \in {main[i] : i \in DOMAIN main}
           \/ wait[t] > 0 /\ token[a] = t /\ IsLive(running[a])

\* No PID file is left of apps that have all ended, unless one ended before its
\* number was written.
PidFileCleared ==
    (\A t \in AppTaskIds : task[t].at \in {"none", "gone"}) /\ busy = Idle => pidf = None \/ "quick" \in odd

TasksSound == AppsKnown /\ SessionsKnown /\ LaunchingEnds /\ PidFileCleared
=============================================================================
