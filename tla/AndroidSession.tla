---------------------------- MODULE AndroidSession ----------------------------
(***************************************************************************)
(* The Android session of one prefix in the instance manager               *)
(* (PrefixManagerApp.mm).  Its tables change on the main queue only, in    *)
(* handlers of the user and in blocks posted by the background queue and   *)
(* by termination handlers.  The background queue prepares a launch, asks  *)
(* the main queue whether it was cancelled, starts the task and posts the  *)
(* result; a process may end at any moment.  Process ids are not reused.   *)
(***************************************************************************)
EXTENDS Naturals, Sequences, FiniteSets

CONSTANTS SessionTasks,  \* the NSTasks, numbered from 1 in order of creation
          SessionApps,   \* app keys
          Shells,        \* device windows, numbered from 1
          MaxClicks      \* bound on what the user does

None == 0
NoApp == "none"

VARIABLES task,      \* task[t]: stage, app, window, whether its result was posted
          ui,        \* the tables of the main queue, for this device
          screen,    \* screen[s]: what window s says
          main,      \* the blocks of the main queue
          preparing, \* preparing[s]: metadata being prepared for a refocus of window s
          term,      \* tasks that were sent SIGTERM
          kills,     \* tasks with a SIGKILL timer
          clicks,    \* what the user did so far, and whether the application quits
          raced,     \* a window was closed, or the application quit, before its task started
          stale      \* a launch was given to a session that had been told to stop, or had ended

vars == <<task, ui, screen, main, preparing, term, kills, clicks, raced, stale>>

Block == [what : {"ask", "cancelled", "started", "failed", "ended"}, t : SessionTasks]
         \cup [what : {"prepared"}, t : Shells]

TypeOK ==
    /\ task \in [SessionTasks -> [at : {"none", "queued", "asking", "go", "no", "live", "dead", "gone"},
                                  app : SessionApps \cup {NoApp}, shell : Shells \cup {None}, posted : BOOLEAN]]
    /\ ui \in [session : SessionTasks \cup {None}, pending : SessionTasks \cup {None},
               starting : BOOLEAN, cancelled : BOOLEAN, stopping : BOOLEAN,
               active : SessionApps \cup {NoApp}, launching : SUBSET SessionApps, shell : Shells \cup {None}]
    /\ screen \in [Shells -> {"none", "launching", "running", "stopped"}]
    /\ main \in Seq(Block) /\ preparing \in [Shells -> Nat]
    /\ term \subseteq SessionTasks /\ kills \subseteq SessionTasks
    /\ clicks.n \in 0..MaxClicks /\ clicks.quit \in BOOLEAN /\ raced \in BOOLEAN /\ stale \in BOOLEAN

Init ==
    /\ task = [t \in SessionTasks |-> [at |-> "none", app |-> NoApp, shell |-> None, posted |-> FALSE]]
    /\ ui = [session |-> None, pending |-> None, starting |-> FALSE, cancelled |-> FALSE,
             stopping |-> FALSE, active |-> NoApp, launching |-> {}, shell |-> None]
    /\ screen = [s \in Shells |-> "none"]
    /\ main = <<>> /\ preparing = [s \in Shells |-> 0] /\ term = {} /\ kills = {}
    /\ clicks = [n |-> 0, quit |-> FALSE] /\ raced = FALSE /\ stale = FALSE

----
IsRunning(t) == t \in SessionTasks /\ task[t].at = "live"
Waiting(t) == t \in SessionTasks /\ task[t].at \in {"queued", "asking", "go", "no"}
Unused(t) == task[t].at = "none" /\ \A u \in 1..(t - 1) : task[u].at # "none"

\* The user acts; the main queue is between two blocks.
Click == clicks.n < MaxClicks /\ ~clicks.quit /\ clicks' = [clicks EXCEPT !.n = @ + 1]

Post(what, t) == main' = Append(main, [what |-> what, t |-> t])

\* statusForApp()
StatusForApp(a) ==
    CASE ui.active = a /\ ui.stopping -> "Stopping..."
      [] ui.active = a /\ ~ui.stopping /\ IsRunning(ui.session) -> "Running"
      [] OTHER -> IF a \in ui.launching THEN "Launching..." ELSE "Stopped"

\* androidDeviceShellForPrefix(): the device's window, a new one if it has none.
ShellFor(s) == IF ui.shell # None THEN s = ui.shell
               ELSE screen[s] = "none" /\ \A r \in 1..(s - 1) : screen[r] # "none"

\* launchAndroidApp() of a running or starting session: the session is only
\* pointed to the app, and the marks of a close are taken back.
Refocus(a, s) ==
    /\ IsRunning(ui.session) \/ ui.starting \/ ui.pending # None
    /\ ui' = [ui EXCEPT !.shell = s, !.active = a, !.cancelled = FALSE, !.stopping = FALSE]
    /\ screen' = [screen EXCEPT ![s] = "launching"]
    /\ preparing' = [preparing EXCEPT ![s] = @ + 1]
    /\ stale' = (stale \/ ui.session \in term \/ ui.pending \in term)
    /\ UNCHANGED <<task, main, term, kills, raced>>

\* ... of one that has ended on request, which is still being cleared away.
Refuse(a, s) ==
    /\ ~IsRunning(ui.session) /\ ~ui.starting /\ ui.pending = None /\ ui.stopping
    /\ ui' = [ui EXCEPT !.shell = s]
    /\ screen' = [screen EXCEPT ![s] = "stopped"]
    /\ UNCHANGED <<task, main, preparing, term, kills, raced, stale>>

\* ... and of none: a new task, started from the background queue.
NewSession(a, s) ==
    /\ ~IsRunning(ui.session) /\ ~ui.starting /\ ui.pending = None /\ ~ui.stopping
    /\ \E t \in SessionTasks :
          /\ Unused(t)
          /\ task' = [task EXCEPT ![t] = [at |-> "queued", app |-> a, shell |-> s, posted |-> FALSE]]
          /\ ui' = [ui EXCEPT !.shell = s, !.launching = @ \cup {a}, !.active = a,
                              !.pending = t, !.starting = TRUE, !.cancelled = FALSE]
    /\ screen' = [screen EXCEPT ![s] = "launching"]
    /\ UNCHANGED <<main, preparing, term, kills, raced, stale>>

\* launchAppClicked() of an app that is "Stopped", or the settings button of
\* the window, which does not look at the status.
LaunchApp(a) ==
    /\ StatusForApp(a) = "Stopped" \/ ui.shell # None
    /\ Click
    /\ \E s \in Shells : ShellFor(s) /\ (Refocus(a, s) \/ Refuse(a, s) \/ NewSession(a, s))

----
Cleared(u) == [u EXCEPT !.session = None, !.pending = None, !.active = NoApp,
                        !.starting = FALSE, !.cancelled = FALSE, !.stopping = FALSE]

\* Mutant: a close only looks at the session that was published.
CloseHandlerRunningOnly(u) ==
    IF IsRunning(u.session)
    THEN [ui |-> [u EXCEPT !.cancelled = TRUE, !.stopping = TRUE, !.shell = None], ends |-> {u.session}]
    ELSE [ui |-> [Cleared(u) EXCEPT !.shell = None], ends |-> {}]

\* closeHandler of the window, with the tables u: SIGTERM and a SIGKILL timer
\* for the session or for the pending task, and all marks cleared when neither
\* runs, the one that cancels a task not yet started included.
CloseHandler(u) ==
    IF \E t \in {u.session, u.pending} : IsRunning(t)
    THEN [ui |-> [u EXCEPT !.cancelled = TRUE, !.stopping = TRUE, !.shell = None],
          ends |-> {IF IsRunning(u.session) THEN u.session ELSE u.pending}]
    ELSE [ui |-> [Cleared(u) EXCEPT !.shell = None], ends |-> {}]

Closed(u, ended) ==
    LET c == CloseHandler(u)
    IN  /\ ui' = c.ui /\ term' = term \cup ended \cup c.ends /\ kills' = kills \cup ended \cup c.ends
        /\ raced' = (raced \/ \E t \in SessionTasks : Waiting(t))

CloseWindow ==
    /\ ui.shell # None /\ Click /\ Closed(ui, {})
    /\ UNCHANGED <<task, screen, main, preparing, stale>>

\* launchAppClicked() of an app that is "Running".
StopApp(a) ==
    /\ StatusForApp(a) = "Running" /\ Click
    /\ IF ui.shell # None
       THEN Closed(ui, {ui.session})
       ELSE /\ term' = term \cup {ui.session} /\ kills' = kills \cup {ui.session}
            /\ UNCHANGED <<ui, raced>>
    /\ UNCHANGED <<task, screen, main, preparing, stale>>

\* deletePrefix(): the session is ended and forgotten, then the window closes.
DeletePrefix ==
    LET ended == {t \in {ui.session} : IsRunning(t)}
        u == [ui EXCEPT !.session = None]
    IN  /\ Click
        /\ IF ui.shell # None
           THEN Closed(u, ended)
           ELSE /\ ui' = u /\ term' = term \cup ended /\ kills' = kills \cup ended
                /\ UNCHANGED raced
        /\ UNCHANGED <<task, screen, main, preparing, stale>>

\* applicationShouldTerminate()
Quit ==
    /\ ~clicks.quit /\ clicks' = [clicks EXCEPT !.quit = TRUE]
    /\ term' = term \cup {t \in {ui.session, ui.pending} : IsRunning(t)}
    /\ ui' = [Cleared(ui) EXCEPT !.shell = None]
    /\ raced' = (raced \/ \E t \in SessionTasks : Waiting(t))
    /\ UNCHANGED <<task, screen, main, preparing, kills, stale>>

----
(* The background queue and the processes. *)

Goes(t, at) == task' = [task EXCEPT ![t].at = at]

AskCancelled(t) ==
    /\ task[t].at = "queued" /\ Goes(t, "asking") /\ Post("ask", t)
    /\ UNCHANGED <<ui, screen, preparing, term, kills, clicks, raced, stale>>
\* The launch was cancelled, or NSTask could not start it: nothing runs.
GivesUp(t, from, what) ==
    /\ task[t].at = from /\ task' = [task EXCEPT ![t].at = "gone", ![t].posted = TRUE]
    /\ Post(what, t)
    /\ UNCHANGED <<ui, screen, preparing, term, kills, clicks, raced, stale>>
CancelBeforeLaunch(t) == GivesUp(t, "no", "cancelled")
LaunchFails(t) == GivesUp(t, "go", "failed")
LaunchTask(t) ==
    /\ task[t].at = "go" /\ Goes(t, "live")
    /\ UNCHANGED <<ui, screen, main, preparing, term, kills, clicks, raced, stale>>
PostStarted(t) ==
    /\ task[t].at \in {"live", "dead", "gone"} /\ ~task[t].posted
    /\ task' = [task EXCEPT ![t].posted = TRUE] /\ Post("started", t)
    /\ UNCHANGED <<ui, screen, preparing, term, kills, clicks, raced, stale>>

\* The process ends, by itself, by SIGTERM or by SIGKILL.
TaskEnds(t) ==
    /\ IsRunning(t) /\ Goes(t, "dead")
    /\ UNCHANGED <<ui, screen, main, preparing, term, kills, clicks, raced, stale>>
KillTimer(t) ==
    /\ t \in kills /\ kills' = kills \ {t}
    /\ IF IsRunning(t) THEN Goes(t, "dead") ELSE UNCHANGED task
    /\ UNCHANGED <<ui, screen, main, preparing, term, clicks, raced, stale>>
TerminationHandler(t) ==
    /\ task[t].at = "dead" /\ Goes(t, "gone") /\ Post("ended", t)
    /\ UNCHANGED <<ui, screen, preparing, term, kills, clicks, raced, stale>>

\* prepareAndroidLaunchMetadataForApp()
PostPrepared(s) ==
    /\ preparing[s] > 0 /\ preparing' = [preparing EXCEPT ![s] = @ - 1] /\ Post("prepared", s)
    /\ UNCHANGED <<task, ui, screen, term, kills, clicks, raced, stale>>

----
(* The blocks of the main queue. *)

Runs(what) == main # <<>> /\ Head(main).what = what /\ main' = Tail(main)
Subject == Head(main).t
Unpended(u, t) == [u EXCEPT !.pending = IF @ = t THEN None ELSE @, !.starting = FALSE]
Unlaunched(u, t) == [u EXCEPT !.launching = @ \ {task[t].app}]

RunAsk ==
    /\ Runs("ask") /\ Goes(Subject, IF ui.cancelled THEN "no" ELSE "go")
    /\ UNCHANGED <<ui, screen, preparing, term, kills, clicks, raced, stale>>
RunCancelled ==
    /\ Runs("cancelled")
    /\ ui' = [Unlaunched(Unpended(ui, Subject), Subject)
              EXCEPT !.cancelled = FALSE, !.stopping = FALSE, !.active = NoApp]
    /\ UNCHANGED <<task, screen, preparing, term, kills, clicks, raced, stale>>
RunFailed ==
    /\ Runs("failed")
    /\ ui' = [Unlaunched(Unpended(ui, Subject), Subject) EXCEPT !.cancelled = FALSE, !.active = NoApp]
    /\ screen' = [screen EXCEPT ![task[Subject].shell] = "stopped"]
    /\ UNCHANGED <<task, preparing, term, kills, clicks, raced, stale>>

\* The task started: it may have ended since, or have been cancelled.
RunStarted ==
    /\ Runs("started")
    /\ \/ /\ ~IsRunning(Subject)
          /\ ui' = Unlaunched(Unpended(ui, Subject), Subject)
          /\ UNCHANGED <<screen, term>>
       \/ /\ IsRunning(Subject) /\ ui.cancelled
          /\ term' = term \cup {Subject}
          /\ UNCHANGED <<ui, screen>>
       \/ /\ IsRunning(Subject) /\ ~ui.cancelled
          /\ ui' = [Unlaunched(Unpended(ui, Subject), Subject) EXCEPT !.session = Subject, !.stopping = FALSE]
          /\ screen' = [screen EXCEPT ![task[Subject].shell] = "running"]
          /\ UNCHANGED term
    /\ UNCHANGED <<task, preparing, kills, clicks, raced, stale>>

\* Mutant: the end of a task that a newer one has replaced clears the newer
\* one's entry.
AfterEndAny(u, t) ==
    [Unlaunched(u, t) EXCEPT
        !.session = None, !.pending = None, !.starting = FALSE,
        !.active = IF @ = task[t].app THEN NoApp ELSE @, !.cancelled = FALSE, !.stopping = FALSE]

\* The end of task t leaves the entries of another task alone, and takes the
\* marks of the device away whoever set them.
AfterEnd(u, t) ==
    [Unlaunched(Unpended(u, t), t) EXCEPT
        !.session = IF @ = t THEN None ELSE @,
        !.active = IF @ = task[t].app THEN NoApp ELSE @, !.cancelled = FALSE, !.stopping = FALSE]

RunEnded ==
    /\ Runs("ended") /\ ui' = AfterEnd(ui, Subject)
    /\ screen' = IF ui.shell = task[Subject].shell /\ ui.shell # None
                 THEN [screen EXCEPT ![ui.shell] = "stopped"] ELSE screen
    /\ UNCHANGED <<task, preparing, term, kills, clicks, raced, stale>>

\* The completion of a refocus, which does not look at the session again.
RunPrepared ==
    /\ Runs("prepared") /\ screen' = [screen EXCEPT ![Subject] = "running"]
    /\ stale' = (stale \/ ~(IsRunning(ui.session) \/ Waiting(ui.pending) \/ IsRunning(ui.pending)))
    /\ UNCHANGED <<task, ui, preparing, term, kills, clicks, raced>>

Next ==
    \/ \E a \in SessionApps : LaunchApp(a) \/ StopApp(a)
    \/ CloseWindow \/ DeletePrefix \/ Quit
    \/ \E t \in SessionTasks :
          \/ AskCancelled(t) \/ CancelBeforeLaunch(t) \/ LaunchTask(t) \/ LaunchFails(t) \/ PostStarted(t)
          \/ TaskEnds(t) \/ KillTimer(t) \/ TerminationHandler(t)
    \/ \E s \in Shells : PostPrepared(s)
    \/ RunAsk \/ RunCancelled \/ RunFailed \/ RunStarted \/ RunEnded \/ RunPrepared

Spec == Init /\ [][Next]_vars

----
(* Properties. *)

Quiet == /\ main = <<>> /\ \A s \in Shells : preparing[s] = 0
         /\ \A t \in SessionTasks : ~Waiting(t) /\ task[t].at # "dead" /\ (IsRunning(t) => task[t].posted)

\* A session process that runs is one the manager still has in hand (published
\* or pending) or has told to end, and only one runs that was not told to
\* end, unless a window was closed or the application quit before the
\* background queue had started its task: that close takes its own mark back.
SessionsKnown ==
    raced \/ /\ \A t \in SessionTasks : IsRunning(t) => t \in {ui.session, ui.pending} \cup term
             /\ \A t, u \in {s \in SessionTasks : IsRunning(s) /\ s \notin term} : t = u

\* When nothing runs and nothing is under way, the tables are those of a
\* device at rest, so that every app can be launched again; and a session that
\* runs and was not told to end is not shown as stopping.
TablesSettle ==
    Quiet => /\ (\A t \in SessionTasks : ~IsRunning(t)) =>
                    /\ Cleared(ui) = [ui EXCEPT !.active = NoApp]
                    /\ ui.launching = {}
             /\ IsRunning(ui.session) /\ ui.session \notin term => ~ui.stopping

\* Once all has settled the window of a device without a session says so,
\* unless a launch was given to a session that was ending.
WindowTrue ==
    Quiet /\ ui.shell # None /\ (\A t \in SessionTasks : ~IsRunning(t))
        => raced \/ stale \/ screen[ui.shell] = "stopped"

\* What the user was told, what the tables say and what runs agree.
SessionTablesSound == SessionsKnown /\ TablesSettle /\ WindowTrue
=============================================================================
