--------------------------- MODULE DeviceChannel ---------------------------
(***************************************************************************)
(* Device actions from the shell through muplard to the guest framework.   *)
(* muplard numbers each action with a generation and pushes it to its      *)
(* subscribers.  FrameworkDeviceController keeps one subscription: a       *)
(* connect thread makes it, a reader thread takes the pushes, drops those  *)
(* whose generation it has seen, and posts the rest to the main looper,    *)
(* where an action waits in pendingActions until an activity is there.     *)
(* launchApp() numbers an action itself.  Of the actions, focus-tab, back  *)
(* and close-tab are modelled.  There are two tabs, so that the task stack *)
(* is told by which of them is in front.  The input stream works the same  *)
(* way as that of the actions and is left out.                             *)
(***************************************************************************)
EXTENDS Integers, Sequences

CONSTANTS MaxActions,    \* bound: actions of the shell
          MaxLaunches,   \* bound: launchApp() and startActivity() calls of the guest
          MaxCrashes,    \* bound: muplard's crashes
          MaxTries       \* the connect thread's attempts (150)

VARIABLES up,           \* muplard runs
          serverGen,    \* device_state.generation
          conn,         \* the action stream: "none", "open" or "closed"
          pipe,         \* pushes on it
          localGen,     \* generation
          focusGen,     \* lastFocusGeneration
          subscriber,   \* subscriber # null
          connecting,
          connector,    \* connect thread: "none", "trying" or "returning"
          tries,
          reader,       \* reader thread: "none", "reading" or "ending"
          taken,        \* the action the reader has numbered and has yet to post
          mainq,        \* runnables on the main looper
          pendingActions,
          flushing,     \* what the flush that runs on the main looper has yet to apply
          mainReady,
          tabs,         \* tabs that have an activity
          activeTab,    \* the tab in front, "" when the last activity has gone
          focused,      \* the focus-tab applied last, and whether its tab was there and still is
                        \* what the guest wants in front
          launching,    \* number a launchApp() took and has yet to post, or 0
          skewed,       \* the controller and muplard number differently
          gaveUp,       \* the connect thread ran out of tries
          budget        \* what is left of the bounds

server == <<up, serverGen>>
stream == <<conn, pipe>>
counters == <<localGen, focusGen, skewed>>
launch == <<launching, budget>>
threads == <<subscriber, connecting, connector, tries, reader, gaveUp>>
screen == <<mainReady, tabs, activeTab, focused>>
looper == <<mainq, pendingActions, flushing, screen>>
vars == <<up, serverGen, conn, pipe, localGen, focusGen, subscriber, connecting, connector, tries,
          reader, taken, mainq, pendingActions, flushing, mainReady, tabs, activeTab, focused,
          launching, skewed, gaveUp, budget>>

Tabs == {"launcher", "app"}
Actions == [kind : {"focus"}, tab : Tabs] \cup [kind : {"back"}, tab : {"launcher"}]
           \cup [kind : {"close"}, tab : {"app"}]
Numbered(action, gen) == [kind |-> action.kind, tab |-> action.tab, gen |-> gen]
Flush == [kind |-> "flush", tab |-> "launcher", gen |-> 0]

TypeOK ==
    /\ conn \in {"none", "open", "closed"}
    /\ connector \in {"none", "trying", "returning"}
    /\ reader \in {"none", "reading", "ending"}
    /\ focusGen <= localGen
    /\ tabs \subseteq Tabs /\ activeTab \in Tabs \cup {""}

\* ArtApkMain prepares the main looper and calls start() before it makes
\* the first activity.
Init ==
    /\ up = TRUE /\ serverGen = 0 /\ conn = "none" /\ pipe = <<>>
    /\ localGen = 0 /\ focusGen = 0 /\ skewed = FALSE
    /\ subscriber = FALSE /\ connecting = TRUE /\ connector = "trying" /\ tries = MaxTries
    /\ reader = "none" /\ gaveUp = FALSE
    /\ taken = <<>> /\ mainq = <<>> /\ pendingActions = <<>> /\ flushing = <<>>
    /\ mainReady = FALSE /\ tabs = {} /\ activeTab = "launcher"
    /\ focused = [gen |-> 0, tab |-> "launcher", kept |-> TRUE]
    /\ launching = 0
    /\ budget = [actions |-> MaxActions, launches |-> MaxLaunches, crashes |-> MaxCrashes]

----
(* muplard. *)

\* apply_device_action() and the push to the subscribers.
Accepted(action) ==
    /\ serverGen' = serverGen + 1
    /\ pipe' = IF conn = "open" THEN Append(pipe, Numbered(action, serverGen + 1)) ELSE pipe

DeviceAction(action) ==
    /\ up /\ budget.actions > 0
    /\ Accepted(action)
    /\ budget' = [budget EXCEPT !.actions = @ - 1]
    /\ UNCHANGED <<up, conn, counters, threads, taken, looper, launching>>

Crash ==
    /\ up /\ budget.crashes > 0
    /\ up' = FALSE
    /\ conn' = IF conn = "open" THEN "closed" ELSE conn
    /\ budget' = [budget EXCEPT !.crashes = @ - 1]
    /\ UNCHANGED <<serverGen, pipe, counters, threads, taken, looper, launching>>

\* A new daemon numbers from the beginning.
Restart ==
    /\ ~up
    /\ up' = TRUE /\ serverGen' = 0
    /\ skewed' = (skewed \/ serverGen > 0)
    /\ UNCHANGED <<stream, localGen, focusGen, threads, taken, looper, launch>>

----
(* The controller's threads. *)

\* start(): nothing while there is a subscription or an attempt.
Start(isSubscribed) ==
    IF isSubscribed \/ connecting
    THEN UNCHANGED <<connecting, connector, tries>>
    ELSE connecting' = TRUE /\ connector' = "trying" /\ tries' = MaxTries

\* initSubscriber(): connect, subscribe, start the reader.  The state in the
\* acknowledgement is not used.
InitSubscriber ==
    /\ connector = "trying" /\ up
    /\ connector' = "returning"
    /\ IF subscriber THEN UNCHANGED <<subscriber, reader, stream>>
       ELSE subscriber' = TRUE /\ reader' = "reading" /\ conn' = "open" /\ pipe' = <<>>
    /\ UNCHANGED <<server, counters, connecting, tries, gaveUp, taken, looper, launch>>

\* No socket yet: another attempt, up to the limit.
TryFails ==
    /\ connector = "trying" /\ ~up
    /\ tries' = tries - 1
    /\ connector' = IF tries = 1 THEN "returning" ELSE connector
    /\ gaveUp' = (gaveUp \/ tries = 1)
    /\ UNCHANGED <<server, stream, counters, subscriber, connecting, reader, taken, looper, launch>>

\* The connect thread's finally block.
ConnectorReturns ==
    /\ connector = "returning"
    /\ connector' = "none" /\ connecting' = FALSE
    /\ UNCHANGED <<server, stream, counters, subscriber, tries, reader, gaveUp, taken, looper, launch>>

Post(runnable) == mainq' = Append(mainq, runnable)

\* readActions() and applyAction(): a generation that was seen is dropped, ...
ReaderTakes ==
    /\ reader = "reading" /\ taken = <<>> /\ pipe # <<>>
    /\ pipe' = Tail(pipe)
    /\ LET next == Head(pipe)
       IN  IF next.gen <= localGen THEN UNCHANGED <<localGen, focusGen, taken>>
           ELSE /\ localGen' = next.gen
                /\ focusGen' = IF next.kind = "focus" THEN next.gen ELSE focusGen
                /\ taken' = <<next>>
    /\ UNCHANGED <<server, conn, skewed, threads, looper, launch>>

\* ... and dispatchAction() posts what is new; launchApp() may have numbered
\* and posted an action in between.
ReaderPosts ==
    /\ taken # <<>> /\ taken' = <<>>
    /\ Post(Head(taken))
    /\ UNCHANGED <<server, stream, counters, threads, pendingActions, flushing, screen, launch>>

\* The end of the stream: subscriber = null ...
ReaderEnds ==
    /\ reader = "reading" /\ taken = <<>> /\ pipe = <<>> /\ conn = "closed"
    /\ reader' = "ending" /\ subscriber' = FALSE /\ conn' = "none"
    /\ UNCHANGED <<server, pipe, counters, connecting, connector, tries, gaveUp, taken, looper, launch>>

\* ... and then start().
ReaderReconnects ==
    /\ reader = "ending"
    /\ reader' = "none"
    /\ Start(subscriber)
    /\ UNCHANGED <<server, stream, counters, subscriber, gaveUp, taken, looper, launch>>

\* launchApp(): its own number, ...
LaunchApp ==
    /\ launching = 0 /\ budget.launches > 0
    /\ localGen' = localGen + 1 /\ focusGen' = localGen + 1 /\ skewed' = TRUE
    /\ launching' = localGen + 1
    /\ budget' = [budget EXCEPT !.launches = @ - 1]
    /\ UNCHANGED <<server, stream, threads, taken, looper>>

\* ... a request to muplard that may be lost, and the action itself.  The
\* reader may have posted newer ones in between.
LaunchDispatch(delivered) ==
    /\ launching # 0
    /\ IF delivered THEN up /\ Accepted([kind |-> "focus", tab |-> "app"])
       ELSE UNCHANGED <<serverGen, pipe>>
    /\ Post(Numbered([kind |-> "focus", tab |-> "app"], launching))
    /\ launching' = 0
    /\ UNCHANGED <<up, conn, counters, threads, taken, pendingActions, flushing, screen, budget>>

----
(* The main looper: one runnable at a time. *)

\* registerActivity() of an activity of a tab: the tab comes to the front, and
\* pending actions are flushed by a runnable of their own, behind those posted.
Registered(tab) ==
    /\ tabs' = tabs \cup {tab} /\ activeTab' = tab /\ mainReady' = TRUE
    /\ focused' = [focused EXCEPT !.kept = @ /\ focused.tab = tab]
    /\ Post(Flush)
    /\ Start(subscriber)

\* ArtApkMain has created the first activity.
RegisterActivity(tab) ==
    /\ ~mainReady /\ flushing = <<>>
    /\ Registered(tab)
    /\ UNCHANGED <<server, stream, counters, subscriber, reader, gaveUp, taken, pendingActions, flushing, launch>>

\* startActivityInCurrentTask(): an activity of the guest, which need not be
\* the one in front, starts another one in its tab; when that cannot be
\* launched the caller's tab comes to the front.
StartActivity(tab, launched) ==
    /\ budget.launches > 0 /\ flushing = <<>>
    /\ tab \in tabs \/ (tabs = {} /\ tab = "app" /\ launched)
    /\ IF launched THEN Registered(tab)
       ELSE /\ activeTab' = tab /\ focused' = [focused EXCEPT !.kept = @ /\ focused.tab = tab]
            /\ UNCHANGED <<tabs, mainReady, mainq, connecting, connector, tries>>
    /\ budget' = [budget EXCEPT !.launches = @ - 1]
    /\ UNCHANGED <<server, stream, counters, subscriber, reader, gaveUp, taken, pendingActions, flushing, launching>>

\* isReadyFor(): a focus-tab for an application that is not there launches it.
IsReadyFor(next) ==
    mainReady \/ (next.kind = "focus" /\ next.tab # "launcher" /\ next.tab \notin tabs)

\* Mutant: an older focus-tab is applied too.
IsStaleNever(next) == FALSE
\* isStale(): a focus-tab older than the newest one that was taken.
IsStale(next) == next.kind = "focus" /\ next.gen < focusGen
Focuses(next) == next.kind = "focus" /\ ~IsStale(next)

\* focusOrLaunchActivity() of an app that is not there, which ArtApkMain may
\* fail to launch; and the back or close-tab that ends the app's last
\* activity: finishTab() ends all of a tab, performBack() the one in front.
LaunchesApp(next, fully) == Focuses(next) /\ next.tab = "app" /\ "app" \notin tabs /\ fully
Ends(next, fully) ==
    /\ "app" \in tabs
    /\ next.kind = "close" \/ (next.kind = "back" /\ activeTab = "app" /\ fully)

\* Mutant: a tab that is finished stays the active one.
TabAfterStays(next, fully) == IF Focuses(next) /\ (next.tab \in tabs \/ LaunchesApp(next, fully)) THEN next.tab ELSE activeTab
\* The tab in front after an action.
TabAfter(next, fully) ==
    IF Focuses(next) /\ (next.tab \in tabs \/ LaunchesApp(next, fully)) THEN next.tab
    ELSE IF ~Ends(next, fully) THEN activeTab
         ELSE IF "launcher" \in tabs THEN "launcher" ELSE ""

\* applyActionOnMain(); a launch registers its activity at once.
Apply(next, fully) ==
    /\ activeTab' = TabAfter(next, fully)
    /\ tabs' = (IF LaunchesApp(next, fully) THEN tabs \cup {"app"}
                ELSE IF Ends(next, fully) THEN tabs \ {"app"} ELSE tabs)
    /\ mainReady' = (mainReady \/ LaunchesApp(next, fully))
    /\ focused' = IF Focuses(next)
                  THEN [gen |-> next.gen, tab |-> next.tab,
                        kept |-> next.tab \in tabs \/ LaunchesApp(next, fully)]
                  ELSE [focused EXCEPT !.kept = @ /\ ~(focused.tab = "app" /\ Ends(next, fully))]
    /\ IF LaunchesApp(next, fully) THEN Start(subscriber) ELSE UNCHANGED <<connecting, connector, tries>>
    /\ UNCHANGED <<server, stream, counters, subscriber, reader, gaveUp, taken, launch>>

\* A posted action: applied, with a flush after it, or kept until there is an
\* activity.
RunAction(fully) ==
    /\ flushing = <<>> /\ mainq # <<>> /\ Head(mainq) # Flush
    /\ LET next == Head(mainq)
       IN  IF IsReadyFor(next)
           THEN /\ Apply(next, fully)
                /\ mainq' = IF LaunchesApp(next, fully) THEN Append(Append(Tail(mainq), Flush), Flush)
                            ELSE Append(Tail(mainq), Flush)
                /\ UNCHANGED <<pendingActions, flushing>>
           ELSE /\ pendingActions' = Append(pendingActions, next)
                /\ mainq' = Tail(mainq)
                /\ UNCHANGED <<server, stream, counters, threads, taken, flushing, screen, launch>>

\* flushPendingActions() takes what is pending once there is an activity, ...
RunFlush ==
    /\ flushing = <<>> /\ mainq # <<>> /\ Head(mainq) = Flush
    /\ mainq' = Tail(mainq)
    /\ IF mainReady THEN flushing' = pendingActions /\ pendingActions' = <<>>
       ELSE UNCHANGED <<flushing, pendingActions>>
    /\ UNCHANGED <<server, stream, counters, threads, taken, screen, launch>>

\* ... and applies one after the other.
ApplyFlushed(fully) ==
    /\ flushing # <<>>
    /\ Apply(Head(flushing), fully)
    /\ flushing' = Tail(flushing)
    /\ mainq' = IF LaunchesApp(Head(flushing), fully) THEN Append(mainq, Flush) ELSE mainq
    /\ UNCHANGED pendingActions

Next ==
    \/ \E action \in Actions : DeviceAction(action)
    \/ Crash \/ Restart
    \/ InitSubscriber \/ TryFails \/ ConnectorReturns
    \/ ReaderTakes \/ ReaderPosts \/ ReaderEnds \/ ReaderReconnects
    \/ LaunchApp
    \/ \E delivered \in BOOLEAN : LaunchDispatch(delivered)
    \/ \E tab \in Tabs : RegisterActivity(tab) \/ \E launched \in BOOLEAN : StartActivity(tab, launched)
    \/ \E fully \in BOOLEAN : RunAction(fully) \/ ApplyFlushed(fully)
    \/ RunFlush

Spec == Init /\ [][Next]_vars

\* Every thread goes on while it can, and muplard is started again.
FairSpec ==
    /\ Spec
    /\ WF_vars(Restart)
    /\ WF_vars(InitSubscriber) /\ WF_vars(TryFails) /\ WF_vars(ConnectorReturns)
    /\ WF_vars(ReaderTakes) /\ WF_vars(ReaderPosts) /\ WF_vars(ReaderEnds) /\ WF_vars(ReaderReconnects)
    /\ WF_vars(\E fully \in BOOLEAN : RunAction(fully) \/ ApplyFlushed(fully)) /\ WF_vars(RunFlush)

----
(* Properties. *)

\* When an activity is there and nothing is queued or in a thread's hand any
\* more, the focus-tab that was applied last is the newest one that was taken,
\* although an older one may run after a newer one (isStale), and its tab is
\* the one in front unless that tab could not be shown or the guest changed
\* the front since: an activity that registers or is ended does.
FocusSettles ==
    mainReady /\ launching = 0 /\ taken = <<>> /\ mainq = <<>> /\ pendingActions = <<>> /\ flushing = <<>>
        => focused.gen = focusGen /\ (focused.kept => activeTab = focused.tab)

\* The tab in front has an activity as long as any tab has one, in whatever
\* order activities register, end and are brought to the front.
FrontIsThere == activeTab \in tabs \/ tabs = {}

\* While muplard and the controller number alike (no restart, no
\* launchApp()), every push on an open stream is taken: none is mistaken
\* for one that was seen.
PushesAreNew ==
    ~skewed => \A i \in DOMAIN pipe : pipe[i].gen > localGen

\* One subscription at a time: a reader thread runs exactly while there is a
\* subscriber, through every order in which the reader ends and the connect
\* thread returns.
OneReader == subscriber <=> reader = "reading"

\* Device actions are taken once, by one reader, and the newest focus-tab wins.
DeviceSound == FocusSettles /\ FrontIsThere /\ PushesAreNew /\ OneReader

\* A controller that had a subscription gets one again once muplard is back:
\* "Auto-reconnect: muplard may have restarted; retry connection."
\* (FrameworkDeviceController.readActions), unless it ran out of tries.
Reconnects ==
    (reader = "ending") ~> (subscriber \/ gaveUp)
=============================================================================
