------------------------- MODULE PrefixManagerProofs -------------------------
(***************************************************************************)
(* Proofs about AppTasks, for any number of apps, tasks and sessions, and  *)
(* about PrefixStore, for any number of processes, names and directories.  *)
(*                                                                         *)
(* AppInv strengthens what the manager promises of its tables.  A live     *)
(* task is the one of its app until the application quits, and no task of  *)
(* that app has an end that is still to be seen (OwnedInv); an app that is *)
(* marked has something under way that takes the mark away (MarkInv); and  *)
(* what the main thread is in the middle of is known at each of its steps  *)
(* (BusyInv).  Ending and Closing are the blocks in the queue.             *)
(*                                                                         *)
(* StoreInv is what an operation of the store has done so far (Fits), as   *)
(* long as nothing came between: it then has the store to itself, so that  *)
(* the step of another operation has nothing to disturb.  The registry     *)
(* names no root twice, nor any name unless it was made by migration       *)
(* (Unique), and an operation has read nothing else (Known).  Of a clone   *)
(* whose destination is named through a link no more is known than that    *)
(* its source is a prefix or gone.                                         *)
(***************************************************************************)
EXTENDS AppTasks, SequenceTheorems, FiniteSetTheorems, WellFoundedInduction, TLAPS

\* Tasks are numbered from 1.
TaskSizes ==
    /\ AppTaskIds \subseteq Nat \ {0} /\ Sessions \subseteq Nat \ {0}
    /\ MaxAttempts \in Nat /\ MaxActs \in Nat

NoApp == ""
Stages == {"none", "live", "dead", "gone"}
Tasks == [app : AppKeys \cup {NoApp}, at : Stages, base : SUBSET AppTaskIds]
Handlers == [step : {"idle", "session", "start", "pid"}, app : AppKeys \cup {NoApp}, t : AppTaskIds \cup {None}]
Quits == [at : {"no", "clients", "sessions", "ended"}, session : Sessions \cup {None}]
Blocks ==
    {<<"prestart", None>>} \cup {<<"session", s>> : s \in Sessions} \cup {<<"ended", t>> : t \in AppTaskIds}

\* Tasks and sessions whose end has been posted to the main queue.
Ending == {t \in AppTaskIds : \E i \in DOMAIN main : main[i] = <<"ended", t>>}
Closing == {s \in Sessions : \E i \in DOMAIN main : main[i] = <<"session", s>>}

TaskTypes ==
    /\ kind \in {"linux", "wine"} /\ task \in [AppTaskIds -> Tasks]
    /\ running \in [AppKeys -> AppTaskIds \cup {None}] /\ token \in [AppKeys -> AppTaskIds \cup {None}]
    /\ launching \subseteq AppKeys /\ wait \in [AppTaskIds -> 0..(MaxAttempts + 1)]
    /\ timers \subseteq AppTaskIds /\ windows \subseteq AppTaskIds
    /\ busy \in Handlers /\ pidf \in AppTaskIds \cup {None}
SessionTypes ==
    /\ sess \in [Sessions -> Stages] /\ held \in Sessions \cup {None}
    /\ dbus \in {"absent", "expected", "ready"} /\ prestart \in {"no", "waiting", "posted"}
    /\ quit \in Quits
QueueTypes ==
    /\ main \in Seq(Blocks) /\ acts \in 0..MaxActs /\ odd \subseteq {"relaunch", "quick", "late"}

\* What the main thread is in the middle of: an app that does not run is being
\* started, or was, and no block has run since.
BusyInv ==
    /\ busy.step = "idle" => busy = Idle
    /\ busy.step \in {"session", "start"} =>
           busy.app \in AppKeys /\ busy.t = None /\ ~IsLive(running[busy.app]) /\ quit.at = "no"
    /\ busy.step = "pid" =>
           /\ busy.app \in AppKeys /\ busy.t \in AppTaskIds /\ quit.at = "no"
           /\ task[busy.t].app = busy.app /\ running[busy.app] = busy.t
           /\ kind = "linux" => token[busy.app] = busy.t
           /\ task[busy.t].at \in {"live", "dead"} \/ busy.t \in Ending

\* The tables are about tasks that were started, of their apps.
TableInv ==
    /\ \A a \in AppKeys : running[a] # None => task[running[a]].app = a /\ task[running[a]].at # "none"
    /\ \A t \in AppTaskIds : /\ task[t].at # "none" => task[t].app \in AppKeys
                             /\ t \in timers \/ wait[t] > 0 => task[t].at # "none"
                             /\ t \in Ending => task[t].at = "gone"

\* Unless an app was started again too early: until the application quits, a
\* task that runs is the one of its app, and the app has no earlier one whose end
\* is still to be seen; from then on it was sent a signal.
OwnedInv ==
    "relaunch" \in odd \/
    IF quit.at = "no"
    THEN \A t \in AppTaskIds : IsLive(t) =>
             /\ running[task[t].app] = t
             /\ \A u \in AppTaskIds : task[u].at = "dead" \/ u \in Ending => task[u].app # task[t].app
    ELSE \A t \in AppTaskIds : IsLive(t) => App(t) \in told

\* The PID file names a task that has not ended, unless it ended at once.
PidInv == "quick" \in odd \/ pidf = None \/ task[pidf].at \in {"live", "dead"}

\* Something under way will end the mark of a.
Endable(a) == \E t \in AppTaskIds :
    /\ task[t].app = a
    /\ \/ busy.t = t \/ t \in timers \/ task[t].at = "dead" \/ t \in Ending
       \/ wait[t] > 0 /\ token[a] = t /\ IsLive(running[a])
MarkInv == quit.at = "no" => \A a \in launching : Endable(a)

TaskInv == TaskTypes /\ BusyInv /\ TableInv /\ OwnedInv /\ PidInv /\ MarkInv
SessionInv == SessionTypes /\ SessionsKnown /\ \A s \in Closing : sess[s] = "gone"
AppInv == TaskInv /\ SessionInv /\ QueueTypes

----
\* A set of numbers that is not empty has a least one.
LEMMA LeastNumber == ASSUME NEW T \in SUBSET Nat, T # {} PROVE \E x \in T : \A y \in T : x <= y
<1>1. PICK R : R = OpToRel(<, Nat)  OBVIOUS
<1>2. IsWellFoundedOn(R, Nat)  BY <1>1, NatLessThanWellFounded, Zenon
<1>3. PICK x \in T : \A y \in T : ~(<<y, x>> \in R)  BY <1>2, WFMin, Zenon
<1>4. \A y \in Nat : y < x => <<y, x>> \in R  BY <1>1 DEF OpToRel
<1>5. \A y \in T : ~(y < x)  BY <1>3, <1>4
<1>6. x \in Nat /\ T \subseteq Nat  OBVIOUS
<1>7. \A y \in T : x <= y  BY <1>5, <1>6
<1> QED  BY <1>7

\* Lowest picks a member.
LEMMA LowestIs == ASSUME NEW S \in SUBSET Nat, S # {} PROVE Lowest(S) \in S
<1>1. \E x \in S : \A y \in S : x <= y  BY LeastNumber
<1> QED  BY <1>1 DEF Lowest

----
(* The main queue. *)

\* A block of the queue.
LEMMA BlockIs ==
    ASSUME NEW b \in Blocks
    PROVE  /\ b = <<b[1], b[2]>> /\ b[1] \in {"prestart", "session", "ended"}
           /\ b[1] = "ended" => b[2] \in AppTaskIds /\ b = <<"ended", b[2]>>
           /\ b[1] = "session" => b[2] \in Sessions /\ b = <<"session", b[2]>>
  BY DEF Blocks

\* A block is posted.
LEMMA PostIs ==
    ASSUME QueueTypes, NEW b \in Blocks, main' = Append(main, b)
    PROVE  /\ main' \in Seq(Blocks)
           /\ Ending' = {t \in AppTaskIds : t \in Ending \/ b = <<"ended", t>>}
           /\ Closing' = {s \in Sessions : s \in Closing \/ b = <<"session", s>>}
<1>1. PICK n \in Nat : n = Len(main) /\ DOMAIN main = 1..n  BY DEF QueueTypes
<1>2. /\ main' \in Seq(Blocks) /\ DOMAIN main' = 1..n + 1 /\ main'[n + 1] = b
      /\ \A i \in 1..n : main'[i] = main[i]
  BY <1>1, AppendProperties DEF QueueTypes
<1>3. \A i \in DOMAIN main' : i = n + 1 \/ i \in DOMAIN main  BY <1>1, <1>2
<1>4. n + 1 \in DOMAIN main' /\ \A i \in DOMAIN main : i \in DOMAIN main'  BY <1>1, <1>2
<1>5. \A c : (\E i \in DOMAIN main' : main'[i] = c) <=> (\E i \in DOMAIN main : main[i] = c) \/ b = c
  BY <1>1, <1>2, <1>3, <1>4
<1>6. Ending' = {t \in AppTaskIds : t \in Ending \/ b = <<"ended", t>>}  BY <1>5 DEF Ending
<1>7. Closing' = {s \in Sessions : s \in Closing \/ b = <<"session", s>>}  BY <1>5 DEF Closing
<1> QED  BY <1>2, <1>6, <1>7

\* The first block is taken.
LEMMA TakeIs ==
    ASSUME QueueTypes, main # <<>>, main' = Tail(main)
    PROVE  /\ main' \in Seq(Blocks) /\ Head(main) \in Blocks
           /\ \A t \in Ending' : t \in Ending
           /\ \A t \in Ending : t \in Ending' \/ Head(main) = <<"ended", t>>
           /\ \A s \in Closing' : s \in Closing
           /\ Head(main)[1] = "ended" => Head(main)[2] \in Ending
           /\ Head(main)[1] = "session" => Head(main)[2] \in Closing
           /\ Head(main)[1] # "ended" => Ending' = Ending
<1>1. PICK n \in Nat : n = Len(main) /\ DOMAIN main = 1..n  BY DEF QueueTypes
<1>2. n # 0  BY <1>1, EmptySeq DEF QueueTypes
<1>3. PICK h : h = Head(main)  OBVIOUS
<1>4. h = main[1] /\ h \in Blocks /\ 1 \in DOMAIN main  BY <1>1, <1>2, <1>3 DEF QueueTypes
<1>5. main' \in Seq(Blocks) /\ DOMAIN main' = 1..n - 1 /\ \A i \in 1..n - 1 : main'[i] = main[i + 1]
  BY <1>1, <1>2, HeadTailProperties DEF QueueTypes
<1>6. \A c : (\E i \in DOMAIN main' : main'[i] = c) => \E i \in DOMAIN main : main[i] = c
 <2>1. \A i \in DOMAIN main' : i + 1 \in DOMAIN main /\ main'[i] = main[i + 1]  BY <1>1, <1>5
 <2> QED  BY <2>1
<1>7. \A c : (\E i \in DOMAIN main : main[i] = c) => c = h \/ \E i \in DOMAIN main' : main'[i] = c
 <2>1. \A i \in DOMAIN main : i = 1 \/ (i - 1 \in DOMAIN main' /\ main'[i - 1] = main[i])
   BY <1>1, <1>5
 <2> QED  BY <2>1, <1>4
<1>8. (\A t \in Ending' : t \in Ending) /\ (\A s \in Closing' : s \in Closing)
  BY <1>6 DEF Ending, Closing
<1>9. \A t \in Ending : t \in Ending' \/ h = <<"ended", t>>  BY <1>7 DEF Ending
<1>10. h[1] = "ended" => h[2] \in Ending  BY <1>4, BlockIs DEF Ending
<1>11. h[1] = "session" => h[2] \in Closing  BY <1>4, BlockIs DEF Closing
<1>12. h[1] # "ended" => Ending' = Ending
 <2>1. h[1] # "ended" => \A t \in Ending : t \in Ending'  BY <1>9
 <2> QED  BY <2>1, <1>8 DEF Ending
<1> QED  BY <1>3, <1>4, <1>5, <1>8, <1>9, <1>10, <1>11, <1>12

\* A queue that is not touched.
LEMMA QueueKept == ASSUME main' = main PROVE Ending' = Ending /\ Closing' = Closing
  BY DEF Ending, Closing

----
(* Steps of the session launcher. *)

\* The apps' part where a step leaves it alone.
LEMMA TasksKept ==
    ASSUME TaskInv, UNCHANGED <<kind, task, tables, waiting, busy, pidf>>, Ending' = Ending,
           told \subseteq told', quit'.at = "no" <=> quit.at = "no", odd \subseteq odd'
    PROVE  TaskInv'
<1>1. TaskTypes'  BY DEF TaskInv, TaskTypes, tables, waiting
<1>2. BusyInv'  BY DEF TaskInv, BusyInv, IsLive, tables
<1>3. TableInv'  BY DEF TaskInv, TableInv, tables, waiting
<1>4. OwnedInv'  BY DEF TaskInv, OwnedInv, IsLive, tables
<1>5. PidInv'  BY DEF TaskInv, PidInv
<1>6. MarkInv'
 <2>1. \A a \in AppKeys : Endable(a) => Endable(a)'  BY DEF Endable, IsLive, tables, waiting
 <2> QED  BY <2>1 DEF TaskInv, TaskTypes, MarkInv, tables
<1> QED  BY <1>1, <1>2, <1>3, <1>4, <1>5, <1>6 DEF TaskInv

\* The sessions' part where a step leaves it alone.
LEMMA SessionsKept ==
    ASSUME SessionInv, UNCHANGED <<session, quit>>, Closing' = Closing, told \subseteq told', odd \subseteq odd'
    PROVE  SessionInv'
<1>1. SessionTypes'  BY DEF SessionInv, SessionTypes, session
<1>2. SessionsKnown'  BY DEF SessionInv, SessionsKnown, SessionLive, session
<1>3. \A s \in Closing' : sess'[s] = "gone"  BY DEF SessionInv, session
<1> QED  BY <1>1, <1>2, <1>3 DEF SessionInv

\* The user does something.
LEMMA ActIs == ASSUME QueueTypes, TaskSizes, Act PROVE acts' \in 0..MaxActs /\ quit.at = "no" /\ busy = Idle
  BY DEF Act, Free, QueueTypes, TaskSizes

\* ensureLinuxSessionForPrefix() tells a session that it replaces to end.
LEMMA EnsureIs ==
    ASSUME TaskSizes, SessionInv, EnsureLinuxSession, UNCHANGED <<dbus, quit>>, prestart' \in {"no", "waiting", "posted"},
           odd \subseteq odd', quit.at # "no" /\ sess' # sess => "late" \in odd',
           \A s \in Closing' : s \in Closing
    PROVE  SessionInv' /\ told \subseteq told'
<1>1. sess \in [Sessions -> Stages] /\ held \in Sessions \cup {None} /\ None \notin Sessions
  BY DEF SessionInv, SessionTypes, TaskSizes, None
<1>2. \A s \in Sessions : SessionLive(s) <=> sess[s] = "live"  BY DEF SessionLive
<1>3. \A s \in Sessions : SessionLive(s)' <=> sess'[s] = "live"  BY DEF SessionLive
<1>4. \A s \in Sessions : SessionLive(s) => Session(s) \in told \/ "late" \in odd
                                          \/ (held = s /\ quit.at = "no") \/ (quit.session = s /\ quit.at = "clients")
  BY DEF SessionInv, SessionsKnown
<1>5. CASE Keeps
 <2>1. UNCHANGED <<sess, held, told>>  BY <1>5 DEF EnsureLinuxSession
 <2>2. SessionTypes' /\ SessionsKnown' /\ \A s \in Closing' : sess'[s] = "gone"
   BY <2>1 DEF SessionInv, SessionTypes, SessionsKnown, SessionLive
 <2> QED  BY <2>1, <2>2 DEF SessionInv
<1>6. CASE ~Keeps /\ NewSessions # {} /\ held' = Lowest(NewSessions)
           /\ sess' = [sess EXCEPT ![Lowest(NewSessions)] = "live"]
 <2>1. NewSessions \in SUBSET Nat  BY DEF NewSessions, TaskSizes
 <2>2. PICK n : n = Lowest(NewSessions)  OBVIOUS
 <2>3. n \in Sessions /\ sess[n] = "none"  BY <1>6, <2>1, <2>2, LowestIs DEF NewSessions
 <2>4. held' = n /\ sess' = [sess EXCEPT ![n] = "live"]  BY <1>6, <2>2
 <2>5. told \subseteq told' /\ (SessionLive(held) => Session(held) \in told')
   BY <1>6 DEF EnsureLinuxSession
 <2>6. sess' \in [Sessions -> Stages] /\ sess'[n] = "live" /\ \A s \in Sessions : s # n => sess'[s] = sess[s]
   BY <1>1, <2>3, <2>4 DEF Stages
 <2>7. sess' # sess  BY <2>3, <2>6
 <2>8. SessionsKnown'
  <3> SUFFICES ASSUME "late" \notin odd', NEW s \in Sessions, sess'[s] = "live", Session(s) \notin told'
               PROVE  (held' = s /\ quit'.at = "no") \/ (quit'.session = s /\ quit'.at = "clients")
    BY <1>3 DEF SessionsKnown, Session
  <3>1. quit.at = "no"  BY <2>7
  <3>2. CASE s = n  BY <2>4, <3>1, <3>2
  <3>3. CASE s # n  BY <1>2, <1>4, <2>5, <2>6, <3>1, <3>3
  <3> QED  BY <3>2, <3>3
 <2>9. SessionTypes'  BY <2>3, <2>4, <2>6 DEF SessionInv, SessionTypes
 <2>10. \A s \in Closing' : sess'[s] = "gone"  BY <2>3, <2>6 DEF SessionInv, Closing
 <2> QED  BY <2>5, <2>8, <2>9, <2>10 DEF SessionInv
<1>7. CASE ~Keeps /\ held' = (IF SessionLive(held) THEN None ELSE held) /\ UNCHANGED sess
 <2>1. told \subseteq told' /\ (SessionLive(held) => Session(held) \in told')
   BY <1>7 DEF EnsureLinuxSession
 <2>2. held' \in Sessions \cup {None} /\ (~SessionLive(held) => held' = held)  BY <1>1, <1>7
 <2>3. SessionsKnown'
  <3> SUFFICES ASSUME "late" \notin odd', NEW s \in Sessions, sess'[s] = "live", Session(s) \notin told'
               PROVE  (held' = s /\ quit'.at = "no") \/ (quit'.session = s /\ quit'.at = "clients")
    BY <1>3 DEF SessionsKnown, Session
  <3>1. SessionLive(s) /\ Session(s) \notin told /\ "late" \notin odd  BY <1>2, <1>7, <2>1
  <3>2. held # s  BY <2>1, <3>1
  <3> QED  BY <1>4, <3>1, <3>2
 <2>4. SessionTypes' /\ \A s \in Closing' : sess'[s] = "gone"
   BY <1>7, <2>2 DEF SessionInv, SessionTypes
 <2> QED  BY <2>1, <2>3, <2>4 DEF SessionInv
<1>8. Keeps \/ (NewSessions # {} /\ held' = Lowest(NewSessions) /\ sess' = [sess EXCEPT ![Lowest(NewSessions)] = "live"])
      \/ (held' = (IF SessionLive(held) THEN None ELSE held) /\ UNCHANGED sess)
  BY DEF EnsureLinuxSession
<1> QED  BY <1>5, <1>6, <1>7, <1>8

\* A session is to be started before the first app.
LEMMA PrestartKeeps == ASSUME TaskSizes, AppInv, Prestart PROVE AppInv'
<1>1. Ending' = Ending /\ Closing' = Closing  BY QueueKept DEF Prestart
<1>2. QueueTypes'  BY ActIs DEF AppInv, Prestart, QueueTypes
<1>3. TaskInv'  BY <1>1, TasksKept DEF AppInv, Prestart
<1>4. SessionTypes'  BY DEF AppInv, SessionInv, SessionTypes, Prestart
<1>5. SessionsKnown' /\ \A s \in Closing' : sess'[s] = "gone"
  BY <1>1 DEF AppInv, SessionInv, SessionsKnown, SessionLive, Prestart
<1> QED  BY <1>2, <1>3, <1>4, <1>5 DEF AppInv, SessionInv

\* The compositor's socket is there, or is not waited for any more.
LEMMA CompositorReadyKeeps == ASSUME TaskSizes, AppInv, CompositorReady PROVE AppInv'
<1>1. main' \in Seq(Blocks) /\ Ending' = Ending /\ Closing' = Closing
 <2>1. CASE main' = main  BY <2>1, QueueKept DEF AppInv, QueueTypes
 <2>2. CASE main' = Append(main, <<"prestart", None>>)
  <3>1. PICK b : b = <<"prestart", None>>  OBVIOUS
  <3>2. b \in Blocks /\ (\A t : b # <<"ended", t>>) /\ (\A s : b # <<"session", s>>)
    BY <3>1 DEF Blocks
  <3>3. /\ main' \in Seq(Blocks) /\ Ending' = {t \in AppTaskIds : t \in Ending \/ b = <<"ended", t>>}
        /\ Closing' = {s \in Sessions : s \in Closing \/ b = <<"session", s>>}
    BY <2>2, <3>1, <3>2, PostIs DEF AppInv
  <3> QED  BY <3>2, <3>3 DEF Ending, Closing
 <2> QED  BY <2>1, <2>2 DEF CompositorReady
<1>2. QueueTypes'  BY <1>1 DEF AppInv, CompositorReady, QueueTypes
<1>3. TaskInv'  BY <1>1, TasksKept DEF AppInv, CompositorReady
<1>4. SessionTypes'  BY DEF AppInv, SessionInv, SessionTypes, CompositorReady
<1>5. SessionsKnown' /\ \A s \in Closing' : sess'[s] = "gone"
  BY <1>1 DEF AppInv, SessionInv, SessionsKnown, SessionLive, CompositorReady
<1> QED  BY <1>2, <1>3, <1>4, <1>5 DEF AppInv, SessionInv

\* Its block runs.
LEMMA RunPrestartKeeps == ASSUME TaskSizes, AppInv, RunPrestart PROVE AppInv'
<1>1. main # <<>> /\ main' = Tail(main) /\ Head(main)[1] = "prestart"  BY DEF RunPrestart
<1>2. main' \in Seq(Blocks) /\ Ending' = Ending /\ \A s \in Closing' : s \in Closing
  BY <1>1, TakeIs DEF AppInv
<1>3. /\ odd \subseteq odd' /\ odd' \subseteq odd \cup {"late"}
      /\ quit.at # "no" /\ sess' # sess => "late" \in odd'
  BY DEF RunPrestart
<1>4. SessionInv' /\ told \subseteq told'
 <2>1. EnsureLinuxSession /\ UNCHANGED <<dbus, quit>> /\ prestart' = "no"  BY DEF RunPrestart
 <2> QED  BY <1>2, <1>3, <2>1, EnsureIs DEF AppInv
<1>5. QueueTypes'  BY <1>2, <1>3 DEF AppInv, RunPrestart, QueueTypes
<1>6. TaskInv'  BY <1>2, <1>3, <1>4, TasksKept DEF AppInv, RunPrestart
<1> QED  BY <1>4, <1>5, <1>6 DEF AppInv

\* D-Bus is installed, and has an address.
LEMMA DbusKeeps == ASSUME TaskSizes, AppInv, PackagesInstalled \/ DbusReady PROVE AppInv'
<1>1. UNCHANGED <<kind, task, tables, waiting, busy, main, pidf, sess, held, prestart, told, quit, acts, odd>>
      /\ dbus' \in {"absent", "expected", "ready"}
  BY DEF PackagesInstalled, DbusReady
<1>2. Ending' = Ending /\ Closing' = Closing  BY <1>1, QueueKept
<1>3. QueueTypes'  BY <1>1 DEF AppInv, QueueTypes
<1>4. TaskInv'  BY <1>1, <1>2, TasksKept DEF AppInv
<1>5. SessionTypes'  BY <1>1 DEF AppInv, SessionInv, SessionTypes
<1>6. SessionsKnown' /\ \A s \in Closing' : sess'[s] = "gone"
  BY <1>1, <1>2 DEF AppInv, SessionInv, SessionsKnown, SessionLive
<1> QED  BY <1>3, <1>4, <1>5, <1>6 DEF AppInv, SessionInv

\* A session launcher ends.
LEMMA SessionEndsKeeps == ASSUME TaskSizes, AppInv, NEW s \in Sessions, SessionEnds(s) PROVE AppInv'
<1>1. UNCHANGED <<kind, task, tables, waiting, busy, main, pidf, held, dbus, prestart, told, quit, acts, odd>>
      /\ sess' = [sess EXCEPT ![s] = "dead"] /\ sess[s] = "live"
  BY DEF SessionEnds, SessionLive
<1>2. Ending' = Ending /\ Closing' = Closing  BY <1>1, QueueKept
<1>3. QueueTypes'  BY <1>1 DEF AppInv, QueueTypes
<1>4. TaskInv'  BY <1>1, <1>2, TasksKept DEF AppInv
<1>5. sess' \in [Sessions -> Stages] /\ sess'[s] = "dead" /\ \A x \in Sessions : x # s => sess'[x] = sess[x]
  BY <1>1 DEF AppInv, SessionInv, SessionTypes, Stages
<1>6. SessionTypes'  BY <1>1, <1>5 DEF AppInv, SessionInv, SessionTypes
<1>7. SessionsKnown'  BY <1>1, <1>5 DEF AppInv, SessionInv, SessionsKnown, SessionLive
<1>8. \A x \in Closing' : sess'[x] = "gone"  BY <1>1, <1>2, <1>5 DEF AppInv, SessionInv, Closing
<1> QED  BY <1>3, <1>4, <1>6, <1>7, <1>8 DEF AppInv, SessionInv

\* Its handler posts a block.
LEMMA SessionHandlerKeeps == ASSUME TaskSizes, AppInv, NEW s \in Sessions, SessionHandler(s) PROVE AppInv'
<1>1. UNCHANGED <<kind, task, tables, waiting, busy, pidf, held, dbus, prestart, told, quit, acts, odd>>
      /\ sess' = [sess EXCEPT ![s] = "gone"] /\ sess[s] = "dead" /\ main' = Append(main, <<"session", s>>)
  BY DEF SessionHandler
<1>2. PICK b : b = <<"session", s>>  OBVIOUS
<1>3. b \in Blocks /\ (\A t : b # <<"ended", t>>) /\ (\A x : b = <<"session", x>> => x = s)
  BY <1>2 DEF Blocks
<1>4. /\ main' \in Seq(Blocks) /\ Ending' = {t \in AppTaskIds : t \in Ending \/ b = <<"ended", t>>}
      /\ Closing' = {x \in Sessions : x \in Closing \/ b = <<"session", x>>}
  BY <1>1, <1>2, <1>3, PostIs DEF AppInv
<1>5. Ending' = Ending  BY <1>3, <1>4 DEF Ending
<1>6. QueueTypes'  BY <1>1, <1>4 DEF AppInv, QueueTypes
<1>7. TaskInv'  BY <1>1, <1>5, TasksKept DEF AppInv
<1>8. sess' \in [Sessions -> Stages] /\ sess'[s] = "gone" /\ \A x \in Sessions : x # s => sess'[x] = sess[x]
  BY <1>1 DEF AppInv, SessionInv, SessionTypes, Stages
<1>9. SessionTypes'  BY <1>1, <1>8 DEF AppInv, SessionInv, SessionTypes
<1>10. SessionsKnown'  BY <1>1, <1>8 DEF AppInv, SessionInv, SessionsKnown, SessionLive
<1>11. \A x \in Closing' : sess'[x] = "gone"  BY <1>1, <1>3, <1>4, <1>8 DEF AppInv, SessionInv
<1> QED  BY <1>6, <1>7, <1>9, <1>10, <1>11 DEF AppInv, SessionInv

\* The block forgets that session.
LEMMA RunSessionEndedKeeps == ASSUME TaskSizes, AppInv, RunSessionEnded PROVE AppInv'
<1>1. main # <<>> /\ main' = Tail(main) /\ Head(main)[1] = "session"  BY DEF RunSessionEnded
<1>2. /\ main' \in Seq(Blocks) /\ Ending' = Ending /\ (\A s \in Closing' : s \in Closing)
      /\ Head(main)[2] \in Closing
  BY <1>1, TakeIs DEF AppInv
<1>3. PICK s \in Sessions : s = Head(main)[2] /\ sess[s] = "gone"
  BY <1>2 DEF AppInv, SessionInv, Closing
<1>4. /\ UNCHANGED <<kind, task, tables, waiting, busy, pidf, sess, dbus, prestart, told, quit, acts, odd>>
      /\ held' = IF held = s THEN None ELSE held
  BY <1>3 DEF RunSessionEnded, WithoutSession
<1>5. QueueTypes'  BY <1>2, <1>4 DEF AppInv, QueueTypes
<1>6. TaskInv'  BY <1>2, <1>4, TasksKept DEF AppInv
<1>7. SessionTypes'  BY <1>4 DEF AppInv, SessionInv, SessionTypes
<1>8. SessionsKnown'  BY <1>3, <1>4 DEF AppInv, SessionInv, SessionsKnown, SessionLive
<1>9. \A x \in Closing' : sess'[x] = "gone"  BY <1>2, <1>4 DEF AppInv, SessionInv
<1> QED  BY <1>5, <1>6, <1>7, <1>8, <1>9 DEF AppInv, SessionInv

\* deletePrefix() ends the session and forgets it.
LEMMA DeletePrefixKeeps == ASSUME TaskSizes, AppInv, DeletePrefix PROVE AppInv'
<1>1. /\ UNCHANGED <<kind, task, tables, waiting, busy, main, pidf, sess, dbus, prestart, quit, odd>>
      /\ held' = None /\ told \subseteq told' /\ (SessionLive(held) => Session(held) \in told')
  BY DEF DeletePrefix
<1>2. acts' \in 0..MaxActs /\ quit.at = "no"  BY ActIs DEF AppInv, DeletePrefix
<1>3. Ending' = Ending /\ Closing' = Closing  BY <1>1, QueueKept
<1>4. QueueTypes'  BY <1>1, <1>2 DEF AppInv, QueueTypes
<1>5. TaskInv'  BY <1>1, <1>3, TasksKept DEF AppInv
<1>6. SessionTypes'  BY <1>1 DEF AppInv, SessionInv, SessionTypes
<1>7. SessionsKnown'  BY <1>1, <1>2 DEF AppInv, SessionInv, SessionsKnown, SessionLive
<1>8. \A x \in Closing' : sess'[x] = "gone"  BY <1>1, <1>3 DEF AppInv, SessionInv
<1> QED  BY <1>4, <1>5, <1>6, <1>7, <1>8 DEF AppInv, SessionInv

\* The sessions are ended, and the application.
LEMMA QuitSessionsKeeps == ASSUME TaskSizes, AppInv, QuitSessions \/ QuitEnds PROVE AppInv'
<1>1. /\ UNCHANGED <<kind, task, tables, waiting, busy, main, pidf, session, acts, odd>> /\ told \subseteq told'
      /\ \/ quit.at = "clients" /\ quit' = [quit EXCEPT !.at = "sessions"]
            /\ (SessionLive(quit.session) => Session(quit.session) \in told')
         \/ quit.at = "sessions" /\ quit' = [quit EXCEPT !.at = "ended"]
  BY DEF QuitSessions, QuitEnds
<1>2. quit' \in Quits /\ quit'.at \in {"sessions", "ended"} /\ quit'.session = quit.session
  BY <1>1 DEF AppInv, SessionInv, SessionTypes, Quits
<1>3. Ending' = Ending /\ Closing' = Closing  BY <1>1, QueueKept
<1>4. QueueTypes'  BY <1>1 DEF AppInv, QueueTypes
<1>5. TaskInv'  BY <1>1, <1>2, <1>3, TasksKept DEF AppInv
<1>6. SessionTypes'  BY <1>1, <1>2 DEF AppInv, SessionInv, SessionTypes, session
<1>7. SessionsKnown'  BY <1>1, <1>2 DEF AppInv, SessionInv, SessionsKnown, SessionLive, session
<1>8. \A x \in Closing' : sess'[x] = "gone"  BY <1>1, <1>3 DEF AppInv, SessionInv, session
<1> QED  BY <1>4, <1>5, <1>6, <1>7, <1>8 DEF AppInv, SessionInv

----
(* Launching. *)

\* The main thread without anything to do.
LEMMA IdleIs == Idle \in Handlers /\ Idle.step = "idle" /\ Idle.t = None
<1>1. Idle.step = "idle" /\ Idle.t = None  BY Zenon DEF Idle
<1>2. Idle \in Handlers  BY DEF Idle, Handlers, NoApp
<1> QED  BY <1>1, <1>2

\* The tables and the tasks where only the main thread goes on.
LEMMA HandlerMoves ==
    ASSUME TaskInv, UNCHANGED <<kind, task, tables, waiting, pidf, quit, odd>>, Ending' = Ending,
           told \subseteq told', busy' \in Handlers, BusyInv', busy.t \notin AppTaskIds
    PROVE  TaskInv'
<1>1. TaskTypes'  BY DEF TaskInv, TaskTypes, tables, waiting
<1>2. TableInv'  BY DEF TaskInv, TableInv, tables, waiting
<1>3. OwnedInv' /\ PidInv'  BY DEF TaskInv, OwnedInv, PidInv, IsLive, tables
<1>4. MarkInv'
 <2>1. \A a \in AppKeys : Endable(a) => Endable(a)'  BY DEF Endable, IsLive, tables, waiting
 <2> QED  BY <2>1 DEF TaskInv, TaskTypes, MarkInv, tables
<1> QED  BY <1>1, <1>2, <1>3, <1>4 DEF TaskInv

\* A click on an app that is stopped.
LEMMA OpenAppKeeps == ASSUME TaskSizes, AppInv, NEW a \in AppKeys, OpenApp(a) PROVE AppInv'
<1>1. /\ UNCHANGED <<kind, task, tables, waiting, main, pidf, session, told, quit, odd>>
      /\ Status(a) = "Stopped"
      /\ busy' = [step |-> IF kind = "linux" THEN "session" ELSE "start", app |-> a, t |-> None]
  BY DEF OpenApp
<1>2. acts' \in 0..MaxActs /\ quit.at = "no" /\ busy = Idle  BY ActIs DEF AppInv, OpenApp
<1>3. Ending' = Ending /\ Closing' = Closing  BY <1>1, QueueKept
<1>4. ~IsLive(running[a])  BY <1>1 DEF Status
<1>5. busy' \in Handlers /\ busy'.step \in {"session", "start"} /\ busy'.app = a /\ busy'.t = None
  BY <1>1 DEF Handlers
<1>6. BusyInv'
 <2>1. ~(running'[a] \in AppTaskIds /\ task'[running'[a]].at = "live") /\ quit'.at = "no"
   BY <1>1, <1>2, <1>4 DEF IsLive, tables
 <2> QED  BY <1>5, <2>1 DEF BusyInv, IsLive
<1>7. busy.t \notin AppTaskIds  BY <1>2, IdleIs DEF TaskSizes, None
<1>8. TaskInv'  BY <1>1, <1>3, <1>5, <1>6, <1>7, HandlerMoves DEF AppInv
<1>9. SessionInv'  BY <1>1, <1>3, SessionsKept DEF AppInv
<1>10. QueueTypes'  BY <1>1, <1>2 DEF AppInv, QueueTypes
<1> QED  BY <1>8, <1>9, <1>10 DEF AppInv

\* The launch fails.
LEMMA LaunchFailsKeeps == ASSUME TaskSizes, AppInv, LaunchFails PROVE AppInv'
<1>1. /\ UNCHANGED <<kind, task, tables, waiting, main, pidf, session, told, quit, acts, odd>>
      /\ busy.step \in {"session", "start"} /\ busy' = Idle
  BY DEF LaunchFails
<1>2. Ending' = Ending /\ Closing' = Closing  BY <1>1, QueueKept
<1>3. busy' \in Handlers /\ BusyInv'  BY <1>1, IdleIs DEF BusyInv
<1>4. busy.t \notin AppTaskIds  BY <1>1 DEF AppInv, TaskInv, BusyInv, TaskSizes, None
<1>5. TaskInv'  BY <1>1, <1>2, <1>3, <1>4, HandlerMoves DEF AppInv
<1>6. SessionInv'  BY <1>1, <1>2, SessionsKept DEF AppInv
<1>7. QueueTypes'  BY <1>1 DEF AppInv, QueueTypes
<1> QED  BY <1>5, <1>6, <1>7 DEF AppInv

\* A Linux app gets its session.
LEMMA GetSessionKeeps == ASSUME TaskSizes, AppInv, GetSession PROVE AppInv'
<1>1. /\ UNCHANGED <<kind, task, tables, waiting, main, pidf, dbus, prestart, quit, acts, odd>>
      /\ busy.step = "session" /\ EnsureLinuxSession
      /\ busy' = [busy EXCEPT !.step = "start"] \/ busy' = Idle
  BY DEF GetSession
<1>2. Ending' = Ending /\ Closing' = Closing  BY <1>1, QueueKept
<1>3. /\ busy.app \in AppKeys /\ busy.t = None /\ ~IsLive(running[busy.app]) /\ quit.at = "no"
      /\ busy \in Handlers
  BY <1>1 DEF AppInv, TaskInv, BusyInv, TaskTypes
<1>4. SessionInv' /\ told \subseteq told'
  BY <1>1, <1>2, <1>3, EnsureIs DEF AppInv, SessionInv, SessionTypes
<1>5. busy' \in Handlers /\ BusyInv'
 <2>1. CASE busy' = Idle  BY <2>1, IdleIs DEF BusyInv
 <2>2. CASE busy' = [busy EXCEPT !.step = "start"]
  <3>1. busy' \in Handlers /\ busy'.step = "start" /\ busy'.app = busy.app /\ busy'.t = busy.t
    BY <1>3, <2>2 DEF Handlers
  <3>2. ~(running'[busy.app] \in AppTaskIds /\ task'[running'[busy.app]].at = "live") /\ quit'.at = "no"
    BY <1>1, <1>3 DEF IsLive, tables
  <3> QED  BY <1>3, <3>1, <3>2 DEF BusyInv, IsLive
 <2> QED  BY <1>1, <2>1, <2>2
<1>6. busy.t \notin AppTaskIds  BY <1>3 DEF TaskSizes, None
<1>7. TaskInv'  BY <1>1, <1>2, <1>4, <1>5, <1>6, HandlerMoves DEF AppInv
<1>8. QueueTypes'  BY <1>1 DEF AppInv, QueueTypes
<1> QED  BY <1>4, <1>7, <1>8 DEF AppInv

\* A task is started: the app's task that runs now is this one.
LEMMA StartedKeeps ==
    ASSUME TaskSizes, AppInv, busy.step = "start", NEW t \in AppTaskIds, task[t].at = "none", Started(busy.app, t),
           token' \in [AppKeys -> AppTaskIds \cup {None}],
           \A a \in AppKeys : a # busy.app => token'[a] = token[a], kind = "linux" => token'[busy.app] = t
    PROVE  AppInv'
<1>1. PICK a : a = busy.app  OBVIOUS
<1>2. a \in AppKeys /\ busy.t = None /\ ~IsLive(running[a]) /\ quit.at = "no" /\ TaskTypes /\ busy \in Handlers
  BY <1>1 DEF AppInv, TaskInv, BusyInv, TaskTypes
<1>3. /\ UNCHANGED <<kind, waiting, main, pidf, session, told, quit, acts>>
      /\ task' = [task EXCEPT ![t] = [app |-> a, at |-> "live", base |-> windows]]
      /\ launching' = launching \cup {a} /\ running' = [running EXCEPT ![a] = t]
      /\ busy' = [busy EXCEPT !.step = "pid", !.t = t]
      /\ odd' = IF Unfinished(a) THEN odd \cup {"relaunch"} ELSE odd
  BY <1>1 DEF Started
<1>4. Ending' = Ending /\ Closing' = Closing  BY <1>3, QueueKept
<1>5. PICK k : k = [app |-> a, at |-> "live", base |-> windows]  OBVIOUS
<1>6. k \in Tasks /\ k.at = "live" /\ k.app = a  BY <1>2, <1>5 DEF Tasks, Stages, TaskTypes
<1>7. task' \in [AppTaskIds -> Tasks] /\ task'[t] = k /\ \A u \in AppTaskIds : u # t => task'[u] = task[u]
  BY <1>2, <1>3, <1>5, <1>6 DEF TaskTypes
<1>8. /\ running' \in [AppKeys -> AppTaskIds \cup {None}] /\ running'[a] = t
      /\ \A b \in AppKeys : b # a => running'[b] = running[b]
  BY <1>2, <1>3 DEF TaskTypes
<1>9. busy' \in Handlers /\ busy'.step = "pid" /\ busy'.app = a /\ busy'.t = t
  BY <1>1, <1>2, <1>3 DEF Handlers
<1>10. TaskTypes'  BY <1>2, <1>3, <1>7, <1>8, <1>9 DEF TaskTypes, waiting
<1>11. BusyInv'  BY <1>1, <1>2, <1>3, <1>6, <1>7, <1>8, <1>9 DEF BusyInv
<1>12. t \notin Ending  BY DEF AppInv, TaskInv, TableInv
<1>13. TableInv'
 <2>1. \A b \in AppKeys : running'[b] # None => task'[running'[b]].app = b /\ task'[running'[b]].at # "none"
  <3> SUFFICES ASSUME NEW b \in AppKeys, running'[b] # None
               PROVE  task'[running'[b]].app = b /\ task'[running'[b]].at # "none"
    OBVIOUS
  <3>1. CASE b = a  BY <1>6, <1>7, <1>8, <3>1
  <3>2. CASE b # a
   <4>1. running'[b] = running[b] /\ running[b] \in AppTaskIds
     BY <1>2, <1>8, <3>2 DEF TaskTypes
   <4>2. task[running[b]].app = b /\ task[running[b]].at # "none"
     BY <4>1 DEF AppInv, TaskInv, TableInv
   <4> QED  BY <1>7, <4>1, <4>2
  <3> QED  BY <3>1, <3>2
 <2>2. \A u \in AppTaskIds : /\ task'[u].at # "none" => task'[u].app \in AppKeys
                             /\ u \in timers' \/ wait'[u] > 0 => task'[u].at # "none"
                             /\ u \in Ending' => task'[u].at = "gone"
   BY <1>2, <1>3, <1>4, <1>6, <1>7, <1>12 DEF AppInv, TaskInv, TableInv, waiting
 <2> QED  BY <2>1, <2>2 DEF TableInv
<1>14. OwnedInv'
 <2> SUFFICES ASSUME "relaunch" \notin odd', NEW u \in AppTaskIds, task'[u].at = "live"
              PROVE  /\ running'[task'[u].app] = u
                     /\ \A v \in AppTaskIds : task'[v].at = "dead" \/ v \in Ending' => task'[v].app # task'[u].app
   BY <1>2, <1>3 DEF OwnedInv, IsLive
 <2>1. "relaunch" \notin odd /\ ~Unfinished(a)  BY <1>3
 <2>2. \A v \in AppTaskIds : task[v].at = "dead" \/ v \in Ending => task[v].app # a
   BY <2>1 DEF Unfinished, Ending
 <2>3. CASE u = t
  <3>1. \A v \in AppTaskIds : task'[v].at = "dead" \/ v \in Ending' => v # t
    BY <1>4, <1>6, <1>7, <1>12
  <3> QED  BY <1>4, <1>6, <1>7, <1>8, <2>2, <2>3, <3>1
 <2>4. CASE u # t
  <3>1. task'[u] = task[u] /\ IsLive(u)  BY <1>7, <2>4 DEF IsLive
  <3>2. /\ running[task[u].app] = u
        /\ \A v \in AppTaskIds : task[v].at = "dead" \/ v \in Ending => task[v].app # task[u].app
    BY <1>2, <2>1, <3>1 DEF AppInv, TaskInv, OwnedInv
  <3>3. task[u].app \in AppKeys /\ task[u].app # a
    BY <1>2, <3>1, <3>2 DEF AppInv, TaskInv, TableInv, IsLive
  <3>4. \A v \in AppTaskIds : task'[v].at = "dead" \/ v \in Ending' => v # t
    BY <1>4, <1>6, <1>7, <1>12
  <3> QED  BY <1>4, <1>7, <1>8, <3>1, <3>2, <3>3, <3>4
 <2> QED  BY <2>3, <2>4
<1>15. PidInv'  BY <1>3, <1>7, <1>2 DEF AppInv, TaskInv, PidInv, TaskTypes
<1>16. MarkInv'
 <2>1. Endable(a)'  BY <1>6, <1>7, <1>9 DEF Endable
 <2>2. ASSUME NEW b \in AppKeys, b # a, Endable(b) PROVE Endable(b)'
  <3>1. PICK u \in AppTaskIds :
            /\ task[u].app = b
            /\ \/ busy.t = u \/ u \in timers \/ task[u].at = "dead" \/ u \in Ending
               \/ wait[u] > 0 /\ token[b] = u /\ IsLive(running[b])
    BY <2>2 DEF Endable
  <3>2. busy.t # u  BY <1>2 DEF TaskSizes, None
  <3>3. u # t  BY <3>1, <3>2, <1>12 DEF AppInv, TaskInv, TableInv
  <3>4. task'[u] = task[u] /\ token'[b] = token[b] /\ running'[b] = running[b]
    BY <1>1, <1>7, <1>8, <2>2, <3>3
  <3>5. IsLive(running[b]) => running'[b] \in AppTaskIds /\ task'[running'[b]].at = "live"
   <4>1. IsLive(running[b]) => running[b] # t /\ running[b] \in AppTaskIds  BY DEF IsLive
   <4> QED  BY <1>7, <3>4, <4>1 DEF IsLive
  <3> QED  BY <1>3, <1>4, <3>1, <3>2, <3>4, <3>5 DEF Endable, waiting, IsLive
 <2> QED  BY <1>2, <1>3, <2>1, <2>2 DEF AppInv, TaskInv, MarkInv, TaskTypes
<1>17. SessionInv'  BY <1>3, <1>4, SessionsKept DEF AppInv
<1>18. QueueTypes'  BY <1>3 DEF AppInv, QueueTypes
<1> QED  BY <1>10, <1>11, <1>13, <1>14, <1>15, <1>16, <1>17, <1>18 DEF AppInv, TaskInv

\* A Linux or a Windows task is started.
LEMMA StartKeeps == ASSUME TaskSizes, AppInv, StartLinuxTask \/ StartWineTask PROVE AppInv'
<1>1. PICK t : t = Lowest(Unstarted)  OBVIOUS
<1>2. t \in AppTaskIds /\ task[t].at = "none"
 <2>1. Unstarted \in SUBSET Nat /\ Unstarted # {}
   BY DEF Unstarted, TaskSizes, StartLinuxTask, StartWineTask
 <2>2. t \in Unstarted  BY <1>1, <2>1, LowestIs
 <2> QED  BY <2>2 DEF Unstarted
<1>3. busy.step = "start" /\ Started(busy.app, t)  BY <1>1 DEF StartLinuxTask, StartWineTask
<1>4. token \in [AppKeys -> AppTaskIds \cup {None}] /\ busy.app \in AppKeys
  BY <1>3 DEF AppInv, TaskInv, TaskTypes, BusyInv
<1>5. /\ token' \in [AppKeys -> AppTaskIds \cup {None}]
      /\ \A a \in AppKeys : a # busy.app => token'[a] = token[a]
      /\ kind = "linux" => token'[busy.app] = t
 <2>1. CASE StartLinuxTask
  <3>1. token' = [token EXCEPT ![busy.app] = t]  BY <1>1, <2>1 DEF StartLinuxTask
  <3> QED  BY <1>2, <1>4, <3>1
 <2>2. CASE StartWineTask  BY <1>4, <2>2 DEF StartWineTask
 <2> QED  BY <2>1, <2>2
<1> QED  BY <1>2, <1>3, <1>5, StartedKeeps

\* The PID file is written and the window is waited for.
LEMMA WritePidKeeps == ASSUME TaskSizes, AppInv, WritePid PROVE AppInv'
<1>1. PICK t : t = busy.t  OBVIOUS
<1>2. /\ t \in AppTaskIds /\ quit.at = "no" /\ busy.app \in AppKeys /\ task[t].app = busy.app
      /\ running[busy.app] = t /\ (kind = "linux" => token[busy.app] = t)
      /\ task[t].at \in {"live", "dead"} \/ t \in Ending
  BY <1>1 DEF WritePid, AppInv, TaskInv, BusyInv
<1>3. /\ UNCHANGED <<kind, task, tables, windows, main, session, told, quit, acts>>
      /\ busy' = Idle /\ pidf' = t
      /\ IF kind = "linux" THEN wait' = [wait EXCEPT ![t] = 1] /\ timers' = timers
                           ELSE timers' = timers \cup {t} /\ wait' = wait
      /\ odd' = IF task[t].at = "gone" THEN odd \cup {"quick"} ELSE odd
  BY <1>1 DEF WritePid
<1>4. Ending' = Ending /\ Closing' = Closing  BY <1>3, QueueKept
<1>5. 1 \in 0..(MaxAttempts + 1)  BY DEF TaskSizes
<1>6. /\ wait' \in [AppTaskIds -> 0..(MaxAttempts + 1)] /\ timers' \subseteq AppTaskIds
      /\ \A u \in AppTaskIds : /\ u \in timers => u \in timers'
                               /\ wait'[u] > 0 /\ u # t => wait[u] > 0
                               /\ wait[u] > 0 => wait'[u] > 0
                               /\ u \in timers' /\ u # t => u \in timers
 <2>1. CASE kind = "linux"
  <3>1. wait' \in [AppTaskIds -> 0..(MaxAttempts + 1)] /\ wait'[t] = 1
        /\ \A u \in AppTaskIds : u # t => wait'[u] = wait[u]
    BY <1>2, <1>3, <1>5, <2>1 DEF AppInv, TaskInv, TaskTypes
  <3> QED  BY <1>3, <2>1, <3>1 DEF AppInv, TaskInv, TaskTypes
 <2>2. CASE kind # "linux"  BY <1>2, <1>3, <2>2 DEF AppInv, TaskInv, TaskTypes
 <2> QED  BY <2>1, <2>2
<1>7. t \in timers' \/ (kind = "linux" /\ wait'[t] > 0)
 <2>1. CASE kind = "linux"
  <3>1. wait'[t] = 1  BY <1>2, <1>3, <2>1 DEF AppInv, TaskInv, TaskTypes
  <3> QED  BY <2>1, <3>1
 <2>2. CASE kind # "linux"  BY <1>3, <2>2
 <2> QED  BY <2>1, <2>2
<1>8. TaskTypes'  BY <1>2, <1>3, <1>6, IdleIs DEF AppInv, TaskInv, TaskTypes, tables
<1>9. BusyInv'  BY <1>3, IdleIs DEF BusyInv
<1>10. task[t].at # "none"  BY <1>2 DEF AppInv, TaskInv, TableInv
<1>11. TableInv'
 <2>1. \A a \in AppKeys : running'[a] # None => task'[running'[a]].app = a /\ task'[running'[a]].at # "none"
   BY <1>3 DEF AppInv, TaskInv, TableInv, tables
 <2>2. \A u \in AppTaskIds : u \in timers' \/ wait'[u] > 0 => task'[u].at # "none"
   BY <1>3, <1>6, <1>10 DEF AppInv, TaskInv, TableInv
 <2>3. \A u \in AppTaskIds : (task'[u].at # "none" => task'[u].app \in AppKeys)
                             /\ (u \in Ending' => task'[u].at = "gone")
   BY <1>3, <1>4 DEF AppInv, TaskInv, TableInv
 <2> QED  BY <2>1, <2>2, <2>3 DEF TableInv
<1>12. OwnedInv'  BY <1>3, <1>4 DEF AppInv, TaskInv, OwnedInv, IsLive, tables
<1>13. PidInv'
 <2>1. task[t].at \in Stages  BY <1>2 DEF AppInv, TaskInv, TaskTypes, Tasks
 <2> QED  BY <1>3, <1>10, <2>1 DEF PidInv, Stages
<1>14. MarkInv'
 <2> PICK a : a = busy.app  OBVIOUS
 <2>1. Endable(a)'
  <3>1. CASE task[t].at = "dead" \/ t \in Ending \/ t \in timers'
    BY <1>2, <1>3, <1>4, <3>1 DEF Endable
  <3>2. CASE task[t].at = "live" /\ kind = "linux" /\ wait'[t] > 0
    BY <1>2, <1>3, <3>2 DEF Endable, IsLive, tables
  <3> QED  BY <1>2, <1>7, <3>1, <3>2
 <2>2. ASSUME NEW b \in AppKeys, b # a, Endable(b) PROVE Endable(b)'
  <3>1. PICK u \in AppTaskIds :
            /\ task[u].app = b
            /\ \/ busy.t = u \/ u \in timers \/ task[u].at = "dead" \/ u \in Ending
               \/ wait[u] > 0 /\ token[b] = u /\ IsLive(running[b])
    BY <2>2 DEF Endable
  <3>2. busy.t # u  BY <1>1, <1>2, <2>2, <3>1
  <3> QED  BY <1>3, <1>4, <1>6, <3>1, <3>2 DEF Endable, IsLive, tables
 <2>3. \A b \in launching : b \in AppKeys /\ Endable(b)
   BY <1>2 DEF AppInv, TaskInv, MarkInv, TaskTypes
 <2>4. \A b \in launching : Endable(b)'  BY <2>1, <2>2, <2>3
 <2> QED  BY <1>3, <2>4 DEF MarkInv, tables
<1>15. SessionInv'  BY <1>3, <1>4, SessionsKept DEF AppInv
<1>16. QueueTypes'  BY <1>3 DEF AppInv, QueueTypes
<1> QED  BY <1>8, <1>9, <1>11, <1>12, <1>13, <1>14, <1>15, <1>16 DEF AppInv, TaskInv

----
(* Windows, timers and ends. *)

\* A window appears, or an app is told to stop.
LEMMA SmallStepsKeep ==
    ASSUME TaskSizes, AppInv, (\E t \in AppTaskIds : ShowsWindow(t)) \/ (\E a \in AppKeys : StopApp(a))
    PROVE  AppInv'
<1>1. /\ UNCHANGED <<kind, task, tables, wait, timers, busy, main, pidf, session, quit, odd>>
      /\ windows' \subseteq AppTaskIds /\ told \subseteq told' /\ acts' \in 0..MaxActs
 <2>1. CASE \E t \in AppTaskIds : ShowsWindow(t)
   BY <2>1 DEF ShowsWindow, AppInv, TaskInv, TaskTypes, QueueTypes
 <2>2. CASE \E a \in AppKeys : StopApp(a)
  <3>1. PICK a \in AppKeys : StopApp(a)  BY <2>2
  <3>2. acts' \in 0..MaxActs  BY <3>1, ActIs DEF StopApp, AppInv
  <3> QED  BY <3>1, <3>2 DEF StopApp, AppInv, TaskInv, TaskTypes, waiting
 <2> QED  BY <2>1, <2>2
<1>2. Ending' = Ending /\ Closing' = Closing  BY <1>1, QueueKept
<1>3. TaskTypes'  BY <1>1 DEF AppInv, TaskInv, TaskTypes, tables
<1>4. BusyInv' /\ TableInv'  BY <1>1, <1>2 DEF AppInv, TaskInv, BusyInv, TableInv, IsLive, tables
<1>5. OwnedInv' /\ PidInv'  BY <1>1, <1>2 DEF AppInv, TaskInv, OwnedInv, PidInv, IsLive, tables
<1>6. MarkInv'
 <2>1. \A a \in AppKeys : Endable(a) => Endable(a)'  BY <1>1, <1>2 DEF Endable, IsLive, tables
 <2> QED  BY <1>1, <2>1 DEF AppInv, TaskInv, TaskTypes, MarkInv, tables
<1>7. SessionInv'  BY <1>1, <1>2, SessionsKept DEF AppInv
<1>8. QueueTypes'  BY <1>1 DEF AppInv, QueueTypes
<1> QED  BY <1>3, <1>4, <1>5, <1>6, <1>7, <1>8 DEF AppInv, TaskInv

\* A mark that is lost needs no end; what else changes are the wait, the timer
\* and the token of one task.
LEMMA MarkEnds ==
    ASSUME TaskSizes, AppInv, NEW t \in AppTaskIds, task[t].at # "none",
           UNCHANGED <<kind, task, running, windows, busy, main, pidf, session, quit, acts, odd>>, told \subseteq told',
           busy = Idle, wait' \in [AppTaskIds -> 0..(MaxAttempts + 1)], timers' \subseteq timers,
           \A u \in AppTaskIds : u # t => wait'[u] = wait[u] /\ (u \in timers => u \in timers'),
           token' \in [AppKeys -> AppTaskIds \cup {None}], launching' \subseteq launching,
           \A b \in AppKeys : b # task[t].app => token'[b] = token[b],
           \/ task[t].app \notin launching'
           \/ /\ token' = token /\ timers' = timers
              /\ token[task[t].app] = t /\ IsLive(running[task[t].app]) /\ wait[t] > 0 => wait'[t] > 0
    PROVE  AppInv'
<1>1. Ending' = Ending /\ Closing' = Closing  BY QueueKept
<1>2. TaskTypes'  BY DEF AppInv, TaskInv, TaskTypes
<1>3. BusyInv'  BY IdleIs DEF BusyInv
<1>4. TableInv'  BY <1>1 DEF AppInv, TaskInv, TableInv
<1>5. OwnedInv' /\ PidInv'  BY <1>1 DEF AppInv, TaskInv, OwnedInv, PidInv, IsLive
<1>6. ASSUME NEW b \in launching', quit.at = "no" PROVE Endable(b)'
 <2>1. b \in AppKeys /\ Endable(b)  BY <1>6 DEF AppInv, TaskInv, MarkInv, TaskTypes
 <2>2. PICK u \in AppTaskIds :
           /\ task[u].app = b
           /\ \/ busy.t = u \/ u \in timers \/ task[u].at = "dead" \/ u \in Ending
              \/ wait[u] > 0 /\ token[b] = u /\ IsLive(running[b])
   BY <2>1 DEF Endable
 <2>3. CASE b = task[t].app
  <3>1. /\ token' = token /\ timers' = timers
        /\ token[b] = t /\ IsLive(running[b]) /\ wait[t] > 0 => wait'[t] > 0
    BY <1>6, <2>3
  <3>2. wait[u] > 0 /\ token[b] = u /\ IsLive(running[b]) => wait'[u] > 0  BY <3>1
  <3> QED  BY <1>1, <2>2, <3>1, <3>2 DEF Endable, IsLive
 <2>4. CASE b # task[t].app
  <3>1. u # t /\ token'[b] = token[b]  BY <2>1, <2>2, <2>4
  <3> QED  BY <1>1, <2>2, <3>1 DEF Endable, IsLive
 <2> QED  BY <2>3, <2>4
<1>7. MarkInv'  BY <1>6 DEF MarkInv
<1>8. SessionInv'  BY <1>1, SessionsKept DEF AppInv
<1>9. QueueTypes'  BY DEF AppInv, QueueTypes
<1> QED  BY <1>2, <1>3, <1>4, <1>5, <1>7, <1>8, <1>9 DEF AppInv, TaskInv

\* A look for the window.
LEMMA WaitForWindowKeeps == ASSUME TaskSizes, AppInv, NEW t \in AppTaskIds, WaitForWindow(t) PROVE AppInv'
<1>1. PICK a : a = task[t].app  OBVIOUS
<1>2. PICK mine \in BOOLEAN : mine <=> token[a] = t /\ IsLive(running[a])
 <2>1. (token[a] = t /\ IsLive(running[a])) \in BOOLEAN  OBVIOUS
 <2> QED  BY <2>1
<1>3. PICK over \in BOOLEAN : over <=> wait[t] > MaxAttempts  OBVIOUS
<1>4. PICK seen \in BOOLEAN : seen <=> windows \ task[t].base # {}  OBVIOUS
<1>5. /\ UNCHANGED <<kind, task, running, timers, windows, busy, main, pidf, session, quit, acts, odd>>
      /\ busy = Idle /\ wait[t] > 0 /\ told \subseteq told'
      /\ wait' = [wait EXCEPT ![t] = IF mine /\ ~over /\ ~seen THEN @ + 1 ELSE 0]
      /\ IF mine /\ (over \/ seen)
         THEN token' = [token EXCEPT ![a] = None] /\ launching' = launching \ {a}
         ELSE UNCHANGED <<token, launching>>
  BY <1>1, <1>2, <1>3, <1>4 DEF WaitForWindow, Free
<1>6. /\ wait \in [AppTaskIds -> 0..(MaxAttempts + 1)] /\ token \in [AppKeys -> AppTaskIds \cup {None}]
      /\ task[t].at # "none" /\ a \in AppKeys
  BY <1>1, <1>5 DEF AppInv, TaskInv, TaskTypes, TableInv
<1>7. PICK w \in 0..(MaxAttempts + 1) : w = (IF mine /\ ~over /\ ~seen THEN wait[t] + 1 ELSE 0)
 <2>1. PICK k \in 0..(MaxAttempts + 1) : k = wait[t]  BY <1>6
 <2>2. 0 \in 0..(MaxAttempts + 1) /\ (~over => k + 1 \in 0..(MaxAttempts + 1))
   BY <1>3, <2>1 DEF TaskSizes
 <2> QED  BY <2>1, <2>2
<1>8. /\ wait' \in [AppTaskIds -> 0..(MaxAttempts + 1)] /\ wait'[t] = w
      /\ \A u \in AppTaskIds : u # t => wait'[u] = wait[u]
  BY <1>5, <1>6, <1>7
<1>9. /\ token' \in [AppKeys -> AppTaskIds \cup {None}] /\ launching' \subseteq launching
      /\ \A b \in AppKeys : b # a => token'[b] = token[b]
 <2>1. CASE mine /\ (over \/ seen)  BY <1>5, <1>6, <2>1
 <2>2. CASE ~(mine /\ (over \/ seen))  BY <1>5, <1>6, <2>2
 <2> QED  BY <2>1, <2>2
<1>10. \/ a \notin launching'
       \/ /\ token' = token /\ timers' = timers
          /\ token[a] = t /\ IsLive(running[a]) /\ wait[t] > 0 => wait'[t] > 0
 <2>1. CASE mine /\ (over \/ seen)  BY <1>5, <2>1
 <2>2. CASE ~mine  BY <1>2, <1>5, <2>2
 <2>3. CASE mine /\ ~over /\ ~seen
  <3>1. w = wait[t] + 1 /\ wait[t] \in 0..(MaxAttempts + 1)  BY <1>6, <1>7, <2>3
  <3>2. wait'[t] > 0  BY <1>8, <3>1 DEF TaskSizes
  <3> QED  BY <1>5, <2>3, <3>2
 <2> QED  BY <2>1, <2>2, <2>3
<1> QED  BY <1>1, <1>5, <1>6, <1>8, <1>9, <1>10, MarkEnds

\* The timer of a Windows app.
LEMMA WineTimerKeeps == ASSUME TaskSizes, AppInv, NEW t \in AppTaskIds, WineTimer(t) PROVE AppInv'
<1>1. /\ UNCHANGED <<kind, task, running, token, wait, windows, busy, main, pidf, session, told, quit, acts, odd>>
      /\ busy = Idle /\ t \in timers /\ timers' = timers \ {t} /\ launching' = launching \ {task[t].app}
  BY DEF WineTimer, Free
<1>2. /\ wait \in [AppTaskIds -> 0..(MaxAttempts + 1)] /\ token \in [AppKeys -> AppTaskIds \cup {None}]
      /\ task[t].at # "none"
  BY <1>1 DEF AppInv, TaskInv, TaskTypes, TableInv
<1> QED  BY <1>1, <1>2, MarkEnds

\* An app ends.
LEMMA AppEndsKeeps == ASSUME TaskSizes, AppInv, NEW t \in AppTaskIds, AppEnds(t) PROVE AppInv'
<1>1. /\ UNCHANGED <<kind, tables, waiting, busy, main, pidf, session, told, quit, acts, odd>>
      /\ IsLive(t) /\ task' = [task EXCEPT ![t].at = "dead"]
  BY DEF AppEnds
<1>2. Ending' = Ending /\ Closing' = Closing  BY <1>1, QueueKept
<1>3. PICK k : k = [task[t] EXCEPT !.at = "dead"]  OBVIOUS
<1>4. k \in Tasks /\ k.at = "dead" /\ k.app = task[t].app /\ task \in [AppTaskIds -> Tasks] /\ task[t].at = "live"
  BY <1>1, <1>3 DEF AppInv, TaskInv, TaskTypes, Tasks, Stages, IsLive
<1>5. task' \in [AppTaskIds -> Tasks] /\ task'[t] = k /\ \A u \in AppTaskIds : u # t => task'[u] = task[u]
 <2>1. task' = [task EXCEPT ![t] = k]  BY <1>1, <1>3
 <2> QED  BY <1>4, <2>1
<1>6. \A u \in AppTaskIds : /\ task'[u].app = task[u].app
                            /\ task'[u].at = "live" => u # t /\ task[u].at = "live"
                            /\ task[u].at = "dead" => task'[u].at = "dead"
                            /\ task'[u].at = "dead" => u = t \/ task[u].at = "dead"
                            /\ task[u].at # "none" <=> task'[u].at # "none"
                            /\ task[u].at = "gone" => task'[u].at = "gone"
  BY <1>4, <1>5
<1>7. TaskTypes'  BY <1>1, <1>5 DEF AppInv, TaskInv, TaskTypes, tables, waiting
<1>8. BusyInv'
 <2>1. busy.step = "pid" => task'[busy.t].at \in {"live", "dead"} \/ busy.t \in Ending
   BY <1>4, <1>5 DEF AppInv, TaskInv, BusyInv
 <2> QED  BY <1>1, <1>2, <1>6, <2>1 DEF AppInv, TaskInv, BusyInv, IsLive, tables
<1>9. TableInv'
 <2>1. \A a \in AppKeys : running[a] \in AppTaskIds \cup {None}
   BY DEF AppInv, TaskInv, TaskTypes
 <2> QED  BY <1>1, <1>2, <1>6, <2>1 DEF AppInv, TaskInv, TableInv, tables, waiting
<1>10. OwnedInv'
 <2>1. CASE "relaunch" \in odd  BY <1>1, <2>1 DEF OwnedInv
 <2>2. CASE "relaunch" \notin odd /\ quit.at # "no"
   BY <1>1, <1>6, <2>2 DEF AppInv, TaskInv, OwnedInv, IsLive
 <2>3. CASE "relaunch" \notin odd /\ quit.at = "no"
  <3> SUFFICES ASSUME NEW u \in AppTaskIds, task'[u].at = "live"
               PROVE  /\ running[task[u].app] = u
                      /\ \A v \in AppTaskIds : task'[v].at = "dead" \/ v \in Ending => task[v].app # task[u].app
    BY <1>1, <1>2, <1>6, <2>3 DEF OwnedInv, IsLive, tables
  <3>1. IsLive(u) /\ u # t  BY <1>6 DEF IsLive
  <3>2. /\ running[task[u].app] = u /\ running[task[t].app] = t
        /\ \A v \in AppTaskIds : task[v].at = "dead" \/ v \in Ending => task[v].app # task[u].app
    BY <1>1, <2>3, <3>1 DEF AppInv, TaskInv, OwnedInv
  <3>3. task[t].app # task[u].app  BY <3>1, <3>2
  <3> QED  BY <1>6, <3>2, <3>3
 <2> QED  BY <2>1, <2>2, <2>3
<1>11. PidInv'  BY <1>1, <1>4, <1>5 DEF AppInv, TaskInv, TaskTypes, PidInv
<1>12. MarkInv'
 <2>1. ASSUME NEW b \in AppKeys, Endable(b) PROVE Endable(b)'
  <3>1. PICK u \in AppTaskIds :
            /\ task[u].app = b
            /\ \/ busy.t = u \/ u \in timers \/ task[u].at = "dead" \/ u \in Ending
               \/ wait[u] > 0 /\ token[b] = u /\ IsLive(running[b])
    BY <2>1 DEF Endable
  <3>2. CASE running[b] = t
   <4>1. task[t].app = b
    <5>1. running[b] # None  BY <3>2 DEF TaskSizes, None
    <5> QED  BY <3>2, <5>1 DEF AppInv, TaskInv, TableInv
   <4>2. task'[t].app = b /\ task'[t].at = "dead"  BY <1>4, <1>5, <4>1
   <4> QED  BY <4>2 DEF Endable
  <3>3. CASE running[b] # t
   <4>1. IsLive(running[b]) => running[b] \in AppTaskIds /\ task'[running[b]].at = "live"
     BY <1>5, <3>3 DEF IsLive
   <4> QED  BY <1>1, <1>2, <1>6, <3>1, <4>1 DEF Endable, IsLive, tables, waiting
  <3> QED  BY <3>2, <3>3
 <2> QED  BY <1>1, <2>1 DEF AppInv, TaskInv, TaskTypes, MarkInv, tables
<1>13. SessionInv'  BY <1>1, <1>2, SessionsKept DEF AppInv
<1>14. QueueTypes'  BY <1>1 DEF AppInv, QueueTypes
<1> QED  BY <1>7, <1>8, <1>9, <1>10, <1>11, <1>12, <1>13, <1>14 DEF AppInv, TaskInv

\* Its handler removes the PID file and posts a block.
LEMMA TerminationHandlerKeeps == ASSUME TaskSizes, AppInv, NEW t \in AppTaskIds, TerminationHandler(t) PROVE AppInv'
<1>1. /\ UNCHANGED <<kind, tables, wait, timers, busy, session, told, quit, acts, odd>>
      /\ task[t].at = "dead" /\ task' = [task EXCEPT ![t].at = "gone"] /\ windows' = windows \ {t}
      /\ pidf' = None /\ main' = Append(main, <<"ended", t>>)
  BY DEF TerminationHandler
<1>2. PICK b : b = <<"ended", t>>  OBVIOUS
<1>3. b \in Blocks /\ (\A x : b # <<"session", x>>) /\ (\A u : b = <<"ended", u>> <=> u = t)
  BY <1>2 DEF Blocks
<1>4. /\ main' \in Seq(Blocks) /\ Ending' = {u \in AppTaskIds : u \in Ending \/ b = <<"ended", u>>}
      /\ Closing' = {x \in Sessions : x \in Closing \/ b = <<"session", x>>}
  BY <1>1, <1>2, <1>3, PostIs DEF AppInv
<1>5. Closing' = Closing /\ \A u \in AppTaskIds : u \in Ending' <=> u \in Ending \/ u = t
  BY <1>3, <1>4 DEF Closing
<1>6. PICK k : k = [task[t] EXCEPT !.at = "gone"]  OBVIOUS
<1>7. k \in Tasks /\ k.at = "gone" /\ k.app = task[t].app /\ task \in [AppTaskIds -> Tasks]
  BY <1>6 DEF AppInv, TaskInv, TaskTypes, Tasks, Stages
<1>8. task' \in [AppTaskIds -> Tasks] /\ task'[t] = k /\ \A u \in AppTaskIds : u # t => task'[u] = task[u]
 <2>1. task' = [task EXCEPT ![t] = k]  BY <1>1, <1>6
 <2> QED  BY <1>7, <2>1
<1>9. \A u \in AppTaskIds : /\ task'[u].app = task[u].app
                            /\ task'[u].at = "live" <=> task[u].at = "live"
                            /\ task'[u].at = "dead" \/ u \in Ending' <=> task[u].at = "dead" \/ u \in Ending
                            /\ task[u].at # "none" <=> task'[u].at # "none"
                            /\ u \in Ending' => task'[u].at = "gone"
 <2>1. \A u \in AppTaskIds : u \in Ending => task[u].at = "gone"
   BY DEF AppInv, TaskInv, TableInv
 <2> QED  BY <1>1, <1>5, <1>7, <1>8, <2>1
<1>10. TaskTypes'  BY <1>1, <1>8 DEF AppInv, TaskInv, TaskTypes, tables
<1>11. BusyInv'
 <2>1. busy.step = "pid" => task'[busy.t].at \in {"live", "dead"} \/ busy.t \in Ending'
   BY <1>5, <1>8 DEF AppInv, TaskInv, BusyInv
 <2> QED  BY <1>1, <1>9, <2>1 DEF AppInv, TaskInv, BusyInv, IsLive, tables
<1>12. TableInv'
 <2>1. \A a \in AppKeys : running[a] \in AppTaskIds \cup {None}
   BY DEF AppInv, TaskInv, TaskTypes
 <2> QED  BY <1>1, <1>9, <2>1 DEF AppInv, TaskInv, TableInv, tables
<1>13. OwnedInv'  BY <1>1, <1>9 DEF AppInv, TaskInv, OwnedInv, IsLive, tables
<1>14. PidInv'  BY <1>1 DEF PidInv
<1>15. MarkInv'
 <2>1. ASSUME NEW a \in AppKeys, Endable(a) PROVE Endable(a)'
  <3>1. PICK u \in AppTaskIds :
            /\ task[u].app = a
            /\ \/ busy.t = u \/ u \in timers \/ task[u].at = "dead" \/ u \in Ending
               \/ wait[u] > 0 /\ token[a] = u /\ IsLive(running[a])
    BY <2>1 DEF Endable
  <3>2. IsLive(running[a]) => running[a] \in AppTaskIds /\ task'[running[a]].at = "live"
    BY <1>9 DEF IsLive
  <3>3. task[u].at = "dead" \/ u \in Ending => task'[u].at = "dead" \/ u \in Ending'  BY <1>9
  <3>4. task'[u].app = a  BY <1>9, <3>1
  <3> QED  BY <1>1, <3>1, <3>2, <3>3, <3>4 DEF Endable, IsLive, tables
 <2> QED  BY <1>1, <2>1 DEF AppInv, TaskInv, TaskTypes, MarkInv, tables
<1>16. SessionInv'  BY <1>1, <1>5, SessionsKept DEF AppInv
<1>17. QueueTypes'  BY <1>1, <1>4 DEF AppInv, QueueTypes
<1> QED  BY <1>10, <1>11, <1>12, <1>13, <1>14, <1>15, <1>16, <1>17 DEF AppInv, TaskInv

\* The block takes the app out of the tables.
LEMMA RunEndedKeeps == ASSUME TaskSizes, AppInv, RunEnded PROVE AppInv'
<1>1. main # <<>> /\ main' = Tail(main) /\ Head(main)[1] = "ended" /\ busy = Idle
  BY DEF RunEnded, Free
<1>2. PICK t : t = Head(main)[2]  OBVIOUS
<1>3. PICK a : a = task[t].app  OBVIOUS
<1>4. /\ UNCHANGED <<kind, task, waiting, busy, pidf, session, told, quit, acts, odd>>
      /\ token' = [token EXCEPT ![a] = None] /\ launching' = launching \ {a}
      /\ running' = [running EXCEPT ![a] = None]
  BY <1>2, <1>3 DEF RunEnded, MarksWithout
<1>5. /\ main' \in Seq(Blocks) /\ Head(main) \in Blocks /\ t \in Ending
      /\ \A u \in Ending' : u \in Ending
      /\ \A u \in Ending : u \in Ending' \/ Head(main) = <<"ended", u>>
      /\ \A s \in Closing' : s \in Closing
  BY <1>1, <1>2, TakeIs DEF AppInv
<1>6. \A u : Head(main) = <<"ended", u>> => u = t  BY <1>2
<1>7. t \in AppTaskIds /\ a \in AppKeys /\ task[t].at = "gone"
  BY <1>3, <1>5 DEF AppInv, TaskInv, TableInv, Ending
<1>8. /\ running' \in [AppKeys -> AppTaskIds \cup {None}] /\ token' \in [AppKeys -> AppTaskIds \cup {None}]
      /\ running'[a] = None
      /\ \A b \in AppKeys : b # a => running'[b] = running[b] /\ token'[b] = token[b]
  BY <1>4, <1>7 DEF AppInv, TaskInv, TaskTypes
<1>9. TaskTypes'  BY <1>4, <1>8 DEF AppInv, TaskInv, TaskTypes, waiting
<1>10. BusyInv'  BY <1>1, <1>4, IdleIs DEF BusyInv
<1>11. TableInv'
 <2>1. \A b \in AppKeys : running'[b] # None => b # a  BY <1>8
 <2>2. \A b \in AppKeys : running'[b] # None => task[running'[b]].app = b /\ task[running'[b]].at # "none"
   BY <1>8, <2>1 DEF AppInv, TaskInv, TableInv
 <2> QED  BY <1>4, <1>5, <2>2 DEF AppInv, TaskInv, TableInv, waiting
<1>12. OwnedInv'
 <2>1. CASE "relaunch" \in odd \/ quit.at # "no"
   BY <1>4, <2>1 DEF AppInv, TaskInv, OwnedInv, IsLive
 <2>2. CASE "relaunch" \notin odd /\ quit.at = "no"
  <3> SUFFICES ASSUME NEW u \in AppTaskIds, IsLive(u)
               PROVE  /\ running'[task[u].app] = u
                      /\ \A v \in AppTaskIds : task[v].at = "dead" \/ v \in Ending' => task[v].app # task[u].app
    BY <1>4, <2>2 DEF OwnedInv, IsLive
  <3>1. /\ running[task[u].app] = u
        /\ \A v \in AppTaskIds : task[v].at = "dead" \/ v \in Ending => task[v].app # task[u].app
    BY <2>2 DEF AppInv, TaskInv, OwnedInv
  <3>2. task[u].app # a /\ task[u].app \in AppKeys
    BY <1>3, <1>5, <1>7, <3>1 DEF AppInv, TaskInv, TableInv, IsLive
  <3> QED  BY <1>5, <1>8, <3>1, <3>2
 <2> QED  BY <2>1, <2>2
<1>13. PidInv'  BY <1>4 DEF AppInv, TaskInv, PidInv
<1>14. MarkInv'
 <2>1. ASSUME NEW b \in AppKeys, b # a, Endable(b) PROVE Endable(b)'
  <3>1. PICK u \in AppTaskIds :
            /\ task[u].app = b
            /\ \/ busy.t = u \/ u \in timers \/ task[u].at = "dead" \/ u \in Ending
               \/ wait[u] > 0 /\ token[b] = u /\ IsLive(running[b])
    BY <2>1 DEF Endable
  <3>2. u # t /\ (u \in Ending => u \in Ending')  BY <1>3, <1>5, <1>6, <2>1, <3>1
  <3> QED  BY <1>4, <1>8, <2>1, <3>1, <3>2 DEF Endable, IsLive, waiting
 <2>2. \A b \in launching' : b \in AppKeys /\ b # a /\ (quit.at = "no" => Endable(b))
   BY <1>4 DEF AppInv, TaskInv, TaskTypes, MarkInv
 <2>3. \A b \in launching' : quit.at = "no" => Endable(b)'  BY <2>1, <2>2
 <2> QED  BY <1>4, <2>3 DEF MarkInv
<1>15. SessionInv'
 <2>1. SessionTypes' /\ SessionsKnown'
   BY <1>4 DEF AppInv, SessionInv, SessionTypes, SessionsKnown, SessionLive, session
 <2>2. \A s \in Closing' : sess'[s] = "gone"  BY <1>4, <1>5 DEF AppInv, SessionInv, session
 <2> QED  BY <2>1, <2>2 DEF SessionInv
<1>16. QueueTypes'  BY <1>4, <1>5 DEF AppInv, QueueTypes
<1> QED  BY <1>9, <1>10, <1>11, <1>12, <1>13, <1>14, <1>15, <1>16 DEF AppInv, TaskInv

\* Quitting tells the apps to end.
LEMMA QuitKeeps == ASSUME TaskSizes, AppInv, Quit PROVE AppInv'
<1>1. /\ UNCHANGED <<kind, task, launching, token, waiting, busy, main, pidf, sess, dbus, prestart, acts, odd>>
      /\ quit.at = "no" /\ busy = Idle /\ quit' = [at |-> "clients", session |-> held]
      /\ told' = told \cup {App(t) : t \in {running[a] : a \in AppKeys} \cap {t \in AppTaskIds : IsLive(t)}}
      /\ running' = [a \in AppKeys |-> None] /\ held' = None
  BY DEF Quit, Free
<1>2. Ending' = Ending /\ Closing' = Closing  BY <1>1, QueueKept
<1>3. running' \in [AppKeys -> AppTaskIds \cup {None}] /\ \A a \in AppKeys : running'[a] = None
  BY <1>1
<1>4. TaskTypes'  BY <1>1, <1>3 DEF AppInv, TaskInv, TaskTypes, waiting
<1>5. BusyInv'  BY <1>1, IdleIs DEF BusyInv
<1>6. TableInv'  BY <1>1, <1>2, <1>3 DEF AppInv, TaskInv, TableInv, waiting
<1>7. quit'.at = "clients" /\ quit'.session = held /\ told \subseteq told'  BY <1>1
<1>8. OwnedInv'
 <2> SUFFICES ASSUME "relaunch" \notin odd, NEW t \in AppTaskIds, IsLive(t) PROVE App(t) \in told'
   BY <1>1, <1>7 DEF OwnedInv, IsLive, App
 <2>1. running[task[t].app] = t /\ task[t].app \in AppKeys
   BY <1>1 DEF AppInv, TaskInv, OwnedInv, TableInv, IsLive
 <2>2. t \in {running[a] : a \in AppKeys} \cap {u \in AppTaskIds : IsLive(u)}  BY <2>1
 <2> QED  BY <1>1, <2>2
<1>9. PidInv' /\ MarkInv'  BY <1>1, <1>7 DEF AppInv, TaskInv, PidInv, MarkInv
<1>10. SessionTypes'  BY <1>1, <1>7 DEF AppInv, SessionInv, SessionTypes, Quits
<1>11. SessionsKnown'  BY <1>1, <1>7 DEF AppInv, SessionInv, SessionsKnown, SessionLive, Session
<1>12. \A s \in Closing' : sess'[s] = "gone"  BY <1>1, <1>2 DEF AppInv, SessionInv
<1>13. QueueTypes'  BY <1>1 DEF AppInv, QueueTypes
<1> QED
  BY <1>4, <1>5, <1>6, <1>8, <1>9, <1>10, <1>11, <1>12, <1>13 DEF AppInv, TaskInv, SessionInv

----
(* The invariant. *)

\* No app and no session has been started.
LEMMA AppInit == ASSUME TaskSizes, Init PROVE AppInv
<1>1. Ending = {} /\ Closing = {} /\ main \in Seq(Blocks)
 <2>1. main = <<>>  BY Zenon DEF Init
 <2>2. main \in Seq(Blocks) /\ DOMAIN main = {}  BY <2>1
 <2> QED  BY <2>2 DEF Ending, Closing
<1>2. PICK k : k = [app |-> NoApp, at |-> "none", base |-> {}]  OBVIOUS
<1>3. k \in Tasks /\ k.at = "none"  BY <1>2 DEF Tasks, Stages
<1>4. task = [t \in AppTaskIds |-> k]  BY <1>2 DEF Init, NoApp
<1>5. TaskTypes
 <2>1. 0 \in 0..(MaxAttempts + 1)  BY DEF TaskSizes
 <2>2. kind \in {"linux", "wine"} /\ launching = {} /\ timers = {} /\ windows = {} /\ busy = Idle /\ pidf = None
   BY Zenon DEF Init
 <2>3. /\ running = [a \in AppKeys |-> None] /\ token = [a \in AppKeys |-> None]
       /\ wait = [t \in AppTaskIds |-> 0]
   BY Zenon DEF Init
 <2> QED  BY <1>3, <1>4, <2>1, <2>2, <2>3, IdleIs DEF TaskTypes
<1>6. /\ busy = Idle /\ \A a \in AppKeys : running[a] = None
      /\ timers = {} /\ (\A t \in AppTaskIds : wait[t] = 0) /\ pidf = None /\ launching = {} /\ odd = {}
  BY DEF Init
<1>7. BusyInv /\ TableInv  BY <1>1, <1>3, <1>4, <1>6, IdleIs DEF BusyInv, TableInv
<1>8. OwnedInv /\ PidInv /\ MarkInv  BY <1>3, <1>4, <1>6 DEF OwnedInv, PidInv, MarkInv, IsLive
<1>9. /\ sess = [s \in Sessions |-> "none"] /\ held = None /\ dbus = "absent" /\ prestart = "no"
      /\ quit = [at |-> "no", session |-> None] /\ acts = 0
  BY Zenon DEF Init
<1>10. SessionTypes /\ SessionsKnown
  BY <1>9 DEF SessionTypes, SessionsKnown, SessionLive, Stages, Quits
<1>11. QueueTypes  BY <1>1, <1>6, <1>9 DEF QueueTypes, TaskSizes
<1> QED  BY <1>1, <1>5, <1>7, <1>8, <1>10, <1>11 DEF AppInv, TaskInv, SessionInv

\* A step keeps it.
LEMMA AppNext == ASSUME TaskSizes, AppInv, Next PROVE AppInv'
<1>1. CASE Prestart \/ CompositorReady \/ RunPrestart \/ PackagesInstalled \/ DbusReady \/ RunSessionEnded
  BY <1>1, PrestartKeeps, CompositorReadyKeeps, RunPrestartKeeps, DbusKeeps, RunSessionEndedKeeps
<1>2. CASE \E s \in Sessions : SessionEnds(s) \/ SessionHandler(s)
  BY <1>2, SessionEndsKeeps, SessionHandlerKeeps
<1>3. CASE LaunchFails \/ GetSession \/ StartLinuxTask \/ StartWineTask \/ WritePid \/ RunEnded
  BY <1>3, LaunchFailsKeeps, GetSessionKeeps, StartKeeps, WritePidKeeps, RunEndedKeeps
<1>4. CASE \E a \in AppKeys : OpenApp(a) \/ StopApp(a)  BY <1>4, OpenAppKeeps, SmallStepsKeep
<1>5. CASE \E t \in AppTaskIds :
              ShowsWindow(t) \/ WaitForWindow(t) \/ WineTimer(t) \/ AppEnds(t) \/ TerminationHandler(t)
  BY <1>5, SmallStepsKeep, WaitForWindowKeeps, WineTimerKeeps, AppEndsKeeps, TerminationHandlerKeeps
<1>6. CASE DeletePrefix \/ Quit \/ QuitSessions \/ QuitEnds
  BY <1>6, DeletePrefixKeeps, QuitKeeps, QuitSessionsKeeps
<1> QED  BY <1>1, <1>2, <1>3, <1>4, <1>5, <1>6 DEF Next

\* Stuttering keeps it.
LEMMA AppStutter == ASSUME AppInv, UNCHANGED vars PROVE AppInv'
<1>1. UNCHANGED <<kind, task, tables, waiting, busy, main, pidf, session, told, quit, acts, odd>>
  BY DEF vars, tables, waiting, session
<1>2. Ending' = Ending /\ Closing' = Closing  BY <1>1, QueueKept
<1>3. TaskInv'  BY <1>1, <1>2, TasksKept DEF AppInv
<1>4. SessionInv'  BY <1>1, <1>2, SessionsKept DEF AppInv
<1> QED  BY <1>1, <1>3, <1>4 DEF AppInv, QueueTypes

\* It gives the types and the properties.
LEMMA AppInvGives == ASSUME TaskSizes, AppInv PROVE TypeOK /\ TasksSound
<1>1. AppsKnown  BY DEF AppInv, TaskInv, OwnedInv, AppsKnown
<1>2. LaunchingEnds
 <2>1. \A t : (\E i \in DOMAIN main : main[i] = <<"ended", t>>) <=> <<"ended", t>> \in {main[i] : i \in DOMAIN main}
   OBVIOUS
 <2> QED  BY <2>1 DEF AppInv, TaskInv, MarkInv, Endable, Ending, LaunchingEnds
<1>3. PidFileCleared  BY DEF AppInv, TaskInv, TaskTypes, PidInv, PidFileCleared
<1>4. TasksSound  BY <1>1, <1>2, <1>3 DEF AppInv, SessionInv, TasksSound
<1>5. \A t \in AppTaskIds : /\ task[t].app \in AppKeys \cup {""} /\ task[t].base \subseteq AppTaskIds
                            /\ task[t].at \in {"none", "live", "dead", "gone"}
  BY DEF AppInv, TaskInv, TaskTypes, Tasks, Stages, NoApp
<1>6. busy.step \in {"idle", "session", "start", "pid"}
  BY DEF AppInv, TaskInv, TaskTypes, Handlers
<1>7. sess \in [Sessions -> {"none", "live", "dead", "gone"}] /\ held \in Sessions \cup {None}
      /\ dbus \in {"absent", "expected", "ready"} /\ prestart \in {"no", "waiting", "posted"}
      /\ quit \in [at : {"no", "clients", "sessions", "ended"}, session : Sessions \cup {None}]
  BY DEF AppInv, SessionInv, SessionTypes, Stages, Quits
<1>8. TypeOK  BY <1>5, <1>6, <1>7 DEF AppInv, TaskInv, TaskTypes, QueueTypes, TypeOK
<1> QED  BY <1>4, <1>8

\* The manager can stop every process of an app and every session launcher it
\* has started, an app shown as launching has something under way that ends
\* this, and the PID file goes with the last app, but for the orders AppTasks
\* keeps in odd (a start before the block of the earlier task ran, a session that
\* starts after the quit, an app that ends before its number is written); for any
\* number of apps, tasks and sessions.
THEOREM TasksStaySound == ASSUME TaskSizes PROVE Spec => [](TypeOK /\ TasksSound)
<1>1. Init => AppInv  BY AppInit
<1>2. AppInv /\ [Next]_vars => AppInv'  BY AppNext, AppStutter
<1>3. AppInv => TypeOK /\ TasksSound  BY AppInvGives
<1> QED  BY <1>1, <1>2, <1>3, PTL DEF Spec

----
(* The prefix store.                                                       *)

CONSTANTS Procs, Roots, Real, StoreNames, DefaultRoot, Within, MaxOps
VARIABLES dir, named, data, registry, entries, legacy, op, ops, last

Store == INSTANCE PrefixStore

\* Every name has a default directory, every path leads to one, and there are
\* finitely many.
StoreSizes ==
    /\ IsFiniteSet(Roots) /\ Real \in [Roots -> Roots]
    /\ StoreNames # {} /\ DefaultRoot \in [StoreNames -> Roots] /\ MaxOps \in Nat

Updating == {"register", "truncate", "write"}
Operations ==
    [kind : {"idle", "open", "clone", "delete"},
     at : {"", "migrate", "migrated", "open", "clone", "copy", "toml", "delete"} \cup Updating,
     next : {"", "open", "clone", "delete", "truncate"}, root : Roots \cup {Store!NoRoot},
     name : StoreNames \cup {Store!NoName}, src : Roots \cup {Store!NoRoot},
     replace : BOOLEAN, read : Seq(Store!Entry), alone : BOOLEAN]

\* No root is in es twice, and no name unless names may be.
Unique(es, leg) ==
    \A i, j \in DOMAIN es : i # j => /\ leg \/ es[i].name # es[j].name
                                     /\ es[i].root # es[j].root

StoreTypes ==
    /\ dir \in [Roots -> {"none", "dir", "prefix"}] /\ named \in [Roots -> StoreNames \cup {Store!NoName}]
    /\ data \in [Roots -> Roots \cup {Store!NoRoot}]
    /\ \A r \in Roots : dir[r] = "prefix" => named[r] \in StoreNames
RegistryTypes ==
    /\ registry \in {"absent", "torn", "whole"} /\ entries \in Seq(Store!Entry)
    /\ legacy \in BOOLEAN /\ (registry = "absent" => legacy) /\ Unique(entries, legacy)

\* The step an operation is at, or goes to once it has written the registry it
\* made.
Step(o) == IF o.at \in {"migrate", "migrated"} THEN o.next ELSE o.at

\* An operation at a step that operations of its kind have.
Known(o, leg) ==
    /\ o \in Operations /\ Unique(o.read, leg)
    /\ \/ o = Store!Idle
       \/ /\ o.root \in Roots /\ o.name \in StoreNames
          /\ \/ o.kind = "open" /\ Step(o) \in {"open", "toml"} \cup Updating
             \/ /\ o.kind = "clone" /\ Step(o) \in {"clone", "copy", "toml"} \cup Updating
                /\ o.src \in Roots
             \/ o.kind = "delete" /\ Step(o) \in {"delete"} \cup Updating

\* What an operation that nothing came between has done so far.  The source of
\* a clone is there when it is copied, unless a link led from the destination
\* to it.
Fits(o, dirs, datas) ==
    /\ o.kind = "open" => /\ Step(o) = "toml" => dirs[Real[o.root]] # "none"
                          /\ Step(o) \in Updating => dirs[Real[o.root]] = "prefix"
    /\ o.kind = "clone" => /\ Step(o) = "copy" =>
                                  /\ dirs[Real[o.src]] \in {"none", "prefix"}
                                  /\ Real[o.root] = o.root => dirs[Real[o.src]] = "prefix"
                           /\ Step(o) \in {"toml"} \cup Updating =>
                                  /\ dirs[Real[o.root]] = "prefix" /\ dirs[Real[o.src]] = "prefix"
                                  /\ datas[Real[o.root]] = datas[Real[o.src]]
    /\ o.kind = "delete" /\ Step(o) \in Updating => dirs[Real[o.root]] = "none"

\* An operation that nothing came between has the store to itself.
Operating ==
    /\ op \in [Procs -> Operations] /\ ops \in 0..MaxOps
    /\ \A p \in Procs :
           /\ Known(op[p], legacy) /\ (op[p].alone => Fits(op[p], dir, data))
           /\ op[p].alone /\ op[p] # Store!Idle => \A q \in Procs : q # p => op[q] = Store!Idle

\* A clone that just succeeded holds what its source holds.
ClonesHold ==
    last.kind = "clone" => dir[Real[last.src]] = "prefix" /\ data[Real[last.root]] = data[Real[last.src]]

StoreInv == StoreTypes /\ RegistryTypes /\ Operating /\ Store!OperationsComplete /\ ClonesHold

----
\* A set that has 0, and with a number the next one, has them all.
LEMMA Induction ==
    ASSUME NEW S, 0 \in S, \A n \in Nat : n \in S => n + 1 \in S
    PROVE  Nat \subseteq S
<1> SUFFICES ASSUME ~(Nat \subseteq S) PROVE FALSE  OBVIOUS
<1>1. PICK T : T = {n \in Nat : n \notin S}  OBVIOUS
<1>2. T \in SUBSET Nat /\ T # {}  BY <1>1
<1>3. PICK x \in T : \A y \in T : x <= y  BY <1>2, LeastNumber
<1>4. x \in Nat /\ x \notin S /\ x # 0  BY <1>1
<1>5. PICK m \in Nat : x = m + 1
 <2>1. x - 1 \in Nat /\ x = (x - 1) + 1  BY <1>4
 <2> QED  BY <2>1
<1>6. m \in S  BY <1>1, <1>3, <1>5
<1> QED  BY <1>4, <1>5, <1>6
\* END-INDUCTION

----
(* Entries of other names and roots. *)

\* The function through which Without is defined.
IsKept(f, m, es, name, root) ==
    f = [n \in 0..m |->
            IF n = 0 THEN <<>>
            ELSE IF es[n].name # name /\ es[n].root # root THEN Append(f[n - 1], es[n])
            ELSE f[n - 1]]

\* What is kept of the first n entries: entries that differ from each other as
\* those do, of other names and roots.
KeptOf(s, es, n, name, root) ==
    /\ s \in Seq(Store!Entry) /\ Unique(s, legacy)
    /\ \A i \in DOMAIN s : /\ s[i].name # name /\ s[i].root # root
                           /\ \E k \in 1..n : s[i] = es[k]

\* There is such a function.
LEMMA KeptExists ==
    ASSUME NEW es, NEW name, NEW root
    PROVE  \A m \in Nat : \E f : IsKept(f, m, es, name, root)
<1> DEFINE Next1(v, n) == IF es[n].name # name /\ es[n].root # root THEN Append(v, es[n]) ELSE v
<1> DEFINE Has(f, m) == f = [n \in 0..m |-> IF n = 0 THEN <<>> ELSE Next1(f[n - 1], n)]
<1> HIDE DEF Next1
<1>1. PICK S : S = {m \in Nat : \E f : Has(f, m)}  OBVIOUS
<1>2. 0 \in S
 <2>1. PICK f : f = [n \in 0..0 |-> <<>>]  OBVIOUS
 <2>2. \A n \in 0..0 : n = 0  OBVIOUS
 <2>3. Has(f, 0)  BY <2>1, <2>2
 <2> QED  BY <1>1, <2>3
<1>3. ASSUME NEW m \in Nat, m \in S PROVE m + 1 \in S
 <2>1. PICK f : Has(f, m)  BY <1>1, <1>3
 <2>2. PICK h : h = [n \in 0..m + 1 |-> IF n = m + 1 THEN Next1(f[m], m + 1) ELSE f[n]]  OBVIOUS
 <2>3. \A n \in 0..m : n \in 0..m + 1 /\ n # m + 1 /\ h[n] = f[n]
  <3>1. \A n \in 0..m : n \in 0..m + 1 /\ n # m + 1  OBVIOUS
  <3> QED  BY <2>2, <3>1
 <2>4. ASSUME NEW n \in 0..m + 1
       PROVE  h[n] = IF n = 0 THEN <<>> ELSE Next1(h[n - 1], n)
  <3>1. CASE n = m + 1
   <4>1. n # 0 /\ n - 1 = m /\ m \in 0..m  BY <3>1
   <4>2. h[n - 1] = f[m]  BY <2>3, <4>1
   <4> QED  BY <2>2, <3>1, <4>1, <4>2
  <3>2. CASE n # m + 1 /\ n # 0
   <4>1. n \in 0..m /\ n - 1 \in 0..m  BY <3>2
   <4>2. f[n] = Next1(f[n - 1], n)  BY <2>1, <3>2, <4>1
   <4> QED  BY <2>3, <3>2, <4>1, <4>2
  <3>3. CASE n = 0
   <4>1. n \in 0..m  BY <3>3
   <4>2. f[n] = <<>>  BY <2>1, <3>3, <4>1
   <4> QED  BY <2>3, <3>3, <4>1, <4>2
  <3> QED  BY <3>1, <3>2, <3>3
 <2>5. h = [n \in 0..m + 1 |-> h[n]]  BY <2>2
 <2>6. Has(h, m + 1)  BY <2>4, <2>5
 <2> QED  BY <1>1, <2>6
<1>4. Nat \subseteq S  BY <1>2, <1>3, Induction
<1> QED
 <2>1. \A m \in Nat : \E f : Has(f, m)  BY <1>1, <1>4
 <2>2. \A f, m : Has(f, m) => IsKept(f, m, es, name, root)  BY Zenon DEF Next1, IsKept
 <2> HIDE DEF Has
 <2> QED  BY <2>1, <2>2, Zenon

\* One more entry is looked at.
LEMMA KeptGrows ==
    ASSUME NEW es \in Seq(Store!Entry), Unique(es, legacy), NEW name, NEW root, NEW n \in Nat,
         n + 1 \in 1..Len(es),
           NEW s, KeptOf(s, es, n, name, root), NEW t,
           t = IF es[n + 1].name # name /\ es[n + 1].root # root THEN Append(s, es[n + 1]) ELSE s
    PROVE  KeptOf(t, es, n + 1, name, root)
<1>1. \A k \in 1..n : k \in 1..n + 1 /\ k \in DOMAIN es /\ k # n + 1  OBVIOUS
<1>2. CASE es[n + 1].name # name /\ es[n + 1].root # root
 <2>1. PICK e : e = es[n + 1]  OBVIOUS
 <2>2. e \in Store!Entry /\ e.name # name /\ e.root # root /\ t = Append(s, e)  BY <2>1, <1>2
 <2>3. PICK l : l = Len(s)  OBVIOUS
 <2>4. s \in Seq(Store!Entry) /\ l \in Nat /\ DOMAIN s = 1..l  BY <2>3 DEF KeptOf
 <2>5. t \in Seq(Store!Entry) /\ DOMAIN t = 1..l + 1 /\ t[l + 1] = e /\ \A i \in 1..l : t[i] = s[i]
   BY <2>2, <2>3, <2>4, AppendProperties
 <2>6. \A i \in DOMAIN t : i = l + 1 \/ i \in 1..l  BY <2>4, <2>5
 <2>7. \A i \in 1..l : /\ s[i].name # name /\ s[i].root # root /\ \E k \in 1..n : s[i] = es[k]
   BY <2>4 DEF KeptOf
 <2>8. \A i \in 1..l : /\ legacy \/ s[i].name # e.name
                       /\ s[i].root # e.root
  <3> SUFFICES ASSUME NEW i \in 1..l
               PROVE  (legacy \/ s[i].name # e.name) /\ s[i].root # e.root
    OBVIOUS
  <3>1. PICK k \in 1..n : s[i] = es[k]  BY <2>7
  <3>2. k \in DOMAIN es /\ n + 1 \in DOMAIN es /\ k # n + 1  BY <1>1
  <3>3. (legacy \/ es[k].name # es[n + 1].name) /\ es[k].root # es[n + 1].root
    BY <3>2 DEF Unique
  <3> QED  BY <2>1, <3>1, <3>3
 <2>9. Unique(t, legacy)
  <3> SUFFICES ASSUME NEW i \in DOMAIN t, NEW j \in DOMAIN t, i # j
               PROVE  (legacy \/ t[i].name # t[j].name) /\ t[i].root # t[j].root
    BY DEF Unique
  <3>1. CASE i \in 1..l /\ j \in 1..l  BY <2>4, <2>5, <3>1 DEF KeptOf, Unique
  <3>2. CASE i = l + 1 /\ j \in 1..l  BY <2>5, <2>8, <3>2
  <3>3. CASE j = l + 1 /\ i \in 1..l  BY <2>5, <2>8, <3>3
  <3> QED  BY <2>6, <3>1, <3>2, <3>3
 <2>10. \A i \in DOMAIN t : /\ t[i].name # name /\ t[i].root # root
                            /\ \E k \in 1..n + 1 : t[i] = es[k]
  <3> SUFFICES ASSUME NEW i \in DOMAIN t
               PROVE  t[i].name # name /\ t[i].root # root /\ \E k \in 1..n + 1 : t[i] = es[k]
    OBVIOUS
  <3>1. CASE i = l + 1  BY <2>1, <2>2, <2>5, <3>1
  <3>2. CASE i \in 1..l  BY <2>5, <2>7, <3>2, <1>1
  <3> QED  BY <2>6, <3>1, <3>2
 <2> QED  BY <2>5, <2>9, <2>10 DEF KeptOf
<1>3. CASE ~(es[n + 1].name # name /\ es[n + 1].root # root)
 <2>1. t = s  BY <1>3
 <2> QED  BY <2>1, <1>1 DEF KeptOf
<1> QED  BY <1>2, <1>3

\* Without leaves entries of other names and roots, each of them once.
LEMMA WithoutIs ==
    ASSUME NEW es \in Seq(Store!Entry), Unique(es, legacy), NEW name, NEW root
    PROVE  KeptOf(Store!Without(es, name, root), es, Len(es), name, root)
<1>1. PICK m \in Nat : m = Len(es)  OBVIOUS
<1>2. PICK g : g = CHOOSE h : IsKept(h, Len(es), es, name, root)  OBVIOUS
<1>3. Store!Without(es, name, root) = g[m]  BY <1>1, <1>2 DEF Store!Without, IsKept
<1>4. IsKept(g, m, es, name, root)
 <2>1. \E h : IsKept(h, m, es, name, root)  BY KeptExists, Zenon
 <2>2. g = CHOOSE h : IsKept(h, m, es, name, root)  BY <1>1, <1>2
 <2> QED  BY <2>1, <2>2, Zenon
<1>5. g[0] = <<>> /\ \A n \in 0..m : n # 0 =>
          g[n] = IF es[n].name # name /\ es[n].root # root THEN Append(g[n - 1], es[n]) ELSE g[n - 1]
 <2>1. 0 \in 0..m  OBVIOUS
 <2>2. g = [n \in 0..m |->
               IF n = 0 THEN <<>>
               ELSE IF es[n].name # name /\ es[n].root # root THEN Append(g[n - 1], es[n])
               ELSE g[n - 1]]
   BY <1>1, <1>4, Zenon DEF IsKept
 <2>3. g[0] = <<>>  BY <2>1, <2>2, Zenon
 <2> QED  BY <2>2, <2>3, Zenon
<1>6. PICK S : S = {n \in Nat : n <= m => KeptOf(g[n], es, n, name, root)}  OBVIOUS
<1>7. 0 \in S
 <2>1. <<>> \in Seq(Store!Entry) /\ DOMAIN <<>> = {}  OBVIOUS
 <2>2. KeptOf(<<>>, es, 0, name, root)  BY <2>1 DEF KeptOf, Unique
 <2> QED  BY <2>2, <1>5, <1>6
<1>8. ASSUME NEW n \in Nat, n \in S PROVE n + 1 \in S
 <2> SUFFICES ASSUME n + 1 <= m
              PROVE  KeptOf(g[n + 1], es, n + 1, name, root)
   BY <1>6
 <2>1. KeptOf(g[n], es, n, name, root)  BY <1>6, <1>8
 <2>2. n + 1 \in 0..m /\ n + 1 # 0 /\ (n + 1) - 1 = n /\ n + 1 \in 1..Len(es)  BY <1>1
 <2>3. g[n + 1] = IF es[n + 1].name # name /\ es[n + 1].root # root
                  THEN Append(g[n], es[n + 1]) ELSE g[n]
   BY <2>2, <1>5
 <2> QED  BY <2>1, <2>2, <2>3, KeptGrows
<1>9. m \in S  BY <1>7, <1>8, Induction
<1>10. KeptOf(g[m], es, m, name, root)  BY <1>6, <1>9
<1> QED  BY <1>1, <1>3, <1>10

----
(* The registry as it is read. *)

\* What a migration registers: each prefix in prefixes/, under its stored name.
LEMMA MigratedIs ==
    ASSUME StoreSizes, StoreTypes
    PROVE  /\ Store!Migrated \in Seq(Store!Entry)
           /\ \A i, j \in DOMAIN Store!Migrated : i # j => Store!Migrated[i].root # Store!Migrated[j].root
<1>1. PICK Q : Q = {q \in Roots : dir[Real[q]] = "prefix" /\ \E n \in StoreNames : DefaultRoot[n] = q}
  OBVIOUS
<1>2. PICK S : S = {[name |-> named[Real[r]], root |-> r] : r \in Q}  OBVIOUS
<1>3. Store!Migrated = Store!SetToSeq(S)  BY <1>1, <1>2 DEF Store!Migrated
<1>4. \A r \in Q : r \in Roots /\ named[Real[r]] \in StoreNames
  BY <1>1 DEF StoreTypes, StoreSizes
<1>5. \A e \in S : e \in Store!Entry /\ e.root \in Roots /\ e = [name |-> named[Real[e.root]], root |-> e.root]
  BY <1>2, <1>4 DEF Store!Entry
<1>6. IsFiniteSet(S)
 <2>1. PICK f : f = [e \in S |-> e.root]  OBVIOUS
 <2>2. f \in [S -> Roots]  BY <1>5, <2>1
 <2>3. \A d, e \in S : f[d] = f[e] => d = e  BY <1>5, <2>1
 <2>4. f \in Injection(S, Roots)  BY <2>2, <2>3 DEF Injection, IsInjective
 <2> QED  BY <2>4, FS_Injection DEF StoreSizes
<1>7. PICK k : k = Cardinality(S)  OBVIOUS
<1>8. k \in Nat /\ \E f \in [1..k -> S] : IsInjective(f)
 <2>1. k \in Nat /\ ExistsBijection(1..k, S)  BY <1>6, <1>7, FS_CardinalityType
 <2> QED  BY <2>1 DEF ExistsBijection, Bijection, Injection
<1>9. PICK g : g = CHOOSE f \in [1..k -> S] : IsInjective(f)  OBVIOUS
<1>10. g \in [1..k -> S] /\ IsInjective(g)  BY <1>8, <1>9
<1>11. Store!Migrated = g
 <2>1. k = Store!Cardinality(S)  BY <1>7 DEF Store!Cardinality, Cardinality
 <2>2. \A f : Store!IsInjective(f) <=> IsInjective(f)  BY DEF Store!IsInjective, IsInjective
 <2>3. Store!SetToSeq(S) = CHOOSE f \in [1..k -> S] : Store!IsInjective(f)
   BY <2>1 DEF Store!SetToSeq
 <2> QED  BY <1>3, <1>9, <2>2, <2>3
<1>12. g \in Seq(Store!Entry) /\ DOMAIN g = 1..k  BY <1>5, <1>8, <1>10
<1>13. \A i, j \in 1..k : i # j => g[i] \in S /\ g[j] \in S /\ g[i] # g[j]
  BY <1>10, <1>12 DEF IsInjective
<1>14. \A i, j \in 1..k : i # j => g[i].root # g[j].root  BY <1>5, <1>13
<1> QED  BY <1>11, <1>12, <1>14

\* A registry that is read lists no root twice, and but for a migrated one no name.
LEMMA RegisteredIs ==
    ASSUME StoreSizes, StoreTypes, RegistryTypes
    PROVE  Store!Registered \in Seq(Store!Entry) /\ Unique(Store!Registered, legacy)
<1>1. CASE registry = "absent"
 <2>1. Store!Registered = Store!Migrated /\ legacy  BY <1>1 DEF Store!Registered, RegistryTypes
 <2>2. PICK m : m = Store!Migrated  OBVIOUS
 <2>3. m \in Seq(Store!Entry) /\ \A i, j \in DOMAIN m : i # j => m[i].root # m[j].root
   BY <2>2, MigratedIs
 <2> QED  BY <2>1, <2>2, <2>3 DEF Unique
<1>2. CASE registry # "absent"  BY <1>2 DEF Store!Registered, RegistryTypes
<1> QED  BY <1>1, <1>2

\* A registry that is not touched stays.
LEMMA RegistryKept ==
    ASSUME RegistryTypes, legacy' = legacy, registry' = registry, entries' = entries
    PROVE  RegistryTypes'
  BY DEF RegistryTypes, Unique

\* A name resolves to a directory.
LEMMA ResolveIs ==
    ASSUME StoreSizes, StoreTypes, RegistryTypes, NEW name \in StoreNames
    PROVE  Store!Resolve(name) \in Roots
<1>1. PICK es : es = Store!Registered  OBVIOUS
<1>2. es \in Seq(Store!Entry)  BY <1>1, RegisteredIs
<1>3. \A e \in Store!Range(es) : e \in Store!Entry /\ e.root \in Roots
 <2>1. \A i \in DOMAIN es : es[i] \in Store!Entry  BY <1>2
 <2>2. \A e \in Store!Entry : e.root \in Roots  BY DEF Store!Entry
 <2> QED  BY <2>1, <2>2 DEF Store!Range
<1>4. Store!Found(name) \subseteq Store!Range(es)  BY <1>1 DEF Store!Found
<1>5. DefaultRoot[name] \in Roots  BY DEF StoreSizes
<1>6. CASE Store!Found(name) = {}  BY <1>5, <1>6 DEF Store!Resolve
<1>7. CASE Store!Found(name) # {}
 <2>1. PICK e : e = CHOOSE d \in Store!Found(name) : TRUE  OBVIOUS
 <2>2. e \in Store!Found(name)  BY <2>1, <1>7
 <2>3. Store!Resolve(name) = e.root  BY <2>1, <1>7 DEF Store!Resolve
 <2> QED  BY <2>2, <2>3, <1>3, <1>4
<1> QED  BY <1>6, <1>7

----
(* Operations that move on and end. *)

\* The process without an operation.
LEMMA StoreIdleIs ==
    /\ Store!Idle \in Operations /\ Store!Idle.kind = "idle" /\ Store!Idle.alone = TRUE
    /\ [Store!Idle EXCEPT !.alone = TRUE] = Store!Idle /\ Store!Idle.read = <<>>
    /\ \A step \in {"migrate", "migrated", "open", "clone", "copy", "toml", "delete"} \cup Updating : Store!Idle.at # step
<1>1. \A step \in {"migrate", "migrated", "open", "clone", "copy", "toml", "delete"} \cup Updating : Store!Idle.at # step
  BY Zenon DEF Store!Idle, Updating
<1>2. Store!Idle.read = <<>> /\ <<>> \in Seq(Store!Entry)  BY DEF Store!Idle
<1>3. Store!Idle.kind = "idle" /\ Store!Idle.alone = TRUE  BY Zenon DEF Store!Idle
<1>4. Store!Idle \in Operations  BY <1>2 DEF Store!Idle, Operations
<1>5. [Store!Idle EXCEPT !.alone = TRUE] = Store!Idle
 <2>1. PICK o : o = Store!Idle  OBVIOUS
 <2>2. o \in Operations /\ o.alone = TRUE  BY <2>1, <1>3, <1>4
 <2>3. [o EXCEPT !.alone = TRUE] = o  BY <2>2 DEF Operations
 <2> QED  BY <2>1, <2>3
<1> QED  BY <1>1, <1>2, <1>3, <1>4, <1>5

\* It is known, and has done nothing.
LEMMA IdleFits == Known(Store!Idle, legacy) /\ Fits(Store!Idle, dir, data) /\ Known(Store!Idle, legacy') /\ Fits(Store!Idle, dir', data')
<1>1. PICK o : o = Store!Idle  OBVIOUS
<1>2. o \in Operations /\ o.kind = "idle" /\ o.read = <<>>  BY <1>1, StoreIdleIs
<1>3. Unique(o.read, legacy) /\ Unique(o.read, legacy')  BY <1>2 DEF Unique
<1>4. Known(o, legacy) /\ Fits(o, dir, data) /\ Known(o, legacy') /\ Fits(o, dir', data')
  BY <1>1, <1>2, <1>3 DEF Known, Fits
<1> QED  BY <1>1, <1>4, Zenon DEF Known, Fits

\* What is known of an operation only changes with it.
LEMMA KnownKept == ASSUME NEW o, Known(o, legacy), legacy' = legacy PROVE Known(o, legacy')
  BY DEF Known, Unique

\* A process that is not idle works on a directory under a name.
LEMMA BusyIs ==
    ASSUME Operating, NEW p \in Procs, op[p] # Store!Idle
    PROVE  /\ op[p].root \in Roots /\ op[p].name \in StoreNames
           /\ op[p].kind \in {"open", "clone", "delete"} /\ op[p] \in Operations
           /\ op[p].kind = "clone" => op[p].src \in Roots
           /\ op[p].read \in Seq(Store!Entry) /\ Unique(op[p].read, legacy)
<1>1. PICK o : o = op[p]  OBVIOUS
<1>2. Known(o, legacy) /\ o # Store!Idle  BY <1>1 DEF Operating
<1>3. o.read \in Seq(Store!Entry)  BY <1>2 DEF Known, Operations
<1> QED  BY <1>1, <1>2, <1>3 DEF Known

\* An operation moves on, or begins; the others are disturbed.
LEMMA MovesKeeps ==
    ASSUME Operating, NEW p \in Procs, NEW o, Known(o, legacy), Store!Moves(p, o),
         ops' \in 0..MaxOps, legacy' = legacy,
           o.alone => Fits(o, dir', data') /\ \A q \in Procs : q # p => op[q] = Store!Idle
    PROVE  Operating' /\ last' = Store!Idle
<1>1. \A q \in Procs : op'[q] = IF q = p THEN o ELSE [op[q] EXCEPT !.alone = (op[q].kind = "idle")]
  BY DEF Store!Moves
<1>2. ASSUME NEW q \in Procs, q # p, op[q] = Store!Idle PROVE op'[q] = Store!Idle
  BY <1>1, <1>2, StoreIdleIs
<1>3. ASSUME NEW q \in Procs, q # p, op[q] # Store!Idle
      PROVE  op'[q] \in Operations /\ Known(op'[q], legacy') /\ op'[q].alone = FALSE
 <2>1. PICK a : a = op[q]  OBVIOUS
 <2>2. Known(a, legacy) /\ a # Store!Idle /\ a.kind # "idle"  BY <2>1, <1>3 DEF Operating, Known
 <2>3. PICK b : b = [a EXCEPT !.alone = FALSE]  OBVIOUS
 <2>4. op'[q] = b  BY <1>1, <1>3, <2>1, <2>2, <2>3
 <2>5. /\ b \in Operations /\ b.alone = FALSE /\ b.kind = a.kind /\ b.at = a.at /\ b.root = a.root
       /\ b.next = a.next /\ b.name = a.name /\ b.src = a.src /\ b.read = a.read
   BY <2>2, <2>3 DEF Known, Operations
 <2>6. Known(b, legacy)  BY <2>2, <2>5 DEF Known, Step
 <2>7. Known(b, legacy')  BY <2>6, KnownKept
 <2> QED  BY <2>4, <2>5, <2>7
<1>4. o \in Operations /\ Known(o, legacy')  BY KnownKept DEF Known
<1>5. op' \in [Procs -> Operations]
 <2>1. \A q \in Procs : op'[q] \in Operations  BY <1>1, <1>2, <1>3, <1>4, StoreIdleIs
 <2>2. op' = [q \in Procs |-> op'[q]]  BY DEF Store!Moves
 <2> QED  BY <2>1, <2>2
<1>6. ASSUME NEW q \in Procs
      PROVE  /\ Known(op'[q], legacy') /\ (op'[q].alone => Fits(op'[q], dir', data'))
             /\ op'[q].alone /\ op'[q] # Store!Idle => \A r \in Procs : r # q => op'[r] = Store!Idle
 <2>1. CASE q = p
  <3>1. op'[q] = o  BY <1>1, <2>1
  <3>2. o.alone => \A r \in Procs : r # q => op'[r] = Store!Idle  BY <1>2, <2>1
  <3> QED  BY <3>1, <3>2, <1>4
 <2>2. CASE q # p /\ op[q] = Store!Idle  BY <2>2, <1>2, IdleFits
 <2>3. CASE q # p /\ op[q] # Store!Idle  BY <2>3, <1>3
 <2> QED  BY <2>1, <2>2, <2>3
<1> QED  BY <1>5, <1>6 DEF Operating, Store!Moves

\* An operation ends.
LEMMA EndsKeeps ==
    ASSUME Operating, NEW p \in Procs, op[p] # Store!Idle, op' = [op EXCEPT ![p] = Store!Idle],
         ops' = ops,
           legacy' = legacy
    PROVE  Operating'
<1>1. op \in [Procs -> Operations] /\ ops' \in 0..MaxOps  BY DEF Operating
<1>2. op' \in [Procs -> Operations] /\ op'[p] = Store!Idle /\ \A q \in Procs : q # p => op'[q] = op[q]
  BY <1>1, StoreIdleIs
<1>3. ASSUME NEW q \in Procs
      PROVE  /\ Known(op'[q], legacy') /\ (op'[q].alone => Fits(op'[q], dir', data'))
             /\ op'[q].alone /\ op'[q] # Store!Idle => \A r \in Procs : r # q => op'[r] = Store!Idle
 <2>1. CASE op'[q] = Store!Idle  BY <2>1, IdleFits
 <2>2. CASE op'[q] # Store!Idle
  <3>1. PICK o : o = op[q]  OBVIOUS
  <3>2. q # p /\ op'[q] = o /\ o # Store!Idle /\ Known(o, legacy)
    BY <2>2, <1>2, <3>1 DEF Operating
  <3>3. ~o.alone  BY <3>1, <3>2 DEF Operating
  <3>4. Known(o, legacy')  BY <3>2, KnownKept
  <3> QED  BY <3>2, <3>3, <3>4
 <2> QED  BY <2>1, <2>2
<1> QED  BY <1>1, <1>2, <1>3 DEF Operating

\* No operation has just succeeded undisturbed.
LEMMA NothingToSay == ASSUME last' = Store!Idle PROVE (Store!OperationsComplete /\ ClonesHold)'
  BY StoreIdleIs DEF Store!OperationsComplete, ClonesHold

\* An operation that fails leaves nothing to say of it.
LEMMA FailsKeeps ==
    ASSUME StoreInv, NEW p \in Procs, op[p] # Store!Idle, Store!Fails(p), ops' = ops,
         legacy' = legacy,
           StoreTypes', RegistryTypes'
    PROVE  StoreInv'
<1>1. Operating'  BY EndsKeeps DEF StoreInv, Store!Fails
<1>2. (Store!OperationsComplete /\ ClonesHold)'  BY NothingToSay DEF Store!Fails
<1> QED  BY <1>1, <1>2 DEF StoreInv

\* An operation of p goes to another of its steps.
LEMMA GotoKeeps ==
    ASSUME StoreInv, NEW p \in Procs, op[p] # Store!Idle, NEW o, Store!Moves(p, o), ops' = ops,
         legacy' = legacy,
           Known(o, legacy), o.alone = op[p].alone, o.alone => Fits(o, dir', data'),
           StoreTypes', RegistryTypes'
    PROVE  StoreInv'
<1>1. Operating /\ ops' \in 0..MaxOps  BY DEF StoreInv, Operating
<1>2. o.alone => \A q \in Procs : q # p => op[q] = Store!Idle  BY DEF StoreInv, Operating
<1>3. Operating' /\ last' = Store!Idle  BY <1>1, <1>2, MovesKeeps
<1>4. (Store!OperationsComplete /\ ClonesHold)'  BY <1>3, NothingToSay
<1> QED  BY <1>3, <1>4 DEF StoreInv

----
(* The steps. *)

\* The steps of an operation but for making a registry.
Steps == {"open", "clone", "copy", "toml", "delete"} \cup Updating

\* An operation at another step is else as it was.
LEMMA StepTo ==
    ASSUME NEW a \in Operations, NEW step \in Steps, NEW o, o = [a EXCEPT !.at = step]
    PROVE  /\ o \in Operations /\ Step(o) = step /\ o.kind = a.kind /\ o.root = a.root /\ o.name = a.name
           /\ o.read = a.read /\ o.alone = a.alone /\ o.src = a.src
<1>1. step \notin {"migrate", "migrated"}  BY DEF Steps, Updating
<1>2. o.at = step  BY DEF Operations
<1>3. Step(o) = step  BY <1>1, <1>2 DEF Step
<1>4. o \in Operations  BY DEF Operations, Steps
<1>5. o.kind = a.kind /\ o.root = a.root /\ o.name = a.name  BY DEF Operations
<1>6. o.read = a.read /\ o.alone = a.alone /\ o.src = a.src  BY DEF Operations
<1> QED  BY <1>3, <1>4, <1>5, <1>6

\* A process at a step has an operation that works on a directory.
LEMMA AtIs ==
    ASSUME StoreInv, NEW p \in Procs, NEW step \in Steps, Store!At(p, step)
    PROVE  /\ op[p] # Store!Idle /\ op[p] \in Operations /\ Known(op[p], legacy) /\ Step(op[p]) = step
           /\ op[p].alone => Fits(op[p], dir, data)
           /\ op[p].root \in Roots /\ op[p].name \in StoreNames
           /\ op[p].kind = "clone" => op[p].src \in Roots
<1>1. PICK o : o = op[p]  OBVIOUS
<1>2. o.at = step  BY <1>1 DEF Store!At
<1>3. o # Store!Idle  BY <1>2, StoreIdleIs DEF Steps
<1>4. Known(o, legacy) /\ (o.alone => Fits(o, dir, data))  BY <1>1 DEF StoreInv, Operating
<1>5. Step(o) = step  BY <1>2 DEF Step, Steps, Updating
<1>6. o \in Operations /\ o.root \in Roots /\ o.name \in StoreNames /\ (o.kind = "clone" => o.src \in Roots)
  BY <1>3, <1>4 DEF Known
<1> QED  BY <1>1, <1>3, <1>4, <1>5, <1>6

\* An operation that has read the registry goes to its step, or makes it first.
LEMMA HavingIs ==
    ASSUME StoreSizes, StoreTypes, RegistryTypes,
           NEW a \in Operations, NEW step \in {"open", "clone", "delete", "truncate"}, NEW o, o = Store!Having(a, step)
    PROVE  /\ o \in Operations /\ Step(o) = step /\ o.kind = a.kind /\ o.root = a.root /\ o.name = a.name
           /\ o.alone = a.alone /\ o.src = a.src /\ Unique(o.read, legacy)
<1>1. PICK es : es = Store!Registered  OBVIOUS
<1>2. es \in Seq(Store!Entry) /\ Unique(es, legacy)  BY <1>1, RegisteredIs
<1>3. PICK where : where = IF registry = "absent" THEN "migrate" ELSE step  OBVIOUS
<1>4. where \in {"migrate", step}  BY <1>3
<1>5. o = [a EXCEPT !.at = where, !.next = step, !.read = es]  BY <1>1, <1>3 DEF Store!Having
<1>6. o.at = where /\ o.next = step /\ o.read = es  BY <1>5 DEF Operations
<1>7. Step(o) = step  BY <1>4, <1>6 DEF Step
<1>8. o \in Operations  BY <1>2, <1>4, <1>5 DEF Operations, Updating
<1>9. o.kind = a.kind /\ o.root = a.root /\ o.name = a.name /\ o.alone = a.alone /\ o.src = a.src
  BY <1>5 DEF Operations
<1> QED  BY <1>2, <1>6, <1>7, <1>8, <1>9

\* An operation begins.
LEMMA BeginKeeps ==
    ASSUME StoreInv, StoreSizes, NEW p \in Procs, NEW what \in {"open", "clone", "delete"},
           NEW name \in StoreNames, NEW root \in Roots, NEW src \in Roots \cup {Store!NoRoot},
           NEW replace \in BOOLEAN, what = "clone" => src \in Roots, NEW byPath \in BOOLEAN,
           Store!Begin(p, what, name, root, src, replace, byPath),
           legacy' = legacy
    PROVE  StoreInv'
<1>1. PICK a : a = [kind |-> what, at |-> what, next |-> "", root |-> root, name |-> name,
src |-> src,
                    replace |-> replace, read |-> <<>>, alone |-> Store!Busy = {}]
  OBVIOUS
<1>2. <<>> \in Seq(Store!Entry) /\ Unique(<<>>, legacy)  BY DEF Unique
<1>3. /\ a.kind = what /\ a.at = what /\ a.root = root /\ a.name = name
      /\ a.src = src /\ a.read = <<>>
      /\ a.alone <=> Store!Busy = {}
  BY <1>1
<1>4. a \in Operations /\ Step(a) = what  BY <1>1, <1>2, <1>3 DEF Operations, Step
<1>5. PICK o : o = IF byPath THEN a ELSE Store!Having(a, what)  OBVIOUS
<1>6. /\ o \in Operations /\ Step(o) = what /\ o.kind = what /\ o.root = root /\ o.name = name
      /\ o.alone = a.alone /\ o.src = src /\ Unique(o.read, legacy)
 <2>1. CASE byPath  BY <2>1, <1>2, <1>3, <1>4, <1>5
 <2>2. CASE ~byPath  BY <2>2, <1>3, <1>4, <1>5, HavingIs DEF StoreInv
 <2> QED  BY <2>1, <2>2
<1>7. Known(o, legacy)  BY <1>6 DEF Known
<1>8. o.alone => \A q \in Procs : q # p => op[q] = Store!Idle
 <2> SUFFICES ASSUME Store!Busy = {}, NEW q \in Procs PROVE op[q] = Store!Idle  BY <1>3, <1>6
 <2>1. op[q].kind = "idle"  BY DEF Store!Busy
 <2>2. PICK c : c = op[q]  OBVIOUS
 <2>3. Known(c, legacy)  BY <2>2 DEF StoreInv, Operating
 <2> QED  BY <2>1, <2>2, <2>3 DEF Known
<1>9. Fits(o, dir', data')  BY <1>6 DEF Fits, Updating
<1>10. Store!Moves(p, o) /\ ops' = ops + 1 /\ ops < MaxOps /\ UNCHANGED <<dir, named, data, registry, entries>>
  BY <1>1, <1>5 DEF Store!Begin
<1>11. ops' \in 0..MaxOps /\ Operating  BY <1>10 DEF StoreInv, Operating, StoreSizes
<1>12. Operating' /\ last' = Store!Idle  BY <1>7, <1>8, <1>9, <1>10, <1>11, MovesKeeps
<1>13. StoreTypes'  BY <1>10 DEF StoreInv, StoreTypes
<1>14. RegistryTypes'  BY <1>10, RegistryKept DEF StoreInv
<1> QED  BY <1>12, <1>13, <1>14, NothingToSay DEF StoreInv

\* A registry is made of what is there: the file is opened.
LEMMA MigrateTruncateKeeps ==
    ASSUME StoreInv, NEW p \in Procs, Store!MigrateTruncate(p), legacy' = legacy
    PROVE  StoreInv'
<1>1. op[p].at = "migrate"  BY DEF Store!MigrateTruncate, Store!At
<1>2. PICK a : a = op[p]  OBVIOUS
<1>3. Known(a, legacy) /\ a \in Operations /\ a # Store!Idle /\ (a.alone => Fits(a, dir, data))
  BY <1>1, <1>2, StoreIdleIs DEF StoreInv, Operating, Known
<1>4. PICK o : o = [a EXCEPT !.at = "migrated"]  OBVIOUS
<1>5. o \in Operations /\ o.at = "migrated" /\ o.next = a.next  BY <1>3, <1>4 DEF Operations
<1>6. /\ o.kind = a.kind /\ o.root = a.root /\ o.name = a.name
      /\ o.read = a.read /\ o.alone = a.alone /\ o.src = a.src
  BY <1>3, <1>4 DEF Operations
<1>7. Step(o) = Step(a)  BY <1>1, <1>2, <1>5 DEF Step
<1>8. Known(o, legacy)  BY <1>3, <1>5, <1>6, <1>7 DEF Known
<1>9. Store!Moves(p, o) /\ UNCHANGED <<dir, named, data, ops, entries>> /\ registry' = "torn"
  BY <1>2, <1>4 DEF Store!MigrateTruncate, Store!Goto
<1>10. o.alone => Fits(o, dir', data')  BY <1>3, <1>6, <1>7, <1>9 DEF Fits
<1>11. StoreTypes'  BY <1>9 DEF StoreInv, StoreTypes
<1>12. RegistryTypes'  BY <1>9 DEF StoreInv, RegistryTypes
<1> QED  BY <1>2, <1>3, <1>6, <1>8, <1>9, <1>10, <1>11, <1>12, GotoKeeps

\* It is written, and the operation goes on.
LEMMA MigrateWriteKeeps ==
    ASSUME StoreInv, NEW p \in Procs, Store!MigrateWrite(p), legacy' = legacy
    PROVE  StoreInv'
<1>1. op[p].at = "migrated"  BY DEF Store!MigrateWrite, Store!At
<1>2. PICK a : a = op[p]  OBVIOUS
<1>3. Known(a, legacy) /\ a \in Operations /\ a # Store!Idle /\ (a.alone => Fits(a, dir, data))
  BY <1>1, <1>2, StoreIdleIs DEF StoreInv, Operating, Known
<1>4. PICK step : step = a.next  OBVIOUS
<1>5. Step(a) = step /\ step \in {"", "open", "clone", "delete", "truncate"}
  BY <1>1, <1>2, <1>3, <1>4 DEF Step, Operations
<1>6. step # ""  BY <1>3, <1>5 DEF Known, Updating
<1>7. step \in Steps  BY <1>5, <1>6 DEF Steps, Updating
<1>8. PICK o : o = [a EXCEPT !.at = step]  OBVIOUS
<1>9. /\ o \in Operations /\ Step(o) = step /\ o.kind = a.kind /\ o.root = a.root /\ o.name = a.name
      /\ o.read = a.read /\ o.alone = a.alone /\ o.src = a.src
  BY <1>3, <1>7, <1>8, StepTo
<1>10. Known(o, legacy)  BY <1>3, <1>5, <1>9 DEF Known
<1>11. Store!Moves(p, o) /\ UNCHANGED <<dir, named, data, ops>> /\ registry' = "whole" /\ entries' = a.read
  BY <1>2, <1>4, <1>8 DEF Store!MigrateWrite, Store!Goto
<1>12. o.alone => Fits(o, dir', data')  BY <1>3, <1>5, <1>9, <1>11 DEF Fits
<1>13. StoreTypes'  BY <1>11 DEF StoreInv, StoreTypes
<1>14. a.read \in Seq(Store!Entry) /\ Unique(a.read, legacy)  BY <1>3 DEF Known, Operations
<1>15. RegistryTypes'  BY <1>11, <1>14 DEF StoreInv, RegistryTypes
<1> QED  BY <1>2, <1>3, <1>9, <1>10, <1>11, <1>12, <1>13, <1>15, GotoKeeps

\* ensure_layout_dirs().
LEMMA EnsureLayoutKeeps ==
    ASSUME StoreSizes, StoreInv, NEW p \in Procs, Store!EnsureLayout(p), legacy' = legacy
    PROVE  StoreInv'
<1>1. Store!At(p, "open") /\ "open" \in Steps /\ "toml" \in Steps
  BY DEF Store!EnsureLayout, Steps
<1>2. PICK a : a = op[p]  OBVIOUS
<1>3. a # Store!Idle /\ a \in Operations /\ Known(a, legacy) /\ Step(a) = "open" /\ a.root \in Roots
  BY <1>1, <1>2, AtIs
<1>4. a.kind = "open"  BY <1>3 DEF Known, Updating
<1>5. PICK o : o = [a EXCEPT !.at = "toml"]  OBVIOUS
<1>6. /\ o \in Operations /\ Step(o) = "toml" /\ o.kind = a.kind /\ o.root = a.root /\ o.name = a.name
      /\ o.read = a.read /\ o.alone = a.alone /\ o.src = a.src
  BY <1>1, <1>3, <1>5, StepTo
<1>7. Known(o, legacy)  BY <1>3, <1>4, <1>6 DEF Known
<1>8. PICK home : home = Real[a.root]  OBVIOUS
<1>9. home \in Roots  BY <1>3, <1>8 DEF StoreSizes
<1>10. /\ dir' = [r \in Roots |-> IF dir[r] = "none" /\ (r = home \/ r \in Store!Parents(home))
                                  THEN "dir" ELSE dir[r]]
       /\ data' = [data EXCEPT ![home] = IF dir[home] = "none" THEN home ELSE @]
       /\ named' = named /\ UNCHANGED <<registry, entries>> /\ ops' = ops /\ Store!Moves(p, o)
  BY <1>2, <1>5, <1>8 DEF Store!EnsureLayout, Store!Goto
<1>11. Fits(o, dir', data')  BY <1>4, <1>6, <1>8, <1>9, <1>10 DEF Fits, Updating
<1>12. StoreTypes'
 <2>1. dir' \in [Roots -> {"none", "dir", "prefix"}] /\ \A r \in Roots : dir'[r] = "prefix" => dir[r] = "prefix"
   BY <1>10 DEF StoreInv, StoreTypes
 <2>2. data' \in [Roots -> Roots \cup {Store!NoRoot}]  BY <1>9, <1>10 DEF StoreInv, StoreTypes
 <2> QED  BY <2>1, <2>2, <1>10 DEF StoreInv, StoreTypes
<1>13. RegistryTypes'  BY <1>10, RegistryKept DEF StoreInv
<1> QED  BY <1>2, <1>3, <1>6, <1>7, <1>10, <1>11, <1>12, <1>13, GotoKeeps

\* write_prefix_toml().
LEMMA WriteTomlKeeps ==
    ASSUME StoreSizes, StoreInv, NEW p \in Procs, Store!WriteToml(p), legacy' = legacy
    PROVE  StoreInv'
<1>1. Store!At(p, "toml") /\ "toml" \in Steps /\ "register" \in Steps
  BY DEF Store!WriteToml, Steps, Updating
<1>2. RegistryTypes'  BY RegistryKept DEF Store!WriteToml, StoreInv
<1>3. PICK a : a = op[p]  OBVIOUS
<1>4. /\ a # Store!Idle /\ a \in Operations /\ Known(a, legacy) /\ Step(a) = "toml" /\ a.root \in Roots /\ a.name \in StoreNames
      /\ a.alone => Fits(a, dir, data)
  BY <1>1, <1>3, AtIs
<1>5. PICK home : home = Real[a.root]  OBVIOUS
<1>6. home \in Roots  BY <1>4, <1>5 DEF StoreSizes
<1>7. CASE dir[home] = "none"
 <2>1. Store!Fails(p) /\ UNCHANGED <<dir, named, data, ops>>
   BY <1>3, <1>5, <1>7 DEF Store!WriteToml
 <2> QED  BY <1>2, <1>3, <1>4, <2>1, FailsKeeps DEF StoreInv, StoreTypes
<1>8. CASE dir[home] # "none"
 <2>1. PICK o : o = [a EXCEPT !.at = "register"]  OBVIOUS
 <2>2. /\ o \in Operations /\ Step(o) = "register" /\ o.kind = a.kind /\ o.root = a.root /\ o.name = a.name
       /\ o.read = a.read /\ o.alone = a.alone /\ o.src = a.src
   BY <1>1, <1>4, <2>1, StepTo
 <2>3. a.kind \in {"open", "clone"} /\ (a.kind = "clone" => a.src \in Roots)
   BY <1>4 DEF Known, Updating
 <2>4. Known(o, legacy)  BY <1>4, <2>2, <2>3 DEF Known, Updating
 <2>5. /\ dir' = [dir EXCEPT ![home] = "prefix"] /\ data' = data /\ Store!Moves(p, o) /\ ops' = ops
       /\ named' = [named EXCEPT ![home] =
                       IF dir[home] = "prefix" /\ a.kind = "open" THEN @ ELSE a.name]
   BY <1>3, <1>5, <1>8, <2>1 DEF Store!WriteToml, Store!Goto
 <2>6. dir'[home] = "prefix" /\ \A r \in Roots : dir'[r] = "prefix" \/ dir'[r] = dir[r]
   BY <1>6, <2>5 DEF StoreInv, StoreTypes
 <2>7. o.alone => Fits(o, dir', data')
  <3>1. CASE a.kind = "open"  BY <3>1, <1>5, <2>2, <2>6 DEF Fits
  <3>2. CASE a.kind = "clone"
   <4>1. Real[a.src] \in Roots  BY <2>3, <3>2 DEF StoreSizes
   <4>2. a.alone => dir[Real[a.src]] = "prefix" /\ data[home] = data[Real[a.src]]
     BY <1>4, <1>5, <3>2 DEF Fits
   <4> QED  BY <4>1, <4>2, <3>2, <1>5, <2>2, <2>5, <2>6 DEF Fits
  <3> QED  BY <3>1, <3>2, <2>3
 <2>8. StoreTypes'
  <3>1. dir' \in [Roots -> {"none", "dir", "prefix"}]  BY <2>5 DEF StoreInv, StoreTypes
  <3>2. named' \in [Roots -> StoreNames \cup {Store!NoName}]
    BY <1>4, <2>5 DEF StoreInv, StoreTypes
  <3>3. \A r \in Roots : dir'[r] = "prefix" => named'[r] \in StoreNames
    BY <1>4, <1>6, <2>5 DEF StoreInv, StoreTypes
  <3> QED  BY <2>5, <3>1, <3>2, <3>3 DEF StoreInv, StoreTypes
 <2> QED  BY <1>2, <1>3, <1>4, <2>2, <2>4, <2>5, <2>7, <2>8, GotoKeeps
<1> QED  BY <1>7, <1>8

\* The registry is read to be updated.
LEMMA ReadForUpdateKeeps ==
    ASSUME StoreSizes, StoreInv, NEW p \in Procs, Store!ReadForUpdate(p), legacy' = legacy
    PROVE  StoreInv'
<1>1. Store!At(p, "register") /\ "register" \in Steps  BY DEF Store!ReadForUpdate, Steps, Updating
<1>2. RegistryTypes' /\ UNCHANGED <<dir, named, data, ops>>
  BY RegistryKept DEF Store!ReadForUpdate, StoreInv
<1>3. PICK a : a = op[p]  OBVIOUS
<1>4. /\ a # Store!Idle /\ a \in Operations /\ Known(a, legacy) /\ Step(a) = "register"
      /\ a.alone => Fits(a, dir, data)
  BY <1>1, <1>3, AtIs
<1>5. CASE ~Store!Readable
 <2>1. Store!Fails(p)  BY <1>5 DEF Store!ReadForUpdate
 <2> QED  BY <1>2, <1>3, <1>4, <2>1, FailsKeeps DEF StoreInv, StoreTypes
<1>6. CASE Store!Readable
 <2>1. PICK o : o = Store!Having(a, "truncate")  OBVIOUS
 <2>2. /\ o \in Operations /\ Step(o) = "truncate" /\ o.kind = a.kind /\ o.root = a.root /\ o.name = a.name
       /\ o.alone = a.alone /\ o.src = a.src /\ Unique(o.read, legacy)
   BY <1>4, <2>1, HavingIs DEF StoreInv
 <2>3. Known(o, legacy)  BY <1>4, <2>2 DEF Known, Updating
 <2>4. Store!Moves(p, o)  BY <1>3, <1>6, <2>1 DEF Store!ReadForUpdate
 <2>5. o.alone => Fits(o, dir', data')  BY <1>2, <1>4, <2>2 DEF Fits, Updating
 <2>6. StoreTypes'  BY <1>2 DEF StoreInv, StoreTypes
 <2> QED  BY <1>2, <1>3, <1>4, <2>2, <2>3, <2>4, <2>5, <2>6, GotoKeeps
<1> QED  BY <1>5, <1>6

\* The file is truncated.
LEMMA TruncateKeeps ==
    ASSUME StoreInv, NEW p \in Procs, Store!Truncate(p), legacy' = legacy
    PROVE  StoreInv'
<1>1. Store!At(p, "truncate") /\ "truncate" \in Steps /\ "write" \in Steps
  BY DEF Store!Truncate, Steps, Updating
<1>2. RegistryTypes'  BY DEF Store!Truncate, StoreInv, RegistryTypes
<1>3. PICK a : a = op[p]  OBVIOUS
<1>4. /\ a # Store!Idle /\ a \in Operations /\ Known(a, legacy) /\ Step(a) = "truncate"
      /\ a.alone => Fits(a, dir, data)
  BY <1>1, <1>3, AtIs
<1>5. PICK o : o = [a EXCEPT !.at = "write"]  OBVIOUS
<1>6. /\ o \in Operations /\ Step(o) = "write" /\ o.kind = a.kind /\ o.root = a.root /\ o.name = a.name
      /\ o.read = a.read /\ o.alone = a.alone /\ o.src = a.src
  BY <1>1, <1>4, <1>5, StepTo
<1>7. Known(o, legacy)  BY <1>4, <1>6 DEF Known, Updating
<1>8. Store!Moves(p, o) /\ UNCHANGED <<dir, named, data, ops>>
  BY <1>3, <1>5 DEF Store!Truncate, Store!Goto
<1>9. o.alone => Fits(o, dir', data')  BY <1>4, <1>6, <1>8 DEF Fits, Updating
<1>10. StoreTypes'  BY <1>8 DEF StoreInv, StoreTypes
<1> QED  BY <1>2, <1>3, <1>4, <1>6, <1>7, <1>8, <1>9, <1>10, GotoKeeps

\* What is written lists no name and no root twice, and the operation's own only
\* when it is to be there.
LEMMA UpdatedIs ==
    ASSUME NEW o, o.read \in Seq(Store!Entry), Unique(o.read, legacy), o.name \in StoreNames, o.root \in Roots
    PROVE  /\ Store!Updated(o) \in Seq(Store!Entry) /\ Unique(Store!Updated(o), legacy)
           /\ o.kind # "delete" => [name |-> o.name, root |-> o.root] \in Store!Range(Store!Updated(o))
           /\ o.kind = "delete" => \A e \in Store!Range(Store!Updated(o)) : e.name # o.name /\ e.root # o.root
<1>1. PICK kept : kept = Store!Without(o.read, o.name, o.root)  OBVIOUS
<1>2. PICK es, name, root : es = o.read /\ name = o.name /\ root = o.root  OBVIOUS
<1>3. KeptOf(kept, es, Len(es), name, root)  BY <1>1, <1>2, WithoutIs
<1>4. kept \in Seq(Store!Entry) /\ Unique(kept, legacy) /\ \A i \in DOMAIN kept : kept[i].name # name /\ kept[i].root # root
  BY <1>3 DEF KeptOf
<1>5. CASE o.kind = "delete"
 <2>1. Store!Updated(o) = kept  BY <1>1, <1>5 DEF Store!Updated
 <2>2. \A e \in Store!Range(kept) : e.name # name /\ e.root # root  BY <1>4 DEF Store!Range
 <2> QED  BY <2>1, <2>2, <1>2, <1>4, <1>5
<1>6. CASE o.kind # "delete"
 <2>1. PICK e : e = [name |-> name, root |-> root]  OBVIOUS
 <2>2. PICK new : new = Append(kept, e)  OBVIOUS
 <2>3. Store!Updated(o) = new  BY <1>1, <1>2, <1>6, <2>1, <2>2 DEF Store!Updated
 <2>4. e \in Store!Entry /\ e.name = name /\ e.root = root  BY <2>1, <1>2 DEF Store!Entry
 <2>5. PICK l \in Nat : l = Len(kept) /\ DOMAIN kept = 1..l  BY <1>4
 <2>6. /\ new \in Seq(Store!Entry) /\ DOMAIN new = 1..l + 1 /\ new[l + 1] = e
       /\ \A i \in 1..l : new[i] = kept[i]
   BY <1>4, <2>2, <2>4, <2>5, AppendProperties
 <2>7. \A i \in DOMAIN new : i = l + 1 \/ i \in 1..l  BY <2>5, <2>6
 <2>8. Unique(new, legacy)
  <3> SUFFICES ASSUME NEW i \in DOMAIN new, NEW j \in DOMAIN new, i # j
               PROVE  (legacy \/ new[i].name # new[j].name) /\ new[i].root # new[j].root
    BY DEF Unique
  <3>1. CASE i \in 1..l /\ j \in 1..l  BY <1>4, <2>5, <2>6, <3>1 DEF Unique
  <3>2. CASE i = l + 1 /\ j \in 1..l  BY <1>4, <2>4, <2>5, <2>6, <3>2
  <3>3. CASE j = l + 1 /\ i \in 1..l  BY <1>4, <2>4, <2>5, <2>6, <3>3
  <3> QED  BY <2>7, <3>1, <3>2, <3>3
 <2>9. l + 1 \in DOMAIN new  BY <2>5, <2>6
 <2>10. e \in Store!Range(new)  BY <2>6, <2>9, Zenon DEF Store!Range
 <2> QED  BY <1>2, <1>6, <2>1, <2>3, <2>6, <2>8, <2>10
<1> QED  BY <1>5, <1>6

\* The entries are written.
LEMMA WriteEntriesKeeps ==
    ASSUME StoreInv, NEW p \in Procs, Store!WriteEntries(p), legacy' = legacy
    PROVE  StoreInv'
<1>1. Store!At(p, "write") /\ "write" \in Steps  BY DEF Store!WriteEntries, Steps, Updating
<1>2. PICK o : o = op[p]  OBVIOUS
<1>3. PICK es : es = Store!Updated(o)  OBVIOUS
<1>4. o # Store!Idle /\ Step(o) = "write" /\ (o.alone => Fits(o, dir, data))  BY <1>1, <1>2, AtIs
<1>5. /\ o.root \in Roots /\ o.name \in StoreNames /\ o.kind \in {"open", "clone", "delete"}
      /\ o.read \in Seq(Store!Entry) /\ Unique(o.read, legacy)
  BY <1>2, <1>4, BusyIs DEF StoreInv
<1>6. /\ es \in Seq(Store!Entry) /\ Unique(es, legacy)
      /\ o.kind # "delete" => [name |-> o.name, root |-> o.root] \in Store!Range(es)
      /\ o.kind = "delete" => \A e \in Store!Range(es) : e.name # o.name /\ e.root # o.root
  BY <1>3, <1>5, UpdatedIs
<1>7. /\ registry' = "whole" /\ entries' = es /\ UNCHANGED <<dir, named, data, ops>>
      /\ last' = (IF o.alone THEN o ELSE Store!Idle) /\ op' = [op EXCEPT ![p] = Store!Idle]
  BY <1>2, <1>3 DEF Store!WriteEntries, Store!Succeeds
<1>8. RegistryTypes'  BY <1>6, <1>7 DEF StoreInv, RegistryTypes
<1>9. StoreTypes'  BY <1>7 DEF StoreInv, StoreTypes
<1>10. Operating'  BY <1>2, <1>4, <1>7, EndsKeeps DEF StoreInv
<1>11. (Store!OperationsComplete /\ ClonesHold)'
 <2>1. CASE ~o.alone  BY <2>1, <1>7, NothingToSay
 <2>2. CASE o.alone
  <3>1. Fits(o, dir, data) /\ last' = o /\ Step(o) \in Updating
    BY <1>4, <1>7, <2>2 DEF Updating
  <3>2. CASE o.kind = "open"
    BY <3>1, <3>2, <1>6, <1>7 DEF Fits, Store!OperationsComplete, ClonesHold
  <3>3. CASE o.kind = "clone"
    BY <3>1, <3>3, <1>6, <1>7 DEF Fits, Store!OperationsComplete, ClonesHold
  <3>4. CASE o.kind = "delete"
    BY <3>1, <3>4, <1>6, <1>7 DEF Fits, Store!OperationsComplete, ClonesHold
  <3> QED  BY <1>5, <3>2, <3>3, <3>4
 <2> QED  BY <2>1, <2>2
<1> QED  BY <1>8, <1>9, <1>10, <1>11 DEF StoreInv

----
(* Copies and removals. *)

\* remove_all() leaves directories of the same kinds.
LEMMA RemovalKeeps ==
    ASSUME StoreSizes, StoreTypes, NEW root \in Roots, Store!RemoveAll(root)
    PROVE  /\ StoreTypes' /\ dir'[Real[root]] = "none"
           /\ \A r \in Roots : dir'[r] = dir[r] \/ (dir'[r] = "none" /\ Store!Inside(r, Real[root]))
<1>1. PICK gone : gone = {r \in Roots : Store!Inside(r, Real[root])}  OBVIOUS
<1>2. /\ dir' = [r \in Roots |-> IF r \in gone THEN "none" ELSE dir[r]]
      /\ named' = [r \in Roots |-> IF r \in gone THEN Store!NoName ELSE named[r]]
      /\ data' = [r \in Roots |-> IF r \in gone THEN Store!NoRoot ELSE data[r]]
  BY <1>1 DEF Store!RemoveAll
<1>3. dir' \in [Roots -> {"none", "dir", "prefix"}] /\ named' \in [Roots -> StoreNames \cup {Store!NoName}]
  BY <1>2 DEF StoreTypes
<1>4. data' \in [Roots -> Roots \cup {Store!NoRoot}]  BY <1>2 DEF StoreTypes
<1>5. \A r \in Roots : dir'[r] = "prefix" => named'[r] \in StoreNames  BY <1>2 DEF StoreTypes
<1>6. Real[root] \in Roots  BY DEF StoreSizes
<1>7. dir'[Real[root]] = "none" /\ \A r \in Roots : dir'[r] = dir[r] \/ (dir'[r] = "none" /\ Store!Inside(r, Real[root]))
  BY <1>1, <1>2, <1>6 DEF Store!Inside
<1> QED  BY <1>3, <1>4, <1>5, <1>7 DEF StoreTypes

\* The destination of a clone is cleared.
LEMMA ClearDestinationKeeps ==
    ASSUME StoreSizes, StoreInv, NEW p \in Procs, Store!ClearDestination(p), legacy' = legacy
    PROVE  StoreInv'
<1>1. Store!At(p, "clone") /\ "clone" \in Steps /\ "copy" \in Steps
  BY DEF Store!ClearDestination, Steps
<1>2. RegistryTypes'  BY RegistryKept DEF Store!ClearDestination, StoreInv
<1>3. PICK a : a = op[p]  OBVIOUS
<1>4. a # Store!Idle /\ a \in Operations /\ Known(a, legacy) /\ Step(a) = "clone" /\ a.root \in Roots
  BY <1>1, <1>3, AtIs
<1>5. a.kind = "clone" /\ a.src \in Roots  BY <1>4 DEF Known, Updating
<1>6. PICK o : o = [a EXCEPT !.at = "copy"]  OBVIOUS
<1>7. \/ Store!Fails(p) /\ UNCHANGED <<dir, named, data, ops>>
      \/ /\ dir[Real[a.src]] = "prefix" /\ ~Store!Overlap(a.src, a.root)
         /\ Store!Moves(p, o) /\ Store!RemoveAll(a.root) /\ ops' = ops
  BY <1>3, <1>6 DEF Store!ClearDestination, Store!Goto
<1>8. CASE Store!Fails(p) /\ UNCHANGED <<dir, named, data, ops>>
  BY <1>2, <1>3, <1>4, <1>8, FailsKeeps DEF StoreInv, StoreTypes
<1>9. CASE /\ dir[Real[a.src]] = "prefix" /\ ~Store!Overlap(a.src, a.root)
           /\ Store!Moves(p, o) /\ Store!RemoveAll(a.root) /\ ops' = ops
 <2>1. /\ o \in Operations /\ Step(o) = "copy" /\ o.kind = a.kind /\ o.root = a.root /\ o.name = a.name
       /\ o.read = a.read /\ o.alone = a.alone /\ o.src = a.src
   BY <1>1, <1>4, <1>6, StepTo
 <2>2. Known(o, legacy)  BY <1>4, <1>5, <2>1 DEF Known
 <2>3. StoreTypes' /\ \A r \in Roots : dir'[r] = dir[r] \/ (dir'[r] = "none" /\ Store!Inside(r, Real[a.root]))
   BY <1>4, <1>9, RemovalKeeps DEF StoreInv
 <2>4. Real[a.src] \in Roots  BY <1>5 DEF StoreSizes
 <2>5. dir'[Real[a.src]] \in {"none", "prefix"}  BY <1>9, <2>3, <2>4
 <2>6. Real[a.root] = a.root => dir'[Real[a.src]] = "prefix"
   BY <1>9, <2>3, <2>4 DEF Store!Overlap
 <2>7. Fits(o, dir', data')  BY <1>5, <2>1, <2>5, <2>6 DEF Fits, Updating
 <2> QED  BY <1>2, <1>3, <1>4, <1>9, <2>1, <2>2, <2>3, <2>7, GotoKeeps
<1> QED  BY <1>7, <1>8, <1>9

\* What a copy brought leaves directories of the same kinds.
LEMMA BroughtKeeps ==
    ASSUME StoreTypes, NEW home \in Roots, NEW what \in {"none", "dir", "prefix"},
         NEW name \in StoreNames \cup {Store!NoName},
           NEW contents \in Roots \cup {Store!NoRoot}, what = "prefix" => name \in StoreNames,
           Store!Brought(home, what, name, contents)
    PROVE  /\ StoreTypes' /\ dir'[home] = what /\ data'[home] = contents
           /\ \A r \in Roots : r # home => data'[r] = data[r] /\ (dir[r] = "prefix" => dir'[r] = "prefix")
<1>1. /\ dir' = [r \in Roots |-> IF r = home THEN what
                                 ELSE IF r \in Store!Parents(home) /\ dir[r] = "none" THEN "dir" ELSE dir[r]]
      /\ named' = [named EXCEPT ![home] = name]
      /\ data' = [data EXCEPT ![home] = contents]
  BY DEF Store!Brought
<1>2. dir' \in [Roots -> {"none", "dir", "prefix"}]  BY <1>1 DEF StoreTypes
<1>3. named' \in [Roots -> StoreNames \cup {Store!NoName}]  BY <1>1 DEF StoreTypes
<1>4. data' \in [Roots -> Roots \cup {Store!NoRoot}]  BY <1>1 DEF StoreTypes
<1>5. \A r \in Roots : dir'[r] = "prefix" => named'[r] \in StoreNames  BY <1>1 DEF StoreTypes
<1>6. dir'[home] = what /\ \A r \in Roots : r # home => (dir[r] = "prefix" => dir'[r] = "prefix")
  BY <1>1 DEF StoreTypes
<1>7. data'[home] = contents /\ \A r \in Roots : r # home => data'[r] = data[r]
  BY <1>1 DEF StoreTypes
<1> QED  BY <1>2, <1>3, <1>4, <1>5, <1>6, <1>7 DEF StoreTypes

\* The tree is copied.
LEMMA CopyTreeKeeps ==
    ASSUME StoreSizes, StoreInv, NEW p \in Procs, Store!CopyTree(p), legacy' = legacy
    PROVE  StoreInv'
<1>1. Store!At(p, "copy") /\ "copy" \in Steps /\ "toml" \in Steps  BY DEF Store!CopyTree, Steps
<1>2. RegistryTypes'  BY RegistryKept DEF Store!CopyTree, StoreInv
<1>3. PICK a : a = op[p]  OBVIOUS
<1>4. /\ a # Store!Idle /\ a \in Operations /\ Known(a, legacy) /\ Step(a) = "copy" /\ a.root \in Roots
      /\ a.alone => Fits(a, dir, data)
  BY <1>1, <1>3, AtIs
<1>5. a.kind = "clone" /\ a.src \in Roots  BY <1>4 DEF Known, Updating
<1>6. PICK o, src, home : o = [a EXCEPT !.at = "toml"] /\ src = Real[a.src] /\ home = Real[a.root]
  OBVIOUS
<1>7. src \in Roots /\ home \in Roots  BY <1>4, <1>5, <1>6 DEF StoreSizes
<1>8. \/ Store!Fails(p) /\ UNCHANGED <<dir, named, data, ops>>
      \/ /\ dir[src] # "none" /\ ~Store!Inside(home, src) /\ Store!Moves(p, o) /\ ops' = ops
         /\ Store!Brought(home, dir[src], named[src], data[src])
  BY <1>3, <1>6 DEF Store!CopyTree, Store!Goto
<1>9. CASE Store!Fails(p) /\ UNCHANGED <<dir, named, data, ops>>
  BY <1>2, <1>3, <1>4, <1>9, FailsKeeps DEF StoreInv, StoreTypes
<1>10. CASE /\ dir[src] # "none" /\ ~Store!Inside(home, src) /\ Store!Moves(p, o) /\ ops' = ops
            /\ Store!Brought(home, dir[src], named[src], data[src])
 <2>1. /\ o \in Operations /\ Step(o) = "toml" /\ o.kind = a.kind /\ o.root = a.root /\ o.name = a.name
       /\ o.read = a.read /\ o.alone = a.alone /\ o.src = a.src
   BY <1>1, <1>4, <1>6, StepTo
 <2>2. Known(o, legacy)  BY <1>4, <1>5, <2>1 DEF Known
 <2>3. PICK what, name, contents : what = dir[src] /\ name = named[src] /\ contents = data[src]
   OBVIOUS
 <2>4. /\ what \in {"none", "dir", "prefix"} /\ name \in StoreNames \cup {Store!NoName}
       /\ contents \in Roots \cup {Store!NoRoot} /\ (what = "prefix" => name \in StoreNames)
   BY <1>7, <2>3 DEF StoreInv, StoreTypes
 <2>5. StoreTypes /\ Store!Brought(home, what, name, contents)  BY <1>10, <2>3 DEF StoreInv
 <2>6. /\ StoreTypes' /\ dir'[home] = what /\ data'[home] = contents
       /\ \A r \in Roots : r # home => data'[r] = data[r] /\ (dir[r] = "prefix" => dir'[r] = "prefix")
   BY <1>7, <2>4, <2>5, BroughtKeeps
 <2>7. o.alone => Fits(o, dir', data')
  <3> SUFFICES ASSUME a.alone PROVE Fits(o, dir', data')  BY <2>1
  <3>1. dir[src] = "prefix"  BY <1>4, <1>5, <1>6, <1>10 DEF Fits
  <3>2. src # home  BY <1>10 DEF Store!Inside
  <3>3. dir'[src] = "prefix" /\ dir'[home] = "prefix" /\ data'[home] = data'[src]
    BY <1>7, <2>3, <2>6, <3>1, <3>2
  <3> QED  BY <1>5, <1>6, <2>1, <3>3 DEF Fits
 <2> QED  BY <1>2, <1>3, <1>4, <1>10, <2>1, <2>2, <2>6, <2>7, GotoKeeps
<1> QED  BY <1>8, <1>9, <1>10

\* A copy stops half way.
LEMMA CopyStopsKeeps ==
    ASSUME StoreSizes, StoreInv, NEW p \in Procs, Store!CopyStops(p), legacy' = legacy
    PROVE  StoreInv'
<1>1. Store!At(p, "copy") /\ "copy" \in Steps  BY DEF Store!CopyStops, Steps
<1>2. RegistryTypes'  BY RegistryKept DEF Store!CopyStops, StoreInv
<1>3. PICK a : a = op[p]  OBVIOUS
<1>4. a # Store!Idle /\ Known(a, legacy) /\ Step(a) = "copy" /\ a.root \in Roots
  BY <1>1, <1>3, AtIs
<1>5. a.src \in Roots  BY <1>4 DEF Known, Updating
<1>6. PICK src, home : src = Real[a.src] /\ home = Real[a.root]  OBVIOUS
<1>7. src \in Roots /\ home \in Roots  BY <1>4, <1>5, <1>6 DEF StoreSizes
<1>8. PICK name : name = named[src]  OBVIOUS
<1>9. Store!Fails(p) /\ ops' = ops  BY DEF Store!CopyStops
<1>10. \/ Store!Brought(home, "dir", Store!NoName, Store!NoRoot)
       \/ dir[src] = "prefix" /\ Store!Brought(home, "prefix", name, Store!NoRoot)
  BY <1>3, <1>6, <1>8 DEF Store!CopyStops
<1>11. name \in StoreNames \cup {Store!NoName} /\ (dir[src] = "prefix" => name \in StoreNames)
  BY <1>7, <1>8 DEF StoreInv, StoreTypes
<1>12. StoreTypes'
 <2>1. CASE Store!Brought(home, "dir", Store!NoName, Store!NoRoot)
   BY <1>7, <2>1, BroughtKeeps DEF StoreInv
 <2>2. CASE dir[src] = "prefix" /\ Store!Brought(home, "prefix", name, Store!NoRoot)
   BY <1>7, <1>11, <2>2, BroughtKeeps DEF StoreInv
 <2> QED  BY <1>10, <2>1, <2>2
<1> QED  BY <1>2, <1>3, <1>4, <1>9, <1>12, FailsKeeps

\* delete_prefix() removes the tree.
LEMMA RemoveTreeKeeps ==
    ASSUME StoreSizes, StoreInv, NEW p \in Procs, Store!RemoveTree(p), legacy' = legacy
    PROVE  StoreInv'
<1>1. Store!At(p, "delete") /\ "delete" \in Steps /\ "register" \in Steps
  BY DEF Store!RemoveTree, Steps, Updating
<1>2. RegistryTypes'  BY RegistryKept DEF Store!RemoveTree, StoreInv
<1>3. PICK a : a = op[p]  OBVIOUS
<1>4. a # Store!Idle /\ a \in Operations /\ Known(a, legacy) /\ Step(a) = "delete" /\ a.root \in Roots
  BY <1>1, <1>3, AtIs
<1>5. a.kind = "delete"  BY <1>4 DEF Known, Updating
<1>6. PICK o : o = [a EXCEPT !.at = "register"]  OBVIOUS
<1>7. \/ Store!Fails(p) /\ UNCHANGED <<dir, named, data, ops>>
      \/ Store!Moves(p, o) /\ Store!RemoveAll(a.root) /\ ops' = ops
  BY <1>3, <1>6 DEF Store!RemoveTree, Store!Goto
<1>8. CASE Store!Fails(p) /\ UNCHANGED <<dir, named, data, ops>>
  BY <1>2, <1>3, <1>4, <1>8, FailsKeeps DEF StoreInv, StoreTypes
<1>9. CASE Store!Moves(p, o) /\ Store!RemoveAll(a.root) /\ ops' = ops
 <2>1. /\ o \in Operations /\ Step(o) = "register" /\ o.kind = a.kind /\ o.root = a.root /\ o.name = a.name
       /\ o.read = a.read /\ o.alone = a.alone /\ o.src = a.src
   BY <1>1, <1>4, <1>6, StepTo
 <2>2. Known(o, legacy)  BY <1>4, <1>5, <2>1 DEF Known, Updating
 <2>3. StoreTypes' /\ dir'[Real[a.root]] = "none"  BY <1>4, <1>9, RemovalKeeps DEF StoreInv
 <2>4. Fits(o, dir', data')  BY <1>5, <2>1, <2>3 DEF Fits
 <2> QED  BY <1>2, <1>3, <1>4, <1>9, <2>1, <2>2, <2>3, <2>4, GotoKeeps
<1> QED  BY <1>7, <1>8, <1>9

----
(* The invariant. *)

\* One prefix, registered or of before there was a registry.
LEMMA InitKeeps == ASSUME StoreSizes, Store!Init PROVE StoreInv
<1>1. Store!Legacy \in StoreNames /\ DefaultRoot[Store!Legacy] \in Roots
  BY DEF Store!Legacy, StoreSizes
<1>2. PICK home \in Roots :
          /\ dir = [r \in Roots |-> IF r = Real[home] THEN "prefix"
                                 ELSE IF <<Real[home], r>> \in Within THEN "dir" ELSE "none"]
          /\ named = [r \in Roots |-> IF r = Real[home] THEN Store!Legacy ELSE Store!NoName]
          /\ data = [r \in Roots |-> IF r = Real[home] THEN r ELSE Store!NoRoot]
          /\ registry = IF legacy THEN "absent" ELSE "whole"
          /\ entries = IF legacy THEN <<>> ELSE <<[name |-> Store!Legacy, root |-> home]>>
 <2>1. PICK H : H = IF legacy THEN {DefaultRoot[Store!Legacy]} ELSE Roots  OBVIOUS
 <2>2. \A home \in H : home \in Roots  BY <1>1, <2>1
 <2> QED  BY <2>1, <2>2, Zenon DEF Store!Init
<1>3. StoreTypes  BY <1>1, <1>2 DEF StoreTypes
<1>4. RegistryTypes
 <2>1. PICK e : e = [name |-> Store!Legacy, root |-> home]  OBVIOUS
 <2>2. e \in Store!Entry  BY <1>1, <2>1 DEF Store!Entry
 <2>3. <<>> \in Seq(Store!Entry) /\ Unique(<<>>, legacy)  BY DEF Unique
 <2>4. <<e>> \in Seq(Store!Entry) /\ Unique(<<e>>, legacy)  BY <2>2 DEF Unique
 <2>5. entries \in Seq(Store!Entry) /\ Unique(entries, legacy)
  <3>1. CASE legacy  BY <1>2, <2>3, <3>1
  <3>2. CASE ~legacy  BY <1>2, <2>1, <2>4, <3>2
  <3> QED  BY <3>1, <3>2
 <2>6. legacy \in BOOLEAN  BY DEF Store!Init
 <2> QED  BY <1>2, <2>5, <2>6 DEF RegistryTypes
<1>5. op \in [Procs -> Operations] /\ (\A p \in Procs : op[p] = Store!Idle) /\ ops = 0 /\ last = Store!Idle
  BY StoreIdleIs DEF Store!Init
<1>6. Operating  BY <1>5, IdleFits DEF Operating, StoreSizes
<1>7. Store!OperationsComplete /\ ClonesHold
  BY <1>5, StoreIdleIs DEF Store!OperationsComplete, ClonesHold
<1> QED  BY <1>3, <1>4, <1>6, <1>7 DEF StoreInv

\* A step keeps it.
LEMMA NextKeeps == ASSUME StoreSizes, StoreInv, Store!Next PROVE StoreInv'
<1>1. legacy' = legacy /\ StoreTypes /\ RegistryTypes  BY DEF Store!Next, StoreInv
<1>2. \A n \in StoreNames : Store!Resolve(n) \in Roots  BY <1>1, ResolveIs
<1>3. ASSUME NEW p \in Procs, NEW n \in StoreNames, Store!OpenPrefix(p, n) PROVE StoreInv'
  BY <1>1, <1>2, <1>3, BeginKeeps DEF Store!OpenPrefix
<1>4. ASSUME NEW p \in Procs, NEW n \in StoreNames, Store!DeletePrefix(p, n) PROVE StoreInv'
  BY <1>1, <1>2, <1>4, BeginKeeps DEF Store!DeletePrefix
<1>5. ASSUME NEW p \in Procs, NEW n \in StoreNames, NEW r \in Roots, Store!OpenPrefixAtRoot(p, n, r) PROVE StoreInv'
  BY <1>1, <1>5, BeginKeeps DEF Store!OpenPrefixAtRoot
<1>6. ASSUME NEW p \in Procs, NEW n \in StoreNames, NEW m \in StoreNames, NEW replace \in BOOLEAN,
             Store!ClonePrefix(p, m, n, replace)
      PROVE  StoreInv'
  BY <1>1, <1>2, <1>6, BeginKeeps DEF Store!ClonePrefix
<1>7. ASSUME NEW p \in Procs, NEW n \in StoreNames, NEW m \in StoreNames,
         NEW replace \in BOOLEAN, NEW r \in Roots,
             Store!ClonePrefixToRoot(p, m, n, r, replace)
      PROVE  StoreInv'
  BY <1>1, <1>2, <1>7, BeginKeeps DEF Store!ClonePrefixToRoot
<1>8. ASSUME NEW p \in Procs, Store!Dies(p) PROVE StoreInv'
 <2>1. op[p] # Store!Idle  BY <1>8, StoreIdleIs DEF Store!Dies
 <2>2. RegistryTypes'  BY <1>1, <1>8, RegistryKept DEF Store!Dies
 <2> QED  BY <1>1, <1>8, <2>1, <2>2, FailsKeeps DEF Store!Dies, StoreTypes
<1>9. ASSUME NEW p \in Procs,
             \/ Store!EnsureLayout(p) \/ Store!WriteToml(p) \/ Store!ReadForUpdate(p) \/ Store!Truncate(p) \/ Store!WriteEntries(p)
             \/ Store!MigrateTruncate(p) \/ Store!MigrateWrite(p)
             \/ Store!ClearDestination(p) \/ Store!CopyTree(p) \/ Store!CopyStops(p) \/ Store!RemoveTree(p)
      PROVE  StoreInv'
  BY <1>1, <1>9, EnsureLayoutKeeps, WriteTomlKeeps, ReadForUpdateKeeps, TruncateKeeps,
     WriteEntriesKeeps,
     MigrateTruncateKeeps, MigrateWriteKeeps, ClearDestinationKeeps, CopyTreeKeeps, CopyStopsKeeps, RemoveTreeKeeps
<1> QED  BY <1>3, <1>4, <1>5, <1>6, <1>7, <1>8, <1>9 DEF Store!Next

\* Stuttering keeps it.
LEMMA StutterKeeps == ASSUME StoreInv, UNCHANGED Store!vars PROVE StoreInv'
  BY DEF Store!vars, StoreInv, StoreTypes, RegistryTypes, Operating, Store!OperationsComplete,
     ClonesHold

\* It gives the types and the properties.
LEMMA StoreInvGives == ASSUME StoreInv PROVE Store!TypeOK /\ Store!StoreSound
<1>1. Store!EntriesUnique  BY DEF StoreInv, RegistryTypes, Unique, Store!EntriesUnique
<1>2. \A p \in Procs : op[p].kind \in {"idle", "open", "clone", "delete"}
  BY DEF StoreInv, Operating, Operations
<1>3. registry \in {"absent", "torn", "whole"} /\ entries \in Seq(Store!Entry) /\ legacy \in BOOLEAN
  BY DEF StoreInv, RegistryTypes
<1>4. Store!TypeOK  BY <1>2, <1>3 DEF Store!TypeOK, StoreInv, StoreTypes, Operating
<1>5. ASSUME NEW p \in Procs, op[p].kind = "clone", op[p].alone, Real[op[p].root] = op[p].root, Store!At(p, "copy")
      PROVE  dir[Real[op[p].src]] = "prefix"
 <2>1. PICK o : o = op[p]  OBVIOUS
 <2>2. Fits(o, dir, data) /\ Step(o) = "copy"
   BY <1>5, <2>1 DEF StoreInv, Operating, Step, Store!At
 <2> QED  BY <1>5, <2>1, <2>2 DEF Fits
<1>6. Store!CloneKeepsSource  BY <1>5 DEF StoreInv, ClonesHold, Store!CloneKeepsSource
<1> QED  BY <1>1, <1>4, <1>6 DEF StoreInv, Store!StoreSound

\* However the operations of several processes interleave and die, the registry
\* has no name and no root twice, an operation nobody came between has done what
\* it says, and a clone leaves its source (StoreSound); for any number of
\* processes, directories, links and names.
THEOREM StoreStaysSound == ASSUME StoreSizes PROVE Store!Spec => [](Store!TypeOK /\ Store!StoreSound)
<1>1. Store!Init => StoreInv  BY InitKeeps
<1>2. StoreInv /\ [Store!Next]_(Store!vars) => StoreInv'  BY NextKeeps, StutterKeeps
<1>3. StoreInv => Store!TypeOK /\ Store!StoreSound  BY StoreInvGives
<1> QED  BY <1>1, <1>2, <1>3, PTL DEF Store!Spec

=============================================================================
