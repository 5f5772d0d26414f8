----------------------------- MODULE HostProofs -----------------------------
(***************************************************************************)
(* Proofs about the parts of the host: the instance manager's Android      *)
(* sessions (AndroidSession), the commands of a Linux session              *)
(* (LinuxSession), the instances of a prefix (InstanceLife), the set-up of *)
(* Wine (WineSetup), the display socket (DisplaySocket), the root file     *)
(* system of a Linux prefix (LinuxRootfs), the state muplard keeps         *)
(* (MuplardState) and the channel of device actions (DeviceChannel).       *)
(* HostSystemProofs puts them together.                                    *)
(*                                                                         *)
(* The tables of the instance manager agree with the session processes of  *)
(* an Android device, for any number of tasks, apps, windows and actions   *)
(* of the user.  The manager learns of its processes through blocks that   *)
(* wait in the main queue, so no table is right at every moment.  The      *)
(* invariant says what each table is owed: a block is in the queue once    *)
(* and fits its task (Blocks); whatever the tables hold belongs to a task  *)
(* whose end is still to be handled (TablesOwed); one task at most is at   *)
(* work and not told to end (InHand); and a window that does not say       *)
(* "stopped" has a task or a preparation that will make it say so          *)
(* (OfWindow).  The last two hold as long as the two windows of time the   *)
(* model marks with raced and stale were not met.                          *)
(***************************************************************************)
EXTENDS AndroidSession, SequenceTheorems, FiniteSetTheorems, WellFoundedInduction, TLAPS

\* Tasks and windows are numbered from 1 (0 is nil), and the actions of the
\* user are counted.
Bounds ==
    /\ SessionTasks \subseteq Nat \ {0} /\ Shells \subseteq Nat \ {0}
    /\ MaxClicks \in Nat

\* The blocks in the main queue, by what they do and for which task or window.
Blk(what, x) == [what |-> what, t |-> x]
In(what, x) == \E i \in 1 .. Len(main) : main[i] = Blk(what, x)

Tasks == [at : {"none", "queued", "asking", "go", "no", "live", "dead", "gone"},
          app : SessionApps \cup {NoApp}, shell : Shells \cup {None}, posted : BOOLEAN]
Tables == [session : SessionTasks \cup {None}, pending : SessionTasks \cup {None},
           starting : BOOLEAN, cancelled : BOOLEAN, stopping : BOOLEAN,
           active : SessionApps \cup {NoApp}, launching : SUBSET SessionApps,
           shell : Shells \cup {None}]
Says == {"none", "launching", "running", "stopped"}

\* The type invariant, with the type of clicks.
Types ==
    /\ task \in [SessionTasks -> Tasks] /\ ui \in Tables
    /\ screen \in [Shells -> Says]
    /\ main \in Seq(Block) /\ preparing \in [Shells -> Nat]
    /\ term \subseteq SessionTasks /\ kills \subseteq SessionTasks
    /\ clicks \in [n : 0 .. MaxClicks, quit : BOOLEAN]
    /\ raced \in BOOLEAN /\ stale \in BOOLEAN

\* A block of a task is in the main queue once, and only while the task is
\* where that block was posted or beyond.
Begun == {"live", "dead", "gone"}
BlocksOnce ==
    \A i, j \in 1 .. Len(main) : main[i] = main[j] /\ main[i].what # "prepared" => i = j
BlocksFit(t) ==
    /\ In("ask", t) => task[t].at = "asking"
    /\ In("cancelled", t) \/ In("failed", t) \/ In("ended", t) => task[t].at = "gone"
    /\ In("started", t) => task[t].at \in Begun /\ task[t].posted
    /\ task[t].posted => task[t].at \in Begun
Blocks == BlocksOnce /\ \A t \in SessionTasks : BlocksFit(t)

\* Whatever the tables hold belongs to a task whose end will be handled.
Ending(t) == t \in SessionTasks /\ (task[t].at \in {"live", "dead"} \/ In("ended", t))
InProgress(t) == Waiting(t) \/ Ending(t) \/ (t \in SessionTasks /\ (In("cancelled", t) \/ In("failed", t)))
TaskOwed(t) ==
    /\ ui.session = t => Ending(t)
    /\ ui.pending = t => InProgress(t)
    /\ ui.stopping /\ ui.session = t /\ IsRunning(t) => t \in term
TablesOwed ==
    /\ \A t \in SessionTasks : TaskOwed(t)
    /\ ui.starting => ui.pending # None
    /\ \A a \in ui.launching : \E t \in SessionTasks : task[t].app = a /\ InProgress(t)
    /\ ui.cancelled \/ ui.stopping => \E t \in SessionTasks : Ending(t)

\* One task at most is at work and not told to end: pending until its start
\* is handled, the session from then on.
Unstarted(t) == ~task[t].posted \/ In("started", t)
AtWork(t) == Waiting(t) \/ (IsRunning(t) /\ t \notin term)
TaskInHand(t) ==
    /\ Waiting(t) => ui.pending = t /\ ~ui.cancelled /\ task[t].at # "no"
    /\ ~In("cancelled", t)
    /\ IsRunning(t) /\ Unstarted(t) => ui.pending = t \/ (clicks.quit /\ t \in term)
    /\ IsRunning(t) /\ ~Unstarted(t) => ui.session = t \/ t \in term
    /\ clicks.quit => ~AtWork(t)
    /\ ui.session = t /\ IsRunning(t) => ui.pending = None
    /\ ui.shell = None /\ (ui.session = t \/ ui.pending = t) => ~AtWork(t)
InHand ==
    /\ \A t \in SessionTasks : TaskInHand(t)
    /\ \A t, u \in SessionTasks : AtWork(t) /\ AtWork(u) => t = u
    /\ clicks.quit => ui.shell = None /\ ui.pending = None

\* The window of the device is that of the task in hand, and it says
\* "stopped" or something that is under way will make it say so.
Alive(t) == Waiting(t) \/ IsRunning(t)
WindowOwed(s) ==
    \/ screen[s] = "stopped" \/ preparing[s] > 0 \/ In("prepared", s)
    \/ \E t \in SessionTasks : task[t].shell = s /\ InProgress(t)
OfWindow ==
    \A s \in Shells : ui.shell = s =>
      /\ \A t \in SessionTasks :
            (ui.session = t \/ ui.pending = t) /\ Alive(t) => task[t].shell = s
      /\ WindowOwed(s)

TablesInv ==
    /\ Types /\ Blocks /\ TablesOwed
    /\ raced \/ InHand
    /\ raced \/ stale \/ OfWindow

----
(* The main queue. *)

\* Blocks are equal when they do the same for the same.
LEMMA BlkEqual ==
    ASSUME NEW v, NEW x, NEW w, NEW y
    PROVE  /\ Blk(v, x) = Blk(w, y) <=> v = w /\ x = y
           /\ Blk(v, x).what = v /\ Blk(v, x).t = x
BY DEF Blk

\* A block is posted that was not there, or is a "prepared" one.
LEMMA Posts ==
    ASSUME main \in Seq(Block), BlocksOnce, NEW w, NEW x, Blk(w, x) \in Block, Post(w, x),
           w # "prepared" => ~In(w, x)
    PROVE  /\ main' \in Seq(Block) /\ BlocksOnce'
           /\ \A v, y : In(v, y)' <=> In(v, y) \/ (v = w /\ y = x)
<1>1. PICK b : b = Blk(w, x)  OBVIOUS
<1>2. main' = Append(main, b) /\ b \in Block  BY <1>1 DEF Post, Blk
<1>3. /\ main' \in Seq(Block) /\ Len(main) \in Nat /\ Len(main') = Len(main) + 1
      /\ main'[Len(main) + 1] = b /\ \A i \in 1 .. Len(main) : main'[i] = main[i]
  BY <1>2
<1>4. b.what = w  BY <1>1, BlkEqual
<1>5. \A i \in 1 .. Len(main') : i \in 1 .. Len(main) \/ i = Len(main) + 1  BY <1>3
<1>6. BlocksOnce'
 <2> SUFFICES ASSUME NEW i \in 1 .. Len(main'), NEW j \in 1 .. Len(main'),
                     main'[i] = main'[j], main'[i].what # "prepared"
              PROVE  i = j
   BY DEF BlocksOnce
 <2>1. CASE i \in 1 .. Len(main) /\ j \in 1 .. Len(main)  BY <1>3, <2>1 DEF BlocksOnce
 <2>2. ASSUME NEW k \in 1 .. Len(main), main'[k] = b, w # "prepared" PROVE FALSE
   BY <1>1, <1>3, <2>2 DEF In
 <2>3. CASE i \in 1 .. Len(main) /\ j = Len(main) + 1  BY <1>3, <1>4, <2>2, <2>3
 <2>4. CASE j \in 1 .. Len(main) /\ i = Len(main) + 1  BY <1>3, <1>4, <2>2, <2>4
 <2> QED  BY <1>5, <2>1, <2>3, <2>4
<1>7. ASSUME NEW v, NEW y PROVE In(v, y)' <=> In(v, y) \/ (v = w /\ y = x)
 <2>1. ASSUME In(v, y)' PROVE In(v, y) \/ (v = w /\ y = x)
  <3>1. PICK i \in 1 .. Len(main') : main'[i] = Blk(v, y)  BY <2>1 DEF In
  <3>2. CASE i \in 1 .. Len(main)  BY <1>3, <3>1, <3>2 DEF In
  <3>3. CASE i = Len(main) + 1  BY <1>1, <1>3, <3>1, <3>3, BlkEqual
  <3> QED  BY <1>5, <3>2, <3>3
 <2>2. ASSUME In(v, y) PROVE In(v, y)'
  <3>1. PICK i \in 1 .. Len(main) : main[i] = Blk(v, y)  BY <2>2 DEF In
  <3>2. i \in 1 .. Len(main') /\ main'[i] = Blk(v, y)  BY <1>3, <3>1
  <3> QED  BY <3>2 DEF In
 <2>3. In(w, x)'
  <3>1. Len(main) + 1 \in 1 .. Len(main')  BY <1>3
  <3> QED  BY <1>1, <1>3, <3>1 DEF In
 <2> QED  BY <2>1, <2>2, <2>3
<1> QED  BY <1>3, <1>6, <1>7

\* The first block runs and is gone from the queue.
LEMMA RunsFirst ==
    ASSUME main \in Seq(Block), BlocksOnce, NEW w, Runs(w), NEW x, x = Subject
    PROVE  /\ Blk(w, x) \in Block /\ In(w, x)
           /\ main' \in Seq(Block) /\ BlocksOnce'
           /\ \A v, y : In(v, y)' => In(v, y)
           /\ \A v, y : In(v, y) => In(v, y)' \/ (v = w /\ y = x)
           /\ w # "prepared" => ~In(w, x)'
<1>1. PICK b : b = Head(main)  OBVIOUS
<1>2. main # <<>> /\ b.what = w /\ main' = Tail(main)  BY <1>1 DEF Runs
<1>3. /\ main' \in Seq(Block) /\ Len(main) \in Nat /\ Len(main) > 0 /\ Len(main') = Len(main) - 1
      /\ b \in Block /\ main[1] = b
      /\ \A i \in 1 .. Len(main') : main'[i] = main[i + 1]
  BY <1>1, <1>2
<1>4. b = Blk(w, x)
 <2>1. b = [what |-> b.what, t |-> b.t]  BY <1>3 DEF Block
 <2> QED  BY <1>1, <1>2, <2>1 DEF Blk, Subject
<1>5. In(w, x)  BY <1>3, <1>4, 1 \in 1 .. Len(main) DEF In
<1>6. BlocksOnce'
 <2> SUFFICES ASSUME NEW i \in 1 .. Len(main'), NEW j \in 1 .. Len(main'),
                     main'[i] = main'[j], main'[i].what # "prepared"
              PROVE  i = j
   BY DEF BlocksOnce
 <2>1. i + 1 \in 1 .. Len(main) /\ j + 1 \in 1 .. Len(main)  BY <1>3
 <2>2. main[i + 1] = main[j + 1] /\ main[i + 1].what # "prepared"  BY <1>3
 <2>3. i + 1 = j + 1  BY <2>1, <2>2 DEF BlocksOnce
 <2> QED  BY <2>3
<1>7. ASSUME NEW v, NEW y, In(v, y)' PROVE In(v, y)
 <2>1. PICK i \in 1 .. Len(main') : main'[i] = Blk(v, y)  BY <1>7 DEF In
 <2>2. i + 1 \in 1 .. Len(main) /\ main[i + 1] = Blk(v, y)  BY <1>3, <2>1
 <2> QED  BY <2>2 DEF In
<1>8. ASSUME NEW v, NEW y, In(v, y) PROVE In(v, y)' \/ (v = w /\ y = x)
 <2>1. PICK i \in 1 .. Len(main) : main[i] = Blk(v, y)  BY <1>8 DEF In
 <2>2. CASE i = 1  BY <1>3, <1>4, <2>1, <2>2, BlkEqual
 <2>3. CASE i # 1
  <3>1. i - 1 \in 1 .. Len(main') /\ (i - 1) + 1 = i  BY <1>3, <2>3
  <3>2. main'[i - 1] = Blk(v, y)  BY <1>3, <2>1, <3>1
  <3> QED  BY <3>1, <3>2 DEF In
 <2> QED  BY <2>2, <2>3
<1>9. ASSUME w # "prepared", In(w, x)' PROVE FALSE
 <2>1. PICK i \in 1 .. Len(main') : main'[i] = b  BY <1>4, <1>9 DEF In
 <2>2. i + 1 \in 1 .. Len(main) /\ main[i + 1] = b /\ 1 \in 1 .. Len(main) /\ i + 1 # 1
   BY <1>3, <2>1
 <2> QED  BY <1>2, <1>3, <1>9, <2>2 DEF BlocksOnce
<1> QED  BY <1>3, <1>4, <1>5, <1>6, <1>7, <1>8, <1>9

\* The task of a block that ran.
LEMMA BlockSubject ==
    ASSUME NEW w, NEW x, Blk(w, x) \in Block
    PROVE  /\ w # "prepared" => x \in SessionTasks
           /\ w = "prepared" => x \in Shells
<1>1. PICK b : b = Blk(w, x)  OBVIOUS
<1>2. b \in Block /\ b.what = w /\ b.t = x  BY <1>1, BlkEqual
<1> QED  BY <1>2 DEF Block

----
(* Steps of the background queue and of the processes. *)

\* What such a step may do to a task.
TaskMoves(t) ==
    /\ task'[t].app = task[t].app /\ task'[t].shell = task[t].shell
    /\ Ending(t) => Ending(t)'
    /\ InProgress(t) => InProgress(t)'
    /\ IsRunning(t)' => Alive(t)
    /\ Waiting(t)' => Waiting(t)
    /\ IsRunning(t)' /\ IsRunning(t) => (Unstarted(t)' <=> Unstarted(t))
    /\ IsRunning(t)' /\ Waiting(t) => Unstarted(t)'
    /\ task'[t].at = "no" => task[t].at = "no" \/ ui.cancelled
    /\ In("cancelled", t)' => In("cancelled", t) \/ task[t].at = "no"

\* A task is where one thing is true of it.
LEMMA Stages ==
    ASSUME NEW t \in SessionTasks, BlocksFit(t)
    PROVE  /\ ~(Waiting(t) /\ IsRunning(t))
           /\ ~(Waiting(t) /\ Ending(t))
           /\ Alive(t) => InProgress(t)
           /\ Ending(t) => InProgress(t)
           /\ IsRunning(t) => Ending(t)
           /\ task[t].at = "no" => Waiting(t)
BY DEF BlocksFit, Waiting, IsRunning, Ending, InProgress, Alive

\* Such a step leaves the tables true: it takes nothing out of the tables,
\* and a task it starts is the pending one.
LEMMA BackgroundKeeps ==
    ASSUME TablesInv, Types', Blocks', UNCHANGED <<ui, screen, term, clicks, raced, stale>>,
           \A t \in SessionTasks : TaskMoves(t),
           \A s \in Shells : preparing[s] > 0 \/ In("prepared", s)
                                => preparing'[s] > 0 \/ In("prepared", s)'
    PROVE  TablesInv'
<1>1. \A t \in SessionTasks : BlocksFit(t)  BY DEF TablesInv, Blocks
<1>2. TablesOwed'
 <2>1. ASSUME NEW t \in SessionTasks PROVE TaskOwed(t)'
  <3>1. TaskOwed(t) /\ TaskMoves(t)  BY DEF TablesInv, TablesOwed
  <3>2. ui.session = t => ~Waiting(t)  BY <1>1, <3>1, Stages DEF TaskOwed
  <3> QED  BY <3>1, <3>2 DEF TaskOwed, TaskMoves, Alive
 <2>2. ASSUME NEW a \in ui.launching
       PROVE  \E t \in SessionTasks : task'[t].app = a /\ InProgress(t)'
  <3>1. PICK t \in SessionTasks : task[t].app = a /\ InProgress(t)  BY DEF TablesInv, TablesOwed
  <3>2. TaskMoves(t)  OBVIOUS
  <3> QED  BY <3>1, <3>2 DEF TaskMoves
 <2>3. ASSUME ui.cancelled \/ ui.stopping PROVE \E t \in SessionTasks : Ending(t)'
  <3>1. PICK t \in SessionTasks : Ending(t)  BY <2>3 DEF TablesInv, TablesOwed
  <3>2. TaskMoves(t)  OBVIOUS
  <3> QED  BY <3>1, <3>2 DEF TaskMoves
 <2>4. ui.starting => ui.pending # None  BY DEF TablesInv, TablesOwed
 <2> QED  BY <2>1, <2>2, <2>3, <2>4 DEF TablesOwed
<1>3. ASSUME InHand PROVE InHand'
 <2>1. ASSUME NEW t \in SessionTasks PROVE TaskInHand(t)'
  <3>1. TaskInHand(t) /\ TaskMoves(t)  BY <1>3 DEF InHand
  <3>2. AtWork(t)' => AtWork(t)
   <4>1. CASE Waiting(t)'  BY <3>1, <4>1 DEF TaskMoves, AtWork
   <4>2. CASE IsRunning(t)' /\ t \notin term'  BY <3>1, <4>2 DEF TaskMoves, AtWork, Alive
   <4> QED  BY <4>1, <4>2 DEF AtWork
  <3>3. ui.session = t => ~Waiting(t)  BY <1>1, Stages DEF TablesInv, TablesOwed, TaskOwed
  <3>4. task[t].at = "no" => Waiting(t)  BY <1>1, Stages
  <3>5. (Waiting(t) => ui.pending = t /\ ~ui.cancelled /\ task[t].at # "no")'
    BY <3>1 DEF TaskInHand, TaskMoves
  <3>6. ~In("cancelled", t)'  BY <3>1, <3>4 DEF TaskInHand, TaskMoves
  <3>7. (IsRunning(t) /\ Unstarted(t) => ui.pending = t \/ (clicks.quit /\ t \in term))'
    BY <3>1 DEF TaskInHand, TaskMoves, Alive
  <3>8. (IsRunning(t) /\ ~Unstarted(t) => ui.session = t \/ t \in term)'
    BY <3>1 DEF TaskInHand, TaskMoves, Alive
  <3>9. (ui.session = t /\ IsRunning(t) => ui.pending = None)'
    BY <3>1, <3>3 DEF TaskInHand, TaskMoves, Alive
  <3>10. /\ (clicks.quit => ~AtWork(t))'
         /\ (ui.shell = None /\ (ui.session = t \/ ui.pending = t) => ~AtWork(t))'
    BY <3>1, <3>2 DEF TaskInHand
  <3> QED  BY <3>5, <3>6, <3>7, <3>8, <3>9, <3>10 DEF TaskInHand
 <2>2. \A t \in SessionTasks : AtWork(t)' => AtWork(t)  BY DEF TaskMoves, AtWork, Alive
 <2>3. \A t, u \in SessionTasks : AtWork(t)' /\ AtWork(u)' => t = u  BY <1>3, <2>2 DEF InHand
 <2>4. clicks'.quit => ui'.shell = None /\ ui'.pending = None  BY <1>3 DEF InHand
 <2> QED  BY <2>1, <2>3, <2>4 DEF InHand
<1>4. ASSUME OfWindow PROVE OfWindow'
 <2> SUFFICES ASSUME NEW s \in Shells, ui.shell = s
              PROVE  /\ \A t \in SessionTasks :
                           (ui.session = t \/ ui.pending = t) /\ Alive(t)' => task'[t].shell = s
                     /\ WindowOwed(s)'
   BY DEF OfWindow
 <2>1. ASSUME NEW t \in SessionTasks, ui.session = t \/ ui.pending = t, Alive(t)'
       PROVE  task'[t].shell = s
  <3>1. Alive(t) /\ task'[t].shell = task[t].shell  BY <2>1 DEF TaskMoves, Alive
  <3> QED  BY <1>4, <2>1, <3>1 DEF OfWindow
 <2>2. WindowOwed(s)'
  <3>1. WindowOwed(s)  BY <1>4 DEF OfWindow
  <3>2. CASE screen[s] = "stopped"  BY <3>2 DEF WindowOwed
  <3>3. CASE preparing[s] > 0 \/ In("prepared", s)  BY <3>3 DEF WindowOwed
  <3>4. ASSUME NEW t \in SessionTasks, task[t].shell = s, InProgress(t) PROVE WindowOwed(s)'
   <4>1. task'[t].shell = s /\ InProgress(t)'  BY <3>4 DEF TaskMoves
   <4> QED  BY <4>1 DEF WindowOwed
  <3> QED  BY <3>1, <3>2, <3>3, <3>4 DEF WindowOwed
 <2> QED  BY <2>1, <2>2
<1>5. (raced' \/ InHand') /\ (raced' \/ stale' \/ OfWindow')  BY <1>3, <1>4 DEF TablesInv
<1> QED  BY <1>2, <1>5 DEF TablesInv

\* One task goes to another stage, or its result is posted.
LEMMA TaskGoes ==
    ASSUME task \in [SessionTasks -> Tasks], NEW t \in SessionTasks, NEW at,
           at \in {"asking", "go", "no", "live", "dead", "gone"}, Goes(t, at)
    PROVE  /\ task' \in [SessionTasks -> Tasks]
           /\ task'[t].at = at /\ task'[t].app = task[t].app /\ task'[t].shell = task[t].shell
           /\ task'[t].posted = task[t].posted
           /\ \A u \in SessionTasks \ {t} : task'[u] = task[u]
<1>1. PICK r : r = [task[t] EXCEPT !.at = at]  OBVIOUS
<1>2. task[t] \in Tasks  OBVIOUS
<1>3. /\ r \in Tasks /\ r.at = at /\ r.app = task[t].app /\ r.shell = task[t].shell
      /\ r.posted = task[t].posted
  BY <1>1, <1>2 DEF Tasks
<1>4. task' = [task EXCEPT ![t] = r]  BY <1>1 DEF Goes
<1>5. task' \in [SessionTasks -> Tasks] /\ task'[t] = r  BY <1>3, <1>4
<1>6. \A u \in SessionTasks \ {t} : task'[u] = task[u]  BY <1>4
<1> QED  BY <1>3, <1>5, <1>6

\* A task the step is not about.
LEMMA OtherTask ==
    ASSUME NEW u \in SessionTasks, task'[u] = task[u], BlocksFit(u),
           \A v \in {"ask", "cancelled", "failed", "started", "ended"} : In(v, u)' <=> In(v, u)
    PROVE  TaskMoves(u) /\ BlocksFit(u)'
<1>1. /\ In("ask", u)' <=> In("ask", u)
      /\ In("cancelled", u)' <=> In("cancelled", u)
      /\ In("failed", u)' <=> In("failed", u)
      /\ In("started", u)' <=> In("started", u)
      /\ In("ended", u)' <=> In("ended", u)
  OBVIOUS
<1>2. BlocksFit(u)'  BY <1>1 DEF BlocksFit
<1>3. TaskMoves(u)
  BY <1>1 DEF TaskMoves, Ending, InProgress, IsRunning, Waiting, Alive, Unstarted
<1> QED  BY <1>2, <1>3

\* A task that gives up has posted its block and is gone.
LEMMA TaskGivesUp ==
    ASSUME task \in [SessionTasks -> Tasks], NEW t \in SessionTasks,
           task' = [task EXCEPT ![t].at = "gone", ![t].posted = TRUE]
    PROVE  /\ task' \in [SessionTasks -> Tasks]
           /\ task'[t].at = "gone" /\ task'[t].app = task[t].app /\ task'[t].shell = task[t].shell
           /\ task'[t].posted = TRUE
           /\ \A u \in SessionTasks \ {t} : task'[u] = task[u]
<1>1. PICK r : r = [task[t] EXCEPT !.at = "gone", !.posted = TRUE]  OBVIOUS
<1>2. task[t] \in Tasks  OBVIOUS
<1>3. /\ r \in Tasks /\ r.at = "gone" /\ r.app = task[t].app /\ r.shell = task[t].shell
      /\ r.posted = TRUE
  BY <1>1, <1>2 DEF Tasks
<1>4. task' = [task EXCEPT ![t] = r]  BY <1>1
<1>5. task' \in [SessionTasks -> Tasks] /\ task'[t] = r  BY <1>3, <1>4
<1>6. \A u \in SessionTasks \ {t} : task'[u] = task[u]  BY <1>4
<1> QED  BY <1>3, <1>5, <1>6

\* A task posts that it has started, and stays where it is.
LEMMA TaskPosted ==
    ASSUME task \in [SessionTasks -> Tasks], NEW t \in SessionTasks,
           task' = [task EXCEPT ![t].posted = TRUE]
    PROVE  /\ task' \in [SessionTasks -> Tasks]
           /\ task'[t].at = task[t].at /\ task'[t].app = task[t].app
           /\ task'[t].shell = task[t].shell /\ task'[t].posted = TRUE
           /\ \A u \in SessionTasks \ {t} : task'[u] = task[u]
<1>1. PICK r : r = [task[t] EXCEPT !.posted = TRUE]  OBVIOUS
<1>2. task[t] \in Tasks  OBVIOUS
<1>3. /\ r \in Tasks /\ r.at = task[t].at /\ r.app = task[t].app /\ r.shell = task[t].shell
      /\ r.posted = TRUE
  BY <1>1, <1>2 DEF Tasks
<1>4. task' = [task EXCEPT ![t] = r]  BY <1>1
<1>5. task' \in [SessionTasks -> Tasks] /\ task'[t] = r  BY <1>3, <1>4
<1>6. \A u \in SessionTasks \ {t} : task'[u] = task[u]  BY <1>4
<1> QED  BY <1>3, <1>5, <1>6

\* The background queue asks whether the launch was cancelled.
LEMMA AskCancelledKeeps ==
    ASSUME TablesInv, NEW t \in SessionTasks, AskCancelled(t)
    PROVE  TablesInv'
<1>1. Types /\ Blocks /\ BlocksFit(t) /\ main \in Seq(Block) /\ task \in [SessionTasks -> Tasks]
  BY DEF TablesInv, Blocks, Types
<1>2. task[t].at = "queued" /\ UNCHANGED <<ui, screen, term, clicks, raced, stale, preparing, kills>>
  BY DEF AskCancelled
<1>3. /\ task' \in [SessionTasks -> Tasks]
      /\ task'[t].at = "asking" /\ task'[t].app = task[t].app /\ task'[t].shell = task[t].shell
      /\ task'[t].posted = task[t].posted
      /\ \A u \in SessionTasks \ {t} : task'[u] = task[u]
  BY <1>1, TaskGoes DEF AskCancelled
<1>4. /\ main' \in Seq(Block) /\ BlocksOnce'
      /\ \A v, y : In(v, y)' <=> In(v, y) \/ (v = "ask" /\ y = t)
 <2>1. Blk("ask", t) \in Block  BY DEF Blk, Block
 <2>2. ~In("ask", t)  BY <1>1, <1>2 DEF BlocksFit, Begun
 <2>3. Post("ask", t)  BY DEF AskCancelled
 <2> QED  BY <1>1, <2>1, <2>2, <2>3, Posts DEF Blocks
<1>5. Types'  BY <1>1, <1>2, <1>3, <1>4 DEF Types
<1>6. \A u \in SessionTasks \ {t} : TaskMoves(u) /\ BlocksFit(u)'
  BY <1>1, <1>3, <1>4, OtherTask DEF Blocks
<1>7. BlocksFit(t)'  BY <1>1, <1>2, <1>3, <1>4 DEF BlocksFit, Begun
<1>8. TaskMoves(t)
  BY <1>1, <1>2, <1>3, <1>4 DEF BlocksFit, Begun, TaskMoves, Ending, InProgress, IsRunning,
     Waiting, Alive, Unstarted
<1>9. Blocks' /\ \A u \in SessionTasks : TaskMoves(u)  BY <1>4, <1>6, <1>7, <1>8 DEF Blocks
<1>10. \A s \in Shells : preparing[s] > 0 \/ In("prepared", s)
                            => preparing'[s] > 0 \/ In("prepared", s)'
  BY <1>2, <1>4
<1> QED  BY <1>2, <1>5, <1>9, <1>10, BackgroundKeeps

\* It was: the task is given up.
LEMMA CancelBeforeLaunchKeeps ==
    ASSUME TablesInv, NEW t \in SessionTasks, CancelBeforeLaunch(t)
    PROVE  TablesInv'
<1>1. Types /\ Blocks /\ BlocksFit(t) /\ main \in Seq(Block) /\ task \in [SessionTasks -> Tasks]
  BY DEF TablesInv, Blocks, Types
<1>2. task[t].at = "no" /\ UNCHANGED <<ui, screen, term, clicks, raced, stale, preparing, kills>>
  BY DEF CancelBeforeLaunch, GivesUp
<1>3. /\ task' \in [SessionTasks -> Tasks]
      /\ task'[t].at = "gone" /\ task'[t].app = task[t].app /\ task'[t].shell = task[t].shell
      /\ task'[t].posted = TRUE
      /\ \A u \in SessionTasks \ {t} : task'[u] = task[u]
  BY <1>1, TaskGivesUp DEF CancelBeforeLaunch, GivesUp
<1>4. /\ main' \in Seq(Block) /\ BlocksOnce'
      /\ \A v, y : In(v, y)' <=> In(v, y) \/ (v = "cancelled" /\ y = t)
 <2>1. Blk("cancelled", t) \in Block  BY DEF Blk, Block
 <2>2. ~In("cancelled", t)  BY <1>1, <1>2 DEF BlocksFit, Begun
 <2>3. Post("cancelled", t)  BY DEF CancelBeforeLaunch, GivesUp
 <2> QED  BY <1>1, <2>1, <2>2, <2>3, Posts DEF Blocks
<1>5. Types'  BY <1>1, <1>2, <1>3, <1>4 DEF Types
<1>6. \A u \in SessionTasks \ {t} : TaskMoves(u) /\ BlocksFit(u)'
  BY <1>1, <1>3, <1>4, OtherTask DEF Blocks
<1>7. BlocksFit(t)'  BY <1>1, <1>2, <1>3, <1>4 DEF BlocksFit, Begun
<1>8. TaskMoves(t)
  BY <1>1, <1>2, <1>3, <1>4 DEF BlocksFit, Begun, TaskMoves, Ending, InProgress, IsRunning,
     Waiting, Alive, Unstarted
<1>9. Blocks' /\ \A u \in SessionTasks : TaskMoves(u)  BY <1>4, <1>6, <1>7, <1>8 DEF Blocks
<1>10. \A s \in Shells : preparing[s] > 0 \/ In("prepared", s)
                            => preparing'[s] > 0 \/ In("prepared", s)'
  BY <1>2, <1>4
<1> QED  BY <1>2, <1>5, <1>9, <1>10, BackgroundKeeps

\* NSTask could not start it.
LEMMA LaunchFailsKeeps ==
    ASSUME TablesInv, NEW t \in SessionTasks, LaunchFails(t)
    PROVE  TablesInv'
<1>1. Types /\ Blocks /\ BlocksFit(t) /\ main \in Seq(Block) /\ task \in [SessionTasks -> Tasks]
  BY DEF TablesInv, Blocks, Types
<1>2. task[t].at = "go" /\ UNCHANGED <<ui, screen, term, clicks, raced, stale, preparing, kills>>
  BY DEF LaunchFails, GivesUp
<1>3. /\ task' \in [SessionTasks -> Tasks]
      /\ task'[t].at = "gone" /\ task'[t].app = task[t].app /\ task'[t].shell = task[t].shell
      /\ task'[t].posted = TRUE
      /\ \A u \in SessionTasks \ {t} : task'[u] = task[u]
  BY <1>1, TaskGivesUp DEF LaunchFails, GivesUp
<1>4. /\ main' \in Seq(Block) /\ BlocksOnce'
      /\ \A v, y : In(v, y)' <=> In(v, y) \/ (v = "failed" /\ y = t)
 <2>1. Blk("failed", t) \in Block  BY DEF Blk, Block
 <2>2. ~In("failed", t)  BY <1>1, <1>2 DEF BlocksFit, Begun
 <2>3. Post("failed", t)  BY DEF LaunchFails, GivesUp
 <2> QED  BY <1>1, <2>1, <2>2, <2>3, Posts DEF Blocks
<1>5. Types'  BY <1>1, <1>2, <1>3, <1>4 DEF Types
<1>6. \A u \in SessionTasks \ {t} : TaskMoves(u) /\ BlocksFit(u)'
  BY <1>1, <1>3, <1>4, OtherTask DEF Blocks
<1>7. BlocksFit(t)'  BY <1>1, <1>2, <1>3, <1>4 DEF BlocksFit, Begun
<1>8. TaskMoves(t)
  BY <1>1, <1>2, <1>3, <1>4 DEF BlocksFit, Begun, TaskMoves, Ending, InProgress, IsRunning,
     Waiting, Alive, Unstarted
<1>9. Blocks' /\ \A u \in SessionTasks : TaskMoves(u)  BY <1>4, <1>6, <1>7, <1>8 DEF Blocks
<1>10. \A s \in Shells : preparing[s] > 0 \/ In("prepared", s)
                            => preparing'[s] > 0 \/ In("prepared", s)'
  BY <1>2, <1>4
<1> QED  BY <1>2, <1>5, <1>9, <1>10, BackgroundKeeps

\* The process starts.
LEMMA LaunchTaskKeeps ==
    ASSUME TablesInv, NEW t \in SessionTasks, LaunchTask(t)
    PROVE  TablesInv'
<1>1. Types /\ Blocks /\ BlocksFit(t) /\ main \in Seq(Block) /\ task \in [SessionTasks -> Tasks]
  BY DEF TablesInv, Blocks, Types
<1>2. task[t].at = "go" /\ UNCHANGED <<ui, screen, term, clicks, raced, stale, preparing, kills>>
  BY DEF LaunchTask
<1>3. /\ task' \in [SessionTasks -> Tasks]
      /\ task'[t].at = "live" /\ task'[t].app = task[t].app /\ task'[t].shell = task[t].shell
      /\ task'[t].posted = task[t].posted
      /\ \A u \in SessionTasks \ {t} : task'[u] = task[u]
  BY <1>1, TaskGoes DEF LaunchTask
<1>4. /\ main' \in Seq(Block) /\ BlocksOnce'
      /\ \A v, y : In(v, y)' <=> In(v, y)
 <2>1. main' = main  BY DEF LaunchTask
 <2> QED  BY <1>1, <2>1 DEF Blocks, BlocksOnce, In
<1>5. Types'  BY <1>1, <1>2, <1>3, <1>4 DEF Types
<1>6. \A u \in SessionTasks \ {t} : TaskMoves(u) /\ BlocksFit(u)'
  BY <1>1, <1>3, <1>4, OtherTask DEF Blocks
<1>7. BlocksFit(t)'  BY <1>1, <1>2, <1>3, <1>4 DEF BlocksFit, Begun
<1>8. TaskMoves(t)
  BY <1>1, <1>2, <1>3, <1>4 DEF BlocksFit, Begun, TaskMoves, Ending, InProgress, IsRunning,
     Waiting, Alive, Unstarted
<1>9. Blocks' /\ \A u \in SessionTasks : TaskMoves(u)  BY <1>4, <1>6, <1>7, <1>8 DEF Blocks
<1>10. \A s \in Shells : preparing[s] > 0 \/ In("prepared", s)
                            => preparing'[s] > 0 \/ In("prepared", s)'
  BY <1>2, <1>4
<1> QED  BY <1>2, <1>5, <1>9, <1>10, BackgroundKeeps

\* The result of a start is posted.
LEMMA PostStartedKeeps ==
    ASSUME TablesInv, NEW t \in SessionTasks, PostStarted(t)
    PROVE  TablesInv'
<1>1. Types /\ Blocks /\ BlocksFit(t) /\ main \in Seq(Block) /\ task \in [SessionTasks -> Tasks]
  BY DEF TablesInv, Blocks, Types
<1>2. /\ task[t].at \in {"live", "dead", "gone"} /\ ~task[t].posted
      /\ UNCHANGED <<ui, screen, term, clicks, raced, stale, preparing, kills>>
  BY DEF PostStarted
<1>3. /\ task' \in [SessionTasks -> Tasks]
      /\ task'[t].at = task[t].at /\ task'[t].app = task[t].app /\ task'[t].shell = task[t].shell
      /\ task'[t].posted = TRUE
      /\ \A u \in SessionTasks \ {t} : task'[u] = task[u]
  BY <1>1, TaskPosted DEF PostStarted
<1>4. /\ main' \in Seq(Block) /\ BlocksOnce'
      /\ \A v, y : In(v, y)' <=> In(v, y) \/ (v = "started" /\ y = t)
 <2>1. Blk("started", t) \in Block  BY DEF Blk, Block
 <2>2. ~In("started", t)  BY <1>1, <1>2 DEF BlocksFit, Begun
 <2>3. Post("started", t)  BY DEF PostStarted
 <2> QED  BY <1>1, <2>1, <2>2, <2>3, Posts DEF Blocks
<1>5. Types'  BY <1>1, <1>2, <1>3, <1>4 DEF Types
<1>6. \A u \in SessionTasks \ {t} : TaskMoves(u) /\ BlocksFit(u)'
  BY <1>1, <1>3, <1>4, OtherTask DEF Blocks
<1>7. BlocksFit(t)'  BY <1>1, <1>2, <1>3, <1>4 DEF BlocksFit, Begun
<1>8. TaskMoves(t)
  BY <1>1, <1>2, <1>3, <1>4 DEF BlocksFit, Begun, TaskMoves, Ending, InProgress, IsRunning,
     Waiting, Alive, Unstarted
<1>9. Blocks' /\ \A u \in SessionTasks : TaskMoves(u)  BY <1>4, <1>6, <1>7, <1>8 DEF Blocks
<1>10. \A s \in Shells : preparing[s] > 0 \/ In("prepared", s)
                            => preparing'[s] > 0 \/ In("prepared", s)'
  BY <1>2, <1>4
<1> QED  BY <1>2, <1>5, <1>9, <1>10, BackgroundKeeps

\* The process ends.
LEMMA TaskEndsKeeps ==
    ASSUME TablesInv, NEW t \in SessionTasks, TaskEnds(t)
    PROVE  TablesInv'
<1>1. Types /\ Blocks /\ BlocksFit(t) /\ main \in Seq(Block) /\ task \in [SessionTasks -> Tasks]
  BY DEF TablesInv, Blocks, Types
<1>2. task[t].at = "live" /\ UNCHANGED <<ui, screen, term, clicks, raced, stale, preparing, kills>>
  BY DEF TaskEnds, IsRunning
<1>3. /\ task' \in [SessionTasks -> Tasks]
      /\ task'[t].at = "dead" /\ task'[t].app = task[t].app /\ task'[t].shell = task[t].shell
      /\ task'[t].posted = task[t].posted
      /\ \A u \in SessionTasks \ {t} : task'[u] = task[u]
  BY <1>1, TaskGoes DEF TaskEnds
<1>4. /\ main' \in Seq(Block) /\ BlocksOnce'
      /\ \A v, y : In(v, y)' <=> In(v, y)
 <2>1. main' = main  BY DEF TaskEnds, IsRunning
 <2> QED  BY <1>1, <2>1 DEF Blocks, BlocksOnce, In
<1>5. Types'  BY <1>1, <1>2, <1>3, <1>4 DEF Types
<1>6. \A u \in SessionTasks \ {t} : TaskMoves(u) /\ BlocksFit(u)'
  BY <1>1, <1>3, <1>4, OtherTask DEF Blocks
<1>7. BlocksFit(t)'  BY <1>1, <1>2, <1>3, <1>4 DEF BlocksFit, Begun
<1>8. TaskMoves(t)
  BY <1>1, <1>2, <1>3, <1>4 DEF BlocksFit, Begun, TaskMoves, Ending, InProgress, IsRunning,
     Waiting, Alive, Unstarted
<1>9. Blocks' /\ \A u \in SessionTasks : TaskMoves(u)  BY <1>4, <1>6, <1>7, <1>8 DEF Blocks
<1>10. \A s \in Shells : preparing[s] > 0 \/ In("prepared", s)
                            => preparing'[s] > 0 \/ In("prepared", s)'
  BY <1>2, <1>4
<1> QED  BY <1>2, <1>5, <1>9, <1>10, BackgroundKeeps

\* Its end is posted.
LEMMA TerminationHandlerKeeps ==
    ASSUME TablesInv, NEW t \in SessionTasks, TerminationHandler(t)
    PROVE  TablesInv'
<1>1. Types /\ Blocks /\ BlocksFit(t) /\ main \in Seq(Block) /\ task \in [SessionTasks -> Tasks]
  BY DEF TablesInv, Blocks, Types
<1>2. task[t].at = "dead" /\ UNCHANGED <<ui, screen, term, clicks, raced, stale, preparing, kills>>
  BY DEF TerminationHandler
<1>3. /\ task' \in [SessionTasks -> Tasks]
      /\ task'[t].at = "gone" /\ task'[t].app = task[t].app /\ task'[t].shell = task[t].shell
      /\ task'[t].posted = task[t].posted
      /\ \A u \in SessionTasks \ {t} : task'[u] = task[u]
  BY <1>1, TaskGoes DEF TerminationHandler
<1>4. /\ main' \in Seq(Block) /\ BlocksOnce'
      /\ \A v, y : In(v, y)' <=> In(v, y) \/ (v = "ended" /\ y = t)
 <2>1. Blk("ended", t) \in Block  BY DEF Blk, Block
 <2>2. ~In("ended", t)  BY <1>1, <1>2 DEF BlocksFit, Begun
 <2>3. Post("ended", t)  BY DEF TerminationHandler
 <2> QED  BY <1>1, <2>1, <2>2, <2>3, Posts DEF Blocks
<1>5. Types'  BY <1>1, <1>2, <1>3, <1>4 DEF Types
<1>6. \A u \in SessionTasks \ {t} : TaskMoves(u) /\ BlocksFit(u)'
  BY <1>1, <1>3, <1>4, OtherTask DEF Blocks
<1>7. BlocksFit(t)'  BY <1>1, <1>2, <1>3, <1>4 DEF BlocksFit, Begun
<1>8. TaskMoves(t)
  BY <1>1, <1>2, <1>3, <1>4 DEF BlocksFit, Begun, TaskMoves, Ending, InProgress, IsRunning,
     Waiting, Alive, Unstarted
<1>9. Blocks' /\ \A u \in SessionTasks : TaskMoves(u)  BY <1>4, <1>6, <1>7, <1>8 DEF Blocks
<1>10. \A s \in Shells : preparing[s] > 0 \/ In("prepared", s)
                            => preparing'[s] > 0 \/ In("prepared", s)'
  BY <1>2, <1>4
<1> QED  BY <1>2, <1>5, <1>9, <1>10, BackgroundKeeps

\* The timer ends the process, if it still runs.
LEMMA KillTimerKeeps ==
    ASSUME TablesInv, NEW t \in SessionTasks, KillTimer(t)
    PROVE  TablesInv'
<1>1. Types /\ Blocks /\ BlocksFit(t) /\ main \in Seq(Block) /\ task \in [SessionTasks -> Tasks]
  BY DEF TablesInv, Blocks, Types
<1>2. kills' = kills \ {t} /\ UNCHANGED <<ui, screen, term, clicks, raced, stale, preparing, main>>
  BY DEF KillTimer
<1>3. /\ task' \in [SessionTasks -> Tasks]
      /\ task'[t].at = (IF task[t].at = "live" THEN "dead" ELSE task[t].at)
      /\ task'[t].app = task[t].app /\ task'[t].shell = task[t].shell
      /\ task'[t].posted = task[t].posted
      /\ \A u \in SessionTasks \ {t} : task'[u] = task[u]
 <2>1. CASE task[t].at = "live"
  <3>1. Goes(t, "dead")  BY <2>1 DEF KillTimer, IsRunning
  <3> QED  BY <1>1, <2>1, <3>1, TaskGoes
 <2>2. CASE task[t].at # "live"
  <3>1. task' = task  BY <2>2 DEF KillTimer, IsRunning
  <3> QED  BY <1>1, <2>2, <3>1
 <2> QED  BY <2>1, <2>2
<1>4. BlocksOnce' /\ \A v, y : In(v, y)' <=> In(v, y)  BY <1>1, <1>2 DEF Blocks, BlocksOnce, In
<1>5. Types'  BY <1>1, <1>2, <1>3 DEF Types
<1>6. \A u \in SessionTasks \ {t} : TaskMoves(u) /\ BlocksFit(u)'
  BY <1>1, <1>3, <1>4, OtherTask DEF Blocks
<1>7. BlocksFit(t)'  BY <1>1, <1>3, <1>4 DEF BlocksFit, Begun
<1>8. TaskMoves(t)
  BY <1>1, <1>3, <1>4 DEF BlocksFit, Begun, TaskMoves, Ending, InProgress, IsRunning, Waiting,
     Alive, Unstarted
<1>9. Blocks' /\ \A u \in SessionTasks : TaskMoves(u)  BY <1>4, <1>6, <1>7, <1>8 DEF Blocks
<1>10. \A s \in Shells : preparing[s] > 0 \/ In("prepared", s)
                            => preparing'[s] > 0 \/ In("prepared", s)'
  BY <1>2, <1>4
<1> QED  BY <1>2, <1>5, <1>9, <1>10, BackgroundKeeps

\* Metadata for a refocus is there: the block that says so is posted.
LEMMA PostPreparedKeeps ==
    ASSUME TablesInv, NEW x \in Shells, PostPrepared(x)
    PROVE  TablesInv'
<1>1. Types /\ Blocks /\ main \in Seq(Block) /\ preparing \in [Shells -> Nat]
  BY DEF TablesInv, Types
<1>2. /\ preparing[x] > 0 /\ preparing' = [preparing EXCEPT ![x] = @ - 1]
      /\ UNCHANGED <<task, ui, screen, term, kills, clicks, raced, stale>>
  BY DEF PostPrepared
<1>3. /\ main' \in Seq(Block) /\ BlocksOnce'
      /\ \A v, y : In(v, y)' <=> In(v, y) \/ (v = "prepared" /\ y = x)
 <2>1. Blk("prepared", x) \in Block  BY DEF Blk, Block
 <2>2. Post("prepared", x)  BY DEF PostPrepared
 <2> QED  BY <1>1, <2>1, <2>2, Posts DEF Blocks
<1>4. preparing' \in [Shells -> Nat] /\ \A s \in Shells \ {x} : preparing'[s] = preparing[s]
  BY <1>1, <1>2
<1>5. Types'  BY <1>1, <1>2, <1>3, <1>4 DEF Types
<1>6. \A u \in SessionTasks : TaskMoves(u) /\ BlocksFit(u)'
  BY <1>1, <1>2, <1>3, OtherTask DEF Blocks
<1>7. Blocks'  BY <1>3, <1>6 DEF Blocks
<1>8. \A s \in Shells : preparing[s] > 0 \/ In("prepared", s)
                            => preparing'[s] > 0 \/ In("prepared", s)'
  BY <1>3, <1>4
<1> QED  BY <1>2, <1>5, <1>6, <1>7, <1>8, BackgroundKeeps

\* The main queue answers: the task is let go, or not.
LEMMA RunAskKeeps ==
    ASSUME TablesInv, RunAsk
    PROVE  TablesInv'
<1>1. Types /\ Blocks /\ main \in Seq(Block) /\ task \in [SessionTasks -> Tasks]
  BY DEF TablesInv, Types
<1>2. PICK t : t = Subject  OBVIOUS
<1>3. /\ Blk("ask", t) \in Block /\ In("ask", t)
      /\ main' \in Seq(Block) /\ BlocksOnce'
      /\ \A v, y : In(v, y)' => In(v, y)
      /\ \A v, y : In(v, y) => In(v, y)' \/ (v = "ask" /\ y = t)
      /\ ~In("ask", t)'
  BY <1>1, <1>2, RunsFirst DEF RunAsk, Blocks
<1>4. t \in SessionTasks  BY <1>3, BlockSubject
<1>5. BlocksFit(t) /\ task[t].at = "asking"  BY <1>1, <1>3, <1>4 DEF Blocks, BlocksFit
<1>6. PICK at : at = IF ui.cancelled THEN "no" ELSE "go"  OBVIOUS
<1>7. Goes(t, at) /\ UNCHANGED <<ui, screen, preparing, term, kills, clicks, raced, stale>>
  BY <1>2, <1>6 DEF RunAsk
<1>8. /\ task' \in [SessionTasks -> Tasks]
      /\ task'[t].at = at /\ task'[t].app = task[t].app /\ task'[t].shell = task[t].shell
      /\ task'[t].posted = task[t].posted
      /\ \A u \in SessionTasks \ {t} : task'[u] = task[u]
  BY <1>1, <1>4, <1>6, <1>7, TaskGoes
<1>9. Types'  BY <1>1, <1>3, <1>7, <1>8 DEF Types
<1>10. \A u \in SessionTasks \ {t} : TaskMoves(u) /\ BlocksFit(u)'
  BY <1>1, <1>3, <1>8, OtherTask DEF Blocks
<1>11. /\ In("cancelled", t)' <=> In("cancelled", t)
       /\ In("failed", t)' <=> In("failed", t)
       /\ In("started", t)' <=> In("started", t)
       /\ In("ended", t)' <=> In("ended", t)
  BY <1>3
<1>12. BlocksFit(t)'  BY <1>3, <1>5, <1>8, <1>11 DEF BlocksFit, Begun
<1>13. TaskMoves(t)
  BY <1>4, <1>5, <1>6, <1>8, <1>11 DEF BlocksFit, Begun, TaskMoves, Ending, InProgress, IsRunning,
     Waiting, Alive, Unstarted
<1>14. Blocks' /\ \A u \in SessionTasks : TaskMoves(u)  BY <1>3, <1>10, <1>12, <1>13 DEF Blocks
<1>15. \A s \in Shells : preparing[s] > 0 \/ In("prepared", s)
                            => preparing'[s] > 0 \/ In("prepared", s)'
  BY <1>3, <1>7
<1> QED  BY <1>7, <1>9, <1>14, <1>15, BackgroundKeeps

----
(* What the user does. *)

\* No task and no window is 0.
LEMMA NoneIsNone ==
    ASSUME Bounds
    PROVE  None \notin SessionTasks /\ None \notin Shells
BY DEF Bounds, None

\* The user has one more click, and the application does not quit.
LEMMA Clicks ==
    ASSUME Bounds, Types, Click
    PROVE  clicks' \in [n : 0 .. MaxClicks, quit : BOOLEAN] /\ ~clicks.quit /\ ~clicks'.quit
<1>1. clicks \in [n : 0 .. MaxClicks, quit : BOOLEAN]  BY DEF Types
<1>2. clicks.n < MaxClicks /\ ~clicks.quit /\ clicks' = [clicks EXCEPT !.n = @ + 1]  BY DEF Click
<1>3. PICK k : k = clicks.n  OBVIOUS
<1>4. k \in 0 .. MaxClicks /\ k < MaxClicks  BY <1>1, <1>2, <1>3
<1>5. k + 1 \in 0 .. MaxClicks  BY <1>4 DEF Bounds
<1>6. clicks' = [n |-> k + 1, quit |-> clicks.quit]  BY <1>1, <1>2, <1>3
<1> QED  BY <1>1, <1>2, <1>5, <1>6

\* A step that leaves the tasks and the main queue alone leaves them where
\* they are.
LEMMA SameTasks ==
    ASSUME task' = task, main' = main
    PROVE  /\ \A v, y : In(v, y)' <=> In(v, y)
           /\ \A t : /\ Waiting(t)' <=> Waiting(t)
                     /\ IsRunning(t)' <=> IsRunning(t)
                     /\ Ending(t)' <=> Ending(t)
                     /\ InProgress(t)' <=> InProgress(t)
                     /\ Unstarted(t)' <=> Unstarted(t)
                     /\ Alive(t)' <=> Alive(t)
           /\ Blocks => Blocks'
<1>1. \A v, y : In(v, y)' <=> In(v, y)  BY DEF In
<1>2. \A t : /\ Waiting(t)' <=> Waiting(t)
             /\ IsRunning(t)' <=> IsRunning(t)
             /\ Unstarted(t)' <=> Unstarted(t)
             /\ Ending(t)' <=> Ending(t)
  BY <1>1 DEF Waiting, IsRunning, Unstarted, Ending
<1>3. \A t : /\ InProgress(t)' <=> InProgress(t)
             /\ Alive(t)' <=> Alive(t)
  BY <1>1, <1>2 DEF InProgress, Alive
<1>4. \A t : BlocksFit(t) => BlocksFit(t)'  BY <1>1 DEF BlocksFit
<1>5. Blocks => Blocks'  BY <1>4 DEF Blocks, BlocksOnce
<1> QED  BY <1>1, <1>2, <1>3, <1>5

\* Apps that are launching keep the task that will end that.
LEMMA LaunchingKept ==
    ASSUME TablesOwed, task' = task, main' = main, ui'.launching \subseteq ui.launching
    PROVE  \A a \in ui'.launching : \E t \in SessionTasks : task'[t].app = a /\ InProgress(t)'
BY SameTasks DEF TablesOwed

\* A launch is given to the session: its window is the one it had, or the
\* session had been told to end.
LEMMA RefocusKeeps ==
    ASSUME Bounds, TablesInv, NEW a \in SessionApps, NEW s \in Shells, ShellFor(s), Click, Refocus(a, s)
    PROVE  TablesInv'
<1>1. Types /\ Blocks /\ TablesOwed  BY DEF TablesInv
<1>2. /\ ui' = [ui EXCEPT !.shell = s, !.active = a, !.cancelled = FALSE, !.stopping = FALSE]
      /\ screen' = [screen EXCEPT ![s] = "launching"]
      /\ preparing' = [preparing EXCEPT ![s] = @ + 1]
      /\ stale' = (stale \/ ui.session \in term \/ ui.pending \in term)
      /\ UNCHANGED <<task, main, term, kills, raced>>
  BY DEF Refocus
<1>3. /\ clicks' \in [n : 0 .. MaxClicks, quit : BOOLEAN] /\ ~clicks.quit /\ ~clicks'.quit
  BY <1>1, Clicks
<1>4. /\ ui' \in Tables
      /\ ui'.shell = s /\ ui'.cancelled = FALSE /\ ui'.stopping = FALSE
      /\ ui'.session = ui.session /\ ui'.pending = ui.pending /\ ui'.starting = ui.starting
      /\ ui'.launching = ui.launching
 <2>1. ui \in Tables  BY <1>1 DEF Types
 <2> QED  BY <1>2, <2>1 DEF Tables
<1>5. preparing' \in [Shells -> Nat] /\ preparing'[s] > 0
 <2>1. preparing \in [Shells -> Nat]  BY <1>1 DEF Types
 <2> QED  BY <1>2, <2>1
<1>6. Types'
 <2>1. screen' \in [Shells -> Says]  BY <1>1, <1>2 DEF Types, Says
 <2>2. stale' \in BOOLEAN  BY <1>2
 <2> QED  BY <1>1, <1>2, <1>3, <1>4, <1>5, <2>1, <2>2 DEF Types
<1>7. Blocks' /\ TablesOwed'
 <2>1. \A t \in SessionTasks : TaskOwed(t)'
   BY <1>1, <1>2, <1>4, SameTasks DEF TablesOwed, TaskOwed
 <2>2. ui'.starting => ui'.pending # None  BY <1>1, <1>4 DEF TablesOwed
 <2>3. \A b \in ui'.launching : \E t \in SessionTasks : task'[t].app = b /\ InProgress(t)'
   BY <1>1, <1>2, <1>4, LaunchingKept
 <2> QED  BY <1>1, <1>2, <1>4, <2>1, <2>2, <2>3, SameTasks DEF TablesOwed
<1>8. ASSUME InHand PROVE InHand'
 <2>1. \A t : AtWork(t)' <=> AtWork(t)  BY <1>2, SameTasks DEF AtWork
 <2>2. ASSUME NEW t \in SessionTasks PROVE TaskInHand(t)'
  <3>1. TaskInHand(t)  BY <1>8 DEF InHand
  <3>2. s # None  BY NoneIsNone
  <3> QED  BY <1>2, <1>3, <1>4, <2>1, <3>1, <3>2, SameTasks DEF TaskInHand
 <2> QED  BY <1>3, <1>8, <2>1, <2>2 DEF InHand
<1>9. ASSUME InHand, ~stale', OfWindow PROVE OfWindow'
 <2>1. WindowOwed(s)'  BY <1>5 DEF WindowOwed
 <2>2. ASSUME NEW t \in SessionTasks, ui.session = t \/ ui.pending = t, Alive(t)
       PROVE  task[t].shell = s
  <3>1. CASE ui.shell # None
   <4>1. ui.shell = s  BY <3>1 DEF ShellFor
   <4> QED  BY <1>9, <2>2, <4>1 DEF OfWindow
  <3>2. CASE ui.shell = None
   <4>1. ~AtWork(t)  BY <1>9, <2>2, <3>2 DEF InHand, TaskInHand
   <4>2. t \in term  BY <2>2, <4>1 DEF AtWork, Alive
   <4> QED  BY <1>2, <1>9, <2>2, <4>2
  <3> QED  BY <3>1, <3>2
 <2> QED  BY <1>2, <1>4, <2>1, <2>2, SameTasks DEF OfWindow
<1>10. (raced' \/ InHand') /\ (raced' \/ stale' \/ OfWindow')
 <2>1. stale => stale'  BY <1>2
 <2> QED  BY <1>2, <1>8, <1>9, <2>1 DEF TablesInv
<1> QED  BY <1>6, <1>7, <1>10 DEF TablesInv

\* A launch is refused: the window says so.
LEMMA RefuseKeeps ==
    ASSUME Bounds, TablesInv, NEW a \in SessionApps, NEW s \in Shells, ShellFor(s), Click, Refuse(a, s)
    PROVE  TablesInv'
<1>1. Types /\ Blocks /\ TablesOwed  BY DEF TablesInv
<1>2. /\ ~IsRunning(ui.session) /\ ui.pending = None
      /\ ui' = [ui EXCEPT !.shell = s]
      /\ screen' = [screen EXCEPT ![s] = "stopped"]
      /\ UNCHANGED <<task, main, preparing, term, kills, raced, stale>>
  BY DEF Refuse
<1>3. /\ clicks' \in [n : 0 .. MaxClicks, quit : BOOLEAN] /\ ~clicks.quit /\ ~clicks'.quit
  BY <1>1, Clicks
<1>4. /\ ui' \in Tables
      /\ ui'.shell = s /\ ui'.cancelled = ui.cancelled /\ ui'.stopping = ui.stopping
      /\ ui'.session = ui.session /\ ui'.pending = ui.pending /\ ui'.starting = ui.starting
      /\ ui'.launching = ui.launching
 <2>1. ui \in Tables  BY <1>1 DEF Types
 <2> QED  BY <1>2, <2>1 DEF Tables
<1>5. screen' \in [Shells -> Says] /\ screen'[s] = "stopped"  BY <1>1, <1>2 DEF Types, Says
<1>6. Types'  BY <1>1, <1>2, <1>3, <1>4, <1>5 DEF Types
<1>7. Blocks' /\ TablesOwed'
 <2>1. \A t \in SessionTasks : TaskOwed(t)'
   BY <1>1, <1>2, <1>4, SameTasks DEF TablesOwed, TaskOwed
 <2>2. ui'.starting => ui'.pending # None  BY <1>1, <1>4 DEF TablesOwed
 <2>3. \A b \in ui'.launching : \E t \in SessionTasks : task'[t].app = b /\ InProgress(t)'
   BY <1>1, <1>2, <1>4, LaunchingKept
 <2>4. ui'.cancelled \/ ui'.stopping => \E t \in SessionTasks : Ending(t)'
   BY <1>1, <1>2, <1>4, SameTasks DEF TablesOwed
 <2> QED  BY <1>1, <1>2, <2>1, <2>2, <2>3, <2>4, SameTasks DEF TablesOwed
<1>8. ASSUME InHand PROVE InHand'
 <2>1. \A t : AtWork(t)' <=> AtWork(t)  BY <1>2, SameTasks DEF AtWork
 <2>2. ASSUME NEW t \in SessionTasks PROVE TaskInHand(t)'
  <3>1. TaskInHand(t)  BY <1>8 DEF InHand
  <3>2. s # None  BY NoneIsNone
  <3> QED  BY <1>2, <1>3, <1>4, <2>1, <3>1, <3>2, SameTasks DEF TaskInHand
 <2> QED  BY <1>3, <1>8, <2>1, <2>2 DEF InHand
<1>9. OfWindow'
 <2>1. WindowOwed(s)'  BY <1>5 DEF WindowOwed
 <2>2. ASSUME NEW t \in SessionTasks, ui.session = t \/ ui.pending = t, Alive(t)
       PROVE  FALSE
  <3>1. ui.session = t  BY <1>2, <2>2, NoneIsNone
  <3>2. Ending(t) /\ BlocksFit(t)  BY <1>1, <3>1 DEF TablesOwed, TaskOwed, Blocks
  <3> QED  BY <1>2, <2>2, <3>1, <3>2, Stages DEF Alive
 <2> QED  BY <1>2, <1>4, <2>1, <2>2, SameTasks DEF OfWindow
<1> QED  BY <1>2, <1>6, <1>7, <1>8, <1>9 DEF TablesInv

\* A new session: nothing else is at work, and the new task is pending.
LEMMA NewSessionKeeps ==
    ASSUME Bounds, TablesInv, NEW a \in SessionApps, NEW s \in Shells, ShellFor(s), Click, NewSession(a, s)
    PROVE  TablesInv'
<1>1. Types /\ Blocks /\ TablesOwed /\ task \in [SessionTasks -> Tasks] /\ ui \in Tables
  BY DEF TablesInv, Types
<1>2. PICK t \in SessionTasks :
        /\ Unused(t)
        /\ task' = [task EXCEPT ![t] = [at |-> "queued", app |-> a, shell |-> s, posted |-> FALSE]]
        /\ ui' = [ui EXCEPT !.shell = s, !.launching = @ \cup {a}, !.active = a,
                            !.pending = t, !.starting = TRUE, !.cancelled = FALSE]
  BY DEF NewSession
<1>3. /\ ~IsRunning(ui.session) /\ ui.pending = None /\ ~ui.stopping /\ task[t].at = "none"
      /\ screen' = [screen EXCEPT ![s] = "launching"]
      /\ UNCHANGED <<main, preparing, term, kills, raced, stale>>
  BY <1>2 DEF NewSession, Unused
<1>4. /\ clicks' \in [n : 0 .. MaxClicks, quit : BOOLEAN] /\ ~clicks.quit /\ ~clicks'.quit
  BY <1>1, Clicks
<1>5. /\ ui' \in Tables
      /\ ui'.shell = s /\ ui'.cancelled = FALSE /\ ~ui'.stopping
      /\ ui'.session = ui.session /\ ui'.pending = t
      /\ ui'.launching = ui.launching \cup {a}
  BY <1>1, <1>2, <1>3 DEF Tables
<1>6. /\ task' \in [SessionTasks -> Tasks]
      /\ task'[t].at = "queued" /\ task'[t].app = a /\ task'[t].shell = s /\ task'[t].posted = FALSE
      /\ \A u \in SessionTasks \ {t} : task'[u] = task[u]
 <2>1. PICK r : r = [at |-> "queued", app |-> a, shell |-> s, posted |-> FALSE]  OBVIOUS
 <2>2. r \in Tasks /\ r.at = "queued" /\ r.app = a /\ r.shell = s /\ r.posted = FALSE
   BY <2>1 DEF Tasks
 <2>3. task' = [task EXCEPT ![t] = r]  BY <1>2, <2>1
 <2> QED  BY <1>1, <2>2, <2>3
<1>7. Types'
 <2>1. screen' \in [Shells -> Says]  BY <1>1, <1>3 DEF Types, Says
 <2> QED  BY <1>1, <1>3, <1>4, <1>5, <1>6, <2>1 DEF Types
<1>8. \A v, y : In(v, y)' <=> In(v, y)  BY <1>3 DEF In
<1>9. /\ ~In("ask", t) /\ ~In("cancelled", t) /\ ~In("failed", t) /\ ~In("started", t)
      /\ ~In("ended", t)
  BY <1>1, <1>3 DEF Blocks, BlocksFit, Begun
<1>10. /\ Waiting(t)' /\ ~IsRunning(t)' /\ InProgress(t)'
       /\ ~Waiting(t) /\ ~IsRunning(t) /\ ~Ending(t) /\ ~InProgress(t)
  BY <1>3, <1>6, <1>8, <1>9 DEF Waiting, IsRunning, Ending, InProgress
<1>11. ASSUME NEW u \in SessionTasks \ {t}
       PROVE  /\ Waiting(u)' <=> Waiting(u)
              /\ IsRunning(u)' <=> IsRunning(u)
              /\ Ending(u)' <=> Ending(u)
              /\ InProgress(u)' <=> InProgress(u)
              /\ Unstarted(u)' <=> Unstarted(u)
  BY <1>6, <1>8 DEF Waiting, IsRunning, Ending, InProgress, Unstarted
<1>12. Blocks'
 <2>1. BlocksFit(t)'  BY <1>6, <1>8, <1>9 DEF BlocksFit
 <2>2. \A u \in SessionTasks \ {t} : BlocksFit(u)'  BY <1>1, <1>6, <1>8 DEF Blocks, BlocksFit
 <2>3. BlocksOnce'  BY <1>1, <1>3 DEF Blocks, BlocksOnce
 <2> QED  BY <2>1, <2>2, <2>3 DEF Blocks
<1>13. ui.session # t  BY <1>1, <1>10 DEF TablesOwed, TaskOwed
<1>14. TablesOwed'
 <2>1. TaskOwed(t)'  BY <1>5, <1>10, <1>13 DEF TaskOwed
 <2>2. ASSUME NEW u \in SessionTasks \ {t} PROVE TaskOwed(u)'
   BY <1>1, <1>5, <1>11 DEF TablesOwed, TaskOwed
 <2>3. ASSUME NEW b \in ui'.launching
       PROVE  \E u \in SessionTasks : task'[u].app = b /\ InProgress(u)'
  <3>1. CASE b = a  BY <1>6, <1>10, <3>1
  <3>2. CASE b \in ui.launching
   <4>1. PICK u \in SessionTasks : task[u].app = b /\ InProgress(u)
     BY <1>1, <3>2 DEF TablesOwed
   <4>2. u # t  BY <1>10, <4>1
   <4> QED  BY <1>6, <1>11, <4>1, <4>2
  <3> QED  BY <1>5, <3>1, <3>2
 <2>4. ui'.pending # None  BY <1>5, NoneIsNone
 <2> QED  BY <1>5, <2>1, <2>2, <2>3, <2>4 DEF TablesOwed
<1>15. ASSUME InHand PROVE InHand'
 <2>1. ASSUME NEW u \in SessionTasks PROVE ~AtWork(u)
  <3>1. TaskInHand(u) /\ u # None  BY <1>15, NoneIsNone DEF InHand
  <3>2. ~Waiting(u)  BY <1>3, <3>1 DEF TaskInHand
  <3>3. IsRunning(u) /\ u \notin term => FALSE  BY <1>3, <1>4, <3>1 DEF TaskInHand
  <3> QED  BY <3>2, <3>3 DEF AtWork
 <2>2. \A u \in SessionTasks \ {t} : ~AtWork(u)'  BY <1>3, <1>11, <2>1 DEF AtWork
 <2>3. s # None  BY NoneIsNone
 <2>4. TaskInHand(t)'  BY <1>4, <1>5, <1>6, <1>8, <1>9, <1>10, <1>13, <2>3 DEF TaskInHand
 <2>5. ASSUME NEW u \in SessionTasks \ {t} PROVE TaskInHand(u)'
  <3>1. TaskInHand(u) /\ u # None /\ ~AtWork(u)  BY <1>15, <2>1, NoneIsNone DEF InHand
  <3>2. ~Waiting(u)' /\ (IsRunning(u)' => u \in term)  BY <1>11, <3>1 DEF AtWork
  <3>3. IsRunning(u)' => ~Unstarted(u)' /\ ui'.session # u
    BY <1>3, <1>4, <1>5, <1>11, <3>1 DEF TaskInHand
  <3>4. ~In("cancelled", u)'  BY <1>8, <3>1 DEF TaskInHand
  <3> QED  BY <1>3, <1>4, <1>5, <2>3, <3>2, <3>3, <3>4 DEF TaskInHand
 <2>6. \A v, w \in SessionTasks : AtWork(v)' /\ AtWork(w)' => v = w  BY <2>2
 <2> QED  BY <1>4, <2>4, <2>5, <2>6 DEF InHand
<1>16. OfWindow'
 <2>1. WindowOwed(s)'  BY <1>6, <1>10 DEF WindowOwed
 <2>2. ASSUME NEW u \in SessionTasks, ui'.session = u \/ ui'.pending = u, Alive(u)'
       PROVE  task'[u].shell = s
  <3>1. CASE u = t  BY <1>6, <3>1
  <3>2. CASE u # t
   <4>1. ui.session = u /\ Alive(u)  BY <1>5, <1>11, <2>2, <3>2 DEF Alive
   <4>2. Ending(u) /\ BlocksFit(u)  BY <1>1, <4>1 DEF TablesOwed, TaskOwed, Blocks
   <4> QED  BY <1>3, <4>1, <4>2, Stages DEF Alive
  <3> QED  BY <3>1, <3>2
 <2> QED  BY <1>5, <2>1, <2>2 DEF OfWindow
<1> QED  BY <1>3, <1>7, <1>12, <1>14, <1>15, <1>16 DEF TablesInv

\* The tables with the marks and the window taken away.
LEMMA ClearedTables ==
    ASSUME NEW u \in Tables, NEW w, w = [Cleared(u) EXCEPT !.shell = None]
    PROVE  /\ w \in Tables /\ w.shell = None /\ w.session = None /\ w.pending = None
           /\ w.starting = FALSE /\ w.cancelled = FALSE /\ w.stopping = FALSE
           /\ w.launching = u.launching
BY DEF Tables, Cleared

\* A window is closed, with the tables u: what still runs is told to end.
LEMMA ClosedKeeps ==
    ASSUME Bounds, TablesInv, Click, NEW u \in Tables, NEW e \in SUBSET SessionTasks, Closed(u, e),
           UNCHANGED <<task, screen, main, preparing, stale>>,
           u.pending = ui.pending, u.starting = ui.starting, u.launching = ui.launching,
           \/ u.session = ui.session
           \/ u.session = None /\ (IsRunning(ui.session) => ui.session \in e)
    PROVE  TablesInv'
<1>1. Types /\ Blocks /\ TablesOwed  BY DEF TablesInv
<1>2. /\ clicks' \in [n : 0 .. MaxClicks, quit : BOOLEAN] /\ ~clicks.quit /\ ~clicks'.quit
  BY <1>1, Clicks
<1>3. /\ ui' = CloseHandler(u).ui /\ term' = term \cup e \cup CloseHandler(u).ends
      /\ kills' = kills \cup e \cup CloseHandler(u).ends
      /\ raced' = (raced \/ \E t \in SessionTasks : Waiting(t))
  BY DEF Closed
<1>4. PICK x : x = IF IsRunning(u.session) THEN u.session ELSE u.pending  OBVIOUS
<1>5. CASE IsRunning(x)
 <2>1. /\ CloseHandler(u) = [ui |-> [u EXCEPT !.cancelled = TRUE, !.stopping = TRUE, !.shell = None],
                             ends |-> {x}]
   BY <1>4, <1>5 DEF CloseHandler
 <2>2. /\ ui' \in Tables /\ ui'.shell = None /\ ui'.session = u.session
       /\ ui'.pending = ui.pending /\ ui'.starting = ui.starting /\ ui'.launching = ui.launching
  <3>1. PICK w : w = [u EXCEPT !.cancelled = TRUE, !.stopping = TRUE, !.shell = None]  OBVIOUS
  <3>2. ui' = w  BY <1>3, <2>1, <3>1
  <3>3. /\ w \in Tables /\ w.shell = None /\ w.session = u.session /\ w.pending = u.pending
        /\ w.starting = u.starting /\ w.launching = u.launching
    BY <3>1 DEF Tables
  <3> QED  BY <3>2, <3>3
 <2>3. term' = term \cup e \cup {x} /\ kills' = kills \cup e \cup {x} /\ x \in SessionTasks
   BY <1>3, <1>5, <2>1 DEF IsRunning
 <2>4. Types'
  <3>1. raced' \in BOOLEAN  BY <1>3
  <3> QED  BY <1>1, <1>2, <2>2, <2>3, <3>1 DEF Types
 <2>5. Ending(x)  BY <1>1, <1>5, <2>3, Stages DEF Blocks
 <2>6. ASSUME NEW t \in SessionTasks, ui'.session = t, IsRunning(t) PROVE t = x
   BY <1>4, <2>2, <2>6
 <2>7. TablesOwed'
  <3>1. ASSUME NEW t \in SessionTasks PROVE TaskOwed(t)'
   <4>1. TaskOwed(t) /\ t # None  BY <1>1, NoneIsNone DEF TablesOwed
   <4>2. ui'.session = t => ui.session = t  BY <2>2, <4>1
   <4> QED  BY <2>2, <2>3, <2>6, <4>1, <4>2, SameTasks DEF TaskOwed
  <3>2. \A a \in ui'.launching : \E t \in SessionTasks : task'[t].app = a /\ InProgress(t)'
    BY <1>1, <2>2, LaunchingKept
  <3>3. \E t \in SessionTasks : Ending(t)'  BY <2>3, <2>5, SameTasks
  <3>4. ui'.starting => ui'.pending # None  BY <1>1, <2>2 DEF TablesOwed
  <3> QED  BY <3>1, <3>2, <3>3, <3>4 DEF TablesOwed
 <2>8. ASSUME InHand, ~\E t \in SessionTasks : Waiting(t) PROVE InHand'
  <3>1. \A t \in SessionTasks : AtWork(t)' => AtWork(t)  BY <2>3, SameTasks DEF AtWork
  <3>2. ASSUME NEW t \in SessionTasks PROVE TaskInHand(t)'
   <4>1. TaskInHand(t) /\ ~Waiting(t) /\ t # None  BY <2>8, NoneIsNone DEF InHand
   <4>2. ui'.session = t => ui.session = t  BY <2>2, <4>1
   <4>3. IsRunning(t) /\ ~Unstarted(t) => ui'.session = t \/ t \in term'
     BY <2>2, <2>3, <4>1 DEF TaskInHand
   <4>4. ASSUME IsRunning(t), ui.pending = t PROVE t \in term'
    <5>1. ~IsRunning(u.session)
     <6>1. u.session \in SessionTasks /\ IsRunning(u.session) => ui.pending = None
       BY <2>8, NoneIsNone DEF InHand, TaskInHand
     <6> QED  BY <4>1, <4>4, <6>1 DEF IsRunning
    <5> QED  BY <1>4, <2>3, <4>4, <5>1
   <4>5. (ui'.session = t \/ ui'.pending = t) => ~AtWork(t)'
     BY <2>2, <2>3, <2>6, <4>1, <4>4, SameTasks DEF AtWork
   <4> QED  BY <1>2, <2>2, <2>3, <4>1, <4>2, <4>3, <4>5, SameTasks DEF TaskInHand
  <3>3. \A t, v \in SessionTasks : AtWork(t)' /\ AtWork(v)' => t = v  BY <2>8, <3>1 DEF InHand
  <3> QED  BY <1>2, <3>2, <3>3 DEF InHand
 <2>9. OfWindow'  BY <2>2, NoneIsNone DEF OfWindow
 <2> QED  BY <1>1, <1>3, <2>4, <2>7, <2>8, <2>9, SameTasks DEF TablesInv
<1>6. CASE ~IsRunning(x)
 <2>1. ~IsRunning(u.session) /\ ~IsRunning(u.pending)  BY <1>4, <1>6
 <2>2. CloseHandler(u) = [ui |-> [Cleared(u) EXCEPT !.shell = None], ends |-> {}]
   BY <2>1 DEF CloseHandler
 <2>3. /\ ui' \in Tables /\ ui'.shell = None /\ ui'.session = None /\ ui'.pending = None
       /\ ui'.starting = FALSE /\ ui'.cancelled = FALSE /\ ui'.stopping = FALSE
       /\ ui'.launching = ui.launching
  <3>1. PICK w : w = [Cleared(u) EXCEPT !.shell = None]  OBVIOUS
  <3>2. ui' = w  BY <1>3, <2>2, <3>1
  <3>3. /\ w \in Tables /\ w.shell = None /\ w.session = None /\ w.pending = None
        /\ w.starting = FALSE /\ w.cancelled = FALSE /\ w.stopping = FALSE
        /\ w.launching = u.launching
    BY <3>1, ClearedTables
  <3> QED  BY <3>2, <3>3
 <2>4. term' = term \cup e /\ kills' = kills \cup e  BY <1>3, <2>2
 <2>5. Types'
  <3>1. raced' \in BOOLEAN  BY <1>3
  <3> QED  BY <1>1, <1>2, <2>3, <2>4, <3>1 DEF Types
 <2>6. TablesOwed'
  <3>1. \A t \in SessionTasks : TaskOwed(t)'  BY <2>3, NoneIsNone DEF TaskOwed
  <3>2. \A a \in ui'.launching : \E t \in SessionTasks : task'[t].app = a /\ InProgress(t)'
    BY <1>1, <2>3, LaunchingKept
  <3> QED  BY <2>3, <3>1, <3>2 DEF TablesOwed
 <2>7. ASSUME InHand, ~\E t \in SessionTasks : Waiting(t) PROVE InHand'
  <3>1. \A t \in SessionTasks : AtWork(t)' => AtWork(t)  BY <2>4, SameTasks DEF AtWork
  <3>2. ASSUME NEW t \in SessionTasks PROVE TaskInHand(t)'
   <4>1. TaskInHand(t) /\ ~Waiting(t) /\ t # None  BY <2>7, NoneIsNone DEF InHand
   <4>2. IsRunning(t) => t \in term'  BY <1>2, <2>1, <2>4, <4>1 DEF TaskInHand
   <4>3. IsRunning(t) => ~Unstarted(t)  BY <1>2, <2>1, <4>1 DEF TaskInHand
   <4> QED  BY <1>2, <2>3, <4>1, <4>2, <4>3, SameTasks DEF TaskInHand
  <3>3. \A t, v \in SessionTasks : AtWork(t)' /\ AtWork(v)' => t = v  BY <2>7, <3>1 DEF InHand
  <3> QED  BY <1>2, <3>2, <3>3 DEF InHand
 <2>8. OfWindow'  BY <2>3, NoneIsNone DEF OfWindow
 <2> QED  BY <1>1, <1>3, <2>5, <2>6, <2>7, <2>8, SameTasks DEF TablesInv
<1> QED  BY <1>5, <1>6

\* The close button.
LEMMA CloseWindowKeeps ==
    ASSUME Bounds, TablesInv, CloseWindow
    PROVE  TablesInv'
<1>1. PICK u : u = ui  OBVIOUS
<1>2. u \in Tables /\ {} \in SUBSET SessionTasks  BY <1>1 DEF TablesInv, Types
<1>3. Click /\ Closed(u, {}) /\ UNCHANGED <<task, screen, main, preparing, stale>>
  BY <1>1 DEF CloseWindow
<1> QED  BY <1>1, <1>2, <1>3, ClosedKeeps

\* The session is told to end, or ended and forgotten, with no window open.
LEMMA EndedKeeps ==
    ASSUME Bounds, TablesInv, Click, ui.shell = None, NEW e \in SUBSET SessionTasks,
           term' = term \cup e, kills' = kills \cup e, raced' = raced, ui' \in Tables,
           UNCHANGED <<task, screen, main, preparing, stale>>,
           /\ ui'.pending = ui.pending /\ ui'.starting = ui.starting
           /\ ui'.launching = ui.launching /\ ui'.cancelled = ui.cancelled
           /\ ui'.stopping = ui.stopping /\ ui'.shell = ui.shell,
           \/ ui'.session = ui.session
           \/ ui'.session = None /\ (IsRunning(ui.session) => ui.session \in e)
    PROVE  TablesInv'
<1>1. Types /\ Blocks /\ TablesOwed  BY DEF TablesInv
<1>2. /\ clicks' \in [n : 0 .. MaxClicks, quit : BOOLEAN] /\ ~clicks.quit /\ ~clicks'.quit
  BY <1>1, Clicks
<1>3. Types'  BY <1>1, <1>2 DEF Types
<1>4. TablesOwed'
 <2>1. ASSUME NEW t \in SessionTasks PROVE TaskOwed(t)'
  <3>1. TaskOwed(t) /\ t # None  BY <1>1, NoneIsNone DEF TablesOwed
  <3>2. ui'.session = t => ui.session = t  BY <3>1
  <3> QED  BY <3>1, <3>2, SameTasks DEF TaskOwed
 <2>2. \A a \in ui'.launching : \E t \in SessionTasks : task'[t].app = a /\ InProgress(t)'
   BY <1>1, LaunchingKept
 <2>3. ui'.cancelled \/ ui'.stopping => \E t \in SessionTasks : Ending(t)'
   BY <1>1, SameTasks DEF TablesOwed
 <2>4. ui'.starting => ui'.pending # None  BY <1>1 DEF TablesOwed
 <2> QED  BY <2>1, <2>2, <2>3, <2>4 DEF TablesOwed
<1>5. ASSUME InHand PROVE InHand'
 <2>1. \A t \in SessionTasks : AtWork(t)' => AtWork(t)  BY SameTasks DEF AtWork
 <2>2. ASSUME NEW t \in SessionTasks PROVE TaskInHand(t)'
  <3>1. TaskInHand(t) /\ t # None  BY <1>5, NoneIsNone DEF InHand
  <3>2. ui'.session = t => ui.session = t  BY <3>1
  <3>3. IsRunning(t) /\ ~Unstarted(t) => ui'.session = t \/ t \in term'  BY <3>1 DEF TaskInHand
  <3> QED  BY <1>2, <2>1, <3>1, <3>2, <3>3, SameTasks DEF TaskInHand
 <2>3. \A t, v \in SessionTasks : AtWork(t)' /\ AtWork(v)' => t = v  BY <1>5, <2>1 DEF InHand
 <2> QED  BY <1>2, <2>2, <2>3 DEF InHand
<1>6. OfWindow'  BY NoneIsNone DEF OfWindow
<1> QED  BY <1>1, <1>3, <1>4, <1>5, <1>6, SameTasks DEF TablesInv

\* The stop button of an app that runs.
LEMMA StopAppKeeps ==
    ASSUME Bounds, TablesInv, NEW a \in SessionApps, StopApp(a)
    PROVE  TablesInv'
<1>1. IsRunning(ui.session)  BY DEF StopApp, StatusForApp
<1>2. PICK e : e = {ui.session}  OBVIOUS
<1>3. e \in SUBSET SessionTasks  BY <1>1, <1>2 DEF IsRunning
<1>4. Click /\ UNCHANGED <<task, screen, main, preparing, stale>>  BY DEF StopApp
<1>5. CASE ui.shell # None
 <2>1. PICK u : u = ui  OBVIOUS
 <2>2. u \in Tables  BY <2>1 DEF TablesInv, Types
 <2>3. Closed(u, e)  BY <1>2, <1>5, <2>1 DEF StopApp
 <2> QED  BY <1>3, <1>4, <2>1, <2>2, <2>3, ClosedKeeps
<1>6. CASE ui.shell = None
 <2>1. term' = term \cup e /\ kills' = kills \cup e /\ ui' = ui /\ raced' = raced
   BY <1>2, <1>6 DEF StopApp
 <2>2. ui' \in Tables  BY <2>1 DEF TablesInv, Types
 <2> QED  BY <1>3, <1>4, <1>6, <2>1, <2>2, EndedKeeps
<1> QED  BY <1>5, <1>6

\* The prefix is deleted with its session.
LEMMA DeletePrefixKeeps ==
    ASSUME Bounds, TablesInv, DeletePrefix
    PROVE  TablesInv'
<1>1. PICK e : e = {t \in {ui.session} : IsRunning(t)}  OBVIOUS
<1>2. PICK u : u = [ui EXCEPT !.session = None]  OBVIOUS
<1>3. e \in SUBSET SessionTasks /\ (IsRunning(ui.session) => ui.session \in e)
  BY <1>1 DEF IsRunning
<1>4. /\ u \in Tables /\ u.session = None /\ u.pending = ui.pending /\ u.starting = ui.starting
      /\ u.launching = ui.launching /\ u.cancelled = ui.cancelled /\ u.stopping = ui.stopping
      /\ u.shell = ui.shell
 <2>1. ui \in Tables  BY DEF TablesInv, Types
 <2> QED  BY <1>2, <2>1 DEF Tables
<1>5. Click /\ UNCHANGED <<task, screen, main, preparing, stale>>  BY DEF DeletePrefix
<1>6. CASE ui.shell # None
 <2>1. Closed(u, e)  BY <1>1, <1>2, <1>6 DEF DeletePrefix
 <2> QED  BY <1>3, <1>4, <1>5, <2>1, ClosedKeeps
<1>7. CASE ui.shell = None
 <2>1. term' = term \cup e /\ kills' = kills \cup e /\ ui' = u /\ raced' = raced
   BY <1>1, <1>2, <1>7 DEF DeletePrefix
 <2> QED  BY <1>3, <1>4, <1>5, <1>7, <2>1, EndedKeeps
<1> QED  BY <1>6, <1>7

\* The application quits: all that runs is told to end.
LEMMA QuitKeeps ==
    ASSUME Bounds, TablesInv, Quit
    PROVE  TablesInv'
<1>1. Types /\ Blocks /\ TablesOwed  BY DEF TablesInv
<1>2. PICK e : e = {t \in {ui.session, ui.pending} : IsRunning(t)}  OBVIOUS
<1>3. /\ ui' = [Cleared(ui) EXCEPT !.shell = None] /\ term' = term \cup e
      /\ clicks' = [clicks EXCEPT !.quit = TRUE]
      /\ raced' = (raced \/ \E t \in SessionTasks : Waiting(t))
      /\ UNCHANGED <<task, screen, main, preparing, kills, stale>>
  BY <1>2 DEF Quit
<1>4. /\ ui' \in Tables /\ ui'.shell = None /\ ui'.session = None /\ ui'.pending = None
      /\ ui'.starting = FALSE /\ ui'.cancelled = FALSE /\ ui'.stopping = FALSE
      /\ ui'.launching = ui.launching
 <2>1. PICK u : u = ui  OBVIOUS
 <2>2. u \in Tables  BY <1>1, <2>1 DEF Types
 <2>3. PICK w : w = [Cleared(u) EXCEPT !.shell = None]  OBVIOUS
 <2>4. ui' = w  BY <1>3, <2>1, <2>3
 <2> QED  BY <2>1, <2>2, <2>3, <2>4, ClearedTables
<1>5. e \subseteq SessionTasks  BY <1>2 DEF IsRunning
<1>6. clicks' \in [n : 0 .. MaxClicks, quit : BOOLEAN] /\ clicks'.quit
 <2>1. clicks \in [n : 0 .. MaxClicks, quit : BOOLEAN]  BY <1>1 DEF Types
 <2> QED  BY <1>3, <2>1
<1>7. Types'
 <2>1. raced' \in BOOLEAN  BY <1>3
 <2> QED  BY <1>1, <1>3, <1>4, <1>5, <1>6, <2>1 DEF Types
<1>8. TablesOwed'
 <2>1. \A t \in SessionTasks : TaskOwed(t)'  BY <1>4, NoneIsNone DEF TaskOwed
 <2>2. \A a \in ui'.launching : \E t \in SessionTasks : task'[t].app = a /\ InProgress(t)'
   BY <1>1, <1>3, <1>4, LaunchingKept
 <2> QED  BY <1>4, <2>1, <2>2 DEF TablesOwed
<1>9. ASSUME InHand, ~\E t \in SessionTasks : Waiting(t) PROVE InHand'
 <2>1. ASSUME NEW t \in SessionTasks PROVE TaskInHand(t)' /\ ~AtWork(t)'
  <3>1. TaskInHand(t) /\ ~Waiting(t) /\ t # None  BY <1>9, NoneIsNone DEF InHand
  <3>2. IsRunning(t) => t \in term'  BY <1>2, <1>3, <3>1 DEF TaskInHand
  <3>3. ~AtWork(t)'  BY <1>3, <3>1, <3>2, SameTasks DEF AtWork
  <3> QED  BY <1>3, <1>4, <1>6, <3>1, <3>2, <3>3, SameTasks DEF TaskInHand
 <2> QED  BY <1>4, <2>1 DEF InHand
<1>10. OfWindow'  BY <1>4, NoneIsNone DEF OfWindow
<1> QED  BY <1>1, <1>3, <1>7, <1>8, <1>9, <1>10, SameTasks DEF TablesInv

----
(* The blocks of the main queue. *)

\* A block ran: what it means for the tasks that it is gone.
LEMMA BlockRan ==
    ASSUME Types, Blocks, task' = task, NEW w, Runs(w), NEW t, t = Subject,
           w \in {"cancelled", "failed", "started", "ended", "prepared"}
    PROVE  /\ main' \in Seq(Block) /\ Blocks'
           /\ w # "prepared" => t \in SessionTasks /\ In(w, t)
           /\ w = "prepared" => t \in Shells
           /\ \A u : /\ Waiting(u)' <=> Waiting(u)
                     /\ IsRunning(u)' <=> IsRunning(u)
                     /\ Alive(u)' <=> Alive(u)
                     /\ In("cancelled", u)' => In("cancelled", u)
                     /\ Ending(u) /\ ~(w = "ended" /\ u = t) => Ending(u)'
                     /\ InProgress(u) /\ ~(w \in {"cancelled", "failed", "ended"} /\ u = t)
                           => InProgress(u)'
                     /\ ~(w = "started" /\ u = t) => (Unstarted(u)' <=> Unstarted(u))
                     /\ In("prepared", u) /\ ~(w = "prepared" /\ u = t) => In("prepared", u)'
           /\ w = "started" => ~Unstarted(t)' /\ task[t].at \in Begun
           /\ w \in {"cancelled", "failed", "ended"} => ~Waiting(t) /\ ~IsRunning(t)
<1>1. main \in Seq(Block) /\ BlocksOnce  BY DEF Types, Blocks
<1>2. /\ Blk(w, t) \in Block /\ In(w, t)
      /\ main' \in Seq(Block) /\ BlocksOnce'
      /\ \A v, y : In(v, y)' => In(v, y)
      /\ \A v, y : In(v, y) => In(v, y)' \/ (v = w /\ y = t)
      /\ w # "prepared" => ~In(w, t)'
  BY <1>1, RunsFirst
<1>3. (w # "prepared" => t \in SessionTasks) /\ (w = "prepared" => t \in Shells)
  BY <1>2, BlockSubject
<1>4. \A u \in SessionTasks : BlocksFit(u)'  BY <1>2 DEF Blocks, BlocksFit
<1>5. Blocks'  BY <1>2, <1>4 DEF Blocks
<1>6. ASSUME NEW u
      PROVE  /\ Waiting(u)' <=> Waiting(u)
             /\ IsRunning(u)' <=> IsRunning(u)
             /\ Alive(u)' <=> Alive(u)
  BY DEF Waiting, IsRunning, Alive
<1>7. ASSUME NEW u
      PROVE  /\ In("cancelled", u)' => In("cancelled", u)
             /\ Ending(u) /\ ~(w = "ended" /\ u = t) => Ending(u)'
             /\ In("prepared", u) /\ ~(w = "prepared" /\ u = t) => In("prepared", u)'
  BY <1>2 DEF Ending
<1>8. ASSUME NEW u, InProgress(u), ~(w \in {"cancelled", "failed", "ended"} /\ u = t)
      PROVE  InProgress(u)'
  BY <1>2, <1>6, <1>7, <1>8 DEF InProgress
<1>9. ASSUME NEW u, ~(w = "started" /\ u = t) PROVE Unstarted(u)' <=> Unstarted(u)
  BY <1>2, <1>9 DEF Unstarted
<1>10. w = "started" => ~Unstarted(t)' /\ task[t].at \in Begun
  BY <1>2, <1>3 DEF Blocks, BlocksFit, Unstarted
<1>11. w \in {"cancelled", "failed", "ended"} => ~Waiting(t) /\ ~IsRunning(t)
  BY <1>2, <1>3 DEF Blocks, BlocksFit, Waiting, IsRunning
<1> QED  BY <1>2, <1>3, <1>5, <1>6, <1>7, <1>8, <1>9, <1>10, <1>11

\* A block takes out of the tables what belongs to a task that does not run.
TakenOut(w, t) ==
    /\ Runs(w) /\ w \in {"cancelled", "failed", "started", "ended"}
    /\ w = "started" => ~IsRunning(t)
    /\ UNCHANGED <<task, preparing, term, kills, clicks, raced, stale>>
    /\ ui' \in Tables /\ screen' \in [Shells -> Says]
    /\ ui'.pending = (IF ui.pending = t THEN None ELSE ui.pending)
    /\ ui'.starting = FALSE
    /\ ui'.launching = ui.launching \ {task[t].app}
    /\ ui'.shell = ui.shell
    /\ ui'.cancelled => ui.cancelled
    /\ ui'.stopping => ui.stopping
    /\ w = "ended" => ~ui'.cancelled /\ ~ui'.stopping
    /\ ui'.session = (IF w = "ended" /\ ui.session = t THEN None ELSE ui.session)
    /\ w # "cancelled" =>
          \A s \in Shells : ui.shell = s =>
             /\ screen[s] = "stopped" => screen'[s] = "stopped"
             /\ w \in {"failed", "ended"} /\ task[t].shell = s => screen'[s] = "stopped"

\* Such a block leaves the tables true of the other tasks.
LEMMA TaskDone ==
    ASSUME Bounds, TablesInv, NEW w, NEW t, t = Subject, TakenOut(w, t)
    PROVE  TablesInv'
<1> USE DEF TakenOut
<1>1. Types /\ Blocks /\ TablesOwed  BY DEF TablesInv
<1>2. /\ main' \in Seq(Block) /\ Blocks' /\ t \in SessionTasks /\ In(w, t)
      /\ \A u : /\ Waiting(u)' <=> Waiting(u)
                /\ IsRunning(u)' <=> IsRunning(u)
                /\ Alive(u)' <=> Alive(u)
                /\ In("cancelled", u)' => In("cancelled", u)
                /\ Ending(u) /\ ~(w = "ended" /\ u = t) => Ending(u)'
                /\ InProgress(u) /\ ~(w \in {"cancelled", "failed", "ended"} /\ u = t)
                      => InProgress(u)'
                /\ ~(w = "started" /\ u = t) => (Unstarted(u)' <=> Unstarted(u))
                /\ In("prepared", u) => In("prepared", u)'
      /\ w = "started" => task[t].at \in Begun
      /\ w \in {"cancelled", "failed", "ended"} => ~Waiting(t) /\ ~IsRunning(t)
  BY <1>1, BlockRan
<1>3. ~Waiting(t) /\ ~IsRunning(t) /\ t # None  BY <1>2, NoneIsNone DEF Waiting, Begun
<1>4. Types'  BY <1>1, <1>2 DEF Types
<1>5. TablesOwed'
 <2>1. ASSUME NEW u \in SessionTasks PROVE TaskOwed(u)'
  <3>1. TaskOwed(u) /\ u # None  BY <1>1, NoneIsNone DEF TablesOwed
  <3>2. ui'.session = u => ui.session = u /\ ~(w = "ended" /\ u = t)  BY <3>1
  <3>3. ui'.pending = u => ui.pending = u /\ u # t  BY <3>1
  <3> QED  BY <1>2, <3>1, <3>2, <3>3 DEF TaskOwed
 <2>2. ASSUME NEW b \in ui'.launching
       PROVE  \E u \in SessionTasks : task'[u].app = b /\ InProgress(u)'
  <3>1. b \in ui.launching /\ b # task[t].app  OBVIOUS
  <3>2. PICK u \in SessionTasks : task[u].app = b /\ InProgress(u)  BY <1>1, <3>1 DEF TablesOwed
  <3>3. u # t  BY <3>1, <3>2
  <3> QED  BY <1>2, <3>2, <3>3
 <2>3. ui'.cancelled \/ ui'.stopping => \E u \in SessionTasks : Ending(u)'
   BY <1>1, <1>2 DEF TablesOwed
 <2> QED  BY <2>1, <2>2, <2>3 DEF TablesOwed
<1>6. ASSUME InHand PROVE InHand'
 <2>1. \A u \in SessionTasks : AtWork(u)' => AtWork(u)  BY <1>2 DEF AtWork
 <2>2. ASSUME NEW u \in SessionTasks PROVE TaskInHand(u)'
  <3>1. TaskInHand(u) /\ u # None  BY <1>6, NoneIsNone DEF InHand
  <3>2. Waiting(u)' => u # t /\ ui'.pending = u /\ ~ui'.cancelled /\ task'[u].at # "no"
    BY <1>2, <1>3, <3>1 DEF TaskInHand
  <3>3. IsRunning(u)' => u # t /\ (Unstarted(u)' <=> Unstarted(u))  BY <1>2, <1>3
  <3>4. /\ ui'.session = u => ui.session = u
        /\ ui.session = u /\ u # t => ui'.session = u
        /\ ui'.pending = u => ui.pending = u
        /\ ui.pending = u /\ u # t => ui'.pending = u
        /\ ui.pending = None => ui'.pending = None
    BY <3>1
  <3>5. ~In("cancelled", u)'  BY <1>2, <3>1 DEF TaskInHand
  <3>6. (IsRunning(u) /\ Unstarted(u) => ui.pending = u \/ (clicks.quit /\ u \in term))'
    BY <1>2, <3>1, <3>3, <3>4 DEF TaskInHand
  <3>7. (IsRunning(u) /\ ~Unstarted(u) => ui.session = u \/ u \in term)'
    BY <1>2, <3>1, <3>3, <3>4 DEF TaskInHand
  <3>8. /\ (clicks.quit => ~AtWork(u))'
        /\ (ui.session = u /\ IsRunning(u) => ui.pending = None)'
        /\ (ui.shell = None /\ (ui.session = u \/ ui.pending = u) => ~AtWork(u))'
    BY <1>2, <2>1, <3>1, <3>4 DEF TaskInHand
  <3> QED  BY <3>2, <3>5, <3>6, <3>7, <3>8 DEF TaskInHand
 <2>3. \A u, v \in SessionTasks : AtWork(u)' /\ AtWork(v)' => u = v  BY <1>6, <2>1 DEF InHand
 <2>4. clicks'.quit => ui'.shell = None /\ ui'.pending = None  BY <1>6 DEF InHand
 <2> QED  BY <2>2, <2>3, <2>4 DEF InHand
<1>7. ASSUME InHand, OfWindow PROVE OfWindow'
 <2>1. w # "cancelled"  BY <1>2, <1>7 DEF InHand, TaskInHand
 <2> SUFFICES ASSUME NEW s \in Shells, ui.shell = s
              PROVE  /\ \A u \in SessionTasks :
                           (ui'.session = u \/ ui'.pending = u) /\ Alive(u)' => task'[u].shell = s
                     /\ WindowOwed(s)'
   BY DEF OfWindow
 <2>2. ASSUME NEW u \in SessionTasks, ui'.session = u \/ ui'.pending = u, Alive(u)'
       PROVE  task'[u].shell = s
  <3>1. ui.session = u \/ ui.pending = u  BY <2>2, NoneIsNone
  <3> QED  BY <1>2, <1>7, <2>2, <3>1 DEF OfWindow
 <2>3. WindowOwed(s)'
  <3>1. WindowOwed(s)  BY <1>7 DEF OfWindow
  <3>2. CASE screen[s] = "stopped"  BY <2>1, <3>2 DEF WindowOwed
  <3>3. CASE preparing[s] > 0 \/ In("prepared", s)  BY <1>2, <3>3 DEF WindowOwed
  <3>4. ASSUME NEW u \in SessionTasks, task[u].shell = s, InProgress(u) PROVE WindowOwed(s)'
   <4>1. CASE w \in {"failed", "ended"} /\ u = t
    <5>1. screen'[s] = "stopped"  BY <2>1, <3>4, <4>1
    <5> QED  BY <5>1 DEF WindowOwed
   <4>2. CASE ~(w \in {"failed", "ended"} /\ u = t)
    <5>1. InProgress(u)' /\ task'[u].shell = s  BY <1>2, <2>1, <3>4, <4>2
    <5> QED  BY <5>1 DEF WindowOwed
   <4> QED  BY <4>1, <4>2
  <3> QED  BY <3>1, <3>2, <3>3, <3>4 DEF WindowOwed
 <2> QED  BY <2>2, <2>3
<1>8. (raced' \/ InHand') /\ (raced' \/ stale' \/ OfWindow')  BY <1>6, <1>7 DEF TablesInv
<1> QED  BY <1>2, <1>4, <1>5, <1>8 DEF TablesInv

\* The tables without a task that is not pending any more.
LEMMA UnlaunchedTables ==
    ASSUME NEW t, t = Subject, ui \in Tables, NEW w, w = Unlaunched(Unpended(ui, t), t)
    PROVE  /\ w \in Tables
           /\ w.pending = (IF ui.pending = t THEN None ELSE ui.pending) /\ w.starting = FALSE
           /\ w.launching = ui.launching \ {task[t].app}
           /\ w.shell = ui.shell /\ w.session = ui.session
           /\ w.cancelled = ui.cancelled /\ w.stopping = ui.stopping
<1>1. PICK v : v = Unpended(ui, t)  OBVIOUS
<1>2. /\ v \in Tables
      /\ v.pending = (IF ui.pending = t THEN None ELSE ui.pending) /\ v.starting = FALSE
      /\ v.launching = ui.launching
      /\ v.shell = ui.shell /\ v.session = ui.session
      /\ v.cancelled = ui.cancelled /\ v.stopping = ui.stopping
  BY <1>1 DEF Unpended, Tables
<1>3. w = [v EXCEPT !.launching = @ \ {task[t].app}]  BY <1>1 DEF Unlaunched
<1> QED  BY <1>2, <1>3 DEF Tables


\* What a window says is replaced.
LEMMA ScreenSays ==
    ASSUME screen \in [Shells -> Says], NEW s, NEW v \in Says,
           screen' = [screen EXCEPT ![s] = v]
    PROVE  /\ screen' \in [Shells -> Says]
           /\ s \in Shells => screen'[s] = v
           /\ \A r \in Shells : r # s => screen'[r] = screen[r]
OBVIOUS

\* The launch was cancelled before its task was started.
LEMMA RunCancelledKeeps ==
    ASSUME Bounds, TablesInv, RunCancelled
    PROVE  TablesInv'
<1>1. PICK t : t = Subject  OBVIOUS
<1>2. PICK w : w = Unlaunched(Unpended(ui, t), t)  OBVIOUS
<1>3. ui \in Tables /\ screen \in [Shells -> Says]  BY DEF TablesInv, Types
<1>4. /\ w \in Tables
      /\ w.pending = (IF ui.pending = t THEN None ELSE ui.pending) /\ w.starting = FALSE
      /\ w.launching = ui.launching \ {task[t].app}
      /\ w.shell = ui.shell /\ w.session = ui.session
  BY <1>1, <1>2, <1>3, UnlaunchedTables
<1>5. /\ Runs("cancelled") /\ UNCHANGED <<task, screen, preparing, term, kills, clicks, raced, stale>>
      /\ ui' = [w EXCEPT !.cancelled = FALSE, !.stopping = FALSE, !.active = NoApp]
  BY <1>1, <1>2 DEF RunCancelled
<1>6. /\ ui' \in Tables
      /\ ui'.pending = w.pending /\ ui'.starting = w.starting /\ ui'.launching = w.launching
      /\ ui'.shell = w.shell /\ ui'.session = w.session /\ ~ui'.cancelled /\ ~ui'.stopping
  BY <1>4, <1>5 DEF Tables
<1> QED
 <2>1. PICK k : k = "cancelled"  OBVIOUS
 <2>2. /\ Runs(k) /\ k \in {"cancelled", "failed", "started", "ended"}
       /\ k = "started" => ~IsRunning(t)
       /\ UNCHANGED <<task, preparing, term, kills, clicks, raced, stale>>
       /\ ui' \in Tables /\ screen' \in [Shells -> Says]
   BY <2>1, <1>3, <1>4, <1>5, <1>6
 <2>3. /\ ui'.pending = (IF ui.pending = t THEN None ELSE ui.pending)
       /\ ui'.starting = FALSE
       /\ ui'.launching = ui.launching \ {task[t].app}
       /\ ui'.shell = ui.shell
   BY <1>3, <1>4, <1>5, <1>6
 <2>4. /\ ui'.cancelled => ui.cancelled
       /\ ui'.stopping => ui.stopping
       /\ k = "ended" => ~ui'.cancelled /\ ~ui'.stopping
   BY <2>1, <1>3, <1>4, <1>5, <1>6
 <2>5. ui'.session = (IF k = "ended" /\ ui.session = t THEN None ELSE ui.session)
   BY <2>1, <1>3, <1>4, <1>5, <1>6
 <2>6. k # "cancelled" =>
          \A s \in Shells : ui.shell = s =>
             /\ screen[s] = "stopped" => screen'[s] = "stopped"
             /\ k \in {"failed", "ended"} /\ task[t].shell = s => screen'[s] = "stopped"
   BY <2>1, <1>3, <1>4, <1>5, <1>6
 <2>7. TakenOut(k, t)  BY <2>2, <2>3, <2>4, <2>5, <2>6 DEF TakenOut
 <2> QED  BY <1>1, <2>7, TaskDone

\* The task could not be started: its window says so.
LEMMA RunFailedKeeps ==
    ASSUME Bounds, TablesInv, RunFailed
    PROVE  TablesInv'
<1>1. PICK t : t = Subject  OBVIOUS
<1>2. PICK w : w = Unlaunched(Unpended(ui, t), t)  OBVIOUS
<1>3. ui \in Tables /\ screen \in [Shells -> Says]  BY DEF TablesInv, Types
<1>4. /\ w \in Tables
      /\ w.pending = (IF ui.pending = t THEN None ELSE ui.pending) /\ w.starting = FALSE
      /\ w.launching = ui.launching \ {task[t].app}
      /\ w.shell = ui.shell /\ w.session = ui.session
      /\ w.cancelled = ui.cancelled /\ w.stopping = ui.stopping
  BY <1>1, <1>2, <1>3, UnlaunchedTables
<1>5. /\ Runs("failed") /\ UNCHANGED <<task, preparing, term, kills, clicks, raced, stale>>
      /\ ui' = [w EXCEPT !.cancelled = FALSE, !.active = NoApp]
      /\ screen' = [screen EXCEPT ![task[t].shell] = "stopped"]
  BY <1>1, <1>2 DEF RunFailed
<1>6. /\ ui' \in Tables
      /\ ui'.pending = w.pending /\ ui'.starting = w.starting /\ ui'.launching = w.launching
      /\ ui'.shell = w.shell /\ ui'.session = w.session /\ ~ui'.cancelled
      /\ ui'.stopping = w.stopping
  BY <1>4, <1>5 DEF Tables
<1>7. PICK s : s = task[t].shell  OBVIOUS
<1>8. /\ screen' \in [Shells -> Says]
      /\ s \in Shells => screen'[s] = "stopped"
      /\ \A r \in Shells : r # s => screen'[r] = screen[r]
 <2>1. "stopped" \in Says /\ screen' = [screen EXCEPT ![s] = "stopped"]  BY <1>5, <1>7 DEF Says
 <2> QED  BY <1>3, <2>1, ScreenSays
<1> QED
 <2>1. PICK k : k = "failed"  OBVIOUS
 <2>2. /\ Runs(k) /\ k \in {"cancelled", "failed", "started", "ended"}
       /\ k = "started" => ~IsRunning(t)
       /\ UNCHANGED <<task, preparing, term, kills, clicks, raced, stale>>
       /\ ui' \in Tables /\ screen' \in [Shells -> Says]
   BY <2>1, <1>4, <1>5, <1>6, <1>7, <1>8
 <2>3. /\ ui'.pending = (IF ui.pending = t THEN None ELSE ui.pending)
       /\ ui'.starting = FALSE
       /\ ui'.launching = ui.launching \ {task[t].app}
       /\ ui'.shell = ui.shell
   BY <1>4, <1>5, <1>6, <1>7, <1>8
 <2>4. /\ ui'.cancelled => ui.cancelled
       /\ ui'.stopping => ui.stopping
       /\ k = "ended" => ~ui'.cancelled /\ ~ui'.stopping
   BY <2>1, <1>4, <1>5, <1>6, <1>7, <1>8
 <2>5. ui'.session = (IF k = "ended" /\ ui.session = t THEN None ELSE ui.session)
   BY <2>1, <1>4, <1>5, <1>6, <1>7, <1>8
 <2>6. k # "cancelled" =>
          \A r \in Shells : ui.shell = r =>
             /\ screen[r] = "stopped" => screen'[r] = "stopped"
             /\ k \in {"failed", "ended"} /\ task[t].shell = r => screen'[r] = "stopped"
   BY <2>1, <1>4, <1>5, <1>6, <1>7, <1>8
 <2>7. TakenOut(k, t)  BY <2>2, <2>3, <2>4, <2>5, <2>6 DEF TakenOut
 <2> QED  BY <1>1, <2>7, TaskDone

\* A task that ended: its entries are cleared, and its window says so.
LEMMA RunEndedKeeps ==
    ASSUME Bounds, TablesInv, RunEnded
    PROVE  TablesInv'
<1>1. PICK t : t = Subject  OBVIOUS
<1>2. PICK w : w = Unlaunched(Unpended(ui, t), t)  OBVIOUS
<1>3. ui \in Tables /\ screen \in [Shells -> Says]  BY DEF TablesInv, Types
<1>4. /\ w \in Tables
      /\ w.pending = (IF ui.pending = t THEN None ELSE ui.pending) /\ w.starting = FALSE
      /\ w.launching = ui.launching \ {task[t].app}
      /\ w.shell = ui.shell /\ w.session = ui.session
  BY <1>1, <1>2, <1>3, UnlaunchedTables
<1>5. /\ Runs("ended") /\ UNCHANGED <<task, preparing, term, kills, clicks, raced, stale>>
      /\ ui' = [w EXCEPT !.session = IF @ = t THEN None ELSE @,
                         !.active = IF @ = task[t].app THEN NoApp ELSE @,
                         !.cancelled = FALSE, !.stopping = FALSE]
      /\ screen' = IF ui.shell = task[t].shell /\ ui.shell # None
                   THEN [screen EXCEPT ![ui.shell] = "stopped"] ELSE screen
  BY <1>1, <1>2 DEF RunEnded, AfterEnd
<1>6. /\ ui' \in Tables
      /\ ui'.pending = w.pending /\ ui'.starting = w.starting /\ ui'.launching = w.launching
      /\ ui'.shell = w.shell /\ ui'.session = (IF w.session = t THEN None ELSE w.session)
      /\ ~ui'.cancelled /\ ~ui'.stopping
  BY <1>4, <1>5 DEF Tables
<1>7. /\ screen' \in [Shells -> Says]
      /\ \A s \in Shells : ui.shell = s =>
            /\ screen[s] = "stopped" => screen'[s] = "stopped"
            /\ task[t].shell = s => screen'[s] = "stopped"
 <2>1. CASE ui.shell = task[t].shell /\ ui.shell # None
  <3>1. PICK s : s = ui.shell  OBVIOUS
  <3>2. "stopped" \in Says /\ screen' = [screen EXCEPT ![s] = "stopped"]
    BY <1>5, <2>1, <3>1 DEF Says
  <3>3. /\ screen' \in [Shells -> Says]
        /\ s \in Shells => screen'[s] = "stopped"
    BY <1>3, <3>2, ScreenSays
  <3> QED  BY <3>1, <3>3
 <2>2. CASE ~(ui.shell = task[t].shell /\ ui.shell # None)  BY <1>3, <1>5, <2>2, NoneIsNone
 <2> QED  BY <2>1, <2>2
<1> QED
 <2>1. PICK k : k = "ended"  OBVIOUS
 <2>2. /\ Runs(k) /\ k \in {"cancelled", "failed", "started", "ended"}
       /\ k = "started" => ~IsRunning(t)
       /\ UNCHANGED <<task, preparing, term, kills, clicks, raced, stale>>
       /\ ui' \in Tables /\ screen' \in [Shells -> Says]
   BY <2>1, <1>4, <1>5, <1>6, <1>7
 <2>3. /\ ui'.pending = (IF ui.pending = t THEN None ELSE ui.pending)
       /\ ui'.starting = FALSE
       /\ ui'.launching = ui.launching \ {task[t].app}
       /\ ui'.shell = ui.shell
   BY <1>4, <1>5, <1>6, <1>7
 <2>4. /\ ui'.cancelled => ui.cancelled
       /\ ui'.stopping => ui.stopping
       /\ k = "ended" => ~ui'.cancelled /\ ~ui'.stopping
   BY <2>1, <1>4, <1>5, <1>6, <1>7
 <2>5. ui'.session = (IF k = "ended" /\ ui.session = t THEN None ELSE ui.session)
   BY <2>1, <1>4, <1>5, <1>6, <1>7
 <2>6. k # "cancelled" =>
          \A s \in Shells : ui.shell = s =>
             /\ screen[s] = "stopped" => screen'[s] = "stopped"
             /\ k \in {"failed", "ended"} /\ task[t].shell = s => screen'[s] = "stopped"
   BY <2>1, <1>4, <1>5, <1>6, <1>7
 <2>7. TakenOut(k, t)  BY <2>2, <2>3, <2>4, <2>5, <2>6 DEF TakenOut
 <2> QED  BY <1>1, <2>7, TaskDone

\* The start of a task is handled: it has ended since, it was cancelled and is
\* told to end, or it becomes the session.
LEMMA RunStartedKeeps ==
    ASSUME Bounds, TablesInv, RunStarted
    PROVE  TablesInv'
<1>1. PICK t : t = Subject  OBVIOUS
<1>2. PICK w : w = Unlaunched(Unpended(ui, t), t)  OBVIOUS
<1>3. /\ Types /\ Blocks /\ TablesOwed /\ ui \in Tables /\ screen \in [Shells -> Says]
      /\ term \subseteq SessionTasks
  BY DEF TablesInv, Types
<1>4. /\ w \in Tables
      /\ w.pending = (IF ui.pending = t THEN None ELSE ui.pending) /\ w.starting = FALSE
      /\ w.launching = ui.launching \ {task[t].app}
      /\ w.shell = ui.shell /\ w.session = ui.session
      /\ w.cancelled = ui.cancelled /\ w.stopping = ui.stopping
  BY <1>1, <1>2, <1>3, UnlaunchedTables
<1>5. /\ Runs("started") /\ UNCHANGED <<task, preparing, kills, clicks, raced, stale>>
      /\ \/ ~IsRunning(t) /\ ui' = w /\ UNCHANGED <<screen, term>>
         \/ /\ IsRunning(t) /\ ui.cancelled /\ term' = term \cup {t} /\ UNCHANGED <<ui, screen>>
         \/ /\ IsRunning(t) /\ ~ui.cancelled
            /\ ui' = [w EXCEPT !.session = t, !.stopping = FALSE]
            /\ screen' = [screen EXCEPT ![task[t].shell] = "running"]
            /\ UNCHANGED term
  BY <1>1, <1>2 DEF RunStarted
<1>6. CASE ~IsRunning(t)
 <2>1. PICK k : k = "started"  OBVIOUS
 <2>2. /\ Runs(k) /\ k \in {"cancelled", "failed", "started", "ended"}
       /\ k = "started" => ~IsRunning(t)
       /\ UNCHANGED <<task, preparing, term, kills, clicks, raced, stale>>
       /\ ui' \in Tables /\ screen' \in [Shells -> Says]
   BY <2>1, <1>3, <1>4, <1>5, <1>6
 <2>3. /\ ui'.pending = (IF ui.pending = t THEN None ELSE ui.pending)
       /\ ui'.starting = FALSE
       /\ ui'.launching = ui.launching \ {task[t].app}
       /\ ui'.shell = ui.shell
   BY <1>3, <1>4, <1>5, <1>6
 <2>4. /\ ui'.cancelled => ui.cancelled
       /\ ui'.stopping => ui.stopping
       /\ k = "ended" => ~ui'.cancelled /\ ~ui'.stopping
   BY <2>1, <1>3, <1>4, <1>5, <1>6
 <2>5. ui'.session = (IF k = "ended" /\ ui.session = t THEN None ELSE ui.session)
   BY <2>1, <1>3, <1>4, <1>5, <1>6
 <2>6. k # "cancelled" =>
          \A s \in Shells : ui.shell = s =>
             /\ screen[s] = "stopped" => screen'[s] = "stopped"
             /\ k \in {"failed", "ended"} /\ task[t].shell = s => screen'[s] = "stopped"
   BY <2>1, <1>3, <1>4, <1>5, <1>6
 <2>7. TakenOut(k, t)  BY <2>2, <2>3, <2>4, <2>5, <2>6 DEF TakenOut
 <2> QED  BY <1>1, <2>7, TaskDone
<1>7. /\ main' \in Seq(Block) /\ Blocks' /\ t \in SessionTasks /\ In("started", t)
      /\ \A u : /\ Waiting(u)' <=> Waiting(u)
                /\ IsRunning(u)' <=> IsRunning(u)
                /\ Alive(u)' <=> Alive(u)
                /\ In("cancelled", u)' => In("cancelled", u)
                /\ Ending(u) => Ending(u)'
                /\ InProgress(u) => InProgress(u)'
                /\ u # t => (Unstarted(u)' <=> Unstarted(u))
                /\ In("prepared", u) => In("prepared", u)'
      /\ ~Unstarted(t)' /\ Unstarted(t)
 <2>1. /\ main' \in Seq(Block) /\ Blocks' /\ t \in SessionTasks /\ In("started", t)
       /\ \A u : /\ Waiting(u)' <=> Waiting(u)
                 /\ IsRunning(u)' <=> IsRunning(u)
                 /\ Alive(u)' <=> Alive(u)
                 /\ In("cancelled", u)' => In("cancelled", u)
                 /\ Ending(u) => Ending(u)'
                 /\ InProgress(u) => InProgress(u)'
                 /\ u # t => (Unstarted(u)' <=> Unstarted(u))
                 /\ In("prepared", u) => In("prepared", u)'
       /\ ~Unstarted(t)'
   BY <1>1, <1>3, <1>5, BlockRan
 <2> QED  BY <2>1 DEF Unstarted
<1>8. CASE IsRunning(t) /\ ui.cancelled
 <2>1. term' = term \cup {t} /\ UNCHANGED <<ui, screen>>  BY <1>5, <1>8
 <2>2. Types'  BY <1>3, <1>5, <1>7, <2>1 DEF Types
 <2>3. TablesOwed'
  <3>1. \A u \in SessionTasks : TaskOwed(u)'  BY <1>3, <1>7, <2>1 DEF TablesOwed, TaskOwed
  <3>2. \A a \in ui'.launching : \E u \in SessionTasks : task'[u].app = a /\ InProgress(u)'
    BY <1>3, <1>5, <1>7, <2>1 DEF TablesOwed
  <3>3. \E u \in SessionTasks : Ending(u)'  BY <1>3, <1>7, <1>8 DEF TablesOwed
  <3>4. ui'.starting => ui'.pending # None  BY <1>3, <2>1 DEF TablesOwed
  <3> QED  BY <3>1, <3>2, <3>3, <3>4 DEF TablesOwed
 <2>4. ASSUME InHand PROVE InHand'
  <3>1. \A u \in SessionTasks : AtWork(u)' => AtWork(u)  BY <1>7, <2>1 DEF AtWork
  <3>2. ASSUME NEW u \in SessionTasks PROVE TaskInHand(u)'
   <4>1. TaskInHand(u)  BY <2>4 DEF InHand
   <4>2. (Waiting(u) => ui.pending = u /\ ~ui.cancelled /\ task[u].at # "no")' /\ ~In("cancelled", u)'
     BY <1>5, <1>7, <2>1, <4>1 DEF TaskInHand
   <4>3. (IsRunning(u) /\ Unstarted(u) => ui.pending = u \/ (clicks.quit /\ u \in term))'
     BY <1>5, <1>7, <2>1, <4>1 DEF TaskInHand
   <4>4. (IsRunning(u) /\ ~Unstarted(u) => ui.session = u \/ u \in term)'
     BY <1>5, <1>7, <2>1, <4>1 DEF TaskInHand
   <4>5. /\ (clicks.quit => ~AtWork(u))'
         /\ (ui.session = u /\ IsRunning(u) => ui.pending = None)'
         /\ (ui.shell = None /\ (ui.session = u \/ ui.pending = u) => ~AtWork(u))'
     BY <1>5, <1>7, <2>1, <3>1, <4>1 DEF TaskInHand
   <4> QED  BY <4>2, <4>3, <4>4, <4>5 DEF TaskInHand
  <3>3. \A u, v \in SessionTasks : AtWork(u)' /\ AtWork(v)' => u = v  BY <2>4, <3>1 DEF InHand
  <3>4. clicks'.quit => ui'.shell = None /\ ui'.pending = None  BY <1>5, <2>1, <2>4 DEF InHand
  <3> QED  BY <3>2, <3>3, <3>4 DEF InHand
 <2>5. ASSUME OfWindow PROVE OfWindow'
  <3> SUFFICES ASSUME NEW s \in Shells, ui.shell = s
               PROVE  /\ \A u \in SessionTasks :
                            (ui.session = u \/ ui.pending = u) /\ Alive(u)' => task'[u].shell = s
                      /\ WindowOwed(s)'
    BY <2>1 DEF OfWindow
  <3>1. \A u \in SessionTasks : (ui.session = u \/ ui.pending = u) /\ Alive(u)' => task'[u].shell = s
    BY <1>5, <1>7, <2>5 DEF OfWindow
  <3>2. WindowOwed(s)  BY <2>5 DEF OfWindow
  <3>3. WindowOwed(s)'  BY <1>5, <1>7, <2>1, <3>2 DEF WindowOwed
  <3> QED  BY <3>1, <3>3
 <2> QED  BY <1>5, <1>7, <2>2, <2>3, <2>4, <2>5 DEF TablesInv
<1>9. CASE IsRunning(t) /\ ~ui.cancelled
 <2>1. /\ ui' = [w EXCEPT !.session = t, !.stopping = FALSE] /\ term' = term
       /\ screen' = [screen EXCEPT ![task[t].shell] = "running"]
   BY <1>5, <1>9
 <2>2. /\ ui' \in Tables
       /\ ui'.pending = (IF ui.pending = t THEN None ELSE ui.pending) /\ ui'.starting = FALSE
       /\ ui'.launching = ui.launching \ {task[t].app}
       /\ ui'.shell = ui.shell /\ ui'.session = t
       /\ ~ui'.cancelled /\ ~ui'.stopping
   BY <1>4, <1>7, <1>9, <2>1 DEF Tables
 <2>3. screen' \in [Shells -> Says]
  <3>1. PICK s : s = task[t].shell  OBVIOUS
  <3>2. "running" \in Says /\ screen' = [screen EXCEPT ![s] = "running"]  BY <2>1, <3>1 DEF Says
  <3> QED  BY <1>3, <3>2, ScreenSays
 <2>4. Types'  BY <1>3, <1>5, <1>7, <2>1, <2>2, <2>3 DEF Types
 <2>5. ~Waiting(t) /\ Ending(t) /\ InProgress(t) /\ t # None
   BY <1>3, <1>7, <1>9, Stages, NoneIsNone DEF Blocks
 <2>6. TablesOwed'
  <3>1. ASSUME NEW u \in SessionTasks PROVE TaskOwed(u)'
   <4>1. TaskOwed(u) /\ u # None  BY <1>3, NoneIsNone DEF TablesOwed
   <4>2. ui'.pending = u => ui.pending = u  BY <2>2, <4>1
   <4> QED  BY <1>7, <2>2, <2>5, <4>1, <4>2 DEF TaskOwed
  <3>2. ASSUME NEW b \in ui'.launching
        PROVE  \E u \in SessionTasks : task'[u].app = b /\ InProgress(u)'
   <4>1. PICK u \in SessionTasks : task[u].app = b /\ InProgress(u)
     BY <1>3, <2>2 DEF TablesOwed
   <4> QED  BY <1>5, <1>7, <4>1
  <3> QED  BY <2>2, <3>1, <3>2 DEF TablesOwed
 <2>7. ASSUME InHand PROVE InHand'
  <3>1. ui.pending = t \/ (clicks.quit /\ t \in term)
    BY <1>7, <1>9, <2>7 DEF InHand, TaskInHand
  <3>2. ui'.pending = None  BY <2>2, <2>7, <3>1 DEF InHand
  <3>3. \A u \in SessionTasks : AtWork(u)' <=> AtWork(u)  BY <1>7, <2>1 DEF AtWork
  <3>4. ASSUME NEW u \in SessionTasks PROVE TaskInHand(u)'
   <4>1. TaskInHand(u) /\ u # None  BY <2>7, NoneIsNone DEF InHand
   <4>2. ~Waiting(u)
    <5>1. SUFFICES ASSUME Waiting(u) PROVE FALSE  OBVIOUS
    <5>2. ui.pending = u /\ u # t  BY <2>5, <4>1, <5>1 DEF TaskInHand
    <5>3. clicks.quit  BY <3>1, <5>2
    <5> QED  BY <4>1, <5>1, <5>3 DEF TaskInHand, AtWork
   <4>3. ASSUME IsRunning(u), Unstarted(u)' PROVE clicks.quit /\ u \in term
    <5>1. u # t /\ Unstarted(u)  BY <1>7, <4>3
    <5>2. ui.pending # u  BY <2>7, <3>1, <4>1, <5>1 DEF InHand
    <5> QED  BY <4>1, <4>3, <5>1, <5>2 DEF TaskInHand
   <4>4. ASSUME IsRunning(u), ~Unstarted(u)', u # t PROVE u \in term
    <5>1. ui.session = u \/ u \in term  BY <1>7, <4>1, <4>4 DEF TaskInHand
    <5>2. ASSUME ui.session = u PROVE u \in term
     <6>1. ui.pending = None  BY <4>1, <4>4, <5>2 DEF TaskInHand
     <6>2. clicks.quit  BY <2>5, <3>1, <6>1
     <6> QED  BY <4>1, <4>4, <6>2 DEF TaskInHand, AtWork
    <5> QED  BY <5>1, <5>2
   <4>5. ui.shell = None /\ u = t => ~AtWork(u)  BY <3>1, <4>1 DEF TaskInHand
   <4>6. ~Waiting(u)' /\ ~In("cancelled", u)'  BY <1>7, <4>1, <4>2 DEF TaskInHand
   <4>7. (IsRunning(u) /\ Unstarted(u) => ui.pending = u \/ (clicks.quit /\ u \in term))'
     BY <1>5, <1>7, <2>1, <4>3
   <4>8. (IsRunning(u) /\ ~Unstarted(u) => ui.session = u \/ u \in term)'
     BY <1>7, <2>1, <2>2, <4>4
   <4>9. (clicks.quit => ~AtWork(u))'  BY <1>5, <3>3, <4>1 DEF TaskInHand
   <4>10. (ui.session = u /\ IsRunning(u) => ui.pending = None)'  BY <3>2
   <4>11. (ui.shell = None /\ (ui.session = u \/ ui.pending = u) => ~AtWork(u))'
     BY <2>2, <3>2, <3>3, <4>1, <4>5
   <4> QED  BY <4>6, <4>7, <4>8, <4>9, <4>10, <4>11 DEF TaskInHand
  <3>5. \A u, v \in SessionTasks : AtWork(u)' /\ AtWork(v)' => u = v  BY <2>7, <3>3 DEF InHand
  <3>6. clicks'.quit => ui'.shell = None  BY <1>5, <2>2, <2>7 DEF InHand
  <3> QED  BY <3>2, <3>4, <3>5, <3>6 DEF InHand
 <2>8. ASSUME InHand, OfWindow PROVE OfWindow'
  <3> SUFFICES ASSUME NEW s \in Shells, ui.shell = s
               PROVE  /\ \A u \in SessionTasks :
                            (ui'.session = u \/ ui'.pending = u) /\ Alive(u)' => task'[u].shell = s
                      /\ WindowOwed(s)'
    BY <2>2 DEF OfWindow
  <3>1. ~clicks.quit  BY <2>8, NoneIsNone DEF InHand
  <3>2. ui.pending = t  BY <1>7, <1>9, <2>8, <3>1 DEF InHand, TaskInHand
  <3>3. task[t].shell = s  BY <1>7, <1>9, <2>8, <3>2 DEF OfWindow, Alive
  <3>4. ui'.pending = None  BY <2>2, <3>2
  <3>5. \A u \in SessionTasks : (ui'.session = u \/ ui'.pending = u) => task'[u].shell = s
    BY <1>5, <2>2, <3>3, <3>4, NoneIsNone
  <3>6. WindowOwed(s)'  BY <1>5, <1>7, <2>5, <3>3 DEF WindowOwed
  <3> QED  BY <3>5, <3>6
 <2> QED  BY <1>5, <1>7, <2>4, <2>6, <2>7, <2>8 DEF TablesInv
<1> QED  BY <1>6, <1>8, <1>9

\* A refocus is complete: the window it was for says "running", and the session
\* it was for is still there or the launch is stale.
LEMMA RunPreparedKeeps ==
    ASSUME TablesInv, RunPrepared
    PROVE  TablesInv'
<1>1. PICK x : x = Subject  OBVIOUS
<1>2. Types /\ Blocks /\ TablesOwed /\ screen \in [Shells -> Says]  BY DEF TablesInv, Types
<1>3. /\ Runs("prepared") /\ screen' = [screen EXCEPT ![x] = "running"]
      /\ stale' = (stale \/ ~(IsRunning(ui.session) \/ Waiting(ui.pending) \/ IsRunning(ui.pending)))
      /\ UNCHANGED <<task, ui, preparing, term, kills, clicks, raced>>
  BY <1>1 DEF RunPrepared
<1>4. /\ main' \in Seq(Block) /\ Blocks' /\ x \in Shells
      /\ \A u : /\ Waiting(u)' <=> Waiting(u)
                /\ IsRunning(u)' <=> IsRunning(u)
                /\ Alive(u)' <=> Alive(u)
                /\ In("cancelled", u)' => In("cancelled", u)
                /\ Ending(u) => Ending(u)'
                /\ InProgress(u) => InProgress(u)'
                /\ Unstarted(u)' <=> Unstarted(u)
                /\ In("prepared", u) /\ u # x => In("prepared", u)'
  BY <1>1, <1>2, <1>3, BlockRan
<1>5. /\ screen' \in [Shells -> Says]
      /\ \A r \in Shells : r # x => screen'[r] = screen[r]
 <2>1. "running" \in Says  BY DEF Says
 <2> QED  BY <1>2, <1>3, <2>1, ScreenSays
<1>6. Types'
 <2>1. stale' \in BOOLEAN  BY <1>3
 <2> QED  BY <1>2, <1>3, <1>4, <1>5, <2>1 DEF Types
<1>7. TablesOwed'
 <2>1. \A u \in SessionTasks : TaskOwed(u)'  BY <1>2, <1>3, <1>4 DEF TablesOwed, TaskOwed
 <2>2. \A a \in ui'.launching : \E u \in SessionTasks : task'[u].app = a /\ InProgress(u)'
   BY <1>2, <1>3, <1>4 DEF TablesOwed
 <2>3. ui'.cancelled \/ ui'.stopping => \E u \in SessionTasks : Ending(u)'
   BY <1>2, <1>3, <1>4 DEF TablesOwed
 <2>4. ui'.starting => ui'.pending # None  BY <1>2, <1>3 DEF TablesOwed
 <2> QED  BY <2>1, <2>2, <2>3, <2>4 DEF TablesOwed
<1>8. ASSUME InHand PROVE InHand'
 <2>1. \A u \in SessionTasks : AtWork(u)' <=> AtWork(u)  BY <1>3, <1>4 DEF AtWork
 <2>2. ASSUME NEW u \in SessionTasks PROVE TaskInHand(u)'
  <3>1. TaskInHand(u)  BY <1>8 DEF InHand
  <3> QED  BY <1>3, <1>4, <2>1, <3>1 DEF TaskInHand
 <2> QED  BY <1>3, <1>8, <2>1, <2>2 DEF InHand
<1>9. ASSUME OfWindow, ~stale' PROVE OfWindow'
 <2> SUFFICES ASSUME NEW s \in Shells, ui.shell = s
              PROVE  /\ \A u \in SessionTasks :
                           (ui.session = u \/ ui.pending = u) /\ Alive(u)' => task'[u].shell = s
                     /\ WindowOwed(s)'
   BY <1>3 DEF OfWindow
 <2>1. \A u \in SessionTasks : (ui.session = u \/ ui.pending = u) /\ Alive(u)' => task'[u].shell = s
   BY <1>3, <1>4, <1>9 DEF OfWindow
 <2>2. \E u \in SessionTasks : (ui.session = u \/ ui.pending = u) /\ Alive(u)
   BY <1>3, <1>9 DEF Alive, IsRunning, Waiting
 <2>3. PICK u \in SessionTasks : (ui.session = u \/ ui.pending = u) /\ Alive(u)  BY <2>2
 <2>4. task[u].shell = s /\ InProgress(u)  BY <1>2, <1>9, <2>3, Stages DEF OfWindow, Blocks
 <2>5. WindowOwed(s)'  BY <1>3, <1>4, <2>4 DEF WindowOwed
 <2> QED  BY <2>1, <2>5
<1>10. (raced' \/ InHand') /\ (raced' \/ stale' \/ OfWindow')
 <2>1. stale => stale'  BY <1>3
 <2> QED  BY <1>3, <1>8, <1>9, <2>1 DEF TablesInv
<1> QED  BY <1>4, <1>6, <1>7, <1>10 DEF TablesInv

----
(* The theorem. *)

\* At the start there is no task.
LEMMA TablesInit ==
    ASSUME Bounds
    PROVE  Init => TablesInv
<1> SUFFICES ASSUME Init PROVE TablesInv  OBVIOUS
<1>1. main = <<>> /\ Len(main) = 0 /\ main \in Seq(Block)  BY DEF Init
<1>2. \A v, y : ~In(v, y)  BY <1>1 DEF In
<1>3. \A t \in SessionTasks : task[t].at = "none" /\ task[t].posted = FALSE  BY DEF Init
<1>4. \A t \in SessionTasks : ~Waiting(t) /\ ~IsRunning(t)  BY <1>3 DEF Waiting, IsRunning
<1>5. /\ ui.session = None /\ ui.pending = None /\ ui.starting = FALSE /\ ui.cancelled = FALSE
      /\ ui.stopping = FALSE /\ ui.launching = {} /\ ui.shell = None /\ ui \in Tables
  BY DEF Init, Tables
<1>6. Types
 <2>1. task \in [SessionTasks -> Tasks]
  <3>1. PICK r : r = [at |-> "none", app |-> NoApp, shell |-> None, posted |-> FALSE]  OBVIOUS
  <3>2. r \in Tasks  BY <3>1 DEF Tasks
  <3>3. task = [t \in SessionTasks |-> r]  BY <3>1 DEF Init
  <3> QED  BY <3>2, <3>3
 <2>2. screen \in [Shells -> Says]  BY DEF Init, Says
 <2>3. preparing \in [Shells -> Nat]  BY DEF Init
 <2>4. clicks \in [n : 0 .. MaxClicks, quit : BOOLEAN]  BY DEF Bounds, Init
 <2> QED  BY <1>1, <1>5, <2>1, <2>2, <2>3, <2>4 DEF Types, Init
<1>7. Blocks  BY <1>1, <1>2, <1>3 DEF Blocks, BlocksOnce, BlocksFit
<1>8. TablesOwed
 <2>1. \A t \in SessionTasks : TaskOwed(t)  BY <1>5, NoneIsNone DEF TaskOwed
 <2> QED  BY <1>5, <2>1 DEF TablesOwed
<1>9. InHand
 <2>1. \A t \in SessionTasks : ~AtWork(t)  BY <1>4 DEF AtWork
 <2>2. \A t \in SessionTasks : TaskInHand(t)  BY <1>2, <1>4, <2>1 DEF TaskInHand
 <2> QED  BY <1>5, <2>1, <2>2 DEF InHand
<1>10. OfWindow  BY <1>5, NoneIsNone DEF OfWindow
<1> QED  BY <1>6, <1>7, <1>8, <1>9, <1>10 DEF TablesInv

\* A step that changes nothing.
LEMMA StutterKeeps ==
    ASSUME TablesInv, UNCHANGED vars
    PROVE  TablesInv'
<1>1. /\ Types /\ Blocks /\ TablesOwed
      /\ task' = task /\ ui' = ui /\ screen' = screen /\ main' = main /\ preparing' = preparing
      /\ term' = term /\ kills' = kills /\ clicks' = clicks /\ raced' = raced /\ stale' = stale
  BY DEF TablesInv, vars
<1>2. \A t \in SessionTasks : TaskMoves(t)
 <2>1. ASSUME NEW t \in SessionTasks PROVE TaskMoves(t)
  <3>1. BlocksFit(t) /\ task'[t] = task[t]  BY <1>1 DEF Blocks
  <3>2. \A v \in {"ask", "cancelled", "failed", "started", "ended"} : In(v, t)' <=> In(v, t)
    BY <1>1, SameTasks
  <3> QED  BY <3>1, <3>2, OtherTask
 <2> QED  BY <2>1
<1>3. Types' /\ Blocks'
 <2>1. Types'  BY <1>1 DEF Types
 <2>2. Blocks'  BY <1>1, SameTasks
 <2> QED  BY <2>1, <2>2
<1>4. \A s \in Shells : preparing[s] > 0 \/ In("prepared", s) => preparing'[s] > 0 \/ In("prepared", s)'
  BY <1>1, SameTasks
<1> QED  BY <1>1, <1>2, <1>3, <1>4, BackgroundKeeps

\* Every step keeps the invariant.
LEMMA TablesStep ==
    ASSUME Bounds
    PROVE  TablesInv /\ [Next]_vars => TablesInv'
<1> SUFFICES ASSUME TablesInv, [Next]_vars PROVE TablesInv'  OBVIOUS
<1>1. ASSUME NEW a \in SessionApps, LaunchApp(a) PROVE TablesInv'
 <2>1. PICK s \in Shells : ShellFor(s) /\ (Refocus(a, s) \/ Refuse(a, s) \/ NewSession(a, s))
   BY <1>1 DEF LaunchApp
 <2>2. Click  BY <1>1 DEF LaunchApp
 <2> QED  BY <2>1, <2>2, RefocusKeeps, RefuseKeeps, NewSessionKeeps
<1>2. ASSUME NEW t \in SessionTasks,
             \/ AskCancelled(t) \/ CancelBeforeLaunch(t) \/ LaunchTask(t) \/ LaunchFails(t)
             \/ PostStarted(t) \/ TaskEnds(t) \/ KillTimer(t) \/ TerminationHandler(t)
      PROVE  TablesInv'
  BY <1>2, AskCancelledKeeps, CancelBeforeLaunchKeeps, LaunchTaskKeeps, LaunchFailsKeeps,
     PostStartedKeeps, TaskEndsKeeps, KillTimerKeeps, TerminationHandlerKeeps
<1>3. ASSUME RunAsk \/ RunCancelled \/ RunFailed \/ RunStarted \/ RunEnded \/ RunPrepared
      PROVE  TablesInv'
  BY <1>3, RunAskKeeps, RunCancelledKeeps, RunFailedKeeps, RunStartedKeeps, RunEndedKeeps,
     RunPreparedKeeps
<1>4. ASSUME CloseWindow \/ DeletePrefix \/ Quit PROVE TablesInv'
  BY <1>4, CloseWindowKeeps, DeletePrefixKeeps, QuitKeeps
<1>5. ASSUME NEW s \in Shells, PostPrepared(s) PROVE TablesInv'  BY <1>5, PostPreparedKeeps
<1>6. ASSUME NEW a \in SessionApps, StopApp(a) PROVE TablesInv'  BY <1>6, StopAppKeeps
<1> QED  BY <1>1, <1>2, <1>3, <1>4, <1>5, <1>6, StutterKeeps DEF Next

\* What the invariant says of the tables once nothing is under way.
LEMMA TablesAtRest ==
    ASSUME Bounds, TablesInv
    PROVE  TypeOK /\ SessionTablesSound
<1>1. Types /\ Blocks /\ TablesOwed /\ ui \in Tables  BY DEF TablesInv, Types
<1>2. TypeOK
 <2>1. clicks.n \in 0 .. MaxClicks /\ clicks.quit \in BOOLEAN  BY <1>1 DEF Types
 <2> QED  BY <1>1, <2>1 DEF TypeOK, Types, Tasks, Tables, Says
<1>3. SessionsKnown
 <2> SUFFICES ASSUME InHand, ~raced PROVE SessionsKnown  BY DEF TablesInv, SessionsKnown
 <2>1. ASSUME NEW t \in SessionTasks, IsRunning(t) PROVE t \in {ui.session, ui.pending} \cup term
   BY <2>1 DEF InHand, TaskInHand
 <2>2. ASSUME NEW t \in SessionTasks, NEW u \in SessionTasks, IsRunning(t), t \notin term,
              IsRunning(u), u \notin term
       PROVE  t = u
   BY <2>2 DEF InHand, AtWork
 <2> QED  BY <2>1, <2>2 DEF SessionsKnown
<1>4. ASSUME Quiet, \A t \in SessionTasks : ~IsRunning(t)
      PROVE  /\ \A t \in SessionTasks : ~InProgress(t) /\ ~Ending(t)
             /\ \A s : ~In("prepared", s)
 <2>1. main = <<>> /\ Len(main) = 0  BY <1>4 DEF Quiet
 <2>2. \A v, y : ~In(v, y)  BY <2>1 DEF In
 <2>3. ASSUME NEW t \in SessionTasks PROVE ~InProgress(t) /\ ~Ending(t)
  <3>1. ~Waiting(t) /\ task[t].at # "dead" /\ task[t].at # "live"  BY <1>4 DEF Quiet, IsRunning
  <3> QED  BY <2>2, <3>1 DEF InProgress, Ending
 <2> QED  BY <2>2, <2>3
<1>5. TablesSettle
 <2>1. ASSUME Quiet, \A t \in SessionTasks : ~IsRunning(t)
       PROVE  Cleared(ui) = [ui EXCEPT !.active = NoApp] /\ ui.launching = {}
  <3>1. \A t \in SessionTasks : ~InProgress(t) /\ ~Ending(t)  BY <1>4, <2>1
  <3>2. ui.session = None /\ ui.pending = None  BY <1>1, <3>1 DEF TablesOwed, TaskOwed, Tables
  <3>3. ~ui.starting /\ ~ui.cancelled /\ ~ui.stopping  BY <1>1, <3>1, <3>2 DEF TablesOwed
  <3>4. ui.starting = FALSE /\ ui.cancelled = FALSE /\ ui.stopping = FALSE
    BY <1>1, <3>3 DEF Tables
  <3>5. ui.launching = {}  BY <1>1, <3>1 DEF TablesOwed
  <3>6. Cleared(ui) = [ui EXCEPT !.active = NoApp]  BY <1>1, <3>2, <3>4 DEF Cleared, Tables
  <3> QED  BY <3>5, <3>6
 <2>2. ASSUME NEW t, t = ui.session, IsRunning(t), t \notin term PROVE ~ui.stopping
  <3>1. t \in SessionTasks  BY <2>2 DEF IsRunning
  <3> QED  BY <1>1, <2>2, <3>1 DEF TablesOwed, TaskOwed
 <2> QED  BY <2>1, <2>2 DEF TablesSettle
<1>6. WindowTrue
 <2> SUFFICES ASSUME Quiet, ui.shell # None, \A t \in SessionTasks : ~IsRunning(t), ~raced, ~stale
              PROVE  screen[ui.shell] = "stopped"
   BY DEF WindowTrue
 <2>1. PICK s : s = ui.shell  OBVIOUS
 <2>2. s \in Shells  BY <1>1, <2>1 DEF Tables
 <2>3. WindowOwed(s)  BY <2>1, <2>2 DEF TablesInv, OfWindow
 <2>4. preparing[s] = 0  BY <2>2 DEF Quiet
 <2>5. ~(preparing[s] > 0) /\ ~In("prepared", s) /\ \A t \in SessionTasks : ~InProgress(t)
   BY <1>4, <2>4
 <2> QED  BY <2>1, <2>3, <2>5 DEF WindowOwed
<1> QED  BY <1>2, <1>3, <1>5, <1>6 DEF SessionTablesSound

\* SessionTablesStaySound: the tables of the manager and its session agree in
\* every reachable state: a process that runs is in hand or was told to end
\* and at most one was not, as long as no window was closed nor the application
\* quit before a task was started (raced); the window of a device at rest says
\* "stopped", if moreover no launch was given to a session that was ending
\* (stale); and without these conditions a device at rest can be launched again
\* and one that runs is not shown as stopping.  For any number of tasks, apps,
\* windows and clicks.
THEOREM SessionTablesStaySound ==
    ASSUME Bounds
    PROVE  Spec => [](TypeOK /\ SessionTablesSound)
<1>1. Init => TablesInv  BY TablesInit
<1>2. TablesInv /\ [Next]_vars => TablesInv'  BY TablesStep
<1>3. TablesInv => TypeOK /\ SessionTablesSound  BY TablesAtRest
<1> QED  BY <1>1, <1>2, <1>3, PTL DEF Spec

----
(* The commands of the Linux session: a command gives its client its own   *)
(* exit code, a cancel ends that command and no other, and no request is   *)
(* lost while the launcher lives, for any number of clients and of starts  *)
(* of the launcher.  A client, its files and its job are three parties     *)
(* that see each other only through the directory of the session.  The     *)
(* invariant is one formula of one client (ClientInv): which of the files  *)
(* are there at each stage of the job, and that the name is in the FIFO    *)
(* only before the job is.  A name is in the FIFO once (LinesOnce), so     *)
(* taking it takes it out.                                                 *)

CONSTANTS SessionClients, Codes, MaxStarts
VARIABLES sessionLauncher, starts, ready, fifo, linked, fifoLines, files, pidText, job, outcome, client,
          result, cancelled, killed, lostRequests

Linux == INSTANCE LinuxSession WITH launcher <- sessionLauncher, lines <- fifoLines, lost <- lostRequests

\* The number of starts of the launcher is counted.
StartsCounted == MaxStarts \in Nat

\* What holds of one client, its files and its job.
ClientInv(c) ==
    /\ pidText[c] \in {"", c}
    /\ "status" \in files[c] => job[c] = "over"
    /\ c \in Linux!Range(fifoLines) => job[c] = "none"
    /\ client[c] \in {"start", "request", "submit"} => job[c] = "none" /\ c \notin Linux!Range(fifoLines)
    /\ client[c] \in {"submit", "waiting"} /\ c \notin lostRequests => "request" \in files[c]
    /\ client[c] = "waiting" /\ c \notin lostRequests =>
          /\ job[c] = "none" => c \in Linux!Range(fifoLines)
          /\ job[c] = "reporting" => "status.tmp" \in files[c]
          /\ job[c] = "over" => "status" \in files[c]
    /\ client[c] = "done" /\ result[c] \notin {1, 143} => job[c] = "over" /\ outcome[c] = result[c]
    /\ killed[c] \subseteq {c} /\ (killed[c] # {} => c \in cancelled)

\* A name is in the FIFO at most once.
LinesOnce == \A i, j \in 1 .. Len(fifoLines) : fifoLines[i] = fifoLines[j] => i = j

\* The type invariant in two parts: of the launcher, and of the clients.
LauncherTypes ==
    /\ sessionLauncher \in {"down", "starting", "serving"} /\ starts \in 0..MaxStarts
    /\ ready \in BOOLEAN /\ fifo \in BOOLEAN /\ linked \in BOOLEAN
    /\ fifoLines \in Seq(SessionClients)
ClientTypes ==
    /\ files \in [SessionClients -> SUBSET Linux!Names]
    /\ pidText \in [SessionClients -> SessionClients \cup {"", Linux!Launcher}]
    /\ job \in [SessionClients -> Linux!Jobs]
    /\ outcome \in [SessionClients -> Codes \cup {0, 143}]
    /\ client \in [SessionClients -> Linux!Stages]
    /\ result \in [SessionClients -> Codes \cup {0, 1, 143}]
    /\ cancelled \subseteq SessionClients /\ lostRequests \subseteq SessionClients
    /\ killed \in [SessionClients -> SUBSET (SessionClients \cup {Linux!Launcher})]

SessionInv == LauncherTypes /\ ClientTypes /\ LinesOnce /\ \A c \in SessionClients : ClientInv(c)

\* Nothing of client d changes, except that its request may be lost.
Same(d) ==
    /\ pidText'[d] = pidText[d] /\ files'[d] = files[d] /\ job'[d] = job[d]
    /\ client'[d] = client[d] /\ result'[d] = result[d] /\ outcome'[d] = outcome[d]
    /\ killed'[d] = killed[d]
    /\ d \in Linux!Range(fifoLines') <=> d \in Linux!Range(fifoLines)
    /\ d \in lostRequests => d \in lostRequests'
    /\ d \in cancelled => d \in cancelled'

\* A client nothing happens to keeps its part of the invariant.
LEMMA SameKeeps ==
    ASSUME NEW d, ClientInv(d), Same(d)
    PROVE  ClientInv(d)'
BY DEF ClientInv, Same

\* A step of one client or its job keeps the parts of the others.
LEMMA OneClient ==
    ASSUME SessionInv, NEW c \in SessionClients, LauncherTypes', ClientTypes',
           LinesOnce', ClientInv(c)',
           \A d \in SessionClients \ {c} : Same(d)
    PROVE  SessionInv'
<1>1. \A d \in SessionClients \ {c} : ClientInv(d)'  BY SameKeeps DEF SessionInv
<1> QED  BY <1>1 DEF SessionInv

\* A function with one value changed.
LEMMA Updated ==
    ASSUME NEW S, NEW T, NEW f \in [S -> T], NEW c \in S, NEW v \in T,
           NEW g, g = [f EXCEPT ![c] = v]
    PROVE  g \in [S -> T] /\ g[c] = v /\ \A d \in S \ {c} : g[d] = f[d]
OBVIOUS

\* The FIFO without its first name, and with one more.
LEMMA TailOnce ==
    ASSUME NEW S, NEW s \in Seq(S), s # <<>>,
           \A i, j \in 1 .. Len(s) : s[i] = s[j] => i = j
    PROVE  /\ Tail(s) \in Seq(S) /\ Head(s) \in S
           /\ \A i, j \in 1 .. Len(Tail(s)) : Tail(s)[i] = Tail(s)[j] => i = j
           /\ \A x : x \in Linux!Range(Tail(s)) <=> x \in Linux!Range(s) /\ x # Head(s)
           /\ Head(s) \in Linux!Range(s)
<1>1. PICK t : t = Tail(s)  OBVIOUS
<1>2. /\ t \in Seq(S) /\ Len(s) \in Nat /\ Len(s) > 0 /\ Len(t) = Len(s) - 1
      /\ DOMAIN s = 1 .. Len(s) /\ DOMAIN t = 1 .. Len(t)
      /\ Head(s) = s[1] /\ Head(s) \in S
      /\ \A i \in 1 .. Len(t) : t[i] = s[i + 1]
  BY <1>1
<1>3. \A i, j \in 1 .. Len(t) : t[i] = t[j] => i = j
 <2> TAKE i, j \in 1 .. Len(t)
 <2> HAVE t[i] = t[j]
 <2>1. i + 1 \in 1 .. Len(s) /\ j + 1 \in 1 .. Len(s) /\ s[i + 1] = s[j + 1]  BY <1>2
 <2>2. i + 1 = j + 1  BY <2>1
 <2> QED  BY <2>2, <1>2
<1>4. ASSUME NEW x, x \in Linux!Range(t) PROVE x \in Linux!Range(s) /\ x # s[1]
 <2>1. PICK i \in 1 .. Len(t) : t[i] = x  BY <1>2, <1>4 DEF Linux!Range
 <2>2. i + 1 \in 1 .. Len(s) /\ s[i + 1] = x /\ i + 1 # 1 /\ 1 \in 1 .. Len(s)  BY <1>2, <2>1
 <2> QED  BY <1>2, <2>2 DEF Linux!Range
<1>5. ASSUME NEW x, x \in Linux!Range(s), x # s[1] PROVE x \in Linux!Range(t)
 <2>1. PICK i \in 1 .. Len(s) : s[i] = x  BY <1>2, <1>5 DEF Linux!Range
 <2>2. i - 1 \in 1 .. Len(t) /\ (i - 1) + 1 = i  BY <1>2, <1>5, <2>1
 <2>3. t[i - 1] = x  BY <1>2, <2>1, <2>2
 <2> QED  BY <1>2, <2>2, <2>3 DEF Linux!Range
<1>6. s[1] \in Linux!Range(s)  BY <1>2 DEF Linux!Range
<1> QED  BY <1>1, <1>2, <1>3, <1>4, <1>5, <1>6

\* An empty FIFO.
LEMMA NothingInLine ==
    /\ \A S : <<>> \in Seq(S)
    /\ Len(<<>>) = 0
    /\ \A x : x \notin Linux!Range(<<>>)
    /\ \A i \in 1 .. Len(<<>>) : FALSE
<1>1. \A S : <<>> \in Seq(S)  OBVIOUS
<1>2. Len(<<>>) = 0 /\ DOMAIN <<>> = {}  OBVIOUS
<1> QED  BY <1>1, <1>2 DEF Linux!Range

\* A name that is not in the FIFO yet is appended once.
LEMMA AppendOnce ==
    ASSUME NEW S, NEW s \in Seq(S), NEW c \in S, c \notin Linux!Range(s),
           \A i, j \in 1 .. Len(s) : s[i] = s[j] => i = j
    PROVE  /\ Append(s, c) \in Seq(S)
           /\ \A i, j \in 1 .. Len(Append(s, c)) : Append(s, c)[i] = Append(s, c)[j] => i = j
           /\ \A x : x \in Linux!Range(Append(s, c)) <=> x \in Linux!Range(s) \/ x = c
<1>1. PICK t : t = Append(s, c)  OBVIOUS
<1>2. /\ t \in Seq(S) /\ Len(s) \in Nat /\ Len(t) = Len(s) + 1
      /\ DOMAIN s = 1 .. Len(s) /\ DOMAIN t = 1 .. Len(t)
      /\ t[Len(s) + 1] = c
      /\ \A i \in 1 .. Len(s) : t[i] = s[i]
  BY <1>1
<1>3. \A i \in 1 .. Len(s) : s[i] # c  BY <1>2 DEF Linux!Range
<1>4. \A i, j \in 1 .. Len(t) : t[i] = t[j] => i = j
 <2> TAKE i, j \in 1 .. Len(t)
 <2>1. i \in 1 .. Len(s) \/ i = Len(s) + 1  BY <1>2
 <2>2. j \in 1 .. Len(s) \/ j = Len(s) + 1  BY <1>2
 <2> QED  BY <1>2, <1>3, <2>1, <2>2
<1>5. \A x : x \in Linux!Range(t) <=> x \in Linux!Range(s) \/ x = c
 <2> TAKE x
 <2>1. ASSUME x \in Linux!Range(t) PROVE x \in Linux!Range(s) \/ x = c
  <3>1. PICK i \in 1 .. Len(t) : t[i] = x  BY <1>2, <2>1 DEF Linux!Range
  <3>2. i \in 1 .. Len(s) \/ i = Len(s) + 1  BY <1>2
  <3> QED  BY <1>2, <3>1, <3>2 DEF Linux!Range
 <2>2. ASSUME x \in Linux!Range(s) PROVE x \in Linux!Range(t)
  <3>1. PICK i \in 1 .. Len(s) : s[i] = x  BY <1>2, <2>2 DEF Linux!Range
  <3>2. i \in 1 .. Len(t) /\ t[i] = x  BY <1>2, <3>1
  <3> QED  BY <1>2, <3>2 DEF Linux!Range
 <2>3. c \in Linux!Range(t)
  <3>1. Len(s) + 1 \in 1 .. Len(t)  BY <1>2
  <3> QED  BY <1>2, <3>1 DEF Linux!Range
 <2> QED  BY <2>1, <2>2, <2>3
<1> QED  BY <1>1, <1>2, <1>4, <1>5

\* The session before any client.
LEMMA SessionInit ==
    ASSUME StartsCounted
    PROVE  Linux!Init => SessionInv
<1> SUFFICES ASSUME Linux!Init PROVE SessionInv  OBVIOUS
<1>1. fifoLines = <<>> /\ LinesOnce /\ \A x : x \notin Linux!Range(fifoLines)
  BY NothingInLine DEF Linux!Init, LinesOnce
<1>2. LauncherTypes
 <2>1. fifoLines \in Seq(SessionClients)  BY <1>1, NothingInLine
 <2>2. starts = 0  BY DEF Linux!Init
 <2>3. starts \in 0 .. MaxStarts  BY <2>2 DEF StartsCounted
 <2> QED  BY <2>1, <2>3 DEF Linux!Init, LauncherTypes
<1>3. ClientTypes  BY DEF Linux!Init, ClientTypes, Linux!Names, Linux!Jobs, Linux!Stages
<1>4. ASSUME NEW c \in SessionClients PROVE ClientInv(c)
 <2>1. /\ files = [d \in SessionClients |-> {}] /\ pidText = [d \in SessionClients |-> ""]
       /\ job = [d \in SessionClients |-> "none"] /\ client = [d \in SessionClients |-> "start"]
       /\ killed = [d \in SessionClients |-> {}]
   BY DEF Linux!Init
 <2> QED  BY <1>1, <2>1 DEF ClientInv
<1> QED  BY <1>1, <1>2, <1>3, <1>4 DEF SessionInv

\* The job sources the request and starts the command.
LEMMA StartCommandKeeps ==
    ASSUME SessionInv, NEW c \in SessionClients, Linux!StartCommand(c)
    PROVE  SessionInv'
<1>1. LauncherTypes /\ ClientTypes /\ ClientInv(c) /\ LinesOnce  BY DEF SessionInv
<1>2. job[c] = "forked" /\ UNCHANGED Linux!guest  BY DEF Linux!StartCommand, Linux!Step
<1>3. /\ job' = [job EXCEPT ![c] = IF "request" \in files[c] THEN "running" ELSE "over"]
      /\ UNCHANGED <<files, pidText, outcome, client, result, cancelled, killed, lostRequests>>
  BY <1>1 DEF Linux!StartCommand, Linux!Step, ClientTypes
<1>4. LauncherTypes' /\ fifoLines' = fifoLines /\ LinesOnce'
  BY <1>1, <1>2 DEF LauncherTypes, LinesOnce, Linux!guest
<1>5a. /\ job' \in [SessionClients -> Linux!Jobs] /\ job'[c] = (IF "request" \in files[c] THEN "running" ELSE "over")
       /\ \A d \in SessionClients \ {c} : job'[d] = job[d]
 <2>1. job \in [SessionClients -> Linux!Jobs]  BY <1>1 DEF ClientTypes
 <2>2. (IF "request" \in files[c] THEN "running" ELSE "over") \in Linux!Jobs
   BY <2>1 DEF Linux!Jobs
 <2> QED  BY <1>3, <2>1, <2>2, Updated
<1>6. ClientTypes'  BY <1>1, <1>3, <1>5a DEF ClientTypes
<1>7. ClientInv(c)'  BY <1>1, <1>2, <1>3, <1>4, <1>5a DEF ClientInv
<1>8. \A d \in SessionClients \ {c} : Same(d)  BY <1>3, <1>4, <1>5a DEF Same
<1> QED  BY <1>4, <1>6, <1>7, <1>8, OneClient

\* The pid file is opened.
LEMMA OpenPidFileKeeps ==
    ASSUME SessionInv, NEW c \in SessionClients, Linux!OpenPidFile(c)
    PROVE  SessionInv'
<1>1. LauncherTypes /\ ClientTypes /\ ClientInv(c) /\ LinesOnce  BY DEF SessionInv
<1>2. job[c] = "running" /\ UNCHANGED Linux!guest
  BY DEF Linux!OpenPidFile, Linux!Step, Linux!Write
<1>3. /\ job' = [job EXCEPT ![c] = "pidfile"]
      /\ files' = [files EXCEPT ![c] = files[c] \cup {"pid"}]
      /\ UNCHANGED <<pidText, outcome, client, result, cancelled, killed, lostRequests>>
  BY <1>1 DEF Linux!OpenPidFile, Linux!Step, Linux!Write, ClientTypes
<1>4. LauncherTypes' /\ fifoLines' = fifoLines /\ LinesOnce'
  BY <1>1, <1>2 DEF LauncherTypes, LinesOnce, Linux!guest
<1>5a. /\ job' \in [SessionClients -> Linux!Jobs] /\ job'[c] = "pidfile"
       /\ \A d \in SessionClients \ {c} : job'[d] = job[d]
 <2>1. job \in [SessionClients -> Linux!Jobs]  BY <1>1 DEF ClientTypes
 <2>2. "pidfile" \in Linux!Jobs  BY <2>1 DEF Linux!Jobs
 <2> QED  BY <1>3, <2>1, <2>2, Updated
<1>5b. /\ files' \in [SessionClients -> SUBSET Linux!Names] /\ files'[c] = files[c] \cup {"pid"}
       /\ \A d \in SessionClients \ {c} : files'[d] = files[d]
 <2>1. files \in [SessionClients -> SUBSET Linux!Names]  BY <1>1 DEF ClientTypes
 <2>2. files[c] \cup {"pid"} \in SUBSET Linux!Names  BY <2>1 DEF Linux!Names
 <2> QED  BY <1>3, <2>1, <2>2, Updated
<1>6. ClientTypes'  BY <1>1, <1>3, <1>5a, <1>5b DEF ClientTypes
<1>7. ClientInv(c)'  BY <1>1, <1>2, <1>3, <1>4, <1>5a, <1>5b DEF ClientInv
<1>8. \A d \in SessionClients \ {c} : Same(d)  BY <1>3, <1>4, <1>5a, <1>5b DEF Same
<1> QED  BY <1>4, <1>6, <1>7, <1>8, OneClient

\* The pid of the command is written.
LEMMA PublishPidKeeps ==
    ASSUME SessionInv, NEW c \in SessionClients, Linux!PublishPid(c)
    PROVE  SessionInv'
<1>1. LauncherTypes /\ ClientTypes /\ ClientInv(c) /\ LinesOnce  BY DEF SessionInv
<1>2. job[c] = "pidfile" /\ UNCHANGED Linux!guest  BY DEF Linux!PublishPid, Linux!Step
<1>3. /\ job' = [job EXCEPT ![c] = "waiting"]
      /\ pidText' = [pidText EXCEPT ![c] = IF "pid" \in files[c] THEN c ELSE ""]
      /\ UNCHANGED <<files, outcome, client, result, cancelled, killed, lostRequests>>
  BY <1>1 DEF Linux!PublishPid, Linux!Step, ClientTypes
<1>4. LauncherTypes' /\ fifoLines' = fifoLines /\ LinesOnce'
  BY <1>1, <1>2 DEF LauncherTypes, LinesOnce, Linux!guest
<1>5a. /\ job' \in [SessionClients -> Linux!Jobs] /\ job'[c] = "waiting"
       /\ \A d \in SessionClients \ {c} : job'[d] = job[d]
 <2>1. job \in [SessionClients -> Linux!Jobs]  BY <1>1 DEF ClientTypes
 <2>2. "waiting" \in Linux!Jobs  BY <2>1 DEF Linux!Jobs
 <2> QED  BY <1>3, <2>1, <2>2, Updated
<1>5b. /\ pidText' \in [SessionClients -> SessionClients \cup {"", Linux!Launcher}] /\ pidText'[c] = (IF "pid" \in files[c] THEN c ELSE "")
       /\ \A d \in SessionClients \ {c} : pidText'[d] = pidText[d]
 <2>1. pidText \in [SessionClients -> SessionClients \cup {"", Linux!Launcher}]
   BY <1>1 DEF ClientTypes
 <2>2. (IF "pid" \in files[c] THEN c ELSE "") \in SessionClients \cup {"", Linux!Launcher}
   BY <2>1
 <2> QED  BY <1>3, <2>1, <2>2, Updated
<1>6. ClientTypes'  BY <1>1, <1>3, <1>5a, <1>5b DEF ClientTypes
<1>7. ClientInv(c)'  BY <1>1, <1>2, <1>3, <1>4, <1>5a, <1>5b DEF ClientInv
<1>8. \A d \in SessionClients \ {c} : Same(d)  BY <1>3, <1>4, <1>5a, <1>5b DEF Same
<1> QED  BY <1>4, <1>6, <1>7, <1>8, OneClient

\* The status is written beside.
LEMMA WriteStatusKeeps ==
    ASSUME SessionInv, NEW c \in SessionClients, Linux!WriteStatus(c)
    PROVE  SessionInv'
<1>1. LauncherTypes /\ ClientTypes /\ ClientInv(c) /\ LinesOnce  BY DEF SessionInv
<1>2. job[c] = "exited" /\ UNCHANGED Linux!guest
  BY DEF Linux!WriteStatus, Linux!Step, Linux!Write
<1>3. /\ job' = [job EXCEPT ![c] = "reporting"]
      /\ files' = [files EXCEPT ![c] = files[c] \cup {"status.tmp"}]
      /\ UNCHANGED <<pidText, outcome, client, result, cancelled, killed, lostRequests>>
  BY <1>1 DEF Linux!WriteStatus, Linux!Step, Linux!Write, ClientTypes
<1>4. LauncherTypes' /\ fifoLines' = fifoLines /\ LinesOnce'
  BY <1>1, <1>2 DEF LauncherTypes, LinesOnce, Linux!guest
<1>5a. /\ job' \in [SessionClients -> Linux!Jobs] /\ job'[c] = "reporting"
       /\ \A d \in SessionClients \ {c} : job'[d] = job[d]
 <2>1. job \in [SessionClients -> Linux!Jobs]  BY <1>1 DEF ClientTypes
 <2>2. "reporting" \in Linux!Jobs  BY <2>1 DEF Linux!Jobs
 <2> QED  BY <1>3, <2>1, <2>2, Updated
<1>5b. /\ files' \in [SessionClients -> SUBSET Linux!Names] /\ files'[c] = files[c] \cup {"status.tmp"}
       /\ \A d \in SessionClients \ {c} : files'[d] = files[d]
 <2>1. files \in [SessionClients -> SUBSET Linux!Names]  BY <1>1 DEF ClientTypes
 <2>2. files[c] \cup {"status.tmp"} \in SUBSET Linux!Names  BY <2>1 DEF Linux!Names
 <2> QED  BY <1>3, <2>1, <2>2, Updated
<1>6. ClientTypes'  BY <1>1, <1>3, <1>5a, <1>5b DEF ClientTypes
<1>7. ClientInv(c)'  BY <1>1, <1>2, <1>3, <1>4, <1>5a, <1>5b DEF ClientInv
<1>8. \A d \in SessionClients \ {c} : Same(d)  BY <1>3, <1>4, <1>5a, <1>5b DEF Same
<1> QED  BY <1>4, <1>6, <1>7, <1>8, OneClient

\* The status gets its name.
LEMMA MoveStatusKeeps ==
    ASSUME SessionInv, NEW c \in SessionClients, Linux!MoveStatus(c)
    PROVE  SessionInv'
<1>1. LauncherTypes /\ ClientTypes /\ ClientInv(c) /\ LinesOnce  BY DEF SessionInv
<1>2. job[c] = "reporting" /\ UNCHANGED Linux!guest  BY DEF Linux!MoveStatus, Linux!Step
<1>3. /\ job' = [job EXCEPT ![c] = "over"]
      /\ files' = [files EXCEPT ![c] = IF "status.tmp" \in files[c]
                                            THEN (files[c] \ {"status.tmp"}) \cup {"status"} ELSE files[c]]
      /\ UNCHANGED <<pidText, outcome, client, result, cancelled, killed, lostRequests>>
  BY <1>1 DEF Linux!MoveStatus, Linux!Step, ClientTypes
<1>4. LauncherTypes' /\ fifoLines' = fifoLines /\ LinesOnce'
  BY <1>1, <1>2 DEF LauncherTypes, LinesOnce, Linux!guest
<1>5a. /\ job' \in [SessionClients -> Linux!Jobs] /\ job'[c] = "over"
       /\ \A d \in SessionClients \ {c} : job'[d] = job[d]
 <2>1. job \in [SessionClients -> Linux!Jobs]  BY <1>1 DEF ClientTypes
 <2>2. "over" \in Linux!Jobs  BY <2>1 DEF Linux!Jobs
 <2> QED  BY <1>3, <2>1, <2>2, Updated
<1>5b. /\ files' \in [SessionClients -> SUBSET Linux!Names] /\ files'[c] = (IF "status.tmp" \in files[c] THEN (files[c] \ {"status.tmp"}) \cup {"status"} ELSE files[c])
       /\ \A d \in SessionClients \ {c} : files'[d] = files[d]
 <2>1. files \in [SessionClients -> SUBSET Linux!Names]  BY <1>1 DEF ClientTypes
 <2>2. (IF "status.tmp" \in files[c] THEN (files[c] \ {"status.tmp"}) \cup {"status"} ELSE files[c]) \in SUBSET Linux!Names
   BY <2>1 DEF Linux!Names
 <2> QED  BY <1>3, <2>1, <2>2, Updated
<1>6. ClientTypes'  BY <1>1, <1>3, <1>5a, <1>5b DEF ClientTypes
<1>7. ClientInv(c)'  BY <1>1, <1>2, <1>3, <1>4, <1>5a, <1>5b DEF ClientInv
<1>8. \A d \in SessionClients \ {c} : Same(d)  BY <1>3, <1>4, <1>5a, <1>5b DEF Same
<1> QED  BY <1>4, <1>6, <1>7, <1>8, OneClient

\* The client finds the launcher.
LEMMA SeeReadyKeeps ==
    ASSUME SessionInv, NEW c \in SessionClients, Linux!SeeReady(c)
    PROVE  SessionInv'
<1>1. LauncherTypes /\ ClientTypes /\ ClientInv(c) /\ LinesOnce  BY DEF SessionInv
<1>2. client[c] = "start" /\ UNCHANGED Linux!guest  BY DEF Linux!SeeReady, Linux!Goes
<1>3. /\ client' = [client EXCEPT ![c] = "request"]
      /\ UNCHANGED <<files, pidText, job, outcome, result, cancelled, killed, lostRequests>>
  BY <1>1 DEF Linux!SeeReady, Linux!Goes, ClientTypes
<1>4. LauncherTypes' /\ fifoLines' = fifoLines /\ LinesOnce'
  BY <1>1, <1>2 DEF LauncherTypes, LinesOnce, Linux!guest
<1>5a. /\ client' \in [SessionClients -> Linux!Stages] /\ client'[c] = "request"
       /\ \A d \in SessionClients \ {c} : client'[d] = client[d]
 <2>1. client \in [SessionClients -> Linux!Stages]  BY <1>1 DEF ClientTypes
 <2>2. "request" \in Linux!Stages  BY <2>1 DEF Linux!Stages
 <2> QED  BY <1>3, <2>1, <2>2, Updated
<1>6. ClientTypes'  BY <1>1, <1>3, <1>5a DEF ClientTypes
<1>7. ClientInv(c)'  BY <1>1, <1>2, <1>3, <1>4, <1>5a DEF ClientInv
<1>8. \A d \in SessionClients \ {c} : Same(d)  BY <1>3, <1>4, <1>5a DEF Same
<1> QED  BY <1>4, <1>6, <1>7, <1>8, OneClient

\* A client that finds no launcher, or cannot write its request, returns.
LEMMA GivesUpKeeps ==
    ASSUME SessionInv, NEW c \in SessionClients, Linux!NotReady(c) \/ Linux!RequestFails(c)
    PROVE  SessionInv'
<1>1. LauncherTypes /\ ClientTypes /\ ClientInv(c) /\ LinesOnce  BY DEF SessionInv
<1>2. client[c] \in {"start", "request"} /\ UNCHANGED Linux!guest
  BY DEF Linux!NotReady, Linux!RequestFails, Linux!Goes, Linux!Returns
<1>3. /\ client' = [client EXCEPT ![c] = "done"]
      /\ result' = [result EXCEPT ![c] = 1]
      /\ UNCHANGED <<files, pidText, job, outcome, cancelled, killed, lostRequests>>
  BY <1>1 DEF Linux!NotReady, Linux!RequestFails, Linux!Goes, Linux!Returns, ClientTypes
<1>4. LauncherTypes' /\ fifoLines' = fifoLines /\ LinesOnce'
  BY <1>1, <1>2 DEF LauncherTypes, LinesOnce, Linux!guest
<1>5a. /\ client' \in [SessionClients -> Linux!Stages] /\ client'[c] = "done"
       /\ \A d \in SessionClients \ {c} : client'[d] = client[d]
 <2>1. client \in [SessionClients -> Linux!Stages]  BY <1>1 DEF ClientTypes
 <2>2. "done" \in Linux!Stages  BY <2>1 DEF Linux!Stages
 <2> QED  BY <1>3, <2>1, <2>2, Updated
<1>5b. /\ result' \in [SessionClients -> Codes \cup {0, 1, 143}] /\ result'[c] = 1
       /\ \A d \in SessionClients \ {c} : result'[d] = result[d]
 <2>1. result \in [SessionClients -> Codes \cup {0, 1, 143}]  BY <1>1 DEF ClientTypes
 <2>2. 1 \in Codes \cup {0, 1, 143}  BY <2>1
 <2> QED  BY <1>3, <2>1, <2>2, Updated
<1>6. ClientTypes'  BY <1>1, <1>3, <1>5a, <1>5b DEF ClientTypes
<1>7. ClientInv(c)'  BY <1>1, <1>2, <1>3, <1>4, <1>5a, <1>5b DEF ClientInv
<1>8. \A d \in SessionClients \ {c} : Same(d)  BY <1>3, <1>4, <1>5a, <1>5b DEF Same
<1> QED  BY <1>4, <1>6, <1>7, <1>8, OneClient

\* The request file is written.
LEMMA WriteRequestKeeps ==
    ASSUME SessionInv, NEW c \in SessionClients, Linux!WriteRequest(c)
    PROVE  SessionInv'
<1>1. LauncherTypes /\ ClientTypes /\ ClientInv(c) /\ LinesOnce  BY DEF SessionInv
<1>2. client[c] = "request" /\ UNCHANGED Linux!guest
  BY DEF Linux!WriteRequest, Linux!Goes, Linux!Write
<1>3. /\ client' = [client EXCEPT ![c] = "submit"]
      /\ files' = [files EXCEPT ![c] = files[c] \cup {"request"}]
      /\ UNCHANGED <<pidText, job, outcome, result, cancelled, killed, lostRequests>>
  BY <1>1 DEF Linux!WriteRequest, Linux!Goes, Linux!Write, ClientTypes
<1>4. LauncherTypes' /\ fifoLines' = fifoLines /\ LinesOnce'
  BY <1>1, <1>2 DEF LauncherTypes, LinesOnce, Linux!guest
<1>5a. /\ client' \in [SessionClients -> Linux!Stages] /\ client'[c] = "submit"
       /\ \A d \in SessionClients \ {c} : client'[d] = client[d]
 <2>1. client \in [SessionClients -> Linux!Stages]  BY <1>1 DEF ClientTypes
 <2>2. "submit" \in Linux!Stages  BY <2>1 DEF Linux!Stages
 <2> QED  BY <1>3, <2>1, <2>2, Updated
<1>5b. /\ files' \in [SessionClients -> SUBSET Linux!Names] /\ files'[c] = files[c] \cup {"request"}
       /\ \A d \in SessionClients \ {c} : files'[d] = files[d]
 <2>1. files \in [SessionClients -> SUBSET Linux!Names]  BY <1>1 DEF ClientTypes
 <2>2. files[c] \cup {"request"} \in SUBSET Linux!Names  BY <2>1 DEF Linux!Names
 <2> QED  BY <1>3, <2>1, <2>2, Updated
<1>6. ClientTypes'  BY <1>1, <1>3, <1>5a, <1>5b DEF ClientTypes
<1>7. ClientInv(c)'  BY <1>1, <1>2, <1>3, <1>4, <1>5a, <1>5b DEF ClientInv
<1>8. \A d \in SessionClients \ {c} : Same(d)  BY <1>3, <1>4, <1>5a, <1>5b DEF Same
<1> QED  BY <1>4, <1>6, <1>7, <1>8, OneClient

\* Nobody reads the FIFO.
LEMMA RefusedKeeps ==
    ASSUME SessionInv, NEW c \in SessionClients, Linux!Refused(c)
    PROVE  SessionInv'
<1>1. LauncherTypes /\ ClientTypes /\ ClientInv(c) /\ LinesOnce  BY DEF SessionInv
<1>2. client[c] = "submit" /\ UNCHANGED Linux!guest  BY DEF Linux!Refused, Linux!Goes
<1>3. /\ client' = [client EXCEPT ![c] = "refused"]
      /\ UNCHANGED <<files, pidText, job, outcome, result, cancelled, killed, lostRequests>>
  BY <1>1 DEF Linux!Refused, Linux!Goes, ClientTypes
<1>4. LauncherTypes' /\ fifoLines' = fifoLines /\ LinesOnce'
  BY <1>1, <1>2 DEF LauncherTypes, LinesOnce, Linux!guest
<1>5a. /\ client' \in [SessionClients -> Linux!Stages] /\ client'[c] = "refused"
       /\ \A d \in SessionClients \ {c} : client'[d] = client[d]
 <2>1. client \in [SessionClients -> Linux!Stages]  BY <1>1 DEF ClientTypes
 <2>2. "refused" \in Linux!Stages  BY <2>1 DEF Linux!Stages
 <2> QED  BY <1>3, <2>1, <2>2, Updated
<1>6. ClientTypes'  BY <1>1, <1>3, <1>5a DEF ClientTypes
<1>7. ClientInv(c)'  BY <1>1, <1>2, <1>3, <1>4, <1>5a DEF ClientInv
<1>8. \A d \in SessionClients \ {c} : Same(d)  BY <1>3, <1>4, <1>5a DEF Same
<1> QED  BY <1>4, <1>6, <1>7, <1>8, OneClient

\* The names are removed.
LEMMA RemoveEndpointKeeps ==
    ASSUME SessionInv, NEW c \in SessionClients, Linux!RemoveEndpoint(c)
    PROVE  SessionInv'
<1>1. LauncherTypes /\ ClientTypes /\ ClientInv(c) /\ LinesOnce  BY DEF SessionInv
<1>2. client[c] = "refused" /\ UNCHANGED <<sessionLauncher, starts, fifoLines>> /\ ready' = FALSE /\ fifo' = FALSE /\ linked' = FALSE
  BY DEF Linux!RemoveEndpoint, Linux!Goes, Linux!Returns
<1>3. /\ client' = [client EXCEPT ![c] = "done"]
      /\ result' = [result EXCEPT ![c] = 1]
      /\ UNCHANGED <<files, pidText, job, outcome, cancelled, killed, lostRequests>>
  BY <1>1 DEF Linux!RemoveEndpoint, Linux!Goes, Linux!Returns, ClientTypes
<1>4. LauncherTypes' /\ fifoLines' = fifoLines /\ LinesOnce'
  BY <1>1, <1>2 DEF LauncherTypes, LinesOnce
<1>5a. /\ client' \in [SessionClients -> Linux!Stages] /\ client'[c] = "done"
       /\ \A d \in SessionClients \ {c} : client'[d] = client[d]
 <2>1. client \in [SessionClients -> Linux!Stages]  BY <1>1 DEF ClientTypes
 <2>2. "done" \in Linux!Stages  BY <2>1 DEF Linux!Stages
 <2> QED  BY <1>3, <2>1, <2>2, Updated
<1>5b. /\ result' \in [SessionClients -> Codes \cup {0, 1, 143}] /\ result'[c] = 1
       /\ \A d \in SessionClients \ {c} : result'[d] = result[d]
 <2>1. result \in [SessionClients -> Codes \cup {0, 1, 143}]  BY <1>1 DEF ClientTypes
 <2>2. 1 \in Codes \cup {0, 1, 143}  BY <2>1
 <2> QED  BY <1>3, <2>1, <2>2, Updated
<1>6. ClientTypes'  BY <1>1, <1>3, <1>5a, <1>5b DEF ClientTypes
<1>7. ClientInv(c)'  BY <1>1, <1>2, <1>3, <1>4, <1>5a, <1>5b DEF ClientInv
<1>8. \A d \in SessionClients \ {c} : Same(d)  BY <1>3, <1>4, <1>5a, <1>5b DEF Same
<1> QED  BY <1>4, <1>6, <1>7, <1>8, OneClient

\* The cancelled client terminates the process in its pid file.
LEMMA CancelCommandKeeps ==
    ASSUME SessionInv, NEW c \in SessionClients, Linux!CancelCommand(c)
    PROVE  SessionInv'
<1>1. LauncherTypes /\ ClientTypes /\ ClientInv(c) /\ LinesOnce  BY DEF SessionInv
<1>2. client[c] = "waiting" /\ c \in cancelled /\ UNCHANGED Linux!guest
  BY DEF Linux!CancelCommand, Linux!Goes
<1>3. /\ client' = [client EXCEPT ![c] = "cancelling"]
      /\ killed' = [killed EXCEPT ![c] = IF pidText[c] # "" /\ Linux!Mapped(pidText[c])
                                              THEN killed[c] \cup {pidText[c]} ELSE killed[c]]
      /\ UNCHANGED <<files, pidText, job, outcome, result, cancelled, lostRequests>>
  BY <1>1 DEF Linux!CancelCommand, Linux!Goes, ClientTypes
<1>4. LauncherTypes' /\ fifoLines' = fifoLines /\ LinesOnce'
  BY <1>1, <1>2 DEF LauncherTypes, LinesOnce, Linux!guest
<1>5a. /\ client' \in [SessionClients -> Linux!Stages] /\ client'[c] = "cancelling"
       /\ \A d \in SessionClients \ {c} : client'[d] = client[d]
 <2>1. client \in [SessionClients -> Linux!Stages]  BY <1>1 DEF ClientTypes
 <2>2. "cancelling" \in Linux!Stages  BY <2>1 DEF Linux!Stages
 <2> QED  BY <1>3, <2>1, <2>2, Updated
<1>5b. /\ killed' \in [SessionClients -> SUBSET (SessionClients \cup {Linux!Launcher})] /\ killed'[c] = (IF pidText[c] # "" /\ Linux!Mapped(pidText[c]) THEN killed[c] \cup {pidText[c]} ELSE killed[c])
       /\ \A d \in SessionClients \ {c} : killed'[d] = killed[d]
 <2>0. pidText \in [SessionClients -> SessionClients \cup {"", Linux!Launcher}]
   BY <1>1 DEF ClientTypes
 <2>1. killed \in [SessionClients -> SUBSET (SessionClients \cup {Linux!Launcher})]
   BY <1>1 DEF ClientTypes
 <2>2. (IF pidText[c] # "" /\ Linux!Mapped(pidText[c]) THEN killed[c] \cup {pidText[c]} ELSE killed[c]) \in SUBSET (SessionClients \cup {Linux!Launcher})
   BY <2>1, <2>0
 <2> QED  BY <1>3, <2>1, <2>2, Updated
<1>6. ClientTypes'  BY <1>1, <1>3, <1>5a, <1>5b DEF ClientTypes
<1>7. ClientInv(c)'  BY <1>1, <1>2, <1>3, <1>4, <1>5a, <1>5b DEF ClientInv
<1>8. \A d \in SessionClients \ {c} : Same(d)  BY <1>3, <1>4, <1>5a, <1>5b DEF Same
<1> QED  BY <1>4, <1>6, <1>7, <1>8, OneClient

\* The cancelled client removes its files.
LEMMA FinishCancelKeeps ==
    ASSUME SessionInv, NEW c \in SessionClients, Linux!FinishCancel(c)
    PROVE  SessionInv'
<1>1. LauncherTypes /\ ClientTypes /\ ClientInv(c) /\ LinesOnce  BY DEF SessionInv
<1>2. client[c] = "cancelling" /\ UNCHANGED Linux!guest
  BY DEF Linux!FinishCancel, Linux!Goes, Linux!Returns
<1>3. /\ client' = [client EXCEPT ![c] = "done"]
      /\ result' = [result EXCEPT ![c] = 143]
      /\ files' = [files EXCEPT ![c] = files[c] \ {"request", "status", "pid"}]
      /\ pidText' = [pidText EXCEPT ![c] = ""]
      /\ UNCHANGED <<job, outcome, cancelled, killed, lostRequests>>
  BY <1>1 DEF Linux!FinishCancel, Linux!Goes, Linux!Returns, ClientTypes
<1>4. LauncherTypes' /\ fifoLines' = fifoLines /\ LinesOnce'
  BY <1>1, <1>2 DEF LauncherTypes, LinesOnce, Linux!guest
<1>5a. /\ client' \in [SessionClients -> Linux!Stages] /\ client'[c] = "done"
       /\ \A d \in SessionClients \ {c} : client'[d] = client[d]
 <2>1. client \in [SessionClients -> Linux!Stages]  BY <1>1 DEF ClientTypes
 <2>2. "done" \in Linux!Stages  BY <2>1 DEF Linux!Stages
 <2> QED  BY <1>3, <2>1, <2>2, Updated
<1>5b. /\ result' \in [SessionClients -> Codes \cup {0, 1, 143}] /\ result'[c] = 143
       /\ \A d \in SessionClients \ {c} : result'[d] = result[d]
 <2>1. result \in [SessionClients -> Codes \cup {0, 1, 143}]  BY <1>1 DEF ClientTypes
 <2>2. 143 \in Codes \cup {0, 1, 143}  BY <2>1
 <2> QED  BY <1>3, <2>1, <2>2, Updated
<1>5c. /\ files' \in [SessionClients -> SUBSET Linux!Names] /\ files'[c] = files[c] \ {"request", "status", "pid"}
       /\ \A d \in SessionClients \ {c} : files'[d] = files[d]
 <2>1. files \in [SessionClients -> SUBSET Linux!Names]  BY <1>1 DEF ClientTypes
 <2>2. files[c] \ {"request", "status", "pid"} \in SUBSET Linux!Names  BY <2>1 DEF Linux!Names
 <2> QED  BY <1>3, <2>1, <2>2, Updated
<1>5d. /\ pidText' \in [SessionClients -> SessionClients \cup {"", Linux!Launcher}] /\ pidText'[c] = ""
       /\ \A d \in SessionClients \ {c} : pidText'[d] = pidText[d]
 <2>1. pidText \in [SessionClients -> SessionClients \cup {"", Linux!Launcher}]
   BY <1>1 DEF ClientTypes
 <2>2. "" \in SessionClients \cup {"", Linux!Launcher}  BY <2>1
 <2> QED  BY <1>3, <2>1, <2>2, Updated
<1>6. ClientTypes'  BY <1>1, <1>3, <1>5a, <1>5b, <1>5c, <1>5d DEF ClientTypes
<1>7. ClientInv(c)'  BY <1>1, <1>2, <1>3, <1>4, <1>5a, <1>5b, <1>5c, <1>5d DEF ClientInv
<1>8. \A d \in SessionClients \ {c} : Same(d)  BY <1>3, <1>4, <1>5a, <1>5b, <1>5c, <1>5d DEF Same
<1> QED  BY <1>4, <1>6, <1>7, <1>8, OneClient

\* The client reads its status and removes its files.
LEMMA CollectKeeps ==
    ASSUME SessionInv, NEW c \in SessionClients, Linux!Collect(c)
    PROVE  SessionInv'
<1>1. LauncherTypes /\ ClientTypes /\ ClientInv(c) /\ LinesOnce  BY DEF SessionInv
<1>2. client[c] = "waiting" /\ "status" \in files[c] /\ UNCHANGED Linux!guest
  BY DEF Linux!Collect, Linux!Goes, Linux!Returns
<1>3. /\ client' = [client EXCEPT ![c] = "done"]
      /\ result' = [result EXCEPT ![c] = Linux!StatusText(c)]
      /\ files' = [files EXCEPT ![c] = files[c] \ {"request", "status", "pid"}]
      /\ pidText' = [pidText EXCEPT ![c] = ""]
      /\ UNCHANGED <<job, outcome, cancelled, killed, lostRequests>>
  BY <1>1 DEF Linux!Collect, Linux!Goes, Linux!Returns, ClientTypes
<1>4. LauncherTypes' /\ fifoLines' = fifoLines /\ LinesOnce'
  BY <1>1, <1>2 DEF LauncherTypes, LinesOnce, Linux!guest
<1>5a. /\ client' \in [SessionClients -> Linux!Stages] /\ client'[c] = "done"
       /\ \A d \in SessionClients \ {c} : client'[d] = client[d]
 <2>1. client \in [SessionClients -> Linux!Stages]  BY <1>1 DEF ClientTypes
 <2>2. "done" \in Linux!Stages  BY <2>1 DEF Linux!Stages
 <2> QED  BY <1>3, <2>1, <2>2, Updated
<1>5b. /\ result' \in [SessionClients -> Codes \cup {0, 1, 143}] /\ result'[c] = Linux!StatusText(c)
       /\ \A d \in SessionClients \ {c} : result'[d] = result[d]
 <2>0. outcome \in [SessionClients -> Codes \cup {0, 143}]  BY <1>1 DEF ClientTypes
 <2>1. result \in [SessionClients -> Codes \cup {0, 1, 143}]  BY <1>1 DEF ClientTypes
 <2>2. Linux!StatusText(c) \in Codes \cup {0, 1, 143}  BY <2>1, <2>0 DEF Linux!StatusText
 <2>3. PICK v : v = Linux!StatusText(c)  OBVIOUS
 <2>4. result' = [result EXCEPT ![c] = v] /\ v \in Codes \cup {0, 1, 143}  BY <1>3, <2>2, <2>3
 <2>5. /\ result' \in [SessionClients -> Codes \cup {0, 1, 143}] /\ result'[c] = v
       /\ \A d \in SessionClients \ {c} : result'[d] = result[d]
   BY <2>1, <2>4, Updated
 <2> QED  BY <2>3, <2>5
<1>5c. /\ files' \in [SessionClients -> SUBSET Linux!Names] /\ files'[c] = files[c] \ {"request", "status", "pid"}
       /\ \A d \in SessionClients \ {c} : files'[d] = files[d]
 <2>1. files \in [SessionClients -> SUBSET Linux!Names]  BY <1>1 DEF ClientTypes
 <2>2. files[c] \ {"request", "status", "pid"} \in SUBSET Linux!Names  BY <2>1 DEF Linux!Names
 <2> QED  BY <1>3, <2>1, <2>2, Updated
<1>5d. /\ pidText' \in [SessionClients -> SessionClients \cup {"", Linux!Launcher}] /\ pidText'[c] = ""
       /\ \A d \in SessionClients \ {c} : pidText'[d] = pidText[d]
 <2>1. pidText \in [SessionClients -> SessionClients \cup {"", Linux!Launcher}]
   BY <1>1 DEF ClientTypes
 <2>2. "" \in SessionClients \cup {"", Linux!Launcher}  BY <2>1
 <2> QED  BY <1>3, <2>1, <2>2, Updated
<1>6. ClientTypes'  BY <1>1, <1>3, <1>5a, <1>5b, <1>5c, <1>5d DEF ClientTypes
<1>7. ClientInv(c)'
  BY <1>1, <1>2, <1>3, <1>4, <1>5a, <1>5b, <1>5c, <1>5d DEF ClientInv, Linux!StatusText
<1>8. \A d \in SessionClients \ {c} : Same(d)  BY <1>3, <1>4, <1>5a, <1>5b, <1>5c, <1>5d DEF Same
<1> QED  BY <1>4, <1>6, <1>7, <1>8, OneClient

\* The client is sent a signal.
LEMMA CancelKeeps ==
    ASSUME SessionInv, NEW c \in SessionClients, Linux!Cancel(c)
    PROVE  SessionInv'
<1>1. LauncherTypes /\ ClientTypes /\ ClientInv(c) /\ LinesOnce  BY DEF SessionInv
<1>2. client[c] = "waiting" /\ UNCHANGED Linux!guest  BY DEF Linux!Cancel
<1>3. /\ cancelled' = cancelled \cup {c}
      /\ UNCHANGED <<files, pidText, job, outcome, client, result, killed, lostRequests>>
  BY <1>1 DEF Linux!Cancel, ClientTypes
<1>4. LauncherTypes' /\ fifoLines' = fifoLines /\ LinesOnce'
  BY <1>1, <1>2 DEF LauncherTypes, LinesOnce, Linux!guest
<1>5a. cancelled' \subseteq SessionClients /\ c \in cancelled' /\ \A d \in cancelled : d \in cancelled'
  BY <1>1, <1>3 DEF ClientTypes
<1>6. ClientTypes'  BY <1>1, <1>3, <1>5a DEF ClientTypes
<1>7. ClientInv(c)'  BY <1>1, <1>2, <1>3, <1>4, <1>5a DEF ClientInv
<1>8. \A d \in SessionClients \ {c} : Same(d)  BY <1>3, <1>4, <1>5a DEF Same
<1> QED  BY <1>4, <1>6, <1>7, <1>8, OneClient

\* The command ends: with 143 when it was terminated.
LEMMA CommandEndsKeeps ==
    ASSUME SessionInv, NEW c \in SessionClients, Linux!CommandEnds(c)
    PROVE  SessionInv'
<1>1. LauncherTypes /\ ClientTypes /\ ClientInv(c) /\ LinesOnce  BY DEF SessionInv
<1>2. job[c] = "waiting" /\ UNCHANGED Linux!guest  BY DEF Linux!CommandEnds, Linux!Step
<1>3. PICK code \in Codes \cup {0, 143} :
         /\ outcome' = [outcome EXCEPT ![c] = code]
         /\ job' = [job EXCEPT ![c] = "exited"]
         /\ UNCHANGED <<files, pidText, client, result, cancelled, killed, lostRequests>>
  BY DEF Linux!CommandEnds, Linux!Step
<1>4. LauncherTypes' /\ fifoLines' = fifoLines /\ LinesOnce'
  BY <1>1, <1>2 DEF LauncherTypes, LinesOnce, Linux!guest
<1>5a. /\ job' \in [SessionClients -> Linux!Jobs] /\ job'[c] = "exited"
       /\ \A d \in SessionClients \ {c} : job'[d] = job[d]
 <2>1. job \in [SessionClients -> Linux!Jobs] /\ "exited" \in Linux!Jobs
   BY <1>1 DEF ClientTypes, Linux!Jobs
 <2> QED  BY <1>3, <2>1, Updated
<1>5b. /\ outcome' \in [SessionClients -> Codes \cup {0, 143}]
       /\ \A d \in SessionClients \ {c} : outcome'[d] = outcome[d]
 <2>1. outcome \in [SessionClients -> Codes \cup {0, 143}]  BY <1>1 DEF ClientTypes
 <2> QED  BY <1>3, <2>1, Updated
<1>6. ClientTypes'  BY <1>1, <1>3, <1>5a, <1>5b DEF ClientTypes
<1>7. ClientInv(c)'  BY <1>1, <1>2, <1>3, <1>4, <1>5a DEF ClientInv
<1>8. \A d \in SessionClients \ {c} : Same(d)  BY <1>3, <1>4, <1>5a, <1>5b DEF Same
<1> QED  BY <1>4, <1>6, <1>7, <1>8, OneClient

\* The name of the request is put into the FIFO, where it was not before.
LEMMA SubmitKeeps ==
    ASSUME SessionInv, NEW c \in SessionClients, Linux!Submit(c)
    PROVE  SessionInv'
<1>1. LauncherTypes /\ ClientTypes /\ ClientInv(c) /\ LinesOnce  BY DEF SessionInv
<1>2. /\ client[c] = "submit" /\ fifoLines' = Append(fifoLines, c)
      /\ client' = [client EXCEPT ![c] = "waiting"]
      /\ UNCHANGED <<sessionLauncher, starts, ready, fifo, linked>>
      /\ UNCHANGED <<files, pidText, job, outcome, result, cancelled, killed, lostRequests>>
  BY DEF Linux!Submit, Linux!Goes
<1>3. c \notin Linux!Range(fifoLines) /\ fifoLines \in Seq(SessionClients)
  BY <1>1, <1>2 DEF ClientInv, LauncherTypes
<1>4. /\ fifoLines' \in Seq(SessionClients) /\ LinesOnce'
      /\ \A x : x \in Linux!Range(fifoLines') <=> x \in Linux!Range(fifoLines) \/ x = c
  BY <1>1, <1>2, <1>3, AppendOnce DEF LinesOnce
<1>5. LauncherTypes'  BY <1>1, <1>2, <1>4 DEF LauncherTypes
<1>8. /\ client' \in [SessionClients -> Linux!Stages] /\ client'[c] = "waiting"
      /\ \A d \in SessionClients \ {c} : client'[d] = client[d]
 <2>1. client \in [SessionClients -> Linux!Stages] /\ "waiting" \in Linux!Stages
   BY <1>1 DEF ClientTypes, Linux!Stages
 <2> QED  BY <1>2, <2>1, Updated
<1>6. ClientTypes'  BY <1>1, <1>2, <1>8 DEF ClientTypes
<1>7. ClientInv(c)'  BY <1>1, <1>2, <1>4, <1>8 DEF ClientInv
<1>9. \A d \in SessionClients \ {c} : Same(d)  BY <1>2, <1>4, <1>8 DEF Same
<1> QED  BY <1>4, <1>5, <1>6, <1>7, <1>9, OneClient

\* The launcher takes the first name: its job begins, and no other name in
\* the FIFO is the same.
LEMMA TakeRequestKeeps ==
    ASSUME SessionInv, Linux!TakeRequest
    PROVE  SessionInv'
<1>1. LauncherTypes /\ ClientTypes /\ LinesOnce  BY DEF SessionInv
<1>2. fifoLines \in Seq(SessionClients) /\ fifoLines # <<>> /\ fifoLines' = Tail(fifoLines)
  BY <1>1 DEF Linux!TakeRequest, LauncherTypes
<1>3. PICK c : c = Head(fifoLines)  OBVIOUS
<1>4. /\ fifoLines' \in Seq(SessionClients) /\ LinesOnce'
      /\ \A x : x \in Linux!Range(fifoLines') <=> x \in Linux!Range(fifoLines) /\ x # c
      /\ c \in Linux!Range(fifoLines) /\ c \in SessionClients
  BY <1>1, <1>2, <1>3, TailOnce DEF LinesOnce
<1>5. /\ job' = IF "request" \in files[c] THEN [job EXCEPT ![c] = "forked"] ELSE job
      /\ UNCHANGED <<sessionLauncher, starts, ready, fifo, linked>>
      /\ UNCHANGED <<files, pidText, outcome, client, result, cancelled, killed, lostRequests>>
  BY <1>3 DEF Linux!TakeRequest
<1>6. LauncherTypes'  BY <1>1, <1>4, <1>5 DEF LauncherTypes
<1>10. /\ job' \in [SessionClients -> Linux!Jobs]
       /\ job'[c] = IF "request" \in files[c] THEN "forked" ELSE job[c]
       /\ \A d \in SessionClients \ {c} : job'[d] = job[d]
 <2>1. job \in [SessionClients -> Linux!Jobs] /\ "forked" \in Linux!Jobs
   BY <1>1 DEF ClientTypes, Linux!Jobs
 <2> QED  BY <1>4, <1>5, <2>1, Updated
<1>7. ClientTypes'  BY <1>1, <1>5, <1>10 DEF ClientTypes
<1>8. ClientInv(c)  BY <1>4 DEF SessionInv
<1>9. ClientInv(c)'  BY <1>4, <1>5, <1>8, <1>10 DEF ClientInv
<1>11. \A d \in SessionClients \ {c} : Same(d)  BY <1>4, <1>5, <1>10 DEF Same
<1> QED  BY <1>4, <1>6, <1>7, <1>9, <1>11, OneClient

\* A launcher starts in an empty directory: the requests there are lost.
LEMMA LauncherStartKeeps ==
    ASSUME StartsCounted, SessionInv, Linux!LauncherStart
    PROVE  SessionInv'
<1>1. LauncherTypes /\ ClientTypes /\ LinesOnce  BY DEF SessionInv
<1>2. /\ sessionLauncher' = "starting" /\ starts' = starts + 1 /\ starts < MaxStarts
      /\ ready' = FALSE /\ fifo' = TRUE /\ linked' = TRUE /\ fifoLines' = fifoLines
  BY DEF Linux!LauncherStart
<1>3. /\ files' = [c \in SessionClients |-> {}] /\ pidText' = [c \in SessionClients |-> ""]
      /\ lostRequests' = lostRequests \cup Linux!Pending
      /\ UNCHANGED <<job, outcome, client, result, cancelled, killed>>
  BY DEF Linux!LauncherStart
<1>4. LauncherTypes' /\ LinesOnce'
 <2>1. starts' \in 0 .. MaxStarts  BY <1>1, <1>2 DEF StartsCounted, LauncherTypes
 <2> QED  BY <1>1, <1>2, <2>1 DEF LauncherTypes, LinesOnce
<1>5. ClientTypes'  BY <1>1, <1>3 DEF ClientTypes, Linux!Pending
<1>6. ASSUME NEW c \in SessionClients PROVE ClientInv(c)'
 <2>1. ClientInv(c)  BY DEF SessionInv
 <2>2. c \in lostRequests' <=> c \in lostRequests \/ client[c] \in {"submit", "waiting", "cancelling"}
   BY <1>3 DEF Linux!Pending
 <2> QED  BY <1>2, <1>3, <2>1, <2>2 DEF ClientInv
<1> QED  BY <1>4, <1>5, <1>6 DEF SessionInv

\* The launcher serves.
LEMMA LauncherReadyKeeps ==
    ASSUME SessionInv, Linux!LauncherReady
    PROVE  SessionInv'
<1>1. /\ sessionLauncher' = "serving" /\ ready' = TRUE /\ UNCHANGED <<starts, fifo, linked, fifoLines>>
      /\ UNCHANGED <<files, pidText, job, outcome, client, result, cancelled, killed, lostRequests>>
  BY DEF Linux!LauncherReady
<1>2. LauncherTypes' /\ LinesOnce'  BY <1>1 DEF SessionInv, LauncherTypes, LinesOnce
<1>3. ClientTypes'  BY <1>1 DEF SessionInv, ClientTypes
<1>4. \A c \in SessionClients : ClientInv(c)'  BY <1>1, SameKeeps DEF SessionInv, Same
<1> QED  BY <1>2, <1>3, <1>4 DEF SessionInv

\* Unread names are gone, and their clients with all who wait are lost.
LEMMA LinesDropped ==
    ASSUME SessionInv, fifoLines' = <<>>, lostRequests' = lostRequests \cup Linux!Pending,
           UNCHANGED <<files, pidText, outcome, client, result, cancelled, killed>>,
           \A c \in SessionClients : job'[c] = job[c] \/ (job[c] # "none" /\ job'[c] = "over")
    PROVE  /\ fifoLines' \in Seq(SessionClients) /\ LinesOnce'
           /\ \A c \in SessionClients : ClientInv(c)'
<1>1. fifoLines' \in Seq(SessionClients) /\ LinesOnce' /\ \A x : x \notin Linux!Range(fifoLines')
  BY NothingInLine DEF LinesOnce
<1>2. ASSUME NEW c \in SessionClients PROVE ClientInv(c)'
 <2>1. ClientInv(c)  BY DEF SessionInv
 <2>2. c \in lostRequests' <=> c \in lostRequests \/ client[c] \in {"submit", "waiting", "cancelling"}
   BY DEF Linux!Pending
 <2> QED  BY <1>1, <2>1, <2>2 DEF ClientInv
<1> QED  BY <1>1, <1>2

\* The launcher stops with the FIFO; its jobs go on.
LEMMA LauncherStopsKeeps ==
    ASSUME SessionInv, Linux!LauncherStops
    PROVE  SessionInv'
<1>1. /\ sessionLauncher' = "down" /\ ready' = FALSE /\ fifo' = FALSE /\ linked' = FALSE /\ fifoLines' = <<>>
      /\ lostRequests' = lostRequests \cup Linux!Pending /\ starts' = starts
      /\ UNCHANGED <<files, pidText, job, outcome, client, result, cancelled, killed>>
  BY DEF Linux!LauncherStops
<1>2. fifoLines' \in Seq(SessionClients) /\ LinesOnce' /\ \A c \in SessionClients : ClientInv(c)'
  BY <1>1, LinesDropped
<1>3. LauncherTypes'  BY <1>1, <1>2 DEF SessionInv, LauncherTypes
<1>4. ClientTypes'  BY <1>1 DEF SessionInv, ClientTypes, Linux!Pending
<1> QED  BY <1>2, <1>3, <1>4 DEF SessionInv

\* The instance dies with its jobs.
LEMMA InstanceDiesKeeps ==
    ASSUME SessionInv, Linux!InstanceDies
    PROVE  SessionInv'
<1>1. /\ sessionLauncher' = "down" /\ linked' = FALSE /\ fifoLines' = <<>>
      /\ job' = [c \in SessionClients |-> IF job[c] = "none" THEN "none" ELSE "over"]
      /\ lostRequests' = lostRequests \cup Linux!Pending /\ UNCHANGED <<starts, ready, fifo>>
      /\ UNCHANGED <<files, pidText, outcome, client, result, cancelled, killed>>
  BY DEF Linux!InstanceDies
<1>2. \A c \in SessionClients : job'[c] = job[c] \/ (job[c] # "none" /\ job'[c] = "over")  BY <1>1
<1>3. fifoLines' \in Seq(SessionClients) /\ LinesOnce' /\ \A c \in SessionClients : ClientInv(c)'
  BY <1>1, <1>2, LinesDropped
<1>4. LauncherTypes'  BY <1>1, <1>3 DEF SessionInv, LauncherTypes
<1>5. ClientTypes'  BY <1>1 DEF SessionInv, ClientTypes, Linux!Pending, Linux!Jobs
<1> QED  BY <1>3, <1>4, <1>5 DEF SessionInv

\* Every step of the launcher, of its jobs and of the clients preserves the
\* invariant.
LEMMA SessionStep ==
    ASSUME StartsCounted
    PROVE  SessionInv /\ [Linux!Next]_(Linux!vars) => SessionInv'
<1> SUFFICES ASSUME SessionInv, [Linux!Next]_(Linux!vars) PROVE SessionInv'  OBVIOUS
<1>1. CASE Linux!LauncherStart  BY <1>1, LauncherStartKeeps
<1>2. CASE Linux!LauncherReady  BY <1>2, LauncherReadyKeeps
<1>3. CASE Linux!TakeRequest  BY <1>3, TakeRequestKeeps
<1>4. CASE Linux!LauncherStops  BY <1>4, LauncherStopsKeeps
<1>5. CASE Linux!InstanceDies  BY <1>5, InstanceDiesKeeps
<1>6. ASSUME NEW c \in SessionClients, Linux!StartCommand(c) PROVE SessionInv'
  BY <1>6, StartCommandKeeps
<1>7. ASSUME NEW c \in SessionClients, Linux!OpenPidFile(c) PROVE SessionInv'
  BY <1>7, OpenPidFileKeeps
<1>8. ASSUME NEW c \in SessionClients, Linux!PublishPid(c) PROVE SessionInv'
  BY <1>8, PublishPidKeeps
<1>9. ASSUME NEW c \in SessionClients, Linux!CommandEnds(c) PROVE SessionInv'
  BY <1>9, CommandEndsKeeps
<1>10. ASSUME NEW c \in SessionClients, Linux!WriteStatus(c) PROVE SessionInv'
  BY <1>10, WriteStatusKeeps
<1>11. ASSUME NEW c \in SessionClients, Linux!MoveStatus(c) PROVE SessionInv'
  BY <1>11, MoveStatusKeeps
<1>12. ASSUME NEW c \in SessionClients, Linux!SeeReady(c) PROVE SessionInv'
  BY <1>12, SeeReadyKeeps
<1>13. ASSUME NEW c \in SessionClients, Linux!NotReady(c) \/ Linux!RequestFails(c) PROVE SessionInv'
  BY <1>13, GivesUpKeeps
<1>14. ASSUME NEW c \in SessionClients, Linux!WriteRequest(c) PROVE SessionInv'
  BY <1>14, WriteRequestKeeps
<1>15. ASSUME NEW c \in SessionClients, Linux!Submit(c) PROVE SessionInv'  BY <1>15, SubmitKeeps
<1>16. ASSUME NEW c \in SessionClients, Linux!Refused(c) PROVE SessionInv'  BY <1>16, RefusedKeeps
<1>17. ASSUME NEW c \in SessionClients, Linux!RemoveEndpoint(c) PROVE SessionInv'
  BY <1>17, RemoveEndpointKeeps
<1>18. ASSUME NEW c \in SessionClients, Linux!Cancel(c) PROVE SessionInv'  BY <1>18, CancelKeeps
<1>19. ASSUME NEW c \in SessionClients, Linux!CancelCommand(c) PROVE SessionInv'
  BY <1>19, CancelCommandKeeps
<1>20. ASSUME NEW c \in SessionClients, Linux!FinishCancel(c) PROVE SessionInv'
  BY <1>20, FinishCancelKeeps
<1>21. ASSUME NEW c \in SessionClients, Linux!Collect(c) PROVE SessionInv'  BY <1>21, CollectKeeps
<1>22. CASE UNCHANGED Linux!vars
 <2>1. LauncherTypes' /\ ClientTypes' /\ LinesOnce'
   BY <1>22 DEF SessionInv, LauncherTypes, ClientTypes, LinesOnce, Linux!vars
 <2>2. \A c \in SessionClients : ClientInv(c)'  BY <1>22 DEF SessionInv, ClientInv, Linux!vars
 <2> QED  BY <2>1, <2>2 DEF SessionInv
<1> QED
  BY <1>1, <1>2, <1>3, <1>4, <1>5, <1>6, <1>7, <1>8, <1>9, <1>10, <1>11, <1>12, <1>13, <1>14,
     <1>15, <1>16, <1>17, <1>18, <1>19, <1>20, <1>21, <1>22 DEF Linux!Next

\* SessionStaysSound: whatever the order of the steps of the launcher, its
\* jobs and the clients, with the launcher stopped and started again and the
\* instance dying in between, an exit code a client reports is that of its
\* own command, a cancel signals that command only, and a client that waits
\* has its request in the FIFO, in a job or answered.
THEOREM SessionStaysSound ==
    ASSUME StartsCounted
    PROVE  Linux!Spec => [](Linux!TypeOK /\ Linux!SessionSound)
<1>1. Linux!Init => SessionInv  BY SessionInit
<1>2. SessionInv /\ [Linux!Next]_(Linux!vars) => SessionInv'  BY SessionStep
<1>3. SessionInv => Linux!TypeOK  BY DEF SessionInv, LauncherTypes, ClientTypes, Linux!TypeOK
<1>4. SessionInv => Linux!SessionSound
  BY DEF SessionInv, ClientInv, Linux!SessionSound, Linux!ExitCodeIsMine,
     Linux!CancelHitsOwnCommand, Linux!RequestsAccounted
<1> QED  BY <1>1, <1>2, <1>3, <1>4, PTL DEF Linux!Spec

----
(* The instances of a prefix: status, start and stop are true of its       *)
(* processes, for any number of launches and daemons.  What the PID file   *)
(* and the socket stand for is known only as long as no two of them worked *)
(* on the prefix at once (calm).                                           *)

CONSTANTS Apps, Daemons
VARIABLES kind, pidf, app, served, daemon, sock, stop, calm

Life == INSTANCE InstanceLife

\* Launches and daemons are processes of their own.
Pids == Life!None \notin Apps /\ Life!None \notin Daemons /\ Apps \cap Daemons = {}

DaemonStages == {"none", "starting", "bound", "up", "stopping", "dead"}

\* The type invariant, with the type of stop.
InstTypes ==
    /\ kind \in {"Linux", "Wine", "Android"} /\ pidf \in Apps \cup Daemons \cup {Life!None}
    /\ app \in [Apps -> Life!Stages] /\ served \in [Apps -> Daemons \cup {Life!None}]
    /\ daemon \in [Daemons -> DaemonStages]
    /\ sock \in Daemons \cup {Life!None} /\ calm \in BOOLEAN
    /\ stop \in [at : {"none", "signalled", "stopped"}, pid : Apps \cup Daemons \cup {Life!None}]

\* Only an Android prefix has daemons and launches that wait for one.
NoDaemons ==
    kind # "Android" => /\ \A d \in Daemons : daemon[d] = "none"
                        /\ \A p \in Apps : app[p] \notin {"registered", "awaiting"}
                        /\ stop.pid \notin Daemons

There(d) == daemon[d] \in {"starting", "bound", "up", "stopping"}

\* As long as no two of them worked on the prefix at once: one launch at most is
\* under way, none beside a stop or an ending daemon; one daemon at most is
\* there, and the socket is its own; the file of a Linux or Windows prefix has
\* the pid of the launch that runs; a stop that waits has the process that the
\* file names, or its process is gone.
CalmInv ==
    /\ \A p, q \in Apps : Life!Active(p) /\ Life!Active(q) => p = q
    /\ stop.at # "none" \/ (\E d \in Daemons : daemon[d] = "stopping") => \A p \in Apps : ~Life!Active(p)
    /\ \A d, e \in Daemons : There(d) /\ There(e) => d = e
    /\ \A d \in Daemons : daemon[d] \in {"bound", "up"} => sock = d
    /\ kind # "Android" => \A p \in Apps : app[p] = "running" => pidf = p
    /\ stop.at = "signalled" => pidf = stop.pid \/ ~Life!Alive(stop.pid)
    /\ stop.at = "stopped" => ~Life!Alive(stop.pid)

InstInv == InstTypes /\ NoDaemons /\ (calm => CalmInv)

\* A step of a launch keeps calm only if no one else is at work.
LEMMA NothingMoves ==
    ASSUME Pids, InstInv, NEW p \in Apps, NEW to \in Life!Stages, Life!Step(p, to)
    PROVE  /\ app' \in [Apps -> Life!Stages] /\ app'[p] = to /\ calm' \in BOOLEAN
           /\ \A q \in Apps \ {p} : app'[q] = app[q]
           /\ calm' => /\ calm /\ CalmInv /\ stop.at = "none"
                       /\ \A q \in Apps \ {p} : ~Life!Active(q)
                       /\ \A d \in Daemons : daemon[d] # "stopping"
BY DEF Life!Step, Life!Crowded, InstInv, InstTypes

\* A launch that leaves the daemons and the stop alone keeps the rest.
LEMMA LaunchMoves ==
    ASSUME Pids, InstInv, NEW p \in Apps, NEW to \in Life!Stages, Life!Step(p, to),
           UNCHANGED <<kind, daemon, sock, stop>>,
           pidf' \in Apps \cup Daemons \cup {Life!None},
           served' \in [Apps -> Daemons \cup {Life!None}],
           kind # "Android" => /\ to \notin {"registered", "awaiting"}
                               /\ to = "running" => pidf' = p
    PROVE  InstInv'
<1>1. /\ app' \in [Apps -> Life!Stages] /\ app'[p] = to /\ calm' \in BOOLEAN
      /\ \A q \in Apps \ {p} : app'[q] = app[q]
      /\ calm' => /\ calm /\ CalmInv /\ stop.at = "none"
                  /\ \A q \in Apps \ {p} : ~Life!Active(q)
                  /\ \A d \in Daemons : daemon[d] # "stopping"
  BY NothingMoves
<1>2. InstTypes' /\ NoDaemons'  BY <1>1 DEF InstInv, InstTypes, NoDaemons
<1>3. calm' => CalmInv'  BY <1>1 DEF CalmInv, Life!Active, There, Life!Alive
<1> QED  BY <1>2, <1>3 DEF InstInv

\* The steps of a launch that do not start a daemon.
LEMMA LaunchStepKeeps ==
    ASSUME Pids, InstInv, NEW p \in Apps,
           \/ Life!QueryState(p) \/ Life!RemoveStale(p) \/ Life!RunDirectly(p) \/ Life!Register(p)
           \/ Life!AwaitMuplard(p) \/ Life!Leave(p) \/ Life!RemoveOwn(p)
    PROVE  InstInv'
<1>0. InstTypes /\ NoDaemons  BY DEF InstInv
<1>1. CASE Life!QueryState(p)
 <2>1. PICK to \in {"checked", "ended", "stale"} : Life!Step(p, to)  BY <1>1 DEF Life!QueryState
 <2> QED  BY <1>0, <1>1, <2>1, LaunchMoves DEF Life!QueryState, Life!Stages, InstTypes
<1>2. CASE Life!RemoveStale(p)
  BY <1>0, <1>2, LaunchMoves DEF Life!RemoveStale, Life!Stages, InstTypes
<1>3. CASE Life!RunDirectly(p)
  BY <1>0, <1>3, LaunchMoves DEF Life!RunDirectly, Life!Stages, InstTypes
<1>4. CASE Life!Register(p)
 <2>1. PICK to \in {"registered", "running"} : Life!Step(p, to) /\ (to = "registered" <=> kind = "Android")
   BY <1>4 DEF Life!Register
 <2> QED  BY <1>0, <1>4, <2>1, LaunchMoves DEF Life!Register, Life!Stages, InstTypes
<1>5. CASE Life!AwaitMuplard(p)
 <2>1. PICK d \in Daemons \cup {Life!None} : served' = [served EXCEPT ![p] = d]
   BY <1>0, <1>5 DEF Life!AwaitMuplard, InstTypes
 <2>2. served' \in [Apps -> Daemons \cup {Life!None}]  BY <1>0, <2>1 DEF InstTypes
 <2>3. kind = "Android"  BY <1>0, <1>5 DEF Life!AwaitMuplard, NoDaemons
 <2> QED  BY <1>0, <1>5, <2>2, <2>3, LaunchMoves DEF Life!AwaitMuplard, Life!Stages, InstTypes
<1>6. CASE Life!Leave(p)
 <2>1. PICK to \in {"leaving", "ended"} : Life!Step(p, to)  BY <1>6 DEF Life!Leave
 <2> QED  BY <1>0, <1>6, <2>1, LaunchMoves DEF Life!Leave, Life!Stages, InstTypes
<1>7. CASE Life!RemoveOwn(p)
  BY <1>0, <1>7, LaunchMoves DEF Life!RemoveOwn, Life!Stages, InstTypes
<1> QED  BY <1>1, <1>2, <1>3, <1>4, <1>5, <1>6, <1>7

\* A launch uses the daemon that answers, or starts one.
LEMMA EnsureMuplardKeeps ==
    ASSUME Pids, InstInv, NEW p \in Apps, Life!EnsureMuplard(p)
    PROVE  InstInv'
<1>0. /\ InstTypes /\ NoDaemons /\ app[p] = "registered" /\ kind = "Android"
      /\ UNCHANGED <<kind, pidf, sock, stop>>
  BY DEF InstInv, Life!EnsureMuplard, NoDaemons
<1>1. CASE Life!SocketIsLive
 <2>1. /\ Life!Step(p, "running") /\ served' = [served EXCEPT ![p] = sock] /\ daemon' = daemon
   BY <1>1 DEF Life!EnsureMuplard
 <2>2. served' \in [Apps -> Daemons \cup {Life!None}]  BY <1>0, <2>1 DEF InstTypes
 <2> QED  BY <1>0, <2>1, <2>2, LaunchMoves DEF Life!Stages, InstTypes
<1>2. CASE ~Life!SocketIsLive
 <2>1. PICK d \in Daemons : daemon[d] = "none" /\ daemon' = [daemon EXCEPT ![d] = "starting"]
   BY <1>2 DEF Life!EnsureMuplard
 <2>2. /\ app' = [app EXCEPT ![p] = "awaiting"] /\ served' = served
       /\ calm' = (calm /\ ~Life!Crowded(p) /\ \A e \in Daemons : daemon[e] # "starting")
   BY <1>2 DEF Life!EnsureMuplard
 <2>3. /\ daemon' \in [Daemons -> DaemonStages] /\ daemon'[d] = "starting"
       /\ \A e \in Daemons \ {d} : daemon'[e] = daemon[e]
   BY <1>0, <2>1 DEF InstTypes, DaemonStages
 <2>4. app' \in [Apps -> Life!Stages] /\ app'[p] = "awaiting" /\ \A q \in Apps \ {p} : app'[q] = app[q]
   BY <1>0, <2>2 DEF InstTypes, Life!Stages
 <2>5. InstTypes' /\ NoDaemons'  BY <1>0, <2>2, <2>3, <2>4 DEF InstTypes, NoDaemons
 <2>6. ASSUME calm' PROVE CalmInv'
  <3>1. /\ calm /\ CalmInv /\ stop.at = "none"
        /\ \A q \in Apps \ {p} : ~Life!Active(q)
        /\ \A e \in Daemons : daemon[e] \notin {"starting", "stopping"}
    BY <2>2, <2>6 DEF Life!Crowded, InstInv
  <3>2. \A e \in Daemons : daemon[e] \notin {"bound", "up"}
    BY <1>2, <3>1 DEF CalmInv, Life!SocketIsLive, Pids
  <3> QED  BY <1>0, <2>3, <2>4, <3>1, <3>2 DEF CalmInv, Life!Active, There
 <2> QED  BY <2>5, <2>6 DEF InstInv
<1> QED  BY <1>1, <1>2

\* A launch is killed.
LEMMA KilledKeeps ==
    ASSUME Pids, InstInv, NEW p \in Apps, Life!Killed(p)
    PROVE  InstInv'
<1>1. /\ InstTypes /\ NoDaemons /\ app' = [app EXCEPT ![p] = "ended"]
      /\ UNCHANGED <<kind, pidf, served, daemon, sock, stop, calm>>
  BY DEF InstInv, Life!Killed
<1>2. app' \in [Apps -> Life!Stages] /\ app'[p] = "ended" /\ \A q \in Apps \ {p} : app'[q] = app[q]
  BY <1>1 DEF InstTypes, Life!Stages
<1>3. InstTypes' /\ NoDaemons'  BY <1>1, <1>2 DEF InstTypes, NoDaemons
<1>4. calm' => CalmInv'  BY <1>1, <1>2 DEF InstInv, CalmInv, Life!Active, There, Life!Alive
<1> QED  BY <1>3, <1>4 DEF InstInv

\* A daemon binds, writes its pid, exits or crashes.
LEMMA DaemonKeeps ==
    ASSUME Pids, InstInv, NEW d \in Daemons,
           Life!DaemonBinds(d) \/ Life!DaemonWritesPid(d) \/ Life!DaemonExits(d) \/ Life!DaemonCrashes(d)
    PROVE  InstInv'
<1>1. InstTypes /\ NoDaemons  BY DEF InstInv
<1>2. PICK to \in {"bound", "up", "dead"} : daemon' = [daemon EXCEPT ![d] = to]
  BY DEF Life!DaemonBinds, Life!DaemonWritesPid, Life!DaemonExits, Life!DaemonCrashes
<1>3. /\ daemon' \in [Daemons -> DaemonStages] /\ daemon'[d] = to
      /\ \A e \in Daemons \ {d} : daemon'[e] = daemon[e]
  BY <1>1, <1>2 DEF InstTypes, DaemonStages
<1>4. /\ There(d) /\ UNCHANGED <<kind, app, served, stop>>
      /\ pidf' \in {pidf, d, Life!None} /\ sock' \in {sock, d, Life!None} /\ calm' \in BOOLEAN
  BY <1>1 DEF Life!DaemonBinds, Life!DaemonWritesPid, Life!DaemonExits, Life!DaemonCrashes, There,
     InstTypes
<1>5. InstTypes'  BY <1>1, <1>3, <1>4 DEF InstTypes
<1>6. NoDaemons'  BY <1>1, <1>3, <1>4 DEF NoDaemons, There
<1>7. ASSUME calm' PROVE CalmInv'
 <2>0. calm /\ CalmInv
   BY <1>7 DEF InstInv, Life!DaemonBinds, Life!DaemonWritesPid, Life!DaemonExits,
      Life!DaemonCrashes
 <2>1. kind = "Android"  BY <1>1, <1>4 DEF NoDaemons, There
 <2>2. \A e \in Daemons \ {d} : ~There(e)  BY <1>4, <2>0 DEF CalmInv
 <2>3. CASE Life!DaemonBinds(d) \/ Life!DaemonCrashes(d)
   BY <1>2, <1>3, <1>4, <1>7, <2>0, <2>1, <2>2, <2>3
      DEF CalmInv, Life!Active, There, Life!Alive, Pids, Life!DaemonBinds, Life!DaemonCrashes
 <2>4. CASE Life!DaemonWritesPid(d)
  <3>1. stop.at = "none" /\ sock' = sock /\ daemon[d] = "bound"
    BY <1>7, <2>4 DEF Life!DaemonWritesPid
  <3> QED
    BY <1>3, <1>4, <2>0, <2>1, <2>2, <2>4, <3>1 DEF CalmInv, Life!Active, There, Life!Alive,
       Pids, Life!DaemonWritesPid
 <2>5. CASE Life!DaemonExits(d)
  <3>1. to = "dead"  BY <1>2, <1>1, <2>5 DEF Life!DaemonExits, InstTypes
  <3>2. ~There(d)' /\ \A e \in Daemons : ~There(e)'  BY <1>3, <2>2, <3>1 DEF There
  <3>3. \A q : Life!Alive(q)' => q \in Apps /\ Life!Alive(q)
    BY <1>4, <3>2 DEF Life!Alive, There
  <3>4. \A p \in Apps : Life!Active(p)' <=> Life!Active(p)  BY <1>4 DEF Life!Active
  <3>5. stop' = stop /\ \A p \in Apps : ~Life!Active(p)
    BY <1>4, <1>7, <2>5 DEF Life!DaemonExits
  <3>6. \A q \in Apps : ~Life!Alive(q)'  BY <1>4, <3>5, Pids DEF Life!Active, Life!Alive, Pids
  <3> QED  BY <2>0, <2>1, <1>4, <3>2, <3>3, <3>4, <3>5, <3>6 DEF CalmInv, There
 <2> QED  BY <2>3, <2>4, <2>5
<1> QED  BY <1>5, <1>6, <1>7 DEF InstInv

\* What a signal does to the launches and the daemons.
LEMMA Signalled ==
    ASSUME Pids, InstTypes, Life!Signal(pidf)
    PROVE  /\ app' \in [Apps -> Life!Stages] /\ daemon' \in [Daemons -> DaemonStages]
           /\ \A p \in Apps : app'[p] = IF p = pidf THEN "ended" ELSE app[p]
           /\ \A d \in Daemons : d # pidf => daemon'[d] = daemon[d]
           /\ \A d \in Daemons : d = pidf =>
                 /\ daemon[d] \in {"bound", "up"} => daemon'[d] = "stopping"
                 /\ daemon[d] = "starting" => daemon'[d] = "dead"
                 /\ daemon[d] \notin {"bound", "up", "starting"} => daemon'[d] = daemon[d]
<1>1. /\ app' = [p \in Apps |-> IF p = pidf THEN "ended" ELSE app[p]]
      /\ daemon' = [d \in Daemons |-> IF d # pidf THEN daemon[d]
                                      ELSE IF daemon[d] \in {"bound", "up"} THEN "stopping"
                                      ELSE IF daemon[d] = "starting" THEN "dead" ELSE daemon[d]]
  BY DEF Life!Signal
<1>2. \A d \in Daemons : daemon[d] \in DaemonStages  BY DEF InstTypes
<1>3. \A p \in Apps : app[p] \in Life!Stages  BY DEF InstTypes
<1>4. app' \in [Apps -> Life!Stages]  BY <1>1, <1>3 DEF Life!Stages
<1>5. daemon' \in [Daemons -> DaemonStages]  BY <1>1, <1>2 DEF DaemonStages
<1> QED  BY <1>1, <1>4, <1>5

\* A stop signals the process that the file names.
LEMMA StopBeginsKeeps ==
    ASSUME Pids, InstInv, Life!StopBegins
    PROVE  InstInv'
<1>1. /\ InstTypes /\ NoDaemons /\ stop.at = "none" /\ pidf # Life!None /\ Life!Signal(pidf)
      /\ stop' = [at |-> "signalled", pid |-> pidf]
      /\ calm' = (calm /\ \A p \in Apps : Life!Active(p) => p = pidf)
      /\ UNCHANGED <<kind, pidf, served, sock>>
  BY DEF Life!StopBegins, InstInv
<1>2. /\ app' \in [Apps -> Life!Stages] /\ daemon' \in [Daemons -> DaemonStages]
      /\ \A p \in Apps : app'[p] = IF p = pidf THEN "ended" ELSE app[p]
      /\ \A d \in Daemons : d # pidf => daemon'[d] = daemon[d]
      /\ \A d \in Daemons : d = pidf =>
            /\ daemon[d] \in {"bound", "up"} => daemon'[d] = "stopping"
            /\ daemon[d] = "starting" => daemon'[d] = "dead"
            /\ daemon[d] \notin {"bound", "up", "starting"} => daemon'[d] = daemon[d]
  BY <1>1, Signalled
<1>3. InstTypes'  BY <1>1, <1>2 DEF InstTypes
<1>4. NoDaemons'
 <2>1. kind # "Android" => pidf \in Apps /\ pidf \notin Daemons
   BY <1>1 DEF NoDaemons, Life!StopBegins, Life!Alive, Pids
 <2> QED  BY <1>1, <1>2, <2>1 DEF NoDaemons
<1>5. ASSUME calm' PROVE CalmInv'
 <2>1. CalmInv /\ \A p \in Apps : Life!Active(p) => p = pidf  BY <1>1, <1>5 DEF InstInv
 <2>2. \A p \in Apps : app'[p] \in {"idle", "ended"}  BY <1>2, <2>1 DEF Life!Active
 <2>3. \A d \in Daemons : There(d)' => There(d)  BY <1>2 DEF There
 <2>4. \A d \in Daemons : daemon'[d] \in {"bound", "up"} => daemon[d] \in {"bound", "up"}
   BY <1>2
 <2> QED  BY <1>1, <2>1, <2>2, <2>3, <2>4 DEF CalmInv, Life!Active
<1> QED  BY <1>3, <1>4, <1>5 DEF InstInv

\* A process that is killed.
LEMMA KilledAtOnce ==
    ASSUME Pids, InstTypes, NEW x,
           app' = [p \in Apps |-> IF p = x THEN "ended" ELSE app[p]],
           daemon' = [d \in Daemons |-> IF d = x THEN "dead" ELSE daemon[d]]
    PROVE  /\ app' \in [Apps -> Life!Stages] /\ daemon' \in [Daemons -> DaemonStages]
           /\ \A p \in Apps : app'[p] = IF p = x THEN "ended" ELSE app[p]
           /\ \A d \in Daemons : daemon'[d] = IF d = x THEN "dead" ELSE daemon[d]
           /\ ~Life!Alive(x)'
<1>1. \A p \in Apps : app[p] \in Life!Stages  BY DEF InstTypes
<1>2. \A d \in Daemons : daemon[d] \in DaemonStages  BY DEF InstTypes
<1>3. app' \in [Apps -> Life!Stages]  BY <1>1 DEF Life!Stages
<1>4. daemon' \in [Daemons -> DaemonStages]  BY <1>2 DEF DaemonStages
<1> QED  BY <1>3, <1>4 DEF Life!Alive

\* A forced stop kills it.
LEMMA StopForcedKeeps ==
    ASSUME Pids, InstInv, Life!StopForced
    PROVE  InstInv'
<1>1. PICK x : x = pidf  OBVIOUS
<1>2. /\ InstTypes /\ NoDaemons /\ stop.at = "none" /\ x # Life!None
      /\ stop' = [at |-> "stopped", pid |-> x]
      /\ app' = [p \in Apps |-> IF p = x THEN "ended" ELSE app[p]]
      /\ daemon' = [d \in Daemons |-> IF d = x THEN "dead" ELSE daemon[d]]
      /\ calm' = (calm /\ \A p \in Apps : Life!Active(p) => p = x)
      /\ UNCHANGED <<kind, pidf, served, sock>> /\ Life!Alive(x)
  BY <1>1 DEF Life!StopForced, InstInv
<1>3. /\ app' \in [Apps -> Life!Stages] /\ daemon' \in [Daemons -> DaemonStages]
      /\ \A p \in Apps : app'[p] = IF p = x THEN "ended" ELSE app[p]
      /\ \A d \in Daemons : daemon'[d] = IF d = x THEN "dead" ELSE daemon[d]
      /\ ~Life!Alive(x)'
  BY <1>2, KilledAtOnce
<1>4. InstTypes'  BY <1>1, <1>2, <1>3 DEF InstTypes
<1>5. NoDaemons'
 <2>1. kind # "Android" => x \notin Daemons  BY <1>2 DEF NoDaemons, Life!Alive, Pids
 <2> QED  BY <1>2, <1>3, <2>1 DEF NoDaemons
<1>6. ASSUME calm' PROVE CalmInv'
 <2>1. CalmInv /\ \A p \in Apps : Life!Active(p) => p = x  BY <1>2, <1>6 DEF InstInv
 <2>2. \A p \in Apps : app'[p] \in {"idle", "ended"}  BY <1>3, <2>1 DEF Life!Active
 <2>3. \A d \in Daemons : There(d)' => There(d)  BY <1>3 DEF There
 <2>4. \A d \in Daemons : daemon'[d] \in {"bound", "up"} => daemon[d] \in {"bound", "up"}
   BY <1>3
 <2>5. stop'.at = "stopped" /\ stop'.pid = x  BY <1>2
 <2> QED  BY <1>2, <1>3, <2>1, <2>2, <2>3, <2>4, <2>5 DEF CalmInv, Life!Active
<1> QED  BY <1>4, <1>5, <1>6 DEF InstInv

\* The last query of a stop: what is still there is killed.
LEMMA StopEscalatesKeeps ==
    ASSUME Pids, InstInv, Life!StopEscalates
    PROVE  InstInv'
<1>1. PICK x : x = stop.pid  OBVIOUS
<1>2. /\ InstTypes /\ NoDaemons /\ stop.at = "signalled" /\ stop' = [stop EXCEPT !.at = "stopped"]
      /\ UNCHANGED <<kind, served, sock, calm>>
  BY DEF Life!StopEscalates, InstInv
<1>3. stop' = [at |-> "stopped", pid |-> x] /\ x \in Apps \cup Daemons \cup {Life!None}
  BY <1>1, <1>2 DEF InstTypes
<1>4. CASE pidf # Life!None /\ Life!Alive(pidf)
 <2>1. /\ app' = [p \in Apps |-> IF p = x THEN "ended" ELSE app[p]]
       /\ daemon' = [d \in Daemons |-> IF d = x THEN "dead" ELSE daemon[d]]
       /\ pidf' = pidf
   BY <1>1, <1>4 DEF Life!StopEscalates
 <2>2. /\ app' \in [Apps -> Life!Stages] /\ daemon' \in [Daemons -> DaemonStages]
       /\ \A p \in Apps : app'[p] = IF p = x THEN "ended" ELSE app[p]
       /\ \A d \in Daemons : daemon'[d] = IF d = x THEN "dead" ELSE daemon[d]
       /\ ~Life!Alive(x)'
   BY <1>2, <2>1, KilledAtOnce
 <2>3. InstTypes'  BY <1>2, <1>3, <2>1, <2>2 DEF InstTypes
 <2>4. ASSUME calm' PROVE CalmInv'
  <3>1. CalmInv /\ \A p \in Apps : ~Life!Active(p)  BY <1>2, <2>4 DEF InstInv, CalmInv
  <3>2. \A p \in Apps : app'[p] \in {"idle", "ended"}  BY <2>2, <3>1 DEF Life!Active
  <3>3. \A d \in Daemons : (There(d)' => There(d)) /\ (daemon'[d] \in {"bound", "up"} => daemon[d] \in {"bound", "up"})
    BY <2>2 DEF There
  <3> QED  BY <1>2, <1>3, <2>2, <3>1, <3>2, <3>3 DEF CalmInv, Life!Active
 <2>5. NoDaemons'
  <3>1. kind # "Android" => x \notin Daemons  BY <1>1, <1>2 DEF NoDaemons
  <3> QED  BY <1>2, <1>3, <2>2, <3>1 DEF NoDaemons
 <2> QED  BY <2>3, <2>4, <2>5 DEF InstInv
<1>5. CASE ~(pidf # Life!None /\ Life!Alive(pidf))
 <2>1. pidf' = Life!None /\ app' = app /\ daemon' = daemon  BY <1>5 DEF Life!StopEscalates
 <2>2. InstTypes' /\ NoDaemons'  BY <1>2, <1>3, <2>1 DEF InstTypes, NoDaemons
 <2>3. ASSUME calm' PROVE CalmInv'
  <3>1. CalmInv /\ \A p \in Apps : ~Life!Active(p)  BY <1>2, <2>3 DEF InstInv, CalmInv
  <3>2. ~Life!Alive(x)  BY <1>1, <1>2, <1>5, <3>1 DEF CalmInv, Life!Alive, Pids
  <3>3. ~Life!Alive(x)' /\ \A p \in Apps : app'[p] \in {"idle", "ended"}
    BY <2>1, <3>1, <3>2 DEF Life!Alive, Life!Active
  <3> QED  BY <1>2, <1>3, <2>1, <3>1, <3>3 DEF CalmInv, Life!Active, There
 <2> QED  BY <2>2, <2>3 DEF InstInv
<1> QED  BY <1>4, <1>5

\* A stop ends, or the session's restart path clears both names.
LEMMA StopEndsKeeps ==
    ASSUME Pids, InstInv, Life!StopEnds
    PROVE  InstInv'
<1>1. /\ InstTypes /\ NoDaemons /\ stop.at = "stopped" /\ stop' = [at |-> "none", pid |-> Life!None]
      /\ pidf' = Life!None /\ UNCHANGED <<kind, app, served, daemon, sock, calm>>
  BY DEF Life!StopEnds, InstInv
<1>2. InstTypes' /\ NoDaemons'  BY <1>1 DEF InstTypes, NoDaemons, Pids
<1>3. ASSUME calm' PROVE CalmInv'
 <2>1. CalmInv /\ \A p \in Apps : ~Life!Active(p)  BY <1>1, <1>3 DEF InstInv, CalmInv
 <2>2. \A p \in Apps : app'[p] \in {"idle", "ended"} /\ ~Life!Active(p)'
   BY <1>1, <2>1 DEF Life!Active
 <2> QED  BY <1>1, <2>1, <2>2 DEF CalmInv, There
<1> QED  BY <1>2, <1>3 DEF InstInv

\* The session's restart path is never calm.
LEMMA StopMuplardKeeps ==
    ASSUME Pids, InstInv, Life!StopMuplard
    PROVE  InstInv'
<1>1. /\ InstTypes /\ NoDaemons /\ kind = "Android" /\ sock' = Life!None /\ pidf' = Life!None /\ calm' = FALSE
      /\ UNCHANGED <<kind, served, stop>>
  BY DEF Life!StopMuplard, InstInv
<1>2. app' \in [Apps -> Life!Stages] /\ daemon' \in [Daemons -> DaemonStages]
 <2>1. CASE pidf = Life!None  BY <1>1, <2>1 DEF Life!StopMuplard, InstTypes
 <2>2. CASE pidf # Life!None  BY <1>1, <2>2, Signalled DEF Life!StopMuplard
 <2> QED  BY <2>1, <2>2
<1>3. InstTypes'  BY <1>1, <1>2 DEF InstTypes
<1> QED  BY <1>1, <1>3 DEF InstInv, NoDaemons

\* Every step of the launches, the daemons and the stops keeps the invariant.
LEMMA InstStep ==
    ASSUME Pids
    PROVE  InstInv /\ [Life!Next]_(Life!vars) => InstInv'
<1> SUFFICES ASSUME InstInv, [Life!Next]_(Life!vars) PROVE InstInv'  OBVIOUS
<1>1. CASE UNCHANGED Life!vars
 <2>1. InstTypes' /\ NoDaemons'  BY <1>1 DEF InstInv, InstTypes, NoDaemons, Life!vars
 <2>2. calm' => CalmInv'  BY <1>1 DEF InstInv, CalmInv, Life!Active, There, Life!Alive, Life!vars
 <2> QED  BY <2>1, <2>2 DEF InstInv
<1>2. ASSUME NEW p \in Apps,
             \/ Life!QueryState(p) \/ Life!RemoveStale(p) \/ Life!RunDirectly(p) \/ Life!Register(p)
             \/ Life!EnsureMuplard(p) \/ Life!AwaitMuplard(p) \/ Life!Leave(p) \/ Life!RemoveOwn(p) \/ Life!Killed(p)
      PROVE  InstInv'
  BY <1>2, LaunchStepKeeps, EnsureMuplardKeeps, KilledKeeps
<1>3. ASSUME NEW d \in Daemons,
             Life!DaemonBinds(d) \/ Life!DaemonWritesPid(d) \/ Life!DaemonExits(d) \/ Life!DaemonCrashes(d)
      PROVE  InstInv'
  BY <1>3, DaemonKeeps
<1> QED  BY <1>1, <1>2, <1>3, StopBeginsKeeps, StopForcedKeeps, StopEscalatesKeeps, StopEndsKeeps,
     StopMuplardKeeps DEF Life!Next

\* A set in which all elements are equal has one at most.
LEMMA AtMostOne ==
    ASSUME NEW S, \A x, y \in S : x = y
    PROVE  Cardinality(S) <= 1
<1>1. CASE S = {}  BY <1>1, FS_EmptySet
<1>2. CASE S # {}
 <2>1. PICK x : x \in S  BY <1>2
 <2>2. S = {x}  BY <2>1
 <2> QED  BY <2>2, FS_Singleton
<1> QED  BY <1>1, <1>2

\* What a status query, a launch and a stop are told is true.
THEOREM InstancesStaySound ==
    ASSUME Pids
    PROVE  Life!Spec => [](Life!TypeOK /\ Life!InstanceSound)
<1>1. Life!Init => InstInv
 <2> SUFFICES ASSUME Life!Init PROVE InstInv  OBVIOUS
 <2>1. InstTypes /\ NoDaemons
   BY DEF Life!Init, InstTypes, NoDaemons, Life!Stages, DaemonStages, Pids
 <2>2. CalmInv  BY DEF Life!Init, CalmInv, Life!Active, There, Life!Alive
 <2> QED  BY <2>1, <2>2 DEF InstInv
<1>2. InstInv /\ [Life!Next]_(Life!vars) => InstInv'  BY InstStep
<1>3. InstInv => Life!TypeOK  BY DEF InstInv, InstTypes, Life!TypeOK, DaemonStages
<1>4. InstInv => Life!StatusTruthful
  BY DEF InstInv, CalmInv, NoDaemons, Life!StatusTruthful, Life!Alive, Pids
<1>5. InstInv => Life!OneMuplard
 <2> SUFFICES ASSUME InstInv, calm PROVE
         /\ Cardinality({d \in Daemons : daemon[d] \in {"bound", "up"}}) <= 1
         /\ \A p \in Apps : app[p] = "running" /\ served[p] # Life!None /\ daemon[served[p]] = "up" => sock = served[p]
   BY DEF Life!OneMuplard, Life!Cardinality, Cardinality
 <2>1. \A x, y \in {d \in Daemons : daemon[d] \in {"bound", "up"}} : x = y
   BY DEF InstInv, CalmInv, There
 <2>2. Cardinality({d \in Daemons : daemon[d] \in {"bound", "up"}}) <= 1  BY <2>1, AtMostOne
 <2>3. \A p \in Apps : served[p] \in Daemons \cup {Life!None}  BY DEF InstInv, InstTypes
 <2> QED  BY <2>2, <2>3 DEF InstInv, CalmInv
<1>6. InstInv => Life!StoppedIsGone  BY DEF InstInv, CalmInv, Life!StoppedIsGone
<1> QED  BY <1>1, <1>2, <1>3, <1>4, <1>5, <1>6, PTL DEF Life!Spec, Life!InstanceSound

----
(* The set-up of Wine, for any number of processes that create a prefix.   *)

CONSTANT Setups
VARIABLES setupAt, msi, download, fetched, installed, single

Wine == INSTANCE WineSetup WITH at <- setupAt, tmp <- download

\* A setup has the download in hand: its curl writes, or it is about to rename.
Downloads(s) == s \in fetched \/ setupAt[s] \in {"fetch", "rename"}

\* While no two downloads overlap, one setup at most has the download in hand,
\* and what it is about to rename is whole.
WineInv ==
    /\ Wine!TypeOK
    /\ \A s \in Setups : setupAt[s] = "fetch" => s \in fetched \/ ~single
    /\ single =>
         /\ msi # "partial" /\ \A s \in Setups : installed[s] # "partial"
         /\ \A s, q \in Setups : Downloads(s) /\ Downloads(q) => s = q
         /\ \A s \in Setups : setupAt[s] = "rename" => download # "partial" /\ s \notin fetched

\* Every step keeps the invariant.
LEMMA WineStep == WineInv /\ [Wine!Next]_(Wine!vars) => WineInv'
<1> SUFFICES ASSUME WineInv, [Wine!Next]_(Wine!vars) PROVE WineInv'  OBVIOUS
<1> USE DEF WineInv, Wine!TypeOK, Downloads, Wine!Steps, Wine!Package, Wine!Goto
<1>1. ASSUME NEW s \in Setups, Wine!FindWineboot(s) PROVE WineInv'  BY <1>1 DEF Wine!FindWineboot
<1>2. ASSUME NEW s \in Setups, Wine!Wineboot(s) PROVE WineInv'  BY <1>2 DEF Wine!Wineboot
<1>3. ASSUME NEW s \in Setups, Wine!ImportFonts(s) \/ Wine!UseCached(s) \/ Wine!NoCurl(s) PROVE WineInv'
  BY <1>3 DEF Wine!ImportFonts, Wine!UseCached, Wine!NoCurl
<1>4. ASSUME NEW s \in Setups, Wine!BeginFetch(s) PROVE WineInv'
  BY <1>4 DEF Wine!BeginFetch, Wine!Fetching
<1>5. ASSUME NEW s \in Setups, Wine!FetchDone(s) PROVE WineInv'  BY <1>5 DEF Wine!FetchDone
<1>6. ASSUME NEW s \in Setups, Wine!FetchFails(s) PROVE WineInv'  BY <1>6 DEF Wine!FetchFails
<1>7. ASSUME NEW s \in Setups, Wine!Rename(s) PROVE WineInv'  BY <1>7 DEF Wine!Rename
<1>8. ASSUME NEW s \in Setups, Wine!Install(s) PROVE WineInv'  BY <1>8 DEF Wine!Install
<1>9. ASSUME NEW s \in Setups, Wine!Dies(s) PROVE WineInv'  BY <1>9 DEF Wine!Dies
<1>10. ASSUME NEW s \in Setups, Wine!OrphanEnds(s) PROVE WineInv'  BY <1>10 DEF Wine!OrphanEnds
<1>11. CASE UNCHANGED Wine!vars  BY <1>11 DEF Wine!vars
<1> QED  BY <1>1, <1>2, <1>3, <1>4, <1>5, <1>6, <1>7, <1>8, <1>9, <1>10, <1>11 DEF Wine!Next

\* A package in the cache or in a prefix is whole, unless two downloads
\* overlapped, for any number of setups that fail or die at any step.
THEOREM PackagesStayWhole == Wine!Spec => [](Wine!TypeOK /\ Wine!PackagesWhole)
<1>1. Wine!Init => WineInv
  BY DEF Wine!Init, WineInv, Wine!TypeOK, Downloads, Wine!Steps, Wine!Package
<1>2. WineInv => Wine!TypeOK /\ Wine!PackagesWhole  BY DEF WineInv, Wine!PackagesWhole
<1> QED  BY <1>1, <1>2, WineStep, PTL DEF Wine!Spec

----
(* The display socket, for any number of launches, paths and sockets.      *)

CONSTANTS Publishers, Paths, OtherVolume, MaxInodes
VARIABLES host, bound, link, at, left, saw, fresh

Display == INSTANCE DisplaySocket WITH made <- bound

Lists == left \in [Publishers -> Seq(Paths)] /\ fresh \in [Paths -> BOOLEAN]

\* stat() saw a socket exactly if the launch goes on to lstat() and link().
SawBeforeLink ==
    \A u \in Publishers :
        /\ at[u] \in {"lstat", "remove", "link"} => saw[u] # 0
        /\ at[u] = "unlink" => saw[u] = 0

\* Between its remove() and its link(), a launch whose socket is still the one
\* it saw finds nothing at the path, or that socket linked by another launch.
FreeOrLinked ==
    \A u \in Publishers :
        at[u] = "link" /\ saw[u] = host[Display!Path(u)] => link[Display!Path(u)] \in {0, saw[u]}

\* Nothing can be linked from another volume.
NeverAcross == \A p \in Paths : p \in OtherVolume => link[p] \in {0, Display!Symlink}

SocketsInv ==
    /\ Display!TypeOK /\ Lists /\ SawBeforeLink /\ FreeOrLinked /\ NeverAcross
    /\ Display!SocketReachable

Bounded == MaxInodes \in Nat

\* The invariant holds at the start.
LEMMA SocketsInit == Bounded /\ Display!Init => SocketsInv
<1>. SUFFICES ASSUME Bounded, Display!Init  PROVE SocketsInv  OBVIOUS
<1>1. \A l \in Display!PathLists : l \in Seq(Paths) /\ l # <<>>
 <2>1. \A p \in Paths : <<p>> \in Seq(Paths) /\ <<p>> # <<>>  OBVIOUS
 <2>2. \A p, q \in Paths : <<p, q>> \in Seq(Paths) /\ <<p, q>> # <<>>  OBVIOUS
 <2>. TAKE l \in Display!PathLists
 <2>3. (\E p \in Paths : l = <<p>>) \/ (\E p, q \in Paths : l = <<p, q>>)
   BY SMT DEF Display!PathLists
 <2>. QED  BY <2>1, <2>2, <2>3, Zenon
<1>2. Display!TypeOK
 <2>1. host \in [Paths -> 0 .. bound] /\ link \in [Paths -> Display!Symlink .. bound]
         /\ saw \in [Publishers -> 0 .. bound] /\ bound \in 0 .. MaxInodes
   BY DEF Display!Init, Display!Symlink, Bounded
 <2>. QED  BY <1>1, <2>1 DEF Display!Init, Display!TypeOK
<1>3. Lists  BY <1>1 DEF Display!Init, Lists
<1>4. SawBeforeLink /\ FreeOrLinked /\ NeverAcross /\ Display!SocketReachable
  BY DEF Display!Init, SawBeforeLink, FreeOrLinked, NeverAcross, Display!SocketReachable
<1>. QED  BY <1>2, <1>3, <1>4 DEF SocketsInv

\* A launch that is not done has a path, and it is one of Paths.
LEMMA PathOfPublisher ==
  ASSUME SocketsInv, NEW u \in Publishers, at[u] # "done"
  PROVE  /\ Display!Path(u) \in Paths /\ left[u] \in Seq(Paths) /\ Tail(left[u]) \in Seq(Paths)
         /\ host[Display!Path(u)] \in 0 .. bound
  BY HeadTailProperties DEF SocketsInv, Display!TypeOK, Lists, Display!Path

\* Steps of the compositor keep the invariant.
LEMMA CompositorInv ==
  ASSUME Bounded, SocketsInv, NEW p \in Paths, Display!Bind(p) \/ Display!Unbind(p)
  PROVE  SocketsInv'
<1>1. /\ bound' \in bound .. MaxInodes /\ fresh' = [fresh EXCEPT ![p] = FALSE]
      /\ UNCHANGED <<link, at, left, saw>>
      /\ host' \in [Paths -> 0 .. bound']
      /\ \A q \in Paths : q # p => host'[q] = host[q]
      /\ host'[p] = 0 \/ host'[p] = bound + 1
 <2>0. bound \in Nat /\ bound <= MaxInodes /\ MaxInodes \in Nat /\ host \in [Paths -> 0 .. bound]
   BY DEF SocketsInv, Display!TypeOK, Bounded
 <2>1. CASE Display!Bind(p)  BY <2>0, <2>1 DEF Display!Bind
 <2>2. CASE Display!Unbind(p)  BY <2>0, <2>2 DEF Display!Unbind
 <2>. QED  BY <2>1, <2>2
<1>2. Display!TypeOK' /\ Lists'
  BY <1>1 DEF SocketsInv, Display!TypeOK, Lists, Bounded, Display!Symlink
<1>3. SawBeforeLink' /\ NeverAcross'  BY <1>1 DEF SocketsInv, SawBeforeLink, NeverAcross
<1>4. FreeOrLinked'
 <2>. SUFFICES ASSUME NEW u \in Publishers, at[u] = "link", saw[u] = host'[Display!Path(u)]
               PROVE  link[Display!Path(u)] \in {0, saw[u]}
   BY <1>1 DEF FreeOrLinked, Display!Path
 <2>1. Display!Path(u) \in Paths /\ saw[u] # 0 /\ saw[u] \in 0 .. bound /\ bound \in Nat
   BY PathOfPublisher DEF SocketsInv, SawBeforeLink, Display!TypeOK, Bounded
 <2>2. Display!Path(u) # p  BY <1>1, <2>1
 <2>. QED  BY <1>1, <2>1, <2>2 DEF SocketsInv, FreeOrLinked
<1>5. Display!SocketReachable'
 <2>1. \A q \in Paths : Display!InTheMiddle(q)' = Display!InTheMiddle(q)
   BY <1>1 DEF Display!InTheMiddle, Display!Path
 <2>. QED  BY <1>1, <2>1 DEF SocketsInv, Lists, Display!SocketReachable
<1>. QED  BY <1>2, <1>3, <1>4, <1>5 DEF SocketsInv

\* A launch finishes a path: the next one begins with stat().
LEMMA ReturnsFacts ==
  ASSUME SocketsInv, NEW u \in Publishers, at[u] \in {"unlink", "lstat", "link"}, Display!Returns(u)
  PROVE  /\ at' \in [Publishers -> {"idle", "stat", "unlink", "lstat", "remove", "link", "done"}]
         /\ at'[u] \in {"stat", "done"} /\ \A v \in Publishers : v # u => at'[v] = at[v]
         /\ left' \in [Publishers -> Seq(Paths)]
         /\ at'[u] # "done" => left'[u] # <<>>
         /\ \A v \in Publishers : v # u => left'[v] = left[v]
         /\ fresh' = [fresh EXCEPT ![Display!Path(u)] = saw[u] = host[Display!Path(u)]]
         /\ fresh' \in [Paths -> BOOLEAN]
         /\ saw' = saw
<1>1. Tail(left[u]) \in Seq(Paths) /\ Display!Path(u) \in Paths  BY PathOfPublisher
<1>. QED  BY <1>1 DEF SocketsInv, Display!TypeOK, Lists, Display!Returns, Display!Goes

\* The parts of the invariant that a return keeps whatever becomes of the
\* link, and what is left to show for SocketReachable.
LEMMA ReturnsInv ==
  ASSUME Bounded, SocketsInv, NEW u \in Publishers, at[u] \in {"unlink", "lstat", "link"},
         Display!Returns(u),
         UNCHANGED <<host, bound>>,
         link' \in [Paths -> Display!Symlink .. bound],
         \A q \in Paths : q # Display!Path(u) => link'[q] = link[q],
         link'[Display!Path(u)] \in {link[Display!Path(u)], 0, host[Display!Path(u)]},
         Display!Path(u) \in OtherVolume => link'[Display!Path(u)] \in {link[Display!Path(u)], 0},
         saw[u] = host[Display!Path(u)] =>
             link'[Display!Path(u)] =
               IF Display!Path(u) \in OtherVolume THEN 0 ELSE host[Display!Path(u)]
  PROVE  SocketsInv'
<1>. DEFINE p == Display!Path(u)
<1>1. p \in Paths  BY PathOfPublisher
<1>2. Display!TypeOK' /\ Lists'  BY ReturnsFacts DEF SocketsInv, Display!TypeOK, Lists
<1>3. SawBeforeLink'
 <2>1. at'[u] \in {"stat", "done"} /\ saw' = saw  BY ReturnsFacts
 <2>2. \A v \in Publishers : v # u => at'[v] = at[v]  BY ReturnsFacts
 <2>3. SawBeforeLink  BY DEF SocketsInv
 <2>. QED  BY <2>1, <2>2, <2>3 DEF SawBeforeLink
<1>4. NeverAcross'  BY <1>1 DEF SocketsInv, NeverAcross
<1>5. \A v \in Publishers : v # u => Display!Path(v)' = Display!Path(v)
  BY ReturnsFacts DEF Display!Path
<1>6. FreeOrLinked'
 <2>. SUFFICES ASSUME NEW v \in Publishers, at'[v] = "link", saw[v] = host[Display!Path(v)']
               PROVE  link'[Display!Path(v)'] \in {0, saw[v]}
   BY ReturnsFacts DEF FreeOrLinked
 <2>1. v # u /\ Display!Path(v)' = Display!Path(v) /\ at[v] = "link"  BY ReturnsFacts, <1>5
 <2>2. link[Display!Path(v)] \in {0, saw[v]} /\ Display!Path(v) \in Paths
   BY <2>1, PathOfPublisher DEF SocketsInv, FreeOrLinked
 <2>. QED  BY <2>1, <2>2
<1>7. Display!SocketReachable'
 <2>. SUFFICES ASSUME NEW q \in Paths, fresh'[q], Display!InTheMiddle(q)' = {}
               PROVE  link'[q] = IF q \in OtherVolume THEN 0 ELSE host[q]
   BY DEF Display!SocketReachable
 <2>1. CASE q = p  BY <1>1, <2>1, ReturnsFacts DEF SocketsInv, Lists
 <2>2. CASE q # p
  <3>1. ASSUME NEW v \in Display!InTheMiddle(q)  PROVE FALSE
   <4>1. v \in Publishers /\ at[v] \notin {"idle", "stat", "done"} /\ Display!Path(v) = q
     BY <3>1 DEF Display!InTheMiddle
   <4>2. v # u  BY <2>2, <4>1
   <4>. QED  BY <1>5, <4>1, <4>2, ReturnsFacts DEF Display!InTheMiddle
  <3>2. fresh[q]  BY <2>2, ReturnsFacts DEF SocketsInv, Lists
  <3>. QED  BY <2>2, <3>1, <3>2 DEF SocketsInv, Display!SocketReachable
 <2>. QED  BY <2>1, <2>2
<1>. QED  BY <1>2, <1>3, <1>4, <1>6, <1>7 DEF SocketsInv

\* Removing a stale link keeps it.
LEMMA UnlinkStaleInv ==
  ASSUME Bounded, SocketsInv, NEW u \in Publishers, Display!UnlinkStale(u)
  PROVE  SocketsInv'
<1>1. /\ at[u] = "unlink" /\ Display!Returns(u) /\ UNCHANGED <<host, bound>>
      /\ link' = [link EXCEPT ![Display!Path(u)] = 0]
  BY DEF Display!UnlinkStale
<1>2. Display!Path(u) \in Paths /\ saw[u] = 0 /\ bound \in Nat /\ link \in [Paths -> Display!Symlink .. bound]
  BY <1>1, PathOfPublisher DEF SocketsInv, Display!TypeOK, SawBeforeLink, Bounded
<1>3. link' \in [Paths -> Display!Symlink .. bound] /\ link'[Display!Path(u)] = 0
        /\ \A q \in Paths : q # Display!Path(u) => link'[q] = link[q]
  BY <1>1, <1>2 DEF Display!Symlink
<1>. QED  BY <1>1, <1>2, <1>3, ReturnsInv

\* Looking at the link keeps it.
LEMMA LstatLinkInv ==
  ASSUME Bounded, SocketsInv, NEW u \in Publishers, Display!LstatLink(u), Display!SameInode(u)
  PROVE  SocketsInv'
<1>1. at[u] = "lstat" /\ Display!Returns(u) /\ UNCHANGED <<host, bound, link>> /\ link[Display!Path(u)] = saw[u]
  BY DEF Display!LstatLink, Display!SameInode
<1>2. /\ Display!Path(u) \in Paths /\ saw[u] # 0 /\ saw[u] \in 0 .. bound /\ bound \in Nat
      /\ link \in [Paths -> Display!Symlink .. bound]
  BY <1>1, PathOfPublisher DEF SocketsInv, Display!TypeOK, SawBeforeLink, Bounded
<1>3. Display!Path(u) \notin OtherVolume
  BY <1>1, <1>2 DEF SocketsInv, NeverAcross, Display!Symlink
<1>. QED  BY <1>1, <1>2, <1>3, ReturnsInv

\* Making a hard link keeps it.
LEMMA HardLinkInv ==
  ASSUME Bounded, SocketsInv, NEW u \in Publishers, Display!HardLink(u)
  PROVE  SocketsInv'
<1>. DEFINE p == Display!Path(u)
<1>1. /\ at[u] = "link" /\ Display!Returns(u) /\ UNCHANGED <<host, bound>>
      /\ link' = IF link[p] = 0 /\ p \notin OtherVolume
                 THEN [link EXCEPT ![p] = host[p]] ELSE link
  BY DEF Display!HardLink
<1>2. /\ p \in Paths /\ saw[u] # 0 /\ saw[u] \in 0 .. bound /\ bound \in Nat
      /\ host[p] \in 0 .. bound /\ link \in [Paths -> Display!Symlink .. bound]
  BY <1>1, PathOfPublisher DEF SocketsInv, Display!TypeOK, SawBeforeLink, Bounded
<1>3. /\ link' \in [Paths -> Display!Symlink .. bound]
      /\ \A q \in Paths : q # p => link'[q] = link[q]
      /\ link'[p] = IF link[p] = 0 /\ p \notin OtherVolume THEN host[p] ELSE link[p]
  BY <1>1, <1>2 DEF Display!Symlink
<1>4. saw[u] = host[p] => link[p] \in {0, saw[u]}  BY <1>1 DEF SocketsInv, FreeOrLinked
<1>5. p \in OtherVolume => link[p] \in {0, Display!Symlink}  BY <1>2 DEF SocketsInv, NeverAcross
<1>6. saw[u] = host[p] => link'[p] = IF p \in OtherVolume THEN 0 ELSE host[p]
  BY <1>2, <1>3, <1>4, <1>5 DEF Display!Symlink
<1>. QED  BY <1>1, <1>3, <1>6, ReturnsInv

\* The steps inside one call: the path stays, and a launch that changes the
\* link is in the middle of the path afterwards.
LEMMA InsideInv ==
  ASSUME Bounded, SocketsInv, NEW u \in Publishers,
         \/ Display!Start(u) \/ Display!StatSocket(u) \/ Display!RemoveLink(u)
         \/ Display!LstatLink(u) /\ ~Display!SameInode(u)
  PROVE  SocketsInv'
<1>. DEFINE p == Display!Path(u)
<1>1. /\ UNCHANGED <<host, bound, left, fresh>>
      /\ at[u] # "done" /\ at' = [at EXCEPT ![u] = at'[u]]
      /\ \/ at[u] = "idle" /\ at'[u] = "stat" /\ UNCHANGED <<saw, link>>
         \/ /\ at[u] = "stat" /\ saw' = [saw EXCEPT ![u] = host[p]] /\ UNCHANGED link
            /\ at'[u] = IF host[p] = 0 THEN "unlink" ELSE "lstat"
         \/ at[u] = "lstat" /\ at'[u] = "remove" /\ UNCHANGED <<saw, link>>
         \/ at[u] = "remove" /\ at'[u] = "link" /\ UNCHANGED saw /\ link' = [link EXCEPT ![p] = 0]
  BY DEF Display!Start, Display!StatSocket, Display!RemoveLink, Display!LstatLink, Display!Goes,
     SocketsInv, Display!TypeOK
<1>2. p \in Paths /\ bound \in Nat /\ host[p] \in 0 .. bound
  BY <1>1, PathOfPublisher DEF SocketsInv, Display!TypeOK, Bounded
<1>3. \A v \in Publishers : Display!Path(v)' = Display!Path(v)  BY <1>1 DEF Display!Path
<1>4. Display!TypeOK' /\ Lists'
 <2>1. at'[u] \in {"stat", "unlink", "lstat", "remove", "link"}  BY <1>1
 <2>2. saw' \in [Publishers -> 0 .. bound]  BY <1>1, <1>2 DEF SocketsInv, Display!TypeOK
 <2>3. link' \in [Paths -> Display!Symlink .. bound]
   BY <1>1, <1>2 DEF SocketsInv, Display!TypeOK, Display!Symlink
 <2>. QED  BY <1>1, <2>1, <2>2, <2>3 DEF SocketsInv, Display!TypeOK, Lists
<1>5. SawBeforeLink'  BY <1>1, <1>2 DEF SocketsInv, Display!TypeOK, SawBeforeLink
<1>6. NeverAcross'  BY <1>1, <1>2 DEF SocketsInv, Display!TypeOK, NeverAcross
<1>7. FreeOrLinked'
 <2>. SUFFICES ASSUME NEW v \in Publishers, at'[v] = "link", saw'[v] = host[Display!Path(v)]
               PROVE  link'[Display!Path(v)] \in {0, saw'[v]}
   BY <1>1, <1>3 DEF FreeOrLinked
 <2>1. CASE v = u  BY <1>1, <1>2, <2>1 DEF SocketsInv, Display!TypeOK
 <2>2. CASE v # u
  <3>1. at[v] = "link" /\ saw'[v] = saw[v] /\ Display!Path(v) \in Paths
    BY <1>1, <2>2, PathOfPublisher DEF SocketsInv, Display!TypeOK
  <3>2. link[Display!Path(v)] \in {0, saw[v]}  BY <3>1 DEF SocketsInv, FreeOrLinked
  <3>. QED  BY <1>1, <1>2, <3>1, <3>2 DEF SocketsInv, Display!TypeOK
 <2>. QED  BY <2>1, <2>2
<1>8. Display!SocketReachable'
 <2>. SUFFICES ASSUME NEW q \in Paths, fresh[q], Display!InTheMiddle(q)' = {}
               PROVE  link'[q] = IF q \in OtherVolume THEN 0 ELSE host[q]
   BY <1>1 DEF Display!SocketReachable
 <2>1. ASSUME NEW v \in Display!InTheMiddle(q)  PROVE FALSE
  <3>1. v \in Publishers /\ at[v] \notin {"idle", "stat", "done"} /\ Display!Path(v) = q
    BY <2>1 DEF Display!InTheMiddle
  <3>2. at'[v] \notin {"idle", "stat", "done"} /\ Display!Path(v)' = q
    BY <1>1, <1>3, <3>1 DEF SocketsInv, Display!TypeOK
  <3>. QED  BY <3>1, <3>2 DEF Display!InTheMiddle
 <2>2. link[q] = IF q \in OtherVolume THEN 0 ELSE host[q]
   BY <2>1 DEF SocketsInv, Display!SocketReachable
 <2>3. link'[q] = link[q]
  <3>1. CASE at'[u] = "link"
   <4>1. p # q  BY <1>3, <3>1 DEF Display!InTheMiddle
   <4>. QED  BY <1>1, <1>2, <4>1 DEF SocketsInv, Display!TypeOK
  <3>2. CASE at'[u] # "link"  BY <1>1, <3>2
  <3>. QED  BY <3>1, <3>2
 <2>. QED  BY <2>2, <2>3
<1>. QED  BY <1>4, <1>5, <1>6, <1>7, <1>8 DEF SocketsInv

\* A killed launcher keeps it.
LEMMA KilledInv ==
  ASSUME Bounded, SocketsInv, NEW u \in Publishers, Display!Killed(u)
  PROVE  SocketsInv'
<1>. DEFINE p == Display!Path(u)
<1>1. /\ UNCHANGED <<host, bound, link, saw>> /\ at[u] \notin {"idle", "done"}
      /\ fresh' = [fresh EXCEPT ![p] = FALSE]
      /\ at' = [at EXCEPT ![u] = "done"] /\ left' = [left EXCEPT ![u] = <<>>]
  BY DEF Display!Killed, Display!Goes
<1>2. p \in Paths  BY <1>1, PathOfPublisher
<1>3. Display!TypeOK' /\ Lists'  BY <1>1, <1>2 DEF SocketsInv, Display!TypeOK, Lists
<1>4. \A v \in Publishers : v # u => Display!Path(v)' = Display!Path(v) /\ at'[v] = at[v]
  BY <1>1 DEF Display!Path, SocketsInv, Display!TypeOK, Lists
<1>5. at'[u] = "done"  BY <1>1 DEF SocketsInv, Display!TypeOK
<1>6. SawBeforeLink' /\ FreeOrLinked' /\ NeverAcross'
  BY <1>1, <1>4, <1>5 DEF SocketsInv, SawBeforeLink, FreeOrLinked, NeverAcross
<1>7. Display!SocketReachable'
 <2>. SUFFICES ASSUME NEW q \in Paths, fresh'[q], Display!InTheMiddle(q)' = {}
               PROVE  link[q] = IF q \in OtherVolume THEN 0 ELSE host[q]
   BY <1>1 DEF Display!SocketReachable
 <2>1. q # p /\ fresh[q]  BY <1>1, <1>2 DEF SocketsInv, Lists
 <2>2. ASSUME NEW v \in Display!InTheMiddle(q)  PROVE FALSE
  <3>1. v \in Publishers /\ at[v] \notin {"idle", "stat", "done"} /\ Display!Path(v) = q /\ v # u
    BY <2>1, <2>2 DEF Display!InTheMiddle
  <3>. QED  BY <1>4, <3>1 DEF Display!InTheMiddle
 <2>. QED  BY <2>1, <2>2 DEF SocketsInv, Display!SocketReachable
<1>. QED  BY <1>3, <1>6, <1>7 DEF SocketsInv

\* Every step keeps the invariant.
LEMMA SocketsStep == Bounded /\ SocketsInv /\ [Display!Next]_(Display!vars) => SocketsInv'
<1>1. ASSUME SocketsInv, UNCHANGED Display!vars  PROVE SocketsInv'
  BY <1>1 DEF Display!vars, SocketsInv, Display!TypeOK, Lists, SawBeforeLink, FreeOrLinked,
     NeverAcross, Display!SocketReachable, Display!InTheMiddle, Display!Path
<1>. QED  BY <1>1, CompositorInv, UnlinkStaleInv, LstatLinkInv, HardLinkInv, InsideInv,
     KilledInv DEF Display!Next

\* However many launches publish at the same time, are killed in between or
\* race with a compositor that binds again, the prefix ends with a link to the
\* socket the compositor has.
THEOREM SocketsReachable ==
  ASSUME Bounded
  PROVE  Display!Spec => [](Display!TypeOK /\ Display!SocketReachable)
<1>1. SocketsInv => Display!TypeOK /\ Display!SocketReachable  BY DEF SocketsInv
<1>. QED  BY <1>1, SocketsInit, SocketsStep, PTL DEF Display!Spec

----
(* The settings file and the surfaces of muplard.                          *)

CONSTANTS Keys, SurfaceIds, Layers, MaxLines, MaxPuts, MaxChanges
VARIABLES memory, save, tmp, disk, alive, puts, acked, refused, lost, surfaces, surfaceGeneration,
          history

State == INSTANCE MuplardState WITH running <- alive, generation <- surfaceGeneration

\* The lines of a transaction and the generations are counted.
StateSizes == MaxLines \in Nat /\ MaxChanges \in Nat

Maps == [Keys -> State!Values \cup {State!Unset}]
SaveStages == {"write", "rename", "remove", "again"}

\* What the variables of the settings range over.
SettingsTypes ==
    /\ memory \in Maps /\ acked \in Maps
    /\ refused \in [Keys -> SUBSET State!Values]
    /\ alive \in BOOLEAN /\ lost \in BOOLEAN
    /\ disk = State!None \/ \E map \in Maps : disk = State!Whole(map)
    /\ save = State!Idle \/ \E stage \in SaveStages, key \in Keys : save = [at |-> stage, key |-> key]

\* A save is under way only in a running daemon, and from the moment the
\* temporary file is written it holds what is in memory.
TemporaryIsMemory ==
    /\ ~alive => save = State!Idle
    /\ save.at \in {"rename", "remove", "again"} => tmp = State!Whole(memory)

\* The daemon has in memory, of each key, the value it confirmed or one it
\* took later and did not confirm.
MemoryFollows ==
    alive => \A k \in Keys : acked[k] # State!Unset => memory[k] \in {acked[k]} \cup refused[k]

\* The settings file is lost only as long as there is none.
LostIsGone == lost => disk = State!None

\* There is one content of the table for every generation up to this one.
HistoryComplete ==
    /\ surfaceGeneration \in Nat
    /\ history \in Seq(Range(history))
    /\ Len(history) = surfaceGeneration + 1

StateInv ==
    /\ SettingsTypes /\ TemporaryIsMemory /\ MemoryFollows /\ LostIsGone
    /\ State!ConfirmedIsDurable
    /\ HistoryComplete /\ State!GenerationNamesSurfaces

\* An appended element is the last of a sequence that is one longer.
LEMMA AppendedLast ==
    ASSUME NEW s, s \in Seq(Range(s)), NEW x
    PROVE  /\ Append(s, x) \in Seq(Range(Append(s, x)))
           /\ Len(Append(s, x)) = Len(s) + 1
           /\ Append(s, x)[Len(s) + 1] = x
<1> DEFINE S == Range(s) \cup {x}
<1>1. s \in Seq(S) /\ x \in S  BY DEF Range
<1>2. PICK t : t = Append(s, x)  OBVIOUS
<1>3. t \in Seq(S) /\ Len(t) = Len(s) + 1 /\ t[Len(s) + 1] = x  BY <1>1, <1>2
<1>4. t \in Seq(Range(t))
 <2>1. DOMAIN t = 1 .. Len(t) /\ Len(t) \in Nat /\ t = [i \in 1 .. Len(t) |-> t[i]]  BY <1>3
 <2>2. \A i \in 1 .. Len(t) : t[i] \in Range(t)  BY <2>1 DEF Range
 <2> QED  BY <2>1, <2>2
<1> QED  BY <1>2, <1>3, <1>4

\* The settings file holds what was confirmed when the daemon starts the
\* first time, with nothing confirmed.
LEMMA StateInit == State!Init => StateInv
<1> SUFFICES ASSUME State!Init PROVE StateInv  OBVIOUS
<1>1. State!Empty \in Maps  BY DEF State!Empty, Maps
<1>2. SettingsTypes  BY <1>1 DEF State!Init, SettingsTypes
<1>3. \A k \in Keys : acked[k] = State!Unset  BY DEF State!Init, State!Empty
<1>4. State!ConfirmedIsDurable /\ MemoryFollows /\ LostIsGone /\ TemporaryIsMemory
  BY <1>3 DEF State!Init, State!ConfirmedIsDurable, MemoryFollows, LostIsGone, TemporaryIsMemory,
     State!None, State!Idle
<1>5. HistoryComplete /\ State!GenerationNamesSurfaces
 <2>1. history = <<surfaces>> /\ surfaceGeneration = 0 /\ surfaces = <<>>  BY DEF State!Init
 <2>2. Len(history) = 1 /\ history[1] = surfaces /\ history \in Seq({surfaces})  BY <2>1
 <2>3. Range(history) = {surfaces}  BY <2>2, DOMAIN history = 1 .. 1 DEF Range
 <2> QED  BY <2>1, <2>2, <2>3 DEF HistoryComplete, State!GenerationNamesSurfaces
<1> QED  BY <1>2, <1>4, <1>5 DEF StateInv

\* The part of the invariant about the settings.
SettingsInv ==
    /\ SettingsTypes /\ TemporaryIsMemory /\ MemoryFollows /\ LostIsGone
    /\ State!ConfirmedIsDurable

\* A value is taken: memory has it, and so has refused.
LEMMA PutSettingKeeps ==
    ASSUME SettingsInv, NEW key \in Keys, NEW value \in State!Values, State!PutSetting(key, value)
    PROVE  SettingsInv'
<1> USE DEF SettingsInv
<1>0. /\ alive /\ save = State!Idle
      /\ memory' = [memory EXCEPT ![key] = value]
      /\ save' = [at |-> "write", key |-> key]
      /\ refused' = [refused EXCEPT ![key] = @ \cup {value}]
      /\ tmp' = tmp /\ disk' = disk /\ alive' = alive /\ acked' = acked /\ lost' = lost
  BY DEF State!PutSetting
<1>1. SettingsTypes'  BY <1>0 DEF SettingsTypes, Maps, SaveStages
<1>2. TemporaryIsMemory'  BY <1>0 DEF TemporaryIsMemory
<1>3. \A k \in Keys : refused[k] \subseteq refused'[k]  BY <1>0 DEF SettingsTypes
<1>4. MemoryFollows'  BY <1>0, <1>3 DEF SettingsTypes, Maps, MemoryFollows
<1>5. State!ConfirmedIsDurable' /\ LostIsGone'
  BY <1>0, <1>3 DEF State!ConfirmedIsDurable, LostIsGone
<1> QED  BY <1>1, <1>2, <1>4, <1>5

\* Where a save is, its key is one of the settings.
LEMMA SaveKey ==
    ASSUME SettingsTypes, save.at # "idle"
    PROVE  /\ save.key \in Keys /\ save.at \in SaveStages
           /\ save # State!Idle
           /\ save = [at |-> save.at, key |-> save.key]
BY DEF SettingsTypes, State!Idle

\* A failed save leaves memory and file as they are, and confirms nothing.
LEMMA ReplyFailedKeeps ==
    ASSUME SettingsInv, save' = State!Idle, alive' = alive,
           UNCHANGED <<memory, disk, acked, refused, lost>>
    PROVE  SettingsInv'
<1>1. SettingsTypes'  BY DEF SettingsInv, SettingsTypes
<1>2. TemporaryIsMemory'  BY DEF TemporaryIsMemory, State!Idle
<1>3. MemoryFollows' /\ LostIsGone' /\ State!ConfirmedIsDurable'
  BY DEF SettingsInv, MemoryFollows, LostIsGone, State!ConfirmedIsDurable
<1> QED  BY <1>1, <1>2, <1>3 DEF SettingsInv

\* A rename puts memory into the settings file: all that was confirmed is
\* there, the value that is confirmed with it too.
LEMMA RenamedKeeps ==
    ASSUME SettingsInv, alive, save.at \in {"rename", "again"}, State!Renamed, State!Reply(TRUE),
           UNCHANGED <<memory, alive>>
    PROVE  SettingsInv'
<1>1. save.key \in Keys  BY SaveKey DEF SettingsInv
<1>2. /\ disk' = State!Whole(memory) /\ lost' = FALSE /\ save' = State!Idle
      /\ acked' = [acked EXCEPT ![save.key] = memory[save.key]]
      /\ refused' = [refused EXCEPT ![save.key] = {}]
      /\ memory' = memory /\ alive' = alive
  BY DEF SettingsInv, TemporaryIsMemory, State!Renamed, State!Reply
<1>3. SettingsTypes'  BY <1>1, <1>2 DEF SettingsInv, SettingsTypes, Maps
<1>4. TemporaryIsMemory' /\ LostIsGone'  BY <1>2 DEF TemporaryIsMemory, LostIsGone, State!Idle
<1>5. \A k \in Keys : acked'[k] # State!Unset => memory[k] \in {acked'[k]} \cup refused'[k]
 <2> SUFFICES ASSUME NEW k \in Keys, acked'[k] # State!Unset
              PROVE  memory[k] \in {acked'[k]} \cup refused'[k]
   OBVIOUS
 <2>1. CASE k = save.key  BY <1>2, <2>1 DEF SettingsInv, SettingsTypes, Maps
 <2>2. CASE k # save.key
  <3>1. acked'[k] = acked[k] /\ refused'[k] = refused[k]
    BY <1>2, <2>2 DEF SettingsInv, SettingsTypes, Maps
  <3> QED  BY <3>1 DEF SettingsInv, MemoryFollows
 <2> QED  BY <2>1, <2>2
<1>6. MemoryFollows' /\ State!ConfirmedIsDurable'
  BY <1>2, <1>5 DEF MemoryFollows, State!ConfirmedIsDurable, State!Whole
<1> QED  BY <1>3, <1>4, <1>6 DEF SettingsInv

\* The temporary file is written, or that failed.
LEMMA WriteTemporaryKeeps ==
    ASSUME SettingsInv, NEW ok \in BOOLEAN, State!WriteTemporary(ok)
    PROVE  SettingsInv'
<1>0. alive /\ save.at = "write" /\ UNCHANGED <<memory, disk, alive, puts, lost>>
  BY DEF State!WriteTemporary
<1>1. CASE ok
 <2>1. /\ tmp' = State!Whole(memory) /\ save' = [save EXCEPT !.at = "rename"]
       /\ acked' = acked /\ refused' = refused
   BY <1>1 DEF State!WriteTemporary
 <2>2. save' = [at |-> "rename", key |-> save.key] /\ save.key \in Keys
   BY <1>0, <2>1, SaveKey DEF SettingsInv
 <2>3. SettingsTypes'  BY <1>0, <2>1, <2>2 DEF SettingsInv, SettingsTypes, SaveStages
 <2>4. TemporaryIsMemory'  BY <1>0, <2>1 DEF TemporaryIsMemory
 <2>5. MemoryFollows' /\ LostIsGone' /\ State!ConfirmedIsDurable'
   BY <1>0, <2>1 DEF SettingsInv, MemoryFollows, LostIsGone, State!ConfirmedIsDurable
 <2> QED  BY <2>3, <2>4, <2>5 DEF SettingsInv
<1>2. CASE ~ok
 <2>1. save' = State!Idle /\ acked' = acked /\ refused' = refused
   BY <1>2 DEF State!WriteTemporary, State!Reply
 <2> QED  BY <1>0, <2>1, ReplyFailedKeeps
<1> QED  BY <1>1, <1>2

\* The first rename replaces the file or leaves everything for the second.
LEMMA RenameTemporaryKeeps ==
    ASSUME SettingsInv, NEW ok \in BOOLEAN, State!RenameTemporary(ok)
    PROVE  SettingsInv'
<1>0. alive /\ save.at = "rename" /\ UNCHANGED <<memory, alive, puts>>
  BY DEF State!RenameTemporary
<1>1. CASE ok  BY <1>0, <1>1, RenamedKeeps DEF State!RenameTemporary
<1>2. CASE ~ok
 <2>1. /\ save' = [save EXCEPT !.at = "remove"]
       /\ UNCHANGED <<disk, tmp, lost, acked, refused>>
   BY <1>2 DEF State!RenameTemporary
 <2>2. save' = [at |-> "remove", key |-> save.key] /\ save.key \in Keys
   BY <1>0, <2>1, SaveKey DEF SettingsInv
 <2>3. SettingsTypes'  BY <1>0, <2>1, <2>2 DEF SettingsInv, SettingsTypes, SaveStages
 <2>4. TemporaryIsMemory'  BY <1>0, <2>1 DEF SettingsInv, TemporaryIsMemory
 <2>5. MemoryFollows' /\ LostIsGone' /\ State!ConfirmedIsDurable'
   BY <1>0, <2>1 DEF SettingsInv, MemoryFollows, LostIsGone, State!ConfirmedIsDurable
 <2> QED  BY <2>3, <2>4, <2>5 DEF SettingsInv
<1> QED  BY <1>1, <1>2

\* The old file is removed: what it held is lost until the next rename.
LEMMA RemoveOldKeeps ==
    ASSUME SettingsInv, NEW ok \in BOOLEAN, State!RemoveOld(ok)
    PROVE  SettingsInv'
<1>0. /\ alive /\ save.at = "remove"
      /\ disk' = IF ok THEN State!None ELSE disk
      /\ lost' = (lost \/ (ok /\ disk # State!None))
      /\ save' = [save EXCEPT !.at = "again"]
      /\ UNCHANGED <<memory, tmp, alive, acked, refused>>
  BY DEF State!RemoveOld
<1>2. save' = [at |-> "again", key |-> save.key] /\ save.key \in Keys
  BY <1>0, SaveKey DEF SettingsInv
<1>3. SettingsTypes'
 <2>1. disk' = State!None \/ \E map \in Maps : disk' = State!Whole(map)
   BY <1>0 DEF SettingsInv, SettingsTypes
 <2>2. lost' \in BOOLEAN  BY <1>0
 <2>3. \E stage \in SaveStages, key \in Keys : save' = [at |-> stage, key |-> key]
   BY <1>2 DEF SaveStages
 <2> QED  BY <1>0, <2>1, <2>2, <2>3 DEF SettingsInv, SettingsTypes
<1>4. TemporaryIsMemory'  BY <1>0 DEF SettingsInv, TemporaryIsMemory
<1>5. LostIsGone' /\ MemoryFollows'  BY <1>0 DEF SettingsInv, LostIsGone, MemoryFollows
<1>6. State!ConfirmedIsDurable'
 <2>1. CASE disk' = disk /\ lost' = lost  BY <1>0, <2>1 DEF SettingsInv, State!ConfirmedIsDurable
 <2>2. CASE lost'
  <3>1. disk' = State!None  BY <1>5, <2>2 DEF LostIsGone
  <3> QED  BY <2>2, <3>1 DEF State!ConfirmedIsDurable, State!None
 <2>3. CASE disk = State!None
  <3>1. disk' = disk /\ lost' = lost  BY <1>0, <2>3 DEF SettingsInv, SettingsTypes
  <3> QED  BY <2>1, <3>1
 <2> QED  BY <1>0, <2>1, <2>2, <2>3 DEF SettingsInv, SettingsTypes
<1> QED  BY <1>3, <1>4, <1>5, <1>6 DEF SettingsInv

\* The second rename.
LEMMA RenameAgainKeeps ==
    ASSUME SettingsInv, NEW ok \in BOOLEAN, State!RenameAgain(ok)
    PROVE  SettingsInv'
<1>0. alive /\ save.at = "again" /\ UNCHANGED <<memory, alive, puts>>  BY DEF State!RenameAgain
<1>1. CASE ok
 <2>1. State!Renamed /\ State!Reply(TRUE)  BY <1>1 DEF State!RenameAgain, State!Reply
 <2> QED  BY <1>0, <2>1, RenamedKeeps
<1>2. CASE ~ok
 <2>1. save' = State!Idle /\ UNCHANGED <<disk, lost, acked, refused>>
   BY <1>2 DEF State!RenameAgain, State!Reply
 <2> QED  BY <1>0, <2>1, ReplyFailedKeeps
<1> QED  BY <1>1, <1>2

\* The daemon ends: nothing it confirmed depends on its memory.
LEMMA CrashKeeps ==
    ASSUME SettingsInv, State!Crash
    PROVE  SettingsInv'
<1>0. alive' = FALSE /\ save' = State!Idle /\ UNCHANGED <<memory, disk, acked, refused, lost>>
  BY DEF State!Crash
<1>1. SettingsTypes'  BY <1>0 DEF SettingsInv, SettingsTypes
<1>2. TemporaryIsMemory' /\ MemoryFollows'
  BY <1>0 DEF TemporaryIsMemory, MemoryFollows, State!Idle
<1>3. LostIsGone' /\ State!ConfirmedIsDurable'
  BY <1>0 DEF SettingsInv, LostIsGone, State!ConfirmedIsDurable
<1> QED  BY <1>1, <1>2, <1>3 DEF SettingsInv

\* A daemon starts: it has in memory what the file says.
LEMMA RestartKeeps ==
    ASSUME SettingsInv, State!Restart
    PROVE  SettingsInv'
<1>0. /\ ~alive /\ alive' = TRUE
      /\ memory' = IF disk.file = "whole" THEN disk.map ELSE State!Empty
      /\ acked' = IF lost THEN State!Empty ELSE acked
      /\ refused' = IF lost THEN [k \in Keys |-> {}] ELSE refused
      /\ lost' = FALSE
      /\ save' = save /\ tmp' = tmp /\ disk' = disk
  BY DEF State!Restart
<1>1. save' = State!Idle  BY <1>0 DEF SettingsInv, TemporaryIsMemory
<1>2. State!Empty \in Maps /\ \A k \in Keys : State!Empty[k] = State!Unset
  BY DEF State!Empty, Maps
<1>3. memory' \in Maps  BY <1>0, <1>2 DEF SettingsInv, SettingsTypes, State!None, State!Whole
<1>4. SettingsTypes'
 <2>1. acked' \in Maps /\ refused' \in [Keys -> SUBSET State!Values]
   BY <1>0, <1>2 DEF SettingsInv, SettingsTypes
 <2> QED  BY <1>0, <1>1, <1>3, <2>1 DEF SettingsInv, SettingsTypes
<1>5. TemporaryIsMemory' /\ LostIsGone'
  BY <1>0, <1>1 DEF TemporaryIsMemory, LostIsGone, State!Idle
<1>6. CASE lost
 <2>1. \A k \in Keys : acked'[k] = State!Unset  BY <1>0, <1>2, <1>6
 <2>2. disk'.file # "torn"  BY <1>0 DEF SettingsInv, State!ConfirmedIsDurable
 <2>3. MemoryFollows' /\ State!ConfirmedIsDurable'
   BY <2>1, <2>2 DEF MemoryFollows, State!ConfirmedIsDurable
 <2> QED  BY <1>4, <1>5, <2>3 DEF SettingsInv
<1>7. CASE ~lost
 <2>1. acked' = acked /\ refused' = refused  BY <1>0, <1>7
 <2>2. State!ConfirmedIsDurable'  BY <1>0, <1>7, <2>1 DEF SettingsInv, State!ConfirmedIsDurable
 <2>3. MemoryFollows'  BY <1>0, <2>1, <2>2 DEF MemoryFollows, State!ConfirmedIsDurable
 <2> QED  BY <1>4, <1>5, <2>2, <2>3 DEF SettingsInv
<1> QED  BY <1>6, <1>7

\* The part of the invariant about the surfaces.
TableInv == HistoryComplete /\ State!GenerationNamesSurfaces

\* A transaction adds the surfaces it leaves as the next generation, or
\* changes nothing.
LEMMA ApplySurfaceTransactionKeeps ==
    ASSUME TableInv, NEW lines, State!ApplySurfaceTransaction(lines)
    PROVE  TableInv'
<1>1. PICK done : /\ done = State!FoldLeft(State!ApplyLine, State!Good(surfaces), lines)
                  /\ IF done.valid
                     THEN /\ surfaces' = done.map
                          /\ surfaceGeneration' = surfaceGeneration + 1
                          /\ history' = Append(history, surfaces')
                     ELSE UNCHANGED State!table
  BY DEF State!ApplySurfaceTransaction
<1>2. CASE done.valid
 <2>1. surfaceGeneration' = surfaceGeneration + 1 /\ history' = Append(history, surfaces')
   BY <1>1, <1>2
 <2>2. PICK s : s = surfaces'  OBVIOUS
 <2>3. /\ history' \in Seq(Range(history')) /\ Len(history') = Len(history) + 1
       /\ history'[Len(history) + 1] = s
   BY <2>1, <2>2, AppendedLast DEF TableInv, HistoryComplete
 <2> QED  BY <2>1, <2>2, <2>3 DEF TableInv, HistoryComplete, State!GenerationNamesSurfaces
<1>3. CASE ~done.valid
  BY <1>1, <1>3 DEF State!table, TableInv, HistoryComplete, State!GenerationNamesSurfaces
<1> QED  BY <1>2, <1>3

\* A daemon that starts has no surfaces, and that is its generation 0.
LEMMA RestartTable ==
    ASSUME State!Restart
    PROVE  TableInv'
<1>1. history' = <<surfaces'>> /\ surfaceGeneration' = 0  BY DEF State!Restart
<1>2. PICK s : s = surfaces'  OBVIOUS
<1>3. history' = <<s>>  BY <1>1, <1>2
<1>4. Len(history') = 1 /\ history'[1] = s /\ history' \in Seq({s}) /\ DOMAIN history' = 1 .. 1
  BY <1>3
<1>5. Range(history') = {s}  BY <1>4 DEF Range
<1> QED  BY <1>1, <1>2, <1>4, <1>5 DEF TableInv, HistoryComplete, State!GenerationNamesSurfaces

\* Every step of the daemon, its end and its start preserve the invariant.
LEMMA StateStep == StateInv /\ [State!Next]_(State!vars) => StateInv'
<1> SUFFICES ASSUME StateInv, [State!Next]_(State!vars) PROVE StateInv'  OBVIOUS
<1>0. SettingsInv /\ TableInv  BY DEF StateInv, SettingsInv, TableInv
<1>T. ASSUME UNCHANGED State!table PROVE TableInv'
  BY <1>0, <1>T DEF State!table, TableInv, HistoryComplete, State!GenerationNamesSurfaces
<1>S. ASSUME UNCHANGED State!settings PROVE SettingsInv'
  BY <1>0, <1>S DEF State!settings, SettingsInv, SettingsTypes, TemporaryIsMemory, MemoryFollows,
     LostIsGone, State!ConfirmedIsDurable
<1>1. ASSUME NEW key \in Keys, NEW value \in State!Values, State!PutSetting(key, value)
      PROVE SettingsInv' /\ TableInv'
  BY <1>0, <1>1, <1>T, PutSettingKeeps DEF State!PutSetting, State!table
<1>2. ASSUME NEW ok \in BOOLEAN, State!WriteTemporary(ok) PROVE SettingsInv' /\ TableInv'
  BY <1>0, <1>2, <1>T, WriteTemporaryKeeps DEF State!WriteTemporary, State!table
<1>3. ASSUME NEW ok \in BOOLEAN, State!RenameTemporary(ok) PROVE SettingsInv' /\ TableInv'
  BY <1>0, <1>3, <1>T, RenameTemporaryKeeps DEF State!RenameTemporary, State!table
<1>4. ASSUME NEW ok \in BOOLEAN, State!RemoveOld(ok) PROVE SettingsInv' /\ TableInv'
  BY <1>0, <1>4, <1>T, RemoveOldKeeps DEF State!RemoveOld, State!table
<1>5. ASSUME NEW ok \in BOOLEAN, State!RenameAgain(ok) PROVE SettingsInv' /\ TableInv'
  BY <1>0, <1>5, <1>T, RenameAgainKeeps DEF State!RenameAgain, State!table
<1>6. ASSUME State!Crash PROVE SettingsInv' /\ TableInv'
  BY <1>0, <1>6, <1>T, CrashKeeps DEF State!Crash, State!table
<1>7. ASSUME State!Restart PROVE SettingsInv' /\ TableInv'
  BY <1>0, <1>7, RestartKeeps, RestartTable
<1>8. ASSUME NEW lines \in State!Transactions, State!ApplySurfaceTransaction(lines)
      PROVE SettingsInv' /\ TableInv'
  BY <1>0, <1>8, <1>S, ApplySurfaceTransactionKeeps DEF State!ApplySurfaceTransaction
<1>9. ASSUME UNCHANGED State!vars PROVE SettingsInv' /\ TableInv'
  BY <1>9, <1>S, <1>T DEF State!vars, State!settings, State!table
<1>10. SettingsInv' /\ TableInv'
  BY <1>1, <1>2, <1>3, <1>4, <1>5, <1>6, <1>7, <1>8, <1>9 DEF State!Next
<1> QED  BY <1>10 DEF StateInv, SettingsInv, TableInv

\* A set of numbers that is not empty has a least one.
LEMMA LeastNumber == ASSUME NEW T \in SUBSET Nat, T # {} PROVE \E x \in T : \A y \in T : x <= y
<1>1. PICK R : R = OpToRel(<, Nat)  OBVIOUS
<1>2. IsWellFoundedOn(R, Nat)  BY <1>1, NatLessThanWellFounded, Zenon
<1>3. PICK x \in T : \A y \in T : ~(<<y, x>> \in R)  BY <1>2, WFMin, Zenon
<1>4. \A y \in Nat : y < x => <<y, x>> \in R  BY <1>1 DEF OpToRel
<1>5. \A y \in T : ~(y < x)  BY <1>3, <1>4
<1>6. x \in Nat /\ T \subseteq Nat  OBVIOUS
<1>7. \A y \in T : x <= y  BY <1>5, <1>6
<1> QED  BY <1>7

\* A set that has 0, and with a number the next one, has them all.
LEMMA Induction ==
    ASSUME NEW S, 0 \in S, \A n \in Nat : n \in S => n + 1 \in S
    PROVE  Nat \subseteq S
<1> SUFFICES ASSUME ~(Nat \subseteq S) PROVE FALSE  OBVIOUS
<1>1. PICK T : T = {n \in Nat : n \notin S}  OBVIOUS
<1>2. T \in SUBSET Nat /\ T # {}  BY <1>1
<1>3. PICK x \in T : \A y \in T : x <= y  BY <1>2, LeastNumber
<1>4. x \in Nat /\ x \notin S /\ x # 0  BY <1>1
<1>5. PICK m \in Nat : x = m + 1
 <2>1. x - 1 \in Nat /\ x = (x - 1) + 1  BY <1>4
 <2> QED  BY <2>1
<1>6. m \in S  BY <1>1, <1>3, <1>5
<1> QED  BY <1>4, <1>5, <1>6

\* The function on the subsets of D through which a fold over the lines is
\* defined.
IsFold(g, base, lines, D) ==
    g = [s \in SUBSET D |-> IF s = {} THEN base
                            ELSE State!ApplyLine(g[s \ {State!Max(s)}], lines[State!Max(s)])]

\* A transaction is the value of that function at all of its lines.
LEMMA FoldIs ==
    ASSUME NEW base, NEW lines
    PROVE  State!FoldLeft(State!ApplyLine, base, lines)
             = (CHOOSE g : IsFold(g, base, lines, DOMAIN lines))[DOMAIN lines]
BY DEF State!FoldLeft, State!MapThenFoldSet, IsFold

\* The last of the lines that end in line k + 1.
LEMMA LastOf ==
    ASSUME NEW k \in Nat, NEW s \in SUBSET (1 .. k + 1), k + 1 \in s
    PROVE  State!Max(s) = k + 1
<1>1. \A y \in s : k + 1 >= y  OBVIOUS
<1>2. \A x \in s : (\A y \in s : x >= y) => x = k + 1  OBVIOUS
<1> QED  BY <1>1, <1>2 DEF State!Max

\* There is such a function, for any number of lines.
LEMMA FoldExists ==
    ASSUME NEW base, NEW lines
    PROVE  \A n \in Nat : \E g : IsFold(g, base, lines, 1 .. n)
<1>1. PICK S : S = {n \in Nat : \E g : IsFold(g, base, lines, 1 .. n)}  OBVIOUS
<1>2. 0 \in S
 <2>1. PICK g : g = [s \in SUBSET (1 .. 0) |-> base]  OBVIOUS
 <2>2. \A s \in SUBSET (1 .. 0) : s = {}  OBVIOUS
 <2>3. IsFold(g, base, lines, 1 .. 0)  BY <2>1, <2>2 DEF IsFold
 <2> QED  BY <1>1, <2>3
<1>3. ASSUME NEW n \in Nat, n \in S PROVE n + 1 \in S
 <2>1. PICK g : IsFold(g, base, lines, 1 .. n)  BY <1>1, <1>3
 <2> DEFINE D == 1 .. n + 1
 <2>2. PICK h : h = [s \in SUBSET D |-> IF n + 1 \in s
                                        THEN State!ApplyLine(g[s \ {n + 1}], lines[n + 1]) ELSE g[s]]
   OBVIOUS
 <2>3. \A s \in SUBSET (1 .. n) : s \in SUBSET D /\ n + 1 \notin s /\ h[s] = g[s]
  <3>1. \A s \in SUBSET (1 .. n) : s \in SUBSET D /\ n + 1 \notin s  OBVIOUS
  <3> QED  BY <2>2, <3>1
 <2>4. ASSUME NEW s \in SUBSET D
       PROVE  h[s] = IF s = {} THEN base ELSE State!ApplyLine(h[s \ {State!Max(s)}], lines[State!Max(s)])
  <3>1. CASE n + 1 \in s
   <4>1. State!Max(s) = n + 1 /\ s # {} /\ s \ {n + 1} \in SUBSET (1 .. n)  BY <3>1, LastOf
   <4>2. h[s] = State!ApplyLine(g[s \ {n + 1}], lines[n + 1])  BY <2>2, <3>1
   <4>3. h[s \ {n + 1}] = g[s \ {n + 1}]  BY <2>3, <4>1
   <4> QED  BY <4>1, <4>2, <4>3
  <3>2. CASE n + 1 \notin s
   <4>1. s \in SUBSET (1 .. n)  BY <3>2
   <4>2. h[s] = g[s] /\ h[s \ {State!Max(s)}] = g[s \ {State!Max(s)}]
    <5>1. s \ {State!Max(s)} \in SUBSET (1 .. n)  BY <4>1
    <5> QED  BY <2>3, <4>1, <5>1
   <4>3. g[s] = IF s = {} THEN base ELSE State!ApplyLine(g[s \ {State!Max(s)}], lines[State!Max(s)])
     BY <2>1, <4>1 DEF IsFold
   <4> QED  BY <4>2, <4>3
  <3> QED  BY <3>1, <3>2
 <2>5. IsFold(h, base, lines, D)
  <3>1. h = [s \in SUBSET D |-> h[s]]  BY <2>2
  <3> QED  BY <2>4, <3>1, Zenon DEF IsFold
 <2> QED  BY <1>1, <2>5
<1>4. Nat \subseteq S  BY <1>2, <1>3, Induction
<1> QED  BY <1>1, <1>4

\* What a transaction may come to: refused, or surfaces with ids of their own.
Allowed(r) == r = State!Bad \/ \E map : r = State!Good(map) /\ DOMAIN map \subseteq SurfaceIds \ {0}

\* A line makes of such a result another one.
LEMMA LineAllowed ==
    ASSUME NEW r, Allowed(r), NEW line \in State!Line
    PROVE  Allowed(State!ApplyLine(r, line))
<1> DEFINE Ids == SurfaceIds \ {0}
<1>1. CASE r = State!Bad
 <2>1. ~r.valid  BY <1>1 DEF State!Bad
 <2>2. State!ApplyLine(r, line) = State!Bad  BY <2>1 DEF State!ApplyLine
 <2> QED  BY <2>2 DEF Allowed
<1>2. ASSUME NEW map, r = State!Good(map), DOMAIN map \subseteq Ids PROVE Allowed(State!ApplyLine(r, line))
 <2>1. r.valid = TRUE /\ r.map = map  BY <1>2 DEF State!Good
 <2>2. /\ line.id \in SurfaceIds \/ line.op = "unknown"
       /\ line.op \in {"create", "remove", "show", "hide", "layer", "unknown"}
   BY DEF State!Line
 <2>3. CASE line.op = "remove"
  <3>1. PICK t : t = [i \in DOMAIN map \ {line.id} |-> map[i]]  OBVIOUS
  <3>2. State!ApplyLine(r, line) = State!Good(t)  BY <2>1, <2>3, <3>1 DEF State!ApplyLine
  <3>3. DOMAIN t \subseteq Ids  BY <1>2, <3>1
  <3> QED  BY <3>2, <3>3 DEF Allowed
 <2>4. ASSUME NEW state, NEW t, t = State!With(map, line.id, state), line.id \in Ids PROVE Allowed(State!Good(t))
  <3>1. DOMAIN t \subseteq Ids  BY <1>2, <2>4 DEF State!With
  <3> QED  BY <3>1 DEF Allowed
 <2>5. CASE line.op = "create"
  <3>1. CASE line.id # 0 /\ line.id \notin DOMAIN map
   <4>1. State!ApplyLine(r, line) = State!Good(State!With(map, line.id, State!Surface))
     BY <2>1, <2>5, <3>1 DEF State!ApplyLine
   <4>2. line.id \in Ids  BY <2>2, <2>5, <3>1
   <4> QED  BY <2>4, <4>1, <4>2
  <3>2. CASE ~(line.id # 0 /\ line.id \notin DOMAIN map)
   <4>1. State!ApplyLine(r, line) = State!Bad  BY <2>1, <2>5, <3>2 DEF State!ApplyLine
   <4> QED  BY <4>1 DEF Allowed
  <3> QED  BY <3>1, <3>2
 <2>6. CASE line.op \in {"show", "hide"} /\ line.id \in DOMAIN map
  <3>1. State!ApplyLine(r, line)
          = State!Good(State!With(map, line.id, [map[line.id] EXCEPT !.visible = (line.op = "show")]))
    BY <2>1, <2>6 DEF State!ApplyLine
  <3>2. line.id \in Ids  BY <1>2, <2>6
  <3> QED  BY <2>4, <3>1, <3>2
 <2>7. CASE line.op = "layer" /\ line.id \in DOMAIN map
  <3>1. State!ApplyLine(r, line)
          = State!Good(State!With(map, line.id, [map[line.id] EXCEPT !.layer = line.layer]))
    BY <2>1, <2>7 DEF State!ApplyLine
  <3>2. line.id \in Ids  BY <1>2, <2>7
  <3> QED  BY <2>4, <3>1, <3>2
 <2>8. CASE line.op = "unknown" \/ (line.op \in {"show", "hide", "layer"} /\ line.id \notin DOMAIN map)
  <3>1. State!ApplyLine(r, line) = State!Bad  BY <2>1, <2>8 DEF State!ApplyLine
  <3> QED  BY <3>1 DEF Allowed
 <2> QED  BY <2>2, <2>3, <2>5, <2>6, <2>7, <2>8
<1> QED  BY <1>1, <1>2 DEF Allowed

\* So do all lines of a transaction, one after the other.
LEMMA FoldAllowed ==
    ASSUME NEW n \in Nat, NEW lines \in [1 .. n -> State!Line], NEW base, Allowed(base), NEW g,
           IsFold(g, base, lines, 1 .. n)
    PROVE  \A k \in Nat : \A s \in SUBSET (1 .. k) : s \in SUBSET (1 .. n) => Allowed(g[s])
<1>0. \A s \in SUBSET (1 .. n) :
        g[s] = IF s = {} THEN base ELSE State!ApplyLine(g[s \ {State!Max(s)}], lines[State!Max(s)])
  BY DEF IsFold
<1>1. PICK S : S = {k \in Nat : \A s \in SUBSET (1 .. k) : s \in SUBSET (1 .. n) => Allowed(g[s])}
  OBVIOUS
<1>2. 0 \in S
 <2>1. \A s \in SUBSET (1 .. 0) : s = {}  OBVIOUS
 <2>2. {} \in SUBSET (1 .. n) /\ g[{}] = base  BY <1>0
 <2> QED  BY <1>1, <2>1, <2>2
<1>3. ASSUME NEW k \in Nat, k \in S PROVE k + 1 \in S
 <2>1. ASSUME NEW s \in SUBSET (1 .. k + 1), s \in SUBSET (1 .. n) PROVE Allowed(g[s])
  <3>1. CASE k + 1 \in s
   <4>1. PICK t : t = s \ {k + 1}  OBVIOUS
   <4>2. t \in SUBSET (1 .. k) /\ t \in SUBSET (1 .. n)  BY <2>1, <4>1
   <4>3. Allowed(g[t])  BY <1>1, <1>3, <4>2
   <4>4. k + 1 \in 1 .. n /\ lines[k + 1] \in State!Line  BY <2>1, <3>1
   <4>5. g[s] = State!ApplyLine(g[t], lines[k + 1])
    <5>1. State!Max(s) = k + 1 /\ s # {}  BY <3>1, LastOf
    <5> QED  BY <1>0, <2>1, <4>1, <5>1
   <4> QED  BY <4>3, <4>4, <4>5, LineAllowed
  <3>2. CASE k + 1 \notin s
   <4>1. s \in SUBSET (1 .. k)  BY <3>2
   <4> QED  BY <1>1, <1>3, <2>1, <4>1
  <3> QED  BY <3>1, <3>2
 <2>2. k + 1 \in Nat  OBVIOUS
 <2>3. \A s \in SUBSET (1 .. k + 1) : s \in SUBSET (1 .. n) => Allowed(g[s])  BY <2>1, Zenon
 <2> QED  BY <1>1, <2>2, <2>3, Zenon
<1>4. Nat \subseteq S  BY <1>2, <1>3, Induction
<1> QED  BY <1>1, <1>4

\* A transaction that is applied leaves surfaces with ids of their own.
LEMMA TransactionIds ==
    ASSUME NEW lines \in State!Transactions, MaxLines \in Nat, DOMAIN surfaces \subseteq SurfaceIds \ {0},
           NEW done, done = State!FoldLeft(State!ApplyLine, State!Good(surfaces), lines), done.valid
    PROVE  DOMAIN done.map \subseteq SurfaceIds \ {0}
<1>1. PICK n \in Nat : lines \in [1 .. n -> State!Line]  BY DEF State!Transactions
<1>2. DOMAIN lines = 1 .. n  BY <1>1
<1>3. PICK base : base = State!Good(surfaces)  OBVIOUS
<1>4. Allowed(base)  BY <1>3 DEF Allowed
<1>5. PICK g : g = CHOOSE h : IsFold(h, base, lines, 1 .. n)  OBVIOUS
<1>6. IsFold(g, base, lines, 1 .. n)
 <2>1. \E h : IsFold(h, base, lines, 1 .. n)  BY <1>1, FoldExists
 <2> QED  BY <1>5, <2>1
<1>7. done = g[1 .. n]
 <2>1. State!FoldLeft(State!ApplyLine, base, lines)
         = (CHOOSE h : IsFold(h, base, lines, DOMAIN lines))[DOMAIN lines]
   BY FoldIs
 <2> QED  BY <1>2, <1>3, <1>5, <2>1
<1>8. Allowed(done)
 <2>1. (1 .. n) \in SUBSET (1 .. n)  OBVIOUS
 <2>2. \A k \in Nat : \A s \in SUBSET (1 .. k) : s \in SUBSET (1 .. n) => Allowed(g[s])
   BY <1>1, <1>4, <1>6, FoldAllowed
 <2> QED  BY <1>1, <1>7, <2>1, <2>2
<1>9. done # State!Bad  BY DEF State!Bad
<1>10. PICK map : done = State!Good(map) /\ DOMAIN map \subseteq SurfaceIds \ {0}
  BY <1>8, <1>9 DEF Allowed
<1>11. done.map = map  BY <1>10 DEF State!Good
<1> QED  BY <1>10, <1>11

\* The generation is counted, and the surfaces have ids that a transaction
\* may name.
TableBounds == surfaceGeneration \in 0 .. MaxChanges /\ DOMAIN surfaces \subseteq SurfaceIds \ {0}

\* A transaction keeps the ids.
LEMMA TableBoundsStep ==
    ASSUME StateSizes, TableBounds, [State!Next]_(State!vars)
    PROVE  TableBounds'
<1>1. CASE UNCHANGED State!table  BY <1>1 DEF TableBounds, State!table
<1>2. CASE State!Restart
 <2>1. surfaceGeneration' = 0 /\ surfaces' = <<>>  BY <1>2 DEF State!Restart
 <2>2. DOMAIN <<>> = {}  OBVIOUS
 <2> QED  BY <2>1, <2>2 DEF TableBounds, StateSizes
<1>3. ASSUME NEW lines \in State!Transactions, State!ApplySurfaceTransaction(lines)
      PROVE  TableBounds'
 <2>1. PICK done : /\ done = State!FoldLeft(State!ApplyLine, State!Good(surfaces), lines)
                   /\ surfaceGeneration < MaxChanges
                   /\ IF done.valid
                      THEN /\ surfaces' = done.map
                           /\ surfaceGeneration' = surfaceGeneration + 1
                           /\ history' = Append(history, surfaces')
                      ELSE UNCHANGED State!table
   BY <1>3 DEF State!ApplySurfaceTransaction
 <2>2. CASE done.valid
  <3>1. DOMAIN done.map \subseteq SurfaceIds \ {0}
    BY <2>1, <2>2, TransactionIds DEF TableBounds, StateSizes
  <3>2. surfaces' = done.map /\ surfaceGeneration' = surfaceGeneration + 1  BY <2>1, <2>2
  <3>3. surfaceGeneration' \in 0 .. MaxChanges  BY <2>1, <3>2 DEF TableBounds, StateSizes
  <3> QED  BY <3>1, <3>2, <3>3 DEF TableBounds
 <2>3. CASE ~done.valid  BY <1>1, <2>1, <2>3
 <2> QED  BY <2>2, <2>3
<1>4. ASSUME NEW key \in Keys, NEW value \in State!Values, State!PutSetting(key, value)
      PROVE  UNCHANGED State!table
  BY <1>4 DEF State!PutSetting
<1>5. ASSUME NEW ok \in BOOLEAN,
             \/ State!WriteTemporary(ok) \/ State!RenameTemporary(ok)
             \/ State!RemoveOld(ok) \/ State!RenameAgain(ok)
      PROVE  UNCHANGED State!table
  BY <1>5 DEF State!WriteTemporary, State!RenameTemporary, State!RemoveOld, State!RenameAgain
<1>6. State!Crash \/ UNCHANGED State!vars => UNCHANGED State!table
  BY DEF State!Crash, State!vars, State!table
<1> QED  BY <1>1, <1>2, <1>3, <1>4, <1>5, <1>6 DEF State!Next

\* Whenever the daemon ends, but between the removal of the settings file and
\* the second renaming, the settings file holds of each key the value that was
\* confirmed last or one that was taken after it, unless the second rename
\* failed; a denied permission is not granted before it was asked for; and a generation stands
\* for one content of the surface table.  For any settings, surfaces and
\* number of requests.
THEOREM StateStaysSound ==
    ASSUME StateSizes
    PROVE  State!Spec => [](State!TypeOK /\ State!StateSound)
<1>1. StateInv => State!StateSound
 <2> SUFFICES ASSUME StateInv PROVE State!DeniedStaysDenied  BY DEF StateInv, State!StateSound
 <2> QED
   BY DEF StateInv, MemoryFollows, State!DeniedStaysDenied, State!PermissionGranted, State!Unset
<1>2. StateInv /\ TableBounds => State!TypeOK
 <2> SUFFICES ASSUME StateInv, TableBounds PROVE State!TypeOK  OBVIOUS
 <2>1. memory \in [Keys -> State!Values \cup {State!Unset}]  BY DEF StateInv, SettingsTypes, Maps
 <2>2. save.at \in {"idle", "write", "rename", "remove", "again"}
   BY DEF StateInv, SettingsTypes, State!Idle, SaveStages
 <2> QED  BY <2>1, <2>2 DEF TableBounds, State!TypeOK
<1>3. State!Init => TableBounds
 <2> SUFFICES ASSUME State!Init PROVE TableBounds  OBVIOUS
 <2>1. surfaceGeneration = 0 /\ surfaces = <<>>  BY DEF State!Init
 <2>2. DOMAIN <<>> = {}  OBVIOUS
 <2> QED  BY <2>1, <2>2 DEF TableBounds, StateSizes
<1>4. TableBounds /\ [State!Next]_(State!vars) => TableBounds'  BY TableBoundsStep
<1> QED  BY <1>1, <1>2, <1>3, <1>4, StateInit, StateStep, PTL DEF State!Spec

----
(* The device channel: actions are taken once, by one reader, and when all *)
(* is quiet the newest focus has won: it was applied last, or is on its    *)
(* way behind no newer one (FocusInv).                                     *)

CONSTANTS MaxActions, MaxLaunches, MaxCrashes, MaxTries
VARIABLES up, serverGen, conn, pipe, localGen, focusGen, subscriber, connecting, connector, tries,
          reader, taken, mainq, pendingActions, flushing, mainReady, tabs, activeTab, focused,
          launching, skewed, gaveUp, budget

Device == INSTANCE DeviceChannel

Push == [kind : {"focus", "back", "close"}, tab : Device!Tabs, gen : Nat]
Runnable == Push \cup {Device!Flush}

Shown == [gen : Nat, tab : Device!Tabs, kept : BOOLEAN]

\* The types of the numbers and the queues.
DeviceTypes ==
    /\ serverGen \in Nat /\ localGen \in Nat /\ focusGen \in Nat /\ launching \in Nat
    /\ focused \in Shown
    /\ pipe \in Seq(Push) /\ mainq \in Seq(Runnable) /\ pendingActions \in Seq(Push)
    /\ flushing \in Seq(Push) /\ taken \in Seq(Push)

\* The threads: as in OneReader, with the types of the thread variables.
ThreadsInv ==
    /\ conn \in {"none", "open", "closed"} /\ connector \in {"none", "trying", "returning"}
    /\ reader \in {"none", "reading", "ending"}
    /\ subscriber \in BOOLEAN /\ Device!OneReader

\* While both number alike, what is on the stream is numbered upwards between
\* what the controller has seen and what muplard has given out.
StreamInv ==
    ~skewed => /\ localGen <= serverGen /\ launching = 0
               /\ \A i \in 1 .. Len(pipe) : localGen < pipe[i].gen /\ pipe[i].gen <= serverGen
               /\ \A i, j \in 1 .. Len(pipe) : i < j => pipe[i].gen < pipe[j].gen

\* The tab in front: it has an activity while any tab has, and it is the one of
\* the focus-tab applied last until the guest changes it.
FrontInv ==
    /\ tabs \subseteq Device!Tabs /\ activeTab \in Device!Tabs \cup {""}
    /\ Device!FrontIsThere
    /\ focused.kept => activeTab = focused.tab

\* No focus of a queue has a number above g; one has the number g.
UpTo(q, g) == \A i \in 1 .. Len(q) : q[i].kind = "focus" => q[i].gen <= g
HasGen(q, g) == \E i \in 1 .. Len(q) : q[i].kind = "focus" /\ q[i].gen = g

\* No focus that is on its way is newer than the newest one taken, ...
NoneNewer ==
    /\ UpTo(mainq, focusGen) /\ UpTo(pendingActions, focusGen)
    /\ UpTo(flushing, focusGen) /\ UpTo(taken, focusGen)

\* ... and that one is on its way: a launch or the reader has yet to post it,
\* or it is on the looper, pending, or in the flush that runs.
OnItsWay ==
    \/ launching # 0 /\ launching = focusGen
    \/ HasGen(mainq, focusGen) \/ HasGen(pendingActions, focusGen)
    \/ HasGen(flushing, focusGen) \/ HasGen(taken, focusGen)

\* The newest focus was applied, or it is still on its way.
FocusInv ==
    /\ focusGen <= localGen /\ launching <= focusGen
    /\ Len(taken) <= 1
    /\ NoneNewer
    /\ focused.gen = focusGen \/ OnItsWay

DeviceInv == DeviceTypes /\ ThreadsInv /\ StreamInv /\ FrontInv /\ FocusInv

\* Posting to the end of a queue.
LEMMA Posted ==
    ASSUME NEW q \in Seq(Runnable), NEW r \in Runnable
    PROVE  /\ Append(q, r) \in Seq(Runnable) /\ Len(Append(q, r)) = Len(q) + 1
           /\ Append(q, r)[Len(q) + 1] = r
           /\ \A i \in 1 .. Len(q) : Append(q, r)[i] = q[i]
OBVIOUS

\* Taking from the front of a queue.
LEMMA Taken ==
    ASSUME NEW S, NEW q \in Seq(S), q # <<>>
    PROVE  /\ Head(q) \in S /\ Tail(q) \in Seq(S) /\ Len(q) \in Nat /\ Len(q) >= 1
           /\ Len(Tail(q)) = Len(q) - 1 /\ q[1] = Head(q)
           /\ \A i \in 1 .. Len(Tail(q)) : Tail(q)[i] = q[i + 1]
BY HeadTailProperties, EmptySeq

\* Registering starts a connect thread or leaves it alone.
LEMMA StartKeeps ==
    ASSUME ThreadsInv, NEW b, Device!Start(b) \/ UNCHANGED <<connecting, connector, tries>>,
           UNCHANGED <<conn, subscriber, reader>>
    PROVE  ThreadsInv'
<1>1. connector' \in {"none", "trying", "returning"}  BY DEF ThreadsInv, Device!Start
<1> QED  BY <1>1 DEF ThreadsInv, Device!OneReader

\* The threads keep one reader, whoever goes first.
LEMMA ThreadsStep == ASSUME ThreadsInv, [Device!Next]_(Device!vars) PROVE ThreadsInv'
<1>1. CASE UNCHANGED <<conn, connector, reader, subscriber>>
  BY <1>1 DEF ThreadsInv, Device!OneReader
<1>2. ASSUME NEW action \in Device!Actions, Device!DeviceAction(action) PROVE ThreadsInv'
  BY <1>1, <1>2 DEF Device!DeviceAction, Device!threads
<1>3. CASE Device!Crash \/ Device!Restart
  BY <1>3 DEF Device!Crash, Device!Restart, Device!threads, Device!stream, ThreadsInv,
     Device!OneReader
<1>4. CASE Device!InitSubscriber
 <2>1. connector' = "returning"  BY <1>4 DEF Device!InitSubscriber
 <2>2. CASE subscriber
   BY <1>4, <2>1, <2>2 DEF Device!InitSubscriber, Device!stream, ThreadsInv, Device!OneReader
 <2>3. CASE ~subscriber
   BY <1>4, <2>1, <2>3 DEF Device!InitSubscriber, ThreadsInv, Device!OneReader
 <2> QED  BY <2>2, <2>3
<1>5. CASE Device!TryFails \/ Device!ConnectorReturns
 <2>1. connector' \in {"none", "trying", "returning"} /\ UNCHANGED <<conn, subscriber, reader>>
   BY <1>5 DEF Device!TryFails, Device!ConnectorReturns, Device!stream, ThreadsInv
 <2> QED  BY <2>1 DEF ThreadsInv, Device!OneReader
<1>6. CASE Device!ReaderTakes \/ Device!ReaderPosts \/ Device!LaunchApp \/ Device!RunFlush
  BY <1>1, <1>6 DEF Device!ReaderTakes, Device!ReaderPosts, Device!LaunchApp, Device!RunFlush,
     Device!threads, Device!stream
<1>7. CASE Device!ReaderEnds  BY <1>7 DEF Device!ReaderEnds, ThreadsInv, Device!OneReader
<1>8. CASE Device!ReaderReconnects
 <2>1. connector' \in {"none", "trying", "returning"}
   BY <1>8 DEF Device!ReaderReconnects, Device!Start, ThreadsInv
 <2>2. UNCHANGED <<conn, subscriber>> /\ reader = "ending" /\ reader' = "none"
   BY <1>8 DEF Device!ReaderReconnects, Device!stream
 <2> QED  BY <2>1, <2>2 DEF ThreadsInv, Device!OneReader
<1>9. ASSUME NEW delivered \in BOOLEAN, Device!LaunchDispatch(delivered) PROVE ThreadsInv'
  BY <1>1, <1>9 DEF Device!LaunchDispatch, Device!threads
<1>10. ASSUME NEW tab \in Device!Tabs, Device!RegisterActivity(tab) PROVE ThreadsInv'
  BY <1>10, StartKeeps DEF Device!RegisterActivity, Device!Registered, Device!stream
<1>11. ASSUME NEW tab \in Device!Tabs, NEW launched \in BOOLEAN, Device!StartActivity(tab, launched)
       PROVE  ThreadsInv'
 <2>1. Device!Start(subscriber) \/ UNCHANGED <<connecting, connector, tries>>
   BY <1>11 DEF Device!StartActivity, Device!Registered
 <2> QED  BY <1>11, <2>1, StartKeeps DEF Device!StartActivity, Device!stream
<1>12. ASSUME NEW next, NEW fully, Device!Apply(next, fully) PROVE ThreadsInv'
 <2>1. Device!Start(subscriber) \/ UNCHANGED <<connecting, connector, tries>>
   BY <1>12 DEF Device!Apply
 <2> QED  BY <1>12, <2>1, StartKeeps DEF Device!Apply, Device!stream
<1>13. ASSUME NEW fully \in BOOLEAN, Device!RunAction(fully) PROVE ThreadsInv'
 <2>1. CASE Device!Apply(Head(mainq), fully)  BY <1>12, <2>1
 <2>2. CASE ~Device!Apply(Head(mainq), fully)
   BY <1>1, <1>13, <2>2 DEF Device!RunAction, Device!threads, Device!stream
 <2> QED  BY <2>1, <2>2
<1>14. ASSUME NEW fully \in BOOLEAN, Device!ApplyFlushed(fully) PROVE ThreadsInv'
  BY <1>12, <1>14 DEF Device!ApplyFlushed
<1>15. CASE UNCHANGED Device!vars  BY <1>1, <1>15 DEF Device!vars
<1> QED  BY <1>2, <1>3, <1>4, <1>5, <1>6, <1>7, <1>8, <1>9, <1>10, <1>11, <1>13, <1>14,
     <1>15 DEF Device!Next

\* Pushes are numbered.
LEMMA GenOfPush ==
    ASSUME NEW q \in Seq(Push), NEW i \in 1 .. Len(q)
    PROVE  q[i] \in Push /\ q[i].gen \in Nat
<1>1. q[i] \in Push  OBVIOUS
<1> QED  BY <1>1 DEF Push

\* The numbering.  An action that muplard numbers goes to the end of the stream.
LEMMA AcceptedFacts ==
    ASSUME DeviceTypes, NEW action, Device!Numbered(action, serverGen + 1) \in Push, Device!Accepted(action)
    PROVE  /\ serverGen' = serverGen + 1 /\ pipe' \in Seq(Push)
           /\ \/ pipe' = pipe
              \/ /\ Len(pipe') = Len(pipe) + 1 /\ pipe'[Len(pipe) + 1].gen = serverGen + 1
                 /\ \A i \in 1 .. Len(pipe) : pipe'[i] = pipe[i]
<1>1. PICK a : a = Device!Numbered(action, serverGen + 1)  OBVIOUS
<1>2. a \in Push /\ a.gen = serverGen + 1 /\ pipe \in Seq(Push) /\ serverGen' = serverGen + 1
  BY <1>1 DEF Device!Numbered, DeviceTypes, Device!Accepted
<1>3. CASE pipe' = pipe  BY <1>2, <1>3
<1>4. CASE pipe' = Append(pipe, a)  BY <1>2, <1>4
<1> QED  BY <1>1, <1>3, <1>4 DEF Device!Accepted

\* What the actions leave alone.
LEMMA PushOfAction ==
    ASSUME NEW action \in Device!Actions, NEW n \in Nat
    PROVE  Device!Numbered(action, n) \in Push
BY DEF Device!Actions, Device!Numbered, Push, Device!Tabs

\* The focus action of a launch.
LEMMA PushOfLaunch ==
    ASSUME NEW n \in Nat
    PROVE  /\ Device!Numbered([kind |-> "focus", tab |-> "app"], n) \in Push
           /\ Device!Numbered([kind |-> "focus", tab |-> "app"], n).kind = "focus"
           /\ Device!Numbered([kind |-> "focus", tab |-> "app"], n).gen = n
BY DEF Device!Numbered, Push, Device!Tabs

\* Numbers that muplard gives out keep the stream in order.
LEMMA AcceptedKeeps ==
    ASSUME DeviceTypes, StreamInv, serverGen' = serverGen + 1, pipe' \in Seq(Push),
           \/ pipe' = pipe
           \/ /\ Len(pipe') = Len(pipe) + 1 /\ pipe'[Len(pipe) + 1].gen = serverGen + 1
              /\ \A i \in 1 .. Len(pipe) : pipe'[i] = pipe[i],
           localGen' = localGen, skewed' = skewed, ~skewed => launching' = 0
    PROVE  StreamInv'
<1> SUFFICES ASSUME ~skewed PROVE StreamInv'  BY DEF StreamInv
<1>1. /\ localGen <= serverGen /\ launching = 0
      /\ \A i \in 1 .. Len(pipe) : localGen < pipe[i].gen /\ pipe[i].gen <= serverGen
      /\ \A i, j \in 1 .. Len(pipe) : i < j => pipe[i].gen < pipe[j].gen
  BY DEF StreamInv
<1>2. serverGen \in Nat /\ localGen \in Nat /\ pipe \in Seq(Push) /\ Len(pipe) \in Nat
  BY DEF DeviceTypes
<1>3. \A i \in 1 .. Len(pipe) : pipe[i].gen \in Nat  BY <1>2, GenOfPush
<1>4. CASE pipe' = pipe  BY <1>1, <1>2, <1>3, <1>4 DEF StreamInv
<1>5. CASE /\ Len(pipe') = Len(pipe) + 1 /\ pipe'[Len(pipe) + 1].gen = serverGen + 1
           /\ \A i \in 1 .. Len(pipe) : pipe'[i] = pipe[i]
 <2>1. \A i \in 1 .. Len(pipe') : i \in 1 .. Len(pipe) \/ i = Len(pipe) + 1  BY <1>2, <1>5
 <2>2. \A i \in 1 .. Len(pipe') : localGen' < pipe'[i].gen /\ pipe'[i].gen <= serverGen'
  <3> SUFFICES ASSUME NEW i \in 1 .. Len(pipe')
               PROVE  localGen' < pipe'[i].gen /\ pipe'[i].gen <= serverGen'
    OBVIOUS
  <3>1. CASE i \in 1 .. Len(pipe)
   <4>1. localGen < pipe[i].gen /\ pipe[i].gen <= serverGen /\ pipe[i].gen \in Nat /\ pipe'[i] = pipe[i]
     BY <1>1, <1>3, <1>5, <3>1
   <4> QED  BY <1>2, <4>1
  <3>2. CASE i = Len(pipe) + 1  BY <1>1, <1>2, <1>5, <3>2
  <3> QED  BY <2>1, <3>1, <3>2
 <2>3. \A i, j \in 1 .. Len(pipe') : i < j => pipe'[i].gen < pipe'[j].gen
   BY <1>1, <1>2, <1>3, <1>5, <2>1
 <2> QED  BY <1>1, <1>2, <2>2, <2>3 DEF StreamInv
<1> QED  BY <1>4, <1>5

\* The reader takes the front of the stream.
LEMMA ReaderKeeps ==
    ASSUME DeviceTypes, StreamInv, Device!ReaderTakes
    PROVE  StreamInv'
<1> SUFFICES ASSUME ~skewed PROVE StreamInv'  BY DEF StreamInv, Device!ReaderTakes
<1>1. /\ localGen <= serverGen /\ launching = 0
      /\ \A i \in 1 .. Len(pipe) : localGen < pipe[i].gen /\ pipe[i].gen <= serverGen
      /\ \A i, j \in 1 .. Len(pipe) : i < j => pipe[i].gen < pipe[j].gen
  BY DEF StreamInv
<1>2. pipe \in Seq(Push) /\ pipe # <<>> /\ localGen \in Nat /\ serverGen \in Nat
  BY DEF DeviceTypes, Device!ReaderTakes
<1>3. /\ Len(pipe) \in Nat /\ Len(pipe) >= 1
      /\ Len(Tail(pipe)) = Len(pipe) - 1 /\ pipe[1] = Head(pipe)
      /\ \A i \in 1 .. Len(Tail(pipe)) : Tail(pipe)[i] = pipe[i + 1]
  BY <1>2, Taken
<1>4. \A i \in 1 .. Len(pipe) : pipe[i].gen \in Nat  BY <1>2, GenOfPush
<1>5. pipe' = Tail(pipe) /\ UNCHANGED <<serverGen, skewed, launching>>
  BY DEF Device!ReaderTakes, Device!server, Device!launch
<1>6. localGen < pipe[1].gen /\ pipe[1].gen <= serverGen /\ pipe[1].gen \in Nat
  BY <1>1, <1>3, <1>4
<1>7. localGen' = pipe[1].gen  BY <1>2, <1>3, <1>6 DEF Device!ReaderTakes
<1>8. /\ Len(pipe') = Len(pipe) - 1
      /\ \A i \in 1 .. Len(pipe') : pipe'[i] = pipe[i + 1] /\ i + 1 \in 1 .. Len(pipe)
  BY <1>3, <1>5
<1>9. \A i \in 1 .. Len(pipe') : localGen' < pipe'[i].gen /\ pipe'[i].gen <= serverGen
 <2> SUFFICES ASSUME NEW i \in 1 .. Len(pipe')
              PROVE  localGen' < pipe'[i].gen /\ pipe'[i].gen <= serverGen
   OBVIOUS
 <2>1. pipe'[i] = pipe[i + 1] /\ i + 1 \in 1 .. Len(pipe) /\ 1 \in 1 .. Len(pipe) /\ 1 < i + 1
   BY <1>3, <1>8
 <2> QED  BY <1>1, <1>7, <2>1
<1>10. ASSUME NEW i \in 1 .. Len(pipe'), NEW j \in 1 .. Len(pipe'), i < j
       PROVE  pipe'[i].gen < pipe'[j].gen
 <2>1. i + 1 < j + 1  BY <1>10, <1>3, <1>8
 <2> QED  BY <1>1, <1>8, <2>1
<1> QED  BY <1>1, <1>5, <1>6, <1>7, <1>9, <1>10 DEF StreamInv

\* Every step keeps the order of the stream.
LEMMA StreamStep == ASSUME DeviceTypes, StreamInv, [Device!Next]_(Device!vars) PROVE StreamInv'
<1>1. ASSUME NEW action \in Device!Actions, Device!DeviceAction(action) PROVE StreamInv'
 <2>1. Device!Numbered(action, serverGen + 1) \in Push  BY PushOfAction DEF DeviceTypes
 <2>2. Device!Accepted(action) /\ UNCHANGED <<localGen, skewed, launching>>
   BY <1>1 DEF Device!DeviceAction, Device!counters
 <2>3. ~skewed => launching' = 0  BY <2>2 DEF StreamInv
 <2> QED  BY <2>1, <2>2, <2>3, AcceptedFacts, AcceptedKeeps
<1>2. ASSUME NEW delivered \in BOOLEAN, Device!LaunchDispatch(delivered) PROVE StreamInv'
 <2>1. skewed /\ skewed' = skewed  BY <1>2 DEF Device!LaunchDispatch, StreamInv, Device!counters
 <2> QED  BY <2>1 DEF StreamInv
<1>3. CASE Device!Restart
 <2>1. /\ serverGen' = 0 /\ skewed' = (skewed \/ serverGen > 0)
       /\ UNCHANGED <<pipe, localGen, launching>>
   BY <1>3 DEF Device!Restart, Device!stream, Device!launch
 <2>2. CASE skewed \/ serverGen > 0  BY <2>1, <2>2 DEF StreamInv
 <2>3. CASE ~(skewed \/ serverGen > 0)
  <3>1. serverGen = 0  BY <2>3 DEF DeviceTypes
  <3> QED  BY <2>1, <2>3, <3>1 DEF StreamInv
 <2> QED  BY <2>2, <2>3
<1>4. CASE Device!InitSubscriber
 <2>1. UNCHANGED <<serverGen, localGen, skewed, launching>> /\ (pipe' = pipe \/ pipe' = <<>>)
   BY <1>4 DEF Device!InitSubscriber, Device!server, Device!counters, Device!launch, Device!stream
 <2>2. CASE pipe' = pipe  BY <2>1, <2>2 DEF StreamInv
 <2>3. CASE pipe' = <<>>
  <3>1. Len(pipe') = 0  BY <2>3
  <3> QED  BY <2>1, <3>1 DEF StreamInv
 <2> QED  BY <2>1, <2>2, <2>3
<1>5. CASE Device!ReaderTakes  BY <1>5, ReaderKeeps
<1>6. CASE Device!LaunchApp  BY <1>6 DEF Device!LaunchApp, StreamInv
<1>7. CASE UNCHANGED <<serverGen, localGen, skewed, launching, pipe>>  BY <1>7 DEF StreamInv
<1>8. Device!Crash \/ Device!TryFails \/ Device!ConnectorReturns \/ Device!ReaderPosts \/ Device!ReaderEnds \/ Device!ReaderReconnects
      \/ (\E fully \in BOOLEAN : Device!RunAction(fully) \/ Device!ApplyFlushed(fully)) \/ Device!RunFlush
      \/ (\E tab \in Device!Tabs : Device!RegisterActivity(tab))
      \/ (\E tab \in Device!Tabs, launched \in BOOLEAN : Device!StartActivity(tab, launched)) \/ UNCHANGED Device!vars
      => UNCHANGED <<serverGen, localGen, skewed, launching, pipe>>
  BY DEF Device!Crash, Device!TryFails, Device!ConnectorReturns, Device!ReaderPosts,
     Device!ReaderEnds, Device!ReaderReconnects, Device!RunAction, Device!RunFlush,
     Device!ApplyFlushed, Device!Apply, Device!RegisterActivity, Device!StartActivity,
     Device!vars, Device!server, Device!counters, Device!launch, Device!stream
<1> QED  BY <1>1, <1>2, <1>3, <1>4, <1>5, <1>6, <1>7, <1>8 DEF Device!Next

\* The tab in front is one that is there, and the focus-tab applied last keeps
\* it there until the guest changes it.
LEMMA FrontRegistered ==
    ASSUME DeviceTypes, FrontInv, NEW tab \in Device!Tabs, Device!Registered(tab)
    PROVE  FrontInv'
<1>1. PICK f \in Shown : f = focused  BY DEF DeviceTypes
<1>2. /\ activeTab' = tab /\ tabs' = tabs \cup {tab}
      /\ focused' = [f EXCEPT !.kept = @ /\ f.tab = tab]
  BY <1>1 DEF Device!Registered
<1>3. focused'.kept = (f.kept /\ f.tab = tab) /\ focused'.tab = f.tab  BY <1>2 DEF Shown
<1> QED  BY <1>2, <1>3 DEF FrontInv, Device!FrontIsThere

\* An action that is applied.
LEMMA FrontApplied ==
    ASSUME DeviceTypes, FrontInv, NEW next \in Push, NEW fully \in BOOLEAN, Device!Apply(next, fully)
    PROVE  FrontInv'
<1>1. PICK f \in Shown : f = focused  BY DEF DeviceTypes
<1>2. activeTab' = Device!TabAfter(next, fully)  BY DEF Device!Apply
<1>3. CASE Device!Focuses(next)
 <2>1. PICK t \in Device!Tabs : t = next.tab  BY DEF Push
 <2>2. ~Device!Ends(next, fully)  BY <1>3 DEF Device!Ends, Device!Focuses
 <2>3. focused'.kept = (t \in tabs \/ Device!LaunchesApp(next, fully)) /\ focused'.tab = t
   BY <1>3, <2>1 DEF Device!Apply
 <2>4. tabs' = IF Device!LaunchesApp(next, fully) THEN tabs \cup {"app"} ELSE tabs
   BY <2>2 DEF Device!Apply
 <2>5. activeTab' = IF t \in tabs \/ Device!LaunchesApp(next, fully) THEN t ELSE activeTab
   BY <1>2, <1>3, <2>1, <2>2 DEF Device!TabAfter
 <2>6. Device!LaunchesApp(next, fully) => t = "app"  BY <2>1 DEF Device!LaunchesApp
 <2> QED  BY <2>3, <2>4, <2>5, <2>6 DEF FrontInv, Device!FrontIsThere, Device!Tabs
<1>4. CASE ~Device!Focuses(next) /\ ~Device!Ends(next, fully)
 <2>1. ~Device!LaunchesApp(next, fully)  BY <1>4 DEF Device!LaunchesApp
 <2>2. activeTab' = activeTab /\ tabs' = tabs
   BY <1>2, <1>4, <2>1 DEF Device!TabAfter, Device!Apply
 <2>3. focused' = [f EXCEPT !.kept = @ /\ ~(f.tab = "app" /\ Device!Ends(next, fully))]
   BY <1>1, <1>4 DEF Device!Apply
 <2>4. (focused'.kept => f.kept) /\ focused'.tab = f.tab  BY <2>3 DEF Shown
 <2> QED  BY <1>1, <2>2, <2>4 DEF FrontInv, Device!FrontIsThere
<1>5. CASE ~Device!Focuses(next) /\ Device!Ends(next, fully)
 <2>1. ~Device!LaunchesApp(next, fully) /\ "app" \in tabs  BY <1>5 DEF Device!LaunchesApp, Device!Ends
 <2>2. activeTab' = (IF "launcher" \in tabs THEN "launcher" ELSE "") /\ tabs' = tabs \ {"app"}
   BY <1>2, <1>5, <2>1 DEF Device!TabAfter, Device!Apply
 <2>3. focused' = [f EXCEPT !.kept = @ /\ ~(f.tab = "app" /\ Device!Ends(next, fully))]
   BY <1>1, <1>5 DEF Device!Apply
 <2>4. (focused'.kept => f.kept /\ f.tab # "app") /\ focused'.tab = f.tab /\ f.tab \in Device!Tabs
   BY <1>5, <2>3 DEF Shown
 <2>5. f.kept => activeTab = f.tab  BY <1>1 DEF FrontInv
 <2>6. activeTab \in tabs /\ tabs \subseteq Device!Tabs
   BY <2>1 DEF FrontInv, Device!FrontIsThere
 <2> QED  BY <2>1, <2>2, <2>4, <2>5, <2>6 DEF FrontInv, Device!FrontIsThere, Device!Tabs
<1> QED  BY <1>3, <1>4, <1>5

\* The front of a queue of pushes is a push.
LEMMA HeadOfPushes == ASSUME NEW q \in Seq(Push), q # <<>> PROVE Head(q) \in Push
BY Taken

\* Of the looper's queue, the front is a push when it is no flush.
LEMMA HeadOfLooper ==
    ASSUME NEW q \in Seq(Runnable), q # <<>>, Head(q) # Device!Flush
    PROVE  Head(q) \in Push
<1>1. Head(q) \in Runnable  BY Taken
<1> QED  BY <1>1 DEF Runnable

\* Every step leaves a tab in front that is there.
LEMMA FrontStep == ASSUME DeviceTypes, FrontInv, [Device!Next]_(Device!vars) PROVE FrontInv'
<1>1. CASE UNCHANGED Device!screen  BY <1>1 DEF FrontInv, Device!FrontIsThere, Device!screen
<1>2. ASSUME NEW tab \in Device!Tabs, Device!RegisterActivity(tab) PROVE FrontInv'
  BY <1>2, FrontRegistered DEF Device!RegisterActivity
<1>3. ASSUME NEW tab \in Device!Tabs, NEW launched \in BOOLEAN, Device!StartActivity(tab, launched) PROVE FrontInv'
 <2>1. CASE launched  BY <1>3, <2>1, FrontRegistered DEF Device!StartActivity
 <2>2. CASE ~launched
  <3>1. PICK f \in Shown : f = focused  BY DEF DeviceTypes
  <3>2. /\ activeTab' = tab /\ tabs' = tabs /\ tab \in tabs
        /\ focused' = [f EXCEPT !.kept = @ /\ f.tab = tab]
    BY <1>3, <2>2, <3>1 DEF Device!StartActivity
  <3>3. focused'.kept = (f.kept /\ f.tab = tab) /\ focused'.tab = f.tab  BY <3>2 DEF Shown
  <3> QED  BY <3>2, <3>3 DEF FrontInv, Device!FrontIsThere
 <2> QED  BY <2>1, <2>2
<1>4. ASSUME NEW fully \in BOOLEAN, Device!RunAction(fully) PROVE FrontInv'
 <2>1. Head(mainq) \in Push  BY <1>4, HeadOfLooper DEF Device!RunAction, DeviceTypes
 <2>2. CASE Device!IsReadyFor(Head(mainq))
  <3>1. Device!Apply(Head(mainq), fully)  BY <1>4, <2>2 DEF Device!RunAction
  <3> QED  BY <2>1, <3>1, FrontApplied
 <2>3. CASE ~Device!IsReadyFor(Head(mainq))  BY <1>1, <1>4, <2>3 DEF Device!RunAction
 <2> QED  BY <2>2, <2>3
<1>5. ASSUME NEW fully \in BOOLEAN, Device!ApplyFlushed(fully) PROVE FrontInv'
 <2>1. Head(flushing) \in Push  BY <1>5, HeadOfPushes DEF Device!ApplyFlushed, DeviceTypes
 <2> QED  BY <1>5, <2>1, FrontApplied DEF Device!ApplyFlushed
<1>6. ASSUME NEW action \in Device!Actions, Device!DeviceAction(action) PROVE FrontInv'
  BY <1>1, <1>6 DEF Device!DeviceAction, Device!looper
<1>7. ASSUME NEW delivered \in BOOLEAN, Device!LaunchDispatch(delivered) PROVE FrontInv'
  BY <1>1, <1>7 DEF Device!LaunchDispatch
<1>8. Device!Crash \/ Device!Restart \/ Device!InitSubscriber \/ Device!TryFails \/ Device!ConnectorReturns \/ Device!ReaderTakes \/ Device!ReaderPosts
      \/ Device!ReaderEnds \/ Device!ReaderReconnects \/ Device!LaunchApp \/ Device!RunFlush \/ UNCHANGED Device!vars => UNCHANGED Device!screen
  BY DEF Device!Crash, Device!Restart, Device!InitSubscriber, Device!TryFails,
     Device!ConnectorReturns, Device!ReaderTakes, Device!ReaderPosts, Device!ReaderEnds,
     Device!ReaderReconnects, Device!LaunchApp, Device!RunFlush, Device!vars, Device!looper,
     Device!screen
<1> QED  BY <1>1, <1>2, <1>3, <1>4, <1>5, <1>6, <1>7, <1>8 DEF Device!Next

\* Runnables that are a focus are numbered.
LEMMA GenOfRunnable ==
    ASSUME NEW q \in Seq(Runnable), NEW i \in 1 .. Len(q), q[i].kind = "focus"
    PROVE  q[i].gen \in Nat
<1>1. q[i] \in Runnable  OBVIOUS
<1> QED  BY <1>1 DEF Runnable, Push, Device!Flush

\* A number that is not smaller is an upper bound too.
LEMMA Raised ==
    ASSUME NEW q \in Seq(Runnable), NEW g \in Nat, NEW h \in Nat, g <= h, UpTo(q, g)
    PROVE  UpTo(q, h)
<1> SUFFICES ASSUME NEW i \in 1 .. Len(q), q[i].kind = "focus" PROVE q[i].gen <= h  BY DEF UpTo
<1>1. q[i].gen \in Nat /\ q[i].gen <= g  BY GenOfRunnable DEF UpTo
<1> QED  BY <1>1

\* Appending to a queue keeps what it holds and adds the new one.
LEMMA QueuePosted ==
    ASSUME NEW q \in Seq(Runnable), NEW r \in Runnable, NEW g \in Nat, NEW s, s = Append(q, r),
           UpTo(q, g), r.kind = "focus" => r.gen <= g
    PROVE  /\ s \in Seq(Runnable) /\ UpTo(s, g)
           /\ HasGen(q, g) \/ (r.kind = "focus" /\ r.gen = g) => HasGen(s, g)
<1>1. /\ s \in Seq(Runnable) /\ Len(s) = Len(q) + 1 /\ s[Len(q) + 1] = r /\ Len(q) \in Nat
      /\ \A i \in 1 .. Len(q) : s[i] = q[i]
  BY Posted
<1>2. \A i \in 1 .. Len(s) : i \in 1 .. Len(q) \/ i = Len(q) + 1  BY <1>1
<1>3. Len(q) + 1 \in 1 .. Len(s) /\ \A i \in 1 .. Len(q) : i \in 1 .. Len(s)  BY <1>1
<1>4. UpTo(s, g)  BY <1>1, <1>2 DEF UpTo
<1>5. HasGen(q, g) => HasGen(s, g)  BY <1>1, <1>3 DEF HasGen
<1>6. r.kind = "focus" /\ r.gen = g => HasGen(s, g)  BY <1>1, <1>3 DEF HasGen
<1> QED  BY <1>1, <1>4, <1>5, <1>6

\* A flush that is posted is no focus.
LEMMA FlushPosted ==
    ASSUME NEW q \in Seq(Runnable), NEW g \in Nat, NEW s, s = Append(q, Device!Flush), UpTo(q, g)
    PROVE  s \in Seq(Runnable) /\ UpTo(s, g) /\ (HasGen(q, g) => HasGen(s, g))
<1>1. PICK r \in Runnable : r = Device!Flush /\ r.kind # "focus"  BY DEF Runnable, Device!Flush
<1> QED  BY <1>1, QueuePosted

\* Taking the front of a queue takes away that one only.
LEMMA QueueTaken ==
    ASSUME NEW q \in Seq(Runnable), q # <<>>, NEW g \in Nat, UpTo(q, g),
           NEW s, s = Tail(q), NEW h, h = Head(q)
    PROVE  /\ s \in Seq(Runnable) /\ h \in Runnable /\ UpTo(s, g)
           /\ h.kind = "focus" => h.gen <= g
           /\ HasGen(q, g) => (h.kind = "focus" /\ h.gen = g) \/ HasGen(s, g)
<1>1. /\ h \in Runnable /\ s \in Seq(Runnable) /\ Len(q) \in Nat /\ Len(q) >= 1
      /\ Len(s) = Len(q) - 1 /\ q[1] = h
      /\ \A i \in 1 .. Len(s) : s[i] = q[i + 1]
  BY Taken
<1>2. \A i \in 1 .. Len(s) : i + 1 \in 1 .. Len(q)  BY <1>1
<1>3. \A i \in 1 .. Len(q) : i = 1 \/ (i - 1 \in 1 .. Len(s) /\ s[i - 1] = q[i])  BY <1>1
<1>4. 1 \in 1 .. Len(q)  BY <1>1
<1>5. UpTo(s, g)  BY <1>1, <1>2 DEF UpTo
<1>6. h.kind = "focus" => h.gen <= g  BY <1>1, <1>4 DEF UpTo
<1>7. HasGen(q, g) => (h.kind = "focus" /\ h.gen = g) \/ HasGen(s, g)  BY <1>1, <1>3 DEF HasGen
<1> QED  BY <1>1, <1>5, <1>6, <1>7

\* A queue of pushes is a queue of runnables.
LEMMA PushesRun == ASSUME NEW q \in Seq(Push) PROVE q \in Seq(Runnable)
BY DEF Runnable

\* The queues, and the numbers, as a step finds them.
Queues == mainq \in Seq(Runnable) /\ pendingActions \in Seq(Runnable)
          /\ flushing \in Seq(Runnable) /\ taken \in Seq(Runnable)
LEMMA Given ==
    ASSUME DeviceTypes, FocusInv
    PROVE  /\ Queues /\ NoneNewer /\ focusGen \in Nat /\ localGen \in Nat /\ launching \in Nat
           /\ focusGen <= localGen /\ launching <= focusGen
           /\ focused.gen = focusGen \/ OnItsWay
BY PushesRun DEF DeviceTypes, FocusInv, Queues

\* A step that leaves the newest focus, the queues and the launch alone.
LEMMA FocusSame ==
    ASSUME FocusInv, localGen' = localGen, focused'.gen = focused.gen,
           UNCHANGED <<focusGen, launching, mainq, pendingActions, flushing, taken>>
    PROVE  FocusInv'
BY DEF FocusInv, NoneNewer, OnItsWay

\* The reader numbers what is new.
LEMMA TakeKeeps ==
    ASSUME DeviceTypes, FocusInv, Device!ReaderTakes
    PROVE  DeviceTypes' /\ FocusInv'
<1>1. PICK next : next = Head(pipe)  OBVIOUS
<1>2. next \in Push /\ Tail(pipe) \in Seq(Push)
  BY <1>1, Taken DEF DeviceTypes, Device!ReaderTakes
<1>3. next \in Runnable /\ next.gen \in Nat  BY <1>2 DEF Runnable, Push
<1>4. /\ pipe' = Tail(pipe)
      /\ UNCHANGED <<serverGen, launching, mainq, pendingActions, flushing, focused>>
  BY DEF Device!ReaderTakes, Device!server, Device!launch, Device!looper, Device!screen
<1>5. CASE next.gen <= localGen
 <2>1. UNCHANGED <<localGen, focusGen, taken>>  BY <1>1, <1>5 DEF Device!ReaderTakes
 <2> QED  BY <1>2, <1>4, <2>1, FocusSame DEF DeviceTypes
<1>6. CASE ~(next.gen <= localGen)
 <2>1. /\ localGen' = next.gen /\ taken = <<>>
       /\ focusGen' = IF next.kind = "focus" THEN next.gen ELSE focusGen
       /\ taken' = <<next>>
   BY <1>1, <1>6 DEF Device!ReaderTakes
 <2>2. PICK s, g, h : s = taken' /\ g = focusGen /\ h = focusGen'  OBVIOUS
 <2>3. /\ Queues /\ NoneNewer /\ g \in Nat /\ localGen \in Nat /\ g <= localGen
       /\ launching \in Nat /\ launching <= g /\ (focused.gen = focusGen \/ OnItsWay)
   BY <2>2, Given
 <2>4. h \in Nat /\ g <= h /\ h <= next.gen /\ (next.kind = "focus" => h = next.gen)
       /\ (next.kind # "focus" => h = g)
   BY <1>3, <1>6, <2>1, <2>2, <2>3
 <2>5. UpTo(mainq, h) /\ UpTo(pendingActions, h) /\ UpTo(flushing, h)
   BY <2>2, <2>3, <2>4, Raised DEF NoneNewer, Queues
 <2>6. s \in Seq(Push) /\ Len(s) = 1 /\ s[1] = next  BY <1>2, <2>1, <2>2
 <2>7. UpTo(s, h) /\ (next.kind = "focus" => HasGen(s, h))  BY <2>4, <2>6 DEF UpTo, HasGen
 <2>8. ~HasGen(taken, g)
  <3>1. Len(taken) = 0  BY <2>1
  <3> QED  BY <3>1 DEF HasGen
 <2>9. focused'.gen = h \/ OnItsWay'
  <3>1. CASE next.kind = "focus"  BY <2>2, <2>7, <3>1 DEF OnItsWay
  <3>2. CASE next.kind # "focus"  BY <1>4, <2>2, <2>3, <2>4, <2>8, <3>2 DEF OnItsWay
  <3> QED  BY <3>1, <3>2
 <2>10. NoneNewer'  BY <1>4, <2>2, <2>5, <2>7 DEF NoneNewer
 <2>11. focusGen' <= localGen' /\ launching' <= focusGen'  BY <1>3, <1>4, <2>1, <2>2, <2>3, <2>4
 <2>12. DeviceTypes'  BY <1>2, <1>3, <1>4, <2>1, <2>2, <2>4, <2>6 DEF DeviceTypes
 <2> QED  BY <2>2, <2>6, <2>9, <2>10, <2>11, <2>12 DEF FocusInv
<1> QED  BY <1>5, <1>6

\* The reader posts what it has numbered.
LEMMA PostKeeps ==
    ASSUME DeviceTypes, FocusInv, Device!ReaderPosts
    PROVE  DeviceTypes' /\ FocusInv'
<1>1. PICK g, r, s : g = focusGen /\ r = Head(taken) /\ s = mainq'  OBVIOUS
<1>2. /\ Queues /\ NoneNewer /\ g \in Nat /\ (focused.gen = focusGen \/ OnItsWay)  BY <1>1, Given
<1>3. /\ taken # <<>> /\ taken' = <<>> /\ s = Append(mainq, r)
      /\ UNCHANGED <<serverGen, pipe, localGen, focusGen, launching, pendingActions, flushing, focused>>
  BY <1>1 DEF Device!ReaderPosts, Device!Post, Device!server, Device!stream, Device!counters,
     Device!launch, Device!screen
<1>4. r \in Runnable /\ (r.kind = "focus" => r.gen <= g)
  BY <1>1, <1>2, <1>3, QueueTaken DEF Queues, NoneNewer
<1>5. /\ s \in Seq(Runnable) /\ UpTo(s, g)
      /\ HasGen(mainq, g) \/ (r.kind = "focus" /\ r.gen = g) => HasGen(s, g)
  BY <1>1, <1>2, <1>3, <1>4, QueuePosted DEF Queues, NoneNewer
<1>6. HasGen(taken, g) => r.kind = "focus" /\ r.gen = g
 <2>1. HasGen(taken, g) => (r.kind = "focus" /\ r.gen = g) \/ HasGen(Tail(taken), g)
   BY <1>1, <1>2, <1>3, QueueTaken DEF Queues, NoneNewer
 <2>2. Len(taken) <= 1  BY DEF FocusInv
 <2>3. /\ Len(taken) \in Nat /\ Len(taken) >= 1 /\ Len(Tail(taken)) = Len(taken) - 1
   BY <1>2, <1>3, Taken DEF Queues
 <2>4. PICK n : n = Len(taken)  OBVIOUS
 <2>5. n \in Nat /\ n >= 1 /\ n <= 1 /\ Len(Tail(taken)) = n - 1  BY <2>4, <2>2, <2>3
 <2>6. n = 1  BY <2>5
 <2>7. Len(Tail(taken)) = 1 - 1  BY <2>5, <2>6
 <2>8. 1 - 1 = 0  OBVIOUS
 <2> QED  BY <2>1, <2>7, <2>8 DEF HasGen
<1>7. <<>> \in Seq(Push) /\ Len(<<>>) = 0  OBVIOUS
<1>8. NoneNewer'  BY <1>1, <1>2, <1>3, <1>5, <1>7 DEF NoneNewer, UpTo
<1>9. focused'.gen = focusGen' \/ OnItsWay'  BY <1>1, <1>2, <1>3, <1>5, <1>6 DEF OnItsWay
<1>10. DeviceTypes'  BY <1>1, <1>3, <1>5, <1>7 DEF DeviceTypes
<1> QED  BY <1>3, <1>7, <1>8, <1>9, <1>10 DEF FocusInv

\* launchApp() takes a number above all others.
LEMMA LaunchAppKeeps == ASSUME DeviceTypes, FocusInv, Device!LaunchApp PROVE DeviceTypes' /\ FocusInv'
<1>1. /\ localGen' = localGen + 1 /\ focusGen' = localGen + 1 /\ launching' = localGen + 1
      /\ UNCHANGED <<serverGen, pipe, mainq, pendingActions, flushing, taken, focused>>
  BY DEF Device!LaunchApp, Device!server, Device!stream, Device!looper, Device!screen
<1>2. PICK g, h : g = focusGen /\ h = localGen + 1  OBVIOUS
<1>3. Queues /\ NoneNewer /\ localGen \in Nat /\ g \in Nat /\ h \in Nat /\ g <= h /\ h # 0
  BY <1>2, Given
<1>4. UpTo(mainq, h) /\ UpTo(pendingActions, h) /\ UpTo(flushing, h) /\ UpTo(taken, h)
  BY <1>2, <1>3, Raised DEF NoneNewer, Queues
<1>5. NoneNewer' /\ OnItsWay'  BY <1>1, <1>2, <1>3, <1>4 DEF NoneNewer, OnItsWay
<1>6. DeviceTypes'  BY <1>1, <1>2, <1>3 DEF DeviceTypes
<1>7. focusGen' <= localGen' /\ launching' <= focusGen'  BY <1>1, <1>2, <1>3
<1> QED  BY <1>1, <1>5, <1>6, <1>7 DEF FocusInv

\* The launch posts the action it numbered.
LEMMA DispatchKeeps ==
    ASSUME DeviceTypes, FocusInv, NEW delivered \in BOOLEAN, Device!LaunchDispatch(delivered)
    PROVE  DeviceTypes' /\ FocusInv'
<1>1. PICK g, r, s : /\ g = focusGen /\ s = mainq'
                     /\ r = Device!Numbered([kind |-> "focus", tab |-> "app"], launching)
  OBVIOUS
<1>2. /\ Queues /\ NoneNewer /\ g \in Nat /\ launching \in Nat /\ launching <= g
      /\ focused.gen = focusGen \/ OnItsWay
  BY <1>1, Given
<1>3. r \in Runnable /\ r.kind = "focus" /\ r.gen = launching
  BY <1>1, <1>2, PushOfLaunch DEF Runnable
<1>4. /\ s = Append(mainq, r) /\ launching' = 0
      /\ UNCHANGED <<localGen, focusGen, pendingActions, flushing, taken, focused>>
  BY <1>1 DEF Device!LaunchDispatch, Device!Post, Device!counters, Device!screen
<1>5. serverGen' \in Nat /\ pipe' \in Seq(Push)
 <2>1. CASE delivered
  <3>1. serverGen \in Nat  BY DEF DeviceTypes
  <3>2. Device!Numbered([kind |-> "focus", tab |-> "app"], serverGen + 1) \in Push
    BY <3>1, PushOfLaunch
  <3>3. Device!Accepted([kind |-> "focus", tab |-> "app"])  BY <2>1 DEF Device!LaunchDispatch
  <3> QED  BY <3>1, <3>2, <3>3, AcceptedFacts
 <2>2. CASE ~delivered  BY <2>2 DEF Device!LaunchDispatch, DeviceTypes
 <2> QED  BY <2>1, <2>2
<1>6. s \in Seq(Runnable) /\ UpTo(s, g) /\ (HasGen(mainq, g) \/ r.gen = g => HasGen(s, g))
  BY <1>1, <1>2, <1>3, <1>4, QueuePosted DEF Queues, NoneNewer
<1>7. NoneNewer'  BY <1>1, <1>2, <1>4, <1>6 DEF NoneNewer
<1>8. focused'.gen = focusGen' \/ OnItsWay'  BY <1>1, <1>2, <1>3, <1>4, <1>6 DEF OnItsWay
<1>9. DeviceTypes'  BY <1>1, <1>4, <1>5, <1>6 DEF DeviceTypes
<1>10. focusGen' <= localGen' /\ launching' <= focusGen'  BY <1>1, <1>2, <1>4 DEF FocusInv
<1> QED  BY <1>4, <1>7, <1>8, <1>9, <1>10 DEF FocusInv

\* A step of the looper that posts at most a flush and changes at most the tab
\* in front.
LEMMA PostedOnly ==
    ASSUME DeviceTypes, FocusInv, focused' \in Shown, focused'.gen = focused.gen,
           mainq' \in {mainq, Append(mainq, Device!Flush)},
           UNCHANGED <<serverGen, pipe, localGen, focusGen, launching, pendingActions, flushing, taken>>
    PROVE  DeviceTypes' /\ FocusInv'
<1>1. PICK g, s : g = focusGen /\ s = mainq'  OBVIOUS
<1>2. Queues /\ NoneNewer /\ g \in Nat /\ (focused.gen = focusGen \/ OnItsWay)  BY <1>1, Given
<1>3. s \in Seq(Runnable) /\ UpTo(s, g) /\ (HasGen(mainq, g) => HasGen(s, g))
  BY <1>1, <1>2, FlushPosted DEF Queues, NoneNewer
<1>4. NoneNewer'  BY <1>1, <1>2, <1>3 DEF NoneNewer
<1>5. focused'.gen = focusGen' \/ OnItsWay'  BY <1>1, <1>2, <1>3 DEF OnItsWay
<1>6. DeviceTypes'  BY <1>1, <1>3 DEF DeviceTypes
<1> QED  BY <1>4, <1>5, <1>6 DEF FocusInv

\* An activity that is registered posts a flush.
LEMMA RegisterKeeps ==
    ASSUME DeviceTypes, FocusInv, NEW tab \in Device!Tabs,
           Device!RegisterActivity(tab) \/ \E launched \in BOOLEAN : Device!StartActivity(tab, launched)
    PROVE  DeviceTypes' /\ FocusInv'
<1>1. PICK f \in Shown : f = focused  BY DEF DeviceTypes
<1>2. /\ focused' = [f EXCEPT !.kept = @ /\ f.tab = tab]
      /\ mainq' \in {mainq, Append(mainq, Device!Flush)}
      /\ UNCHANGED <<serverGen, pipe, localGen, focusGen, launching, pendingActions, flushing, taken>>
  BY <1>1 DEF Device!RegisterActivity, Device!StartActivity, Device!Registered, Device!Post,
     Device!server, Device!stream, Device!counters, Device!launch
<1>3. focused' \in Shown /\ focused'.gen = f.gen  BY <1>2 DEF Shown
<1> QED  BY <1>1, <1>2, <1>3, PostedOnly

\* An action that is applied is the newest focus, or leaves it alone.
LEMMA Applied ==
    ASSUME DeviceTypes, NEW next \in Push, NEW fully \in BOOLEAN, Device!Apply(next, fully),
           next.kind = "focus" => next.gen <= focusGen
    PROVE  /\ focused' \in Shown /\ focused'.gen \in {focused.gen, focusGen}
           /\ next.kind = "focus" /\ next.gen = focusGen => focused'.gen = focusGen
           /\ UNCHANGED <<serverGen, pipe, localGen, focusGen, launching, taken>>
<1>1. PICK f \in Shown : f = focused  BY DEF DeviceTypes
<1>2. focusGen \in Nat /\ next.gen \in Nat /\ next.tab \in Device!Tabs  BY DEF DeviceTypes, Push
<1>3. UNCHANGED <<serverGen, pipe, localGen, focusGen, launching, taken>>
  BY DEF Device!Apply, Device!server, Device!stream, Device!counters, Device!launch
<1>4. CASE Device!Focuses(next)
 <2>1. PICK k \in BOOLEAN : k = (next.tab \in tabs \/ Device!LaunchesApp(next, fully))  OBVIOUS
 <2>2. focused' = [gen |-> next.gen, tab |-> next.tab, kept |-> k]
   BY <1>4, <2>1 DEF Device!Apply
 <2>3. next.gen = focusGen  BY <1>2, <1>4 DEF Device!Focuses, Device!IsStale
 <2>4. focused' \in Shown /\ focused'.gen = next.gen  BY <1>2, <2>2 DEF Shown
 <2> QED  BY <1>3, <2>3, <2>4
<1>5. CASE ~Device!Focuses(next)
 <2>1. focused' = [f EXCEPT !.kept = @ /\ ~(f.tab = "app" /\ Device!Ends(next, fully))]
   BY <1>1, <1>5 DEF Device!Apply
 <2>2. focused' \in Shown /\ focused'.gen = f.gen  BY <2>1 DEF Shown
 <2>3. ~(next.kind = "focus" /\ next.gen = focusGen)
   BY <1>2, <1>5 DEF Device!Focuses, Device!IsStale
 <2> QED  BY <1>1, <1>3, <2>2, <2>3
<1> QED  BY <1>4, <1>5

\* A posted action is applied, and then a flush posted, or it is kept.
LEMMA RunKeeps ==
    ASSUME DeviceTypes, FocusInv, NEW fully \in BOOLEAN, Device!RunAction(fully)
    PROVE  DeviceTypes' /\ FocusInv'
<1>1. PICK g, next, t, s, p : /\ g = focusGen /\ next = Head(mainq) /\ t = Tail(mainq)
                              /\ s = mainq' /\ p = pendingActions'
  OBVIOUS
<1>2. /\ Queues /\ NoneNewer /\ g \in Nat /\ (focused.gen = focusGen \/ OnItsWay)
      /\ focusGen <= localGen /\ launching <= focusGen
  BY <1>1, Given
<1>3. mainq # <<>> /\ next # Device!Flush  BY <1>1 DEF Device!RunAction
<1>4. /\ t \in Seq(Runnable) /\ next \in Runnable /\ UpTo(t, g)
      /\ next.kind = "focus" => next.gen <= g
      /\ HasGen(mainq, g) => (next.kind = "focus" /\ next.gen = g) \/ HasGen(t, g)
  BY <1>1, <1>2, <1>3, QueueTaken DEF Queues, NoneNewer
<1>5. next \in Push  BY <1>3, <1>4 DEF Runnable
<1>6. CASE Device!IsReadyFor(next)
 <2>1. /\ Device!Apply(next, fully) /\ UNCHANGED <<pendingActions, flushing>>
       /\ s = IF Device!LaunchesApp(next, fully) THEN Append(Append(t, Device!Flush), Device!Flush) ELSE Append(t, Device!Flush)
   BY <1>1, <1>6 DEF Device!RunAction
 <2>2. /\ focused' \in Shown /\ focused'.gen \in {focused.gen, g}
       /\ next.kind = "focus" /\ next.gen = g => focused'.gen = g
       /\ UNCHANGED <<serverGen, pipe, localGen, focusGen, launching, taken>>
   BY <1>1, <1>4, <1>5, <2>1, Applied
 <2>3. PICK u : u = Append(t, Device!Flush)  OBVIOUS
 <2>4. u \in Seq(Runnable) /\ UpTo(u, g) /\ (HasGen(t, g) => HasGen(u, g))
   BY <1>2, <1>4, <2>3, FlushPosted
 <2>5. s \in Seq(Runnable) /\ UpTo(s, g) /\ (HasGen(t, g) => HasGen(s, g))
  <3>1. CASE s = u  BY <2>4, <3>1
  <3>2. CASE s = Append(u, Device!Flush)  BY <1>2, <2>4, <3>2, FlushPosted
  <3> QED  BY <2>1, <2>3, <3>1, <3>2
 <2>6. NoneNewer'  BY <1>1, <1>2, <2>1, <2>2, <2>5 DEF NoneNewer
 <2>7. focused'.gen = focusGen' \/ OnItsWay'  BY <1>1, <1>2, <1>4, <2>1, <2>2, <2>5 DEF OnItsWay
 <2>8. DeviceTypes'  BY <1>1, <2>1, <2>2, <2>5 DEF DeviceTypes
 <2> QED  BY <1>2, <2>2, <2>6, <2>7, <2>8 DEF FocusInv
<1>7. CASE ~Device!IsReadyFor(next)
 <2>1. /\ s = t /\ p = Append(pendingActions, next)
       /\ UNCHANGED <<serverGen, pipe, localGen, focusGen, launching, flushing, taken, focused>>
   BY <1>1, <1>7 DEF Device!RunAction, Device!server, Device!stream, Device!counters,
      Device!launch, Device!screen
 <2>2. /\ UpTo(p, g)
       /\ HasGen(pendingActions, g) \/ (next.kind = "focus" /\ next.gen = g) => HasGen(p, g)
   BY <1>1, <1>2, <1>4, <2>1, QueuePosted DEF Queues, NoneNewer
 <2>3. p \in Seq(Push)  BY <1>5, <2>1 DEF DeviceTypes
 <2>4. NoneNewer'  BY <1>1, <1>2, <1>4, <2>1, <2>2 DEF NoneNewer
 <2>5. focused'.gen = focusGen' \/ OnItsWay'  BY <1>1, <1>2, <1>4, <2>1, <2>2 DEF OnItsWay
 <2>6. DeviceTypes'  BY <1>1, <1>4, <2>1, <2>3 DEF DeviceTypes
 <2> QED  BY <1>2, <2>1, <2>4, <2>5, <2>6 DEF FocusInv
<1> QED  BY <1>6, <1>7

\* A flush takes what is pending, once there is an activity.
LEMMA FlushKeeps == ASSUME DeviceTypes, FocusInv, Device!RunFlush PROVE DeviceTypes' /\ FocusInv'
<1>1. PICK g, t : g = focusGen /\ t = Tail(mainq)  OBVIOUS
<1>2. /\ Queues /\ NoneNewer /\ g \in Nat /\ (focused.gen = focusGen \/ OnItsWay)
      /\ focusGen <= localGen /\ launching <= focusGen
  BY <1>1, Given
<1>3. /\ mainq # <<>> /\ Head(mainq).kind # "focus" /\ mainq' = t /\ flushing = <<>>
      /\ UNCHANGED <<serverGen, pipe, localGen, focusGen, launching, taken, focused>>
  BY <1>1 DEF Device!RunFlush, Device!Flush, Device!server, Device!stream, Device!counters,
     Device!launch, Device!screen
<1>4. t \in Seq(Runnable) /\ UpTo(t, g) /\ (HasGen(mainq, g) => HasGen(t, g))
  BY <1>1, <1>2, <1>3, QueueTaken DEF Queues, NoneNewer
<1>5. Len(<<>>) = 0 /\ <<>> \in Seq(Push)  OBVIOUS
<1>6. ~HasGen(<<>>, g) /\ UpTo(<<>>, g)  BY <1>5 DEF HasGen, UpTo
<1>7. \/ flushing' = pendingActions /\ pendingActions' = <<>>
      \/ UNCHANGED <<flushing, pendingActions>>
  BY DEF Device!RunFlush
<1>8. NoneNewer'  BY <1>1, <1>2, <1>3, <1>4, <1>6, <1>7 DEF NoneNewer
<1>9. focused'.gen = focusGen' \/ OnItsWay'  BY <1>1, <1>2, <1>3, <1>4, <1>6, <1>7 DEF OnItsWay
<1>10. DeviceTypes'  BY <1>3, <1>4, <1>5, <1>7 DEF DeviceTypes
<1> QED  BY <1>2, <1>3, <1>8, <1>9, <1>10 DEF FocusInv

\* The flush that runs applies the next one.
LEMMA FlushedKeeps ==
    ASSUME DeviceTypes, FocusInv, NEW fully \in BOOLEAN, Device!ApplyFlushed(fully)
    PROVE  DeviceTypes' /\ FocusInv'
<1>1. PICK g, next, t, s : g = focusGen /\ next = Head(flushing) /\ t = Tail(flushing) /\ s = mainq'
  OBVIOUS
<1>2. /\ Queues /\ NoneNewer /\ g \in Nat /\ (focused.gen = focusGen \/ OnItsWay)
      /\ focusGen <= localGen /\ launching <= focusGen
  BY <1>1, Given
<1>3. /\ flushing # <<>> /\ Device!Apply(next, fully) /\ flushing' = t /\ pendingActions' = pendingActions
      /\ s \in {mainq, Append(mainq, Device!Flush)}
  BY <1>1 DEF Device!ApplyFlushed
<1>4. /\ UpTo(t, g) /\ (next.kind = "focus" => next.gen <= g)
      /\ HasGen(flushing, g) => (next.kind = "focus" /\ next.gen = g) \/ HasGen(t, g)
  BY <1>1, <1>2, <1>3, QueueTaken DEF Queues, NoneNewer
<1>5. next \in Push /\ t \in Seq(Push)  BY <1>1, <1>3, Taken DEF DeviceTypes
<1>6. /\ focused' \in Shown /\ focused'.gen \in {focused.gen, g}
      /\ next.kind = "focus" /\ next.gen = g => focused'.gen = g
      /\ UNCHANGED <<serverGen, pipe, localGen, focusGen, launching, taken>>
  BY <1>1, <1>3, <1>4, <1>5, Applied
<1>7. s \in Seq(Runnable) /\ UpTo(s, g) /\ (HasGen(mainq, g) => HasGen(s, g))
  BY <1>1, <1>2, <1>3, FlushPosted DEF Queues, NoneNewer
<1>8. NoneNewer'  BY <1>1, <1>2, <1>3, <1>4, <1>6, <1>7 DEF NoneNewer
<1>9. focused'.gen = focusGen' \/ OnItsWay'  BY <1>1, <1>2, <1>3, <1>4, <1>6, <1>7 DEF OnItsWay
<1>10. DeviceTypes'  BY <1>1, <1>3, <1>5, <1>6, <1>7 DEF DeviceTypes
<1> QED  BY <1>2, <1>6, <1>8, <1>9, <1>10 DEF FocusInv

\* Every step keeps the types and the newest focus on its way.
LEMMA FocusStep ==
    ASSUME DeviceTypes, FocusInv, [Device!Next]_(Device!vars)
    PROVE  DeviceTypes' /\ FocusInv'
<1>1. ASSUME NEW action \in Device!Actions, Device!DeviceAction(action) PROVE DeviceTypes' /\ FocusInv'
 <2>1. Device!Numbered(action, serverGen + 1) \in Push /\ serverGen + 1 \in Nat
   BY PushOfAction DEF DeviceTypes
 <2>2. Device!Accepted(action)  BY <1>1 DEF Device!DeviceAction
 <2>3. UNCHANGED <<localGen, focusGen, launching, mainq, pendingActions, flushing, taken, focused>>
   BY <1>1 DEF Device!DeviceAction, Device!counters, Device!looper, Device!screen
 <2>4. serverGen' = serverGen + 1 /\ pipe' \in Seq(Push)  BY <2>1, <2>2, AcceptedFacts
 <2> QED  BY <2>1, <2>3, <2>4, FocusSame DEF DeviceTypes
<1>2. CASE Device!Restart \/ Device!InitSubscriber
 <2>1. UNCHANGED <<localGen, focusGen, launching, mainq, pendingActions, flushing, taken, focused>>
   BY <1>2 DEF Device!Restart, Device!InitSubscriber, Device!counters, Device!looper,
      Device!launch, Device!screen
 <2>2. serverGen' \in Nat
   BY <1>2 DEF Device!Restart, Device!InitSubscriber, Device!server, DeviceTypes
 <2>3. pipe' = pipe \/ pipe' = <<>>
   BY <1>2 DEF Device!Restart, Device!InitSubscriber, Device!stream
 <2>4. pipe' \in Seq(Push)
  <3>1. <<>> \in Seq(Push)  OBVIOUS
  <3>2. pipe \in Seq(Push)  BY DEF DeviceTypes
  <3> QED  BY <2>3, <3>1, <3>2
 <2> QED  BY <2>1, <2>2, <2>4, FocusSame DEF DeviceTypes
<1>3. CASE UNCHANGED <<serverGen, localGen, focusGen, launching, pipe, mainq, pendingActions,
flushing,
                       taken, focused>>
  BY <1>3, FocusSame DEF DeviceTypes
<1>4. Device!Crash \/ Device!TryFails \/ Device!ConnectorReturns \/ Device!ReaderEnds \/ Device!ReaderReconnects \/ UNCHANGED Device!vars
      => UNCHANGED <<serverGen, localGen, focusGen, launching, pipe, mainq, pendingActions,
      flushing,
                     taken, focused>>
  BY DEF Device!Crash, Device!TryFails, Device!ConnectorReturns, Device!ReaderEnds,
     Device!ReaderReconnects, Device!vars, Device!server, Device!counters, Device!launch,
     Device!stream, Device!looper, Device!screen
<1> QED
  BY <1>1, <1>2, <1>3, <1>4, TakeKeeps, PostKeeps, LaunchAppKeeps, DispatchKeeps, RegisterKeeps,
     RunKeeps, FlushKeeps, FlushedKeeps DEF Device!Next

\* Device actions are taken once, by one reader, the tab in front is there, and
\* when all is quiet the focus-tab applied last is the newest one taken and its
\* tab the one in front, unless it could not be shown or the guest changed the
\* front since; for any number of actions, launches, restarts of muplard and
\* attempts.
THEOREM DeviceStaysSound == Device!Spec => [](Device!TypeOK /\ Device!DeviceSound)
<1>1. Device!Init => DeviceInv
 <2> SUFFICES ASSUME Device!Init PROVE DeviceInv  OBVIOUS
 <2>1. Len(<<>>) = 0 /\ <<>> \in Seq(Push) /\ <<>> \in Seq(Runnable)  OBVIOUS
 <2>2. DeviceTypes /\ StreamInv
   BY <2>1 DEF Device!Init, DeviceTypes, StreamInv, Shown, Device!Tabs
 <2>3. ThreadsInv /\ FrontInv
   BY DEF Device!Init, ThreadsInv, Device!OneReader, FrontInv, Device!FrontIsThere, Device!Tabs
 <2>4. FocusInv  BY <2>1 DEF Device!Init, FocusInv, NoneNewer, UpTo
 <2> QED  BY <2>2, <2>3, <2>4 DEF DeviceInv
<1>2. DeviceInv /\ [Device!Next]_(Device!vars) => DeviceInv'
  BY ThreadsStep, StreamStep, FrontStep, FocusStep DEF DeviceInv
<1>3. DeviceInv => Device!TypeOK /\ Device!DeviceSound
 <2> SUFFICES ASSUME DeviceInv PROVE Device!TypeOK /\ Device!DeviceSound  OBVIOUS
 <2>1. Device!TypeOK /\ Device!OneReader /\ Device!FrontIsThere
   BY DEF DeviceInv, ThreadsInv, FocusInv, FrontInv, Device!TypeOK
 <2>2. DOMAIN pipe = 1 .. Len(pipe)  BY DEF DeviceInv, DeviceTypes
 <2>3. ASSUME ~skewed, NEW i \in DOMAIN pipe PROVE pipe[i].gen > localGen
  <3>1. i \in 1 .. Len(pipe) /\ pipe \in Seq(Push) /\ localGen \in Nat
    BY <2>2 DEF DeviceInv, DeviceTypes
  <3>2. pipe[i].gen \in Nat  BY <3>1, GenOfPush
  <3>3. localGen < pipe[i].gen  BY <2>3, <3>1 DEF DeviceInv, StreamInv
  <3> QED  BY <3>1, <3>2, <3>3
 <2>4. Device!FocusSettles
  <3> SUFFICES ASSUME launching = 0, taken = <<>>, mainq = <<>>, pendingActions = <<>>, flushing = <<>>
               PROVE  focused.gen = focusGen
    BY DEF Device!FocusSettles, DeviceInv, FrontInv
  <3>1. Len(mainq) = 0 /\ Len(pendingActions) = 0 /\ Len(flushing) = 0 /\ Len(taken) = 0
    OBVIOUS
  <3>2. ~OnItsWay  BY <3>1 DEF OnItsWay, HasGen
  <3> QED  BY <3>2 DEF DeviceInv, FocusInv
 <2> QED  BY <2>1, <2>3, <2>4 DEF Device!DeviceSound, Device!PushesAreNew
<1> QED  BY <1>1, <1>2, <1>3, PTL DEF Device!Spec

----
(* The root file system of a Linux prefix: what its user wrote stays, the  *)
(* accounts the session logs in with are there after every run, and a run  *)
(* after a settled one changes nothing; for any distribution whose archive *)
(* is in order (DistroFits), through runs that die between two files and   *)
(* extractions that are cut off.  What a run has behind it is a formula of each stage (StagesDone); that a*)
(* renaming finds the entry of shadow also after a run that stopped short  *)
(* is Entries.                                                             *)

CONSTANTS MaxRuns, MaxEdits, Distro
VARIABLES text, elfuse, resolv, foot, machine, patches, passwd, group, shadow, shell, cache, desktop, pc,
          runs, edits, ids, extracted, settled

Rootfs == INSTANCE LinuxRootfs

\* Nobody but the user is called muplar.
NoOther(acs) == \A i \in DOMAIN acs : acs[i].name = "muplar" => acs[i].uid = 1000

\* The accounts of the user are those of muplar, with a shell of the
\* distribution if there is one.
Named(acs, sh) ==
    \A i \in 1 .. Len(acs) : acs[i].uid = 1000 => acs[i].name = "muplar" /\ (acs[i].sh = "sh" => sh = "none")
\* Whoever is muplar in shadow has no password.
Opens(ss) == \A i \in 1 .. Len(ss) : ss[i].name = "muplar" => ss[i].pw = ""

RunStages == {"idle", "texts", "bootstrap", "extract", "identity", "passwd", "shadow", "scripts"}

RootfsTypes ==
    /\ text \in [Rootfs!Kept -> {"none", "muplar", "distro", "user"}] /\ elfuse \in BOOLEAN
    /\ resolv \in {"none", "muplar", "distro", "user", "empty", "symlink", "dangling"}
    /\ foot \in {"none", "4", "16", "user"}
    /\ patches \in -1 .. 1 /\ shell \in {"none", "stub", "distro"}
    /\ cache \in {"none", "partial", "whole"} /\ desktop \in {"none", "link", "other", "dir"}
    /\ extracted \in BOOLEAN /\ pc \in RunStages
Counters ==
    /\ runs \in 0 .. MaxRuns /\ edits \in 0 .. MaxEdits
    /\ ids \in Nat /\ machine \in Nat /\ 1 <= ids /\ machine <= ids
AccountTypes == passwd \in Seq(Rootfs!Entry) /\ group \in Seq(Rootfs!Entry) /\ shadow \in Seq(Rootfs!Secret)

\* The account files at any time: where passwd has muplar it is what the next run
\* looks for, and what it does not find in shadow has no password to clear.
Entries ==
    /\ Rootfs!OwnGroups(passwd) /\ Rootfs!OwnGroups(group) /\ NoOther(passwd)
    /\ Rootfs!Knows(passwd, "muplar") => Rootfs!FirstName(passwd) = "muplar"
    /\ Opens(shadow) \/ Rootfs!FirstName(passwd) = "muplar"
    /\ shell = "none" => Opens(shadow)

\* What the steps of a run have done once they are behind it.
TextsDone ==
    /\ text["profile"] # "none" /\ text["hosts"] # "none" /\ resolv \notin {"none", "empty", "symlink"}
    /\ foot \notin {"none", "16"} /\ desktop \notin {"none", "other"}
IdentityDone == patches # 0 /\ machine > 1
RenamesDone == Named(passwd, shell) /\ Named(group, shell) /\ Opens(shadow)
AppendsDone ==
    /\ Rootfs!OwnIds(passwd) # {} /\ Rootfs!OwnIds(group) # {}
    /\ shadow # <<>> => Rootfs!Knows(shadow, "muplar")
StagesDone ==
    /\ pc = "extract" => shell = "none"
    /\ pc \notin {"idle", "texts"} /\ ~extracted => TextsDone
    /\ pc \in {"passwd", "shadow", "scripts"} => IdentityDone
    /\ pc \in {"shadow", "scripts"} => RenamesDone
    /\ pc = "scripts" => AppendsDone

\* The files that are remembered as settled are the ones that are there, and no
\* step of a run finds anything to do in them.
SettledInv ==
    settled # <<>> =>
        /\ settled = Rootfs!files
        /\ shell # "none" /\ TextsDone /\ IdentityDone /\ RenamesDone /\ AppendsDone
        /\ text["sudoers"] # "none" /\ elfuse

RootfsInv == RootfsTypes /\ Counters /\ AccountTypes /\ Entries /\ StagesDone /\ SettledInv

----
\* What a renamed account is, and how it compares with the old one.
AsMuplar(a) == Rootfs!Account("muplar", a.uid, a.gid, IF a.sh = "sh" THEN Rootfs!LoginShell ELSE a.sh)
OneRenamed(a, b) ==
    /\ b.uid = a.uid /\ b.gid = a.gid
    /\ a.uid # 1000 => b = a
    /\ a.uid = 1000 => b.name = "muplar" /\ (b.sh = "sh" => shell = "none")

\* A literal is a string.
LEMMA MuplarIsWord == "muplar" \in Rootfs!Words
BY DEF Rootfs!Words

\* Only the name and a shell of the default change.
LEMMA AsMuplarIs ==
    ASSUME NEW a \in Rootfs!Entry, Rootfs!LoginShell \in Rootfs!Words,
         Rootfs!LoginShell = "sh" => shell = "none",
           a.uid = 1000, NEW b, b = AsMuplar(a)
    PROVE  b \in Rootfs!Entry /\ OneRenamed(a, b)
<1>1. PICK m \in Rootfs!Words, u \in {0, 1000, 1001}, g \in {0, 1000, 1001}, h \in Rootfs!Words :
          a = [name |-> m, uid |-> u, gid |-> g, sh |-> h]
  BY DEF Rootfs!Entry
<1>2. b = [name |-> "muplar", uid |-> u, gid |-> g, sh |-> IF h = "sh" THEN Rootfs!LoginShell ELSE h]
  BY <1>1 DEF AsMuplar, Rootfs!Account
<1>3. "muplar" \in Rootfs!Words  BY MuplarIsWord
<1>4. PICK k \in Rootfs!Words : k = (IF h = "sh" THEN Rootfs!LoginShell ELSE h) /\ (k = "sh" => shell = "none")
  BY <1>1
<1>5. b = [name |-> "muplar", uid |-> u, gid |-> g, sh |-> k]  BY <1>2, <1>4
<1>6. b \in Rootfs!Entry  BY <1>3, <1>5 DEF Rootfs!Entry
<1>7. a.uid = u /\ a.gid = g /\ b.uid = u /\ b.gid = g /\ b.name = "muplar" /\ b.sh = k
  BY <1>1, <1>5
<1> QED  BY <1>4, <1>6, <1>7 DEF OneRenamed

\* An account that has its name and another shell stays as it is.
LEMMA AsMuplarSame ==
    ASSUME NEW a \in Rootfs!Entry, a.name = "muplar", a.sh # "sh"
    PROVE  AsMuplar(a) = a
<1>1. PICK m \in Rootfs!Words, u \in {0, 1000, 1001}, g \in {0, 1000, 1001}, h \in Rootfs!Words :
          a = [name |-> m, uid |-> u, gid |-> g, sh |-> h]
  BY DEF Rootfs!Entry
<1>2. m = "muplar" /\ h # "sh"  BY <1>1
<1>3. AsMuplar(a) = [name |-> "muplar", uid |-> u, gid |-> g, sh |-> h]
  BY <1>1, <1>2 DEF AsMuplar, Rootfs!Account
<1> QED  BY <1>1, <1>2, <1>3

\* The renaming of the user's accounts.
LEMMA RenamedSeq ==
    ASSUME NEW acs \in Seq(Rootfs!Entry), NEW bs, bs = Rootfs!Renamed(acs)
    PROVE  /\ bs \in Seq(Rootfs!Entry) /\ Len(bs) = Len(acs) /\ Len(acs) \in Nat
           /\ \A i \in 1 .. Len(acs) : OneRenamed(acs[i], bs[i])
<1>1. PICK n \in Nat : n = Len(acs) /\ DOMAIN acs = 1 .. n  OBVIOUS
<1>2. Rootfs!LoginShell \in Rootfs!Words /\ (Rootfs!LoginShell = "sh" => shell = "none")
 <2>1. CASE shell = "none"  BY <2>1 DEF Rootfs!LoginShell, Rootfs!Words
 <2>2. CASE shell # "none"  BY <2>2 DEF Rootfs!LoginShell, Rootfs!Words
 <2> QED  BY <2>1, <2>2
<1>3. bs = [i \in 1 .. n |-> IF acs[i].uid # 1000 THEN acs[i] ELSE AsMuplar(acs[i])]
  BY <1>1 DEF Rootfs!Renamed, AsMuplar
<1>4. ASSUME NEW i \in 1 .. n PROVE bs[i] \in Rootfs!Entry /\ OneRenamed(acs[i], bs[i])
 <2>1. acs[i] \in Rootfs!Entry  BY <1>1
 <2>2. CASE acs[i].uid # 1000
  <3>1. bs[i] = acs[i]  BY <1>3, <2>2
  <3> QED  BY <2>1, <2>2, <3>1 DEF OneRenamed
 <2>3. CASE acs[i].uid = 1000
  <3>1. bs[i] = AsMuplar(acs[i])  BY <1>3, <2>3
  <3> QED  BY <1>2, <2>1, <2>3, <3>1, AsMuplarIs
 <2> QED  BY <2>2, <2>3
<1>5. bs \in Seq(Rootfs!Entry) /\ Len(bs) = n
 <2>1. bs \in [1 .. n -> Rootfs!Entry]  BY <1>3, <1>4
 <2> QED  BY <2>1
<1> QED  BY <1>1, <1>4, <1>5

\* Accounts that have their name keep it.
LEMMA RenamedSame ==
    ASSUME NEW acs \in Seq(Rootfs!Entry), Named(acs, shell), shell # "none"
    PROVE  Rootfs!Renamed(acs) = acs
<1>1. PICK n \in Nat : n = Len(acs) /\ DOMAIN acs = 1 .. n /\ acs = [i \in 1 .. n |-> acs[i]]
  OBVIOUS
<1>2. ASSUME NEW i \in 1 .. n
      PROVE  (IF acs[i].uid # 1000 THEN acs[i] ELSE AsMuplar(acs[i])) = acs[i]
 <2>1. acs[i] \in Rootfs!Entry  BY <1>1
 <2>2. CASE acs[i].uid = 1000
  <3>1. acs[i].name = "muplar" /\ acs[i].sh # "sh"
   <4>1. i \in 1 .. Len(acs)  BY <1>1
   <4>2. acs[i].name = "muplar" /\ (acs[i].sh = "sh" => shell = "none")
     BY <2>2, <4>1 DEF Named
   <4> QED  BY <4>2
  <3>2. AsMuplar(acs[i]) = acs[i]  BY <2>1, <3>1, AsMuplarSame
  <3> QED  BY <2>2, <3>2
 <2> QED  BY <2>2
<1>3. Rootfs!Renamed(acs) = [i \in 1 .. n |-> IF acs[i].uid # 1000 THEN acs[i] ELSE AsMuplar(acs[i])]
  BY <1>1 DEF Rootfs!Renamed, AsMuplar
<1> HIDE DEF AsMuplar, Rootfs!Account
<1>4. Rootfs!Renamed(acs) = [i \in 1 .. n |-> acs[i]]  BY <1>2, <1>3
<1> QED  BY <1>1, <1>4

LEMMA FirstOwn ==
    ASSUME NEW acs \in Seq(Rootfs!Entry), Rootfs!OwnIds(acs) # {}
    PROVE  \E i \in Rootfs!OwnIds(acs) : Rootfs!FirstName(acs) = acs[i].name /\ \A j \in Rootfs!OwnIds(acs) : i <= j
<1>1. Rootfs!OwnIds(acs) \in SUBSET Nat  BY DEF Rootfs!OwnIds
<1>2. \E x \in Rootfs!OwnIds(acs) : \A y \in Rootfs!OwnIds(acs) : x <= y  BY <1>1, LeastNumber
<1>3. PICK m : m = Rootfs!Min(Rootfs!OwnIds(acs))  OBVIOUS
<1>4. m \in Rootfs!OwnIds(acs) /\ \A y \in Rootfs!OwnIds(acs) : m <= y
  BY <1>2, <1>3 DEF Rootfs!Min
<1>5. Rootfs!FirstName(acs) = acs[m].name  BY <1>3 DEF Rootfs!FirstName
<1> QED  BY <1>4, <1>5

\* The name is muplar if some account is the user's and all those are muplar's,
\* and then there is one.
LEMMA FirstNamed ==
    ASSUME NEW acs \in Seq(Rootfs!Entry), NEW sh, Named(acs, sh), Rootfs!OwnIds(acs) # {}
    PROVE  Rootfs!FirstName(acs) = "muplar"
BY FirstOwn DEF Named, Rootfs!OwnIds

\* Only an account with the own id is found first.
LEMMA NamedFirst == ASSUME NEW acs, Rootfs!FirstName(acs) = "muplar" PROVE Rootfs!OwnIds(acs) # {}
BY DEF Rootfs!FirstName

\* An account that is added comes last.
LEMMA FirstAppend ==
    ASSUME NEW acs \in Seq(Rootfs!Entry), NEW a \in Rootfs!Entry, NEW bs, bs = Append(acs, a)
    PROVE  /\ bs \in Seq(Rootfs!Entry) /\ Len(bs) = Len(acs) + 1 /\ Len(acs) \in Nat
           /\ bs[Len(acs) + 1] = a /\ \A i \in 1 .. Len(acs) : bs[i] = acs[i]
           /\ Rootfs!OwnIds(acs) \subseteq Rootfs!OwnIds(bs)
           /\ Rootfs!FirstName(acs) = "muplar" => Rootfs!FirstName(bs) = "muplar"
<1>1. /\ bs \in Seq(Rootfs!Entry) /\ Len(bs) = Len(acs) + 1 /\ Len(acs) \in Nat
      /\ bs[Len(acs) + 1] = a /\ \A i \in 1 .. Len(acs) : bs[i] = acs[i]
  OBVIOUS
<1>2. Rootfs!OwnIds(acs) \subseteq Rootfs!OwnIds(bs)  BY <1>1 DEF Rootfs!OwnIds
<1>3. ASSUME Rootfs!FirstName(acs) = "muplar" PROVE Rootfs!FirstName(bs) = "muplar"
 <2>1. Rootfs!OwnIds(acs) # {} /\ Rootfs!OwnIds(bs) # {}  BY <1>2, <1>3, NamedFirst
 <2>2. PICK i \in Rootfs!OwnIds(acs) : Rootfs!FirstName(acs) = acs[i].name /\ \A j \in Rootfs!OwnIds(acs) : i <= j
   BY <2>1, FirstOwn
 <2>3. PICK k \in Rootfs!OwnIds(bs) : Rootfs!FirstName(bs) = bs[k].name /\ \A j \in Rootfs!OwnIds(bs) : k <= j
   BY <1>1, <2>1, FirstOwn
 <2>4. k <= i /\ i \in 1 .. Len(acs) /\ k \in Nat /\ k >= 1
   BY <1>1, <1>2, <2>2, <2>3 DEF Rootfs!OwnIds
 <2>5. k \in Rootfs!OwnIds(acs)  BY <1>1, <2>3, <2>4 DEF Rootfs!OwnIds
 <2>6. k = i  BY <1>1, <2>2, <2>4, <2>5 DEF Rootfs!OwnIds
 <2> QED  BY <1>1, <1>3, <2>2, <2>3, <2>4, <2>6
<1> QED  BY <1>1, <1>2, <1>3

\* has_id() looks at the user and the group.
LEMMA HasIdIs ==
    ASSUME NEW acs \in Seq(Rootfs!Entry), Rootfs!OwnGroups(acs)
    PROVE  Rootfs!HasId(acs) <=> Rootfs!OwnIds(acs) # {}
<1>1. \A a : a \in Rootfs!Range(acs) <=> \E i \in 1 .. Len(acs) : a = acs[i]  BY DEF Rootfs!Range
<1> QED  BY <1>1 DEF Rootfs!HasId, Rootfs!OwnIds, Rootfs!OwnGroups

----
\* What a step keeps, and the two properties of steps.
RootfsStep == RootfsInv' /\ Rootfs!KeepsUserFiles /\ Rootfs!SettledStays

\* A step that leaves the files and the counters of machines alone.
LEMMA QuietRootfs ==
    ASSUME RootfsInv, UNCHANGED Rootfs!files, UNCHANGED ids,
           pc' \in RunStages, extracted' \in BOOLEAN, cache' \in {"none", "partial", "whole"},
           runs' \in 0 .. MaxRuns, edits' \in 0 .. MaxEdits, StagesDone',
           settled' = settled \/ settled' = <<>>
    PROVE  RootfsStep
<1>1. RootfsTypes'  BY DEF RootfsInv, RootfsTypes, Rootfs!files
<1>2. Counters' /\ AccountTypes' /\ Entries'
  BY DEF RootfsInv, Counters, AccountTypes, Entries, Rootfs!files
<1>3. SettledInv'
  BY DEF RootfsInv, SettledInv, TextsDone, IdentityDone, RenamesDone, AppendsDone, Rootfs!files
<1>4. Rootfs!KeepsUserFiles  BY DEF Rootfs!KeepsUserFiles, Rootfs!files
<1>5. Rootfs!SettledStays  BY DEF Rootfs!SettledStays, RootfsInv, SettledInv
<1> QED  BY <1>1, <1>2, <1>3, <1>4, <1>5 DEF RootfsStep, RootfsInv

\* BeginRun, HasUserland, UseCached and RunDies are such steps.
LEMMA BeginRunKeeps == ASSUME RootfsInv, Rootfs!BeginRun, MaxRuns \in Nat PROVE RootfsStep
<1>1. UNCHANGED Rootfs!files /\ UNCHANGED ids /\ settled' = settled /\ pc' = "texts" /\ extracted' = FALSE
  BY DEF Rootfs!BeginRun, Rootfs!Go
<1>2. StagesDone'  BY <1>1 DEF StagesDone
<1>3. runs' \in 0 .. MaxRuns  BY DEF Rootfs!BeginRun, RootfsInv, Counters
<1>4. edits' \in 0 .. MaxEdits /\ cache' \in {"none", "partial", "whole"}
  BY DEF Rootfs!BeginRun, RootfsInv, Counters, RootfsTypes
<1> QED  BY <1>1, <1>2, <1>3, <1>4, QuietRootfs DEF RunStages

\* A run that finds a user land goes on to its accounts.
LEMMA HasUserlandKeeps == ASSUME RootfsInv, Rootfs!HasUserland PROVE RootfsStep
<1>1. /\ UNCHANGED Rootfs!files /\ UNCHANGED ids /\ settled' = settled
      /\ pc = "bootstrap" /\ pc' = "identity" /\ extracted' = extracted
  BY DEF Rootfs!HasUserland, Rootfs!Go, Rootfs!Rest
<1>2. StagesDone'  BY <1>1 DEF StagesDone, TextsDone, RootfsInv, Rootfs!files
<1>3. runs' \in 0 .. MaxRuns /\ edits' \in 0 .. MaxEdits
  BY DEF Rootfs!HasUserland, Rootfs!Rest, RootfsInv, Counters
<1>4. extracted' \in BOOLEAN /\ cache' \in {"none", "partial", "whole"}
  BY DEF Rootfs!HasUserland, RootfsInv, RootfsTypes
<1> QED  BY <1>1, <1>2, <1>3, <1>4, QuietRootfs DEF RunStages

\* A run without a user land goes to extract the cached one.
LEMMA UseCachedKeeps == ASSUME RootfsInv, Rootfs!UseCached PROVE RootfsStep
<1>1. /\ UNCHANGED Rootfs!files /\ UNCHANGED ids /\ settled' = settled /\ shell = "none"
      /\ pc = "bootstrap" /\ pc' = "extract" /\ extracted' = extracted
  BY DEF Rootfs!UseCached, Rootfs!Go, Rootfs!Rest
<1>2. StagesDone'  BY <1>1 DEF StagesDone, TextsDone, RootfsInv, Rootfs!files
<1>3. runs' \in 0 .. MaxRuns /\ edits' \in 0 .. MaxEdits
  BY DEF Rootfs!UseCached, Rootfs!Rest, RootfsInv, Counters
<1>4. extracted' \in BOOLEAN /\ cache' \in {"none", "partial", "whole"}
  BY DEF Rootfs!UseCached, RootfsInv, RootfsTypes
<1> QED  BY <1>1, <1>2, <1>3, <1>4, QuietRootfs DEF RunStages

\* A run that dies leaves the files as they are.
LEMMA RunDiesKeeps == ASSUME RootfsInv, Rootfs!RunDies PROVE RootfsStep
<1>1. /\ UNCHANGED Rootfs!files /\ UNCHANGED ids /\ settled' = <<>> /\ pc' = "idle" /\ extracted' = extracted
  BY DEF Rootfs!RunDies, Rootfs!Rest
<1>2. StagesDone'  BY <1>1 DEF StagesDone
<1>3. runs' \in 0 .. MaxRuns /\ edits' \in 0 .. MaxEdits
  BY DEF Rootfs!RunDies, Rootfs!Rest, RootfsInv, Counters
<1>4. extracted' \in BOOLEAN /\ cache' \in {"none", "partial", "whole"}
  BY DEF Rootfs!RunDies, RootfsInv, RootfsTypes
<1> QED  BY <1>1, <1>2, <1>3, <1>4, QuietRootfs DEF RunStages

\* A step of no one keeps the invariant.
LEMMA RootfsStutters == ASSUME RootfsInv, UNCHANGED Rootfs!vars PROVE RootfsStep
<1>1. UNCHANGED Rootfs!files /\ UNCHANGED ids /\ settled' = settled /\ pc' = pc /\ extracted' = extracted /\ cache' = cache
      /\ runs' = runs /\ edits' = edits
  BY DEF Rootfs!vars
<1>2. StagesDone'
  BY <1>1 DEF StagesDone, TextsDone, IdentityDone, RenamesDone, AppendsDone, RootfsInv, Rootfs!files
<1>3. /\ runs' \in 0 .. MaxRuns /\ edits' \in 0 .. MaxEdits
      /\ extracted' \in BOOLEAN /\ cache' \in {"none", "partial", "whole"} /\ pc' \in RunStages
  BY <1>1 DEF RootfsInv, Counters, RootfsTypes
<1> QED  BY <1>1, <1>2, <1>3, QuietRootfs

\* WriteTexts leaves no missing text behind and touches none that is there.
LEMMA WriteTextsKeeps == ASSUME RootfsInv, Rootfs!WriteTexts PROVE RootfsStep
<1>1. /\ pc = "texts" /\ pc' = "bootstrap" /\ resolv' = Rootfs!IfMissingOrEmpty(resolv)
      /\ foot' = Rootfs!Migrated(foot) /\ desktop' = Rootfs!Linked(desktop)
      /\ UNCHANGED <<machine, patches, passwd, group, shadow, shell>>
      /\ UNCHANGED <<cache, runs, edits, ids, extracted, settled>>
  BY DEF Rootfs!WriteTexts, Rootfs!Go, Rootfs!Rest
<1>2. /\ text \in [Rootfs!Kept -> {"none", "muplar", "distro", "user"}]
      /\ text' = [f \in (Rootfs!Kept) |-> IF f = "sudoers" THEN text[f] ELSE Rootfs!IfMissing(text[f])]
      /\ elfuse \in BOOLEAN /\ elfuse' = (elfuse \/ text["hosts"] = "none")
  BY DEF Rootfs!WriteTexts, RootfsInv, RootfsTypes
<1>3. /\ text' \in [Rootfs!Kept -> {"none", "muplar", "distro", "user"}] /\ text'["profile"] # "none" /\ text'["hosts"] # "none"
      /\ \A f \in Rootfs!Kept : text[f] # "none" => text'[f] = text[f]
      /\ text["profile"] # "none" /\ text["hosts"] # "none" => text' = text
 <2>1. \A f \in Rootfs!Kept : text[f] \in {"none", "muplar", "distro", "user"}  BY <1>2
 <2>2. \A f \in Rootfs!Kept : text'[f] = IF f = "sudoers" THEN text[f] ELSE Rootfs!IfMissing(text[f])
   BY <1>2
 <2>3. text["profile"] # "none" /\ text["hosts"] # "none" => text' = text
  <3> SUFFICES ASSUME text["profile"] # "none", text["hosts"] # "none" PROVE text' = text
    OBVIOUS
  <3>1. \A f \in Rootfs!Kept : text'[f] = text[f]  BY <2>2 DEF Rootfs!IfMissing, Rootfs!Kept
  <3> QED  BY <1>2, <3>1
 <2>4. text' \in [Rootfs!Kept -> {"none", "muplar", "distro", "user"}]
   BY <1>2, <2>1 DEF Rootfs!IfMissing
 <2> QED  BY <2>1, <2>2, <2>3, <2>4 DEF Rootfs!IfMissing, Rootfs!Kept
<1>4. /\ resolv \in {"none", "muplar", "distro", "user", "empty", "symlink", "dangling"}
      /\ foot \in {"none", "4", "16", "user"} /\ desktop \in {"none", "link", "other", "dir"}
  BY DEF RootfsInv, RootfsTypes
<1>5. /\ resolv' \in {"muplar", "distro", "user", "dangling"} /\ (resolv \notin {"none", "empty", "symlink"} => resolv' = resolv)
      /\ foot' \in {"4", "user"} /\ (foot \notin {"none", "16"} => foot' = foot)
      /\ desktop' \in {"link", "dir"} /\ (desktop \notin {"none", "other"} => desktop' = desktop)
  BY <1>1, <1>4 DEF Rootfs!IfMissingOrEmpty, Rootfs!Migrated, Rootfs!Linked
<1>6. RootfsTypes'
 <2>1. /\ patches' \in -1 .. 1 /\ shell' \in {"none", "stub", "distro"}
       /\ cache' \in {"none", "partial", "whole"} /\ extracted' \in BOOLEAN
   BY <1>1 DEF RootfsInv, RootfsTypes
 <2> QED  BY <1>1, <1>2, <1>3, <1>5, <2>1 DEF RootfsTypes, RunStages
<1>7. Counters' /\ AccountTypes' /\ Entries'
  BY <1>1 DEF RootfsInv, Counters, AccountTypes, Entries
<1>8. TextsDone' /\ StagesDone'  BY <1>1, <1>3, <1>5 DEF TextsDone, StagesDone
<1>9. settled # <<>> => Rootfs!files' = Rootfs!files
 <2>1. settled # <<>> => TextsDone /\ elfuse  BY DEF RootfsInv, SettledInv
 <2> QED  BY <1>1, <1>2, <1>3, <1>5, <2>1 DEF TextsDone, Rootfs!files
<1>10. SettledInv'
 <2>1. CASE settled = <<>>  BY <1>1, <2>1 DEF SettledInv
 <2>2. CASE settled # <<>>
  <3>1. SettledInv /\ Rootfs!files' = Rootfs!files  BY <1>9, <2>2 DEF RootfsInv
  <3> QED
    BY <1>1, <2>2, <3>1 DEF SettledInv, TextsDone, IdentityDone, RenamesDone, AppendsDone,
       Rootfs!files
 <2> QED  BY <2>1, <2>2
<1>11. Rootfs!KeepsUserFiles  BY <1>1, <1>2, <1>3, <1>5 DEF Rootfs!KeepsUserFiles
<1>12. Rootfs!SettledStays  BY <1>1 DEF Rootfs!SettledStays
<1> QED  BY <1>6, <1>7, <1>8, <1>10, <1>11, <1>12 DEF RootfsStep, RootfsInv

\* Download may only bring a shell that stands alone, where there was none.
LEMMA DownloadKeeps == ASSUME RootfsInv, Rootfs!Download PROVE RootfsStep
<1>1. /\ pc = "bootstrap" /\ shell = "none"
      /\ (pc' = "extract" /\ shell' = shell) \/ (pc' = "identity" /\ shell' \in {"stub", "none"})
      /\ cache' \in {"none", "partial", "whole"}
      /\ UNCHANGED <<text, elfuse, resolv, foot, machine, patches, passwd, group, shadow, desktop>>
      /\ UNCHANGED <<runs, edits, ids, extracted, settled>>
  BY DEF Rootfs!Download, Rootfs!Rest
<1>2. RootfsTypes'  BY <1>1 DEF RootfsInv, RootfsTypes, RunStages
<1>3. Counters' /\ AccountTypes' /\ Entries'
  BY <1>1 DEF RootfsInv, Counters, AccountTypes, Entries
<1>4. StagesDone'  BY <1>1 DEF RootfsInv, StagesDone, TextsDone
<1>5. settled = <<>>  BY <1>1 DEF RootfsInv, SettledInv
<1>6. SettledInv' /\ Rootfs!SettledStays  BY <1>1, <1>5 DEF SettledInv, Rootfs!SettledStays
<1>7. Rootfs!KeepsUserFiles  BY <1>1 DEF Rootfs!KeepsUserFiles
<1> QED  BY <1>2, <1>3, <1>4, <1>6, <1>7 DEF RootfsStep, RootfsInv

\* A file that was cut off is the beginning of the one in the archive.
LEMMA LinesAre ==
    ASSUME NEW V, NEW acs \in Seq(V), NEW U, NEW cut, cut \in Rootfs!Lines(U, acs)
    PROVE  /\ cut \in Seq(V) /\ Len(cut) \in 0 .. Len(acs) /\ Len(acs) \in Nat
           /\ \A i \in 1 .. Len(cut) : cut[i] = acs[i]
<1>1. Len(acs) \in Nat /\ \A i \in 1 .. Len(acs) : acs[i] \in V  OBVIOUS
<1>2. CASE cut = acs  BY <1>1, <1>2
<1>3. CASE \E k \in 0 .. Len(acs) : cut = SubSeq(acs, 1, k)
 <2>1. PICK k \in 0 .. Len(acs) : cut = SubSeq(acs, 1, k)  BY <1>3
 <2>2. k \in Nat /\ k <= Len(acs) /\ \A i \in 1 .. k : acs[i] \in V  BY <1>1, <2>1
 <2>3. /\ cut \in Seq(V) /\ Len(cut) = (IF 1 <= k THEN k - 1 + 1 ELSE 0)
       /\ \A i \in 1 .. k - 1 + 1 : cut[i] = acs[1 + i - 1]
   BY <2>1, <2>2, SubSeqProperties
 <2>4. Len(cut) = k  BY <2>2, <2>3
 <2> QED  BY <1>1, <2>2, <2>3, <2>4
<1> QED  BY <1>2, <1>3 DEF Rootfs!Lines

\* What tar leaves of the accounts, whole or not, is in order.
LEMMA UnpackedEntries ==
    ASSUME NEW acs \in Seq(Rootfs!Entry), Rootfs!OwnGroups(acs), NEW U, NEW cut, cut \in Rootfs!Lines(U, acs)
    PROVE  /\ cut \in Seq(Rootfs!Entry) /\ Rootfs!OwnGroups(cut)
           /\ (\A i \in DOMAIN acs : acs[i].name # "muplar") => NoOther(cut) /\ ~Rootfs!Knows(cut, "muplar")
<1>1. /\ cut \in Seq(Rootfs!Entry) /\ Len(cut) \in 0 .. Len(acs) /\ Len(acs) \in Nat
      /\ \A i \in 1 .. Len(cut) : cut[i] = acs[i]
  BY LinesAre
<1>2. DOMAIN cut = 1 .. Len(cut) /\ DOMAIN acs = 1 .. Len(acs)  BY <1>1
<1>3. \A i \in DOMAIN cut : i \in DOMAIN acs /\ cut[i] = acs[i]  BY <1>1, <1>2
<1> QED  BY <1>1, <1>3 DEF Rootfs!OwnGroups, NoOther, Rootfs!Knows

\* Nobody is muplar in the shadow file of an archive.
LEMMA UnpackedSecrets ==
    ASSUME NEW acs \in Seq(Rootfs!Secret), ~Rootfs!Knows(acs, "muplar"), NEW U, NEW cut, cut \in Rootfs!Lines(U, acs)
    PROVE  cut \in Seq(Rootfs!Secret) /\ Opens(cut)
<1>1. /\ cut \in Seq(Rootfs!Secret) /\ Len(cut) \in 0 .. Len(acs) /\ Len(acs) \in Nat
      /\ \A i \in 1 .. Len(cut) : cut[i] = acs[i]
  BY LinesAre
<1>2. DOMAIN acs = 1 .. Len(acs)  BY <1>1
<1>3. \A i \in 1 .. Len(cut) : i \in DOMAIN acs /\ cut[i] = acs[i]  BY <1>1, <1>2
<1> QED  BY <1>1, <1>3 DEF Opens, Rootfs!Knows

\* Whatever tar has unpacked of the archive, the files are ones to go on from.
LEMMA UnpackKeeps ==
    ASSUME RootfsInv, shell = "none", NEW U, Rootfs!Unpack(U), U \in SUBSET Rootfs!Archive,
         Rootfs!DistroFits,
           UNCHANGED <<foot, machine, desktop, cache, runs, edits, ids>>,
           pc' \in RunStages, extracted' \in BOOLEAN
    PROVE  RootfsTypes' /\ Counters' /\ AccountTypes' /\ Entries'
<1>1. /\ text' = [f \in (Rootfs!Kept) |-> IF f \in U THEN "distro" ELSE text[f]]
      /\ elfuse' = (elfuse /\ "hosts" \notin U)
      /\ resolv' = (IF "resolv" \in U THEN Distro.resolv ELSE resolv)
      /\ shell' = (IF "shell" \in U THEN "distro" ELSE shell)
      /\ patches' = (IF "script" \in U THEN Distro.patches ELSE patches)
  BY DEF Rootfs!Unpack
<1>2. /\ passwd' \in (IF "passwd" \in U THEN Rootfs!Lines(U, Distro.passwd) ELSE {passwd})
      /\ group' \in (IF "group" \in U THEN Rootfs!Lines(U, Distro.group) ELSE {group})
      /\ shadow' \in (IF "shadow" \in U THEN Rootfs!Lines(U, Distro.shadow) ELSE {shadow})
  BY DEF Rootfs!Unpack
<1>3. RootfsTypes'
 <2>1. /\ text \in [Rootfs!Kept -> {"none", "muplar", "distro", "user"}] /\ elfuse \in BOOLEAN
       /\ resolv \in {"none", "muplar", "distro", "user", "empty", "symlink", "dangling"}
       /\ patches \in -1 .. 1
   BY DEF RootfsInv, RootfsTypes
 <2>2. /\ Distro.resolv \in {"none", "distro", "empty", "symlink", "dangling"}
       /\ Distro.patches \in -1 .. 1
   BY DEF Rootfs!DistroFits
 <2>3. text' \in [Rootfs!Kept -> {"none", "muplar", "distro", "user"}]  BY <1>1, <2>1
 <2>4. /\ elfuse' \in BOOLEAN /\ patches' \in -1 .. 1 /\ shell' \in {"none", "stub", "distro"}
       /\ resolv' \in {"none", "muplar", "distro", "user", "empty", "symlink", "dangling"}
   BY <1>1, <2>1, <2>2
 <2>5. /\ foot' \in {"none", "4", "16", "user"} /\ desktop' \in {"none", "link", "other", "dir"}
       /\ cache' \in {"none", "partial", "whole"}
   BY DEF RootfsInv, RootfsTypes
 <2> QED  BY <2>3, <2>4, <2>5 DEF RootfsTypes
<1>4. Counters'  BY DEF RootfsInv, Counters
<1>5. PICK p, g, s : p = passwd' /\ g = group' /\ s = shadow'  OBVIOUS
<1>6. /\ passwd \in Seq(Rootfs!Entry) /\ group \in Seq(Rootfs!Entry) /\ shadow \in Seq(Rootfs!Secret)
      /\ Rootfs!OwnGroups(passwd) /\ Rootfs!OwnGroups(group) /\ NoOther(passwd)
      /\ Rootfs!Knows(passwd, "muplar") => Rootfs!FirstName(passwd) = "muplar"
      /\ Opens(shadow)
  BY DEF RootfsInv, AccountTypes, Entries
<1>7. /\ Distro.passwd \in Seq(Rootfs!Entry) /\ Distro.group \in Seq(Rootfs!Entry) /\ Distro.shadow \in Seq(Rootfs!Secret)
      /\ Rootfs!OwnGroups(Distro.passwd) /\ Rootfs!OwnGroups(Distro.group)
      /\ \A i \in DOMAIN Distro.passwd : Distro.passwd[i].name # "muplar"
      /\ ~Rootfs!Knows(Distro.shadow, "muplar")
  BY DEF Rootfs!DistroFits
<1>8. /\ p \in Seq(Rootfs!Entry) /\ Rootfs!OwnGroups(p) /\ NoOther(p)
      /\ Rootfs!Knows(p, "muplar") => Rootfs!FirstName(p) = "muplar"
 <2>1. CASE "passwd" \in U
  <3>1. p \in Rootfs!Lines(U, Distro.passwd)  BY <1>2, <1>5, <2>1
  <3> QED  BY <1>7, <3>1, UnpackedEntries
 <2>2. CASE "passwd" \notin U
  <3>1. p = passwd  BY <1>2, <1>5, <2>2
  <3> QED  BY <1>6, <3>1
 <2> QED  BY <2>1, <2>2
<1>9. g \in Seq(Rootfs!Entry) /\ Rootfs!OwnGroups(g)
 <2>1. CASE "group" \in U
  <3>1. g \in Rootfs!Lines(U, Distro.group)  BY <1>2, <1>5, <2>1
  <3> QED  BY <1>7, <3>1, UnpackedEntries
 <2>2. CASE "group" \notin U
  <3>1. g = group  BY <1>2, <1>5, <2>2
  <3> QED  BY <1>6, <3>1
 <2> QED  BY <2>1, <2>2
<1>10. s \in Seq(Rootfs!Secret) /\ Opens(s)
 <2>1. CASE "shadow" \in U
  <3>1. s \in Rootfs!Lines(U, Distro.shadow)  BY <1>2, <1>5, <2>1
  <3> QED  BY <1>7, <3>1, UnpackedSecrets
 <2>2. CASE "shadow" \notin U
  <3>1. s = shadow  BY <1>2, <1>5, <2>2
  <3> QED  BY <1>6, <3>1
 <2> QED  BY <2>1, <2>2
<1>11. AccountTypes'  BY <1>5, <1>8, <1>9, <1>10 DEF AccountTypes
<1>12. Entries'  BY <1>5, <1>8, <1>9, <1>10 DEF Entries
<1> QED  BY <1>3, <1>4, <1>11, <1>12

\* Extract and ExtractDies unpack some of the archive.
LEMMA UnpacksSome ==
    ASSUME Rootfs!DistroFits, Rootfs!Unpacks PROVE \E U \in SUBSET Rootfs!Archive : Rootfs!Unpack(U)
<1>1. Distro.cuts \subseteq SUBSET Rootfs!Archive  BY DEF Rootfs!DistroFits
<1>2. Rootfs!Archive \in SUBSET Rootfs!Archive  OBVIOUS
<1>3. CASE Rootfs!Unpack(Rootfs!Archive)  BY <1>2, <1>3, Zenon
<1>4. CASE \E U \in Distro.cuts : Rootfs!Unpack(U)  BY <1>1, <1>4, Zenon
<1> QED  BY <1>3, <1>4 DEF Rootfs!Unpacks

\* Extract brings accounts of the distribution, all of them or some.
LEMMA ExtractKeeps == ASSUME RootfsInv, Rootfs!Extract, Rootfs!DistroFits PROVE RootfsStep
<1>1. /\ pc = "extract" /\ pc' = "identity" /\ extracted' = TRUE /\ shell = "none" /\ Rootfs!Unpacks
      /\ UNCHANGED <<foot, machine, desktop, cache, runs, edits, ids>> /\ settled' = settled
  BY DEF Rootfs!Extract, Rootfs!Go, Rootfs!Rest, RootfsInv, StagesDone
<1>2. settled = <<>>  BY <1>1 DEF RootfsInv, SettledInv
<1>3. SettledInv' /\ Rootfs!SettledStays /\ Rootfs!KeepsUserFiles /\ StagesDone'
  BY <1>1, <1>2 DEF SettledInv, Rootfs!SettledStays, Rootfs!KeepsUserFiles, StagesDone
<1>4. PICK U \in SUBSET Rootfs!Archive : Rootfs!Unpack(U)  BY <1>1, UnpacksSome
<1>5. pc' \in RunStages /\ extracted' \in BOOLEAN  BY <1>1 DEF RunStages
<1>6. RootfsTypes' /\ Counters' /\ AccountTypes' /\ Entries'  BY <1>1, <1>4, <1>5, UnpackKeeps
<1> QED  BY <1>3, <1>6 DEF RootfsStep, RootfsInv

\* ExtractDies leaves what tar unpacked.
LEMMA ExtractDiesKeeps == ASSUME RootfsInv, Rootfs!ExtractDies, Rootfs!DistroFits PROVE RootfsStep
<1>1. /\ pc = "extract" /\ pc' = "idle" /\ extracted' = extracted /\ shell = "none" /\ Rootfs!Unpacks
      /\ UNCHANGED <<foot, machine, desktop, cache, runs, edits, ids>> /\ settled' = <<>>
  BY DEF Rootfs!ExtractDies, Rootfs!Go, Rootfs!Rest, RootfsInv, StagesDone
<1>2. extracted \in BOOLEAN  BY DEF RootfsInv, RootfsTypes
<1>3. SettledInv' /\ Rootfs!SettledStays /\ Rootfs!KeepsUserFiles /\ StagesDone'
  BY <1>1 DEF SettledInv, Rootfs!SettledStays, Rootfs!KeepsUserFiles, StagesDone
<1>4. PICK U \in SUBSET Rootfs!Archive : Rootfs!Unpack(U)  BY <1>1, UnpacksSome
<1>5. pc' \in RunStages /\ extracted' \in BOOLEAN  BY <1>1, <1>2 DEF RunStages
<1>6. RootfsTypes' /\ Counters' /\ AccountTypes' /\ Entries'  BY <1>1, <1>4, <1>5, UnpackKeeps
<1> QED  BY <1>3, <1>6 DEF RootfsStep, RootfsInv

\* Identity guards the script and gives the machine an id if it has none.
LEMMA IdentityKeeps == ASSUME RootfsInv, Rootfs!Identity PROVE RootfsStep
<1>1. /\ pc = "identity" /\ pc' = "passwd" /\ patches' = Rootfs!Guarded(patches)
      /\ UNCHANGED <<text, elfuse, resolv, foot, passwd, group, shadow, shell, desktop>>
      /\ UNCHANGED <<cache, runs, edits, extracted, settled>>
  BY DEF Rootfs!Identity, Rootfs!Go
<1>2. machine \in Nat /\ ids \in Nat /\ 1 <= ids /\ machine <= ids /\ patches \in -1 .. 1
  BY DEF RootfsInv, Counters, RootfsTypes
<1>3. /\ machine' \in Nat /\ ids' \in Nat /\ 1 <= ids' /\ machine' <= ids' /\ machine' > 1
      /\ machine > 1 => machine' = machine
 <2>1. CASE machine <= 1
  <3>1. machine' = ids + 1 /\ ids' = ids + 1  BY <2>1 DEF Rootfs!Identity
  <3> QED  BY <1>2, <2>1, <3>1
 <2>2. CASE ~(machine <= 1)
  <3>1. machine' = machine /\ ids' = ids  BY <2>2 DEF Rootfs!Identity
  <3> QED  BY <1>2, <2>2, <3>1
 <2> QED  BY <2>1, <2>2
<1>4. patches' \in -1 .. 1 /\ patches' # 0 /\ (patches # 0 => patches' = patches)
  BY <1>1, <1>2 DEF Rootfs!Guarded
<1>5. RootfsTypes'  BY <1>1, <1>4 DEF RootfsInv, RootfsTypes, RunStages
<1>6. Counters'  BY <1>1, <1>3 DEF RootfsInv, Counters
<1>7. AccountTypes' /\ Entries'  BY <1>1 DEF RootfsInv, AccountTypes, Entries
<1>8. IdentityDone' /\ StagesDone'
  BY <1>1, <1>3, <1>4 DEF IdentityDone, RootfsInv, StagesDone, TextsDone
<1>9. SettledInv'
 <2>1. CASE settled = <<>>  BY <1>1, <2>1 DEF SettledInv
 <2>2. CASE settled # <<>>
  <3>1. SettledInv /\ IdentityDone  BY <2>2 DEF RootfsInv, SettledInv
  <3>2. machine' = machine /\ patches' = patches  BY <1>3, <1>4, <3>1 DEF IdentityDone
  <3> QED  BY <1>1, <2>2, <3>1, <3>2 DEF SettledInv, TextsDone, IdentityDone, RenamesDone,
              AppendsDone, Rootfs!files
 <2> QED  BY <2>1, <2>2
<1>10. Rootfs!KeepsUserFiles /\ Rootfs!SettledStays
  BY <1>1, <1>3 DEF Rootfs!KeepsUserFiles, Rootfs!SettledStays
<1> QED  BY <1>5, <1>6, <1>7, <1>8, <1>9, <1>10 DEF RootfsStep, RootfsInv

----
\* The accounts before and after the renaming: the same ids, all of the user's
\* are muplar's, and root and the other names are where they were.
LEMMA RenamedAccounts ==
    ASSUME NEW acs \in Seq(Rootfs!Entry), NEW bs, bs = Rootfs!Renamed(acs)
    PROVE  /\ bs \in Seq(Rootfs!Entry) /\ Named(bs, shell) /\ Rootfs!OwnIds(bs) = Rootfs!OwnIds(acs)
           /\ Rootfs!OwnGroups(acs) => Rootfs!OwnGroups(bs)
           /\ NoOther(acs) => NoOther(bs)
           /\ NoOther(acs) /\ Rootfs!Knows(bs, "muplar") => Rootfs!FirstName(bs) = "muplar"
           /\ \A i \in DOMAIN acs : acs[i].uid # 1000 => bs[i] = acs[i]
<1>1. /\ bs \in Seq(Rootfs!Entry) /\ Len(bs) = Len(acs) /\ Len(acs) \in Nat
      /\ \A i \in 1 .. Len(acs) : OneRenamed(acs[i], bs[i])
  BY RenamedSeq
<1>2. \A i \in 1 .. Len(acs) :
          /\ bs[i].uid = acs[i].uid /\ bs[i].gid = acs[i].gid
          /\ acs[i].uid # 1000 => bs[i] = acs[i]
          /\ acs[i].uid = 1000 => bs[i].name = "muplar" /\ (bs[i].sh = "sh" => shell = "none")
  BY <1>1 DEF OneRenamed
<1>3. Named(bs, shell)  BY <1>1, <1>2 DEF Named
<1>4. Rootfs!OwnIds(bs) = Rootfs!OwnIds(acs)
 <2>1. DOMAIN acs = 1 .. Len(acs) /\ DOMAIN bs = 1 .. Len(acs)  BY <1>1
 <2> QED  BY <1>2, <2>1 DEF Rootfs!OwnIds
<1>5. ASSUME Rootfs!OwnGroups(acs) PROVE Rootfs!OwnGroups(bs)
  BY <1>1, <1>2, <1>5 DEF Rootfs!OwnGroups
<1>6. ASSUME NoOther(acs) PROVE NoOther(bs)  BY <1>1, <1>2, <1>6 DEF NoOther
<1>7. ASSUME NoOther(acs), Rootfs!Knows(bs, "muplar") PROVE Rootfs!FirstName(bs) = "muplar"
 <2>1. Rootfs!OwnIds(bs) # {}  BY <1>6, <1>7 DEF Rootfs!Knows, NoOther, Rootfs!OwnIds
 <2> QED  BY <1>1, <1>3, <2>1, FirstNamed
<1>8. \A i \in DOMAIN acs : acs[i].uid # 1000 => bs[i] = acs[i]  BY <1>1, <1>2
<1> QED  BY <1>1, <1>3, <1>4, <1>5, <1>6, <1>7, <1>8

\* An entry of shadow before and after it.
OneSecret(a, b, old) ==
    /\ a.name = old => b.name = "muplar" /\ b.pw = ""
    /\ a.name # old => b = a

\* The entry that needs no password.
LEMMA OpenSecret ==
    ASSUME NEW c, c = [name |-> "muplar", pw |-> ""]
    PROVE  c \in Rootfs!Secret /\ c.name = "muplar" /\ c.pw = ""
BY MuplarIsWord DEF Rootfs!Secret

\* The entry of the old name becomes muplar's, without a password.
LEMMA RenamedSecrets ==
    ASSUME NEW ss \in Seq(Rootfs!Secret), NEW old, NEW ts, ts = Rootfs!RenamedShadow(ss, old)
    PROVE  /\ ts \in Seq(Rootfs!Secret) /\ Len(ts) = Len(ss) /\ Len(ss) \in Nat
           /\ \A i \in 1 .. Len(ss) : OneSecret(ss[i], ts[i], old)
<1>1. PICK n \in Nat : n = Len(ss) /\ DOMAIN ss = 1 .. n  OBVIOUS
<1>2. ts = [i \in 1 .. n |-> IF ss[i].name = old THEN [name |-> "muplar", pw |-> ""] ELSE ss[i]]
  BY <1>1 DEF Rootfs!RenamedShadow
<1>3. PICK c : c = [name |-> "muplar", pw |-> ""]  OBVIOUS
<1>6. c \in Rootfs!Secret /\ c.name = "muplar" /\ c.pw = ""  BY <1>3, OpenSecret
<1>4. ASSUME NEW i \in 1 .. n PROVE ts[i] \in Rootfs!Secret /\ OneSecret(ss[i], ts[i], old)
 <2>1. ss[i] \in Rootfs!Secret  BY <1>1
 <2>2. CASE ss[i].name = old
  <3>1. ts[i] = c  BY <1>2, <1>3, <2>2
  <3> QED  BY <1>6, <2>2, <3>1 DEF OneSecret
 <2>3. CASE ss[i].name # old
  <3>1. ts[i] = ss[i]  BY <1>2, <2>3
  <3> QED  BY <2>1, <2>3, <3>1 DEF OneSecret
 <2> QED  BY <2>2, <2>3
<1>5. ts \in Seq(Rootfs!Secret) /\ Len(ts) = n
 <2>1. ts \in [1 .. n -> Rootfs!Secret]  BY <1>2, <1>4
 <2> QED  BY <2>1
<1> QED  BY <1>1, <1>4, <1>5

\* Whose name is looked for has no password after this, and nor has muplar; the
\* others keep theirs.
LEMMA SecretsOpen ==
    ASSUME NEW ss \in Seq(Rootfs!Secret), NEW old, NEW ts, ts = Rootfs!RenamedShadow(ss, old),
           Opens(ss) \/ old = "muplar"
    PROVE  /\ ts \in Seq(Rootfs!Secret) /\ Opens(ts)
           /\ \A i \in DOMAIN ss : ss[i].name # old => ts[i] = ss[i]
<1>1. /\ ts \in Seq(Rootfs!Secret) /\ Len(ts) = Len(ss) /\ Len(ss) \in Nat
      /\ \A i \in 1 .. Len(ss) : OneSecret(ss[i], ts[i], old)
  BY RenamedSecrets
<1>2. \A i \in 1 .. Len(ss) : ts[i].name = "muplar" => ts[i].pw = ""  BY <1>1 DEF OneSecret, Opens
<1>3. Opens(ts)  BY <1>1, <1>2 DEF Opens
<1>4. \A i \in DOMAIN ss : ss[i].name # old => ts[i] = ss[i]
 <2>1. DOMAIN ss = 1 .. Len(ss)  OBVIOUS
 <2> QED  BY <1>1, <2>1 DEF OneSecret
<1> QED  BY <1>1, <1>3, <1>4

\* Nothing is renamed twice.
LEMMA SecretsSame ==
    ASSUME NEW ss \in Seq(Rootfs!Secret), Opens(ss)
    PROVE  Rootfs!RenamedShadow(ss, "muplar") = ss
<1>1. PICK n \in Nat : n = Len(ss) /\ DOMAIN ss = 1 .. n /\ ss = [i \in 1 .. n |-> ss[i]]  OBVIOUS
<1>2. ASSUME NEW i \in 1 .. n
      PROVE  (IF ss[i].name = "muplar" THEN [name |-> "muplar", pw |-> ""] ELSE ss[i]) = ss[i]
 <2>1. CASE ss[i].name = "muplar"
  <3>1. ss[i] \in Rootfs!Secret  BY <1>1
  <3>2. ss[i].pw = ""  BY <1>1, <2>1 DEF Opens
  <3>3. PICK m, w : ss[i] = [name |-> m, pw |-> w]  BY <3>1 DEF Rootfs!Secret
  <3> QED  BY <2>1, <3>2, <3>3
 <2> QED  BY <2>1
<1>3. Rootfs!RenamedShadow(ss, "muplar") = [i \in 1 .. n |-> ss[i]]
  BY <1>1, <1>2 DEF Rootfs!RenamedShadow
<1> QED  BY <1>1, <1>3

\* After the renaming of passwd the shadow entries fit as before.
LEMMA RenamedFits ==
    ASSUME NEW acs \in Seq(Rootfs!Entry), NEW bs, bs = Rootfs!Renamed(acs)
    PROVE  /\ Rootfs!OwnIds(bs) = Rootfs!OwnIds(acs)
           /\ Rootfs!OwnIds(acs) # {} => Rootfs!FirstName(bs) = "muplar"
<1>1. bs \in Seq(Rootfs!Entry) /\ Named(bs, shell) /\ Rootfs!OwnIds(bs) = Rootfs!OwnIds(acs)
  BY RenamedAccounts
<1> QED  BY <1>1, FirstNamed

\* RenameAccounts.
LEMMA RenameAccountsKeeps == ASSUME RootfsInv, Rootfs!RenameAccounts PROVE RootfsStep
<1>1. /\ pc = "passwd" /\ pc' = "shadow"
      /\ passwd' = Rootfs!Renamed(passwd) /\ group' = Rootfs!Renamed(group)
      /\ shadow' = Rootfs!RenamedShadow(shadow, Rootfs!FirstName(passwd))
      /\ UNCHANGED <<text, elfuse, resolv, foot, machine, patches, shell, desktop>>
      /\ UNCHANGED <<cache, runs, edits, ids, extracted, settled>>
  BY DEF Rootfs!RenameAccounts, Rootfs!Go, Rootfs!Rest, Rootfs!OldName
<1>2. passwd \in Seq(Rootfs!Entry) /\ group \in Seq(Rootfs!Entry) /\ shadow \in Seq(Rootfs!Secret)
  BY DEF RootfsInv, AccountTypes
<1>3. PICK p, g, s : p = passwd' /\ g = group' /\ s = shadow'  OBVIOUS
<1>4. /\ Rootfs!OwnGroups(passwd) /\ Rootfs!OwnGroups(group) /\ NoOther(passwd)
      /\ Opens(shadow) \/ Rootfs!FirstName(passwd) = "muplar"
      /\ shell = "none" => Opens(shadow)
  BY DEF RootfsInv, Entries
<1>5. /\ p \in Seq(Rootfs!Entry) /\ Named(p, shell) /\ Rootfs!OwnIds(p) = Rootfs!OwnIds(passwd)
      /\ Rootfs!OwnGroups(p) /\ NoOther(p)
      /\ Rootfs!Knows(p, "muplar") => Rootfs!FirstName(p) = "muplar"
      /\ \A i \in DOMAIN passwd : passwd[i].uid # 1000 => p[i] = passwd[i]
  BY <1>1, <1>2, <1>3, <1>4, RenamedAccounts
<1>6. g \in Seq(Rootfs!Entry) /\ Named(g, shell) /\ Rootfs!OwnGroups(g)
  BY <1>1, <1>2, <1>3, <1>4, RenamedAccounts
<1>7. /\ s \in Seq(Rootfs!Secret) /\ Opens(s)
      /\ \A i \in DOMAIN shadow : shadow[i].name # Rootfs!FirstName(passwd) => s[i] = shadow[i]
  BY <1>1, <1>2, <1>3, <1>4, SecretsOpen
<1>10. Entries'  BY <1>1, <1>3, <1>5, <1>6, <1>7 DEF Entries
<1>11. AccountTypes'  BY <1>3, <1>5, <1>6, <1>7 DEF AccountTypes
<1>12. RootfsTypes' /\ Counters'  BY <1>1 DEF RootfsInv, RootfsTypes, Counters, RunStages
<1>13. StagesDone'
 <2>1. RenamesDone'  BY <1>1, <1>3, <1>5, <1>6, <1>7 DEF RenamesDone
 <2>2. IdentityDone' /\ (~extracted' => TextsDone')
   BY <1>1 DEF RootfsInv, StagesDone, IdentityDone, TextsDone
 <2> QED  BY <1>1, <2>1, <2>2 DEF StagesDone
<1>14. SettledInv'
 <2>1. CASE settled = <<>>  BY <1>1, <2>1 DEF SettledInv
 <2>2. CASE settled # <<>>
  <3>1. SettledInv /\ RenamesDone /\ AppendsDone /\ shell # "none"
    BY <2>2 DEF RootfsInv, SettledInv
  <3>2. Named(passwd, shell) /\ Named(group, shell) /\ Opens(shadow) /\ Rootfs!OwnIds(passwd) # {}
    BY <3>1 DEF RenamesDone, AppendsDone
  <3>3. passwd' = passwd /\ group' = group  BY <1>1, <1>2, <3>1, <3>2, RenamedSame
  <3>4. Rootfs!FirstName(passwd) = "muplar"  BY <1>2, <3>2, FirstNamed
  <3>5. shadow' = shadow  BY <1>1, <1>2, <3>2, <3>4, SecretsSame
  <3> QED  BY <1>1, <2>2, <3>1, <3>3, <3>5 DEF SettledInv, TextsDone, IdentityDone, RenamesDone,
       AppendsDone, Rootfs!files
 <2> QED  BY <2>1, <2>2
<1>15. Rootfs!KeepsUserFiles /\ Rootfs!SettledStays
 <2>1. /\ \A i \in DOMAIN passwd : passwd[i].uid # 1000 => passwd'[i] = passwd[i]
       /\ \A i \in DOMAIN shadow : shadow[i].name # Rootfs!OldName => shadow'[i] = shadow[i]
   BY <1>3, <1>5, <1>7 DEF Rootfs!OldName
 <2> QED  BY <1>1, <2>1 DEF Rootfs!KeepsUserFiles, Rootfs!SettledStays
<1> QED  BY <1>10, <1>11, <1>12, <1>13, <1>14, <1>15 DEF RootfsStep, RootfsInv

\* RenameStopsShort: the next run still finds the entry of shadow.
LEMMA RenameStopsShortKeeps == ASSUME RootfsInv, Rootfs!RenameStopsShort PROVE RootfsStep
<1>1. /\ pc = "passwd" /\ pc' = "idle" /\ passwd' = Rootfs!Renamed(passwd) /\ settled' = <<>>
      /\ UNCHANGED <<text, elfuse, resolv, foot, machine, patches, group, shadow, shell, desktop>>
      /\ UNCHANGED <<cache, runs, edits, ids, extracted>>
  BY DEF Rootfs!RenameStopsShort, Rootfs!Go, Rootfs!Rest
<1>2. passwd \in Seq(Rootfs!Entry)  BY DEF RootfsInv, AccountTypes
<1>3. PICK p : p = passwd'  OBVIOUS
<1>4. /\ Rootfs!OwnGroups(passwd) /\ Rootfs!OwnGroups(group) /\ NoOther(passwd)
      /\ Opens(shadow) \/ Rootfs!FirstName(passwd) = "muplar"
      /\ shell = "none" => Opens(shadow)
  BY DEF RootfsInv, Entries
<1>5. /\ p \in Seq(Rootfs!Entry) /\ Named(p, shell) /\ Rootfs!OwnIds(p) = Rootfs!OwnIds(passwd)
      /\ Rootfs!OwnGroups(p) /\ NoOther(p)
      /\ Rootfs!Knows(p, "muplar") => Rootfs!FirstName(p) = "muplar"
      /\ \A i \in DOMAIN passwd : passwd[i].uid # 1000 => p[i] = passwd[i]
  BY <1>1, <1>2, <1>3, <1>4, RenamedAccounts
<1>6. Rootfs!OwnIds(passwd) # {} => Rootfs!FirstName(p) = "muplar"
  BY <1>1, <1>2, <1>3, RenamedFits
<1>7. Rootfs!FirstName(passwd) = "muplar" => Rootfs!OwnIds(passwd) # {}  BY NamedFirst
<1>8. Entries'  BY <1>1, <1>3, <1>4, <1>5, <1>6, <1>7 DEF Entries
<1>9. AccountTypes'  BY <1>1, <1>3, <1>5 DEF RootfsInv, AccountTypes
<1>10. RootfsTypes' /\ Counters'  BY <1>1 DEF RootfsInv, RootfsTypes, Counters, RunStages
<1>11. StagesDone' /\ SettledInv' /\ Rootfs!SettledStays
  BY <1>1 DEF StagesDone, SettledInv, Rootfs!SettledStays
<1>12. Rootfs!KeepsUserFiles
 <2>1. \A i \in DOMAIN passwd : passwd[i].uid # 1000 => passwd'[i] = passwd[i]  BY <1>3, <1>5
 <2> QED  BY <1>1, <2>1 DEF Rootfs!KeepsUserFiles
<1> QED  BY <1>8, <1>9, <1>10, <1>11, <1>12 DEF RootfsStep, RootfsInv

----
\* A file with another account at its end.
Added(acs, a) == Append(acs, a)

\* Nobody else is called muplar or has the user's group.
Honest(a) == a.gid = a.uid /\ (a.name = "muplar" => a.uid = 1000)

\* An account is added: what was known stays, and an account of another user
\* changes nothing else.
LEMMA AddedAccount ==
    ASSUME NEW acs \in Seq(Rootfs!Entry), NEW a \in Rootfs!Entry, NEW bs, bs = Added(acs, a),
           Honest(a)
    PROVE  /\ bs \in Seq(Rootfs!Entry)
           /\ Rootfs!OwnGroups(acs) => Rootfs!OwnGroups(bs)
           /\ NoOther(acs) => NoOther(bs)
           /\ \A i \in DOMAIN acs : bs[i] = acs[i]
           /\ Rootfs!Knows(bs, "muplar") => Rootfs!Knows(acs, "muplar") \/ a.name = "muplar"
           /\ Rootfs!OwnIds(acs) # {} => Rootfs!OwnIds(bs) # {}
           /\ a.uid = 1000 => Rootfs!OwnIds(bs) # {}
           /\ Rootfs!FirstName(acs) = "muplar" => Rootfs!FirstName(bs) = "muplar"
<1>1. PICK n \in Nat : n = Len(acs)  OBVIOUS
<1>2. /\ bs \in Seq(Rootfs!Entry) /\ Len(bs) = n + 1 /\ DOMAIN bs = 1 .. (n + 1)
      /\ bs[n + 1] = a /\ \A i \in 1 .. n : bs[i] = acs[i]
      /\ Rootfs!OwnIds(acs) \subseteq Rootfs!OwnIds(bs)
      /\ Rootfs!FirstName(acs) = "muplar" => Rootfs!FirstName(bs) = "muplar"
 <2>1. Rootfs!OwnIds(acs) \subseteq Rootfs!OwnIds(bs) /\ (Rootfs!FirstName(acs) = "muplar" => Rootfs!FirstName(bs) = "muplar")
   BY FirstAppend DEF Added
 <2>2. /\ bs \in Seq(Rootfs!Entry) /\ Len(bs) = n + 1 /\ DOMAIN bs = 1 .. (n + 1)
       /\ bs[n + 1] = a /\ \A i \in 1 .. n : bs[i] = acs[i]
   BY <1>1 DEF Added
 <2> QED  BY <2>1, <2>2
<1>3. \A i \in 1 .. Len(bs) : i \in 1 .. n \/ i = n + 1  BY <1>1, <1>2
<1>4. ASSUME Rootfs!OwnGroups(acs) PROVE Rootfs!OwnGroups(bs)
  BY <1>1, <1>2, <1>3, <1>4 DEF Rootfs!OwnGroups, Honest
<1>5. ASSUME NoOther(acs) PROVE NoOther(bs)  BY <1>1, <1>2, <1>3, <1>5 DEF NoOther, Honest
<1>6. Rootfs!Knows(bs, "muplar") => Rootfs!Knows(acs, "muplar") \/ a.name = "muplar"
  BY <1>1, <1>2, <1>3 DEF Rootfs!Knows
<1>8. \A i \in DOMAIN acs : bs[i] = acs[i]
 <2>1. DOMAIN acs = 1 .. n  BY <1>1
 <2> QED  BY <1>2, <2>1
<1>7. a.uid = 1000 => n + 1 \in Rootfs!OwnIds(bs)  BY <1>1, <1>2 DEF Rootfs!OwnIds
<1> QED  BY <1>2, <1>4, <1>5, <1>6, <1>7, <1>8

\* muplar's account keeps the names in order.
LEMMA AddedNamed ==
    ASSUME NEW acs \in Seq(Rootfs!Entry), NEW a \in Rootfs!Entry, NEW bs, bs = Added(acs, a),
         NEW sh,
           Named(acs, sh), a.name = "muplar", a.sh = "sh" => sh = "none"
    PROVE  Named(bs, sh)
<1>1. PICK n \in Nat : n = Len(acs)  OBVIOUS
<1>2. /\ Len(bs) = n + 1 /\ bs[n + 1] = a /\ \A i \in 1 .. n : bs[i] = acs[i]
  BY <1>1, FirstAppend DEF Added
<1>3. \A i \in 1 .. Len(bs) : i \in 1 .. n \/ i = n + 1  BY <1>1, <1>2
<1> QED  BY <1>1, <1>2, <1>3 DEF Named

\* A secret is added.
LEMMA AddedSecret ==
    ASSUME NEW ss \in Seq(Rootfs!Secret), NEW c \in Rootfs!Secret, NEW ts, ts = Append(ss, c)
    PROVE  /\ ts \in Seq(Rootfs!Secret) /\ ts # <<>>
           /\ \A n : Rootfs!Knows(ts, n) <=> Rootfs!Knows(ss, n) \/ c.name = n
           /\ Opens(ss) /\ (c.name = "muplar" => c.pw = "") => Opens(ts)
           /\ \A i \in DOMAIN ss : ts[i] = ss[i]
<1>1. PICK n \in Nat : n = Len(ss)  OBVIOUS
<1>2. /\ ts \in Seq(Rootfs!Secret) /\ Len(ts) = n + 1 /\ ts[n + 1] = c /\ \A i \in 1 .. n : ts[i] = ss[i]
  BY <1>1
<1>3. \A i \in 1 .. Len(ts) : i \in 1 .. n \/ i = n + 1  BY <1>1, <1>2
<1>4. ts # <<>>  BY <1>2
<1>5. ASSUME NEW m PROVE Rootfs!Knows(ts, m) <=> Rootfs!Knows(ss, m) \/ c.name = m
  BY <1>1, <1>2, <1>3 DEF Rootfs!Knows
<1>6. ASSUME Opens(ss), c.name = "muplar" => c.pw = "" PROVE Opens(ts)
  BY <1>1, <1>2, <1>3, <1>6 DEF Opens
<1>7. \A i \in DOMAIN ss : ts[i] = ss[i]
 <2>1. DOMAIN ss = 1 .. n  BY <1>1
 <2> QED  BY <1>2, <2>1
<1> QED  BY <1>2, <1>4, <1>5, <1>6, <1>7

\* The shells of the accounts that are appended.
LEMMA LoginShellIs == Rootfs!LoginShell \in Rootfs!Words /\ (Rootfs!LoginShell = "sh" => shell = "none")
<1>1. CASE shell = "none"  BY <1>1 DEF Rootfs!LoginShell, Rootfs!Words
<1>2. CASE shell # "none"  BY <1>2 DEF Rootfs!LoginShell, Rootfs!Words
<1> QED  BY <1>1, <1>2

\* The accounts that are appended.
MuplarOwn(a) ==
    /\ a \in Rootfs!Entry /\ a.name = "muplar" /\ a.uid = 1000 /\ a.gid = 1000
    /\ a.sh = "sh" => shell = "none"

\* The account muplar adds to passwd is one of its own.
LEMMA OwnLogin ==
    ASSUME NEW a, a = Rootfs!Account("muplar", 1000, 1000, Rootfs!LoginShell)
    PROVE  MuplarOwn(a)
<1>1. Rootfs!LoginShell \in Rootfs!Words /\ (Rootfs!LoginShell = "sh" => shell = "none")
  BY LoginShellIs
<1>2. a = [name |-> "muplar", uid |-> 1000, gid |-> 1000, sh |-> Rootfs!LoginShell]
  BY DEF Rootfs!Account
<1>3. a \in Rootfs!Entry  BY <1>1, <1>2, MuplarIsWord DEF Rootfs!Entry
<1>4. a.name = "muplar" /\ a.uid = 1000 /\ a.gid = 1000 /\ a.sh = Rootfs!LoginShell  BY <1>2
<1> QED  BY <1>1, <1>3, <1>4 DEF MuplarOwn

\* The account muplar adds to group is one of its own.
LEMMA OwnGroup ==
    ASSUME NEW a, a = Rootfs!Account("muplar", 1000, 1000, "none")
    PROVE  MuplarOwn(a)
<1>1. "none" \in Rootfs!Words  BY DEF Rootfs!Words
<1>2. a = [name |-> "muplar", uid |-> 1000, gid |-> 1000, sh |-> "none"]  BY DEF Rootfs!Account
<1>3. a \in Rootfs!Entry  BY <1>1, <1>2, MuplarIsWord DEF Rootfs!Entry
<1>4. a.name = "muplar" /\ a.uid = 1000 /\ a.gid = 1000 /\ a.sh = "none"  BY <1>2
<1> QED  BY <1>3, <1>4 DEF MuplarOwn

\* An account file after AppendAccounts has an account of the user's.
LEMMA AppendedFile ==
    ASSUME NEW old \in Seq(Rootfs!Entry), NEW own, MuplarOwn(own),
           NEW new, Rootfs!HasId(old) => new = old, ~Rootfs!HasId(old) => new = Added(old, own),
           Rootfs!OwnGroups(old), Named(old, shell)
    PROVE  /\ new \in Seq(Rootfs!Entry) /\ Rootfs!OwnGroups(new) /\ Named(new, shell) /\ Rootfs!OwnIds(new) # {}
           /\ NoOther(old) => NoOther(new)
           /\ \A i \in DOMAIN old : new[i] = old[i]
           /\ Rootfs!FirstName(new) = "muplar"
           /\ Rootfs!OwnIds(old) # {} => new = old
<1>1. Rootfs!HasId(old) <=> Rootfs!OwnIds(old) # {}  BY HasIdIs
<1>2. CASE Rootfs!OwnIds(old) # {}
 <2>1. new = old  BY <1>1, <1>2
 <2> QED  BY <1>2, <2>1, FirstNamed
<1>3. CASE Rootfs!OwnIds(old) = {}
 <2>1. /\ own \in Rootfs!Entry /\ Honest(own) /\ own.name = "muplar" /\ own.uid = 1000
       /\ own.sh = "sh" => shell = "none"
   BY DEF MuplarOwn, Honest
 <2>2. new = Added(old, own)  BY <1>1, <1>3
 <2>3. /\ new \in Seq(Rootfs!Entry) /\ Rootfs!OwnGroups(new) /\ Rootfs!OwnIds(new) # {}
       /\ NoOther(old) => NoOther(new)
       /\ \A i \in DOMAIN old : new[i] = old[i]
   BY <2>1, <2>2, AddedAccount
 <2>4. Named(new, shell)  BY <2>1, <2>2, AddedNamed
 <2>5. Rootfs!FirstName(new) = "muplar"  BY <2>3, <2>4, FirstNamed
 <2> QED  BY <1>3, <2>3, <2>4, <2>5
<1> QED  BY <1>2, <1>3

\* AppendAccounts.
LEMMA AppendAccountsKeeps == ASSUME RootfsInv, Rootfs!AppendAccounts PROVE RootfsStep
<1>1. /\ pc = "shadow" /\ pc' = "scripts"
      /\ UNCHANGED <<text, elfuse, resolv, foot, machine, patches, shell, desktop>>
      /\ UNCHANGED <<cache, runs, edits, ids, extracted, settled>>
  BY DEF Rootfs!AppendAccounts, Rootfs!Go, Rootfs!Rest
<1>2. passwd \in Seq(Rootfs!Entry) /\ group \in Seq(Rootfs!Entry) /\ shadow \in Seq(Rootfs!Secret)
  BY DEF RootfsInv, AccountTypes
<1>3. PICK p, g, s : p = passwd' /\ g = group' /\ s = shadow'  OBVIOUS
<1>4. Rootfs!OwnGroups(passwd) /\ Rootfs!OwnGroups(group) /\ NoOther(passwd)
  BY DEF RootfsInv, Entries
<1>5. Named(passwd, shell) /\ Named(group, shell) /\ Opens(shadow)
  BY <1>1 DEF RootfsInv, StagesDone, RenamesDone
<1>6. PICK a : a = Rootfs!Account("muplar", 1000, 1000, Rootfs!LoginShell)  OBVIOUS
<1>7. PICK b : b = Rootfs!Account("muplar", 1000, 1000, "none")  OBVIOUS
<1>10. MuplarOwn(a) /\ MuplarOwn(b)  BY <1>6, <1>7, OwnLogin, OwnGroup
<1>8. /\ Rootfs!HasId(passwd) => p = passwd
      /\ ~Rootfs!HasId(passwd) => p = Added(passwd, a)
      /\ Rootfs!HasId(group) => g = group
      /\ ~Rootfs!HasId(group) => g = Added(group, b)
 <2>1. p = IF Rootfs!HasId(passwd) THEN passwd ELSE Append(passwd, Rootfs!Account("muplar", 1000, 1000, Rootfs!LoginShell))
   BY <1>3 DEF Rootfs!AppendAccounts
 <2>2. g = IF Rootfs!HasId(group) THEN group ELSE Append(group, Rootfs!Account("muplar", 1000, 1000, "none"))
   BY <1>3 DEF Rootfs!AppendAccounts
 <2> QED  BY <1>6, <1>7, <2>1, <2>2 DEF Added
<1>9. /\ p \in Seq(Rootfs!Entry) /\ Rootfs!OwnGroups(p) /\ Named(p, shell) /\ Rootfs!OwnIds(p) # {} /\ NoOther(p)
      /\ \A i \in DOMAIN passwd : p[i] = passwd[i]
      /\ Rootfs!FirstName(p) = "muplar" /\ (Rootfs!OwnIds(passwd) # {} => p = passwd)
  BY <1>2, <1>4, <1>5, <1>8, <1>10, AppendedFile
<1>11. /\ g \in Seq(Rootfs!Entry) /\ Rootfs!OwnGroups(g) /\ Named(g, shell) /\ Rootfs!OwnIds(g) # {}
       /\ Rootfs!OwnIds(group) # {} => g = group
  BY <1>2, <1>4, <1>5, <1>8, <1>10, AppendedFile
<1>12. /\ s \in Seq(Rootfs!Secret) /\ Opens(s) /\ (s # <<>> => Rootfs!Knows(s, "muplar"))
       /\ (shadow # <<>> => Rootfs!Knows(shadow, "muplar")) => s = shadow
       /\ \A i \in DOMAIN shadow : s[i] = shadow[i]
 <2>1. (\E c \in Rootfs!Range(shadow) : c.name = "muplar") <=> Rootfs!Knows(shadow, "muplar")
   BY <1>2 DEF Rootfs!Range, Rootfs!Knows
 <2>2. CASE shadow = <<>> \/ Rootfs!Knows(shadow, "muplar")
  <3>1. s = shadow  BY <1>3, <2>1, <2>2 DEF Rootfs!AppendAccounts
  <3> QED  BY <1>2, <1>5, <2>2, <3>1
 <2>3. CASE shadow # <<>> /\ ~Rootfs!Knows(shadow, "muplar")
  <3>1. PICK c : c = [name |-> "muplar", pw |-> ""]  OBVIOUS
  <3>2. s = Append(shadow, c)  BY <1>3, <2>1, <2>3, <3>1 DEF Rootfs!AppendAccounts
  <3>3. c \in Rootfs!Secret /\ c.name = "muplar" /\ c.pw = ""
    BY <3>1, MuplarIsWord DEF Rootfs!Secret
  <3>4. s \in Seq(Rootfs!Secret) /\ Rootfs!Knows(s, "muplar") /\ Opens(s)
    BY <1>2, <1>5, <3>2, <3>3, AddedSecret
  <3>5. \A i \in DOMAIN shadow : s[i] = shadow[i]  BY <1>2, <3>2
  <3> QED  BY <2>3, <3>4, <3>5
 <2> QED  BY <2>2, <2>3
<1>13. Entries'  BY <1>3, <1>9, <1>11, <1>12 DEF Entries
<1>20. AccountTypes'  BY <1>3, <1>9, <1>11, <1>12 DEF AccountTypes
<1>15. RootfsTypes' /\ Counters'  BY <1>1 DEF RootfsInv, RootfsTypes, Counters, RunStages
<1>16. RenamesDone' /\ AppendsDone'
  BY <1>1, <1>3, <1>9, <1>11, <1>12 DEF RenamesDone, AppendsDone
<1>17. StagesDone'
 <2>1. IdentityDone' /\ (~extracted' => TextsDone')
   BY <1>1 DEF RootfsInv, StagesDone, IdentityDone, TextsDone
 <2> QED  BY <1>1, <1>16, <2>1 DEF StagesDone
<1>18. SettledInv'
 <2>1. CASE settled = <<>>  BY <1>1, <2>1 DEF SettledInv
 <2>2. CASE settled # <<>>
  <3>1. SettledInv /\ AppendsDone  BY <2>2 DEF RootfsInv, SettledInv
  <3>2. passwd' = passwd /\ group' = group /\ shadow' = shadow
    BY <1>3, <1>9, <1>11, <1>12, <3>1 DEF AppendsDone
  <3> QED  BY <1>1, <2>2, <3>1, <3>2 DEF SettledInv, TextsDone, IdentityDone, RenamesDone,
              AppendsDone, Rootfs!files
 <2> QED  BY <2>1, <2>2
<1>19. Rootfs!KeepsUserFiles /\ Rootfs!SettledStays
 <2>1. /\ \A i \in DOMAIN passwd : passwd'[i] = passwd[i]
       /\ \A i \in DOMAIN shadow : shadow'[i] = shadow[i]
   BY <1>3, <1>9, <1>12
 <2> QED  BY <1>1, <2>1 DEF Rootfs!KeepsUserFiles, Rootfs!SettledStays
<1> QED  BY <1>13, <1>15, <1>17, <1>20, <1>18, <1>19 DEF RootfsStep, RootfsInv

----
\* WriteScripts ends the run; what it settles has been through every step.
LEMMA WriteScriptsKeeps == ASSUME RootfsInv, Rootfs!WriteScripts PROVE RootfsStep
<1>1. /\ pc = "scripts" /\ pc' = "idle"
      /\ UNCHANGED <<resolv, foot, machine, patches, passwd, group, shadow, shell, desktop>>
      /\ UNCHANGED <<cache, runs, edits, ids, extracted>>
      /\ settled' = (IF extracted \/ shell = "none" THEN <<>> ELSE Rootfs!files') /\ elfuse' = TRUE
  BY DEF Rootfs!WriteScripts, Rootfs!Go, Rootfs!Rest
<1>2. /\ text \in [Rootfs!Kept -> {"none", "muplar", "distro", "user"}]
      /\ text' = [text EXCEPT !["sudoers"] = Rootfs!IfMissing(text["sudoers"])]
  BY DEF Rootfs!WriteScripts, RootfsInv, RootfsTypes
<1>3. /\ text' \in [Rootfs!Kept -> {"none", "muplar", "distro", "user"}] /\ text'["sudoers"] # "none"
      /\ \A f \in Rootfs!Kept : text[f] # "none" => text'[f] = text[f]
      /\ text["sudoers"] # "none" => text' = text
 <2>1. \A f \in Rootfs!Kept : text[f] \in {"none", "muplar", "distro", "user"}  BY <1>2
 <2>2. \A f \in Rootfs!Kept : text'[f] = IF f = "sudoers" THEN Rootfs!IfMissing(text["sudoers"]) ELSE text[f]
   BY <1>2
 <2>3. "sudoers" \in Rootfs!Kept  BY DEF Rootfs!Kept
 <2>4. text'["sudoers"] = Rootfs!IfMissing(text["sudoers"])  BY <2>2, <2>3
 <2>5. text["sudoers"] # "none" => text' = text  BY <1>2 DEF Rootfs!IfMissing
 <2>6. text' \in [Rootfs!Kept -> {"none", "muplar", "distro", "user"}]
   BY <1>2, <2>1, <2>3 DEF Rootfs!IfMissing
 <2>7. text'["sudoers"] # "none"  BY <2>4 DEF Rootfs!IfMissing
 <2>8. \A f \in Rootfs!Kept : text[f] # "none" => text'[f] = text[f]
   BY <2>2 DEF Rootfs!IfMissing
 <2> QED  BY <2>5, <2>6, <2>7, <2>8
<1>4. RootfsTypes'
 <2>1. /\ resolv' \in {"none", "muplar", "distro", "user", "empty", "symlink", "dangling"}
       /\ foot' \in {"none", "4", "16", "user"} /\ desktop' \in {"none", "link", "other", "dir"}
       /\ patches' \in -1 .. 1 /\ shell' \in {"none", "stub", "distro"}
       /\ cache' \in {"none", "partial", "whole"} /\ extracted' \in BOOLEAN
   BY <1>1 DEF RootfsInv, RootfsTypes
 <2> QED  BY <1>1, <1>3, <2>1 DEF RootfsTypes, RunStages
<1>5. Counters' /\ AccountTypes' /\ Entries'
  BY <1>1 DEF RootfsInv, Counters, AccountTypes, Entries
<1>6. StagesDone'  BY <1>1 DEF StagesDone
<1>7. SettledInv'
 <2>1. CASE extracted \/ shell = "none"
  <3>1. settled' = <<>>  BY <1>1, <2>1
  <3> QED  BY <3>1 DEF SettledInv
 <2>2. CASE ~extracted /\ shell # "none"
  <3>1. settled' = Rootfs!files'  BY <1>1, <2>2
  <3>2. TextsDone /\ IdentityDone /\ RenamesDone /\ AppendsDone
    BY <1>1, <2>2 DEF RootfsInv, StagesDone
  <3>3. "profile" \in Rootfs!Kept /\ "hosts" \in Rootfs!Kept  BY DEF Rootfs!Kept
  <3>4. TextsDone'  BY <1>1, <1>3, <3>2, <3>3 DEF TextsDone
  <3>5. IdentityDone' /\ RenamesDone' /\ AppendsDone' /\ shell' # "none"
    BY <1>1, <2>2, <3>2 DEF IdentityDone, RenamesDone, AppendsDone
  <3> QED  BY <1>1, <1>3, <3>1, <3>4, <3>5 DEF SettledInv
 <2> QED  BY <2>1, <2>2
<1>8. Rootfs!KeepsUserFiles  BY <1>1, <1>3 DEF Rootfs!KeepsUserFiles
<1>9. Rootfs!SettledStays
 <2>1. CASE settled = <<>>  BY <2>1 DEF Rootfs!SettledStays
 <2>2. CASE settled # <<>>
  <3>1. settled = Rootfs!files /\ text["sudoers"] # "none" /\ elfuse
    BY <2>2 DEF RootfsInv, SettledInv
  <3>2. Rootfs!files' = Rootfs!files  BY <1>1, <1>3, <3>1 DEF Rootfs!files
  <3> QED  BY <3>1, <3>2 DEF Rootfs!SettledStays
 <2> QED  BY <2>1, <2>2
<1> QED  BY <1>4, <1>5, <1>6, <1>7, <1>8, <1>9 DEF RootfsStep, RootfsInv

\* What the user writes forgets what was settled.
LEMMA UserWritesKeeps == ASSUME RootfsInv, Rootfs!UserWrites, MaxEdits \in Nat PROVE RootfsStep
<1>1. /\ pc = "idle" /\ pc' = "idle" /\ edits < MaxEdits /\ edits' = edits + 1 /\ settled' = <<>>
      /\ UNCHANGED <<machine, patches, passwd, group, shadow, shell>>
      /\ UNCHANGED <<cache, runs, ids, extracted>>
  BY DEF Rootfs!UserWrites, Rootfs!Edit
<1>2. text \in [Rootfs!Kept -> {"none", "muplar", "distro", "user"}] /\ elfuse \in BOOLEAN
  BY DEF RootfsInv, RootfsTypes
<1>3. /\ text' \in [Rootfs!Kept -> {"none", "muplar", "distro", "user"}] /\ elfuse' \in BOOLEAN
      /\ resolv' = resolv \/ resolv' \in {"user", "empty"}
      /\ foot' = foot \/ foot' \in {"user", "16"}
      /\ desktop' = desktop \/ desktop' \in {"dir", "other"}
 <2>1. CASE /\ \E f \in Rootfs!Kept : /\ text' = [text EXCEPT ![f] = "user"]
                                      /\ elfuse' \in (IF f = "hosts" THEN BOOLEAN ELSE {elfuse})
            /\ UNCHANGED <<resolv, foot, desktop>>
  <3>1. PICK f \in Rootfs!Kept : /\ text' = [text EXCEPT ![f] = "user"]
                                 /\ elfuse' \in (IF f = "hosts" THEN BOOLEAN ELSE {elfuse})
    BY <2>1
  <3>2. text' \in [Rootfs!Kept -> {"none", "muplar", "distro", "user"}]  BY <1>2, <3>1
  <3>3. elfuse' \in BOOLEAN  BY <1>2, <3>1
  <3> QED  BY <2>1, <3>2, <3>3
 <2>2. CASE resolv' \in {"user", "empty"} /\ UNCHANGED <<text, elfuse, foot, desktop>>
   BY <1>2, <2>2
 <2>3. CASE foot' \in {"user", "16"} /\ UNCHANGED <<text, elfuse, resolv, desktop>>
   BY <1>2, <2>3
 <2>4. CASE desktop' \in {"dir", "other"} /\ UNCHANGED <<text, elfuse, resolv, foot>>
   BY <1>2, <2>4
 <2> QED  BY <2>1, <2>2, <2>3, <2>4 DEF Rootfs!UserWrites
<1>4. RootfsTypes'
 <2>1. /\ resolv \in {"none", "muplar", "distro", "user", "empty", "symlink", "dangling"}
       /\ foot \in {"none", "4", "16", "user"} /\ desktop \in {"none", "link", "other", "dir"}
       /\ patches \in -1 .. 1 /\ shell \in {"none", "stub", "distro"}
       /\ cache \in {"none", "partial", "whole"} /\ extracted \in BOOLEAN
   BY DEF RootfsInv, RootfsTypes
 <2>2. /\ resolv' \in {"none", "muplar", "distro", "user", "empty", "symlink", "dangling"}
       /\ foot' \in {"none", "4", "16", "user"} /\ desktop' \in {"none", "link", "other", "dir"}
   BY <1>3, <2>1
 <2> QED  BY <1>1, <1>3, <2>1, <2>2 DEF RootfsTypes, RunStages
<1>5. Counters'
 <2>1. edits \in 0 .. MaxEdits  BY DEF RootfsInv, Counters
 <2>2. edits' \in 0 .. MaxEdits  BY <1>1, <2>1
 <2> QED  BY <1>1, <2>2 DEF RootfsInv, Counters
<1>6. AccountTypes' /\ Entries'  BY <1>1 DEF RootfsInv, AccountTypes, Entries
<1>7. StagesDone' /\ SettledInv' /\ Rootfs!SettledStays
  BY <1>1 DEF StagesDone, SettledInv, Rootfs!SettledStays
<1>8. Rootfs!KeepsUserFiles
 <2>1. edits \in Nat  BY DEF RootfsInv, Counters
 <2>2. edits' # edits  BY <1>1, <2>1
 <2> QED  BY <2>2 DEF Rootfs!KeepsUserFiles
<1> QED  BY <1>4, <1>5, <1>6, <1>7, <1>8 DEF RootfsStep, RootfsInv

\* A secret whose password is changed.
LEMMA SecretSet ==
    ASSUME NEW c \in Rootfs!Secret, NEW d, d = [c EXCEPT !.pw = "set"]
    PROVE  d \in Rootfs!Secret /\ d.name = c.name
<1>1. PICK m, w : c = [name |-> m, pw |-> w] /\ m \in Rootfs!Words  BY DEF Rootfs!Secret
<1>2. d = [name |-> m, pw |-> "set"]  BY <1>1
<1>3. d.name = m /\ c.name = m  BY <1>1, <1>2
<1>4. d \in Rootfs!Secret  BY <1>1, <1>2 DEF Rootfs!Secret
<1> QED  BY <1>3, <1>4

\* What is in shadow after the passwords of known accounts were changed.
LEMMA PasswordsSet ==
    ASSUME NEW acs, NEW ss \in Seq(Rootfs!Secret), NEW ts,
           ts = [i \in DOMAIN ss |-> IF Rootfs!Knows(acs, ss[i].name) THEN [ss[i] EXCEPT !.pw = "set"] ELSE ss[i]]
    PROVE  ts \in Seq(Rootfs!Secret) /\ (Opens(ss) /\ ~Rootfs!Knows(acs, "muplar") => Opens(ts))
<1>1. PICK k \in Nat : k = Len(ss) /\ DOMAIN ss = 1 .. k  OBVIOUS
<1>2. ts = [i \in 1 .. k |-> IF Rootfs!Knows(acs, ss[i].name) THEN [ss[i] EXCEPT !.pw = "set"] ELSE ss[i]]
  BY <1>1
<1>3. ASSUME NEW i \in 1 .. k
      PROVE  ts[i] \in Rootfs!Secret /\ ts[i].name = ss[i].name /\ (~Rootfs!Knows(acs, ss[i].name) => ts[i] = ss[i])
 <2>1. ss[i] \in Rootfs!Secret  BY <1>1
 <2>2. CASE Rootfs!Knows(acs, ss[i].name)
  <3>1. ts[i] = [ss[i] EXCEPT !.pw = "set"]  BY <1>2, <2>2
  <3> QED  BY <2>1, <2>2, <3>1, SecretSet
 <2>3. CASE ~Rootfs!Knows(acs, ss[i].name)
  <3>1. ts[i] = ss[i]  BY <1>2, <2>3
  <3> QED  BY <2>1, <3>1
 <2> QED  BY <2>2, <2>3
<1>4. ts \in [1 .. k -> Rootfs!Secret]  BY <1>2, <1>3
<1>5. ts \in Seq(Rootfs!Secret) /\ Len(ts) = k  BY <1>4
<1>6. ASSUME Opens(ss), ~Rootfs!Knows(acs, "muplar") PROVE Opens(ts)
  BY <1>1, <1>3, <1>5, <1>6 DEF Opens
<1> QED  BY <1>5, <1>6

\* The other user's account.
LEMMA BobIs ==
    ASSUME NEW a, a = Rootfs!Account("bob", 1001, 1001, "sh")
    PROVE  a \in Rootfs!Entry /\ Honest(a)
<1>1. a = [name |-> "bob", uid |-> 1001, gid |-> 1001, sh |-> "sh"]  BY DEF Rootfs!Account
<1>2. "bob" \in Rootfs!Words /\ "sh" \in Rootfs!Words  BY DEF Rootfs!Words
<1>3. a \in Rootfs!Entry  BY <1>1, <1>2 DEF Rootfs!Entry
<1>4. a.name = "bob" /\ a.uid = 1001 /\ a.gid = 1001  BY <1>1
<1> QED  BY <1>3, <1>4 DEF Honest

\* The secret of the account the user adds.
LEMMA BobsSecret ==
    ASSUME NEW c, c = [name |-> "bob", pw |-> "set"]
    PROVE  c \in Rootfs!Secret /\ c.name = "bob"
<1>1. "bob" \in Rootfs!Words  BY DEF Rootfs!Words
<1> QED  BY <1>1 DEF Rootfs!Secret

\* UserChangesAccounts: useradd, passwd and a truncated machine-id leave the
\* accounts in order.
LEMMA UserChangesAccountsKeeps == ASSUME RootfsInv, Rootfs!UserChangesAccounts, MaxEdits \in Nat PROVE RootfsStep
<1>1. /\ pc = "idle" /\ pc' = "idle" /\ edits < MaxEdits /\ edits' = edits + 1 /\ settled' = <<>>
      /\ UNCHANGED <<text, elfuse, resolv, foot, desktop, patches, group, shell>>
      /\ UNCHANGED <<cache, runs, ids, extracted>>
  BY DEF Rootfs!UserChangesAccounts, Rootfs!Edit
<1>2. passwd \in Seq(Rootfs!Entry) /\ group \in Seq(Rootfs!Entry) /\ shadow \in Seq(Rootfs!Secret)
  BY DEF RootfsInv, AccountTypes
<1>3. /\ Rootfs!OwnGroups(passwd) /\ Rootfs!OwnGroups(group) /\ NoOther(passwd)
      /\ Rootfs!Knows(passwd, "muplar") => Rootfs!FirstName(passwd) = "muplar"
      /\ Opens(shadow) \/ Rootfs!FirstName(passwd) = "muplar"
      /\ shell # "none"
  BY DEF RootfsInv, Entries, Rootfs!UserChangesAccounts
<1>4. machine \in Nat /\ ids \in Nat /\ 1 <= ids /\ machine <= ids /\ edits \in 0 .. MaxEdits
  BY DEF RootfsInv, Counters
<1>5. PICK p, s : p = passwd' /\ s = shadow'  OBVIOUS
<1>6. /\ p \in Seq(Rootfs!Entry) /\ s \in Seq(Rootfs!Secret) /\ (machine' = machine \/ machine' = 1)
      /\ Rootfs!OwnGroups(p) /\ NoOther(p)
      /\ Rootfs!Knows(p, "muplar") => Rootfs!FirstName(p) = "muplar"
      /\ Opens(s) \/ Rootfs!FirstName(p) = "muplar"
 <2>1. CASE /\ passwd' = Append(passwd, Rootfs!Account("bob", 1001, 1001, "sh"))
            /\ shadow' = Append(shadow, [name |-> "bob", pw |-> "set"]) /\ UNCHANGED machine
  <3>1. PICK a : a = Rootfs!Account("bob", 1001, 1001, "sh")  OBVIOUS
  <3>2. PICK c : c = [name |-> "bob", pw |-> "set"]  OBVIOUS
  <3>3. p = Added(passwd, a) /\ s = Append(shadow, c)  BY <1>5, <2>1, <3>1, <3>2 DEF Added
  <3>4. a \in Rootfs!Entry /\ Honest(a)  BY <3>1, BobIs
  <3>5. c \in Rootfs!Secret /\ c.name = "bob"  BY <3>2, BobsSecret
  <3>6. /\ p \in Seq(Rootfs!Entry) /\ Rootfs!OwnGroups(p) /\ NoOther(p)
        /\ Rootfs!Knows(p, "muplar") => Rootfs!Knows(passwd, "muplar") \/ a.name = "muplar"
        /\ Rootfs!FirstName(passwd) = "muplar" => Rootfs!FirstName(p) = "muplar"
    BY <1>2, <1>3, <3>3, <3>4, AddedAccount
  <3>7. c.name # "muplar" /\ a.name # "muplar"  BY <3>1, <3>5 DEF Rootfs!Account
  <3>8. s \in Seq(Rootfs!Secret) /\ (Opens(shadow) => Opens(s))
    BY <1>2, <3>3, <3>5, <3>7, AddedSecret
  <3> QED  BY <1>3, <2>1, <3>6, <3>7, <3>8
 <2>2. CASE /\ shadow' = [i \in DOMAIN shadow |->
                IF Rootfs!Knows(passwd, shadow[i].name) THEN [shadow[i] EXCEPT !.pw = "set"] ELSE shadow[i]]
            /\ UNCHANGED <<passwd, machine>>
  <3>1. s = [i \in DOMAIN shadow |->
            IF Rootfs!Knows(passwd, shadow[i].name) THEN [shadow[i] EXCEPT !.pw = "set"] ELSE shadow[i]]
    BY <1>5, <2>2
  <3>2. s \in Seq(Rootfs!Secret) /\ (Opens(shadow) /\ ~Rootfs!Knows(passwd, "muplar") => Opens(s))
    BY <1>2, <3>1, PasswordsSet
  <3> QED  BY <1>2, <1>3, <1>5, <2>2, <3>2
 <2>3. CASE machine' = 1 /\ UNCHANGED <<passwd, shadow>>  BY <1>2, <1>3, <1>5, <2>3
 <2> QED  BY <2>1, <2>2, <2>3 DEF Rootfs!UserChangesAccounts
<1>7. Entries'  BY <1>1, <1>3, <1>5, <1>6 DEF Entries
<1>8. AccountTypes'  BY <1>1, <1>2, <1>5, <1>6 DEF AccountTypes
<1>9. RootfsTypes'  BY <1>1 DEF RootfsInv, RootfsTypes, RunStages
<1>10. Counters'
 <2>1. edits' \in 0 .. MaxEdits  BY <1>1, <1>4
 <2>2. machine' \in Nat /\ machine' <= ids  BY <1>4, <1>6
 <2> QED  BY <1>1, <2>1, <2>2 DEF RootfsInv, Counters
<1>11. StagesDone' /\ SettledInv' /\ Rootfs!SettledStays
  BY <1>1 DEF StagesDone, SettledInv, Rootfs!SettledStays
<1>12. Rootfs!KeepsUserFiles
 <2>1. edits' # edits  BY <1>1, <1>4
 <2> QED  BY <2>1 DEF Rootfs!KeepsUserFiles
<1> QED  BY <1>7, <1>8, <1>9, <1>10, <1>11, <1>12 DEF RootfsStep, RootfsInv

----
\* A new prefix.
LEMMA RootfsStarts == ASSUME Rootfs!Init, Rootfs!DistroFits PROVE RootfsInv
<1>1. RootfsTypes
 <2>1. text \in [Rootfs!Kept -> {"none", "muplar", "distro", "user"}] /\ elfuse \in BOOLEAN
   BY DEF Rootfs!Init
 <2>2. resolv = "none" /\ foot = "none" /\ patches = -1 /\ shell = "none" /\ desktop = "none"
   BY DEF Rootfs!Init
 <2>3. cache \in {"none", "partial", "whole"} /\ extracted \in BOOLEAN /\ pc = "idle"
   BY DEF Rootfs!Init
 <2>4. patches \in -1 .. 1  BY <2>2
 <2> QED  BY <2>1, <2>2, <2>3, <2>4 DEF RootfsTypes, RunStages
<1>2. Counters  BY DEF Rootfs!Init, Counters, Rootfs!DistroFits
<1>3. passwd = <<>> /\ group = <<>> /\ shadow = <<>>  BY DEF Rootfs!Init
<1>4. AccountTypes  BY <1>3 DEF AccountTypes
<1>5. Len(passwd) = 0 /\ Len(group) = 0 /\ Len(shadow) = 0  BY <1>3
<1>6. Rootfs!OwnGroups(passwd) /\ Rootfs!OwnGroups(group) /\ NoOther(passwd)
  BY <1>5 DEF Rootfs!OwnGroups, NoOther
<1>7. ~Rootfs!Knows(passwd, "muplar") /\ Opens(shadow)  BY <1>3, <1>5 DEF Rootfs!Knows, Opens
<1>8. shell # "distro" /\ pc = "idle" /\ settled = <<>>  BY DEF Rootfs!Init
<1>9. Entries  BY <1>6, <1>7, <1>8 DEF Entries
<1>10. StagesDone /\ SettledInv  BY <1>8 DEF StagesDone, SettledInv
<1> QED  BY <1>1, <1>2, <1>4, <1>9, <1>10 DEF RootfsInv

\* Every step keeps the invariant and is allowed.
LEMMA RootfsSteps == ASSUME RootfsInv, Rootfs!DistroFits, [Rootfs!Next]_(Rootfs!vars) PROVE RootfsStep
<1>1. MaxRuns \in Nat /\ MaxEdits \in Nat  BY DEF Rootfs!DistroFits
<1>2. CASE Rootfs!BeginRun  BY <1>1, <1>2, BeginRunKeeps
<1>3. CASE Rootfs!WriteTexts  BY <1>3, WriteTextsKeeps
<1>4. CASE Rootfs!HasUserland  BY <1>4, HasUserlandKeeps
<1>5. CASE Rootfs!UseCached  BY <1>5, UseCachedKeeps
<1>6. CASE Rootfs!Download  BY <1>6, DownloadKeeps
<1>7. CASE Rootfs!Extract  BY <1>7, ExtractKeeps
<1>8. CASE Rootfs!Identity  BY <1>8, IdentityKeeps
<1>9. CASE Rootfs!RenameAccounts  BY <1>9, RenameAccountsKeeps
<1>10. CASE Rootfs!RenameStopsShort  BY <1>10, RenameStopsShortKeeps
<1>11. CASE Rootfs!AppendAccounts  BY <1>11, AppendAccountsKeeps
<1>12. CASE Rootfs!WriteScripts  BY <1>12, WriteScriptsKeeps
<1>17. CASE Rootfs!ExtractDies  BY <1>17, ExtractDiesKeeps
<1>13. CASE Rootfs!RunDies  BY <1>13, RunDiesKeeps
<1>14. CASE Rootfs!UserWrites  BY <1>1, <1>14, UserWritesKeeps
<1>15. CASE Rootfs!UserChangesAccounts  BY <1>1, <1>15, UserChangesAccountsKeeps
<1>16. CASE UNCHANGED Rootfs!vars  BY <1>16, RootfsStutters
<1> QED
  BY <1>2, <1>3, <1>4, <1>5, <1>6, <1>7, <1>8, <1>9, <1>10, <1>11, <1>12, <1>13, <1>14, <1>15,
     <1>16, <1>17 DEF Rootfs!Next

\* At the end of a run the account the guest is run as is ready.
LEMMA AccountsAreReady == ASSUME RootfsInv PROVE Rootfs!TypeOK /\ Rootfs!AccountsReady
<1>1. passwd \in Seq(Rootfs!Entry) /\ group \in Seq(Rootfs!Entry) /\ shadow \in Seq(Rootfs!Secret)
  BY DEF RootfsInv, AccountTypes
<1>2. Rootfs!TypeOK
 <2>1. \A a \in Rootfs!Range(passwd) : a \in Rootfs!Entry  BY <1>1 DEF Rootfs!Range
 <2>2. \A a \in Rootfs!Range(passwd) : a.uid \in {0, 1000, 1001}  BY <2>1 DEF Rootfs!Entry
 <2>3. machine \in 0 .. (ids + 1) /\ runs \in 0 .. MaxRuns /\ edits \in 0 .. MaxEdits
   BY DEF RootfsInv, Counters
 <2> QED  BY <2>2, <2>3 DEF RootfsInv, RootfsTypes, Rootfs!TypeOK
<1>3. Rootfs!AccountsReady
 <2>1. CASE pc # "scripts"  BY <2>1 DEF Rootfs!AccountsReady
 <2>2. CASE pc = "scripts"
  <3>1. /\ Named(passwd, shell) /\ Named(group, shell) /\ Opens(shadow)
        /\ Rootfs!OwnIds(passwd) # {} /\ Rootfs!OwnIds(group) # {}
        /\ shadow # <<>> => Rootfs!Knows(shadow, "muplar")
    BY <2>2 DEF RootfsInv, StagesDone, RenamesDone, AppendsDone
  <3>2. \E a \in Rootfs!Range(passwd) : a.name = "muplar" /\ a.uid = 1000
    BY <1>1, <3>1 DEF Rootfs!Range, Rootfs!OwnIds, Named
  <3>3. \E g \in Rootfs!Range(group) : g.name = "muplar" /\ g.uid = 1000
    BY <1>1, <3>1 DEF Rootfs!Range, Rootfs!OwnIds, Named
  <3>4. shadow # <<>> => \E s \in Rootfs!Range(shadow) : s.name = "muplar" /\ s.pw = ""
   <4> SUFFICES ASSUME shadow # <<>> PROVE \E s \in Rootfs!Range(shadow) : s.name = "muplar" /\ s.pw = ""
     OBVIOUS
   <4>1. PICK i \in 1 .. Len(shadow) : shadow[i].name = "muplar"  BY <3>1 DEF Rootfs!Knows
   <4>2. shadow[i].pw = ""  BY <3>1, <4>1 DEF Opens
   <4>3. shadow[i] \in Rootfs!Range(shadow)  BY <1>1, <4>1 DEF Rootfs!Range
   <4> QED  BY <4>1, <4>2, <4>3
  <3>6. \A a \in Rootfs!Range(passwd) : a.uid # 1000 => a.name # "muplar"
    BY <1>1 DEF Rootfs!Range, RootfsInv, Entries, NoOther
  <3> QED  BY <3>2, <3>3, <3>4, <3>6 DEF Rootfs!AccountsReady
 <2> QED  BY <2>1, <2>2
<1> QED  BY <1>2, <1>3

\* However runs of ensure_layout_dirs() die, also while tar unpacks an archive
\* that may be cut off, and whatever the user edits, a run that completes leaves
\* the guest's account one that can log in and that has its name alone; for any
\* distribution in order and any number of runs and edits.
THEOREM RootfsReady == ASSUME Rootfs!DistroFits PROVE Rootfs!Spec => [](Rootfs!TypeOK /\ Rootfs!AccountsReady)
<1>1. Rootfs!Init => RootfsInv  BY RootfsStarts
<1>2. RootfsInv /\ [Rootfs!Next]_(Rootfs!vars) => RootfsInv'  BY RootfsSteps DEF RootfsStep
<1>3. RootfsInv => Rootfs!TypeOK /\ Rootfs!AccountsReady  BY AccountsAreReady
<1> QED  BY <1>1, <1>2, <1>3, PTL DEF Rootfs!Spec

\* No step of a run but the unpacking of the archive takes back what
\* KeepsUserFiles names, and a complete run after a complete one changes nothing.
THEOREM RootfsKeepsFiles == ASSUME Rootfs!DistroFits PROVE Rootfs!Spec => Rootfs!FilesKept
<1>1. Rootfs!Init => RootfsInv  BY RootfsStarts
<1>2. RootfsInv /\ [Rootfs!Next]_(Rootfs!vars) => RootfsInv' /\ Rootfs!KeepsUserFiles /\ Rootfs!SettledStays
  BY RootfsSteps DEF RootfsStep
<1> QED  BY <1>1, <1>2, PTL DEF Rootfs!Spec, Rootfs!FilesKept
=============================================================================
