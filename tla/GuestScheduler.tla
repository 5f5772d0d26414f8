---------------------------- MODULE GuestScheduler ----------------------------
(***************************************************************************)
(* The scheduler of a NativeActivity.  One host thread runs all guest code *)
(* on one vCPU: the activity's callbacks, the pthreads the guest has       *)
(* created, looper callbacks and frame callbacks.  A pthread gives up the  *)
(* vCPU only when it polls its looper without a timeout and nothing is     *)
(* ready; drain_guest_events() runs whatever the last callback has queued. *)
(*                                                                         *)
(* The guest is a native_app_glue program: every activity callback writes  *)
(* one command to a pipe, an app thread polls the looper and reads them.   *)
(* Its choices (looper callback or ident, worker thread, join, frames) are *)
(* open.                                                                   *)
(***************************************************************************)
EXTENDS Integers, SequencesExt

CONSTANTS
  CallbackSets,     \* the sets of activity callbacks a guest may install
  MaxDrainRounds,   \* kMaxDrainRounds
  QueueLimit,       \* the length beyond which a consumed input queue is cleared
  MaxFrames,        \* bound: frame callbacks the guest posts
  MaxEvents         \* bound: input events of the host window

\* ANativeActivity_onCreate is there or no activity is started.  A drain has
\* rounds for a thread and for the one that it creates.
ASSUME SchedulerAssumption ==
  /\ \A installed \in CallbackSets : "create" \in installed
  /\ MaxDrainRounds \in Nat /\ MaxDrainRounds >= 2
  /\ QueueLimit \in Nat /\ MaxFrames \in Nat /\ MaxEvents \in Nat

VARIABLES
  window,       \* cfg.host_window
  bounded,      \* cfg.host_window_linger_ms >= 0
  defined,      \* the activity callbacks that are not null
  stage,        \* the position in the activity's life
  hpc,          \* where the host is in its loops
  drain,        \* the locals of drain_guest_events()
  batch,        \* what a loop of the host has taken and not yet run
  loopWork,     \* did_work of run_host_app_loop()
  cur,          \* the guest code on the vCPU
  gpc,          \* where a guest thread is
  pending,      \* pending_pthreads_
  managed,      \* guest_threads, in the order of the vector
  returns,      \* the threads in pthread_returns_
  joinWait,     \* the threads in pending_pthread_join_retvals_
  joined,       \* joined[t]: "no", "waiting", "written" -- the joiner's retval
  regs,         \* looper_regs_
  callbacks,    \* pending_looper_callbacks_
  pipe,         \* the buffer of the guest's pipe
  frameQueue,   \* pending_frame_callbacks_, as frame times in frames
  nextFrame,    \* next_frame_time_nanos_, in frames
  posted,       \* how many frame callbacks were posted
  shown,        \* history: the frame times callbacks were called with
  attached,     \* input_queue_.attached
  events,       \* input_events_, as serial numbers
  next,         \* next_input_event_
  fromHost,     \* events in the host window's own queue
  serial,       \* history: events that have reached input_events_
  offered,      \* history: events that getEvent() has offered
  windowOpen,   \* host_window_active()
  closing,      \* the user has closed the window, AppKit has not told it yet
  expired,      \* the deadline of a bounded host loop has passed
  quit          \* the guest has read the destroy command

script == <<stage, hpc, drain, batch, loopWork>>
threads == <<gpc, pending, managed, returns, joinWait, joined>>
frames == <<frameQueue, nextFrame, posted, shown>>
looper == <<regs, callbacks, pipe>>
input == <<attached, events, next, fromHost, serial, offered>>
win == <<windowOpen, closing, expired>>
vars == <<window, bounded, defined, script, cur, threads, looper, frames, input,
          win, quit>>

----
(* The activity's life, and how each callback is drained.                  *)

Script == <<"create", "start", "resume", "focus", "input", "window", "resized",
            "redraw", "loop", "inputGone", "windowGone", "pause", "stop",
            "destroy", "done">>

\* Which of frame callbacks and parked threads run in the drain of a callback.
DrainsFrames(s) == IF s = "create" THEN TRUE ELSE ~window
\* Mutant: parked threads wait in every drain of the bootstrap.
DrainsThreadsNever(s) == s \in {"inputGone", "windowGone", "pause"}
DrainsThreads(s) ==
  CASE s = "create" -> FALSE
    [] s \in {"inputGone", "windowGone", "pause", "stop", "destroy"} -> TRUE
    [] OTHER -> ~window

Threads == {"app", "worker"}
InputFd == "input"
PipeFd == "pipe"

Nobody == [kind |-> "none", what |-> "none"]
Guest(kind, what) == [kind |-> kind, what |-> what]
Idle == cur = Nobody

Fresh(fr, th, ret) ==
  [rounds |-> 0, resumed |-> FALSE, ranNew |-> FALSE, work |-> FALSE,
   any |-> FALSE, frames |-> fr, threads |-> th, ret |-> ret]

Init ==
  /\ window \in BOOLEAN /\ bounded \in BOOLEAN /\ defined \in CallbackSets
  /\ stage = 1 /\ hpc = "call" /\ drain = Fresh(FALSE, FALSE, "next")
  /\ batch = <<>> /\ loopWork = FALSE
  /\ cur = Nobody
  /\ gpc = [t \in Threads |-> "unborn"]
  /\ pending = <<>> /\ managed = <<>> /\ returns = {} /\ joinWait = {}
  /\ joined = [t \in Threads |-> "no"]
  /\ regs = <<>> /\ callbacks = <<>> /\ pipe = <<>>
  /\ frameQueue = <<>> /\ nextFrame = 1 /\ posted = 0 /\ shown = <<>>
  /\ attached = FALSE /\ events = <<1, 2>> /\ next = 0 /\ fromHost = 0
  /\ serial = 2 /\ offered = 0
  /\ windowOpen = FALSE /\ closing = FALSE /\ expired = FALSE /\ quit = FALSE

----
(* Looper registrations.                                                   *)

Registration(fd, callback) == [fd |-> fd, callback |-> callback, delivered |-> FALSE]

\* ALooper_addFd and attachLooper replace a registration in place or append one;
\* detachLooper drops it.
Attach(rs, fd, callback) ==
  IF \E i \in DOMAIN rs : rs[i].fd = fd
  THEN [i \in DOMAIN rs |-> IF rs[i].fd = fd THEN Registration(fd, callback)
                                             ELSE rs[i]]
  ELSE Append(rs, Registration(fd, callback))

\* What a loop over s keeps that keeps the places S: the one subsequence.
Selected(s, S) ==
  {[k \in DOMAIN q |-> s[q[k]]] :
     q \in {p \in SetToSeqs(S) : \A i, j \in DOMAIN p : i < j => p[i] < p[j]}}

\* rearm_looper_fd().
Rearm(rs, fd) ==
  [i \in DOMAIN rs |-> IF rs[i].fd = fd THEN [rs[i] EXCEPT !.delivered = FALSE]
                                        ELSE rs[i]]

\* ensure_host_window(): a window that is not active, a closed one too, is made
\* again.
EnsureWindow == windowOpen' = window /\ UNCHANGED <<closing, expired>>

\* collect_host_input_events(): the window is made if there is none, AppKit may
\* close it, and what it has queued is taken, and kept only if the queue is
\* attached; an event that is kept arms the looper again.  Mutant: it does not.
Taken == IF window THEN fromHost ELSE 0
Kept == IF attached THEN Taken ELSE 0
EventsAfter == events \o [i \in 1..Kept |-> serial + i]
RegsUnarmed == regs
RegsAfter == IF Kept > 0 THEN Rearm(regs, InputFd) ELSE regs
CollectWindow ==
  /\ windowOpen' = (window /\ ~closing)
  /\ closing' = (closing /\ ~window)
  /\ UNCHANGED expired
Collect ==
  /\ CollectWindow
  /\ events' = EventsAfter
  /\ fromHost' = fromHost - Taken
  /\ serial' = serial + Kept

InputPending(evs) == next < Len(evs)

\* A registration that poll_looper() or queue_ready_looper_callbacks() delivers.
Deliverable(r, evs) ==
  /\ ~r.delivered
  /\ r.fd = InputFd => attached /\ InputPending(evs)
  /\ r.fd = PipeFd => pipe # <<>>

----
(* The host: the activity's callbacks and drain_guest_events().            *)

GoOn(s, pc) == stage' = s /\ hpc' = pc

\* The next activity callback; a null callback is skipped, drain included.
CallStage ==
  LET s == Script[stage]
  IN  /\ Idle /\ hpc = "call" /\ s # "done"
      /\ \/ /\ s = "loop"
            /\ IF window THEN GoOn(stage, "pump") ELSE GoOn(stage + 1, "call")
            /\ UNCHANGED <<cur, drain>>
         \/ /\ s # "loop" /\ s \notin defined
            /\ GoOn(stage + 1, "call")
            /\ UNCHANGED <<cur, drain>>
         \/ /\ s \in defined
            /\ GoOn(stage, "pending")
            /\ drain' = Fresh(DrainsFrames(s), DrainsThreads(s), "next")
            /\ cur' = Guest("main", s)
      /\ UNCHANGED <<window, bounded, defined, batch, loopWork, threads, looper, frames,
                     input, win, quit>>

FinishDrain ==
  /\ batch' = <<>>
  /\ IF drain.ret = "next" THEN GoOn(stage + 1, "call") ELSE GoOn(stage, drain.ret)
  /\ loopWork' = (loopWork \/ drain.any)

\* A round begins: the budget, and run_pending_pthread_calls() takes its calls.
BeginRound ==
  /\ Idle /\ hpc = "pending"
  /\ \/ /\ drain.rounds >= MaxDrainRounds
        /\ FinishDrain
        /\ UNCHANGED <<drain, pending>>
     \/ /\ drain.rounds < MaxDrainRounds
        /\ drain' = [drain EXCEPT !.rounds = @ + 1, !.work = FALSE]
        /\ batch' = pending /\ pending' = <<>>
        /\ GoOn(stage, "start")
        /\ UNCHANGED loopWork
  /\ UNCHANGED <<window, bounded, defined, cur, gpc, managed, returns, joinWait, joined,
                 looper, frames, input, win, quit>>

\* complete_pthread_call(): a join that came first gets its value now.  Mutant:
\* the pending join is forgotten.
CompletedSilently(t) ==
  returns' = returns \cup {t} /\ UNCHANGED <<joinWait, joined>>
Completed(t) ==
  /\ returns' = returns \cup {t}
  /\ joinWait' = joinWait \ {t}
  /\ joined' = [joined EXCEPT ![t] = IF t \in joinWait THEN "written" ELSE @]

\* run_pending_pthread_calls() runs what it has taken; a thread without a start
\* routine ends at once.
StartPending ==
  /\ Idle /\ hpc = "start" /\ batch # <<>>
  /\ batch' = Tail(batch)
  /\ drain' = [drain EXCEPT !.work = TRUE, !.ranNew = TRUE]
  /\ \/ /\ gpc[Head(batch)] = "null"
        /\ gpc' = [gpc EXCEPT ![Head(batch)] = "finished"]
        /\ Completed(Head(batch))
        /\ UNCHANGED cur
     \/ /\ gpc[Head(batch)] # "null"
        /\ cur' = Guest("thread", Head(batch))
        /\ UNCHANGED <<gpc, returns, joinWait, joined>>
  /\ UNCHANGED <<window, bounded, defined, stage, hpc, loopWork, pending, managed, looper,
                 frames, input, win, quit>>

\* resume_yielded_threads_once(), once in a drain and not in one that has run
\* new threads.
BeginResume ==
  LET due == drain.threads /\ ~drain.ranNew /\ ~drain.resumed
  IN  /\ Idle /\ hpc = "start" /\ batch = <<>>
      /\ hpc' = "resume"
      /\ \/ /\ due
            /\ batch' \in Selected(managed, {i \in DOMAIN managed :
                                              gpc[managed[i]] # "finished"})
         \/ ~due /\ batch' = <<>>
      /\ drain' = [drain EXCEPT !.resumed = @ \/ due]
      /\ UNCHANGED <<window, bounded, defined, stage, loopWork, cur, threads, looper,
                     frames, input, win, quit>>

ResumeThread ==
  /\ Idle /\ hpc = "resume" /\ batch # <<>>
  /\ batch' = Tail(batch)
  /\ drain' = [drain EXCEPT !.work = TRUE]
  /\ cur' = Guest("thread", Head(batch))
  /\ UNCHANGED <<window, bounded, defined, stage, hpc, loopWork, threads, looper, frames,
                 input, win, quit>>

TakeCallbacks ==
  /\ Idle /\ hpc = "resume" /\ batch = <<>>
  /\ hpc' = "callbacks"
  /\ batch' = callbacks /\ callbacks' = <<>>
  /\ UNCHANGED <<window, bounded, defined, stage, drain, loopWork, cur, threads, regs,
                 pipe, frames, input, win, quit>>

RunCallback ==
  /\ Idle /\ hpc = "callbacks" /\ batch # <<>>
  /\ batch' = Tail(batch)
  /\ drain' = [drain EXCEPT !.work = TRUE]
  /\ cur' = Guest("callback", Head(batch))
  /\ UNCHANGED <<window, bounded, defined, stage, hpc, loopWork, threads, looper, frames,
                 input, win, quit>>

\* run_frame_callbacks_once() takes the callbacks and runs them one by one.
TakeFrames ==
  /\ Idle
  /\ \/ hpc = "callbacks" /\ batch = <<>> /\ hpc' = "frames"
     \/ hpc = "loopFrames" /\ hpc' = "runFrames"
  /\ IF hpc = "loopFrames" \/ drain.frames
     THEN batch' = frameQueue /\ frameQueue' = <<>>
     ELSE batch' = <<>> /\ UNCHANGED frameQueue
  /\ UNCHANGED <<window, bounded, defined, stage, drain, loopWork, cur, threads, looper,
                 nextFrame, posted, shown, input, win, quit>>

RunFrame ==
  /\ Idle /\ hpc \in {"frames", "runFrames"} /\ batch # <<>>
  /\ batch' = Tail(batch)
  /\ shown' = Append(shown, Head(batch))
  /\ drain' = [drain EXCEPT !.work = TRUE]
  /\ loopWork' = (loopWork \/ hpc = "runFrames")
  /\ cur' = Guest("frame", "frame")
  /\ UNCHANGED <<window, bounded, defined, stage, hpc, threads, looper, frameQueue,
                 nextFrame, posted, input, win, quit>>

\* A round that did something is followed by another one.
EndRound ==
  /\ Idle /\ hpc = "frames" /\ batch = <<>>
  /\ drain' = [drain EXCEPT !.any = @ \/ drain.work]
  /\ \/ /\ drain.work
        /\ hpc' = "pending"
        /\ UNCHANGED <<stage, batch, loopWork>>
     \/ ~drain.work /\ FinishDrain
  /\ UNCHANGED <<window, bounded, defined, cur, threads, looper, frames, input,
                 win, quit>>

----
(* run_host_app_loop().                                                    *)

\* queue_ready_looper_callbacks(), for the registrations after collection.
ReadyCallbacks(rs, evs) ==
  Selected(rs, {i \in DOMAIN rs : rs[i].callback /\ Deliverable(rs[i], evs)})
AllDelivered(rs, evs) ==
  [i \in DOMAIN rs |-> IF rs[i].callback /\ Deliverable(rs[i], evs)
                       THEN [rs[i] EXCEPT !.delivered = TRUE] ELSE rs[i]]

\* pump_host_app_events(), and the drain that resumes threads if it did work.
Pump ==
  \E ready \in ReadyCallbacks(RegsAfter, EventsAfter) :
  LET work == Kept > 0 \/ ready # <<>> \/ (attached /\ InputPending(EventsAfter))
  IN  /\ Idle /\ hpc = "pump"
      /\ Collect
      /\ regs' = AllDelivered(RegsAfter, EventsAfter)
      /\ callbacks' = callbacks \o [i \in DOMAIN ready |-> ready[i].fd]
      /\ IF windowOpen'
         THEN /\ GoOn(stage, "pending")
              /\ drain' = Fresh(FALSE, work, "loopFrames")
         ELSE /\ GoOn(stage + 1, "call")
              /\ UNCHANGED drain
      /\ loopWork' = work
      /\ UNCHANGED <<window, bounded, defined, batch, cur, threads, pipe, frames, attached,
                     next, offered, quit>>

\* After the frame callbacks of a tick, what they have queued is drained.
AfterFrames ==
  /\ Idle /\ hpc = "runFrames" /\ batch = <<>>
  /\ IF loopWork
     THEN hpc' = "pending" /\ drain' = Fresh(FALSE, FALSE, "tick")
     ELSE hpc' = "tick" /\ UNCHANGED drain
  /\ UNCHANGED <<window, bounded, defined, stage, batch, loopWork, cur, threads, looper,
                 frames, input, win, quit>>

\* The end of a tick: the deadline of a bounded loop, or a closed window.  Mutant:
\* the deadline is not looked at.
TickOverOpen == ~windowOpen
TickOver == (bounded /\ expired) \/ ~windowOpen
Tick ==
  /\ Idle /\ hpc = "tick"
  /\ IF TickOver THEN GoOn(stage + 1, "call") ELSE GoOn(stage, "pump")
  /\ UNCHANGED <<window, bounded, defined, drain, batch, loopWork, cur, threads,
                 looper, frames, input, win, quit>>

----
(* The guest's calls into the runtime.                                     *)

Running(kind) == cur.kind = kind
Return == cur' = Nobody

\* write() to the pipe, then the callback returns.
WriteCommand(s) == pipe' = Append(pipe, s) /\ regs' = Rearm(regs, PipeFd)

CreateThread(t, routine) ==
  /\ pending' = Append(pending, t)
  /\ gpc' = [gpc EXCEPT ![t] = IF routine THEN "begin" ELSE "null"]
  /\ UNCHANGED <<managed, returns, joinWait, joined>>

\* onCreate makes the pipe and the app thread.
MainCreate ==
  /\ Running("main") /\ cur.what = "create"
  /\ CreateThread("app", TRUE)
  /\ Return
  /\ UNCHANGED <<window, bounded, defined, script, looper, frames, input, win, quit>>

\* AChoreographer_postFrameCallback, without a delay or with one of a frame.
\* Mutant: the delay does not move the next frame.
PostFrameOnTime(delay) ==
  /\ posted < MaxFrames
  /\ frameQueue' = Append(frameQueue, nextFrame + delay)
  /\ nextFrame' = nextFrame + 1
  /\ posted' = posted + 1
  /\ UNCHANGED shown
PostFrame(delay) ==
  /\ posted < MaxFrames
  /\ frameQueue' = Append(frameQueue, nextFrame + delay)
  /\ nextFrame' = nextFrame + delay + 1
  /\ posted' = posted + 1
  /\ UNCHANGED shown

\* The other callbacks write their command; the window's may ask for a frame.
MainCommand ==
  /\ Running("main") /\ cur.what # "create"
  /\ WriteCommand(cur.what)
  /\ \/ UNCHANGED frames
     \/ cur.what = "window" /\ \E d \in 0..1 : PostFrame(d)
  /\ Return
  /\ UNCHANGED <<window, bounded, defined, script, threads, callbacks, input, win,
                 quit>>

\* The app thread begins: it registers the pipe, with or without a callback, and
\* may make a worker, with or without a start routine.
AppBegins ==
  /\ cur = Guest("thread", "app") /\ gpc["app"] = "begin"
  /\ \E callback \in BOOLEAN : regs' = Attach(regs, PipeFd, callback)
  /\ \/ /\ gpc' = [gpc EXCEPT !["app"] = "poll"]
        /\ UNCHANGED <<pending, managed, returns, joinWait, joined>>
     \/ \E routine \in BOOLEAN :
          /\ pending' = Append(pending, "worker")
          /\ gpc' = [gpc EXCEPT !["app"] = "poll",
                                !["worker"] = IF routine THEN "begin" ELSE "null"]
          /\ UNCHANGED <<managed, returns, joinWait, joined>>
  /\ UNCHANGED <<window, bounded, defined, script, cur, callbacks, pipe, frames, input,
                 win, quit>>

\* poll_looper() walks the registrations in order.  The walk reaches number i if
\* no earlier one is ready; only at an attached, undelivered input queue does it
\* collect what the host window holds.
PollReaches(i) == \A j \in 1..(i - 1) : ~Deliverable(regs[j], EventsAfter)
PollCollects ==
  \E i \in DOMAIN regs : /\ regs[i].fd = InputFd /\ ~regs[i].delivered
                         /\ attached /\ PollReaches(i)
PollCollect ==
  IF PollCollects THEN Collect ELSE UNCHANGED <<events, fromHost, serial, win>>

\* ALooper_pollOnce delivers the first registration that is ready.
AppPolls ==
  /\ cur = Guest("thread", "app") /\ gpc["app"] = "poll" /\ ~quit
  /\ PollCollect
  /\ \E i \in DOMAIN regs :
       /\ PollReaches(i) /\ Deliverable(regs[i], EventsAfter)
       /\ regs' = [(IF PollCollects THEN RegsAfter ELSE regs)
                    EXCEPT ![i].delivered = TRUE]
       /\ IF regs[i].callback
          THEN callbacks' = Append(callbacks, regs[i].fd) /\ UNCHANGED gpc
          ELSE gpc' = [gpc EXCEPT !["app"] = regs[i].fd] /\ UNCHANGED callbacks
  /\ UNCHANGED <<window, bounded, defined, script, cur, pending, managed, returns, joinWait,
                 joined, pipe, frames, attached, next, offered, quit>>

\* A new thread that has yielded joins guest_threads; a resumed one is there.
\* Mutant: it is added each time it yields.
AddManagedAgain(t) == Append(managed, t)
AddManaged(t) ==
  IF \E i \in DOMAIN managed : managed[i] = t THEN managed ELSE Append(managed, t)

\* Nothing is ready: the thread is parked, its context saved.
AppYields ==
  /\ cur = Guest("thread", "app") /\ gpc["app"] = "poll" /\ ~quit
  /\ PollReaches(Len(regs) + 1)
  /\ PollCollect
  /\ managed' = AddManaged("app")
  /\ Return
  /\ UNCHANGED <<window, bounded, defined, script, gpc, pending, returns, joinWait, joined,
                 looper, frames, attached, next, offered, quit>>

\* What the guest does with a command it has read.
Obey(s) ==
  /\ quit' = (quit \/ s = "destroy")
  /\ attached' = (IF s = "input" THEN TRUE
                  ELSE IF s = "inputGone" THEN FALSE ELSE attached)

\* What a command does to the registrations.
ObeyRegs(s, rs, callback) ==
  \/ s = "input" /\ regs' = Attach(rs, InputFd, callback)
  \/ /\ s = "inputGone"
     /\ regs' \in Selected(rs, {i \in DOMAIN rs : rs[i].fd # InputFd})
  \/ s \notin {"input", "inputGone"} /\ regs' = rs

\* read() of one command.  Mutant: what is left does not arm the looper again.
ReadOnce(callback) ==
  /\ pipe # <<>>
  /\ pipe' = Tail(pipe)
  /\ Obey(Head(pipe))
  /\ ObeyRegs(Head(pipe), regs, callback)
ReadCommand(callback) ==
  /\ pipe # <<>>
  /\ pipe' = Tail(pipe)
  /\ Obey(Head(pipe))
  /\ ObeyRegs(Head(pipe),
              IF Tail(pipe) # <<>> THEN Rearm(regs, PipeFd) ELSE regs, callback)

AppReads ==
  /\ cur = Guest("thread", "app") /\ gpc["app"] = PipeFd
  /\ \E callback \in BOOLEAN : ReadCommand(callback)
  /\ gpc' = [gpc EXCEPT !["app"] = "poll"]
  /\ UNCHANGED <<window, bounded, defined, script, cur, pending, managed, returns, joinWait,
                 joined, callbacks, frames, events, next, fromHost, serial,
                 offered, win>>

\* The thread's own looper callback, run by the host; the pipe may be empty.
CallbackReads ==
  /\ cur = Guest("callback", PipeFd)
  /\ \/ \E callback \in BOOLEAN : ReadCommand(callback)
     \/ pipe = <<>> /\ UNCHANGED <<pipe, regs, attached, quit>>
  /\ Return
  /\ UNCHANGED <<window, bounded, defined, script, threads, callbacks, frames, events, next,
                 fromHost, serial, offered, win>>

\* finishEvent() clears a queue that is used up and long.  Mutant: a long queue
\* is cleared whatever is left in it.
ClearsLong(evs, used) == Len(evs) > QueueLimit
Clears(evs, used) == used >= Len(evs) /\ Len(evs) > QueueLimit

\* getEvent() and finishEvent() of the event that is next, if there is one, one
\* after the other without a step of the host between; what is left arms the
\* looper again.
ConsumeEvent ==
  LET evs == EventsAfter
      used == next + 1
  IN  /\ CollectWindow
      /\ fromHost' = fromHost - Taken
      /\ serial' = serial + Kept
      /\ IF InputPending(evs)
         THEN /\ offered' = evs[used]
              /\ events' = IF Clears(evs, used) THEN <<>> ELSE evs
              /\ next' = IF Clears(evs, used) THEN 0 ELSE used
              /\ regs' = IF attached /\ used < Len(evs)
                         THEN Rearm(RegsAfter, InputFd) ELSE RegsAfter
         ELSE /\ events' = evs /\ regs' = RegsAfter
              /\ UNCHANGED <<offered, next>>
      /\ UNCHANGED attached

AppConsumes ==
  /\ cur = Guest("thread", "app") /\ gpc["app"] = InputFd
  /\ ConsumeEvent
  /\ gpc' = [gpc EXCEPT !["app"] = "poll"]
  /\ UNCHANGED <<window, bounded, defined, script, cur, pending, managed, returns, joinWait,
                 joined, callbacks, pipe, frames, quit>>

CallbackConsumes ==
  /\ cur = Guest("callback", InputFd)
  /\ ConsumeEvent
  /\ Return
  /\ UNCHANGED <<window, bounded, defined, script, threads, callbacks, pipe, frames, quit>>

\* A frame callback may draw and may ask for the next frame.
FrameReturns ==
  /\ Running("frame")
  /\ \/ UNCHANGED frames
     \/ \E d \in 0..1 : PostFrame(d)
  /\ EnsureWindow \/ UNCHANGED win
  /\ Return
  /\ UNCHANGED <<window, bounded, defined, script, threads, looper, input, quit>>

\* pthread_join() does not wait: the value is there, or it is written later.
JoinsWorker ==
  /\ \/ cur = Guest("thread", "app") /\ gpc["app"] = "poll"
     \/ cur = Guest("main", "destroy")
  /\ gpc["worker"] # "unborn" /\ joined["worker"] = "no"
  /\ IF "worker" \in returns
     THEN /\ joined' = [joined EXCEPT !["worker"] = "written"]
          /\ UNCHANGED joinWait
     ELSE /\ joined' = [joined EXCEPT !["worker"] = "waiting"]
          /\ joinWait' = joinWait \cup {"worker"}
  /\ UNCHANGED <<window, bounded, defined, script, cur, gpc, pending, managed, returns,
                 looper, frames, input, win, quit>>

\* A start routine returns.
ThreadReturns ==
  /\ Running("thread")
  /\ LET t == cur.what
     IN  /\ \/ t = "app" /\ gpc[t] = "poll" /\ quit
            \/ t = "worker"
         /\ gpc' = [gpc EXCEPT ![t] = "finished"]
         /\ Completed(t)
  /\ Return
  /\ UNCHANGED <<window, bounded, defined, script, pending, managed, looper, frames, input,
                 win, quit>>

----
(* The user at the host window.                                            *)

HostInput ==
  /\ windowOpen /\ serial + fromHost < 2 + MaxEvents
  /\ fromHost' = fromHost + 1
  /\ UNCHANGED <<window, bounded, defined, script, cur, threads, looper, frames, attached,
                 events, next, serial, offered, win, quit>>

CloseWindow ==
  /\ windowOpen /\ ~closing
  /\ closing' = TRUE
  /\ UNCHANGED <<window, bounded, defined, script, cur, threads, looper, frames,
                 input, windowOpen, expired, quit>>

DeadlinePasses ==
  /\ bounded /\ ~expired
  /\ expired' = TRUE
  /\ UNCHANGED <<window, bounded, defined, script, cur, threads, looper, frames,
                 input, windowOpen, closing, quit>>

----
Host ==
  \/ CallStage \/ BeginRound \/ StartPending \/ BeginResume \/ ResumeThread
  \/ TakeCallbacks \/ RunCallback \/ TakeFrames \/ RunFrame \/ EndRound
  \/ Pump \/ AfterFrames \/ Tick

GuestCode ==
  \/ MainCreate \/ MainCommand \/ AppBegins \/ AppPolls \/ AppYields \/ AppReads
  \/ CallbackReads \/ AppConsumes \/ CallbackConsumes \/ FrameReturns
  \/ JoinsWorker \/ ThreadReturns

Finished == Script[stage] = "done" /\ UNCHANGED vars

Next == Host \/ GuestCode \/ HostInput \/ CloseWindow \/ DeadlinePasses
        \/ Finished

Spec == Init /\ [][Next]_vars

\* The one host thread never stops and time passes; nothing is assumed of the user.
FairSpec == Spec /\ WF_vars(Host \/ GuestCode) /\ WF_vars(DeadlinePasses)

----
(* What the scheduler promises.                                            *)

Fds == {PipeFd, InputFd}
TypeOK ==
  /\ window \in BOOLEAN /\ bounded \in BOOLEAN /\ expired \in BOOLEAN
  /\ windowOpen \in BOOLEAN /\ closing \in BOOLEAN /\ (windowOpen => window)
  /\ quit \in BOOLEAN /\ attached \in BOOLEAN /\ loopWork \in BOOLEAN
  /\ stage \in 1..Len(Script)
  /\ hpc \in {"call", "pending", "start", "resume", "callbacks", "frames", "pump",
              "loopFrames", "runFrames", "tick"}
  /\ drain.rounds \in 0..MaxDrainRounds
  /\ cur.kind \in {"none", "main", "thread", "callback", "frame"}
  /\ \A t \in Threads : gpc[t] \in {"unborn", "null", "begin", "poll", "finished"}
                                   \cup Fds
  /\ \A i \in DOMAIN regs : regs[i].fd \in Fds
  /\ \A i, j \in DOMAIN regs : regs[i].fd = regs[j].fd => i = j
  /\ next \in 0..Len(events)
  /\ \A i, j \in DOMAIN managed : managed[i] = managed[j] => i = j

\* Readiness of a descriptor, apart from whether it was delivered.
Ready(fd) == \/ fd = PipeFd /\ pipe # <<>>
             \/ fd = InputFd /\ attached /\ next < Len(events)

\* No wakeup is lost: while the app thread is parked in poll, a descriptor with
\* something to read is either armed -- the next poll or pump delivers it -- or
\* its callback is queued or on the vCPU.  The rearms in write(), read(),
\* finishEvent() and collect_host_input_events() have to cover every order in
\* which the activity, the thread, the callbacks and the window fill and empty
\* the pipe and the queue.
NoLostWakeup ==
  gpc["app"] = "poll" =>
    \A i \in DOMAIN regs :
      LET fd == regs[i].fd
      IN  Ready(fd) /\ regs[i].delivered
            => /\ regs[i].callback
               /\ \/ \E k \in DOMAIN callbacks : callbacks[k] = fd
                  \/ hpc = "callbacks" /\ \E k \in DOMAIN batch : batch[k] = fd
                  \/ cur = Guest("callback", fd)

\* pthread_join() returns at once; its retval is written by the join or, when the
\* thread ends later, by complete_pthread_call().  A thread that has ended never
\* leaves a joiner without its value.
JoinDelivers == \A t \in returns : joined[t] # "waiting"

\* Every event the queue accepts is offered once and in order, across the clear
\* of a used-up queue in finishEvent(): the events behind next_input_event_ are
\* the ones after the last offered, up to the last accepted.  Frame callbacks
\* see a frame time later than the one before, with and without delays, whether
\* they run in a drain or in the host loop.
DeliveredInOrder ==
  /\ serial = offered + (Len(events) - next)
  /\ \A i \in (next + 1)..Len(events) : events[i] = offered + (i - next)
  /\ \A i, j \in DOMAIN shown : i < j => shown[i] < shown[j]

\* The app thread of a guest that reads its pipe by ident has read every command
\* when the activity is gone, the destroy command too, and has ended: although a
\* drain resumes a parked thread once at most, in some drains of the bootstrap
\* never, and only within its budget of rounds.
DestroySeen ==
  /\ Script[stage] = "done" /\ "destroy" \in defined
  /\ \A i \in DOMAIN regs : regs[i].fd = PipeFd => ~regs[i].callback
  => pipe = <<>> /\ gpc["app"] = "finished"

\* An event that the attached queue has accepted is offered to the guest in the
\* end, unless the queue is detached or the host loop over: each tick that finds
\* one resumes the parked thread or queues its callback.
InputServed ==
  \A e \in 1..(2 + MaxEvents) :
    (Script[stage] = "loop" /\ attached /\ serial >= e)
      ~> (offered >= e \/ ~attached \/ Script[stage] # "loop")

\* A guest without a window, or with one that is shown for a given time, is taken
\* through all of its callbacks: no drain and no host loop goes on for ever.
AppEnds == (~window \/ bounded) ~> Script[stage] = "done"

\* run_host_app_loop() announces "close window to exit": a window that the user
\* closes ends the loop.
CloseEndsApp == closing ~> Script[stage] = "done"
==============================================================================
