------------------------- MODULE GuestSchedulerProofs -------------------------
(***************************************************************************)
(* Proofs about GuestScheduler: every invariant that its run checks, for   *)
(* any sets of callbacks, budget of rounds, length of the input queue and  *)
(* number of frames and events.                                            *)
(*                                                                         *)
(* The joins and the order of events and frames are inductive with little  *)
(* help.  A lost wakeup and a missed destroy command are not: that what is *)
(* ready is armed or queued (Armed) has to hold in the middle of the app   *)
(* thread's work too, and that the thread ends (Ending) needs to know      *)
(* where the host stands in the drain of onDestroy, that the thread is     *)
(* parked in guest_threads by then (AppLife), and that no command comes    *)
(* after destroy (LastCommand).                                            *)
(***************************************************************************)
EXTENDS GuestScheduler, TLAPS, FiniteSetTheorems, SequenceTheorems

----
(* The inductive invariant.                                                *)

Commands == {Script[s] : s \in 1..15}
Registrations == [fd : Fds, callback : BOOLEAN, delivered : BOOLEAN]
Drains == [rounds : 0..MaxDrainRounds, resumed : BOOLEAN, ranNew : BOOLEAN,
           work : BOOLEAN, any : BOOLEAN, frames : BOOLEAN, threads : BOOLEAN,
           ret : {"next", "loopFrames", "tick"}]
AppThread == Guest("thread", "app")
ThreadCode == {Nobody} \cup {Guest("thread", t) : t \in Threads}
CallbackCode == {Nobody} \cup {Guest("callback", fd) : fd \in Fds}
FrameCode == {Nobody, Guest("frame", "frame")}

\* Types of what the window and the input queue have.
WindowShape ==
  /\ window \in BOOLEAN /\ bounded \in BOOLEAN /\ expired \in BOOLEAN
  /\ windowOpen \in BOOLEAN /\ closing \in BOOLEAN /\ (windowOpen => window)
  /\ attached \in BOOLEAN /\ defined \in CallbackSets

\* Types of the threads' state.
ThreadShape ==
  /\ gpc \in [Threads -> {"unborn", "null", "begin", "poll", "finished"} \cup Fds]
  /\ pending \in Seq(Threads) /\ managed \in Seq(Threads)
  /\ \A i, j \in DOMAIN managed : managed[i] = managed[j] => i = j
  /\ returns \subseteq Threads /\ joinWait \subseteq Threads
  /\ joined \in [Threads -> {"no", "waiting", "written"}]

\* Types of the looper's state.
LooperShape ==
  /\ regs \in Seq(Registrations) /\ callbacks \in Seq(Fds) /\ pipe \in Seq(Commands)
  /\ \A i, j \in DOMAIN regs : regs[i].fd = regs[j].fd => i = j
  /\ quit \in BOOLEAN

\* Where the host can be, with what it has taken and what it has called.
HostShape ==
  /\ stage \in 1..15 /\ loopWork \in BOOLEAN /\ drain \in Drains
  /\ \/ /\ hpc \in {"call", "pump", "loopFrames", "tick"}
        /\ cur = Nobody /\ batch = <<>>
     \/ /\ hpc = "pending" /\ batch = <<>>
        /\ \/ cur = Nobody
           \/ /\ cur = Guest("main", Script[stage])
              /\ drain = Fresh(DrainsFrames(Script[stage]),
                               DrainsThreads(Script[stage]), "next")
     \/ hpc \in {"start", "resume"} /\ batch \in Seq(Threads) /\ cur \in ThreadCode
     \/ hpc = "callbacks" /\ batch \in Seq(Fds) /\ cur \in CallbackCode
     \/ hpc \in {"frames", "runFrames"} /\ batch \in Seq(Nat) /\ cur \in FrameCode
  /\ hpc # "call" => stage # 15
  /\ hpc \in {"pump", "loopFrames", "runFrames", "tick"} => stage = 9
  /\ hpc \in {"pending", "start", "resume", "callbacks", "frames"}
       /\ drain.ret # "next" => stage = 9

\* A thread has a joiner without a value as long as it has not ended.
Joins ==
  /\ \A t \in Threads : joined[t] = "waiting" <=> t \in joinWait
  /\ \A t \in returns : t \notin joinWait

\* The events behind next_input_event_ are the ones after the last offered.
Offers ==
  /\ events \in Seq(Nat) /\ next \in 0..Len(events)
  /\ fromHost \in Nat /\ serial \in Nat /\ offered \in Nat
  /\ serial = offered + (Len(events) - next)
  /\ \A i \in (next + 1)..Len(events) : events[i] = offered + (i - next)

Ascending(s) == \A i, j \in DOMAIN s : i < j => s[i] < s[j]
Before(s, u) == \A i \in DOMAIN s, j \in DOMAIN u : s[i] < u[j]

\* The frame times that were shown, are being shown and are asked for ascend.
FramesAscend ==
  /\ frameQueue \in Seq(Nat) /\ shown \in Seq(Nat)
  /\ nextFrame \in Nat /\ posted \in Nat
  /\ Ascending(shown) /\ Ascending(frameQueue) /\ Before(shown, frameQueue)
  /\ Before(shown, <<nextFrame>>) /\ Before(frameQueue, <<nextFrame>>)
  /\ hpc \in {"frames", "runFrames"} =>
       /\ Ascending(batch) /\ Before(shown, batch) /\ Before(batch, frameQueue)
       /\ Before(batch, <<nextFrame>>)

\* The life of the app thread: created by onCreate, started by its drain with
\* the worker a round later, and parked in guest_threads from then on.
AppLife ==
  /\ gpc["app"] # "null"
  /\ gpc["app"] = "unborn" <=>
       stage = 1 /\ (hpc = "call" \/ cur = Guest("main", "create"))
  /\ gpc["app"] = "unborn" => regs = <<>> /\ pending = <<>>
  /\ gpc["app"] = "begin" =>
       /\ stage = 1 /\ regs = <<>>
       /\ \/ hpc = "pending" /\ pending = <<"app">> /\ drain.rounds = 0
          \/ /\ hpc = "start" /\ pending = <<>> /\ drain.rounds = 1
             /\ \/ batch = <<"app">> /\ cur = Nobody
                \/ batch = <<>> /\ cur = AppThread /\ drain.work
  /\ pending # <<>> =>
       /\ stage = 1
       /\ \/ gpc["app"] = "begin"
          \/ /\ pending = <<"worker">> /\ drain.rounds = 1
             /\ \/ hpc = "pending" /\ cur = Nobody
                \/ hpc \in {"start", "resume", "callbacks", "frames"} /\ drain.work
  /\ gpc["app"] \in Fds => cur = AppThread
  /\ gpc["app"] \in {"poll", "finished"} \cup Fds
       => \E i \in DOMAIN regs : regs[i].fd = PipeFd
  /\ gpc["app"] = "poll" /\ cur # AppThread
       => \E i \in DOMAIN managed : managed[i] = "app"

\* A callback of the descriptor is queued, taken or on the vCPU.
Queued(fd) ==
  \/ \E k \in DOMAIN callbacks : callbacks[k] = fd
  \/ hpc = "callbacks" /\ \E k \in DOMAIN batch : batch[k] = fd
  \/ cur = Guest("callback", fd)

\* What has something to read is armed, queued or in the hands of the app thread.
Armed ==
  \A i \in DOMAIN regs :
    Ready(regs[i].fd) /\ regs[i].delivered /\ gpc["app"] # regs[i].fd
      => regs[i].callback /\ Queued(regs[i].fd)

\* onDestroy has been called.
Past == stage = 15 \/ (stage = 14 /\ hpc # "call" /\ cur # Guest("main", "destroy"))

\* The destroy command is the last one that is written, and the app thread ends
\* after it has been read.
LastCommand ==
  /\ ~Past => /\ ~quit /\ gpc["app"] # "finished"
              /\ \A i \in DOMAIN pipe : pipe[i] # "destroy"
  /\ Past /\ "destroy" \in defined =>
       \/ quit /\ pipe = <<>>
       \/ /\ ~quit /\ gpc["app"] # "finished" /\ pipe # <<>>
          /\ \A i \in DOMAIN pipe : pipe[i] = "destroy" <=> i = Len(pipe)

ByIdent == \A i \in DOMAIN regs : regs[i].fd = PipeFd => ~regs[i].callback

\* The drain of onDestroy has still to resume the app thread, or is doing so.
ResumeDue ==
  \/ /\ hpc = "pending" /\ drain.rounds = 0
     /\ drain.threads /\ ~drain.resumed /\ ~drain.ranNew
  \/ /\ hpc = "start" /\ batch = <<>> /\ cur = Nobody
     /\ drain.threads /\ ~drain.resumed /\ ~drain.ranNew
  \/ /\ hpc = "resume"
     /\ cur = AppThread \/ \E k \in DOMAIN batch : batch[k] = "app"

\* A guest that reads its pipe by ident ends in the drain of onDestroy.
Ending ==
  "destroy" \in defined /\ ByIdent =>
    /\ stage = 15 => gpc["app"] = "finished"
    /\ stage = 14 /\ hpc # "call" => gpc["app"] = "finished" \/ ResumeDue

Shape == WindowShape /\ ThreadShape /\ LooperShape /\ HostShape

IInv == /\ Shape /\ Joins /\ Offers /\ FramesAscend
        /\ AppLife /\ Armed /\ LastCommand /\ Ending

----
(* Sequences.                                                              *)

\* A sequence of SetToSeqs(S) lists every element of S once.
LEMMA Enumeration ==
  ASSUME NEW S, IsFiniteSet(S), NEW q \in SetToSeqs(S)
  PROVE  /\ q \in [1..Cardinality(S) -> S] /\ Cardinality(S) \in Nat
         /\ \A i, j \in 1..Cardinality(S) : q[i] = q[j] => i = j
         /\ \A x \in S : \E i \in 1..Cardinality(S) : q[i] = x
<1> DEFINE N == Cardinality(S)
<1>1. N \in Nat  BY FS_CardinalityType
<1>2. q \in [1..N -> S] /\ \A i, j \in 1..N : i # j => q[i] # q[j]  BY DEF SetToSeqs
<1>3. q \in Injection(1..N, S)  BY <1>2 DEF Injection, IsInjective
<1>4. Cardinality(1..N) = N  BY <1>1, FS_Interval
<1>5. q \in Surjection(1..N, S)  BY <1>3, <1>4, FS_Injection
<1> QED  BY <1>1, <1>2, <1>5 DEF Surjection

\* What Selected keeps of a sequence: all that is at the places, and no more.
LEMMA Selection ==
  ASSUME NEW T, NEW s \in Seq(T), NEW S \in SUBSET DOMAIN s,
         NEW r \in Selected(s, S)
  PROVE  /\ r \in Seq(T)
         /\ \A k \in DOMAIN r : \E i \in S : r[k] = s[i]
         /\ \A i \in S : \E k \in DOMAIN r : r[k] = s[i]
         /\ \A k, l \in DOMAIN r : k # l =>
              \E i, j \in S : i # j /\ r[k] = s[i] /\ r[l] = s[j]
<1>1. PICK q \in SetToSeqs(S) : r = [k \in DOMAIN q |-> s[q[k]]]  BY DEF Selected
<1>2. IsFiniteSet(DOMAIN s)  BY FS_Interval
<1>3. IsFiniteSet(S)  BY <1>2, FS_Subset
<1> DEFINE N == Cardinality(S)
<1>4. /\ N \in Nat /\ q \in [1..N -> S]
      /\ \A i, j \in 1..N : q[i] = q[j] => i = j
      /\ \A x \in S : \E i \in 1..N : q[i] = x
  BY <1>3, Enumeration
<1> HIDE DEF N
<1>5. DOMAIN r = 1..N /\ \A k \in 1..N : r[k] = s[q[k]] /\ q[k] \in S  BY <1>1, <1>4
<1>6. \A i \in S : s[i] \in T  OBVIOUS
<1>7. r \in [1..N -> T]  BY <1>1, <1>4, <1>6
<1>8. r \in Seq(T)  BY <1>4, <1>7
<1>9. \A i \in S : \E k \in DOMAIN r : r[k] = s[i]  BY <1>4, <1>5
<1>10. ASSUME NEW k \in DOMAIN r, NEW l \in DOMAIN r, k # l
       PROVE  \E i, j \in S : i # j /\ r[k] = s[i] /\ r[l] = s[j]
 <2>1. q[k] \in S /\ q[l] \in S /\ q[k] # q[l]  BY <1>4, <1>5, <1>10
 <2> QED  BY <1>5, <1>10, <2>1
<1> QED  BY <1>5, <1>8, <1>9, <1>10

\* What a sequence is made of that is taken apart or put together.
LEMMA HeadAndTail ==
  ASSUME NEW S, NEW s \in Seq(S), s # <<>>
  PROVE  /\ Head(s) \in S /\ Head(s) = s[1] /\ 1 \in DOMAIN s
         /\ Tail(s) \in Seq(S) /\ Len(Tail(s)) = Len(s) - 1
         /\ \A i \in DOMAIN Tail(s) : i + 1 \in DOMAIN s /\ Tail(s)[i] = s[i + 1]
         /\ \A i \in DOMAIN s : i = 1 \/ (i - 1 \in DOMAIN Tail(s)
                                          /\ s[i] = Tail(s)[i - 1])
<1>1. Len(s) \in Nat /\ Len(s) # 0 /\ DOMAIN s = 1..Len(s)  OBVIOUS
<1>2. Head(s) = s[1] /\ Tail(s) \in Seq(S) /\ Len(Tail(s)) = Len(s) - 1
      /\ \A i \in 1..(Len(s) - 1) : Tail(s)[i] = s[i + 1]
  BY HeadTailProperties
<1>3. DOMAIN Tail(s) = 1..(Len(s) - 1)  BY <1>1, <1>2
<1> QED  BY <1>1, <1>2, <1>3

\* What Append() makes of a sequence.
LEMMA Appended ==
  ASSUME NEW S, NEW s \in Seq(S), NEW x \in S
  PROVE  /\ Append(s, x) \in Seq(S) /\ Append(s, x) # <<>>
         /\ Len(Append(s, x)) = Len(s) + 1 /\ Len(s) \in Nat
         /\ DOMAIN Append(s, x) = 1..(Len(s) + 1) /\ DOMAIN s = 1..Len(s)
         /\ Append(s, x)[Len(s) + 1] = x
         /\ \A i \in DOMAIN s : Append(s, x)[i] = s[i]
BY AppendProperties

\* Concatenation with a function on 1..n.
LEMMA Joined ==
  ASSUME NEW S, NEW s \in Seq(S), NEW n \in Nat, NEW f \in [1..n -> S]
  PROVE  /\ s \o f \in Seq(S) /\ Len(s \o f) = Len(s) + n /\ Len(s) \in Nat
         /\ DOMAIN (s \o f) = 1..(Len(s) + n)
         /\ \A i \in 1..Len(s) : (s \o f)[i] = s[i]
         /\ \A i \in 1..n : (s \o f)[Len(s) + i] = f[i]
<1>1. f \in Seq(S) /\ Len(f) = n /\ Len(s) \in Nat  OBVIOUS
<1>2. /\ s \o f \in Seq(S) /\ Len(s \o f) = Len(s) + Len(f)
      /\ \A i \in 1..(Len(s) + Len(f)) :
           (s \o f)[i] = IF i <= Len(s) THEN s[i] ELSE f[i - Len(s)]
  BY <1>1, ConcatProperties, Zenon
<1>3. \A i \in 1..n : (s \o f)[Len(s) + i] = f[i]
 <2> TAKE i \in 1..n
 <2>1. Len(s) + i \in 1..(Len(s) + Len(f)) /\ ~(Len(s) + i <= Len(s))
       /\ (Len(s) + i) - Len(s) = i
   BY <1>1, <1>2
 <2> QED  BY <1>2, <2>1
<1> QED  BY <1>1, <1>2, <1>3

----
(* The operators of the model.                                             *)

\* The places of the callbacks that the proofs speak of.
LEMMA ScriptValues ==
  /\ Len(Script) = 15
  /\ \A s \in 1..15 : /\ Script[s] \in Commands
                      /\ Script[s] = "create" <=> s = 1
                      /\ Script[s] = "loop" <=> s = 9
                      /\ Script[s] = "destroy" <=> s = 14
                      /\ Script[s] = "done" <=> s = 15
<1>1. Len(Script) = 15  BY DEF Script
<1>2. \A s \in 1..15 : Script[s] \in Commands  BY DEF Commands
<1>3. ASSUME NEW s \in 1..15
      PROVE  /\ Script[s] = "create" <=> s = 1
             /\ Script[s] = "loop" <=> s = 9
             /\ Script[s] = "destroy" <=> s = 14
             /\ Script[s] = "done" <=> s = 15
 <2>1. s \in {1, 2, 3, 4, 5, 6, 7, 8, 9, 10, 11, 12, 13, 14, 15}  OBVIOUS
 <2> QED  BY <2>1 DEF Script
<1> QED  BY <1>1, <1>2, <1>3

\* Two lists of registrations that differ in what was delivered at most.
SameRegs(a, b) ==
  /\ b \in Seq(Registrations) /\ DOMAIN b = DOMAIN a
  /\ \A i \in DOMAIN a : b[i].fd = a[i].fd /\ b[i].callback = a[i].callback

\* rearm_looper_fd() arms one descriptor and leaves the others alone.
LEMMA RearmProperties ==
  ASSUME NEW rs \in Seq(Registrations), NEW fd \in Fds
  PROVE  /\ SameRegs(rs, Rearm(rs, fd))
         /\ \A i \in DOMAIN rs :
              /\ rs[i].fd = fd => ~Rearm(rs, fd)[i].delivered
              /\ rs[i].fd # fd => Rearm(rs, fd)[i] = rs[i]
<1> DEFINE r == Rearm(rs, fd)
<1>1. /\ DOMAIN r = DOMAIN rs
      /\ \A i \in DOMAIN rs :
           r[i] = IF rs[i].fd = fd THEN [rs[i] EXCEPT !.delivered = FALSE] ELSE rs[i]
  BY DEF Rearm
<1>2. DOMAIN rs = 1..Len(rs) /\ Len(rs) \in Nat
      /\ \A i \in DOMAIN rs : rs[i] \in Registrations
  OBVIOUS
<1>3. \A x \in Registrations :
        LET y == [x EXCEPT !.delivered = FALSE]
        IN  y \in Registrations /\ y.fd = x.fd /\ y.callback = x.callback
            /\ ~y.delivered
  BY DEF Registrations
<1>4. \A i \in DOMAIN rs : /\ r[i] \in Registrations /\ r[i].fd = rs[i].fd
                           /\ r[i].callback = rs[i].callback
                           /\ rs[i].fd = fd => ~r[i].delivered
                           /\ rs[i].fd # fd => r[i] = rs[i]
  BY <1>1, <1>2, <1>3
<1>5. r \in [1..Len(rs) -> Registrations]
 <2>1. r = [i \in 1..Len(rs) |-> r[i]]  BY <1>1, <1>2 DEF Rearm
 <2> QED  BY <1>2, <1>4, <2>1
<1>6. r \in Seq(Registrations)  BY <1>2, <1>5
<1> QED  BY <1>1, <1>4, <1>6 DEF SameRegs

\* A new registration of a descriptor is armed, its only one, and leaves the others
\* alone.
LEMMA AttachProperties ==
  ASSUME NEW rs \in Seq(Registrations), NEW fd \in Fds, NEW callback \in BOOLEAN,
         \A i, j \in DOMAIN rs : rs[i].fd = rs[j].fd => i = j,
         NEW r, r = Attach(rs, fd, callback)
  PROVE  /\ r \in Seq(Registrations)
         /\ \A i, j \in DOMAIN r : r[i].fd = r[j].fd => i = j
         /\ \E i \in DOMAIN r : r[i].fd = fd
         /\ \A i \in DOMAIN r : r[i].fd = fd => ~r[i].delivered
         /\ \A i \in DOMAIN r : r[i].fd # fd => i \in DOMAIN rs /\ r[i] = rs[i]
         /\ \A i \in DOMAIN rs : rs[i].fd # fd => i \in DOMAIN r /\ r[i] = rs[i]
<1>1. DOMAIN rs = 1..Len(rs) /\ Len(rs) \in Nat
      /\ \A i \in DOMAIN rs : rs[i] \in Registrations
  OBVIOUS
<1> DEFINE y == Registration(fd, callback)
<1>a. y \in Registrations /\ y.fd = fd /\ ~y.delivered
  BY DEF Registration, Registrations
<1>2. PICK x \in Registrations :
        x = Registration(fd, callback) /\ x.fd = fd /\ ~x.delivered
  BY <1>a, Zenon
<1>3. CASE \E i \in DOMAIN rs : rs[i].fd = fd
 <2>1. r = [i \in DOMAIN rs |-> IF rs[i].fd = fd THEN x ELSE rs[i]]  BY <1>2, <1>3 DEF Attach
 <2>2. DOMAIN r = DOMAIN rs /\ \A i \in DOMAIN rs :
         /\ r[i] \in Registrations
         /\ r[i] = IF rs[i].fd = fd THEN x ELSE rs[i]
         /\ r[i].fd = rs[i].fd
   BY <1>1, <1>2, <2>1
 <2>3. r \in [1..Len(rs) -> Registrations]  BY <1>1, <1>2, <2>1
 <2>4. r \in Seq(Registrations)  BY <1>1, <2>3
 <2>5. \A i, j \in DOMAIN r : r[i].fd = r[j].fd => i = j  BY <2>2
 <2>6. \E i \in DOMAIN r : r[i].fd = fd  BY <1>3, <2>2
 <2> QED  BY <1>2, <2>2, <2>4, <2>5, <2>6
<1>4. CASE ~\E i \in DOMAIN rs : rs[i].fd = fd
 <2>1. r = Append(rs, x)  BY <1>2, <1>4 DEF Attach
 <2>2. /\ r \in Seq(Registrations) /\ DOMAIN r = 1..(Len(rs) + 1)
       /\ r[Len(rs) + 1] = x /\ \A i \in DOMAIN rs : r[i] = rs[i]
   BY <1>2, <2>1, Appended
 <2>3. \A i \in DOMAIN r : i \in DOMAIN rs \/ i = Len(rs) + 1  BY <1>1, <2>2
 <2>4. \A i \in DOMAIN rs : i \in DOMAIN r /\ i # Len(rs) + 1  BY <1>1, <2>2
 <2>5. Len(rs) + 1 \in DOMAIN r  BY <1>1, <2>2
 <2>6. \A i, j \in DOMAIN r : r[i].fd = r[j].fd => i = j  BY <1>2, <1>4, <2>2, <2>3
 <2> QED  BY <1>2, <1>4, <2>2, <2>3, <2>4, <2>5, <2>6
<1> QED  BY <1>3, <1>4

\* Marking registrations as delivered changes nothing else of them.
LEMMA DeliveredProperties ==
  ASSUME NEW rs \in Seq(Registrations), NEW evs
  PROVE  /\ SameRegs(rs, AllDelivered(rs, evs))
         /\ \A i \in DOMAIN rs :
              \/ rs[i].callback /\ Deliverable(rs[i], evs)
              \/ AllDelivered(rs, evs)[i] = rs[i]
<1> DEFINE r == AllDelivered(rs, evs)
           P(i) == rs[i].callback /\ Deliverable(rs[i], evs)
<1>1. /\ DOMAIN r = DOMAIN rs
      /\ \A i \in DOMAIN rs :
           r[i] = IF P(i) THEN [rs[i] EXCEPT !.delivered = TRUE] ELSE rs[i]
  BY DEF AllDelivered
<1>2. DOMAIN rs = 1..Len(rs) /\ Len(rs) \in Nat
      /\ \A i \in DOMAIN rs : rs[i] \in Registrations
  OBVIOUS
<1>3. \A x \in Registrations :
        LET y == [x EXCEPT !.delivered = TRUE]
        IN  y \in Registrations /\ y.fd = x.fd /\ y.callback = x.callback
  BY DEF Registrations
<1> HIDE DEF P
<1>4. \A i \in DOMAIN rs : /\ r[i] \in Registrations /\ r[i].fd = rs[i].fd
                           /\ r[i].callback = rs[i].callback
                           /\ P(i) \/ r[i] = rs[i]
  BY <1>1, <1>2, <1>3
<1>5. r = [i \in 1..Len(rs) |-> r[i]]  BY <1>1, <1>2 DEF AllDelivered
<1>6. r \in [1..Len(rs) -> Registrations]  BY <1>2, <1>4, <1>5
<1>7. r \in Seq(Registrations)  BY <1>2, <1>6
<1> QED  BY <1>1, <1>4, <1>7 DEF SameRegs, P

\* What collect_host_input_events() makes of the queue.
LEMMA CollectedProperties ==
  ASSUME Offers
  PROVE  /\ Kept \in Nat /\ Taken \in Nat /\ Kept <= Taken /\ fromHost - Taken \in Nat
         /\ Kept = 0 => EventsAfter = events
         /\ EventsAfter \in Seq(Nat) /\ Len(EventsAfter) = Len(events) + Kept
         /\ next <= Len(EventsAfter)
         /\ serial + Kept = offered + (Len(EventsAfter) - next)
         /\ \A i \in (next + 1)..Len(EventsAfter) :
              EventsAfter[i] = offered + (i - next)
<1>1. /\ events \in Seq(Nat) /\ next \in 0..Len(events) /\ fromHost \in Nat
      /\ serial \in Nat /\ offered \in Nat /\ Len(events) \in Nat
      /\ serial = offered + (Len(events) - next)
      /\ \A i \in (next + 1)..Len(events) : events[i] = offered + (i - next)
  BY DEF Offers
<1>2. Kept \in Nat /\ Taken \in Nat /\ Kept <= Taken /\ fromHost - Taken \in Nat
  BY <1>1 DEF Kept, Taken
<1> DEFINE f == [i \in 1..Kept |-> serial + i]
<1>3. f \in [1..Kept -> Nat] /\ \A i \in 1..Kept : f[i] = serial + i  BY <1>1, <1>2
<1>4. EventsAfter = events \o f  BY DEF EventsAfter
<1> HIDE DEF f
<1>5. /\ EventsAfter \in Seq(Nat) /\ Len(EventsAfter) = Len(events) + Kept
      /\ \A i \in 1..Len(events) : EventsAfter[i] = events[i]
      /\ \A i \in 1..Kept : EventsAfter[Len(events) + i] = f[i]
      /\ DOMAIN EventsAfter = 1..(Len(events) + Kept)
 <2>a. PICK n \in Nat : n = Kept
   BY <1>2
 <2>b. PICK g \in [1..n -> Nat] : g = f
   BY <1>3, <2>a
 <2>c. PICK s \in Seq(Nat) : s = events
   BY <1>1
 <2>d. /\ s \o g \in Seq(Nat) /\ Len(s \o g) = Len(s) + n
       /\ DOMAIN (s \o g) = 1..(Len(s) + n)
       /\ \A i \in 1..Len(s) : (s \o g)[i] = s[i]
       /\ \A i \in 1..n : (s \o g)[Len(s) + i] = g[i]
   BY Joined
 <2>1. /\ events \o f \in Seq(Nat) /\ Len(events \o f) = Len(events) + Kept
       /\ DOMAIN (events \o f) = 1..(Len(events) + Kept)
       /\ \A i \in 1..Len(events) : (events \o f)[i] = events[i]
       /\ \A i \in 1..Kept : (events \o f)[Len(events) + i] = f[i]
   BY <2>a, <2>b, <2>c, <2>d, Zenon
 <2> QED  BY <1>4, <2>1
<1>6. Kept = 0 => EventsAfter = events
 <2>1. SUFFICES ASSUME Kept = 0 PROVE EventsAfter = events  OBVIOUS
 <2>2. Len(EventsAfter) = Len(events)  BY <1>1, <1>5, <2>1
 <2> QED  BY <1>1, <1>5, <2>2, SeqEqual
<1>7. ASSUME NEW i \in (next + 1)..Len(EventsAfter)
      PROVE  EventsAfter[i] = offered + (i - next)
 <2>1. CASE i <= Len(events)  BY <1>1, <1>5, <2>1
 <2>2. CASE ~(i <= Len(events))
  <3>1. i - Len(events) \in 1..Kept /\ Len(events) + (i - Len(events)) = i
    BY <1>1, <1>2, <1>5, <2>2
  <3>2. EventsAfter[i] = serial + (i - Len(events))  BY <1>3, <1>5, <3>1
  <3> QED  BY <1>1, <3>1, <3>2
 <2> QED  BY <2>1, <2>2
<1>8. /\ next <= Len(EventsAfter)
      /\ serial + Kept = offered + (Len(EventsAfter) - next)
  BY <1>1, <1>2, <1>5
<1> QED  BY <1>2, <1>5, <1>6, <1>7, <1>8

----
(* Which actions change what.                                              *)

\* Every action leaves alone what it is not named for here.
LEMMA Effects ==
  ASSUME [Next]_vars
  PROVE  /\ UNCHANGED <<window, bounded, defined>>
         /\ \/ UNCHANGED <<returns, joinWait, joined>>
            \/ StartPending \/ JoinsWorker \/ ThreadReturns
         /\ \/ UNCHANGED <<events, next, fromHost, serial, offered>>
            \/ Pump \/ AppPolls \/ AppYields \/ AppConsumes \/ CallbackConsumes
            \/ HostInput
         /\ \/ UNCHANGED frames
            \/ TakeFrames \/ RunFrame \/ MainCommand \/ FrameReturns
         /\ \/ UNCHANGED regs
            \/ MainCommand \/ AppBegins \/ Pump \/ AppPolls \/ AppReads
            \/ CallbackReads \/ AppConsumes \/ CallbackConsumes
         /\ UNCHANGED callbacks \/ TakeCallbacks \/ Pump \/ AppPolls
         /\ UNCHANGED pipe \/ MainCommand \/ AppReads \/ CallbackReads
         /\ UNCHANGED <<quit, attached>> \/ AppReads \/ CallbackReads
         /\ \/ UNCHANGED gpc
            \/ StartPending \/ MainCreate \/ AppBegins \/ AppPolls \/ AppReads
            \/ AppConsumes \/ ThreadReturns
         /\ UNCHANGED pending \/ BeginRound \/ MainCreate \/ AppBegins
         /\ UNCHANGED managed \/ AppYields
         /\ UNCHANGED script \/ Host
         /\ \/ UNCHANGED win
            \/ Pump \/ AppPolls \/ AppYields \/ AppConsumes \/ CallbackConsumes
            \/ FrameReturns \/ CloseWindow \/ DeadlinePasses
<1> USE DEF vars, script, threads, frames, looper, input, win
<1>1. CASE UNCHANGED vars  BY <1>1
<1>2. CASE CallStage  BY <1>2 DEF CallStage, Host, GoOn
<1>3. CASE BeginRound  BY <1>3 DEF BeginRound, Host
<1>4. CASE StartPending  BY <1>4 DEF StartPending, Host
<1>5. CASE BeginResume  BY <1>5 DEF BeginResume, Host
<1>6. CASE ResumeThread  BY <1>6 DEF ResumeThread, Host
<1>7. CASE TakeCallbacks  BY <1>7 DEF TakeCallbacks, Host
<1>8. CASE RunCallback  BY <1>8 DEF RunCallback, Host
<1>9. CASE TakeFrames  BY <1>9 DEF TakeFrames, Host
<1>10. CASE RunFrame  BY <1>10 DEF RunFrame, Host
<1>11. CASE EndRound  BY <1>11 DEF EndRound, Host
<1>12. CASE Pump  BY <1>12 DEF Pump, Host
<1>13. CASE AfterFrames  BY <1>13 DEF AfterFrames, Host
<1>14. CASE Tick  BY <1>14 DEF Tick, Host
<1>15. CASE MainCreate  BY <1>15 DEF MainCreate, CreateThread
<1>16. CASE MainCommand  BY <1>16 DEF MainCommand, WriteCommand
<1>17. CASE AppBegins  BY <1>17 DEF AppBegins
<1>18. CASE AppPolls  BY <1>18 DEF AppPolls
<1>19. CASE AppYields  BY <1>19 DEF AppYields
<1>20. CASE AppReads  BY <1>20 DEF AppReads
<1>21. CASE CallbackReads  BY <1>21 DEF CallbackReads
<1>22. CASE AppConsumes  BY <1>22 DEF AppConsumes, ConsumeEvent
<1>23. CASE CallbackConsumes  BY <1>23 DEF CallbackConsumes, ConsumeEvent
<1>24. CASE FrameReturns  BY <1>24 DEF FrameReturns
<1>25. CASE JoinsWorker  BY <1>25 DEF JoinsWorker
<1>26. CASE ThreadReturns  BY <1>26 DEF ThreadReturns
<1>27. CASE HostInput  BY <1>27 DEF HostInput
<1>28. CASE CloseWindow  BY <1>28 DEF CloseWindow
<1>29. CASE DeadlinePasses  BY <1>29 DEF DeadlinePasses
<1>30. CASE Finished  BY <1>30 DEF Finished
<1> QED  BY <1>1, <1>2, <1>3, <1>4, <1>5, <1>6, <1>7, <1>8, <1>9, <1>10, <1>11, <1>12,
     <1>13, <1>14, <1>15, <1>16, <1>17, <1>18, <1>19, <1>20, <1>21, <1>22, <1>23,
     <1>24, <1>25, <1>26, <1>27, <1>28, <1>29, <1>30 DEF Next, Host, GuestCode

----
(* Joins.                                                                  *)

\* complete_pthread_call() serves the joiner of the thread that has ended.
LEMMA CompletedKeepsJoins ==
  ASSUME ThreadShape, Joins, NEW t \in Threads, Completed(t)
  PROVE  Joins'
<1>1. /\ returns' = returns \cup {t} /\ joinWait' = joinWait \ {t}
      /\ \A u \in Threads : u # t => joined'[u] = joined[u]
      /\ joined'[t] # "waiting"
  BY DEF Completed, ThreadShape, Joins
<1> QED  BY <1>1 DEF Joins

\* A step leaves no joiner of an ended thread without its value.
LEMMA JoinsStep ==
  ASSUME Shape, Joins, [Next]_vars
  PROVE  Joins'
<1> USE DEF Shape
<1>1. CASE UNCHANGED <<returns, joinWait, joined>>  BY <1>1 DEF Joins
<1>2. CASE StartPending
 <2>1. CASE UNCHANGED <<gpc, returns, joinWait, joined>>  BY <2>1 DEF Joins
 <2>2. CASE Completed(Head(batch))
  <3>1. batch \in Seq(Threads) /\ batch # <<>>  BY <1>2 DEF StartPending, HostShape
  <3>2. Head(batch) \in Threads  BY <3>1
  <3> QED  BY <2>2, <3>2, CompletedKeepsJoins
 <2> QED  BY <1>2, <2>1, <2>2 DEF StartPending
<1>3. CASE JoinsWorker  BY <1>3 DEF JoinsWorker, Joins, ThreadShape, Threads
<1>4. CASE ThreadReturns
 <2>1. cur.what \in Threads /\ Completed(cur.what)  BY <1>4 DEF ThreadReturns, Threads
 <2> QED  BY <2>1, CompletedKeepsJoins
<1> QED  BY <1>1, <1>2, <1>3, <1>4, Effects

----
(* The input queue.                                                        *)

\* Collection appends the next events in order.
LEMMA CollectKeepsOffers ==
  ASSUME Offers, events' = EventsAfter, fromHost' = fromHost - Taken,
         serial' = serial + Kept, next' = next, offered' = offered
  PROVE  Offers'
<1> DEFINE evs == EventsAfter
<1>1. /\ Kept \in Nat /\ fromHost - Taken \in Nat
      /\ evs \in Seq(Nat) /\ Len(evs) \in Nat
      /\ next <= Len(evs) /\ serial + Kept = offered + (Len(evs) - next)
      /\ \A i \in (next + 1)..Len(evs) : evs[i] = offered + (i - next)
  BY CollectedProperties
<1>2. next \in Nat /\ serial \in Nat /\ offered \in Nat  BY DEF Offers
<1> HIDE DEF evs
<1>3. events' = evs  BY DEF evs
<1> QED  BY <1>1, <1>2, <1>3 DEF Offers

\* getEvent() offers the next event, and finishEvent() clears a used-up queue only.
LEMMA ConsumeKeepsOffers ==
  ASSUME Offers, ConsumeEvent
  PROVE  Offers'
<1> DEFINE evs == EventsAfter
           used == next + 1
<1>1. /\ Kept \in Nat /\ fromHost - Taken \in Nat
      /\ evs \in Seq(Nat) /\ Len(evs) \in Nat
      /\ next <= Len(evs) /\ serial + Kept = offered + (Len(evs) - next)
      /\ \A i \in (next + 1)..Len(evs) : evs[i] = offered + (i - next)
  BY CollectedProperties
<1>2. next \in Nat /\ serial \in Nat /\ offered \in Nat  BY DEF Offers
<1>3. /\ fromHost' = fromHost - Taken /\ serial' = serial + Kept
      /\ IF next < Len(evs)
         THEN /\ offered' = evs[used]
              /\ events' = IF Clears(evs, used) THEN <<>> ELSE evs
              /\ next' = IF Clears(evs, used) THEN 0 ELSE used
         ELSE events' = evs /\ offered' = offered /\ next' = next
  BY DEF ConsumeEvent, InputPending
<1> HIDE DEF evs
<1>4. CASE next < Len(evs) /\ Clears(evs, used)
 <2>1. /\ offered' = offered + 1 /\ events' = <<>> /\ next' = 0
       /\ Len(evs) = used
   BY <1>1, <1>2, <1>3, <1>4 DEF Clears
 <2>2. Len(events') = 0 /\ events' \in Seq(Nat)  BY <2>1
 <2> QED  BY <1>1, <1>2, <1>3, <2>1, <2>2 DEF Offers
<1>5. CASE next < Len(evs) /\ ~Clears(evs, used)
 <2>1. offered' = offered + 1 /\ events' = evs /\ next' = next + 1  BY <1>1, <1>2, <1>3, <1>5
 <2>2. fromHost' = fromHost - Taken /\ serial' = serial + Kept  BY <1>3
 <2>3. ASSUME NEW i \in (next' + 1)..Len(evs)
       PROVE  evs[i] = offered' + (i - next')
   BY <1>1, <1>2, <1>5, <2>1
 <2>4. next' \in 0..Len(evs) /\ serial' = offered' + (Len(evs) - next')
   BY <1>1, <1>2, <1>5, <2>1, <2>2
 <2>5. offered' \in Nat /\ serial' \in Nat /\ fromHost' \in Nat  BY <1>1, <1>2, <2>1, <2>2
 <2> QED  BY <1>1, <2>1, <2>3, <2>4, <2>5, Zenon DEF Offers
<1>6. CASE ~(next < Len(evs))  BY <1>1, <1>2, <1>3, <1>6 DEF Offers
<1> QED  BY <1>4, <1>5, <1>6

\* A step keeps the events in order.
LEMMA OffersStep ==
  ASSUME Offers, [Next]_vars
  PROVE  Offers'
<1>1. CASE UNCHANGED <<events, next, fromHost, serial, offered>>  BY <1>1 DEF Offers
<1>2. CASE Pump  BY <1>2, CollectKeepsOffers DEF Pump, Collect
<1>3. CASE AppPolls \/ AppYields
 <2>1. next' = next /\ offered' = offered /\ PollCollect  BY <1>3 DEF AppPolls, AppYields
 <2>2. CASE PollCollects  BY <2>1, <2>2, CollectKeepsOffers DEF PollCollect, Collect
 <2>3. CASE ~PollCollects  BY <2>1, <2>3 DEF PollCollect, Offers
 <2> QED  BY <2>2, <2>3
<1>4. CASE AppConsumes \/ CallbackConsumes
  BY <1>4, ConsumeKeepsOffers DEF AppConsumes, CallbackConsumes
<1>5. CASE HostInput  BY <1>5 DEF HostInput, Offers
<1> QED  BY <1>1, <1>2, <1>3, <1>4, <1>5, Effects

----
(* Frames.                                                                 *)

\* A frame callback is posted for a later time than all before it.
LEMMA PostKeepsFrames ==
  ASSUME HostShape, FramesAscend, NEW d \in 0..1, PostFrame(d),
         UNCHANGED <<batch, hpc>>
  PROVE  FramesAscend'
<1>1. /\ frameQueue \in Seq(Nat) /\ shown \in Seq(Nat) /\ nextFrame \in Nat
      /\ posted \in Nat /\ Ascending(shown) /\ Ascending(frameQueue)
      /\ Before(shown, frameQueue) /\ Before(shown, <<nextFrame>>)
      /\ Before(frameQueue, <<nextFrame>>)
  BY DEF FramesAscend
<1>2. PICK x \in Nat : x = nextFrame + d  BY <1>1
<1>3. /\ frameQueue' = Append(frameQueue, x) /\ nextFrame' = x + 1
      /\ posted' = posted + 1 /\ shown' = shown /\ nextFrame <= x
  BY <1>1, <1>2 DEF PostFrame
<1>4. /\ frameQueue' \in Seq(Nat) /\ DOMAIN frameQueue' = 1..(Len(frameQueue) + 1)
      /\ DOMAIN frameQueue = 1..Len(frameQueue) /\ Len(frameQueue) \in Nat
      /\ frameQueue'[Len(frameQueue) + 1] = x
      /\ \A i \in DOMAIN frameQueue : frameQueue'[i] = frameQueue[i]
  BY <1>1, <1>3, Appended
<1>5. \A s \in Seq(Nat) : Before(s, <<nextFrame>>) /\ Before(s, frameQueue)
        => Before(s, frameQueue') /\ Before(s, <<nextFrame>>')
 <2> SUFFICES ASSUME NEW s \in Seq(Nat), Before(s, <<nextFrame>>),
                     Before(s, frameQueue)
              PROVE  Before(s, frameQueue') /\ Before(s, <<nextFrame>>')
   OBVIOUS
 <2>1. \A i \in DOMAIN s : s[i] \in Nat /\ s[i] < nextFrame  BY <1>1 DEF Before
 <2>2. \A i \in DOMAIN s : s[i] < x /\ s[i] < x + 1  BY <1>1, <1>3, <2>1
 <2>3. Before(s, frameQueue')  BY <1>4, <2>2 DEF Before
 <2>4. Before(s, <<x + 1>>)  BY <2>2 DEF Before
 <2> QED  BY <1>3, <2>3, <2>4
<1>6. Ascending(frameQueue')
 <2>1. \A i \in DOMAIN frameQueue : frameQueue[i] \in Nat /\ frameQueue[i] < nextFrame
   BY <1>1 DEF Before
 <2>2. \A i \in DOMAIN frameQueue : frameQueue[i] < x  BY <1>1, <1>3, <2>1
 <2>3. \A i, j \in DOMAIN frameQueue : i < j => frameQueue[i] < frameQueue[j]
   BY <1>1 DEF Ascending
 <2>4. \A i, j \in DOMAIN frameQueue' : i < j =>
         i \in DOMAIN frameQueue /\ (j \in DOMAIN frameQueue \/ j = Len(frameQueue) + 1)
   BY <1>4
 <2> QED  BY <1>4, <2>2, <2>3, <2>4 DEF Ascending
<1>7. Before(frameQueue', <<nextFrame>>')
 <2>1. \A i \in DOMAIN frameQueue : frameQueue[i] \in Nat /\ frameQueue[i] < nextFrame
   BY <1>1 DEF Before
 <2>2. \A i \in DOMAIN frameQueue' : frameQueue'[i] < x + 1  BY <1>1, <1>3, <1>4, <2>1
 <2>3. Before(frameQueue', <<x + 1>>)  BY <2>2 DEF Before
 <2> QED  BY <1>3, <2>3
<1>8. hpc \in {"frames", "runFrames"} =>
        /\ Ascending(batch) /\ Before(shown, batch) /\ Before(batch, frameQueue)
        /\ Before(batch, <<nextFrame>>) /\ batch \in Seq(Nat)
  BY DEF FramesAscend, HostShape
<1>9. nextFrame' \in Nat /\ posted' \in Nat  BY <1>1, <1>2, <1>3
<1>10. /\ Before(shown, frameQueue') /\ Before(shown, <<nextFrame>>')
       /\ hpc \in {"frames", "runFrames"} =>
            Before(batch, frameQueue') /\ Before(batch, <<nextFrame>>')
  BY <1>1, <1>5, <1>8
<1> QED  BY <1>1, <1>3, <1>4, <1>6, <1>7, <1>8, <1>9, <1>10, Zenon DEF FramesAscend

\* A step keeps the frame times ascending, from the queue to the batch to what was
\* shown.
LEMMA FramesStep ==
  ASSUME HostShape, FramesAscend, [Next]_vars
  PROVE  FramesAscend'
<1> DEFINE Showing == hpc \in {"frames", "runFrames"}
<1>1. /\ frameQueue \in Seq(Nat) /\ shown \in Seq(Nat) /\ nextFrame \in Nat
      /\ posted \in Nat /\ Ascending(shown) /\ Ascending(frameQueue)
      /\ Before(shown, frameQueue) /\ Before(shown, <<nextFrame>>)
      /\ Before(frameQueue, <<nextFrame>>)
      /\ Showing => /\ Ascending(batch) /\ Before(shown, batch)
                    /\ Before(batch, frameQueue) /\ Before(batch, <<nextFrame>>)
  BY DEF FramesAscend
<1>2. Showing => batch \in Seq(Nat)  BY DEF HostShape
<1>3. Ascending(<<>>) /\ \A s : Before(s, <<>>) /\ Before(<<>>, s)  BY DEF Ascending, Before
<1>4. CASE TakeFrames
 <2>1. UNCHANGED <<nextFrame, posted, shown>>  BY <1>4 DEF TakeFrames
 <2>2. CASE batch' = frameQueue /\ frameQueue' = <<>>
  <3>1. frameQueue' \in Seq(Nat)  BY <2>2
  <3> QED  BY <1>1, <1>3, <2>1, <2>2, <3>1, Zenon DEF FramesAscend
 <2>3. CASE batch' = <<>> /\ UNCHANGED frameQueue
   BY <1>1, <1>3, <2>1, <2>3, Zenon DEF FramesAscend
 <2> QED  BY <1>4, <2>2, <2>3 DEF TakeFrames
<1>5. CASE RunFrame
 <2>1. /\ batch # <<>> /\ batch' = Tail(batch) /\ shown' = Append(shown, Head(batch))
       /\ hpc \in {"frames", "runFrames"} /\ hpc' = hpc
       /\ UNCHANGED <<frameQueue, nextFrame, posted>>
   BY <1>5 DEF RunFrame
 <2>2. batch \in Seq(Nat)  BY <1>2, <2>1
 <2>3. PICK x \in Nat : x = Head(batch) /\ x = batch[1] /\ 1 \in DOMAIN batch
   BY <2>1, <2>2, HeadAndTail
 <2>4. /\ batch' \in Seq(Nat)
       /\ \A i \in DOMAIN batch' : i + 1 \in DOMAIN batch /\ batch'[i] = batch[i + 1]
   BY <2>1, <2>2, HeadAndTail
 <2>5. /\ shown' \in Seq(Nat) /\ DOMAIN shown' = 1..(Len(shown) + 1)
       /\ Len(shown) \in Nat /\ DOMAIN shown = 1..Len(shown)
       /\ shown'[Len(shown) + 1] = x /\ \A i \in DOMAIN shown : shown'[i] = shown[i]
   BY <1>1, <2>1, <2>3, Appended
 <2>6. \A i \in DOMAIN shown' : i \in DOMAIN shown \/ i = Len(shown) + 1  BY <2>5
 <2>7. DOMAIN batch' \subseteq Nat \ {0} /\ DOMAIN batch \subseteq Nat  BY <2>2, <2>4
 <2>8. Ascending(batch')
  <3> SUFFICES ASSUME NEW i \in DOMAIN batch', NEW j \in DOMAIN batch', i < j
               PROVE  batch'[i] < batch'[j]
    BY DEF Ascending
  <3>1. i + 1 < j + 1  BY <2>7
  <3> QED  BY <1>1, <2>1, <2>4, <3>1 DEF Ascending
 <2>9. \A j \in DOMAIN batch' : x < batch'[j]
  <3> SUFFICES ASSUME NEW j \in DOMAIN batch' PROVE x < batch'[j]  OBVIOUS
  <3>1. 1 < j + 1  BY <2>7
  <3> QED  BY <1>1, <2>1, <2>3, <2>4, <3>1 DEF Ascending
 <2>10. Before(shown', batch')  BY <1>1, <2>1, <2>4, <2>5, <2>6, <2>9 DEF Before
 <2>11. Before(shown', frameQueue)  BY <1>1, <2>1, <2>3, <2>5, <2>6 DEF Before
 <2>12. Before(shown', <<nextFrame>>)  BY <1>1, <2>1, <2>3, <2>5, <2>6 DEF Before
 <2>13. Before(batch', frameQueue) /\ Before(batch', <<nextFrame>>)
   BY <1>1, <2>1, <2>4 DEF Before
 <2>14. Ascending(shown')
  <3>1. \A i \in DOMAIN shown : shown[i] < x  BY <1>1, <2>1, <2>3 DEF Before
  <3>2. \A i, j \in DOMAIN shown' : i < j =>
          i \in DOMAIN shown /\ (j \in DOMAIN shown \/ j = Len(shown) + 1)
    BY <2>5
  <3> QED  BY <1>1, <2>5, <3>1, <3>2 DEF Ascending
 <2> QED  BY <1>1, <2>1, <2>5, <2>8, <2>10, <2>11, <2>12, <2>13, <2>14, Zenon DEF FramesAscend
<1>6. CASE UNCHANGED frames /\ ~TakeFrames /\ ~RunFrame
 <2>1. UNCHANGED <<frameQueue, nextFrame, posted, shown>>  BY <1>6 DEF frames
 <2>2. ~Showing' \/ UNCHANGED <<hpc, batch>>
  <3>1. CASE UNCHANGED script  BY <3>1 DEF script
  <3>2. CASE Host  BY <1>6, <3>2 DEF Host, CallStage, BeginRound, StartPending, BeginResume,
       ResumeThread, TakeCallbacks, RunCallback, EndRound, Pump, AfterFrames,
       Tick, FinishDrain, GoOn, HostShape, Drains
  <3> QED  BY <3>1, <3>2, Effects
 <2> QED  BY <1>1, <2>1, <2>2, Zenon DEF FramesAscend
<1>7. CASE MainCommand \/ FrameReturns
 <2>1. UNCHANGED <<batch, hpc>>  BY <1>7 DEF MainCommand, FrameReturns, script
 <2>2. CASE UNCHANGED frames  BY <1>1, <2>1, <2>2, Zenon DEF FramesAscend, frames
 <2>3. CASE \E d \in 0..1 : PostFrame(d)  BY <2>1, <2>3, PostKeepsFrames
 <2> QED  BY <1>7, <2>2, <2>3 DEF MainCommand, FrameReturns
<1> QED  BY <1>4, <1>5, <1>6, <1>7, Effects

----
(* Types.                                                                  *)

\* A step keeps the types of the window and the queue.
LEMMA WindowShapeStep ==
  ASSUME WindowShape, [Next]_vars
  PROVE  WindowShape'
<1>1. UNCHANGED <<window, bounded, defined>>  BY Effects
<1>2. attached' \in BOOLEAN
 <2>1. CASE AppReads \/ CallbackReads
   BY <2>1 DEF AppReads, CallbackReads, ReadCommand, Obey, WindowShape
 <2> QED  BY <2>1, Effects DEF WindowShape
<1>3. CollectWindow \/ EnsureWindow \/ UNCHANGED win \/ CloseWindow \/ DeadlinePasses
  BY Effects DEF Pump, AppPolls, AppYields, PollCollect, Collect, AppConsumes,
     CallbackConsumes, ConsumeEvent, FrameReturns
<1>4. /\ windowOpen' \in BOOLEAN /\ closing' \in BOOLEAN /\ expired' \in BOOLEAN
      /\ windowOpen' => window
 <2>1. CASE CollectWindow  BY <2>1, Zenon DEF CollectWindow, WindowShape
 <2>2. CASE EnsureWindow  BY <2>2, Zenon DEF EnsureWindow, WindowShape
 <2>3. CASE UNCHANGED win  BY <2>3, Zenon DEF win, WindowShape
 <2>4. CASE CloseWindow  BY <2>4, Zenon DEF CloseWindow, WindowShape
 <2>5. CASE DeadlinePasses  BY <2>5, Zenon DEF DeadlinePasses, WindowShape
 <2> QED  BY <1>3, <2>1, <2>2, <2>3, <2>4, <2>5, Zenon
<1> QED  BY <1>1, <1>2, <1>4, Zenon DEF WindowShape

\* A step keeps the types of the threads, and a thread is managed once.
LEMMA ThreadShapeStep ==
  ASSUME Shape, [Next]_vars
  PROVE  ThreadShape'
<1> USE DEF Shape
<1>1. /\ gpc \in [Threads -> {"unborn", "null", "begin", "poll", "finished"} \cup Fds]
      /\ pending \in Seq(Threads) /\ managed \in Seq(Threads)
      /\ \A i, j \in DOMAIN managed : managed[i] = managed[j] => i = j
      /\ returns \subseteq Threads /\ joinWait \subseteq Threads
      /\ joined \in [Threads -> {"no", "waiting", "written"}]
      /\ "app" \in Threads /\ "worker" \in Threads
  BY DEF ThreadShape, Threads
<1>2. hpc = "start" /\ batch # <<>> => Head(batch) \in Threads  BY DEF HostShape
<1>3. gpc' \in [Threads -> {"unborn", "null", "begin", "poll", "finished"} \cup Fds]
 <2>1. CASE StartPending  BY <1>1, <1>2, <2>1 DEF StartPending
 <2>2. CASE MainCreate  BY <1>1, <2>2 DEF MainCreate, CreateThread
 <2>3. CASE AppBegins  BY <1>1, <2>3 DEF AppBegins
 <2>4. CASE AppPolls
  <3>a. \A i \in DOMAIN regs : regs[i] \in Registrations
    BY DEF LooperShape
  <3>1. \A i \in DOMAIN regs : regs[i].fd \in Fds  BY <3>a DEF Registrations
  <3>2. gpc' = gpc \/ \E fd \in Fds : gpc' = [gpc EXCEPT !["app"] = fd]
    BY <2>4, <3>1 DEF AppPolls
  <3> QED  BY <1>1, <3>2
 <2>5. CASE AppReads \/ AppConsumes  BY <1>1, <2>5 DEF AppReads, AppConsumes
 <2>6. CASE ThreadReturns  BY <1>1, <2>6 DEF ThreadReturns
 <2> QED  BY <1>1, <2>1, <2>2, <2>3, <2>4, <2>5, <2>6, Effects
<1>4. pending' \in Seq(Threads)
 <2>1. <<>> \in Seq(Threads) /\ \A t \in Threads : Append(pending, t) \in Seq(Threads)  BY <1>1
 <2>2. \/ pending' \in {pending, <<>>}
       \/ \E t \in Threads : pending' = Append(pending, t)
   BY <1>1, Effects DEF BeginRound, MainCreate, CreateThread, AppBegins
 <2> QED  BY <1>1, <2>1, <2>2
<1>5. /\ managed' \in Seq(Threads)
      /\ \A i, j \in DOMAIN managed' : managed'[i] = managed'[j] => i = j
 <2>1. CASE managed' = managed  BY <1>1, <2>1
 <2>2. CASE managed' = Append(managed, "app")
              /\ ~\E i \in DOMAIN managed : managed[i] = "app"
  <3>1. /\ managed' \in Seq(Threads) /\ DOMAIN managed' = 1..(Len(managed) + 1)
        /\ DOMAIN managed = 1..Len(managed) /\ Len(managed) \in Nat
        /\ managed'[Len(managed) + 1] = "app"
        /\ \A i \in DOMAIN managed : managed'[i] = managed[i]
    BY <1>1, <2>2, Appended
  <3>2. \A i \in DOMAIN managed' : i \in DOMAIN managed \/ i = Len(managed) + 1  BY <3>1
  <3> QED  BY <1>1, <2>2, <3>1, <3>2
 <2> QED  BY <2>1, <2>2, Effects DEF AppYields, AddManaged
<1>6. /\ returns' \subseteq Threads /\ joinWait' \subseteq Threads
      /\ joined' \in [Threads -> {"no", "waiting", "written"}]
 <2>1. CASE StartPending  BY <1>1, <1>2, <2>1 DEF StartPending, Completed
 <2>2. CASE JoinsWorker  BY <1>1, <2>2 DEF JoinsWorker
 <2>3. CASE ThreadReturns  BY <1>1, <2>3 DEF ThreadReturns, Completed
 <2> QED  BY <1>1, <2>1, <2>2, <2>3, Effects
<1> QED  BY <1>3, <1>4, <1>5, <1>6 DEF ThreadShape

\* Every list of registrations that a step makes is one, with a descriptor in it
\* at most once.
RegsOK(rs) == /\ rs \in Seq(Registrations)
              /\ \A i, j \in DOMAIN rs : rs[i].fd = rs[j].fd => i = j

\* Registrations that differ in what was delivered are in order together.
LEMMA SameRegsOK ==
  ASSUME NEW a, NEW b, RegsOK(a), SameRegs(a, b)
  PROVE  RegsOK(b)
BY DEF RegsOK, SameRegs

\* rearm_looper_fd() keeps the registrations in order.
LEMMA RearmOK ==
  ASSUME NEW rs, RegsOK(rs), NEW fd \in Fds
  PROVE  RegsOK(Rearm(rs, fd)) /\ SameRegs(rs, Rearm(rs, fd))
BY RearmProperties, SameRegsOK DEF RegsOK

\* So does collection.
LEMMA RegsAfterOK ==
  ASSUME RegsOK(regs)
  PROVE  RegsOK(RegsAfter) /\ SameRegs(regs, RegsAfter)
<1>1. SameRegs(regs, regs)  BY DEF RegsOK, SameRegs
<1>2. RegsOK(Rearm(regs, InputFd)) /\ SameRegs(regs, Rearm(regs, InputFd))  BY RearmOK DEF Fds
<1> QED  BY <1>1, <1>2 DEF RegsAfter

\* The registrations after the command s was obeyed: without the input queue's,
\* or with a new one; the others stay.
LEMMA ObeyRegsProperties ==
  ASSUME NEW s, NEW rs, RegsOK(rs), NEW callback \in BOOLEAN,
         ObeyRegs(s, rs, callback)
  PROVE  /\ RegsOK(regs')
         /\ \A i \in DOMAIN rs : rs[i].fd = PipeFd =>
              \E j \in DOMAIN regs' : regs'[j] = rs[i]
         /\ \A j \in DOMAIN regs' :
              \/ \E i \in DOMAIN rs : regs'[j] = rs[i]
              \/ regs'[j].fd = InputFd /\ ~regs'[j].delivered
         /\ s = "inputGone" => \A j \in DOMAIN regs' : regs'[j].fd # InputFd
         /\ s = "input" => \A j \in DOMAIN regs' :
              regs'[j].fd = InputFd => ~regs'[j].delivered
<1>1. rs \in Seq(Registrations) /\ PipeFd # InputFd /\ InputFd \in Fds
  BY DEF RegsOK, Fds, PipeFd, InputFd
<1>2. CASE s = "input" /\ regs' = Attach(rs, InputFd, callback)
 <2>1. PICK r : r = Attach(rs, InputFd, callback)  OBVIOUS
 <2>2. /\ r \in Seq(Registrations)
       /\ \A i, j \in DOMAIN r : r[i].fd = r[j].fd => i = j
       /\ \A i \in DOMAIN r : r[i].fd = InputFd => ~r[i].delivered
       /\ \A i \in DOMAIN r : r[i].fd # InputFd => i \in DOMAIN rs /\ r[i] = rs[i]
       /\ \A i \in DOMAIN rs : rs[i].fd # InputFd => i \in DOMAIN r /\ r[i] = rs[i]
   BY <1>1, <2>1, AttachProperties DEF RegsOK
 <2>3. s # "inputGone" /\ regs' = r  BY <1>2, <2>1
 <2> QED  BY <1>1, <2>2, <2>3, Zenon DEF RegsOK
<1>3. CASE s = "inputGone"
           /\ regs' \in Selected(rs, {i \in DOMAIN rs : rs[i].fd # InputFd})
 <2> DEFINE S == {i \in DOMAIN rs : rs[i].fd # InputFd}
 <2>1. S \in SUBSET DOMAIN rs  OBVIOUS
 <2>2. PICK r \in Selected(rs, S) : r = regs'  BY <1>3
 <2>a. \A i : i \in S <=> i \in DOMAIN rs /\ rs[i].fd # InputFd
   OBVIOUS
 <2> HIDE DEF S
 <2>3. /\ r \in Seq(Registrations)
       /\ \A k \in DOMAIN r : \E i \in S : r[k] = rs[i]
       /\ \A i \in S : \E k \in DOMAIN r : r[k] = rs[i]
       /\ \A k, l \in DOMAIN r : k # l =>
            \E i, j \in S : i # j /\ r[k] = rs[i] /\ r[l] = rs[j]
   BY <1>1, <2>1, <2>2, Selection
 <2>4. \A k, l \in DOMAIN r : r[k].fd = r[l].fd => k = l
  <3> SUFFICES ASSUME NEW k \in DOMAIN r, NEW l \in DOMAIN r, k # l
               PROVE  r[k].fd # r[l].fd
    OBVIOUS
  <3>1. PICK i \in S, j \in S : i # j /\ r[k] = rs[i] /\ r[l] = rs[j]  BY <2>3
  <3>2. i \in DOMAIN rs /\ j \in DOMAIN rs  BY <2>1
  <3> QED  BY <3>1, <3>2 DEF RegsOK
 <2>5. \A k \in DOMAIN r : r[k].fd # InputFd /\ \E i \in DOMAIN rs : r[k] = rs[i]
  <3> TAKE k \in DOMAIN r
  <3>1. PICK i \in S : r[k] = rs[i]  BY <2>3
  <3> QED  BY <2>a, <3>1
 <2>6. s # "input"  BY <1>3
 <2>7. \A i \in DOMAIN rs : rs[i].fd = PipeFd => \E k \in DOMAIN r : r[k] = rs[i]
   BY <1>1, <2>a, <2>3, Zenon
 <2> QED  BY <2>2, <2>3, <2>4, <2>5, <2>6, <2>7 DEF RegsOK
<1>4. CASE s \notin {"input", "inputGone"} /\ regs' = rs
 <2>1. s # "input" /\ s # "inputGone"  BY <1>4
 <2> QED  BY <1>4, <2>1, Zenon
<1> QED  BY <1>2, <1>3, <1>4, Zenon DEF ObeyRegs

\* The registrations after read() of a command.
LEMMA ReadProperties ==
  ASSUME RegsOK(regs), NEW callback \in BOOLEAN, ReadCommand(callback)
  PROVE  /\ RegsOK(regs')
         /\ \A i \in DOMAIN regs : regs[i].fd = PipeFd =>
              \E j \in DOMAIN regs' : /\ regs'[j].fd = PipeFd
                                      /\ regs'[j].callback = regs[i].callback
         /\ \A j \in DOMAIN regs' :
              /\ regs'[j].fd = PipeFd /\ pipe' # <<>> => ~regs'[j].delivered
              /\ regs'[j].fd = InputFd /\ attached' =>
                   \/ ~regs'[j].delivered
                   \/ attached /\ \E i \in DOMAIN regs : regs'[j] = regs[i]
<1> DEFINE rs == IF Tail(pipe) # <<>> THEN Rearm(regs, PipeFd) ELSE regs
<1>1. regs \in Seq(Registrations) /\ PipeFd \in Fds /\ PipeFd # InputFd
  BY DEF RegsOK, Fds, PipeFd, InputFd
<1>2. /\ RegsOK(rs) /\ DOMAIN rs = DOMAIN regs
      /\ \A i \in DOMAIN regs :
           /\ rs[i].fd = regs[i].fd /\ rs[i].callback = regs[i].callback
           /\ rs[i].fd # PipeFd => rs[i] = regs[i]
           /\ rs[i].fd = PipeFd /\ Tail(pipe) # <<>> => ~rs[i].delivered
 <2>1. CASE Tail(pipe) # <<>>
  <3>1. rs = Rearm(regs, PipeFd)  BY <2>1
  <3>2. RegsOK(rs) /\ SameRegs(regs, rs)  BY <1>1, <3>1, RearmOK
  <3>3. \A i \in DOMAIN regs :
          /\ regs[i].fd = PipeFd => ~rs[i].delivered
          /\ regs[i].fd # PipeFd => rs[i] = regs[i]
    BY <1>1, <3>1, RearmProperties
  <3> QED  BY <2>1, <3>2, <3>3, Zenon DEF SameRegs
 <2>2. CASE Tail(pipe) = <<>>  BY <2>2
 <2> QED  BY <2>1, <2>2
<1>3. /\ ObeyRegs(Head(pipe), rs, callback) /\ pipe' = Tail(pipe)
      /\ attached' = (IF Head(pipe) = "input" THEN TRUE
                      ELSE IF Head(pipe) = "inputGone" THEN FALSE ELSE attached)
  BY DEF ReadCommand, Obey
<1> HIDE DEF rs
<1>4. /\ RegsOK(regs')
      /\ \A i \in DOMAIN rs : rs[i].fd = PipeFd =>
           \E j \in DOMAIN regs' : regs'[j] = rs[i]
      /\ \A j \in DOMAIN regs' :
           \/ \E i \in DOMAIN rs : regs'[j] = rs[i]
           \/ regs'[j].fd = InputFd /\ ~regs'[j].delivered
      /\ Head(pipe) = "inputGone" => \A j \in DOMAIN regs' : regs'[j].fd # InputFd
      /\ Head(pipe) = "input" => \A j \in DOMAIN regs' :
           regs'[j].fd = InputFd => ~regs'[j].delivered
  BY <1>2, <1>3, ObeyRegsProperties
<1>5. \A i \in DOMAIN regs : regs[i].fd = PipeFd =>
        \E j \in DOMAIN regs' : /\ regs'[j].fd = PipeFd
                                /\ regs'[j].callback = regs[i].callback
  BY <1>2, <1>4
<1>6. ASSUME NEW j \in DOMAIN regs', regs'[j].fd = PipeFd, pipe' # <<>>
      PROVE  ~regs'[j].delivered
  BY <1>1, <1>2, <1>3, <1>4, <1>6, Zenon
<1>7. ASSUME NEW j \in DOMAIN regs', regs'[j].fd = InputFd, attached',
             regs'[j].delivered
      PROVE  attached /\ \E i \in DOMAIN regs : regs'[j] = regs[i]
 <2>1. Head(pipe) # "input" /\ Head(pipe) # "inputGone"  BY <1>4, <1>7, Zenon
 <2>2. attached  BY <1>3, <1>7, <2>1, Zenon
 <2>3. PICK i \in DOMAIN rs : regs'[j] = rs[i]  BY <1>4, <1>7, Zenon
 <2>4. regs'[j] = regs[i] /\ i \in DOMAIN regs  BY <1>1, <1>2, <1>7, <2>3, Zenon
 <2> QED  BY <2>2, <2>4
<1> QED  BY <1>4, <1>5, <1>6, <1>7, Zenon

\* The registrations after getEvent() and finishEvent().
LEMMA ConsumeProperties ==
  ASSUME RegsOK(regs), Offers, ConsumeEvent
  PROVE  /\ RegsOK(regs') /\ SameRegs(regs, regs')
         /\ \A i \in DOMAIN regs : regs[i].fd # InputFd => regs'[i] = regs[i]
         /\ \A i \in DOMAIN regs : regs[i].fd = InputFd /\ attached
              /\ next' < Len(events') => ~regs'[i].delivered
<1> DEFINE evs == EventsAfter
           used == next + 1
<1>1. regs \in Seq(Registrations) /\ InputFd \in Fds  BY DEF RegsOK, Fds, InputFd
<1>2. SameRegs(regs, regs)  BY <1>1 DEF SameRegs
<1>3. /\ IF next < Len(evs)
         THEN /\ events' = IF Clears(evs, used) THEN <<>> ELSE evs
              /\ next' = IF Clears(evs, used) THEN 0 ELSE used
              /\ regs' = IF attached /\ used < Len(evs)
                         THEN Rearm(RegsAfter, InputFd) ELSE RegsAfter
         ELSE events' = evs /\ next' = next /\ regs' = RegsAfter
  BY DEF ConsumeEvent, InputPending
<1>4. RegsOK(RegsAfter) /\ SameRegs(regs, RegsAfter)
      /\ \A i \in DOMAIN regs : regs[i].fd # InputFd => RegsAfter[i] = regs[i]
  BY <1>1, RegsAfterOK, RearmProperties DEF RegsAfter
<1>5. PICK rs \in Seq(Registrations) : rs = RegsAfter  BY <1>4 DEF RegsOK
<1>6. RegsOK(Rearm(rs, InputFd)) /\ SameRegs(rs, Rearm(rs, InputFd))
      /\ \A i \in DOMAIN rs :
              /\ rs[i].fd = InputFd => ~Rearm(rs, InputFd)[i].delivered
              /\ rs[i].fd # InputFd => Rearm(rs, InputFd)[i] = rs[i]
  BY <1>1, <1>4, <1>5, RearmProperties, RearmOK
<1>7. CASE regs' = Rearm(rs, InputFd)
 <2>1. PICK r : r = Rearm(rs, InputFd)  OBVIOUS
 <2> QED  BY <1>4, <1>5, <1>6, <1>7, <2>1 DEF SameRegs
<1>8. CASE regs' = rs /\ ~(attached /\ next' < Len(events'))  BY <1>4, <1>5, <1>8
<1>9. next \in Nat /\ Len(evs) \in Nat /\ Len(<<>>) = 0  BY CollectedProperties DEF Offers
<1> HIDE DEF evs
<1>10. regs' = Rearm(rs, InputFd) \/ (regs' = rs /\ ~(attached /\ next' < Len(events')))
 <2>1. CASE next < Len(evs) /\ Clears(evs, used)  BY <1>3, <1>5, <1>9, <2>1
 <2>2. CASE next < Len(evs) /\ ~Clears(evs, used)  BY <1>3, <1>5, <1>9, <2>2
 <2>3. CASE ~(next < Len(evs))  BY <1>3, <1>5, <1>9, <2>3
 <2> QED  BY <2>1, <2>2, <2>3
<1> QED  BY <1>7, <1>8, <1>10

\* Marking one registration as delivered.
LEMMA MarkProperties ==
  ASSUME NEW rs, RegsOK(rs), NEW k \in DOMAIN rs,
         NEW r, r = [rs EXCEPT ![k].delivered = TRUE]
  PROVE  /\ RegsOK(r) /\ SameRegs(rs, r)
         /\ \A i \in DOMAIN rs : i # k => r[i] = rs[i]
<1>1. /\ rs \in Seq(Registrations) /\ DOMAIN rs = 1..Len(rs) /\ Len(rs) \in Nat
      /\ \A i \in DOMAIN rs : rs[i] \in Registrations
  BY DEF RegsOK
<1> DEFINE y == [rs[k] EXCEPT !.delivered = TRUE]
<1>2. y \in Registrations /\ y.fd = rs[k].fd /\ y.callback = rs[k].callback
  BY <1>1 DEF Registrations
<1>3. r = [rs EXCEPT ![k] = y]  OBVIOUS
<1> HIDE DEF y
<1>4. /\ DOMAIN r = DOMAIN rs /\ r[k] = y /\ \A i \in DOMAIN rs : i # k => r[i] = rs[i]
      /\ r \in Seq(Registrations)
 <2>1. rs \in [1..Len(rs) -> Registrations]  BY <1>1
 <2>2. r \in [1..Len(rs) -> Registrations]  BY <1>2, <1>3, <2>1
 <2>3. r \in Seq(Registrations)  BY <1>1, <2>2
 <2> QED  BY <1>1, <1>3, <2>2, <2>3
<1>5. SameRegs(rs, r)  BY <1>2, <1>4 DEF SameRegs
<1> QED  BY <1>4, <1>5, SameRegsOK

\* A step keeps the registrations in order, and the pipe's with its callback.
LEMMA RegsStep ==
  ASSUME LooperShape, Offers, AppLife, [Next]_vars
  PROVE  /\ RegsOK(regs')
         /\ \A i \in DOMAIN regs : regs[i].fd = PipeFd =>
              \E j \in DOMAIN regs' : /\ regs'[j].fd = PipeFd
                                      /\ regs'[j].callback = regs[i].callback
<1>1. RegsOK(regs)  BY DEF LooperShape, RegsOK
<1>2. InputFd \in Fds /\ PipeFd \in Fds  BY DEF Fds
<1> DEFINE PipeKept(a, b) ==
             \A i \in DOMAIN a : a[i].fd = PipeFd =>
               \E j \in DOMAIN b : b[j].fd = PipeFd /\ b[j].callback = a[i].callback
<1>3. \A a, b : SameRegs(a, b) => PipeKept(a, b)  BY DEF SameRegs
<1>4. \A a, b, c : SameRegs(a, b) /\ SameRegs(b, c) => SameRegs(a, c)  BY DEF SameRegs
<1>5. SUFFICES RegsOK(regs') /\ PipeKept(regs, regs')  OBVIOUS
<1> HIDE DEF PipeKept
<1>6. CASE UNCHANGED regs  BY <1>1, <1>6 DEF PipeKept
<1>7. CASE MainCommand
 <2>1. regs' = Rearm(regs, PipeFd)  BY <1>7 DEF MainCommand, WriteCommand
 <2> QED  BY <1>1, <1>2, <1>3, <2>1, RearmOK
<1>8. CASE AppBegins
 <2>1. PICK callback \in BOOLEAN : regs' = Attach(regs, PipeFd, callback)  BY <1>8 DEF AppBegins
 <2>2. regs = <<>>  BY <1>8 DEF AppBegins, AppLife
 <2>3. RegsOK(regs')  BY <1>1, <1>2, <2>1, AttachProperties DEF RegsOK
 <2> QED  BY <2>2, <2>3 DEF PipeKept
<1>9. CASE Pump
 <2>1. regs' = AllDelivered(RegsAfter, EventsAfter)  BY <1>9 DEF Pump
 <2>2. RegsOK(RegsAfter) /\ SameRegs(regs, RegsAfter)  BY <1>1, RegsAfterOK
 <2>3. SameRegs(RegsAfter, regs')  BY <2>1, <2>2, DeliveredProperties DEF RegsOK
 <2> QED  BY <1>3, <1>4, <2>2, <2>3, SameRegsOK
<1>10. CASE AppPolls
 <2> DEFINE rs == IF PollCollects THEN RegsAfter ELSE regs
 <2>1. PICK k \in DOMAIN regs : regs' = [rs EXCEPT ![k].delivered = TRUE]  BY <1>10 DEF AppPolls
 <2>2. SameRegs(regs, regs)  BY <1>1 DEF SameRegs, RegsOK
 <2>3. RegsOK(rs) /\ SameRegs(regs, rs)  BY <1>1, <2>2, RegsAfterOK
 <2> HIDE DEF rs
 <2>4. k \in DOMAIN rs  BY <2>3 DEF SameRegs
 <2>5. RegsOK(regs') /\ SameRegs(rs, regs')  BY <2>1, <2>3, <2>4, MarkProperties
 <2> QED  BY <1>3, <1>4, <2>3, <2>5
<1>11. CASE AppReads
 <2>1. PICK callback \in BOOLEAN : ReadCommand(callback)  BY <1>11 DEF AppReads
 <2> QED  BY <1>1, <2>1, ReadProperties DEF PipeKept
<1>12. CASE CallbackReads
 <2>1. CASE UNCHANGED regs  BY <1>6, <2>1
 <2>2. CASE \E callback \in BOOLEAN : ReadCommand(callback)
   BY <1>1, <2>2, ReadProperties DEF PipeKept
 <2> QED  BY <1>12, <2>1, <2>2 DEF CallbackReads
<1>13. CASE AppConsumes \/ CallbackConsumes
  BY <1>1, <1>3, <1>13, ConsumeProperties DEF AppConsumes, CallbackConsumes
<1> QED  BY <1>6, <1>7, <1>8, <1>9, <1>10, <1>11, <1>12, <1>13, Effects

\* A step keeps the types of the looper.
LEMMA LooperShapeStep ==
  ASSUME Shape, Offers, AppLife, [Next]_vars
  PROVE  LooperShape'
<1>1. RegsOK(regs')  BY RegsStep DEF Shape
<1>2. callbacks \in Seq(Fds) /\ pipe \in Seq(Commands) /\ RegsOK(regs)
      /\ quit \in BOOLEAN
  BY DEF Shape, LooperShape, RegsOK
<1>3. callbacks' \in Seq(Fds)
 <2>1. CASE TakeCallbacks  BY <1>2, <2>1 DEF TakeCallbacks
 <2>2. CASE Pump
  <3> DEFINE rs == RegsAfter
             S == {i \in DOMAIN rs :
                     rs[i].callback /\ Deliverable(rs[i], EventsAfter)}
  <3>1. PICK ready \in Selected(rs, S) :
          callbacks' = callbacks \o [i \in DOMAIN ready |-> ready[i].fd]
    BY <2>2 DEF Pump, ReadyCallbacks
  <3>2. rs \in Seq(Registrations) /\ S \in SUBSET DOMAIN rs  BY <1>2, RegsAfterOK DEF RegsOK
  <3> HIDE DEF rs, S
  <3>3. ready \in Seq(Registrations)  BY <3>1, <3>2, Selection
  <3> DEFINE f == [i \in DOMAIN ready |-> ready[i].fd]
  <3>4. DOMAIN ready = 1..Len(ready) /\ Len(ready) \in Nat
        /\ \A i \in DOMAIN ready : ready[i].fd \in Fds
   <4>1. \A i \in DOMAIN ready : ready[i] \in Registrations  BY <3>3
   <4>2. \A x \in Registrations : x.fd \in Fds  BY DEF Registrations
   <4> QED  BY <3>3, <4>1, <4>2
  <3>5. f \in [1..Len(ready) -> Fds]  BY <3>4
  <3> HIDE DEF f
  <3>6. f \in Seq(Fds)  BY <3>4, <3>5
  <3>7. callbacks' = callbacks \o f  BY <3>1 DEF f
  <3> QED  BY <1>2, <3>6, <3>7
 <2>3. CASE AppPolls
  <3>1. \A i \in DOMAIN regs : regs[i] \in Registrations  BY <1>2 DEF RegsOK
  <3>2. \A i \in DOMAIN regs : regs[i].fd \in Fds  BY <3>1 DEF Registrations
  <3>3. callbacks' = callbacks \/ \E fd \in Fds : callbacks' = Append(callbacks, fd)
    BY <2>3, <3>2 DEF AppPolls
  <3> QED  BY <1>2, <3>3
 <2> QED  BY <1>2, <2>1, <2>2, <2>3, Effects
<1>4. pipe' \in Seq(Commands)
 <2>1. CASE MainCommand
  <3>1. hpc = "pending" /\ cur = Guest("main", Script[stage]) /\ stage \in 1..15
    BY <2>1 DEF Shape, HostShape, MainCommand, Running, Nobody, Guest, ThreadCode,
       CallbackCode, FrameCode
  <3>2. cur.what \in Commands  BY <3>1, ScriptValues DEF Guest
  <3>3. pipe' = Append(pipe, cur.what)  BY <2>1 DEF MainCommand, WriteCommand
  <3> QED  BY <1>2, <3>2, <3>3
 <2>2. pipe # <<>> => Tail(pipe) \in Seq(Commands)  BY <1>2
 <2> QED  BY <1>2, <2>1, <2>2, Effects DEF AppReads, CallbackReads, ReadCommand
<1>5. quit' \in BOOLEAN  BY <1>2, Effects DEF AppReads, CallbackReads, ReadCommand, Obey
<1> QED  BY <1>1, <1>3, <1>4, <1>5 DEF LooperShape, RegsOK

\* What FinishDrain and the steps that go on do to the host's position.
LEMMA FinishKeepsHost ==
  ASSUME HostShape, FinishDrain, hpc \in {"pending", "frames"},
         drain' \in Drains, cur' = Nobody
  PROVE  HostShape'
<1>1. /\ stage \in 1..15 /\ drain \in Drains /\ loopWork \in BOOLEAN
      /\ stage # 15 /\ (drain.ret # "next" => stage = 9)
  BY DEF HostShape
<1>2. drain.ret \in {"next", "loopFrames", "tick"} /\ drain.any \in BOOLEAN  BY <1>1 DEF Drains
<1>3. loopWork' \in BOOLEAN /\ batch' = <<>>  BY <1>1, <1>2, Zenon DEF FinishDrain
<1>4. /\ hpc' \in {"call", "loopFrames", "tick"} /\ stage' \in 1..15
      /\ hpc' # "call" => stage' = 9
  BY <1>1, <1>2 DEF FinishDrain, GoOn
<1> QED  BY <1>3, <1>4 DEF HostShape

\* A step takes the host from one of its places to another, with what it has taken
\* and called there.
LEMMA HostShapeStep ==
  ASSUME Shape, FramesAscend, [Next]_vars
  PROVE  HostShape'
<1>1. /\ stage \in 1..15 /\ drain \in Drains /\ loopWork \in BOOLEAN
      /\ hpc # "call" => stage # 15
      /\ hpc \in {"pump", "loopFrames", "runFrames", "tick"} => stage = 9
      /\ hpc \in {"pending", "start", "resume", "callbacks", "frames"}
           /\ drain.ret # "next" => stage = 9
  BY DEF Shape, HostShape
<1>2. /\ HostShape /\ callbacks \in Seq(Fds) /\ pending \in Seq(Threads)
      /\ managed \in Seq(Threads) /\ frameQueue \in Seq(Nat)
      /\ <<>> \in Seq(Threads) /\ <<>> \in Seq(Fds) /\ <<>> \in Seq(Nat)
  BY DEF Shape, ThreadShape, LooperShape, FramesAscend
<1>3. window' = window  BY Effects
<1>4. \A d \in Drains :
        /\ d.rounds \in 0..MaxDrainRounds /\ d.resumed \in BOOLEAN
        /\ [d EXCEPT !.work = TRUE] \in Drains
        /\ [d EXCEPT !.work = TRUE, !.ranNew = TRUE] \in Drains
        /\ [d EXCEPT !.work = TRUE].ret = d.ret
        /\ [d EXCEPT !.work = TRUE, !.ranNew = TRUE].ret = d.ret
  BY DEF Drains
<1>5. \A fr, th \in BOOLEAN, ret \in {"next", "loopFrames", "tick"} :
        Fresh(fr, th, ret) \in Drains /\ Fresh(fr, th, ret).ret = ret
  BY SchedulerAssumption DEF Fresh, Drains
<1>6. \A s : DrainsFrames(s) \in BOOLEAN /\ DrainsThreads(s) \in BOOLEAN
  BY DEF DrainsFrames, DrainsThreads, Shape, WindowShape
<1>7. CASE UNCHANGED script /\ cur' \in {cur, Nobody}
 <2>1. UNCHANGED <<stage, hpc, drain, batch, loopWork>>  BY <1>7 DEF script
 <2>2. UNCHANGED <<DrainsFrames(Script[stage]), DrainsThreads(Script[stage])>>
   BY <1>3, <2>1 DEF DrainsFrames, DrainsThreads
 <2>3. CASE cur' = Nobody
   BY <1>1, <1>2, <2>1, <2>3 DEF HostShape, ThreadCode, CallbackCode, FrameCode
 <2>4. CASE cur' = cur  BY <1>1, <1>2, <2>1, <2>2, <2>4 DEF HostShape
 <2> QED  BY <1>7, <2>3, <2>4
<1>8. CASE CallStage
 <2>1. /\ cur = Nobody /\ hpc = "call" /\ batch = <<>> /\ UNCHANGED <<batch, loopWork>>
   BY <1>2, <1>8 DEF CallStage, Idle, HostShape
 <2>2. stage # 15 /\ (Script[stage] = "loop" <=> stage = 9)
   BY <1>1, <1>8, ScriptValues DEF CallStage
 <2>3. CASE hpc' \in {"pump", "call"} /\ UNCHANGED <<cur, drain>>
  <3>1. (hpc' = "pump" /\ stage' = 9 /\ stage = 9)
        \/ (hpc' = "call" /\ stage' = stage + 1)
    BY <1>8, <2>2, <2>3 DEF CallStage, GoOn
  <3> QED  BY <1>1, <2>1, <2>2, <2>3, <3>1 DEF HostShape
 <2>4. CASE hpc' = "pending"
  <3>1. /\ stage' = stage /\ cur' = Guest("main", Script[stage])
        /\ drain' = Fresh(DrainsFrames(Script[stage]), DrainsThreads(Script[stage]),
                          "next")
    BY <1>8, <2>4 DEF CallStage, GoOn
  <3>2. drain' \in Drains /\ drain'.ret = "next"  BY <1>5, <1>6, <3>1
  <3>3. UNCHANGED <<DrainsFrames(Script[stage]), DrainsThreads(Script[stage])>>
    BY <1>3, <3>1 DEF DrainsFrames, DrainsThreads
  <3>4. (Fresh(DrainsFrames(Script[stage]), DrainsThreads(Script[stage]), "next"))'
          = drain'
    BY <3>1, <3>3 DEF Fresh
  <3> QED  BY <1>1, <2>1, <2>2, <2>4, <3>1, <3>2, <3>4 DEF HostShape
 <2> QED  BY <1>8, <2>3, <2>4 DEF CallStage, GoOn
<1>9. CASE BeginRound
 <2>1. cur = Nobody /\ cur' = Nobody /\ hpc = "pending"  BY <1>9 DEF BeginRound, Idle
 <2>2. CASE FinishDrain /\ UNCHANGED drain  BY <1>1, <1>2, <2>1, <2>2, FinishKeepsHost
 <2>3. CASE /\ drain.rounds < MaxDrainRounds
            /\ drain' = [drain EXCEPT !.rounds = @ + 1, !.work = FALSE]
            /\ batch' = pending /\ GoOn(stage, "start") /\ UNCHANGED loopWork
  <3>1. drain.rounds + 1 \in 0..MaxDrainRounds
   <4>1. drain.rounds \in 0..MaxDrainRounds  BY <1>1, <1>4
   <4> QED  BY <2>3, <4>1, SchedulerAssumption
  <3>2. drain' \in Drains /\ drain'.ret = drain.ret  BY <1>1, <2>3, <3>1 DEF Drains
  <3> QED  BY <1>1, <1>2, <2>1, <2>3, <3>2 DEF HostShape, GoOn, ThreadCode
 <2> QED  BY <1>9, <2>2, <2>3 DEF BeginRound
<1>10. CASE StartPending
 <2>1. /\ hpc = "start" /\ batch \in Seq(Threads) /\ batch # <<>>
       /\ batch' = Tail(batch) /\ UNCHANGED <<stage, hpc, loopWork>>
       /\ drain' = [drain EXCEPT !.work = TRUE, !.ranNew = TRUE]
       /\ cur' \in {Nobody, Guest("thread", Head(batch))}
   BY <1>2, <1>10 DEF StartPending, Idle, HostShape
 <2>2. Tail(batch) \in Seq(Threads) /\ Head(batch) \in Threads  BY <2>1
 <2>3. cur' \in ThreadCode  BY <2>1, <2>2 DEF ThreadCode
 <2>4. drain' \in Drains /\ drain'.ret = drain.ret  BY <1>1, <1>4, <2>1
 <2> QED  BY <1>1, <2>1, <2>2, <2>3, <2>4 DEF HostShape
<1>11. CASE BeginResume
 <2>1. /\ hpc = "start" /\ hpc' = "resume" /\ cur = Nobody
       /\ UNCHANGED <<stage, loopWork, cur>>
   BY <1>11 DEF BeginResume, Idle
 <2>2. batch' \in Seq(Threads)
  <3> DEFINE S == {i \in DOMAIN managed : gpc[managed[i]] # "finished"}
  <3>1. batch' = <<>> \/ batch' \in Selected(managed, S)  BY <1>11 DEF BeginResume
  <3>2. S \in SUBSET DOMAIN managed  OBVIOUS
  <3> HIDE DEF S
  <3> QED  BY <1>2, <3>1, <3>2, Selection
 <2>3. drain' \in Drains /\ drain'.ret = drain.ret
  <3>1. \E b \in BOOLEAN : drain' = [drain EXCEPT !.resumed = b]  BY <1>11 DEF BeginResume
  <3> QED  BY <1>1, <3>1 DEF Drains
 <2> QED  BY <1>1, <2>1, <2>2, <2>3 DEF HostShape, ThreadCode
<1>12. CASE ResumeThread
 <2>1. /\ hpc = "resume" /\ batch \in Seq(Threads) /\ batch # <<>>
       /\ batch' = Tail(batch) /\ UNCHANGED <<stage, hpc, loopWork>>
       /\ drain' = [drain EXCEPT !.work = TRUE]
       /\ cur' = Guest("thread", Head(batch))
   BY <1>2, <1>12 DEF ResumeThread, Idle, HostShape
 <2>2. Tail(batch) \in Seq(Threads) /\ Head(batch) \in Threads  BY <2>1
 <2>3. cur' \in ThreadCode  BY <2>1, <2>2 DEF ThreadCode
 <2>4. drain' \in Drains /\ drain'.ret = drain.ret  BY <1>1, <1>4, <2>1
 <2> QED  BY <1>1, <2>1, <2>2, <2>3, <2>4 DEF HostShape
<1>13. CASE TakeCallbacks  BY <1>1, <1>2, <1>13 DEF TakeCallbacks, Idle, HostShape, CallbackCode
<1>14. CASE RunCallback
 <2>1. /\ hpc = "callbacks" /\ batch \in Seq(Fds) /\ batch # <<>>
       /\ batch' = Tail(batch) /\ UNCHANGED <<stage, hpc, loopWork>>
       /\ drain' = [drain EXCEPT !.work = TRUE]
       /\ cur' = Guest("callback", Head(batch))
   BY <1>2, <1>14 DEF RunCallback, Idle, HostShape
 <2>2. Tail(batch) \in Seq(Fds) /\ Head(batch) \in Fds  BY <2>1
 <2>3. cur' \in CallbackCode  BY <2>1, <2>2 DEF CallbackCode
 <2>4. drain' \in Drains /\ drain'.ret = drain.ret  BY <1>1, <1>4, <2>1
 <2> QED  BY <1>1, <2>1, <2>2, <2>3, <2>4 DEF HostShape
<1>15. CASE TakeFrames
 <2>1. /\ cur = Nobody /\ UNCHANGED <<cur, stage, drain, loopWork>>
       /\ \/ hpc = "callbacks" /\ hpc' = "frames"
          \/ hpc = "loopFrames" /\ hpc' = "runFrames"
       /\ batch' \in {frameQueue, <<>>}
   BY <1>15 DEF TakeFrames, Idle
 <2> QED  BY <1>1, <1>2, <2>1 DEF HostShape, FrameCode
<1>16. CASE RunFrame
 <2>1. /\ hpc \in {"frames", "runFrames"} /\ batch \in Seq(Nat) /\ batch # <<>>
       /\ batch' = Tail(batch) /\ UNCHANGED <<stage, hpc>>
       /\ drain' = [drain EXCEPT !.work = TRUE]
       /\ cur' = Guest("frame", "frame")
   BY <1>2, <1>16 DEF RunFrame, Idle, HostShape
 <2>2. Tail(batch) \in Seq(Nat) /\ cur' \in FrameCode  BY <2>1 DEF FrameCode
 <2>3. loopWork' \in BOOLEAN  BY <1>1, <1>16 DEF RunFrame
 <2>4. drain' \in Drains /\ drain'.ret = drain.ret  BY <1>1, <1>4, <2>1
 <2> QED  BY <1>1, <2>1, <2>2, <2>3, <2>4 DEF HostShape
<1>17. CASE EndRound
 <2>1. cur' = Nobody /\ cur = Nobody /\ hpc = "frames" /\ batch = <<>>
   BY <1>17 DEF EndRound, Idle
 <2>2. drain' \in Drains /\ drain'.ret = drain.ret
  <3>1. drain.work \in BOOLEAN /\ drain.any \in BOOLEAN  BY <1>1 DEF Drains
  <3>2. \E b \in BOOLEAN : drain' = [drain EXCEPT !.any = b]  BY <1>17, <3>1 DEF EndRound
  <3> QED  BY <1>1, <3>2 DEF Drains
 <2>3. CASE hpc' = "pending" /\ UNCHANGED <<stage, batch, loopWork>>
   BY <1>1, <2>1, <2>2, <2>3 DEF HostShape
 <2>4. CASE FinishDrain  BY <1>2, <2>1, <2>2, <2>4, FinishKeepsHost
 <2> QED  BY <1>17, <2>3, <2>4 DEF EndRound
<1>18. CASE Pump
 <2>1. hpc = "pump" /\ cur = Nobody /\ batch = <<>> /\ stage = 9
       /\ UNCHANGED <<batch, cur>>
   BY <1>1, <1>2, <1>18 DEF Pump, Idle, HostShape
 <2>2. PICK w \in BOOLEAN :
         /\ loopWork' = w
         /\ IF windowOpen'
            THEN GoOn(stage, "pending") /\ drain' = Fresh(FALSE, w, "loopFrames")
            ELSE GoOn(stage + 1, "call") /\ UNCHANGED drain
   BY <1>18 DEF Pump
 <2>3. drain' \in Drains  BY <1>1, <1>5, <2>2
 <2>4. (hpc' = "pending" /\ stage' = 9) \/ (hpc' = "call" /\ stage' = 10)
  <3>1. (hpc' = "pending" /\ stage' = stage) \/ (hpc' = "call" /\ stage' = stage + 1)
    BY <2>2, Zenon DEF GoOn
  <3> QED  BY <2>1, <3>1
 <2>5. loopWork' \in BOOLEAN /\ cur' = Nobody /\ batch' = <<>>  BY <2>1, <2>2
 <2> QED  BY <2>3, <2>4, <2>5 DEF HostShape
<1>19. CASE AfterFrames
 <2>1. /\ hpc = "runFrames" /\ cur = Nobody /\ batch = <<>> /\ stage = 9
       /\ UNCHANGED <<batch, cur, stage, loopWork>> /\ hpc' \in {"pending", "tick"}
       /\ drain' \in {drain, Fresh(FALSE, FALSE, "tick")}
   BY <1>1, <1>2, <1>19 DEF AfterFrames, Idle, HostShape
 <2>2. drain' \in Drains  BY <1>1, <1>5, <2>1
 <2> QED  BY <1>1, <2>1, <2>2 DEF HostShape
<1>20. CASE Tick
 <2>1. /\ hpc = "tick" /\ cur = Nobody /\ batch = <<>> /\ stage = 9
       /\ UNCHANGED <<batch, cur, drain, loopWork>>
       /\ (hpc' = "call" /\ stage' = 10) \/ (hpc' = "pump" /\ stage' = 9)
   BY <1>1, <1>2, <1>20 DEF Tick, GoOn, Idle, HostShape
 <2> QED  BY <1>1, <2>1 DEF HostShape
<1>21. ~Host => UNCHANGED script /\ cur' \in {cur, Nobody}
  BY Effects DEF Next, vars, GuestCode, MainCreate, MainCommand, AppBegins, AppPolls, AppYields,
     AppReads, CallbackReads, AppConsumes, CallbackConsumes, FrameReturns, JoinsWorker,
     ThreadReturns, HostInput, CloseWindow, DeadlinePasses, Finished, Return
<1> QED  BY <1>7, <1>8, <1>9, <1>10, <1>11, <1>12, <1>13, <1>14, <1>15, <1>16, <1>17,
     <1>18, <1>19, <1>20, <1>21 DEF Host

\* A step keeps all types.
LEMMA ShapeStep ==
  ASSUME Shape, Offers, FramesAscend, AppLife, [Next]_vars
  PROVE  Shape'
BY WindowShapeStep, ThreadShapeStep, LooperShapeStep, HostShapeStep DEF Shape

----
(* The life of the app thread.                                             *)

\* What is on the vCPU tells where the host is.
LEMMA WhoRuns ==
  ASSUME HostShape
  PROVE  /\ cur.kind = "main" => /\ hpc = "pending" /\ batch = <<>>
                                 /\ cur = Guest("main", Script[stage])
                                 /\ drain = Fresh(DrainsFrames(Script[stage]),
                                                  DrainsThreads(Script[stage]), "next")
         /\ cur.kind = "thread" => /\ hpc \in {"start", "resume"}
                                   /\ \E t \in Threads : cur = Guest("thread", t)
         /\ cur.kind = "callback" => /\ hpc = "callbacks"
                                     /\ \E fd \in Fds : cur = Guest("callback", fd)
         /\ cur.kind = "frame" => hpc \in {"frames", "runFrames"}
         /\ AppThread.kind = "thread" /\ AppThread.what = "app"
         /\ Nobody.kind = "none"
         /\ \A x : Guest("main", x).kind = "main" /\ Guest("main", x).what = x
                   /\ Guest("thread", x).kind = "thread" /\ Guest("thread", x).what = x
                   /\ Guest("callback", x).kind = "callback"
                   /\ Guest("callback", x).what = x
                   /\ Guest("frame", x).kind = "frame"
BY DEF HostShape, Guest, Nobody, ThreadCode, CallbackCode, FrameCode, AppThread

\* A step keeps the app thread in its life: pending, started, then parked.
LEMMA AppLifeStep ==
  ASSUME Shape, Offers, FramesAscend, AppLife, [Next]_vars
  PROVE  AppLife'
<1>1. /\ HostShape /\ stage \in 1..15 /\ (hpc # "call" => stage # 15)
      /\ gpc \in [Threads -> {"unborn", "null", "begin", "poll", "finished"} \cup Fds]
      /\ "app" \in Threads /\ "worker" \in Threads /\ Fds = {"pipe", "input"}
      /\ Threads = {"app", "worker"}
  BY DEF Shape, HostShape, ThreadShape, Threads, Fds, PipeFd, InputFd
<1>2. (\E i \in DOMAIN regs : regs[i].fd = PipeFd)
        => \E i \in DOMAIN regs' : regs'[i].fd = PipeFd
  BY RegsStep DEF Shape
<1>3. /\ Append(<<>>, "app") = <<"app">> /\ Append(<<>>, "worker") = <<"worker">>
      /\ Head(<<"app">>) = "app" /\ Tail(<<"app">>) = <<>> /\ <<"app">> # <<>>
      /\ <<"worker">> # <<>>
  OBVIOUS
<1>4. \A s \in 1..15 : Script[s] = "create" <=> s = 1  BY ScriptValues
<1>5. /\ Nobody # AppThread /\ \A x : Guest("main", x) # AppThread
      /\ \A x : Guest("main", x) # Nobody
      /\ \A x, y : Guest("main", x) = Guest("main", y) => x = y
  BY DEF Nobody, AppThread, Guest
<1>6. CASE CallStage
 <2>1. /\ cur = Nobody /\ hpc = "call"
       /\ UNCHANGED <<gpc, pending, managed, regs, batch>>
   BY <1>6 DEF CallStage, Idle, threads, looper
 <2>2. CASE hpc' = "pump" /\ UNCHANGED <<stage, cur, drain>> /\ Script[stage] = "loop"
   BY <1>1, <1>4, <1>5, <2>1, <2>2 DEF AppLife
 <2>3. CASE hpc' = "call" /\ stage' = stage + 1 /\ UNCHANGED <<cur, drain>>
  <3>1. "create" \in defined  BY SchedulerAssumption DEF Shape, WindowShape
  <3>2. Script[stage] # "create"  BY <1>6, <2>3, <3>1 DEF CallStage, GoOn
  <3> QED  BY <1>1, <1>4, <1>5, <2>1, <2>3, <3>2 DEF AppLife
 <2>4. CASE hpc' = "pending" /\ stage' = stage /\ cur' = Guest("main", Script[stage])
   BY <1>1, <1>4, <1>5, <2>1, <2>4 DEF AppLife
 <2> QED  BY <1>6, <2>2, <2>3, <2>4 DEF CallStage, GoOn
<1>7. /\ drain \in Drains /\ drain.rounds \in Nat
      /\ MaxDrainRounds \in Nat /\ MaxDrainRounds >= 2
  BY SchedulerAssumption DEF Shape, HostShape, Drains
<1>8. CASE BeginRound
 <2>1. /\ cur = Nobody /\ hpc = "pending" /\ batch = <<>>
       /\ UNCHANGED <<cur, gpc, managed, regs>>
   BY <1>1, <1>8 DEF BeginRound, Idle, looper, HostShape
 <2>2. CASE drain.rounds >= MaxDrainRounds /\ FinishDrain /\ UNCHANGED <<drain, pending>>
  <3>1. pending = <<>> /\ gpc["app"] \notin {"unborn", "begin"}
    BY <1>1, <1>5, <1>7, <2>1, <2>2 DEF AppLife
  <3>2. ~(stage' = 1 /\ hpc' = "call")  BY <1>1, <1>7, <2>2 DEF FinishDrain, GoOn, Drains
  <3> QED  BY <1>1, <1>5, <2>1, <2>2, <3>1, <3>2 DEF AppLife
 <2>3. CASE /\ drain.rounds < MaxDrainRounds
            /\ drain' = [drain EXCEPT !.rounds = @ + 1, !.work = FALSE]
            /\ batch' = pending /\ pending' = <<>>
            /\ GoOn(stage, "start")
  <3>1. drain'.rounds = drain.rounds + 1  BY <1>7, <2>3 DEF Drains
  <3> QED  BY <1>1, <1>5, <1>7, <2>1, <2>3, <3>1 DEF AppLife, GoOn
 <2> QED  BY <1>8, <2>2, <2>3 DEF BeginRound
<1>9. CASE StartPending
 <2>1. /\ cur = Nobody /\ hpc = "start" /\ batch # <<>> /\ batch' = Tail(batch)
       /\ batch \in Seq(Threads) /\ UNCHANGED <<stage, hpc, pending, managed, regs>>
       /\ drain' = [drain EXCEPT !.work = TRUE, !.ranNew = TRUE]
   BY <1>1, <1>9 DEF StartPending, Idle, looper, HostShape
 <2>2. drain'.rounds = drain.rounds /\ drain'.work  BY <1>7, <2>1 DEF Drains
 <2>3. CASE /\ gpc[Head(batch)] = "null" /\ UNCHANGED cur
            /\ gpc' = [gpc EXCEPT ![Head(batch)] = "finished"]
  <3>1. Head(batch) = "worker" /\ gpc'["app"] = gpc["app"]  BY <1>1, <2>1, <2>3 DEF AppLife
  <3>2. gpc["app"] # "begin" /\ gpc["app"] # "unborn"  BY <1>3, <1>5, <2>1, <3>1 DEF AppLife
  <3> QED  BY <1>1, <1>5, <2>1, <2>2, <2>3, <3>1, <3>2 DEF AppLife
 <2>4. CASE cur' = Guest("thread", Head(batch)) /\ UNCHANGED gpc
  <3>1. gpc["app"] = "begin" => cur' = AppThread /\ batch' = <<>>
    BY <1>3, <1>5, <2>1, <2>4 DEF AppLife, AppThread
  <3>2. \A x : cur' # Guest("main", x)  BY <2>4 DEF Guest
  <3> QED  BY <1>1, <1>5, <2>1, <2>2, <2>4, <3>1, <3>2 DEF AppLife
 <2> QED  BY <1>9, <2>3, <2>4 DEF StartPending
<1>10. CASE BeginResume
 <2>1. /\ cur = Nobody /\ hpc = "start" /\ batch = <<>> /\ hpc' = "resume"
       /\ UNCHANGED <<stage, cur, gpc, pending, managed, regs>>
       /\ drain'.rounds = drain.rounds /\ drain'.work = drain.work
   BY <1>7, <1>10 DEF BeginResume, Idle, looper, threads, Drains
 <2> QED  BY <1>1, <1>3, <1>5, <2>1 DEF AppLife
<1>11. CASE ResumeThread
 <2>1. /\ cur = Nobody /\ hpc = "resume" /\ hpc' = "resume"
       /\ UNCHANGED <<stage, gpc, pending, managed, regs>>
       /\ drain'.rounds = drain.rounds /\ drain'.work
       /\ \A x : cur' # Guest("main", x)
   BY <1>7, <1>11 DEF ResumeThread, Idle, looper, threads, Drains, Guest
 <2> QED  BY <1>1, <1>3, <1>5, <2>1 DEF AppLife
<1>12. CASE TakeCallbacks
 <2>1. /\ cur = Nobody /\ hpc = "resume" /\ hpc' = "callbacks"
       /\ UNCHANGED <<stage, cur, gpc, pending, managed, regs, drain>>
   BY <1>12 DEF TakeCallbacks, Idle, threads
 <2> QED  BY <1>1, <1>3, <1>5, <2>1 DEF AppLife
<1>13. CASE RunCallback \/ RunFrame
 <2>1. /\ cur = Nobody /\ hpc \in {"callbacks", "frames", "runFrames"} /\ hpc' = hpc
       /\ UNCHANGED <<stage, gpc, pending, managed, regs>>
       /\ drain'.rounds = drain.rounds /\ drain'.work
       /\ cur' # AppThread /\ \A x : cur' # Guest("main", x)
   BY <1>7, <1>13 DEF RunCallback, RunFrame, Idle, looper, threads, Drains, Guest, AppThread
 <2> QED  BY <1>1, <1>3, <1>5, <2>1 DEF AppLife
<1>14. CASE TakeFrames
 <2>1. /\ cur = Nobody /\ hpc \in {"callbacks", "loopFrames"}
       /\ hpc = "callbacks" => hpc' = "frames"
       /\ hpc' # "call" /\ UNCHANGED <<stage, cur, gpc, pending, managed, regs, drain>>
   BY <1>14 DEF TakeFrames, Idle, threads, looper
 <2> QED  BY <1>1, <1>3, <1>5, <2>1 DEF AppLife
<1>15. CASE EndRound
 <2>1. /\ cur = Nobody /\ hpc = "frames" /\ stage \in 1..14
       /\ UNCHANGED <<cur, gpc, pending, managed, regs>>
       /\ drain'.rounds = drain.rounds
   BY <1>1, <1>7, <1>15 DEF EndRound, Idle, threads, looper, Drains
 <2>2. CASE hpc' = "pending" /\ UNCHANGED stage  BY <1>1, <1>3, <1>5, <2>1, <2>2 DEF AppLife
 <2>3. CASE ~drain.work /\ FinishDrain
  <3>1. pending = <<>> /\ gpc["app"] \notin {"unborn", "begin"}
    BY <1>1, <1>5, <2>1, <2>3 DEF AppLife
  <3>2. ~(stage' = 1 /\ hpc' = "call")  BY <1>1, <1>7, <2>3 DEF FinishDrain, GoOn, Drains
  <3> QED  BY <1>1, <1>5, <2>1, <2>3, <3>1, <3>2 DEF AppLife
 <2> QED  BY <1>15, <2>2, <2>3 DEF EndRound
<1>16. CASE Pump \/ AfterFrames \/ Tick
 <2>1. stage = 9 /\ cur = Nobody /\ hpc # "pending"
   BY <1>1, <1>16 DEF Pump, AfterFrames, Tick, HostShape, Idle
 <2>2. gpc["app"] \notin {"unborn", "begin"} /\ pending = <<>>  BY <2>1 DEF AppLife
 <2>3. stage' \in {9, 10} /\ UNCHANGED <<cur, gpc, pending, managed>>
  <3>1. stage' = stage \/ stage' = stage + 1  BY <1>16, Zenon DEF Pump, AfterFrames, Tick, GoOn
  <3>2. UNCHANGED <<cur, gpc, pending, managed>>  BY <1>16 DEF Pump, AfterFrames, Tick, threads
  <3> QED  BY <2>1, <3>1, <3>2
 <2> QED  BY <1>1, <1>2, <1>5, <2>1, <2>2, <2>3 DEF AppLife
<1>17. CASE MainCreate
 <2>1. /\ cur = Guest("main", "create") /\ hpc = "pending" /\ stage = 1
       /\ drain.rounds = 0 /\ cur' = Nobody
       /\ UNCHANGED <<stage, hpc, drain, batch, regs, managed>>
   BY <1>1, <1>4, <1>17, WhoRuns DEF MainCreate, Running, Return, CreateThread, script,
      looper, Fresh
 <2>2. gpc["app"] = "unborn" /\ pending = <<>> /\ regs = <<>>  BY <2>1 DEF AppLife
 <2>3. gpc'["app"] = "begin" /\ pending' = <<"app">>
   BY <1>1, <1>3, <1>17, <2>2 DEF MainCreate, CreateThread
 <2> QED  BY <1>1, <1>3, <1>5, <2>1, <2>2, <2>3 DEF AppLife
<1>18. CASE MainCommand
 <2>1. /\ cur.kind = "main" /\ cur # Guest("main", "create") /\ hpc = "pending"
       /\ drain.rounds = 0 /\ cur' = Nobody /\ stage # 1
       /\ UNCHANGED <<stage, hpc, drain, batch, managed, gpc, pending>>
   BY <1>1, <1>4, <1>18, WhoRuns DEF MainCommand, Running, Return, script, threads, Fresh
 <2>2. cur # AppThread /\ cur # Nobody  BY <2>1 DEF AppThread, Guest, Nobody
 <2>3. gpc["app"] \notin {"unborn", "begin"} /\ pending = <<>>  BY <2>1 DEF AppLife
 <2> QED  BY <1>1, <1>2, <1>5, <2>1, <2>2, <2>3 DEF AppLife
<1>19. CASE AppBegins
 <2>1. /\ cur = AppThread /\ gpc["app"] = "begin"
       /\ UNCHANGED <<stage, hpc, drain, batch, managed, cur>>
   BY <1>19 DEF AppBegins, script, AppThread
 <2>2. /\ stage = 1 /\ hpc = "start" /\ pending = <<>> /\ drain.rounds = 1
       /\ batch = <<>> /\ drain.work
   BY <1>1, <1>5, <2>1, WhoRuns DEF AppLife
 <2>3. gpc'["app"] = "poll" /\ (pending' = <<>> \/ pending' = <<"worker">>)
   BY <1>1, <1>3, <1>19, <2>2 DEF AppBegins
 <2>4. PICK callback \in BOOLEAN : regs' = Attach(regs, PipeFd, callback)  BY <1>19 DEF AppBegins
 <2>5. \E i \in DOMAIN regs' : regs'[i].fd = PipeFd
  <3>1. PipeFd \in Fds /\ regs \in Seq(Registrations)
        /\ \A i, j \in DOMAIN regs : regs[i].fd = regs[j].fd => i = j
    BY DEF Fds, Shape, LooperShape
  <3> QED  BY <2>4, <3>1, AttachProperties
 <2> QED  BY <1>1, <1>3, <1>5, <2>1, <2>2, <2>3, <2>5 DEF AppLife
<1>20. CASE AppPolls \/ AppReads \/ AppConsumes
 <2>1. /\ cur = AppThread /\ gpc["app"] \in {"poll"} \cup Fds
       /\ UNCHANGED <<stage, hpc, drain, batch, managed, cur, pending>>
   BY <1>1, <1>20 DEF AppPolls, AppReads, AppConsumes, script, AppThread, PipeFd, InputFd
 <2>2. gpc'["app"] \in {"poll"} \cup Fds
  <3>1. \A i \in DOMAIN regs : regs[i] \in Registrations  BY DEF Shape, LooperShape
  <3>2. \A i \in DOMAIN regs : regs[i].fd \in Fds  BY <3>1 DEF Registrations
  <3>3. gpc' = gpc \/ \E x \in {"poll"} \cup Fds : gpc' = [gpc EXCEPT !["app"] = x]
    BY <1>20, <3>2 DEF AppPolls, AppReads, AppConsumes
  <3> QED  BY <1>1, <2>1, <3>3
 <2> QED  BY <1>1, <1>2, <1>5, <2>1, <2>2 DEF AppLife
<1>21. CASE AppYields
 <2>1. /\ cur = AppThread /\ gpc["app"] = "poll" /\ cur' = Nobody
       /\ UNCHANGED <<stage, hpc, drain, batch, gpc, pending, regs>>
       /\ managed' = AddManaged("app")
   BY <1>21 DEF AppYields, script, AppThread, looper, Return
 <2>2. hpc \in {"start", "resume"}  BY <1>1, <2>1, WhoRuns
 <2>3. \E i \in DOMAIN managed' : managed'[i] = "app"
  <3>1. CASE \E i \in DOMAIN managed : managed[i] = "app"  BY <2>1, <3>1 DEF AddManaged
  <3>2. CASE ~\E i \in DOMAIN managed : managed[i] = "app"
   <4>1. managed \in Seq(Threads) /\ managed' = Append(managed, "app")
     BY <2>1, <3>2 DEF AddManaged, Shape, ThreadShape
   <4>2. Len(managed) \in Nat /\ DOMAIN managed' = 1..(Len(managed) + 1)
         /\ managed'[Len(managed) + 1] = "app"
     BY <1>1, <4>1, Appended
   <4> QED  BY <4>2
  <3> QED  BY <3>1, <3>2
 <2> QED  BY <1>1, <1>5, <2>1, <2>2, <2>3 DEF AppLife
<1>22. CASE CallbackReads \/ CallbackConsumes \/ FrameReturns
 <2>1. /\ cur # AppThread /\ cur # Nobody /\ cur' = Nobody
       /\ cur # Guest("main", "create")
       /\ hpc \in {"callbacks", "frames", "runFrames"}
   BY <1>1, <1>22, WhoRuns DEF CallbackReads, CallbackConsumes, FrameReturns, Running, Return
 <2>2. UNCHANGED <<stage, hpc, drain, batch, managed, gpc, pending>>
   BY <1>22 DEF CallbackReads, CallbackConsumes, FrameReturns, script, threads
 <2>3. gpc["app"] \notin {"unborn", "begin"}  BY <2>1 DEF AppLife
 <2> QED  BY <1>1, <1>2, <1>5, <2>1, <2>2, <2>3 DEF AppLife
<1>23. CASE JoinsWorker \/ HostInput \/ CloseWindow \/ DeadlinePasses \/ Finished
            \/ UNCHANGED vars
 <2>1. UNCHANGED <<stage, hpc, drain, batch, managed, gpc, pending, cur, regs>>
   BY <1>23 DEF JoinsWorker, HostInput, CloseWindow, DeadlinePasses, Finished, script,
      threads, looper, vars
 <2> QED  BY <2>1 DEF AppLife
<1>24. CASE ThreadReturns
 <2>1. /\ cur.kind = "thread" /\ cur' = Nobody
       /\ UNCHANGED <<stage, hpc, drain, batch, managed, pending, regs>>
       /\ cur = AppThread \/ cur = Guest("thread", "worker")
       /\ hpc \in {"start", "resume"}
   BY <1>1, <1>24, WhoRuns DEF ThreadReturns, Running, Return, script, looper, AppThread
 <2>2. CASE cur = AppThread
  <3>1. gpc["app"] = "poll" /\ gpc'["app"] = "finished"
    BY <1>1, <1>24, <2>2, WhoRuns DEF ThreadReturns
  <3> QED  BY <1>1, <1>5, <2>1, <2>2, <3>1 DEF AppLife
 <2>3. CASE cur = Guest("thread", "worker")
  <3>1. cur # AppThread /\ cur # Nobody /\ gpc'["app"] = gpc["app"]
    BY <1>1, <1>24, <2>3, WhoRuns DEF ThreadReturns, AppThread, Guest, Nobody
  <3>2. gpc["app"] # "begin" /\ gpc["app"] # "unborn"
    BY <1>1, <2>1, <2>3, <3>1, WhoRuns DEF AppLife
  <3> QED  BY <1>1, <1>5, <2>1, <3>1, <3>2 DEF AppLife
 <2> QED  BY <2>1, <2>2, <2>3
<1> QED  BY <1>6, <1>8, <1>9, <1>10, <1>11, <1>12, <1>13, <1>14, <1>15, <1>16, <1>17, <1>18,
     <1>19, <1>20, <1>21, <1>22, <1>23, <1>24 DEF Next, Host, GuestCode

----
(* Wakeups.                                                                *)

\* A list of registrations of which what is ready is armed or queued, apart from
\* the descriptor that the app thread has in hand.
LEMMA ArmedStep ==
  ASSUME Shape, Offers, FramesAscend, AppLife, Armed, [Next]_vars
  PROVE  Armed'
<1>1. /\ HostShape /\ RegsOK(regs) /\ PipeFd # InputFd /\ Fds = {PipeFd, InputFd}
      /\ PipeFd \in Fds /\ InputFd \in Fds
      /\ \A i \in DOMAIN regs : regs[i] \in Registrations /\ regs[i].fd \in Fds
 <2>1. \A x \in Registrations : x.fd \in Fds  BY DEF Registrations
 <2>2. \A i \in DOMAIN regs : regs[i] \in Registrations  BY DEF Shape, LooperShape
 <2> QED  BY <2>1, <2>2 DEF Shape, LooperShape, RegsOK, Fds, PipeFd, InputFd
<1>2. /\ gpc \in [Threads -> {"unborn", "null", "begin", "poll", "finished"} \cup Fds]
      /\ "app" \in Threads /\ callbacks \in Seq(Fds)
      /\ "poll" \notin Fds /\ "finished" \notin Fds
  BY DEF Shape, ThreadShape, LooperShape, Threads, Fds, PipeFd, InputFd
<1>3. /\ \A x, y : Guest("callback", x) # Guest("thread", y)
      /\ \A x, y : Guest("callback", x) # Guest("main", y)
      /\ \A x, y : Guest("callback", x) = Guest("callback", y) => x = y
      /\ \A x : Guest("callback", x) # Guest("frame", "frame")
      /\ \A x : Guest("callback", x) # Nobody
  BY DEF Guest, Nobody
\* Steps that leave the looper alone keep a queued callback queued.
<1>4. ASSUME UNCHANGED <<regs, pipe, attached, next, events>>,
             gpc["app"] \in Fds => gpc'["app"] = gpc["app"],
             \A fd \in Fds : Queued(fd) => Queued(fd)'
      PROVE  Armed'
 <2>1. \A fd : Ready(fd)' = Ready(fd)  BY <1>4 DEF Ready
 <2> QED  BY <1>1, <1>4, <2>1 DEF Armed
<1>5. ASSUME cur = Nobody, hpc # "callbacks" \/ batch = <<>>, UNCHANGED callbacks
      PROVE  \A fd \in Fds : Queued(fd) => Queued(fd)'
  BY <1>3, <1>5 DEF Queued
<1>6. CASE CallStage \/ BeginRound \/ StartPending \/ BeginResume \/ ResumeThread
           \/ TakeFrames \/ RunFrame \/ EndRound \/ AfterFrames \/ Tick
 <2>1. /\ cur = Nobody /\ (hpc # "callbacks" \/ batch = <<>>)
       /\ UNCHANGED <<callbacks, regs, pipe, attached, next, events>>
   BY <1>6 DEF CallStage, BeginRound, StartPending, BeginResume, ResumeThread,
      TakeFrames, RunFrame, EndRound, AfterFrames, Tick, Idle, looper, input
 <2>2. gpc["app"] \in Fds => gpc'["app"] = gpc["app"]
  <3>1. cur # AppThread  BY <2>1 DEF Nobody, AppThread, Guest
  <3>2. gpc["app"] \notin Fds  BY <3>1 DEF AppLife
  <3> QED  BY <3>2
 <2>3. \A fd \in Fds : Queued(fd) => Queued(fd)'  BY <1>5, <2>1
 <2> QED  BY <1>4, <2>1, <2>2, <2>3
<1>7. CASE TakeCallbacks
 <2>1. /\ cur = Nobody /\ hpc = "resume" /\ hpc' = "callbacks" /\ batch' = callbacks
       /\ UNCHANGED <<cur, regs, gpc, pipe, attached, next, events>>
   BY <1>7 DEF TakeCallbacks, Idle, input, threads
 <2>2. \A fd \in Fds : Queued(fd) => Queued(fd)'  BY <1>3, <2>1 DEF Queued
 <2> QED  BY <1>4, <2>1, <2>2
<1>8. CASE RunCallback
 <2>1. /\ cur = Nobody /\ hpc = "callbacks" /\ hpc' = hpc /\ batch # <<>>
       /\ batch' = Tail(batch) /\ cur' = Guest("callback", Head(batch))
       /\ UNCHANGED <<callbacks, regs, gpc, pipe, attached, next, events>>
   BY <1>8 DEF RunCallback, Idle, input, threads, looper
 <2>2. batch \in Seq(Fds)  BY <1>1, <2>1 DEF HostShape
 <2>3. \A i \in DOMAIN batch : batch[i] = Head(batch) \/
         \E k \in DOMAIN Tail(batch) : batch[i] = Tail(batch)[k]
   BY <2>1, <2>2, HeadAndTail
 <2>4. \A fd \in Fds : Queued(fd) => Queued(fd)'  BY <1>3, <2>1, <2>3 DEF Queued
 <2> QED  BY <1>4, <2>1, <2>4
<1>9. CASE JoinsWorker \/ HostInput \/ CloseWindow \/ DeadlinePasses \/ Finished
           \/ UNCHANGED vars
 <2>1. UNCHANGED <<hpc, batch, cur, callbacks, regs, gpc, pipe, attached, next, events>>
   BY <1>9 DEF JoinsWorker, HostInput, CloseWindow, DeadlinePasses, Finished, script,
      threads, looper, input, vars
 <2>2. \A fd \in Fds : Queued(fd) => Queued(fd)'  BY <2>1 DEF Queued
 <2> QED  BY <1>4, <2>1, <2>2
\* Code that is no looper callback gives up the vCPU.
<1>10. ASSUME cur.kind # "callback", UNCHANGED <<hpc, batch, callbacks>>
       PROVE  \A fd \in Fds : Queued(fd) => Queued(fd)'
 <2>1. \A fd : cur # Guest("callback", fd)  BY <1>10 DEF Guest
 <2> QED  BY <1>10, <2>1 DEF Queued
<1>11. CASE FrameReturns \/ MainCreate \/ ThreadReturns
 <2>1. /\ cur.kind # "callback"
       /\ UNCHANGED <<hpc, batch, callbacks, regs, pipe, attached, next, events>>
   BY <1>11 DEF FrameReturns, MainCreate, ThreadReturns, Running, script, looper, input
 <2>2. gpc["app"] \in Fds => gpc'["app"] = gpc["app"]
  <3>1. CASE FrameReturns  BY <3>1 DEF FrameReturns, threads
  <3>2. CASE MainCreate
   <4>1. gpc["app"] \notin Fds  BY <3>2 DEF AppLife, MainCreate, Running, AppThread, Guest
   <4> QED  BY <4>1
  <3>3. CASE ThreadReturns  BY <1>2, <3>3, WhoRuns DEF ThreadReturns, AppLife
  <3> QED  BY <1>11, <3>1, <3>2, <3>3
 <2> QED  BY <1>4, <1>10, <2>1, <2>2
<1>12. CASE MainCommand
 <2>1. /\ cur.kind # "callback" /\ cur.kind = "main" /\ regs' = Rearm(regs, PipeFd)
       /\ UNCHANGED <<hpc, batch, callbacks, gpc, attached, next, events>>
   BY <1>12 DEF MainCommand, WriteCommand, Running, script, threads, input
 <2>2. \A fd \in Fds : Queued(fd) => Queued(fd)'  BY <1>10, <2>1
 <2>3. /\ DOMAIN regs' = DOMAIN regs
       /\ \A i \in DOMAIN regs :
            /\ regs'[i].fd = regs[i].fd
            /\ regs[i].fd = PipeFd => ~regs'[i].delivered
            /\ regs[i].fd # PipeFd => regs'[i] = regs[i]
  <3>1. regs \in Seq(Registrations)  BY <1>1 DEF RegsOK
  <3> QED  BY <1>1, <2>1, <3>1, RearmProperties DEF SameRegs
 <2>4. Ready(InputFd)' = Ready(InputFd)  BY <1>1, <2>1 DEF Ready
 <2> QED  BY <1>1, <2>1, <2>2, <2>3, <2>4 DEF Armed
<1>13. CASE AppBegins
 <2>1. PICK callback \in BOOLEAN : regs' = Attach(regs, PipeFd, callback)  BY <1>13 DEF AppBegins
 <2>2. regs = <<>> /\ DOMAIN regs = {}  BY <1>13 DEF AppBegins, AppLife
 <2>3. \A i \in DOMAIN regs' : ~regs'[i].delivered
  <3>1. PICK r : r = Attach(regs, PipeFd, callback)  OBVIOUS
  <3>2. /\ \A i \in DOMAIN r : r[i].fd = PipeFd => ~r[i].delivered
        /\ \A i \in DOMAIN r : r[i].fd # PipeFd => i \in DOMAIN regs
    BY <1>1, <3>1, AttachProperties DEF RegsOK
  <3> QED  BY <2>1, <2>2, <3>1, <3>2
 <2> QED  BY <2>3 DEF Armed
<1>14. Ready(PipeFd) = (pipe # <<>>)  BY <1>1 DEF Ready
\* After the app thread or a callback has read or consumed, the descriptor is
\* armed or has nothing left, and the other one is as it was.
<1>15. ASSUME ReadCommand(TRUE) \/ ReadCommand(FALSE),
              UNCHANGED <<callbacks, next, events>>,
              gpc["app"] \in Fds \ {PipeFd} => gpc'["app"] = gpc["app"],
              Queued(InputFd) => Queued(InputFd)'
       PROVE  Armed'
 <2>1. PICK callback \in BOOLEAN : ReadCommand(callback)  BY <1>15
 <2>2. /\ RegsOK(regs')
       /\ \A j \in DOMAIN regs' :
            /\ regs'[j].fd = PipeFd /\ pipe' # <<>> => ~regs'[j].delivered
            /\ regs'[j].fd = InputFd /\ attached' =>
                 \/ ~regs'[j].delivered
                 \/ attached /\ \E i \in DOMAIN regs : regs'[j] = regs[i]
   BY <1>1, <2>1, ReadProperties
 <2> SUFFICES ASSUME NEW j \in DOMAIN regs', Ready(regs[j].fd)', regs'[j].delivered,
                     gpc'["app"] # regs'[j].fd
              PROVE  regs'[j].callback /\ Queued(regs[j].fd)'
   BY DEF Armed
 <2>3. regs'[j].fd # PipeFd
  <3>1. SUFFICES ASSUME regs'[j].fd = PipeFd PROVE FALSE  OBVIOUS
  <3>2. pipe' # <<>>  BY <1>1, <3>1 DEF Ready
  <3> QED  BY <2>2, <3>1, <3>2
 <2>4. regs'[j].fd = InputFd
  <3>1. regs' \in Seq(Registrations)  BY <2>2 DEF RegsOK
  <3>2. regs'[j] \in Registrations  BY <3>1
  <3> QED  BY <1>1, <2>3, <3>2 DEF Registrations
 <2>5. attached' /\ next < Len(events)  BY <1>1, <1>15, <2>4 DEF Ready
 <2>6. PICK i \in DOMAIN regs : attached /\ regs'[j] = regs[i]  BY <2>2, <2>4, <2>5
 <2>7. Ready(InputFd) /\ regs[i].fd = InputFd /\ regs[i].delivered  BY <2>4, <2>5, <2>6 DEF Ready
 <2>8. gpc["app"] # InputFd  BY <1>1, <1>15, <2>4
 <2>9. regs[i].callback /\ Queued(InputFd)  BY <2>7, <2>8 DEF Armed
 <2>10. Queued(regs[j].fd)' = Queued(InputFd)'  BY <2>4
 <2> QED  BY <1>15, <2>6, <2>9, <2>10
<1>16. CASE AppReads
 <2>1. /\ cur = AppThread /\ gpc["app"] = PipeFd
       /\ UNCHANGED <<hpc, batch, cur, callbacks, next, events>>
       /\ ReadCommand(TRUE) \/ ReadCommand(FALSE)
   BY <1>16 DEF AppReads, AppThread, script
 <2>2. Queued(InputFd) => Queued(InputFd)'  BY <2>1 DEF Queued
 <2> QED  BY <1>15, <2>1, <2>2
<1>17. CASE CallbackReads
 <2>1. /\ cur = Guest("callback", PipeFd)
       /\ UNCHANGED <<hpc, batch, callbacks, next, events, gpc>>
   BY <1>17 DEF CallbackReads, script, threads
 <2>2. Queued(InputFd) => Queued(InputFd)'  BY <1>1, <1>3, <2>1 DEF Queued
 <2>3. CASE ReadCommand(TRUE) \/ ReadCommand(FALSE)  BY <1>15, <2>1, <2>2, <2>3
 <2>4. CASE pipe = <<>> /\ UNCHANGED <<pipe, regs, attached, quit>>
  <3>1. \A fd : Ready(fd)' = Ready(fd)  BY <2>1, <2>4 DEF Ready
  <3>2. ~Ready(PipeFd)  BY <1>14, <2>4
  <3> QED  BY <1>1, <2>1, <2>2, <2>4, <3>1, <3>2 DEF Armed
 <2> QED  BY <1>17, <2>3, <2>4 DEF CallbackReads
<1>18. ASSUME ConsumeEvent, UNCHANGED <<callbacks, pipe>>,
              gpc["app"] \in Fds \ {InputFd} => gpc'["app"] = gpc["app"],
              Queued(PipeFd) => Queued(PipeFd)'
       PROVE  Armed'
 <2>1. /\ SameRegs(regs, regs')
       /\ \A i \in DOMAIN regs : regs[i].fd # InputFd => regs'[i] = regs[i]
       /\ \A i \in DOMAIN regs : regs[i].fd = InputFd /\ attached
             /\ next' < Len(events') => ~regs'[i].delivered
   BY <1>1, <1>18, ConsumeProperties
 <2>2. attached' = attached  BY <1>18 DEF ConsumeEvent
 <2> SUFFICES ASSUME NEW j \in DOMAIN regs', Ready(regs[j].fd)', regs'[j].delivered,
                     gpc'["app"] # regs'[j].fd
              PROVE  regs'[j].callback /\ Queued(regs[j].fd)'
   BY DEF Armed
 <2>3. j \in DOMAIN regs /\ regs'[j].fd = regs[j].fd  BY <2>1 DEF SameRegs
 <2>4. regs[j].fd # InputFd
  <3>1. SUFFICES ASSUME regs[j].fd = InputFd PROVE FALSE  OBVIOUS
  <3>2. attached' /\ next' < Len(events')  BY <1>1, <2>3, <3>1 DEF Ready
  <3> QED  BY <2>1, <2>2, <2>3, <3>1, <3>2
 <2>5. regs[j].fd = PipeFd /\ regs'[j] = regs[j]  BY <1>1, <2>1, <2>3, <2>4
 <2>6. Ready(PipeFd)  BY <1>1, <1>18, <2>3, <2>5 DEF Ready
 <2>7. gpc["app"] # PipeFd  BY <1>1, <1>18, <2>5
 <2>8. regs[j].callback /\ Queued(PipeFd)  BY <2>3, <2>5, <2>6, <2>7 DEF Armed
 <2>9. Queued(regs[j].fd)' = Queued(PipeFd)'  BY <2>3, <2>5
 <2> QED  BY <1>18, <2>5, <2>8, <2>9
<1>19. CASE AppConsumes
 <2>1. /\ cur = AppThread /\ gpc["app"] = InputFd /\ ConsumeEvent
       /\ UNCHANGED <<hpc, batch, cur, callbacks, pipe>>
   BY <1>19 DEF AppConsumes, AppThread, script
 <2>2. Queued(PipeFd) => Queued(PipeFd)'  BY <2>1 DEF Queued
 <2> QED  BY <1>18, <2>1, <2>2
<1>20. CASE CallbackConsumes
 <2>1. /\ cur = Guest("callback", InputFd) /\ ConsumeEvent
       /\ UNCHANGED <<hpc, batch, callbacks, pipe, gpc>>
   BY <1>20 DEF CallbackConsumes, script, threads
 <2>2. Queued(PipeFd) => Queued(PipeFd)'  BY <1>1, <1>3, <2>1 DEF Queued
 <2> QED  BY <1>18, <2>1, <2>2
\* Collection makes the input queue ready only if it arms it.
<1>21. /\ RegsOK(RegsAfter) /\ SameRegs(regs, RegsAfter)
       /\ \A i \in DOMAIN regs :
            /\ regs[i].fd # InputFd => RegsAfter[i] = regs[i]
            /\ regs[i].fd = InputFd /\ RegsAfter[i].delivered
                 => RegsAfter[i] = regs[i] /\ EventsAfter = events
 <2>1. Kept \in Nat /\ (Kept = 0 => EventsAfter = events)  BY CollectedProperties
 <2>2. regs \in Seq(Registrations)  BY <1>1 DEF RegsOK
 <2>3. CASE Kept > 0
  <3>1. RegsAfter = Rearm(regs, InputFd)  BY <2>3 DEF RegsAfter
  <3> QED  BY <1>1, <2>2, <3>1, RearmProperties, RegsAfterOK
 <2>4. CASE Kept = 0
  <3>1. RegsAfter = regs  BY <2>4 DEF RegsAfter
  <3> QED  BY <1>1, <2>1, <2>4, <3>1, RegsAfterOK
 <2> QED  BY <2>1, <2>3, <2>4
<1>22. CASE Pump
 <2> DEFINE rs == RegsAfter
            evs == EventsAfter
            S == {i \in DOMAIN rs : rs[i].callback /\ Deliverable(rs[i], evs)}
 <2>1. PICK ready \in Selected(rs, S) :
         callbacks' = callbacks \o [i \in DOMAIN ready |-> ready[i].fd]
   BY <1>22 DEF Pump, ReadyCallbacks
 <2>2. rs \in Seq(Registrations) /\ S \in SUBSET DOMAIN rs  BY <1>21 DEF RegsOK
 <2>3. /\ cur = Nobody /\ hpc = "pump" /\ events' = evs
       /\ regs' = AllDelivered(rs, evs)
       /\ UNCHANGED <<cur, gpc, pipe, attached, next>>
   BY <1>22 DEF Pump, Idle, Collect, threads
 <2>4. \A i : i \in S <=> i \in DOMAIN rs /\ rs[i].callback /\ Deliverable(rs[i], evs)  OBVIOUS
 <2>5. /\ SameRegs(rs, regs')
       /\ \A i \in DOMAIN rs : i \in S \/ regs'[i] = rs[i]
   BY <2>2, <2>3, <2>4, DeliveredProperties
 <2> HIDE DEF S
 <2>6. ready \in Seq(Registrations)
       /\ \A i \in S : \E k \in DOMAIN ready : ready[k] = rs[i]
   BY <2>1, <2>2, Selection
 <2> HIDE DEF rs, evs
 <2>7. /\ \A k \in DOMAIN callbacks : \E l \in DOMAIN callbacks' :
            callbacks'[l] = callbacks[k]
       /\ \A k \in DOMAIN ready : \E l \in DOMAIN callbacks' :
            callbacks'[l] = ready[k].fd
  <3> DEFINE f == [i \in DOMAIN ready |-> ready[i].fd]
  <3>1. \A x \in Registrations : x.fd \in Fds  BY DEF Registrations
  <3>2. DOMAIN ready = 1..Len(ready) /\ Len(ready) \in Nat
        /\ \A i \in DOMAIN ready : ready[i] \in Registrations
    BY <2>6
  <3>3. f \in [1..Len(ready) -> Fds] /\ \A i \in DOMAIN ready : f[i] = ready[i].fd
    BY <3>1, <3>2
  <3>4. PICK n \in Nat : n = Len(ready)  BY <3>2
  <3>5. PICK g \in [1..n -> Fds] : g = f  BY <3>3, <3>4
  <3>6. PICK cs \in Seq(Fds) : cs = callbacks  BY <1>2
  <3>7. /\ Len(cs) \in Nat /\ DOMAIN (cs \o g) = 1..(Len(cs) + n)
        /\ \A i \in 1..Len(cs) : (cs \o g)[i] = cs[i]
        /\ \A i \in 1..n : (cs \o g)[Len(cs) + i] = g[i]
    BY Joined
  <3>8. callbacks' = cs \o g  BY <2>1, <3>5, <3>6
  <3> HIDE DEF f
  <3>9. \A k \in 1..Len(cs) : k \in 1..(Len(cs) + n)  BY <3>7
  <3>10. \A k \in 1..n : Len(cs) + k \in 1..(Len(cs) + n)  BY <3>7
  <3>11. DOMAIN cs = 1..Len(cs)  OBVIOUS
  <3>12. PICK w : w = cs \o g  OBVIOUS
  <3>13. /\ DOMAIN w = 1..(Len(cs) + n)
         /\ \A i \in 1..Len(cs) : w[i] = cs[i]
         /\ \A i \in 1..n : w[Len(cs) + i] = g[i]
    BY <3>7, <3>12, Zenon
  <3>14. \A k \in DOMAIN cs : \E l \in DOMAIN w : w[l] = cs[k]  BY <3>9, <3>11, <3>13, Zenon
  <3>15. \A k \in 1..n : \E l \in DOMAIN w : w[l] = g[k]  BY <3>10, <3>13, Zenon
  <3>16. callbacks' = w /\ \A k \in DOMAIN ready : k \in 1..n /\ g[k] = ready[k].fd
    BY <3>2, <3>3, <3>4, <3>5, <3>8, <3>12, Zenon
  <3> QED  BY <3>6, <3>14, <3>15, <3>16, Zenon
 <2>8. \A fd : Queued(fd) => Queued(fd)'  BY <1>3, <2>3, <2>7 DEF Queued
 <2>9. \A i \in S, fd \in Fds : fd = rs[i].fd => rs[i].callback /\ Queued(fd)'
   BY <2>4, <2>6, <2>7 DEF Queued
 <2> SUFFICES ASSUME NEW j \in DOMAIN regs', Ready(regs[j].fd)', regs'[j].delivered,
                     gpc'["app"] # regs'[j].fd
              PROVE  regs'[j].callback /\ Queued(regs[j].fd)'
   BY DEF Armed
 <2>10. /\ j \in DOMAIN rs /\ j \in DOMAIN regs /\ regs'[j].fd = rs[j].fd
        /\ regs'[j].callback = rs[j].callback /\ rs[j].fd = regs[j].fd
   BY <1>21, <2>5 DEF SameRegs, rs
 <2>11. CASE j \in S
  <3>1. PICK fd \in Fds : fd = rs[j].fd  BY <1>1, <2>10
  <3>2. rs[j].callback /\ Queued(fd)'  BY <2>9, <2>11, <3>1
  <3>3. regs'[j].fd = fd  BY <2>10, <3>1
  <3> QED  BY <2>10, <3>2, <3>3
 <2>12. CASE regs'[j] = rs[j]
  <3>1. rs[j] = regs[j] /\ (regs[j].fd = InputFd => evs = events)
    BY <1>21, <2>10, <2>12 DEF rs, evs
  <3>2. Ready(regs[j].fd)  BY <1>1, <2>3, <2>10, <3>1 DEF Ready
  <3>3. regs[j].callback /\ Queued(regs[j].fd)  BY <2>3, <2>10, <2>12, <3>1, <3>2 DEF Armed
  <3>4. PICK fd : fd = regs[j].fd  OBVIOUS
  <3>5. Queued(fd)'  BY <2>8, <3>3, <3>4
  <3>6. regs'[j].fd = fd  BY <2>10, <3>4
  <3> QED  BY <2>12, <3>1, <3>3, <3>5, <3>6
 <2> QED  BY <2>5, <2>10, <2>11, <2>12
<1>23. CASE AppPolls
 <2> DEFINE rs == IF PollCollects THEN RegsAfter ELSE regs
 <2>1. PICK k \in DOMAIN regs :
         /\ regs' = [rs EXCEPT ![k].delivered = TRUE]
         /\ IF regs[k].callback
            THEN callbacks' = Append(callbacks, regs[k].fd) /\ UNCHANGED gpc
            ELSE gpc' = [gpc EXCEPT !["app"] = regs[k].fd] /\ UNCHANGED callbacks
   BY <1>23 DEF AppPolls
 <2>2. /\ cur = AppThread /\ gpc["app"] = "poll" /\ PollCollect
       /\ UNCHANGED <<hpc, batch, cur, pipe, attached, next>>
   BY <1>23 DEF AppPolls, AppThread, script
 <2>3. /\ RegsOK(rs) /\ SameRegs(regs, rs)
       /\ \A i \in DOMAIN regs : rs[i].delivered =>
            rs[i] = regs[i] /\ (regs[i].fd = InputFd => events' = events)
  <3>1. CASE PollCollects  BY <1>1, <1>21, <2>2, <3>1 DEF PollCollect, Collect
  <3>2. CASE ~PollCollects  BY <1>1, <2>2, <3>2 DEF PollCollect, SameRegs, RegsOK
  <3> QED  BY <3>1, <3>2
 <2> HIDE DEF rs
 <2>4. k \in DOMAIN rs /\ DOMAIN rs = DOMAIN regs  BY <2>3 DEF SameRegs
 <2>5. SameRegs(rs, regs') /\ \A i \in DOMAIN rs : i # k => regs'[i] = rs[i]
   BY <2>1, <2>3, <2>4, MarkProperties
 <2>6. \A fd \in Fds : Queued(fd) => Queued(fd)'
  <3>1. \A l \in DOMAIN callbacks : \E m \in DOMAIN callbacks' :
          callbacks'[m] = callbacks[l]
   <4>1. CASE callbacks' = callbacks  BY <4>1
   <4>2. CASE \E fd \in Fds : callbacks' = Append(callbacks, fd)  BY <1>2, <4>2, Appended
   <4> QED  BY <1>1, <2>1, <4>1, <4>2
  <3> QED  BY <2>2, <3>1 DEF Queued
 <2> SUFFICES ASSUME NEW j \in DOMAIN regs', Ready(regs[j].fd)', regs'[j].delivered,
                     gpc'["app"] # regs'[j].fd
              PROVE  regs'[j].callback /\ Queued(regs[j].fd)'
   BY DEF Armed
 <2>7. /\ j \in DOMAIN rs /\ j \in DOMAIN regs /\ regs'[j].fd = regs[j].fd
       /\ regs'[j].callback = regs[j].callback
   BY <2>3, <2>5 DEF SameRegs
 <2>8. PICK fd \in Fds : fd = regs[j].fd  BY <1>1, <2>7
 <2>9. SUFFICES regs[j].callback /\ Queued(fd)'  BY <2>7, <2>8
 <2>10. CASE j = k
  <3>1. regs[k].callback
   <4>1. SUFFICES ASSUME ~regs[k].callback PROVE FALSE  OBVIOUS
   <4>2. gpc'["app"] = regs[k].fd  BY <1>2, <2>1, <4>1
   <4> QED  BY <2>7, <2>10, <4>2
  <3>2. callbacks' = Append(callbacks, fd)  BY <2>1, <2>8, <2>10, <3>1
  <3>3. Len(callbacks) + 1 \in DOMAIN callbacks' /\ callbacks'[Len(callbacks) + 1] = fd
    BY <1>2, <2>8, <3>2, Appended
  <3>4. Queued(fd)'  BY <3>3 DEF Queued
  <3> QED  BY <2>10, <3>1, <3>4
 <2>11. CASE j # k
  <3>1. regs'[j] = rs[j]  BY <2>5, <2>7, <2>11
  <3>2. rs[j] = regs[j] /\ (regs[j].fd = InputFd => events' = events)  BY <2>3, <2>7, <3>1
  <3>3. Ready(regs[j].fd)  BY <1>1, <2>2, <2>7, <3>2 DEF Ready
  <3>4. gpc["app"] # regs[j].fd  BY <1>1, <1>2, <2>2, <2>7
  <3>5. regs[j].callback /\ Queued(regs[j].fd)  BY <2>7, <3>1, <3>2, <3>3, <3>4 DEF Armed
  <3> QED  BY <2>6, <2>8, <3>5
 <2> QED  BY <2>10, <2>11
<1>24. CASE AppYields
 <2>1. /\ cur = AppThread /\ PollCollect
       /\ UNCHANGED <<hpc, batch, gpc, regs, callbacks, pipe, attached, next>>
   BY <1>24 DEF AppYields, AppThread, script, looper
 <2>2. \A fd \in Fds : Queued(fd) => Queued(fd)'  BY <1>3, <2>1 DEF Queued, AppThread
 <2> SUFFICES ASSUME NEW j \in DOMAIN regs, Ready(regs[j].fd)', regs[j].delivered,
                     gpc["app"] # regs[j].fd
              PROVE  regs[j].callback /\ Queued(regs[j].fd)'
   BY <2>1 DEF Armed
 <2>3. regs[j].fd = InputFd => events' = events
  <3>1. CASE PollCollects
   <4>1. PICK i \in DOMAIN regs : regs[i].fd = InputFd /\ ~regs[i].delivered
     BY <3>1 DEF PollCollects
   <4> QED  BY <1>1, <4>1 DEF RegsOK
  <3>2. CASE ~PollCollects  BY <2>1, <3>2 DEF PollCollect
  <3> QED  BY <3>1, <3>2
 <2>4. Ready(regs[j].fd)  BY <1>1, <2>1, <2>3 DEF Ready
 <2>5. regs[j].callback /\ Queued(regs[j].fd)  BY <2>4 DEF Armed
 <2>6. PICK fd \in Fds : fd = regs[j].fd  BY <1>1
 <2> QED  BY <2>1, <2>2, <2>5, <2>6
<1> QED  BY <1>6, <1>7, <1>8, <1>9, <1>11, <1>12, <1>13, <1>16, <1>17, <1>19, <1>20, <1>22,
     <1>23, <1>24 DEF Next, Host, GuestCode

----
(* The end of the activity.                                                *)

\* onDestroy is called once, and its command is the only one after which it has
\* been called.
LEMMA PastStep ==
  ASSUME HostShape, [Next]_vars
  PROVE  /\ Past => ~MainCommand
         /\ \/ Past' <=> Past
            \/ MainCommand /\ cur = Guest("main", "destroy")
            \/ CallStage /\ "destroy" \notin defined
<1>1. /\ stage \in 1..15 /\ (hpc # "call" => stage # 15)
      /\ \A x, y : Guest("main", x) = Guest("main", y) => x = y
      /\ \A x : Guest("main", x) # Nobody /\ Guest("main", x) # Guest("frame", "frame")
      /\ \A x, y : Guest("main", x) # Guest("thread", y)
                   /\ Guest("main", x) # Guest("callback", y)
  BY DEF HostShape, Guest, Nobody
<1>2. \A s \in 1..15 : /\ Script[s] = "destroy" <=> s = 14
                       /\ Script[s] = "loop" <=> s = 9
                       /\ Script[s] = "done" <=> s = 15
  BY ScriptValues
<1>3. MainCommand => /\ cur = Guest("main", Script[stage]) /\ hpc = "pending"
                     /\ UNCHANGED <<stage, hpc>> /\ cur' = Nobody
  BY WhoRuns DEF MainCommand, Running, Return, script
<1>4. Past => ~MainCommand  BY <1>1, <1>2, <1>3 DEF Past
<1>5. CASE MainCommand
 <2>1. CASE stage = 14  BY <1>2, <1>3, <1>5, <2>1, <1>4
 <2>2. CASE stage # 14  BY <1>1, <1>2, <1>3, <1>4, <1>5, <2>2 DEF Past
 <2> QED  BY <1>4, <2>1, <2>2
<1>6. CASE CallStage
 <2>1. cur = Nobody /\ hpc = "call" /\ stage # 15 /\ ~Past
   BY <1>1, <1>2, <1>6 DEF CallStage, Idle, Past
 <2>2. CASE stage' = stage /\ hpc' = "pump" /\ Script[stage] = "loop"
   BY <1>1, <1>2, <1>4, <2>1, <2>2 DEF Past
 <2>3. CASE stage' = stage + 1 /\ hpc' = "call" /\ Script[stage] = "loop"
   BY <1>1, <1>2, <1>4, <2>1, <2>3 DEF Past
 <2>4. CASE stage' = stage + 1 /\ hpc' = "call" /\ Script[stage] \notin defined
   BY <1>1, <1>2, <1>4, <1>6, <2>1, <2>4 DEF Past
 <2>5. CASE stage' = stage /\ cur' = Guest("main", Script[stage])
   BY <1>1, <1>2, <1>4, <2>1, <2>5 DEF Past
 <2> QED  BY <1>6, <2>2, <2>3, <2>4, <2>5 DEF CallStage, GoOn
<1>7. ASSUME FinishDrain, hpc \in {"pending", "frames"}, cur = Nobody
      PROVE  Past' <=> Past
 <2>1. drain.ret = "next" \/ (stage = 9 /\ drain.ret # "next")  BY <1>7 DEF HostShape
 <2> QED  BY <1>1, <1>7, <2>1 DEF FinishDrain, GoOn, Past
\* A step of a drain.
<1>8. ASSUME UNCHANGED stage, hpc # "call", hpc' # "call",
             \A x : cur # Guest("main", x), \A x : cur' # Guest("main", x)
      PROVE  Past' <=> Past
  BY <1>8 DEF Past
<1>9. CASE BeginRound
 <2>1. cur = Nobody /\ hpc = "pending" /\ cur' = cur  BY <1>9 DEF BeginRound, Idle
 <2>2. CASE FinishDrain  BY <1>4, <1>7, <2>1, <2>2
 <2>3. CASE GoOn(stage, "start")  BY <1>1, <1>4, <1>8, <2>1, <2>3 DEF GoOn
 <2> QED  BY <1>9, <2>2, <2>3 DEF BeginRound
<1>10. CASE EndRound
 <2>1. cur = Nobody /\ hpc = "frames" /\ cur' = cur  BY <1>10 DEF EndRound, Idle
 <2>2. CASE FinishDrain  BY <1>4, <1>7, <2>1, <2>2
 <2>3. CASE hpc' = "pending" /\ UNCHANGED stage  BY <1>1, <1>4, <1>8, <2>1, <2>3
 <2> QED  BY <1>10, <2>2, <2>3 DEF EndRound
<1>11. CASE StartPending \/ BeginResume \/ ResumeThread \/ TakeCallbacks \/ RunCallback
            \/ TakeFrames \/ RunFrame
 <2>1. UNCHANGED stage /\ hpc # "call" /\ hpc' # "call" /\ cur = Nobody
   BY <1>11 DEF StartPending, BeginResume, ResumeThread, TakeCallbacks, RunCallback,
      TakeFrames, RunFrame, Idle
 <2>2. \A x : cur' # Guest("main", x)
   BY <1>1, <1>11, <2>1 DEF StartPending, BeginResume, ResumeThread, TakeCallbacks,
      RunCallback, TakeFrames, RunFrame
 <2> QED  BY <1>1, <1>4, <1>8, <2>1, <2>2
<1>12. CASE Pump \/ AfterFrames \/ Tick
 <2>1. stage = 9  BY <1>12 DEF Pump, AfterFrames, Tick, HostShape, Idle
 <2>2. stage' = stage \/ stage' = stage + 1  BY <1>12, Zenon DEF Pump, AfterFrames, Tick, GoOn
 <2> QED  BY <1>4, <2>1, <2>2 DEF Past
<1>13. CASE MainCreate
 <2>1. stage = 1 /\ UNCHANGED stage
   BY <1>1, <1>13, WhoRuns, ScriptValues DEF MainCreate, Running, script
 <2> QED  BY <1>4, <2>1 DEF Past
<1>14. CASE AppBegins \/ AppPolls \/ AppYields \/ AppReads \/ CallbackReads \/ AppConsumes
            \/ CallbackConsumes \/ FrameReturns \/ ThreadReturns
 <2>1. UNCHANGED <<stage, hpc>> /\ (cur' = Nobody \/ cur' = cur)
   BY <1>14 DEF AppBegins, AppPolls, AppYields, AppReads, CallbackReads, AppConsumes,
      CallbackConsumes, FrameReturns, ThreadReturns, script, Return
 <2>2. cur.kind # "main"
   BY <1>14 DEF AppBegins, AppPolls, AppYields, AppReads, CallbackReads, AppConsumes,
      CallbackConsumes, FrameReturns, ThreadReturns, Running, Guest
 <2>3. \A x : cur # Guest("main", x)  BY <2>2 DEF Guest
 <2> QED  BY <1>1, <1>4, <2>1, <2>3 DEF Past
<1>15. CASE JoinsWorker \/ HostInput \/ CloseWindow \/ DeadlinePasses \/ Finished
            \/ UNCHANGED vars
 <2>1. UNCHANGED <<stage, hpc, cur>>
   BY <1>15 DEF JoinsWorker, HostInput, CloseWindow, DeadlinePasses, Finished, script, vars
 <2> QED  BY <1>4, <2>1 DEF Past
<1> QED  BY <1>5, <1>6, <1>9, <1>10, <1>11, <1>12, <1>13, <1>14, <1>15 DEF Next, Host, GuestCode

\* The app thread ends by returning, and stays ended.
LEMMA AppEnding ==
  ASSUME Shape, AppLife, [Next]_vars
  PROVE  /\ gpc["app"] = "finished" => gpc'["app"] = "finished"
         /\ gpc'["app"] = "finished" => \/ gpc["app"] = "finished"
                                        \/ ThreadReturns /\ cur = AppThread /\ quit
<1>1. /\ gpc \in [Threads -> {"unborn", "null", "begin", "poll", "finished"} \cup Fds]
      /\ "app" \in Threads /\ "worker" \in Threads /\ "finished" \notin Fds /\ HostShape
  BY DEF Shape, ThreadShape, Threads, Fds, PipeFd, InputFd
<1>2. CASE UNCHANGED gpc  BY <1>2
<1>3. CASE StartPending
 <2>1. gpc["app"] # "null"  BY DEF AppLife
 <2> QED  BY <1>1, <1>3, <2>1 DEF StartPending
<1>4. CASE MainCreate
 <2>1. gpc["app"] = "unborn"
  <3>1. cur = Guest("main", "create") /\ stage = 1
    BY <1>1, <1>4, WhoRuns, ScriptValues DEF MainCreate, Running, HostShape
  <3> QED  BY <3>1 DEF AppLife
 <2> QED  BY <1>1, <1>4, <2>1 DEF MainCreate, CreateThread
<1>5. CASE AppBegins  BY <1>1, <1>5 DEF AppBegins
<1>6. CASE AppPolls \/ AppReads \/ AppConsumes
 <2>1. \A i \in DOMAIN regs : regs[i] \in Registrations  BY DEF Shape, LooperShape
 <2>2. \A i \in DOMAIN regs : regs[i].fd \in Fds  BY <2>1 DEF Registrations
 <2>3. /\ gpc["app"] # "finished"
       /\ gpc' = gpc \/ \E x \in {"poll"} \cup Fds : gpc' = [gpc EXCEPT !["app"] = x]
   BY <1>6, <2>2 DEF AppPolls, AppReads, AppConsumes, PipeFd, InputFd
 <2> QED  BY <1>1, <2>3
<1>7. CASE ThreadReturns
 <2>1. cur = AppThread \/ cur = Guest("thread", "worker")
   BY <1>1, <1>7, WhoRuns DEF ThreadReturns, Running, AppThread
 <2>2. CASE cur = AppThread
  <3>1. cur.what = "app"  BY <2>2 DEF AppThread, Guest
  <3> QED  BY <1>1, <1>7, <2>2, <3>1 DEF ThreadReturns
 <2>3. CASE cur = Guest("thread", "worker")
  <3>1. cur.what = "worker"  BY <2>3 DEF Guest
  <3> QED  BY <1>1, <1>7, <3>1 DEF ThreadReturns
 <2> QED  BY <2>1, <2>2, <2>3
<1> QED  BY <1>2, <1>3, <1>4, <1>5, <1>6, <1>7, Effects

\* A step keeps the destroy command the last one.
LEMMA LastCommandStep ==
  ASSUME Shape, AppLife, LastCommand, [Next]_vars
  PROVE  LastCommand'
<1>1. /\ HostShape /\ stage \in 1..15 /\ pipe \in Seq(Commands) /\ quit \in BOOLEAN
      /\ Len(pipe) \in Nat /\ DOMAIN pipe = 1..Len(pipe)
  BY DEF Shape, HostShape, LooperShape
<1>2. \A s \in 1..15 : Script[s] \in Commands /\ (Script[s] = "destroy" <=> s = 14)
  BY ScriptValues
<1>3. UNCHANGED defined  BY Effects
<1>4. \/ Past' <=> Past
      \/ MainCommand /\ cur = Guest("main", "destroy")
      \/ CallStage /\ "destroy" \notin defined
  BY <1>1, PastStep
<1>5. Past => ~MainCommand  BY <1>1, PastStep
<1>6. CASE MainCommand
 <2>1. /\ cur = Guest("main", Script[stage]) /\ cur.what = Script[stage]
       /\ pipe' = Append(pipe, Script[stage]) /\ UNCHANGED <<quit, gpc, stage>>
   BY <1>1, <1>6, WhoRuns DEF MainCommand, Running, WriteCommand, threads, script
 <2>2. ~quit /\ gpc["app"] # "finished" /\ \A i \in DOMAIN pipe : pipe[i] # "destroy"
   BY <1>5, <1>6 DEF LastCommand
 <2>3. /\ pipe' # <<>> /\ Len(pipe') = Len(pipe) + 1
       /\ DOMAIN pipe' = 1..(Len(pipe) + 1)
       /\ pipe'[Len(pipe) + 1] = Script[stage]
       /\ \A i \in DOMAIN pipe : pipe'[i] = pipe[i]
   BY <1>1, <1>2, <2>1, Appended
 <2>4. CASE Script[stage] = "destroy"
  <3>1. \A i \in DOMAIN pipe' : pipe'[i] = "destroy" <=> i = Len(pipe')
    BY <1>1, <2>2, <2>3, <2>4
  <3>2. Past'  BY <1>1, <1>2, <1>6, <2>1, <2>4, WhoRuns
    DEF Past, MainCommand, script, Return, Running
  <3> QED  BY <2>1, <2>2, <2>3, <3>1, <3>2 DEF LastCommand
 <2>5. CASE Script[stage] # "destroy"
  <3>1. \A i \in DOMAIN pipe' : pipe'[i] # "destroy"  BY <1>1, <2>2, <2>3, <2>5
  <3>2. ~Past'
   <4>1. ~CallStage /\ cur # Guest("main", "destroy")
     BY <2>1, <2>5 DEF CallStage, Idle, Guest, Nobody
   <4> QED  BY <1>4, <1>5, <1>6, <4>1
  <3> QED  BY <2>1, <2>2, <3>1, <3>2 DEF LastCommand
 <2> QED  BY <2>4, <2>5
<1>7. CASE CallStage /\ "destroy" \notin defined /\ ~(Past' <=> Past)
 <2>1. ~Past /\ Past'  BY <1>1, <1>7, ScriptValues DEF CallStage, Past
 <2> QED  BY <1>3, <1>7, <2>1 DEF LastCommand
<1>8. CASE Past' <=> Past
 <2>1. CASE \E callback \in BOOLEAN : ReadCommand(callback)
  <3>1. pipe # <<>> /\ pipe' = Tail(pipe) /\ quit' = (quit \/ Head(pipe) = "destroy")
    BY <2>1 DEF ReadCommand, Obey
  <3>2. /\ Head(pipe) = pipe[1] /\ 1 \in DOMAIN pipe /\ Len(Tail(pipe)) = Len(pipe) - 1
        /\ Tail(pipe) \in Seq(Commands)
        /\ \A i \in DOMAIN Tail(pipe) : i + 1 \in DOMAIN pipe
                                        /\ Tail(pipe)[i] = pipe[i + 1]
    BY <1>1, <3>1, HeadAndTail
  <3>3. gpc'["app"] = "finished" => gpc["app"] = "finished"
   <4>1. ~ThreadReturns  BY <3>1 DEF ThreadReturns, looper
   <4> QED  BY <4>1, AppEnding
  <3>4. CASE ~Past
   <4>1. ~quit /\ gpc["app"] # "finished" /\ \A i \in DOMAIN pipe : pipe[i] # "destroy"
     BY <3>4 DEF LastCommand
   <4> QED  BY <1>8, <3>1, <3>2, <3>3, <3>4, <4>1 DEF LastCommand
  <3>5. CASE Past /\ "destroy" \in defined
   <4>1. /\ ~quit /\ gpc["app"] # "finished"
         /\ \A i \in DOMAIN pipe : pipe[i] = "destroy" <=> i = Len(pipe)
     BY <3>1, <3>5 DEF LastCommand
   <4>2. CASE Len(pipe) = 1
    <5>1. Tail(pipe) = <<>> /\ Head(pipe) = "destroy"  BY <3>2, <4>1, <4>2
    <5> QED  BY <1>8, <3>1, <3>5, <5>1 DEF LastCommand
   <4>3. CASE Len(pipe) # 1
    <5>1. Head(pipe) # "destroy" /\ Len(Tail(pipe)) # 0 /\ Tail(pipe) # <<>>
      BY <1>1, <3>2, <4>1, <4>3
    <5>2. \A i \in DOMAIN Tail(pipe) : Tail(pipe)[i] = "destroy"
                                        <=> i = Len(Tail(pipe))
      BY <1>1, <3>2, <4>1
    <5> QED  BY <1>8, <3>1, <3>3, <3>5, <4>1, <5>1, <5>2 DEF LastCommand
   <4> QED  BY <4>2, <4>3
  <3> QED  BY <1>3, <1>8, <3>4, <3>5 DEF LastCommand
 <2>2. CASE ~MainCommand /\ UNCHANGED <<pipe, quit>>
  <3>1. gpc'["app"] = "finished" => gpc["app"] = "finished" \/ quit  BY AppEnding
  <3> QED  BY <1>3, <1>8, <2>2, <3>1 DEF LastCommand
 <2>3. \/ MainCommand \/ \E callback \in BOOLEAN : ReadCommand(callback)
       \/ ~MainCommand /\ UNCHANGED <<pipe, quit>>
   BY Effects DEF AppReads, CallbackReads
 <2> QED  BY <1>6, <2>1, <2>2, <2>3
<1> QED  BY <1>4, <1>6, <1>7, <1>8

\* A step keeps the app thread of a guest that reads by ident on its way to its
\* end: the drain of onDestroy resumes it once, and once resumed it does not give
\* up the vCPU before it has read the destroy command.
LEMMA EndingStep ==
  ASSUME Shape, Offers, FramesAscend, AppLife, Armed, LastCommand, Ending, [Next]_vars
  PROVE  Ending'
<1>1. /\ HostShape /\ stage \in 1..15 /\ (hpc # "call" => stage # 15) /\ drain \in Drains
      /\ RegsOK(regs) /\ managed \in Seq(Threads)
      /\ gpc \in [Threads -> {"unborn", "null", "begin", "poll", "finished"} \cup Fds]
  BY DEF Shape, HostShape, LooperShape, ThreadShape, RegsOK
<1>2. \A s \in 1..15 : /\ Script[s] = "destroy" <=> s = 14
                       /\ Script[s] = "loop" <=> s = 9
                       /\ Script[s] = "done" <=> s = 15
  BY ScriptValues
<1>3. UNCHANGED defined  BY Effects
<1>4. ByIdent' => ByIdent
 <2>1. \A i \in DOMAIN regs : regs[i].fd = PipeFd =>
         \E j \in DOMAIN regs' : /\ regs'[j].fd = PipeFd
                                 /\ regs'[j].callback = regs[i].callback
   BY RegsStep DEF Shape
 <2> QED  BY <2>1 DEF ByIdent
<1>5. SUFFICES ASSUME "destroy" \in defined, ByIdent, gpc'["app"] # "finished"
               PROVE  /\ stage' # 15
                      /\ stage' = 14 /\ hpc' # "call" => ResumeDue'
  BY <1>3, <1>4 DEF Ending
<1>6. gpc["app"] # "finished"  BY <1>5, AppEnding
<1>7. stage # 15 /\ (stage = 14 /\ hpc # "call" => ResumeDue)  BY <1>5, <1>6 DEF Ending
<1>8. /\ AppThread # Nobody /\ \A x : Guest("main", x) # AppThread
      /\ AppThread.kind = "thread" /\ Guest("thread", "worker") # AppThread
  BY DEF AppThread, Nobody, Guest
<1>9. MaxDrainRounds \in Nat /\ MaxDrainRounds >= 2  BY SchedulerAssumption
<1>10. CASE stage = 14
 <2>1. gpc["app"] \in {"poll"} \cup Fds /\ pending = <<>>
       /\ (gpc["app"] \in Fds => cur = AppThread)
   BY <1>1, <1>6, <1>10 DEF AppLife, Threads
 <2>2. CASE CallStage
  <3>1. Script[stage] = "destroy"  BY <1>2, <1>10
  <3>2. /\ stage' = 14 /\ hpc' = "pending"
        /\ drain' = Fresh(DrainsFrames("destroy"), DrainsThreads("destroy"), "next")
    BY <1>5, <1>10, <2>2, <3>1 DEF CallStage, GoOn
  <3>3. DrainsThreads("destroy") = TRUE  BY DEF DrainsThreads
  <3> QED  BY <3>2, <3>3 DEF ResumeDue, Fresh
 <2>3. CASE hpc # "call"
  <3>1. ResumeDue  BY <1>7, <1>10, <2>3
  <3>2. CASE UNCHANGED <<stage, hpc, drain, batch, cur>>  BY <1>10, <3>1, <3>2 DEF ResumeDue
  <3>3. CASE BeginRound
   <4>1. hpc = "pending" /\ drain.rounds = 0 /\ drain.threads /\ ~drain.resumed
         /\ ~drain.ranNew /\ cur = Nobody /\ cur' = cur
     BY <3>1, <3>3 DEF BeginRound, ResumeDue, Idle
   <4>2. ~(drain.rounds >= MaxDrainRounds)  BY <1>9, <4>1
   <4>3. /\ drain' = [drain EXCEPT !.rounds = @ + 1, !.work = FALSE]
         /\ batch' = <<>> /\ stage' = 14 /\ hpc' = "start"
     BY <1>10, <2>1, <3>3, <4>2 DEF BeginRound, GoOn
   <4>4. drain'.threads = drain.threads /\ drain'.resumed = drain.resumed
         /\ drain'.ranNew = drain.ranNew
     BY <1>1, <4>3 DEF Drains
   <4> QED  BY <4>1, <4>3, <4>4 DEF ResumeDue
  <3>4. CASE BeginResume
   <4>1. /\ hpc = "start" /\ cur = Nobody /\ UNCHANGED stage /\ hpc' = "resume"
         /\ drain.threads /\ ~drain.ranNew /\ ~drain.resumed
     BY <3>1, <3>4 DEF BeginResume, ResumeDue, Idle
   <4> DEFINE S == {i \in DOMAIN managed : gpc[managed[i]] # "finished"}
   <4>2. batch' \in Selected(managed, S)  BY <3>4, <4>1 DEF BeginResume
   <4>3. PICK i \in DOMAIN managed : managed[i] = "app"  BY <1>8, <2>1, <4>1 DEF AppLife
   <4>4. i \in S /\ S \in SUBSET DOMAIN managed  BY <1>6, <4>3
   <4> HIDE DEF S
   <4>5. \E k \in DOMAIN batch' : batch'[k] = managed[i]  BY <1>1, <4>2, <4>4, Selection
   <4> QED  BY <1>10, <4>1, <4>3, <4>5 DEF ResumeDue
  <3>5. CASE ResumeThread
   <4>1. /\ hpc = "resume" /\ cur = Nobody /\ batch # <<>> /\ batch' = Tail(batch)
         /\ cur' = Guest("thread", Head(batch)) /\ UNCHANGED <<stage, hpc>>
     BY <3>5 DEF ResumeThread, Idle
   <4>2. PICK k \in DOMAIN batch : batch[k] = "app"  BY <1>8, <3>1, <4>1 DEF ResumeDue
   <4>3. batch \in Seq(Threads)  BY <1>1, <4>1 DEF HostShape
   <4>4. Head(batch) = "app" \/ \E l \in DOMAIN Tail(batch) : Tail(batch)[l] = "app"
    <5>1. /\ Head(batch) = batch[1]
          /\ \A i \in DOMAIN batch : i = 1 \/ (i - 1 \in DOMAIN Tail(batch)
                                             /\ batch[i] = Tail(batch)[i - 1])
      BY <4>1, <4>3, HeadAndTail
    <5> QED  BY <4>2, <5>1, Zenon
   <4> QED  BY <1>10, <4>1, <4>4 DEF ResumeDue, AppThread
  <3>6. ~(StartPending \/ TakeCallbacks \/ RunCallback \/ TakeFrames \/ RunFrame
          \/ EndRound \/ Pump \/ AfterFrames \/ Tick \/ CallStage)
   <4>1. hpc \in {"pending", "start", "resume"}
         /\ (hpc = "start" => batch = <<>>)
         /\ (hpc = "resume" /\ cur = Nobody => batch # <<>>)
     BY <1>8, <3>1 DEF ResumeDue
   <4> QED  BY <2>3, <4>1 DEF StartPending, TakeCallbacks, RunCallback, TakeFrames, RunFrame,
        EndRound, Pump, AfterFrames, Tick, CallStage, Idle
  <3>7. CASE MainCreate \/ MainCommand
   <4>1. hpc = "pending" /\ UNCHANGED <<stage, hpc, drain>>
     BY <1>1, <3>7, WhoRuns DEF MainCreate, MainCommand, Running, script
   <4> QED  BY <1>10, <3>1, <4>1 DEF ResumeDue
  <3>8. CASE AppBegins \/ AppPolls \/ AppReads \/ AppConsumes
    BY <3>2, <3>8 DEF AppBegins, AppPolls, AppReads, AppConsumes, script
  <3>9. ~AppYields
   <4>1. SUFFICES ASSUME AppYields PROVE FALSE  OBVIOUS
   <4>2. /\ cur = AppThread /\ gpc["app"] = "poll" /\ ~quit
         /\ PollReaches(Len(regs) + 1)
     BY <4>1 DEF AppYields, AppThread
   <4>3. Past  BY <1>8, <1>10, <2>3, <4>2 DEF Past
   <4>4. pipe # <<>>  BY <1>5, <4>2, <4>3 DEF LastCommand
   <4>5. PICK i \in DOMAIN regs : regs[i].fd = PipeFd  BY <4>2 DEF AppLife
   <4>6. ~Deliverable(regs[i], EventsAfter)
    <5>1. Len(regs) \in Nat /\ DOMAIN regs = 1..Len(regs)  BY <1>1 DEF RegsOK
    <5>2. i \in 1..((Len(regs) + 1) - 1)  BY <5>1
    <5> QED  BY <4>2, <5>2 DEF PollReaches
   <4>7. regs[i].delivered  BY <4>4, <4>5, <4>6 DEF Deliverable, PipeFd, InputFd
   <4>8. Ready(regs[i].fd) /\ gpc["app"] # regs[i].fd  BY <4>2, <4>4, <4>5 DEF Ready, PipeFd
   <4> QED  BY <1>5, <4>5, <4>7, <4>8 DEF Armed, ByIdent
  <3>10. CASE CallbackReads \/ CallbackConsumes \/ FrameReturns
   <4>1. hpc \in {"callbacks", "frames", "runFrames"}
     BY <1>1, <3>10, WhoRuns DEF CallbackReads, CallbackConsumes, FrameReturns, Running
   <4> QED  BY <3>1, <4>1 DEF ResumeDue
  <3>11. CASE ThreadReturns
   <4>1. /\ cur = AppThread \/ cur = Guest("thread", "worker")
         /\ UNCHANGED <<stage, hpc, drain, batch>> /\ hpc \in {"start", "resume"}
         /\ cur # Nobody
     BY <1>1, <3>11, WhoRuns DEF ThreadReturns, Running, script, AppThread
   <4>2. cur # AppThread
    <5>1. SUFFICES ASSUME cur = AppThread PROVE gpc'["app"] = "finished"  BY <1>5
    <5>2. cur.what = "app" /\ "app" \in Threads  BY <5>1 DEF AppThread, Guest, Threads
    <5> QED  BY <1>1, <3>11, <5>2 DEF ThreadReturns
   <4> QED  BY <1>10, <3>1, <4>1, <4>2 DEF ResumeDue
  <3>12. CASE JoinsWorker \/ HostInput \/ CloseWindow \/ DeadlinePasses \/ Finished
              \/ UNCHANGED vars
    BY <3>2, <3>12 DEF JoinsWorker, HostInput, CloseWindow, DeadlinePasses, Finished,
       script, vars
  <3> QED  BY <3>3, <3>4, <3>5, <3>6, <3>7, <3>8, <3>9, <3>10, <3>11, <3>12
    DEF Next, Host, GuestCode
 <2>4. CASE hpc = "call" /\ ~CallStage
  <3>1. cur = Nobody  BY <1>1, <2>4 DEF HostShape
  <3>2. UNCHANGED <<stage, hpc>>
   <4>1. ~Host
     BY <2>4 DEF Host, CallStage, BeginRound, StartPending, BeginResume, ResumeThread,
        TakeCallbacks, RunCallback, TakeFrames, RunFrame, EndRound, Pump, AfterFrames, Tick
   <4> QED  BY <4>1, Effects DEF script
  <3> QED  BY <1>10, <2>4, <3>2
 <2> QED  BY <2>2, <2>3, <2>4
<1>11. CASE stage # 14
 <2>1. stage \in 1..13 /\ stage' # 15
  <3>1. UNCHANGED stage \/ stage' = stage + 1
   <4>1. CASE Host  BY <4>1, Zenon DEF Host, CallStage, BeginRound, StartPending, BeginResume,
        ResumeThread, TakeCallbacks, RunCallback, TakeFrames, RunFrame, EndRound, Pump,
        AfterFrames, Tick, GoOn, FinishDrain
   <4>2. CASE ~Host  BY <4>2, Effects DEF script
   <4> QED  BY <4>1, <4>2
  <3> QED  BY <1>1, <1>7, <1>11, <3>1
 <2>2. stage' = 14 => hpc' = "call"
  <3>1. SUFFICES ASSUME stage' = 14 PROVE hpc' = "call"  OBVIOUS
  <3>2. stage' # stage  BY <1>11, <3>1
  <3>3. CASE CallStage  BY <3>2, <3>3 DEF CallStage, GoOn
  <3>4. CASE BeginRound  BY <3>2, <3>4 DEF BeginRound, GoOn, FinishDrain
  <3>5. CASE EndRound  BY <3>2, <3>5 DEF EndRound, GoOn, FinishDrain
  <3>6. CASE Tick  BY <3>2, <3>6 DEF Tick, GoOn
  <3>7. CASE Pump  BY <3>2, <3>7, Zenon DEF Pump, GoOn
  <3>8. Host  BY <3>2, Effects DEF script
  <3> QED  BY <3>2, <3>3, <3>4, <3>5, <3>6, <3>7, <3>8 DEF Host, StartPending, BeginResume,
       ResumeThread, TakeCallbacks, RunCallback, TakeFrames, RunFrame, AfterFrames
 <2> QED  BY <2>1, <2>2
<1> QED  BY <1>10, <1>11

----
(* The theorems.                                                           *)

\* The invariant holds before onCreate.
LEMMA InitInvariant == Init => IInv
<1> SUFFICES ASSUME Init PROVE IInv  OBVIOUS
<1>1. /\ <<>> \in Seq(Threads) /\ <<>> \in Seq(Registrations) /\ <<>> \in Seq(Fds)
      /\ <<>> \in Seq(Commands) /\ <<>> \in Seq(Nat) /\ DOMAIN <<>> = {}
  OBVIOUS
<1>2. WindowShape  BY DEF Init, WindowShape
<1>3. ThreadShape  BY <1>1 DEF Init, ThreadShape
<1>4. LooperShape  BY <1>1 DEF Init, LooperShape
<1>5. Fresh(FALSE, FALSE, "next") \in Drains  BY SchedulerAssumption DEF Fresh, Drains
<1>6. HostShape
 <2>1. /\ stage = 1 /\ loopWork = FALSE /\ drain \in Drains /\ hpc = "call"
       /\ cur = Nobody /\ batch = <<>>
   BY <1>5 DEF Init
 <2>2. /\ stage \in 1..15
       /\ hpc \in {"call", "pump", "loopFrames", "tick"}
       /\ hpc \notin {"pump", "loopFrames", "runFrames", "tick"}
       /\ hpc \notin {"pending", "start", "resume", "callbacks", "frames"}
   BY <2>1
 <2>3. loopWork \in BOOLEAN  BY <2>1, Zenon
 <2> QED  BY <2>1, <2>2, <2>3, Zenon DEF HostShape
<1>7. Joins  BY DEF Init, Joins
<1>8. Offers
 <2>a. <<1, 2>> \in Seq(Nat)
   OBVIOUS
 <2>b. Len(<<1, 2>>) = 2 /\ <<1, 2>>[1] = 1 /\ <<1, 2>>[2] = 2
   OBVIOUS
 <2>1. PICK s \in Seq(Nat) : s = <<1, 2>> /\ Len(s) = 2 /\ s[1] = 1 /\ s[2] = 2
   BY <2>a, <2>b, Zenon
 <2>2. events = s /\ next = 0 /\ fromHost = 0 /\ serial = 2 /\ offered = 0  BY <2>1 DEF Init
 <2>3. \A i \in 1..2 : i = 1 \/ i = 2  OBVIOUS
 <2> QED  BY <2>1, <2>2, <2>3 DEF Offers
<1>9. FramesAscend  BY <1>1 DEF Init, FramesAscend, Ascending, Before
<1>10. AppLife  BY <1>1 DEF Init, AppLife, Threads, Fds, PipeFd, InputFd
<1>11. Armed  BY <1>1 DEF Init, Armed
<1>12. ~Past  BY DEF Init, Past
<1>13. LastCommand  BY <1>1, <1>12 DEF Init, LastCommand, Threads
<1>14. Ending  BY DEF Init, Ending
<1> QED  BY <1>2, <1>3, <1>4, <1>6, <1>7, <1>8, <1>9, <1>10, <1>11, <1>13, <1>14 DEF IInv, Shape

\* Every step keeps it.
LEMMA StepInvariant == IInv /\ [Next]_vars => IInv'
<1> SUFFICES ASSUME IInv, [Next]_vars PROVE IInv'  OBVIOUS
<1>1. /\ Shape /\ Joins /\ Offers /\ FramesAscend /\ AppLife /\ Armed /\ LastCommand
      /\ Ending /\ HostShape
  BY DEF IInv, Shape
<1>2. Joins' /\ Offers' /\ FramesAscend'  BY <1>1, JoinsStep, OffersStep, FramesStep
<1>3. Shape' /\ AppLife' /\ Armed'  BY <1>1, ShapeStep, AppLifeStep, ArmedStep
<1>4. LastCommand' /\ Ending'  BY <1>1, LastCommandStep, EndingStep
<1> QED  BY <1>2, <1>3, <1>4 DEF IInv

\* The inductive invariant holds in every reachable state of the scheduler.
THEOREM SchedulerInvariant == Spec => []IInv
BY InitInvariant, StepInvariant, PTL DEF Spec

\* Every variable of the scheduler has its type: the drain stays within
\* kMaxDrainRounds, no descriptor is registered twice in looper_regs_ and no
\* thread is twice in guest_threads.
THEOREM TypeCorrect == Spec => []TypeOK
<1>1. IInv => TypeOK
 <2> SUFFICES ASSUME IInv PROVE TypeOK  OBVIOUS
 <2>1. WindowShape /\ ThreadShape /\ LooperShape /\ HostShape /\ Offers  BY DEF IInv, Shape
 <2>2. \A i \in DOMAIN regs : regs[i].fd \in Fds
  <3>1. \A i \in DOMAIN regs : regs[i] \in Registrations  BY <2>1 DEF LooperShape
  <3> QED  BY <3>1 DEF Registrations
 <2>3. stage \in 1..Len(Script)  BY <2>1, ScriptValues DEF HostShape
 <2>4. cur.kind \in {"none", "main", "thread", "callback", "frame"}
   BY <2>1 DEF HostShape, ThreadCode, CallbackCode, FrameCode, Nobody, Guest
 <2>5. drain.rounds \in 0..MaxDrainRounds  BY <2>1 DEF HostShape, Drains
 <2>6. hpc \in {"call", "pending", "start", "resume", "callbacks", "frames", "pump",
                "loopFrames", "runFrames", "tick"}
   BY <2>1 DEF HostShape
 <2> QED  BY <2>1, <2>2, <2>3, <2>4, <2>5, <2>6
   DEF TypeOK, WindowShape, ThreadShape, LooperShape, HostShape, Offers
<1> QED  BY <1>1, SchedulerInvariant, PTL

\* No wakeup is lost: what a parked app thread has to read is armed in
\* looper_regs_, or its callback is on the way, whatever the order in which
\* write(), read(), finishEvent() and collect_host_input_events() run.
THEOREM NoWakeupLost == Spec => []NoLostWakeup
<1>1. IInv => NoLostWakeup
 <2> SUFFICES ASSUME IInv, gpc["app"] = "poll", NEW i \in DOMAIN regs,
                     Ready(regs[i].fd), regs[i].delivered
              PROVE  regs[i].callback /\ Queued(regs[i].fd)
   BY DEF NoLostWakeup, Queued
 <2>1. regs[i] \in Registrations  BY DEF IInv, Shape, LooperShape
 <2>2. regs[i].fd # "poll"  BY <2>1 DEF Registrations, Fds, PipeFd, InputFd
 <2> QED  BY <2>2 DEF IInv, Armed
<1> QED  BY <1>1, SchedulerInvariant, PTL

\* A thread that has ended leaves no joiner of pthread_join() without its value,
\* whether the join or complete_pthread_call() comes first.
THEOREM JoinersServed == Spec => []JoinDelivers
<1>1. IInv => JoinDelivers  BY DEF IInv, Shape, ThreadShape, Joins, JoinDelivers
<1> QED  BY <1>1, SchedulerInvariant, PTL

\* Input events are offered once and in order, across the clear of a used-up
\* queue in finishEvent(), and frame times ascend from one callback to the next.
THEOREM InputAndFramesInOrder == Spec => []DeliveredInOrder
<1>1. IInv => DeliveredInOrder  BY DEF IInv, Offers, FramesAscend, Ascending, DeliveredInOrder
<1> QED  BY <1>1, SchedulerInvariant, PTL

\* A guest that reads its pipe by ident has read the destroy command, and its
\* app thread has ended, when the activity is gone: one resume in the drain of
\* onDestroy is enough, for any budget of rounds and any callbacks.
THEOREM DestroyCommandSeen == Spec => []DestroySeen
<1>1. IInv => DestroySeen
 <2> SUFFICES ASSUME IInv, Script[stage] = "done", "destroy" \in defined, ByIdent
              PROVE  pipe = <<>> /\ gpc["app"] = "finished"
   BY DEF DestroySeen, ByIdent
 <2>1. stage = 15  BY ScriptValues DEF IInv, Shape, HostShape
 <2>2. gpc["app"] = "finished"  BY <2>1 DEF IInv, Ending
 <2> QED  BY <2>1, <2>2 DEF IInv, LastCommand, Past
<1> QED  BY <1>1, SchedulerInvariant, PTL

==============================================================================
