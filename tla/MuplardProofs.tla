---------------------------- MODULE MuplardProofs ----------------------------
(***************************************************************************)
(* Proofs about Muplard: every invariant that its runs check, for any      *)
(* number of clients, names and rewrites and any socket buffer.            *)
(*                                                                         *)
(* The inductive invariant comes in two layers.  Base is about the daemon: *)
(* types, the agreement of its vector of clients with the kernel's         *)
(* descriptors, the stage of each client program, the registry and the     *)
(* pending transactions.  Conversations adds what is on the way between    *)
(* the daemon and each kind of client: the order of a server's messages    *)
(* (ServersInOrder, Confirmed), the transaction that a message carries     *)
(* (Routed), the one place a caller's transaction is in (CallersInOrder),  *)
(* and the generations a watcher has been told (WatchersInOrder, Pushed).  *)
(* Every part has its own lemma that a step of Next keeps it.              *)
(*                                                                         *)
(* The settings file and the surfaces of the daemon are a state machine of *)
(* their own (MuplardState), at the end of the module.                     *)
(***************************************************************************)
EXTENDS Muplard, TLAPS, FiniteSetTheorems, SequenceTheorems

----
(* The inductive invariant.                                                *)

Ops == {"BinderTransact", "RegisterService", "SubscribePackages", "BinderReply",
        "Truncated", "BinderIncoming", "PackageChanged"}
Bodies == Conns \cup Nat \cup {"0", "1", DeadObject}
Messages == [op : Ops, id : Nat, name : Names \cup {NoName}, body : Bodies]
Payloads == Bodies \cup Names \cup {NoName} \cup Messages
Sending == [fd : Fds, msg : Messages]
Transactions == [txn : Nat \ {0}, caller : Fds, owner : Fds, id : Nat]
Steps == {"start", "connected", "waiting", "serving", "replying", "done"}

\* Types of the messages on the way.
Carried ==
  /\ up \in [Conns -> Seq(Messages)]
  /\ down \in [Conns -> Seq(Messages)]
  /\ outbox \in Seq(Sending)
  /\ got \in [Conns -> Seq(Payloads)]

\* Types of the rest of the state.
Shape ==
  /\ peer \in [Conns -> {"unused", "open", "closed"}]
  /\ step \in [Conns -> Steps]
  /\ backlog \in Seq(Conns) /\ clients \in Seq(Conns)
  /\ fdOf \in [Conns -> Fds \cup {NoFd}]
  /\ running \in BOOLEAN /\ phase \in {"poll", "clients"}
  /\ revents \in Seq({"none", "in", "hup"}) /\ Len(revents) <= Len(clients)
  /\ services \in [Names -> {Missing, Declared} \cup Fds]
  /\ owned \in [Conns -> SUBSET Names]
  /\ pending \subseteq Transactions /\ IsFiniteSet(pending)
  /\ nextTxn \in Nat \ {0}
  /\ subscribed \subseteq Conns
  /\ generation \in Nat \ {0} /\ generation <= prevStamp + 1
  /\ stamp \in 0..MaxStamp /\ prevStamp \in 0..stamp
  /\ \A c \in Conns : Len(up[c]) <= Capacity /\ Len(down[c]) <= Capacity

\* The daemon's vector of clients and the kernel's descriptors agree.
Accepted ==
  /\ \A i, j \in DOMAIN clients : clients[i] = clients[j] => i = j
  /\ \A i, j \in DOMAIN backlog : backlog[i] = backlog[j] => i = j
  /\ \A c \in Conns : fdOf[c] # NoFd <=> \E i \in DOMAIN clients : clients[i] = c
  /\ \A c, d \in Conns : fdOf[c] = fdOf[d] /\ fdOf[c] # NoFd => c = d
  /\ \A i \in DOMAIN backlog :
       fdOf[backlog[i]] = NoFd /\ peer[backlog[i]] # "unused"
  /\ \A c \in Conns : fdOf[c] # NoFd => peer[c] # "unused"

\* The daemon's memory is gone when it has ended; between two rounds it has
\* nothing left to look at.
Stopped ==
  /\ ~running => /\ clients = <<>> /\ backlog = <<>> /\ outbox = <<>>
                 /\ pending = {} /\ phase = "poll"
                 /\ \A c \in Conns : up[c] = <<>>
  /\ phase = "poll" => revents = <<>>

Connected == Accepted /\ Stopped

\* What a message on its way to the daemon can be.
Asked(c, m) ==
  \/ m.op = "Truncated" /\ peer[c] = "closed"
  \/ /\ m.op = "BinderTransact" /\ c \in Callers
     /\ m.id = 1 /\ m.name \in Names /\ m.body = c
  \/ m.op = "RegisterService" /\ c \in Servers /\ m.name \in Names
  \/ m.op = "BinderReply" /\ c \in Servers
  \/ m.op = "SubscribePackages" /\ c \in Watchers

\* A client program and the connection it holds.
PeerOK(c) ==
  /\ step[c] = "start" <=> peer[c] = "unused"
  /\ step[c] = "done" <=> peer[c] = "closed"
  /\ peer[c] # "open" => down[c] = <<>>
  /\ running /\ fdOf[c] = NoFd => down[c] = <<>>
  /\ step[c] \in {"start", "connected"} => up[c] = <<>>
  /\ step[c] \in {"serving", "replying"} => c \in Servers /\ got[c] # <<>>
  /\ running /\ step[c] \in {"serving", "replying"} => fdOf[c] # NoFd
  /\ step[c] = "replying" => Len(got[c]) = 2 /\ got[c][2] \in Messages
  /\ c \notin Servers => Len(up[c]) <= 1
  /\ \A i \in DOMAIN up[c] : Asked(c, up[c][i])

HangupsAreClosed ==
  \A i \in DOMAIN revents : revents[i] = "hup" => peer[clients[i]] = "closed"

Peers == HangupsAreClosed /\ \A c \in Conns : PeerOK(c)

\* The registry and the pending transactions name live connections.
Registered ==
  /\ \A c \in Conns : owned[c] # {} => c \in Servers /\ fdOf[c] # NoFd
  /\ running => \A n \in Names : services[n] \in Fds =>
       \E s \in Servers : fdOf[s] = services[n] /\ n \in owned[s]
  /\ \A p \in pending :
       /\ p.txn < nextTxn /\ p.id = 1
       /\ \E c \in Callers : fdOf[c] = p.caller
       /\ \E s \in Servers : fdOf[s] = p.owner /\ owned[s] # {}
  /\ \A p, q \in pending : p.txn = q.txn => p = q
  /\ \A w \in subscribed : w \in Watchers /\ fdOf[w] # NoFd

\* What is sent to a client fits its program; a forward is sent alone.
Addressed ==
  /\ \A i \in DOMAIN outbox :
       \A c \in Conns : fdOf[c] = outbox[i].fd =>
         /\ c \in Callers => outbox[i].msg.op = "BinderTransact"
         /\ c \in Servers => outbox[i].msg.op \in {"RegisterService", "BinderIncoming"}
         /\ c \in Watchers => outbox[i].msg.op \in {"SubscribePackages", "PackageChanged"}
  /\ \A i \in DOMAIN outbox :
       outbox[i].msg.op = "BinderIncoming" => Len(outbox) = 1

NoneFor(c) == \A i \in DOMAIN outbox : outbox[i].fd # fdOf[c]
OneFor(c) ==
  \E i \in DOMAIN outbox :
    /\ outbox[i].fd = fdOf[c]
    /\ \A j \in DOMAIN outbox : outbox[j].fd = fdOf[c] => j = i
OnlyForwards(c) ==
  \A i \in DOMAIN outbox :
    outbox[i].fd = fdOf[c] => outbox[i].msg.op = "BinderIncoming"

\* A server's registration is asked for, acknowledged, received; forwards
\* come after the acknowledgement.
ServerStage(s) ==
  \/ /\ step[s] = "connected" /\ down[s] = <<>> /\ NoneFor(s) /\ owned[s] = {}
  \/ /\ step[s] = "waiting" /\ down[s] = <<>> /\ NoneFor(s) /\ owned[s] = {}
     /\ Len(up[s]) = 1 /\ up[s][1].op = "RegisterService"
  \/ /\ step[s] = "waiting" /\ up[s] = <<>> /\ down[s] = <<>>
     /\ Len(outbox) = 1 /\ outbox[1].fd = fdOf[s]
     /\ outbox[1].msg.op = "RegisterService"
  \/ /\ step[s] = "waiting" /\ up[s] = <<>> /\ down[s] # <<>>
     /\ down[s][1].op = "RegisterService" /\ OnlyForwards(s)
     /\ \A i \in DOMAIN down[s] : i # 1 => down[s][i].op = "BinderIncoming"
  \/ /\ step[s] \in {"serving", "replying"} /\ OnlyForwards(s)
     /\ \A i \in DOMAIN up[s] : up[s][i].op = "BinderReply"
     /\ \A i \in DOMAIN down[s] : down[s][i].op = "BinderIncoming"

ServersInOrder ==
  running => \A s \in Servers : peer[s] = "open" => ServerStage(s)

Confirms(m, s) ==
  m.op = "RegisterService" /\ m.body = "1"
    => m.name \in Names /\ services[m.name] = fdOf[s]

\* A confirmed name is in the registry for as long as the connection is.
Confirmed ==
  running =>
    \A s \in Servers : fdOf[s] # NoFd =>
      /\ \A i \in DOMAIN outbox :
           outbox[i].fd = fdOf[s] => Confirms(outbox[i].msg, s)
      /\ \A i \in DOMAIN down[s] : Confirms(down[s][i], s)
      /\ step[s] \in {"serving", "replying"} =>
           /\ got[s][1] \in Names
           /\ services[got[s][1]] = fdOf[s]

\* A forwarded request and the reply to it carry the caller of the
\* transaction they name.
Carries(m) ==
  /\ m.id < nextTxn
  /\ \A p \in pending : p.txn = m.id =>
       m.body \in Callers /\ fdOf[m.body] = p.caller

RoutedOut ==
  \A i \in DOMAIN outbox :
    /\ outbox[i].msg.op = "BinderIncoming" => Carries(outbox[i].msg)
    /\ outbox[i].msg.op = "BinderTransact" =>
         \/ outbox[i].msg.body = DeadObject
         \/ /\ outbox[i].msg.body \in Callers
            /\ fdOf[outbox[i].msg.body] = outbox[i].fd

RoutedServers ==
  running =>
    \A s \in Servers :
      /\ \A i \in DOMAIN down[s] :
           down[s][i].op = "BinderIncoming" => Carries(down[s][i])
      /\ \A i \in DOMAIN up[s] :
           up[s][i].op = "BinderReply" => Carries(up[s][i])
      /\ step[s] = "replying" => Carries(got[s][2])

RoutedCallers ==
  \A c \in Callers :
    /\ \A i \in DOMAIN down[c] : down[c][i].body \in {c, DeadObject}
    /\ \A i \in DOMAIN got[c] : got[c][i] \in {c, DeadObject}

Routed == RoutedOut /\ RoutedServers /\ RoutedCallers

NoPending(c) == \A p \in pending : p.caller # fdOf[c]
OnePending(c) ==
  \E p \in pending :
    p.caller = fdOf[c] /\ \A q \in pending : q.caller = fdOf[c] => q = p

\* A caller's transaction is in one place.
CallerStage(c) ==
  \/ /\ step[c] = "connected"
     /\ NoPending(c) /\ NoneFor(c) /\ down[c] = <<>>
  \/ /\ step[c] = "waiting" /\ Len(up[c]) = 1 /\ up[c][1].op = "BinderTransact"
     /\ NoPending(c) /\ NoneFor(c) /\ down[c] = <<>>
  \/ /\ step[c] = "waiting" /\ up[c] = <<>> /\ fdOf[c] # NoFd
     /\ \/ OnePending(c) /\ NoneFor(c) /\ down[c] = <<>>
        \/ NoPending(c) /\ OneFor(c) /\ down[c] = <<>>
        \/ NoPending(c) /\ NoneFor(c) /\ Len(down[c]) = 1

CallersInOrder ==
  running => \A c \in Callers : peer[c] = "open" => CallerStage(c)

\* The callers whose request the daemon has taken, or will never see.
Spent ==
  {c \in Callers : /\ step[c] \in {"waiting", "done"}
                   /\ \A i \in DOMAIN up[c] : up[c][i].op # "BinderTransact"}
Counted == nextTxn - 1 <= Cardinality(Spent)

\* The last generation on its way to a watcher, or received by it.
Newest(w) == IF down[w] # <<>> THEN down[w][Len(down[w])].body
                               ELSE got[w][Len(got[w])]
Told(w) == down[w] # <<>> \/ got[w] # <<>>

\* A watcher has been told of everything up to the current generation, or the
\* daemon is about to tell it that one.
WatcherStage(w) ==
  \/ /\ step[w] = "connected"
     /\ w \notin subscribed /\ ~Told(w) /\ NoneFor(w)
  \/ /\ step[w] = "waiting" /\ Len(up[w]) = 1
     /\ w \notin subscribed /\ ~Told(w) /\ NoneFor(w)
  \/ /\ step[w] = "waiting" /\ up[w] = <<>> /\ w \in subscribed
     /\ \/ Told(w) /\ Newest(w) = generation /\ NoneFor(w)
        \/ /\ Told(w) => Newest(w) = generation - 1
           /\ OneFor(w)

\* What a watcher has received and what is on its way to it count up by one.
Stream(w) ==
  /\ \A i \in DOMAIN got[w] : got[w][i] \in Nat
  /\ \A i \in DOMAIN got[w] : i # 1 => got[w][i] = got[w][i - 1] + 1
  /\ \A i \in DOMAIN down[w] : down[w][i].body \in Nat
  /\ \A i \in DOMAIN down[w] :
       i # 1 => down[w][i].body = down[w][i - 1].body + 1
  /\ got[w] # <<>> /\ down[w] # <<>>
       => down[w][1].body = got[w][Len(got[w])] + 1
  /\ step[w] = "start" => got[w] = <<>>

Streams == \A w \in Watchers : Stream(w)
WatchersInOrder ==
  running => \A w \in Watchers : peer[w] = "open" => WatcherStage(w)
Pushed ==
  \A w \in Watchers : \A i \in DOMAIN outbox :
    outbox[i].fd = fdOf[w] => outbox[i].msg.body = generation

----
(* Lemmas about the operators of the model.                                *)

\* Descriptors are positive, so they differ from NoFd, Missing and Declared.
LEMMA FdsArePositive ==
  /\ IsFiniteSet(Conns) /\ Cardinality(Conns) \in Nat
  /\ \A fd \in Fds : fd \in Nat /\ fd > 0
  /\ NoFd \notin Fds /\ Missing \notin Fds /\ Declared \notin Fds
<1>1. IsFiniteSet(Callers \cup Servers)  BY FS_Union, MuplardAssumption
<1>2. IsFiniteSet(Conns)  BY <1>1, FS_Union, MuplardAssumption DEF Conns
<1>3. Cardinality(Conns) \in Nat  BY <1>2, FS_CardinalityType
<1> QED  BY <1>2, <1>3 DEF Fds, NoFd, Missing, Declared

\* Each client runs one program.
LEMMA OneProgram ==
  /\ \A c \in Conns : c \in Callers \/ c \in Servers \/ c \in Watchers
  /\ \A c \in Callers : c \in Conns /\ c \notin Servers /\ c \notin Watchers
  /\ \A c \in Servers : c \in Conns /\ c \notin Callers /\ c \notin Watchers
  /\ \A c \in Watchers : c \in Conns /\ c \notin Callers /\ c \notin Servers
BY MuplardAssumption DEF Conns

\* A sequence of SetToSeqs(S) lists every element of S once.
LEMMA Enumeration ==
  ASSUME NEW S, IsFiniteSet(S), NEW q \in SetToSeqs(S)
  PROVE  /\ Cardinality(S) \in Nat
         /\ q \in Seq(S) /\ Len(q) = Cardinality(S)
         /\ DOMAIN q = 1..Cardinality(S)
         /\ \A i \in DOMAIN q : q[i] \in S
         /\ \A i, j \in DOMAIN q : q[i] = q[j] => i = j
         /\ \A x \in S : \E i \in DOMAIN q : q[i] = x
<1> DEFINE N == Cardinality(S)
<1>1. N \in Nat  BY FS_CardinalityType
<1>2. q \in [1..N -> S] /\ \A i, j \in 1..N : i # j => q[i] # q[j]  BY DEF SetToSeqs
<1>3. q \in Injection(1..N, S)  BY <1>2 DEF Injection, IsInjective
<1>4. Cardinality(1..N) = N  BY <1>1, FS_Interval
<1>5. q \in Surjection(1..N, S)  BY <1>3, <1>4, FS_Injection
<1>6. \A x \in S : \E i \in 1..N : q[i] = x  BY <1>5 DEF Surjection
<1>7. q \in Seq(S) /\ Len(q) = N  BY <1>1, <1>2
<1> QED  BY <1>1, <1>2, <1>6, <1>7

\* RemoveAt leaves out one place and keeps the rest in order.
LEMMA RemoveAtProperties ==
  ASSUME NEW S, NEW s \in Seq(S), NEW i \in DOMAIN s
  PROVE  /\ RemoveAt(s, i) \in Seq(S)
         /\ Len(RemoveAt(s, i)) = Len(s) - 1
         /\ \A k \in 1..(Len(s) - 1) :
              RemoveAt(s, i)[k] = IF k < i THEN s[k] ELSE s[k + 1]
<1> DEFINE a == SubSeq(s, 1, i - 1)
           b == SubSeq(s, i + 1, Len(s))
           r == a \o b
<1>1. i \in 1..Len(s) /\ Len(s) \in Nat  OBVIOUS
<1>2. a \in Seq(S) /\ Len(a) = i - 1 /\ \A k \in 1..(i - 1) : a[k] = s[k]
  BY <1>1, SubSeqProperties
<1>3. b \in Seq(S) /\ Len(b) = Len(s) - i
      /\ \A k \in 1..(Len(s) - i) : b[k] = s[i + k]
  BY <1>1, SubSeqProperties
<1>4. RemoveAt(s, i) = r  BY DEF RemoveAt
<1> HIDE DEF a, b
<1>5. /\ r \in Seq(S) /\ Len(r) = Len(a) + Len(b)
      /\ \A k \in 1..(Len(a) + Len(b)) :
           r[k] = IF k <= Len(a) THEN a[k] ELSE b[k - Len(a)]
  BY <1>2, <1>3, ConcatProperties
<1> HIDE DEF r
<1>6. ASSUME NEW k \in 1..(Len(s) - 1)
      PROVE  r[k] = IF k < i THEN s[k] ELSE s[k + 1]
 <2>0. k \in Nat /\ i \in Nat  BY <1>1
 <2>1. CASE k < i
  <3>1. k \in 1..(Len(a) + Len(b)) /\ k <= Len(a) /\ k \in 1..(i - 1)  BY <1>1, <1>2, <1>3, <2>1
  <3> QED  BY <1>2, <1>5, <2>1, <3>1
 <2>2. CASE k >= i
  <3>1. k \in 1..(Len(a) + Len(b)) /\ ~(k <= Len(a))  BY <1>1, <1>2, <1>3, <2>2
  <3>2. r[k] = b[k - (i - 1)]  BY <1>2, <1>5, <3>1
  <3>3. k - (i - 1) \in 1..(Len(s) - i) /\ i + (k - (i - 1)) = k + 1  BY <1>1, <2>2
  <3> QED  BY <1>3, <2>0, <2>2, <3>2, <3>3
 <2> QED  BY <2>0, <2>1, <2>2
<1> QED  BY <1>1, <1>2, <1>3, <1>4, <1>5, <1>6

\* Tells queues one answer for each transaction of ps.
LEMMA TellsProperties ==
  ASSUME NEW ps \in SUBSET Transactions, IsFiniteSet(ps), NEW body \in Bodies,
         Tells(ps, body)
  PROVE  /\ outbox' \in Seq(Sending)
         /\ \A i \in DOMAIN outbox' :
              \E p \in ps : outbox'[i] = Answer(p.caller, p.id, body)
         /\ \A p \in ps : \E i \in DOMAIN outbox' :
              outbox'[i] = Answer(p.caller, p.id, body)
         /\ \A p \in ps : (\A q \in ps : q.caller = p.caller => q = p) =>
              \E i \in DOMAIN outbox' :
                /\ outbox'[i].fd = p.caller
                /\ \A j \in DOMAIN outbox' : outbox'[j].fd = p.caller => j = i
<1>1. PICK q \in SetToSeqs(ps) :
             outbox' = [i \in DOMAIN q |-> Answer(q[i].caller, q[i].id, body)]
  BY DEF Tells
<1> DEFINE N == Cardinality(ps)
<1>2. /\ N \in Nat /\ DOMAIN q = 1..N
      /\ \A i \in DOMAIN q : q[i] \in ps
      /\ \A i, j \in DOMAIN q : q[i] = q[j] => i = j
      /\ \A x \in ps : \E i \in DOMAIN q : q[i] = x
  BY Enumeration
<1>3. \A p \in ps : Answer(p.caller, p.id, body) \in Sending
  BY DEF Answer, To, Msg, Sending, Messages, Transactions, Ops
<1>4. \A p \in ps : Answer(p.caller, p.id, body).fd = p.caller  BY DEF Answer, To
<1>5. /\ DOMAIN outbox' = 1..N
      /\ \A i \in 1..N : outbox'[i] = Answer(q[i].caller, q[i].id, body)
  BY <1>1, <1>2
<1> HIDE DEF N
<1>6. outbox' \in [1..N -> Sending]  BY <1>1, <1>2, <1>3
<1>7. outbox' \in Seq(Sending)  BY <1>2, <1>6
<1>8. ASSUME NEW p \in ps, \A r \in ps : r.caller = p.caller => r = p
      PROVE  \E i \in DOMAIN outbox' :
               /\ outbox'[i].fd = p.caller
               /\ \A j \in DOMAIN outbox' : outbox'[j].fd = p.caller => j = i
 <2>1. PICK i \in 1..N : q[i] = p  BY <1>2
 <2>2. \A j \in 1..N : outbox'[j].fd = q[j].caller  BY <1>2, <1>4, <1>5
 <2>3. \A j \in 1..N : q[j].caller = p.caller => j = i  BY <1>2, <1>8, <2>1
 <2> QED  BY <1>5, <2>1, <2>2, <2>3
<1> QED  BY <1>2, <1>5, <1>7, <1>8

\* Broadcast queues one push for each subscriber.
LEMMA BroadcastProperties ==
  ASSUME NEW g \in Nat, Broadcast(g), subscribed \subseteq Conns,
         \A w \in subscribed : fdOf[w] \in Fds,
         \A c, d \in Conns : fdOf[c] = fdOf[d] /\ fdOf[c] # NoFd => c = d
  PROVE  /\ outbox' \in Seq(Sending)
         /\ \A i \in DOMAIN outbox' :
              \E w \in subscribed : outbox'[i] = Push(w, g)
         /\ \A w \in subscribed : \E i \in DOMAIN outbox' :
              /\ outbox'[i] = Push(w, g)
              /\ \A j \in DOMAIN outbox' : outbox'[j].fd = fdOf[w] => j = i
<1>1. PICK q \in SetToSeqs(subscribed) :
             outbox' = [i \in DOMAIN q |-> Push(q[i], g)]
  BY DEF Broadcast
<1> DEFINE N == Cardinality(subscribed)
<1>2. /\ N \in Nat /\ DOMAIN q = 1..N
      /\ \A i \in DOMAIN q : q[i] \in subscribed
      /\ \A i, j \in DOMAIN q : q[i] = q[j] => i = j
      /\ \A x \in subscribed : \E i \in DOMAIN q : q[i] = x
  BY Enumeration, FS_Subset, FdsArePositive
<1>3. \A w \in subscribed : Push(w, g) \in Sending /\ Push(w, g).fd = fdOf[w]
  BY DEF Push, To, Msg, Sending, Messages, Ops, Bodies
<1>4. /\ DOMAIN outbox' = 1..N
      /\ \A i \in 1..N : outbox'[i] = Push(q[i], g)
  BY <1>1, <1>2
<1> HIDE DEF N
<1>5. outbox' \in [1..N -> Sending]  BY <1>1, <1>2, <1>3
<1>6. outbox' \in Seq(Sending)  BY <1>2, <1>5
<1>7. ASSUME NEW w \in subscribed
      PROVE  \E i \in DOMAIN outbox' :
               /\ outbox'[i] = Push(w, g)
               /\ \A j \in DOMAIN outbox' : outbox'[j].fd = fdOf[w] => j = i
 <2>1. PICK i \in 1..N : q[i] = w  BY <1>2
 <2>2. \A j \in 1..N : outbox'[j].fd = fdOf[q[j]]  BY <1>2, <1>3, <1>4
 <2>3. \A j \in 1..N : fdOf[q[j]] = fdOf[w] => q[j] = w  BY <1>2, FdsArePositive
 <2> QED  BY <1>2, <1>4, <2>1, <2>2, <2>3
<1> QED  BY <1>2, <1>4, <1>6, <1>7

----
(* Facts about the handlers.                                               *)

Vector == {"none", "in", "hup"}

\* A handler runs for a client the daemon holds, and shortens the round.
LEMMA AtClientProperties ==
  ASSUME Shape, Connected, Peers, NEW c \in Conns, NEW e \in {"in", "hup"},
         AtClient(c, e)
  PROVE  /\ running /\ phase = "clients" /\ outbox = <<>>
         /\ fdOf[c] \in Fds
         /\ revents' \in Seq(Vector)
         /\ \E k \in DOMAIN clients : clients[k] = c /\ Len(revents') = k - 1
         /\ Len(revents') <= Len(clients)
         /\ \A i \in DOMAIN revents' :
              i \in DOMAIN revents /\ revents'[i] = revents[i]
         /\ e = "hup" => peer[c] = "closed"
<1>1. PICK k \in DOMAIN revents : /\ clients[k] = c /\ revents[k] = e
                                  /\ revents' = SubSeq(revents, 1, k - 1)
  BY DEF AtClient
<1>2. /\ phase = "clients" /\ outbox = <<>>
      /\ revents \in Seq(Vector) /\ clients \in Seq(Conns)
      /\ Len(revents) <= Len(clients)
  BY DEF AtClient, Shape, Vector
<1>3. running
 <2>1. ~running => phase = "poll"  BY Zenon DEF Connected, Stopped
 <2> QED  BY <1>2, <2>1
<1>4. k \in 1..Len(revents) /\ Len(revents) \in Nat /\ Len(clients) \in Nat
      /\ DOMAIN clients = 1..Len(clients) /\ k \in DOMAIN clients
  BY <1>2
<1>5. fdOf[c] # NoFd  BY <1>1, <1>4, Zenon DEF Connected, Accepted
<1>6. fdOf[c] \in Fds  BY <1>5 DEF Shape
<1>7. \A i \in 1..(k - 1) : revents[i] \in Vector  BY <1>2, <1>4
<1>8. /\ revents' \in Seq(Vector) /\ Len(revents') = k - 1
      /\ \A i \in 1..(k - 1) : revents'[i] = revents[i]
  BY <1>1, <1>4, <1>7, SubSeqProperties
<1>9. DOMAIN revents' = 1..(k - 1) /\ DOMAIN revents = 1..Len(revents)  BY <1>2, <1>8
<1>10. e = "hup" => peer[c] = "closed"  BY <1>1, Zenon DEF Peers, HangupsAreClosed
<1> QED  BY <1>1, <1>2, <1>3, <1>4, <1>6, <1>8, <1>9, <1>10

\* Removing a client keeps the others and the part of the vector that the
\* round has still to look at.
LEMMA RemovedProperties ==
  ASSUME Shape, Connected, Peers, NEW c \in Conns, NEW e \in {"in", "hup"},
         AtClient(c, e), Removed(c)
  PROVE  /\ clients' \in Seq(Conns)
         /\ Len(revents') <= Len(clients')
         /\ \A i \in DOMAIN revents' :
              i \in DOMAIN clients' /\ clients'[i] = clients[i]
         /\ \A i, j \in DOMAIN clients' : clients'[i] = clients'[j] => i = j
         /\ \A d \in Conns : (\E i \in DOMAIN clients' : clients'[i] = d)
              <=> d # c /\ \E i \in DOMAIN clients : clients[i] = d
<1>1. PICK k \in DOMAIN clients : clients[k] = c /\ Len(revents') = k - 1  BY AtClientProperties
<1>2. PICK l \in DOMAIN clients : clients[l] = c /\ clients' = RemoveAt(clients, l)
  BY DEF Removed
<1>3. k = l  BY <1>1, <1>2 DEF Connected, Accepted
<1> DEFINE N == Len(clients)
<1>4. /\ clients \in Seq(Conns) /\ N \in Nat /\ k \in 1..N
      /\ DOMAIN clients = 1..N
  BY <1>1 DEF Shape
<1>5. /\ clients' \in Seq(Conns) /\ Len(clients') = N - 1
      /\ \A i \in 1..(N - 1) :
           clients'[i] = IF i < k THEN clients[i] ELSE clients[i + 1]
  BY <1>2, <1>3, <1>4, RemoveAtProperties
<1>6. DOMAIN clients' = 1..(N - 1) /\ revents' \in Seq(Vector)  BY <1>5, AtClientProperties
<1>7. \A i, j \in 1..N : clients[i] = clients[j] => i = j  BY <1>4 DEF Connected, Accepted
<1> HIDE DEF N
<1>8. \A i, j \in 1..(N - 1) : clients'[i] = clients'[j] => i = j  BY <1>4, <1>5, <1>7
<1>9. ASSUME NEW d \in Conns
      PROVE  (\E i \in 1..(N - 1) : clients'[i] = d)
               <=> d # c /\ \E i \in 1..N : clients[i] = d
 <2>1. ASSUME NEW i \in 1..(N - 1), clients'[i] = d
       PROVE  d # c /\ \E j \in 1..N : clients[j] = d
  <3>1. CASE i < k
   <4>1. i \in 1..N /\ i # k  BY <1>4, <3>1
   <4>2. clients[i] = d  BY <1>5, <2>1, <3>1
   <4>3. d # c  BY <1>1, <1>4, <1>7, <4>1, <4>2
   <4> QED  BY <4>1, <4>2, <4>3
  <3>2. CASE ~(i < k)
   <4>1. i + 1 \in 1..N /\ i + 1 # k  BY <1>4, <3>2
   <4> QED  BY <1>1, <1>4, <1>5, <1>7, <2>1, <3>2, <4>1
  <3> QED  BY <3>1, <3>2
 <2>2. ASSUME NEW j \in 1..N, clients[j] = d, d # c
       PROVE  \E i \in 1..(N - 1) : clients'[i] = d
  <3>1. CASE j < k  BY <1>4, <1>5, <2>2, <3>1
  <3>2. CASE ~(j < k)
   <4>1. j # k  BY <1>1, <2>2
   <4>2. j - 1 \in 1..(N - 1) /\ ~(j - 1 < k) /\ (j - 1) + 1 = j  BY <1>4, <3>2, <4>1
   <4> QED  BY <1>5, <2>2, <4>2
  <3> QED  BY <3>1, <3>2
 <2> QED  BY <2>1, <2>2
<1>10. \A i \in 1..(k - 1) : i \in 1..(N - 1) /\ clients'[i] = clients[i]  BY <1>4, <1>5
<1>11. DOMAIN revents' = 1..(k - 1) /\ Len(revents') <= Len(clients')  BY <1>1, <1>4, <1>5, <1>6
<1> QED  BY <1>4, <1>5, <1>6, <1>8, <1>9, <1>10, <1>11

\* The first element of a sequence and the rest.
LEMMA HeadAndTail ==
  ASSUME NEW S, NEW s \in Seq(S), s # <<>>
  PROVE  /\ Len(s) \in Nat /\ Len(s) > 0 /\ DOMAIN s = 1..Len(s)
         /\ Head(s) \in S /\ Head(s) = s[1] /\ 1 \in DOMAIN s
         /\ Tail(s) \in Seq(S) /\ Len(Tail(s)) = Len(s) - 1
         /\ DOMAIN Tail(s) = 1..(Len(s) - 1)
         /\ \A i \in DOMAIN Tail(s) : i + 1 \in DOMAIN s /\ Tail(s)[i] = s[i + 1]
OBVIOUS

\* A sequence with an element added at its end.
LEMMA Appended ==
  ASSUME NEW S, NEW s \in Seq(S), NEW x \in S
  PROVE  /\ Len(s) \in Nat /\ DOMAIN s = 1..Len(s)
         /\ Append(s, x) \in Seq(S) /\ Len(Append(s, x)) = Len(s) + 1
         /\ DOMAIN Append(s, x) = 1..(Len(s) + 1)
         /\ \A i \in DOMAIN s : Append(s, x)[i] = s[i]
         /\ Append(s, x)[Len(s) + 1] = x
OBVIOUS

\* The sequence of one element.
LEMMA Alone ==
  ASSUME NEW S, NEW x \in S
  PROVE  /\ <<x>> \in Seq(S) /\ Len(<<x>>) = 1 /\ DOMAIN <<x>> = {1}
         /\ <<x>>[1] = x
OBVIOUS

\* A function on 1..n is a sequence.
LEMMA Tabulated ==
  ASSUME NEW S, NEW n \in Nat, NEW f \in [1..n -> S]
  PROVE  f \in Seq(S) /\ Len(f) = n
OBVIOUS

\* The message the daemon takes from a client, and what it leaves.
LEMMA ReceivedProperties ==
  ASSUME Carried, Peers, NEW c \in Conns, up[c] # <<>>, Received(c)
  PROVE  /\ Head(up[c]) \in Messages /\ Asked(c, Head(up[c]))
         /\ Head(up[c]) = up[c][1] /\ 1 \in DOMAIN up[c]
         /\ up' \in [Conns -> Seq(Messages)]
         /\ up'[c] = Tail(up[c]) /\ \A d \in Conns : d # c => up'[d] = up[d]
         /\ Len(up'[c]) = Len(up[c]) - 1 /\ Len(up[c]) \in Nat
         /\ \A i \in DOMAIN up'[c] :
              i + 1 \in DOMAIN up[c] /\ up'[c][i] = up[c][i + 1]
<1>1. up \in [Conns -> Seq(Messages)] /\ up[c] \in Seq(Messages)  BY DEF Carried
<1>2. up' = [up EXCEPT ![c] = Tail(up[c])]  BY DEF Received
<1>3. /\ Head(up[c]) \in Messages /\ Head(up[c]) = up[c][1]
      /\ 1 \in DOMAIN up[c] /\ Tail(up[c]) \in Seq(Messages)
      /\ Len(Tail(up[c])) = Len(up[c]) - 1 /\ Len(up[c]) \in Nat
      /\ \A i \in DOMAIN Tail(up[c]) :
           i + 1 \in DOMAIN up[c] /\ Tail(up[c])[i] = up[c][i + 1]
  BY <1>1, HeadAndTail
<1>4. Asked(c, up[c][1])  BY <1>3 DEF Peers, PeerOK
<1>5. /\ up' \in [Conns -> Seq(Messages)]
      /\ up'[c] = Tail(up[c]) /\ \A d \in Conns : d # c => up'[d] = up[d]
  BY <1>1, <1>2, <1>3
<1> QED  BY <1>3, <1>4, <1>5

----
(* Types of the messages.                                                  *)

\* Nothing has been sent at first.
LEMMA CarriedInit == Init => Carried
<1> SUFFICES ASSUME Init PROVE Carried  OBVIOUS
<1>1. \A S : <<>> \in Seq(S)  OBVIOUS
<1> QED  BY <1>1 DEF Init, Carried

\* Every send of the daemon and of a client is a message, and every receive
\* takes one.
LEMMA CarriedStep ==
  ASSUME Shape, Carried, Connected, Peers, Registered, [Next]_vars
  PROVE  Carried'
<1> USE DEF Carried
<1>0. \A S : <<>> \in Seq(S)  OBVIOUS
<1>1. CASE UNCHANGED <<up, down, outbox, got>>  BY <1>1
<1>2. CASE Poll  BY <1>2 DEF Poll
<1>3. ASSUME NEW c \in Conns, up[c] # <<>>, NEW m, m = Head(up[c]),
             HandleRegister(c, m)
      PROVE  Carried'
 <2>1. Received(c) /\ fdOf[c] \in Fds /\ m \in Messages /\ Asked(c, m)
   BY <1>3, ReceivedProperties, AtClientProperties DEF HandleRegister, Received
 <2>2. up' \in [Conns -> Seq(Messages)]  BY <1>3, <2>1, ReceivedProperties
 <2>3. \A b \in {"0", "1"} : To(fdOf[c], Msg(m.op, m.id, m.name, b)) \in Sending
   BY <2>1 DEF To, Msg, Sending, Messages, Bodies
 <2>4. outbox' \in Seq(Sending)
  <3>1. \E b \in {"0", "1"} : outbox' = <<To(fdOf[c], Msg(m.op, m.id, m.name, b))>>
    BY <1>3 DEF HandleRegister
  <3> QED  BY <2>3, <3>1, Alone
 <2> QED  BY <1>3, <2>2, <2>4 DEF HandleRegister
<1>4. ASSUME NEW c \in Conns, up[c] # <<>>, NEW m, m = Head(up[c]),
             HandleSubscribe(c, m)
      PROVE  Carried'
 <2>1. Received(c) /\ fdOf[c] \in Fds /\ m \in Messages
   BY <1>4, ReceivedProperties, AtClientProperties DEF HandleSubscribe, Received
 <2>2. up' \in [Conns -> Seq(Messages)]  BY <1>4, <2>1, ReceivedProperties
 <2>3. To(fdOf[c], Msg(m.op, m.id, NoName, generation)) \in Sending
   BY <2>1 DEF To, Msg, Sending, Messages, Bodies, Shape
 <2>4. outbox' \in Seq(Sending)  BY <1>4, <2>3, Alone DEF HandleSubscribe
 <2> QED  BY <1>4, <2>2, <2>4 DEF HandleSubscribe
<1>5. ASSUME NEW c \in Conns, up[c] # <<>>, NEW m, m = Head(up[c]),
             HandleTransact(c, m)
      PROVE  Carried'
 <2>1. Received(c) /\ fdOf[c] \in Fds /\ m \in Messages /\ Asked(c, m)
   BY <1>5, ReceivedProperties, AtClientProperties DEF HandleTransact, Received
 <2>2. up' \in [Conns -> Seq(Messages)]  BY <1>5, <2>1, ReceivedProperties
 <2>3. m.op = "BinderTransact" /\ m.name \in Names  BY <1>5, <2>1 DEF HandleTransact, Asked
 <2>4. Answer(fdOf[c], m.id, DeadObject) \in Sending
   BY <2>1 DEF Answer, To, Msg, Sending, Messages, Bodies, Ops
 <2>5. ASSUME services[m.name] \in Fds
       PROVE  To(services[m.name], Msg("BinderIncoming", nextTxn, m.name, m.body))
                \in Sending
   BY <2>1, <2>5 DEF To, Msg, Sending, Messages, Bodies, Shape, Ops
 <2>6. services[m.name] \in {Missing, Declared} \cup Fds  BY <2>3 DEF Shape
 <2>7. outbox' \in Seq(Sending)
  <3>1. CASE services[m.name] \in {Missing, Declared}
    BY <1>5, <2>4, <3>1, Alone DEF HandleTransact
  <3>2. CASE services[m.name] \notin {Missing, Declared}
   <4>1. outbox' = <<To(services[m.name],
                         Msg("BinderIncoming", nextTxn, m.name, m.body))>>
     BY <1>5, <3>2 DEF HandleTransact
   <4> QED  BY <2>5, <2>6, <3>2, <4>1, Alone
  <3> QED  BY <3>1, <3>2
 <2> QED  BY <1>5, <2>2, <2>7 DEF HandleTransact
<1>6. ASSUME NEW c \in Conns, up[c] # <<>>, NEW m, m = Head(up[c]),
             HandleReply(c, m)
      PROVE  Carried'
 <2>1. Received(c) /\ m \in Messages  BY <1>6, ReceivedProperties DEF HandleReply
 <2>2. up' \in [Conns -> Seq(Messages)]  BY <1>6, <2>1, ReceivedProperties
 <2> DEFINE mine == {p \in pending : p.txn = m.id /\ p.owner = fdOf[c]}
 <2>3. mine \in SUBSET Transactions /\ IsFiniteSet(mine)  BY FS_Subset DEF Shape
 <2>4. Tells(mine, m.body) /\ m.body \in Bodies  BY <1>6, <2>1 DEF HandleReply, Messages
 <2>5. outbox' \in Seq(Sending)  BY <2>3, <2>4, TellsProperties
 <2> QED  BY <1>6, <2>2, <2>5 DEF HandleReply
<1>7. ASSUME NEW c \in Conns, Removed(c)
      PROVE  Carried'
 <2>1. Orphans(fdOf[c]) \in SUBSET Transactions /\ IsFiniteSet(Orphans(fdOf[c]))
   BY FS_Subset DEF Shape, Orphans
 <2>2. outbox' \in Seq(Sending)  BY <1>7, <2>1, TellsProperties DEF Removed, Bodies
 <2>3. up' \in [Conns -> Seq(Messages)]  BY <1>0, <1>7 DEF Removed
 <2> QED  BY <1>7, <2>2, <2>3 DEF Removed
<1>8. CASE EndRound
 <2>1. CASE stamp # prevStamp
  <3>1. outbox' \in Seq(Sending)
   <4>1. generation + 1 \in Nat /\ subscribed \subseteq Conns  BY DEF Shape
   <4>2. \A w \in subscribed : fdOf[w] \in Fds  BY <4>1 DEF Shape, Registered
   <4>3. \A c, d \in Conns : fdOf[c] = fdOf[d] /\ fdOf[c] # NoFd => c = d
     BY DEF Connected, Accepted
   <4> QED  BY <1>8, <2>1, <4>1, <4>2, <4>3, BroadcastProperties DEF EndRound
  <3> QED  BY <1>8, <3>1 DEF EndRound, kernel
 <2>2. CASE stamp = prevStamp  BY <1>8, <2>2 DEF EndRound, kernel
 <2> QED  BY <2>1, <2>2
<1>9. CASE SendMessage
 <2>1. outbox # <<>> /\ outbox' = Tail(outbox)  BY <1>9 DEF SendMessage
 <2>2. outbox' \in Seq(Sending) /\ Head(outbox) \in Sending  BY <2>1, HeadAndTail
 <2>3. PICK c \in Conns : down' = [down EXCEPT ![c] = Append(@, Head(outbox).msg)]
   BY <1>9 DEF SendMessage
 <2>4. Append(down[c], Head(outbox).msg) \in Seq(Messages)  BY <2>2, Appended DEF Sending
 <2> QED  BY <1>9, <2>2, <2>3, <2>4 DEF SendMessage
<1>10. CASE SendMessageFails
 <2> DEFINE failed == {p \in pending : p.txn = Head(outbox).msg.id}
 <2>1. failed \in SUBSET Transactions /\ IsFiniteSet(failed)  BY FS_Subset DEF Shape
 <2>2. CASE Head(outbox).msg.op = "BinderIncoming"
  <3>1. outbox' \in Seq(Sending)
    BY <1>10, <2>1, <2>2, TellsProperties DEF SendMessageFails, Bodies
  <3> QED  BY <1>10, <3>1 DEF SendMessageFails, kernel
 <2>3. CASE Head(outbox).msg.op # "BinderIncoming"
  <3>1. outbox' \in Seq(Sending)  BY <1>10, <2>3, HeadAndTail DEF SendMessageFails
  <3> QED  BY <1>10, <3>1 DEF SendMessageFails, kernel
 <2> QED  BY <2>2, <2>3
<1>11. CASE Terminate  BY <1>0, <1>11 DEF Terminate
<1>12. ASSUME NEW c \in Conns, Connect(c)
       PROVE  Carried'
  BY <1>12 DEF Connect, daemon
<1>13. ASSUME NEW c \in Conns, NEW m \in Messages, Sends(c, m)
       PROVE  up' \in [Conns -> Seq(Messages)] /\ UNCHANGED <<down, outbox>>
  BY <1>13, Appended DEF Sends, daemon
<1>14. ASSUME NEW c \in Conns, Request(c)
       PROVE  Carried'
 <2>1. PICK m \in Requests(c) : Sends(c, m)  BY <1>14 DEF Request
 <2>2. m \in Messages  BY DEF Requests, Msg, Messages, Ops, Bodies
 <2> QED  BY <1>13, <1>14, <2>1, <2>2 DEF Request
<1>15. ASSUME NEW c \in Conns, Closes(c)
       PROVE  down' \in [Conns -> Seq(Messages)]
  BY <1>0, <1>15 DEF Closes
<1>16. ASSUME NEW c \in Conns, down[c] # <<>>
       PROVE  /\ Head(down[c]) \in Messages
              /\ Receives(c) => down' \in [Conns -> Seq(Messages)]
 <2>1. down[c] \in Seq(Messages)  OBVIOUS
 <2>2. Head(down[c]) \in Messages /\ Tail(down[c]) \in Seq(Messages)  BY <1>16, <2>1, HeadAndTail
 <2> QED  BY <2>2 DEF Receives
<1>17. ASSUME NEW c \in Conns, down[c] # <<>>, ReceiveReply(c, Head(down[c]))
       PROVE  Carried'
 <2>1. Head(down[c]).body \in Payloads  BY <1>16, <1>17 DEF Messages, Payloads
 <2>2. got' \in [Conns -> Seq(Payloads)]  BY <1>17, <2>1, Appended DEF ReceiveReply
 <2> QED  BY <1>15, <1>17, <2>2 DEF ReceiveReply, daemon
<1>18. ASSUME NEW c \in Conns, down[c] # <<>>,
              ReceiveRegistration(c, Head(down[c]))
       PROVE  Carried'
 <2> DEFINE m == Head(down[c])
 <2>1. CASE /\ m.op = "RegisterService" /\ m.body = "1" /\ Receives(c)
            /\ got' = [got EXCEPT ![c] = <<m.name>>]
  <3>1. m.name \in Payloads  BY <1>16, <1>18 DEF Messages, Payloads
  <3> QED  BY <1>16, <1>18, <2>1, <3>1, Alone DEF ReceiveRegistration, daemon
 <2>2. CASE Closes(c) /\ UNCHANGED got  BY <1>15, <1>18, <2>2 DEF ReceiveRegistration, daemon
 <2> QED  BY <1>18, <2>1, <2>2 DEF ReceiveRegistration
<1>19. ASSUME NEW c \in Conns, down[c] # <<>>, ReceiveIncoming(c, Head(down[c]))
       PROVE  Carried'
 <2> DEFINE m == Head(down[c])
 <2>1. got[c] # <<>> /\ got[c] \in Seq(Payloads)  BY <1>19 DEF ReceiveIncoming, Peers, PeerOK
 <2>2. Head(got[c]) \in Payloads /\ m \in Payloads
   BY <1>16, <1>19, <2>1, HeadAndTail DEF Payloads
 <2>3. <<Head(got[c]), m>> \in Seq(Payloads)  BY <2>2
 <2>4. got' = [got EXCEPT ![c] = <<Head(got[c]), m>>]  BY <1>19 DEF ReceiveIncoming
 <2>5. got' \in [Conns -> Seq(Payloads)]  BY <2>3, <2>4
 <2> QED  BY <1>16, <1>19, <2>5 DEF ReceiveIncoming, daemon
<1>20. ASSUME NEW c \in Conns, SendReply(c)
       PROVE  Carried'
 <2> DEFINE m == Msg("BinderReply", got[c][2].id, got[c][2].name, got[c][2].body)
 <2>1. got[c][2] \in Messages /\ got[c] # <<>>  BY <1>20 DEF SendReply, Peers, PeerOK
 <2>2. m \in Messages  BY <2>1 DEF Msg, Messages, Ops
 <2>3. Sends(c, m)  BY <1>20 DEF SendReply
 <2>4. Head(got[c]) \in Payloads  BY <2>1, HeadAndTail
 <2>5. got' \in [Conns -> Seq(Payloads)]  BY <1>20, <2>4, Alone DEF SendReply
 <2> QED  BY <1>13, <2>2, <2>3, <2>5
<1>21. ASSUME NEW c \in Conns, down[c] # <<>>, ReceivePush(c, Head(down[c]))
       PROVE  Carried'
 <2>1. Head(down[c]).body \in Payloads  BY <1>16, <1>21 DEF Messages, Payloads
 <2>2. got' \in [Conns -> Seq(Payloads)]  BY <1>21, <2>1, Appended DEF ReceivePush
 <2> QED  BY <1>16, <1>21, <2>2 DEF ReceivePush, daemon
<1>22. ASSUME NEW c \in Conns, ReceiveEof(c)
       PROVE  Carried'
  BY <1>15, <1>22 DEF ReceiveEof, daemon
<1>23. ASSUME NEW c \in Conns, Killed(c)
       PROVE  Carried'
 <2>1. Msg("Truncated", 0, NoName, c) \in Messages  BY DEF Msg, Messages, Ops, Bodies
 <2>2. Append(up[c], Msg("Truncated", 0, NoName, c)) \in Seq(Messages)  BY <2>1, Appended
 <2>3. up' \in [Conns -> Seq(Messages)]  BY <1>23, <2>2 DEF Killed
 <2> QED  BY <1>15, <1>23, <2>3 DEF Killed, daemon
<1>24. CASE RegistryChanges  BY <1>24 DEF RegistryChanges, kernel, daemon
<1> QED  BY <1>1, <1>2, <1>3, <1>4, <1>5, <1>6, <1>7, <1>8, <1>9, <1>10, <1>11, <1>12,
     <1>14, <1>17, <1>18, <1>19, <1>20, <1>21, <1>22, <1>23, <1>24
  DEF Next, Loop, Handle, HandleHangup, HandleTruncated, Program, vars, kernel

----
(* Types of the rest of the state.                                         *)

\* The rest of the state starts with its types.
LEMMA ShapeInit == Init => Shape
<1> SUFFICES ASSUME Init PROVE Shape  OBVIOUS
<1>1. \A S : <<>> \in Seq(S) /\ Len(<<>>) = 0  OBVIOUS
<1>2. IsFiniteSet({}) /\ Capacity \in Nat /\ MaxStamp \in Nat  BY FS_EmptySet, MuplardAssumption
<1>3. backlog \in Seq(Conns) /\ clients \in Seq(Conns) /\ revents \in Seq(Vector)
      /\ Len(revents) <= Len(clients)
  BY <1>1 DEF Init
<1>4. \A c \in Conns : Len(up[c]) <= Capacity /\ Len(down[c]) <= Capacity  BY <1>1, <1>2 DEF Init
<1>5. pending \subseteq Transactions /\ IsFiniteSet(pending)
      /\ nextTxn \in Nat \ {0} /\ subscribed \subseteq Conns
      /\ generation \in Nat \ {0} /\ generation <= prevStamp + 1
      /\ stamp \in 0..MaxStamp /\ prevStamp \in 0..stamp
  BY <1>2 DEF Init
<1>6. running \in BOOLEAN /\ phase \in {"poll", "clients"}  BY Zenon DEF Init
<1>7. /\ peer \in [Conns -> {"unused", "open", "closed"}]
      /\ step \in [Conns -> Steps]
      /\ fdOf \in [Conns -> Fds \cup {NoFd}]
      /\ services \in [Names -> {Missing, Declared} \cup Fds]
      /\ owned \in [Conns -> SUBSET Names]
  BY DEF Init, Steps
<1> QED  BY <1>3, <1>4, <1>5, <1>6, <1>7 DEF Shape, Vector

\* Every step keeps the types; a descriptor given out is one of Fds, a buffer
\* is not filled beyond its capacity, and the generation follows the stamp.
LEMMA ShapeStep ==
  ASSUME Shape, Carried, Connected, Peers, Registered, [Next]_vars
  PROVE  Shape'
<1> USE DEF Shape
<1>0. Capacity \in Nat /\ MaxStamp \in Nat /\ \A S : <<>> \in Seq(S) /\ Len(<<>>) = 0
  BY MuplardAssumption
<1>1. CASE UNCHANGED vars  BY <1>1 DEF vars, kernel, registry, pushes
<1>2. CASE Poll
 <2>1. backlog' \in Seq(Conns) /\ fdOf' \in [Conns -> Fds \cup {NoFd}]
       /\ clients' \in Seq(Conns) /\ Len(clients) <= Len(clients')
  <3>1. CASE backlog # <<>>
   <4>1. Head(backlog) \in Conns /\ Tail(backlog) \in Seq(Conns)  BY <3>1, HeadAndTail
   <4>2. /\ backlog' = Tail(backlog) /\ clients' = Append(clients, Head(backlog))
         /\ \E fd \in Fds : fdOf' = [fdOf EXCEPT ![Head(backlog)] = fd]
     BY <1>2, <3>1 DEF Poll
   <4>3. fdOf' \in [Conns -> Fds \cup {NoFd}]  BY <4>1, <4>2
   <4>4. clients' \in Seq(Conns) /\ Len(clients') = Len(clients) + 1
         /\ Len(clients) \in Nat
     BY <4>1, <4>2, Appended
   <4> QED  BY <4>1, <4>2, <4>3, <4>4
  <3>2. CASE backlog = <<>>
   <4>1. Len(clients) \in Nat  OBVIOUS
   <4> QED  BY <1>2, <3>2, <4>1 DEF Poll
  <3> QED  BY <3>1, <3>2
 <2>2. \A c \in Conns : Events(c) \in Vector  BY DEF Events, Vector
 <2>3. revents' \in [1..Len(clients) -> Vector]  BY <1>2, <2>2 DEF Poll
 <2>4. revents' \in Seq(Vector) /\ Len(revents') = Len(clients)
  <3>1. Len(clients) \in Nat  OBVIOUS
  <3> QED  BY <2>3, <3>1, Tabulated
 <2> QED  BY <1>2, <2>1, <2>4 DEF Poll, registry, pushes, Vector
<1>3. ASSUME NEW c \in Conns, NEW e \in {"in", "hup"}, AtClient(c, e)
      PROVE  revents' \in Seq({"none", "in", "hup"}) /\ Len(revents') <= Len(clients)
             /\ fdOf[c] \in Fds
  BY <1>3, AtClientProperties DEF Vector
<1>4. ASSUME NEW c \in Conns, up[c] # <<>>, Received(c)
      PROVE  /\ \A d \in Conns : Len(up'[d]) <= Capacity
             /\ revents' \in Seq({"none", "in", "hup"}) /\ Len(revents') <= Len(clients)
             /\ fdOf[c] \in Fds /\ Asked(c, Head(up[c])) /\ Head(up[c]) \in Messages
 <2>1. AtClient(c, "in")  BY <1>4 DEF Received
 <2>2. /\ Head(up[c]) \in Messages /\ Asked(c, Head(up[c]))
       /\ \A d \in Conns : d # c => up'[d] = up[d]
       /\ Len(up'[c]) = Len(up[c]) - 1 /\ Len(up[c]) \in Nat
   BY <1>4, ReceivedProperties
 <2>3. Len(up'[c]) <= Capacity  BY <1>0, <2>2
 <2>4. \A d \in Conns : Len(up'[d]) <= Capacity  BY <2>2, <2>3
 <2> QED  BY <1>3, <2>1, <2>2, <2>4
<1>5. ASSUME NEW c \in Conns, up[c] # <<>>, HandleRegister(c, Head(up[c]))
      PROVE  Shape'
 <2> DEFINE m == Head(up[c])
 <2>1. m.name \in Names  BY <1>4, <1>5 DEF HandleRegister, Asked
 <2>2. services' \in [Names -> {Missing, Declared} \cup Fds]
   BY <1>4, <1>5, <2>1 DEF HandleRegister
 <2>3. owned' \in [Conns -> SUBSET Names]  BY <1>5, <2>1 DEF HandleRegister
 <2> QED  BY <1>4, <1>5, <2>2, <2>3 DEF HandleRegister, pushes
<1>6. ASSUME NEW c \in Conns, up[c] # <<>>, HandleSubscribe(c, Head(up[c]))
      PROVE  Shape'
  BY <1>4, <1>6 DEF HandleSubscribe, registry
<1>7. ASSUME NEW c \in Conns, up[c] # <<>>, HandleTransact(c, Head(up[c]))
      PROVE  Shape'
 <2> DEFINE m == Head(up[c])
            p == [txn |-> nextTxn, caller |-> fdOf[c],
                  owner |-> services[m.name], id |-> m.id]
 <2>1. m.name \in Names /\ m.id \in Nat /\ fdOf[c] \in Fds
   BY <1>4, <1>7 DEF HandleTransact, Asked, Messages
 <2>2. /\ pending' \subseteq Transactions /\ IsFiniteSet(pending')
       /\ nextTxn' \in Nat \ {0}
  <3>1. CASE services[m.name] \in {Missing, Declared}  BY <1>7, <3>1 DEF HandleTransact
  <3>2. CASE services[m.name] \notin {Missing, Declared}
   <4>1. services[m.name] \in Fds  BY <2>1, <3>2
   <4>2. p \in Transactions  BY <2>1, <4>1 DEF Transactions
   <4>3. \A x : IsFiniteSet(pending \cup {x})  BY FS_AddElement
   <4>4. pending' = pending \cup {p} /\ nextTxn' = nextTxn + 1
     BY <1>7, <3>2 DEF HandleTransact
   <4>5. pending' \subseteq Transactions /\ nextTxn' \in Nat \ {0}  BY <4>2, <4>4
   <4>6. IsFiniteSet(pending')  BY <4>3, <4>4
   <4> QED  BY <4>5, <4>6
  <3> QED  BY <3>1, <3>2
 <2> QED  BY <1>4, <1>7, <2>2 DEF HandleTransact, pushes
<1>8. ASSUME NEW c \in Conns, up[c] # <<>>, HandleReply(c, Head(up[c]))
      PROVE  Shape'
 <2>1. pending' \subseteq Transactions /\ IsFiniteSet(pending')
   BY <1>8, FS_Subset DEF HandleReply
 <2> QED  BY <1>4, <1>8, <2>1 DEF HandleReply, pushes
<1>9. ASSUME NEW c \in Conns, NEW e \in {"in", "hup"}, AtClient(c, e), Removed(c)
      PROVE  Shape'
 <2>1. clients' \in Seq(Conns) /\ Len(revents') <= Len(clients')  BY <1>9, RemovedProperties
 <2>2. pending' \subseteq Transactions /\ IsFiniteSet(pending')
   BY <1>9, FS_Subset DEF Removed, StillPending
 <2>3. services' \in [Names -> {Missing, Declared} \cup Fds]
   BY <1>9 DEF Removed, ServicesWithout
 <2>4. fdOf' \in [Conns -> Fds \cup {NoFd}] /\ owned' \in [Conns -> SUBSET Names]
       /\ subscribed' \subseteq Conns
   BY <1>9 DEF Removed
 <2>5. \A d \in Conns : Len(up'[d]) <= Capacity  BY <1>0, <1>9 DEF Removed, Carried
 <2> QED  BY <1>3, <1>9, <2>1, <2>2, <2>3, <2>4, <2>5 DEF Removed
<1>10. CASE EndRound
 <2>1. revents' \in Seq({"none", "in", "hup"}) /\ Len(revents') <= Len(clients)
   BY <1>0, <1>10 DEF EndRound
 <2>2. /\ generation' \in Nat \ {0} /\ generation' <= prevStamp' + 1
       /\ prevStamp' \in 0..stamp
   BY <1>10 DEF EndRound
 <2> QED  BY <1>10, <2>1, <2>2 DEF EndRound, kernel, registry
<1>11. CASE SendMessage
 <2>1. PICK c \in Conns : /\ Len(down[c]) < Capacity
                          /\ down' = [down EXCEPT ![c] = Append(@, Head(outbox).msg)]
   BY <1>11 DEF SendMessage, Room
 <2>2. Head(outbox).msg \in Messages
  <3>1. outbox # <<>> /\ outbox \in Seq(Sending)  BY <1>11 DEF SendMessage, Carried
  <3>2. Head(outbox) \in Sending  BY <3>1, HeadAndTail
  <3> QED  BY <3>2 DEF Sending
 <2>3. Len(Append(down[c], Head(outbox).msg)) <= Capacity
   BY <1>0, <2>1, <2>2, Appended DEF Carried
 <2>4. \A d \in Conns : Len(down'[d]) <= Capacity  BY <2>1, <2>3 DEF Carried
 <2> QED  BY <1>11, <2>4 DEF SendMessage, registry, pushes
<1>12. CASE SendMessageFails
 <2>1. pending' \subseteq pending  BY <1>12 DEF SendMessageFails
 <2>2. pending' \subseteq Transactions /\ IsFiniteSet(pending')  BY <2>1, FS_Subset
 <2> QED  BY <1>12, <2>2 DEF SendMessageFails, kernel, pushes
<1>13. CASE Terminate
 <2>1. clients' \in Seq(Conns) /\ backlog' \in Seq(Conns) /\ revents' = <<>>
   BY <1>0, <1>13 DEF Terminate, Connected, Stopped
 <2>2. revents' \in Seq({"none", "in", "hup"}) /\ Len(revents') <= Len(clients')
   BY <1>0, <1>13, <2>1 DEF Terminate
 <2>3. pending' \subseteq Transactions /\ IsFiniteSet(pending')
   BY <1>13, FS_EmptySet DEF Terminate
 <2>4. \A d \in Conns : Len(up'[d]) <= Capacity  BY <1>0, <1>13 DEF Terminate
 <2>5. running' \in BOOLEAN  BY <1>13, Zenon DEF Terminate
 <2>6. /\ fdOf' \in [Conns -> Fds \cup {NoFd}]
       /\ services' \in [Names -> {Missing, Declared} \cup Fds]
       /\ owned' \in [Conns -> SUBSET Names] /\ subscribed' \subseteq Conns
   BY <1>13 DEF Terminate
 <2> QED  BY <1>13, <2>1, <2>2, <2>3, <2>4, <2>5, <2>6 DEF Terminate
<1>14. ASSUME NEW c \in Conns, Connect(c)
       PROVE  Shape'
 <2>1. backlog' \in Seq(Conns)  BY <1>14, Appended DEF Connect
 <2> QED  BY <1>14, <2>1 DEF Connect, daemon, registry, Steps
<1>15. ASSUME NEW c \in Conns, NEW m, Sends(c, m), up' \in [Conns -> Seq(Messages)]
       PROVE  /\ \A d \in Conns : Len(up'[d]) <= Capacity
              /\ UNCHANGED <<peer, down, backlog, fdOf, daemon, stamp>>
 <2>1. Len(up[c]) < Capacity /\ up'[c] = Append(up[c], m)
       /\ \A d \in Conns : d # c => up'[d] = up[d]
   BY <1>15 DEF Sends, Carried
 <2>2. up[c] \in Seq(Messages) /\ Len(up'[c]) = Len(up[c]) + 1  BY <2>1 DEF Carried
 <2>3. Len(up'[c]) <= Capacity  BY <1>0, <2>1, <2>2
 <2> QED  BY <1>15, <2>1, <2>3 DEF Sends
<1>16. up' \in [Conns -> Seq(Messages)] /\ down' \in [Conns -> Seq(Messages)]
  BY CarriedStep DEF Carried
<1>17. ASSUME NEW c \in Conns, Request(c)
       PROVE  Shape'
  BY <1>15, <1>16, <1>17 DEF Request, daemon, registry, Steps
<1>18. ASSUME NEW c \in Conns, Closes(c)
       PROVE  /\ \A d \in Conns : Len(down'[d]) <= Capacity
              /\ peer' \in [Conns -> {"unused", "open", "closed"}]
              /\ step' \in [Conns -> Steps]
  BY <1>0, <1>18 DEF Closes, Carried, Steps
<1>19. ASSUME NEW c \in Conns, down[c] # <<>>, Receives(c)
       PROVE  \A d \in Conns : Len(down'[d]) <= Capacity
 <2>1. Len(Tail(down[c])) = Len(down[c]) - 1 /\ Len(down[c]) \in Nat
   BY <1>19, HeadAndTail DEF Carried
 <2> QED  BY <1>0, <1>19, <2>1 DEF Receives, Carried
<1>20. ASSUME NEW c \in Conns, ReceiveReply(c, Head(down[c]))
       PROVE  Shape'
  BY <1>18, <1>20 DEF ReceiveReply, daemon, registry
<1>21. ASSUME NEW c \in Conns, down[c] # <<>>, ReceiveRegistration(c, Head(down[c]))
       PROVE  Shape'
 <2>1. /\ \A d \in Conns : Len(down'[d]) <= Capacity
       /\ peer' \in [Conns -> {"unused", "open", "closed"}]
       /\ step' \in [Conns -> Steps]
   BY <1>18, <1>19, <1>21 DEF ReceiveRegistration, Steps
 <2> QED  BY <1>21, <2>1 DEF ReceiveRegistration, daemon, registry
<1>22. ASSUME NEW c \in Conns, down[c] # <<>>, ReceiveIncoming(c, Head(down[c]))
       PROVE  Shape'
  BY <1>19, <1>22 DEF ReceiveIncoming, daemon, registry, Steps
<1>23. ASSUME NEW c \in Conns, SendReply(c)
       PROVE  Shape'
  BY <1>15, <1>16, <1>23 DEF SendReply, daemon, registry, Steps
<1>24. ASSUME NEW c \in Conns, down[c] # <<>>, ReceivePush(c, Head(down[c]))
       PROVE  Shape'
  BY <1>19, <1>24 DEF ReceivePush, daemon, registry
<1>25. ASSUME NEW c \in Conns, ReceiveEof(c)
       PROVE  Shape'
  BY <1>18, <1>25 DEF ReceiveEof, daemon, registry
<1>26. ASSUME NEW c \in Conns, Killed(c)
       PROVE  Shape'
 <2>1. \A d \in Conns : Len(up'[d]) <= Capacity
  <3>1. CASE up' = up  BY <3>1
  <3>2. CASE /\ Len(up[c]) < Capacity
             /\ up' = [up EXCEPT ![c] = Append(@, Msg("Truncated", 0, NoName, c))]
   <4>1. up[c] \in Seq(Messages)
         /\ Len(Append(up[c], Msg("Truncated", 0, NoName, c))) = Len(up[c]) + 1
     BY DEF Carried
   <4> QED  BY <1>0, <3>2, <4>1 DEF Carried
  <3> QED  BY <1>26, <3>1, <3>2 DEF Killed
 <2> QED  BY <1>18, <1>26, <2>1 DEF Killed, daemon, registry
<1>27. CASE RegistryChanges
 <2>1. stamp' \in 0..MaxStamp /\ prevStamp \in 0..stamp'  BY <1>0, <1>27 DEF RegistryChanges
 <2> QED  BY <1>27, <2>1 DEF RegistryChanges, kernel, daemon, registry
<1> QED  BY <1>1, <1>2, <1>5, <1>6, <1>7, <1>8, <1>9, <1>10, <1>11, <1>12, <1>13, <1>14,
     <1>17, <1>20, <1>21, <1>22, <1>23, <1>24, <1>25, <1>26, <1>27
  DEF Next, Loop, Handle, HandleHangup, HandleTruncated, Program

----
(* Connections.                                                            *)

\* There are no connections at first.
LEMMA ConnectedInit == Init => Connected /\ Peers /\ Registered
<1> SUFFICES ASSUME Init PROVE Connected /\ Peers /\ Registered  OBVIOUS
<1>1. running = TRUE /\ revents = <<>>  BY Zenon DEF Init
<1>2. DOMAIN <<>> = {} /\ Len(<<>>) = 0  OBVIOUS
<1>3. Accepted  BY <1>2 DEF Init, Accepted
<1>4. Stopped  BY <1>1, Zenon DEF Stopped
<1>5. Peers  BY <1>2 DEF Init, Peers, PeerOK, HangupsAreClosed
<1>6. \A n \in Names : services[n] \notin Fds  BY FdsArePositive DEF Init
<1>7. Registered  BY <1>6 DEF Init, Registered
<1> QED  BY <1>3, <1>4, <1>5, <1>7 DEF Connected

\* accept() gives out a free number and the remove_client block gives it back,
\* so the descriptors of the vector of clients stay distinct.
LEMMA AcceptedStep ==
  ASSUME Shape, Carried, Connected, Peers, [Next]_vars
  PROVE  Accepted'
<1> USE DEF Accepted, Connected
<1>1. CASE UNCHANGED <<clients, backlog, fdOf, peer>>  BY <1>1
<1>2. CASE Poll
 <2>1. CASE backlog = <<>>  BY <1>1, <1>2, <2>1 DEF Poll
 <2>2. CASE backlog # <<>>
  <3> DEFINE a == Head(backlog)
             N == Len(clients)
  <3>1. /\ a \in Conns /\ a = backlog[1] /\ 1 \in DOMAIN backlog
        /\ \A i \in DOMAIN Tail(backlog) :
             i + 1 \in DOMAIN backlog /\ Tail(backlog)[i] = backlog[i + 1]
        /\ DOMAIN Tail(backlog) = 1..(Len(backlog) - 1) /\ Len(backlog) \in Nat
    BY <2>2, HeadAndTail DEF Shape
  <3>2. PICK fd \in Fds : FreeFd(fd) /\ fdOf' = [fdOf EXCEPT ![a] = fd]  BY <1>2, <2>2 DEF Poll
  <3>3. backlog' = Tail(backlog) /\ clients' = Append(clients, a)  BY <1>2, <2>2 DEF Poll
  <3> HIDE DEF a
  <3>4. fd # NoFd /\ \A c \in Conns : fdOf[c] # fd
   <4>1. fd \notin Range(fdOf) /\ fdOf \in [Conns -> Fds \cup {NoFd}]
     BY <3>2 DEF FreeFd, Shape
   <4> QED  BY <4>1, FdsArePositive DEF Range
  <3>5. fdOf'[a] = fd /\ \A c \in Conns : c # a => fdOf'[c] = fdOf[c]  BY <3>1, <3>2 DEF Shape
  <3>6. fdOf[a] = NoFd /\ peer[a] # "unused" /\ \A i \in DOMAIN clients : clients[i] # a
    BY <3>1
  <3>7. /\ N \in Nat /\ DOMAIN clients = 1..N /\ DOMAIN clients' = 1..(N + 1)
        /\ \A i \in 1..N : clients'[i] = clients[i]
        /\ clients'[N + 1] = a
    BY <3>1, <3>3, Appended DEF Shape
  <3> HIDE DEF N
  <3>8. \A i, j \in 1..(N + 1) : clients'[i] = clients'[j] => i = j  BY <3>6, <3>7
  <3>9. \A i, j \in DOMAIN backlog' : backlog'[i] = backlog'[j] => i = j  BY <3>1, <3>3
  <3>10. ASSUME NEW c \in Conns
         PROVE  fdOf'[c] # NoFd <=> \E i \in DOMAIN clients' : clients'[i] = c
   <4>1. CASE c = a  BY <3>4, <3>5, <3>7, <4>1
   <4>2. CASE c # a
    <5>1. (\E i \in 1..(N + 1) : clients'[i] = c) <=> \E i \in 1..N : clients[i] = c
      BY <3>7, <4>2
    <5> QED  BY <3>5, <3>7, <4>2, <5>1
   <4> QED  BY <4>1, <4>2
  <3>11. \A c, d \in Conns : fdOf'[c] = fdOf'[d] /\ fdOf'[c] # NoFd => c = d  BY <3>4, <3>5
  <3>12. ASSUME NEW i \in DOMAIN backlog'
         PROVE  fdOf'[backlog'[i]] = NoFd /\ peer[backlog'[i]] # "unused"
   <4>1. i + 1 \in DOMAIN backlog /\ backlog'[i] = backlog[i + 1] /\ i + 1 # 1  BY <3>1, <3>3
   <4>2. backlog[i + 1] # a /\ backlog[i + 1] \in Conns  BY <3>1, <4>1 DEF Shape
   <4> QED  BY <3>5, <4>1, <4>2
  <3>13. \A c \in Conns : fdOf'[c] # NoFd => peer[c] # "unused"  BY <3>5, <3>6
  <3>14. peer' = peer  BY <1>2 DEF Poll
  <3> QED  BY <3>7, <3>8, <3>9, <3>10, <3>11, <3>12, <3>13, <3>14
 <2> QED  BY <2>1, <2>2
<1>3. ASSUME NEW c \in Conns, NEW e \in {"in", "hup"}, AtClient(c, e), Removed(c)
      PROVE  Accepted'
 <2>1. /\ \A i, j \in DOMAIN clients' : clients'[i] = clients'[j] => i = j
       /\ \A d \in Conns : (\E i \in DOMAIN clients' : clients'[i] = d)
             <=> d # c /\ \E i \in DOMAIN clients : clients[i] = d
   BY <1>3, RemovedProperties
 <2>2. /\ fdOf'[c] = NoFd /\ \A d \in Conns : d # c => fdOf'[d] = fdOf[d]
       /\ UNCHANGED <<peer, backlog>>
   BY <1>3 DEF Removed, Shape
 <2>3. \A i \in DOMAIN backlog : backlog[i] \in Conns  BY DEF Shape
 <2> QED  BY <2>1, <2>2, <2>3
<1>4. CASE Terminate  BY <1>4 DEF Terminate
<1>5. ASSUME NEW c \in Conns, Connect(c)
      PROVE  Accepted'
 <2> DEFINE N == Len(backlog)
 <2>1. /\ peer[c] = "unused" /\ backlog' = Append(backlog, c)
       /\ peer'[c] = "open" /\ \A d \in Conns : d # c => peer'[d] = peer[d]
       /\ UNCHANGED <<clients, fdOf>>
   BY <1>5 DEF Connect, Peers, PeerOK, Shape, daemon
 <2>2. fdOf[c] = NoFd /\ \A i \in DOMAIN backlog : backlog[i] # c  BY <2>1
 <2>3. /\ N \in Nat /\ DOMAIN backlog = 1..N /\ DOMAIN backlog' = 1..(N + 1)
       /\ \A i \in 1..N : backlog'[i] = backlog[i]
       /\ backlog'[N + 1] = c
       /\ \A i \in 1..N : backlog[i] \in Conns
   BY <2>1, Appended DEF Shape
 <2> HIDE DEF N
 <2>4. \A i, j \in 1..(N + 1) : backlog'[i] = backlog'[j] => i = j  BY <2>2, <2>3
 <2>5. \A i \in 1..(N + 1) : fdOf[backlog'[i]] = NoFd /\ peer'[backlog'[i]] # "unused"
  <3> TAKE i \in 1..(N + 1)
  <3>1. CASE i = N + 1  BY <2>1, <2>2, <2>3, <3>1
  <3>2. CASE i # N + 1
   <4>1. i \in 1..N  BY <2>3, <3>2
   <4> QED  BY <2>1, <2>2, <2>3, <4>1
  <3> QED  BY <3>1, <3>2
 <2>6. \A d \in Conns : fdOf[d] # NoFd => peer'[d] # "unused"  BY <2>1
 <2> QED  BY <2>1, <2>3, <2>4, <2>5, <2>6
<1>6. ASSUME NEW c \in Conns, Closes(c), UNCHANGED <<clients, backlog, fdOf>>
      PROVE  Accepted'
 <2>1. peer'[c] = "closed" /\ \A d \in Conns : d # c => peer'[d] = peer[d]
   BY <1>6 DEF Closes, Shape
 <2>2. \A i \in DOMAIN backlog : backlog[i] \in Conns  BY DEF Shape
 <2> QED  BY <1>6, <2>1, <2>2
<1>7. ASSUME NEW c \in Conns, Handle(c)
      PROVE  \/ UNCHANGED <<clients, backlog, fdOf, peer>>
             \/ \E e \in {"in", "hup"} : AtClient(c, e) /\ Removed(c)
  BY <1>7 DEF Handle, HandleRegister, HandleSubscribe, HandleTransact, HandleReply, HandleHangup,
     HandleTruncated
<1>8. CASE EndRound \/ SendMessage \/ SendMessageFails \/ RegistryChanges
  BY <1>1, <1>8 DEF EndRound, SendMessage, SendMessageFails, RegistryChanges, kernel, daemon
<1>9. ASSUME NEW c \in Conns, Program(c) \/ Killed(c)
      PROVE  \/ UNCHANGED <<clients, backlog, fdOf, peer>>
             \/ Closes(c) /\ UNCHANGED <<clients, backlog, fdOf>>
  BY <1>9 DEF Program, Killed, Request, Sends, ReceiveReply, ReceiveRegistration, ReceiveIncoming,
     ReceivePush, Receives, SendReply, ReceiveEof, daemon
<1> QED  BY <1>1, <1>2, <1>3, <1>4, <1>5, <1>6, <1>7, <1>8, <1>9 DEF Next, Loop, vars, kernel

\* The daemon only ends between two rounds.
LEMMA StoppedStep ==
  ASSUME Shape, Connected, Peers, [Next]_vars
  PROVE  Stopped'
<1> USE DEF Stopped, Connected
<1>1. CASE UNCHANGED <<running, clients, backlog, outbox, pending, phase, up, revents>>  BY <1>1
<1>2. CASE running /\ UNCHANGED <<running, phase>> /\ (revents' = revents \/ phase = "clients")
  BY <1>2, Zenon
<1>3. CASE Poll
 <2>1. running /\ running' = running /\ phase' = "clients"  BY <1>3 DEF Poll
 <2> QED  BY <2>1
<1>4. ASSUME NEW c \in Conns, Handle(c)
      PROVE  running /\ UNCHANGED <<running, phase>> /\ phase = "clients"
 <2>1. \E e \in {"in", "hup"} : AtClient(c, e) /\ UNCHANGED <<running, phase>>
   BY <1>4 DEF Handle, HandleRegister, HandleSubscribe, HandleTransact, HandleReply,
      HandleHangup, HandleTruncated, Received, Removed
 <2> QED  BY <2>1, AtClientProperties
<1>5. CASE EndRound
 <2>1. phase = "clients" /\ running' = running /\ revents' = <<>>  BY <1>5 DEF EndRound
 <2> QED  BY <2>1, Zenon
<1>6. CASE SendMessage \/ SendMessageFails
 <2>1. outbox # <<>> /\ UNCHANGED <<running, phase, revents>>
   BY <1>6 DEF SendMessage, SendMessageFails
 <2> QED  BY <1>2, <2>1, Zenon
<1>7. CASE Terminate
 <2>1. /\ phase = "poll" /\ outbox = <<>>
       /\ clients' = <<>> /\ backlog' = <<>> /\ pending' = {}
       /\ up' = [c \in Conns |-> <<>>]
       /\ UNCHANGED <<phase, revents, outbox>>
   BY <1>7 DEF Terminate
 <2> QED  BY <2>1
<1>8. ASSUME NEW c \in Conns, Connect(c)
      PROVE  running /\ UNCHANGED <<running, phase, revents>>
  BY <1>8 DEF Connect, daemon
<1>9. ASSUME NEW c \in Conns, Program(c) \/ Killed(c)
      PROVE  \/ running /\ UNCHANGED <<running, phase, revents>>
             \/ UNCHANGED <<running, clients, backlog, outbox, pending, phase, up, revents>>
  BY <1>9 DEF Program, Killed, Request, Sends, ReceiveReply, ReceiveRegistration, ReceiveIncoming,
     ReceivePush, Receives, SendReply, ReceiveEof, daemon, registry
<1>10. CASE RegistryChanges  BY <1>1, <1>10 DEF RegistryChanges, kernel, daemon, registry
<1> QED  BY <1>1, <1>2, <1>3, <1>4, <1>5, <1>6, <1>7, <1>8, <1>9, <1>10
  DEF Next, Loop, vars, kernel, registry

\* A hang-up that poll() reported stays one: a closed peer is not reopened, and
\* the round only shortens the vector behind the clients it has still to see.
LEMMA HangupsStep ==
  ASSUME Shape, Carried, Connected, Peers, [Next]_vars
  PROVE  HangupsAreClosed'
<1> USE DEF HangupsAreClosed
<1>0. /\ HangupsAreClosed
      /\ \A i \in DOMAIN revents : i \in DOMAIN clients /\ clients[i] \in Conns
 <2>1. /\ revents \in Seq(Vector) /\ clients \in Seq(Conns)
       /\ Len(revents) <= Len(clients)
   BY DEF Shape, Vector
 <2> QED  BY <2>1 DEF Peers
<1>1. ASSUME UNCHANGED <<revents, clients>>,
             \A c \in Conns : peer[c] = "closed" => peer'[c] = "closed"
      PROVE  HangupsAreClosed'
  BY <1>0, <1>1
<1>2. CASE Poll
 <2>1. /\ DOMAIN revents' = DOMAIN clients /\ peer' = peer
       /\ \A i \in DOMAIN clients : revents'[i] = Events(clients[i])
   BY <1>2 DEF Poll
 <2>2. \A i \in DOMAIN clients : clients'[i] = clients[i]
  <3>1. CASE backlog = <<>>  BY <1>2, <3>1 DEF Poll
  <3>2. CASE backlog # <<>>
   <4>1. Head(backlog) \in Conns /\ clients \in Seq(Conns)  BY <3>2, HeadAndTail DEF Shape
   <4>2. clients' = Append(clients, Head(backlog))  BY <1>2, <3>2 DEF Poll
   <4> QED  BY <4>1, <4>2, Appended
  <3> QED  BY <3>1, <3>2
 <2>3. \A i \in DOMAIN clients : Events(clients[i]) = "hup" => peer[clients[i]] = "closed"
   BY DEF Events
 <2> QED  BY <2>1, <2>2, <2>3
<1>3. ASSUME NEW c \in Conns, NEW e \in {"in", "hup"}, AtClient(c, e),
             UNCHANGED <<peer, clients>>
      PROVE  HangupsAreClosed'
  BY <1>0, <1>3, AtClientProperties
<1>4. ASSUME NEW c \in Conns, NEW e \in {"in", "hup"}, AtClient(c, e), Removed(c)
      PROVE  HangupsAreClosed'
 <2>1. \A i \in DOMAIN revents' : i \in DOMAIN revents /\ revents'[i] = revents[i]
   BY <1>4, AtClientProperties
 <2>2. \A i \in DOMAIN revents' : clients'[i] = clients[i]  BY <1>4, RemovedProperties
 <2>3. peer' = peer  BY <1>4 DEF Removed
 <2> QED  BY <1>0, <2>1, <2>2, <2>3
<1>5. ASSUME NEW c \in Conns, Handle(c)
      PROVE  \E e \in {"in", "hup"} :
               AtClient(c, e) /\ (Removed(c) \/ UNCHANGED <<peer, clients>>)
  BY <1>5 DEF Handle, HandleRegister, HandleSubscribe, HandleTransact, HandleReply, HandleHangup,
     HandleTruncated, Received
<1>6. CASE EndRound \/ Terminate
 <2>1. revents' = <<>>  BY <1>6 DEF EndRound, Terminate, Connected, Stopped
 <2> QED  BY <2>1
<1>7. CASE SendMessage \/ SendMessageFails \/ RegistryChanges \/ UNCHANGED vars
  BY <1>1, <1>7 DEF SendMessage, SendMessageFails, RegistryChanges, kernel, daemon, vars
<1>8. ASSUME NEW c \in Conns, Connect(c)
      PROVE  HangupsAreClosed'
 <2>1. peer[c] = "unused" /\ \A d \in Conns : d # c => peer'[d] = peer[d]
   BY <1>8 DEF Connect, Peers, PeerOK, Shape
 <2>2. UNCHANGED <<revents, clients>>  BY <1>8 DEF Connect, daemon
 <2> QED  BY <1>1, <2>1, <2>2
<1>9. ASSUME NEW c \in Conns, Program(c) \/ Killed(c)
      PROVE  HangupsAreClosed'
 <2>1. UNCHANGED <<revents, clients>> /\ (peer' = peer \/ Closes(c))
   BY <1>9 DEF Program, Killed, Request, Sends, ReceiveReply, ReceiveRegistration,
      ReceiveIncoming, ReceivePush, Receives, SendReply, ReceiveEof, daemon
 <2>2. Closes(c) => peer' = [peer EXCEPT ![c] = "closed"]  BY DEF Closes
 <2> QED  BY <1>1, <2>1, <2>2 DEF Shape
<1> QED  BY <1>2, <1>3, <1>4, <1>5, <1>6, <1>7, <1>8, <1>9 DEF Next, Loop

\* What PeerOK(d) rests on is unchanged, and nothing of d was dropped.
SamePeer(d) ==
  /\ step'[d] = step[d] /\ peer'[d] = peer[d] /\ got'[d] = got[d]
  /\ up'[d] = up[d] /\ down'[d] = down[d]
  /\ running' /\ fdOf'[d] = NoFd => running /\ fdOf[d] = NoFd

\* A step that leaves client d alone.
LEMMA SamePeerOK ==
  ASSUME NEW d \in Conns, PeerOK(d), SamePeer(d)
  PROVE  PeerOK(d)'
BY DEF PeerOK, SamePeer, Asked

\* Every step of the daemon leaves a client program where it is, and every step
\* of a client program moves it to its next stage.
LEMMA PeersStep ==
  ASSUME Shape, Carried, Connected, Peers, [Next]_vars
  PROVE  Peers'
<1> SUFFICES \A d \in Conns : PeerOK(d)'  BY HangupsStep DEF Peers
<1>1. \A d \in Conns : PeerOK(d)  BY DEF Peers
<1>2. ASSUME \A d \in Conns : SamePeer(d)
      PROVE  \A d \in Conns : PeerOK(d)'
  BY <1>1, <1>2, SamePeerOK
<1>3. CASE UNCHANGED vars  BY <1>2, <1>3 DEF SamePeer, vars, kernel
<1>4. CASE Poll
 <2>1. \A d \in Conns : fdOf'[d] = NoFd => fdOf[d] = NoFd
  <3>1. CASE backlog = <<>>  BY <1>4, <3>1 DEF Poll
  <3>2. CASE backlog # <<>>
   <4>1. PICK fd \in Fds : fdOf' = [fdOf EXCEPT ![Head(backlog)] = fd]  BY <1>4, <3>2 DEF Poll
   <4> QED  BY <4>1, FdsArePositive DEF Shape
  <3> QED  BY <3>1, <3>2
 <2>2. UNCHANGED <<step, peer, got, up, down, running>>  BY <1>4 DEF Poll
 <2> QED  BY <1>2, <2>1, <2>2 DEF SamePeer
<1>5. ASSUME NEW c \in Conns, up[c] # <<>>, Received(c),
             UNCHANGED <<step, peer, got, down, running, fdOf>>
      PROVE  \A d \in Conns : PeerOK(d)'
 <2> TAKE d \in Conns
 <2>1. CASE d # c
  <3>1. up'[d] = up[d]  BY <1>5, <2>1, ReceivedProperties
  <3> QED  BY <1>1, <1>5, <3>1, SamePeerOK DEF SamePeer
 <2>2. CASE d = c
  <3>1. /\ Len(up'[d]) = Len(up[d]) - 1 /\ Len(up[d]) \in Nat
        /\ \A i \in DOMAIN up'[d] :
             i + 1 \in DOMAIN up[d] /\ up'[d][i] = up[d][i + 1]
    BY <1>5, <2>2, ReceivedProperties
  <3>2. \A i \in DOMAIN up'[d] : Asked(d, up'[d][i])  BY <1>1, <3>1 DEF PeerOK
  <3>3. \A i \in DOMAIN up'[d] : Asked(d, up[d][i])'  BY <1>5, <3>2 DEF Asked
  <3>4. step[d] \notin {"start", "connected"}  BY <1>1, <1>5, <2>2 DEF PeerOK
  <3>5. d \notin Servers => Len(up'[d]) <= 1  BY <1>1, <3>1 DEF PeerOK
  <3> QED  BY <1>1, <1>5, <3>3, <3>4, <3>5 DEF PeerOK
 <2> QED  BY <2>1, <2>2
<1>6. ASSUME NEW c \in Conns, Removed(c), peer[c] = "closed"
      PROVE  \A d \in Conns : PeerOK(d)'
 <2>1. /\ up'[c] = <<>> /\ \A d \in Conns : d # c => up'[d] = up[d]
       /\ \A d \in Conns : d # c => fdOf'[d] = fdOf[d]
       /\ UNCHANGED <<step, peer, got, down, running>>
   BY <1>6 DEF Removed, Carried, Shape
 <2> TAKE d \in Conns
 <2>2. CASE d # c  BY <1>1, <2>1, <2>2, SamePeerOK DEF SamePeer
 <2>3. CASE d = c
  <3>1. DOMAIN up'[d] = {} /\ Len(up'[d]) <= 1  BY <2>1, <2>3
  <3> QED  BY <1>1, <1>6, <2>1, <2>3, <3>1 DEF PeerOK
 <2> QED  BY <2>2, <2>3
<1>7. ASSUME NEW c \in Conns, Handle(c)
      PROVE  \/ Removed(c) /\ peer[c] = "closed"
             \/ /\ up[c] # <<>> /\ Received(c)
                /\ UNCHANGED <<step, peer, got, down, running, fdOf>>
 <2>1. HandleHangup(c) => Removed(c) /\ peer[c] = "closed"
   BY AtClientProperties DEF HandleHangup
 <2>2. up[c] # <<>> /\ HandleTruncated(c, Head(up[c]))
         => Removed(c) /\ peer[c] = "closed"
  <3>1. up[c] # <<>> => Asked(c, Head(up[c]))
   <4>1. up[c] # <<>> => Head(up[c]) = up[c][1] /\ 1 \in DOMAIN up[c]
     BY HeadAndTail DEF Carried
   <4> QED  BY <1>1, <4>1 DEF PeerOK
  <3> QED  BY <3>1 DEF HandleTruncated, Asked
 <2> QED  BY <1>7, <2>1, <2>2 DEF Handle, HandleRegister, HandleSubscribe, HandleTransact,
             HandleReply
<1>8. CASE EndRound \/ SendMessageFails \/ RegistryChanges
  BY <1>2, <1>8 DEF EndRound, SendMessageFails, RegistryChanges, kernel, daemon, SamePeer
<1>9. CASE SendMessage
 <2>1. outbox # <<>> /\ outbox \in Seq(Sending)  BY <1>9 DEF SendMessage, Carried
 <2>2. Head(outbox) \in Sending  BY <2>1, HeadAndTail
 <2>3. PICK c \in Conns : /\ fdOf[c] = Head(outbox).fd /\ peer[c] = "open"
                          /\ down' = [down EXCEPT ![c] = Append(@, Head(outbox).msg)]
   BY <1>9 DEF SendMessage
 <2>4. fdOf[c] # NoFd  BY <2>2, <2>3, FdsArePositive DEF Sending
 <2>5. UNCHANGED <<step, peer, got, up, running, fdOf>>  BY <1>9 DEF SendMessage
 <2>6. \A d \in Conns : d # c => PeerOK(d)'
   BY <1>1, <2>3, <2>5, SamePeerOK DEF SamePeer, Carried
 <2>7. PeerOK(c)'  BY <1>1, <2>3, <2>4, <2>5 DEF PeerOK, Asked
 <2> QED  BY <2>6, <2>7
<1>10. CASE Terminate
 <2>1. /\ \A d \in Conns : up'[d] = <<>>
       /\ UNCHANGED <<step, peer, got, down>>
   BY <1>10 DEF Terminate
 <2>2. ~running'  BY <1>10, Zenon DEF Terminate
 <2>3. DOMAIN <<>> = {} /\ Len(<<>>) <= 1  OBVIOUS
 <2> QED  BY <1>1, <2>1, <2>2, <2>3 DEF PeerOK
<1>11. ASSUME NEW c \in Conns, Connect(c)
       PROVE  \A d \in Conns : PeerOK(d)'
 <2>1. /\ step[c] = "start" /\ step'[c] = "connected" /\ peer'[c] = "open"
       /\ \A d \in Conns : d # c => step'[d] = step[d] /\ peer'[d] = peer[d]
       /\ UNCHANGED <<up, down, got, running, fdOf>>
   BY <1>11 DEF Connect, daemon, Shape
 <2>2. \A d \in Conns : d # c => PeerOK(d)'  BY <1>1, <2>1, SamePeerOK DEF SamePeer
 <2>3. DOMAIN <<>> = {} /\ Len(<<>>) <= 1  OBVIOUS
 <2>4. PeerOK(c)'  BY <1>1, <2>1, <2>3 DEF PeerOK
 <2> QED  BY <2>2, <2>4
<1>12. ASSUME NEW c \in Conns, NEW m \in Messages, Sends(c, m), Asked(c, m)',
              step[c] \in {"connected", "replying"},
              c \notin Servers => step[c] = "connected",
              step' = [step EXCEPT ![c] = IF step[c] = "connected" THEN "waiting"
                                                                   ELSE "serving"],
              \A d \in Conns : d # c => got'[d] = got[d],
              step[c] = "replying" => got'[c] # <<>>
       PROVE  \A d \in Conns : PeerOK(d)'
 <2>1. /\ up'[c] = Append(up[c], m) /\ \A d \in Conns : d # c => up'[d] = up[d]
       /\ UNCHANGED <<peer, down, running, fdOf>> /\ peer[c] = "open"
   BY <1>12 DEF Sends, Carried, daemon
 <2>2. /\ step'[c] = IF step[c] = "connected" THEN "waiting" ELSE "serving"
       /\ \A d \in Conns : d # c => step'[d] = step[d]
   BY <1>12 DEF Shape
 <2>3. \A d \in Conns : d # c => PeerOK(d)'  BY <1>1, <1>12, <2>1, <2>2, SamePeerOK DEF SamePeer
 <2>4. /\ Len(up[c]) \in Nat /\ Len(up'[c]) = Len(up[c]) + 1
       /\ DOMAIN up[c] = 1..Len(up[c]) /\ DOMAIN up'[c] = 1..(Len(up[c]) + 1)
       /\ \A i \in DOMAIN up[c] : up'[c][i] = up[c][i]
       /\ up'[c][Len(up[c]) + 1] = m
   BY <2>1, Appended DEF Carried
 <2>5. c \notin Servers => Len(up'[c]) <= 1
  <3>1. c \notin Servers => up[c] = <<>>  BY <1>1, <1>12 DEF PeerOK
  <3>2. Len(<<>>) = 0  OBVIOUS
  <3> QED  BY <2>4, <3>1, <3>2
 <2>6. \A i \in DOMAIN up'[c] : Asked(c, up[c][i])'
  <3> TAKE i \in DOMAIN up'[c]
  <3>1. CASE i = Len(up[c]) + 1  BY <1>12, <2>4, <3>1
  <3>2. CASE i # Len(up[c]) + 1
   <4>1. i \in DOMAIN up[c]  BY <2>4, <3>2
   <4>2. Asked(c, up[c][i])  BY <1>1, <4>1 DEF PeerOK
   <4> QED  BY <2>1, <2>4, <4>1, <4>2 DEF Asked
  <3> QED  BY <3>1, <3>2
 <2>7. PeerOK(c)'  BY <1>1, <1>12, <2>1, <2>2, <2>5, <2>6 DEF PeerOK
 <2> QED  BY <2>3, <2>7
<1>13. ASSUME NEW c \in Conns, Request(c)
       PROVE  \A d \in Conns : PeerOK(d)'
 <2>1. PICK m \in Requests(c) : Sends(c, m)  BY <1>13 DEF Request
 <2>2. m \in Messages /\ Asked(c, m)'
   BY OneProgram DEF Requests, Msg, Messages, Ops, Bodies, Asked
 <2> QED  BY <1>12, <1>13, <2>1, <2>2 DEF Request
<1>14. ASSUME NEW c \in Conns, SendReply(c)
       PROVE  \A d \in Conns : PeerOK(d)'
 <2>1. step[c] = "replying" /\ c \in Servers /\ got[c][2] \in Messages
   BY <1>1, <1>14 DEF SendReply, PeerOK
 <2>2. PICK m \in Messages :
         m = Msg("BinderReply", got[c][2].id, got[c][2].name, got[c][2].body)
   BY <2>1 DEF Msg, Messages, Ops
 <2>3. got'[c] = <<Head(got[c])>> /\ \A d \in Conns : d # c => got'[d] = got[d]
   BY <1>14 DEF SendReply, Carried
 <2>4. got'[c] # <<>>  BY <2>3
 <2>5. step' = [step EXCEPT ![c] = IF step[c] = "connected" THEN "waiting"
                                                            ELSE "serving"]
   BY <1>14, <2>1 DEF SendReply
 <2>6. Sends(c, m)  BY <1>14, <2>2 DEF SendReply
 <2>7. Asked(c, m)'  BY <2>1, <2>2 DEF Msg, Asked
 <2> QED  BY <1>12, <2>1, <2>2, <2>3, <2>4, <2>5, <2>6, <2>7
<1>15. ASSUME NEW c \in Conns, Closes(c), UNCHANGED <<fdOf, running>>, peer[c] = "open",
              \A d \in Conns : d # c => up'[d] = up[d] /\ got'[d] = got[d],
              c \notin Servers => Len(up'[c]) <= 1,
              \A i \in DOMAIN up'[c] : Asked(c, up[c][i])'
       PROVE  \A d \in Conns : PeerOK(d)'
 <2>1. /\ step'[c] = "done" /\ peer'[c] = "closed" /\ down'[c] = <<>>
       /\ \A d \in Conns : d # c =>
            step'[d] = step[d] /\ peer'[d] = peer[d] /\ down'[d] = down[d]
   BY <1>15 DEF Closes, Shape, Carried
 <2>2. \A d \in Conns : d # c => PeerOK(d)'  BY <1>1, <1>15, <2>1, SamePeerOK DEF SamePeer
 <2>3. PeerOK(c)'  BY <1>15, <2>1 DEF PeerOK
 <2> QED  BY <2>2, <2>3
<1>16. ASSUME NEW c \in Conns, Closes(c), UNCHANGED <<up, fdOf, running>>, peer[c] = "open",
              \A d \in Conns : d # c => got'[d] = got[d]
       PROVE  \A d \in Conns : PeerOK(d)'
 <2>1. \A i \in DOMAIN up'[c] : Asked(c, up[c][i])'
  <3>1. peer'[c] = "closed"  BY <1>16 DEF Closes, Shape
  <3> QED  BY <1>1, <1>16, <3>1 DEF PeerOK, Asked
 <2>2. c \notin Servers => Len(up'[c]) <= 1  BY <1>1, <1>16 DEF PeerOK
 <2> QED  BY <1>15, <1>16, <2>1, <2>2
<1>17. ASSUME NEW c \in Conns, Killed(c)
       PROVE  \A d \in Conns : PeerOK(d)'
 <2>1. Closes(c) /\ peer[c] = "open" /\ UNCHANGED <<fdOf, running, got>>
   BY <1>17 DEF Killed, daemon
 <2>2. CASE up' = up  BY <1>16, <2>1, <2>2
 <2> DEFINE m == Msg("Truncated", 0, NoName, c)
 <2>3. CASE /\ step[c] \in {"connected", "replying"}
            /\ up' = [up EXCEPT ![c] = Append(@, m)]
  <3>1. m \in Messages /\ m.op = "Truncated" /\ peer'[c] = "closed"
    BY <2>1 DEF Msg, Messages, Ops, Bodies, Closes, Shape
  <3>2. Asked(c, m)'  BY <3>1 DEF Asked
  <3> HIDE DEF m
  <3>3. up'[c] = Append(up[c], m) /\ \A d \in Conns : d # c => up'[d] = up[d]
    BY <2>3 DEF Carried
  <3>4. /\ Len(up[c]) \in Nat /\ Len(up'[c]) = Len(up[c]) + 1
        /\ DOMAIN up[c] = 1..Len(up[c]) /\ DOMAIN up'[c] = 1..(Len(up[c]) + 1)
        /\ \A i \in DOMAIN up[c] : up'[c][i] = up[c][i]
        /\ up'[c][Len(up[c]) + 1] = m
    BY <3>1, <3>3, Appended DEF Carried
  <3>5. c \notin Servers => Len(up'[c]) <= 1
   <4>1. c \notin Servers => up[c] = <<>>  BY <1>1, <2>3 DEF PeerOK
   <4>2. Len(<<>>) = 0  OBVIOUS
   <4> QED  BY <3>4, <4>1, <4>2
  <3>6. \A i \in DOMAIN up'[c] : Asked(c, up[c][i])'
   <4> TAKE i \in DOMAIN up'[c]
   <4>1. CASE i = Len(up[c]) + 1  BY <3>2, <3>4, <4>1
   <4>2. CASE i # Len(up[c]) + 1
    <5>1. i \in DOMAIN up[c]  BY <3>4, <4>2
    <5>2. Asked(c, up[c][i])  BY <1>1, <5>1 DEF PeerOK
    <5> QED  BY <3>1, <3>4, <5>1, <5>2 DEF Asked
   <4> QED  BY <4>1, <4>2
  <3> QED  BY <1>15, <2>1, <3>3, <3>5, <3>6
 <2> QED  BY <1>17, <2>2, <2>3 DEF Killed
<1>18. ASSUME NEW c \in Conns, down[c] # <<>>, Receives(c),
              UNCHANGED <<peer, up, fdOf, running>>,
              \A d \in Conns : d # c => got'[d] = got[d] /\ step'[d] = step[d],
              \/ step'[c] = step[c] /\ step[c] = "waiting"
              \/ step[c] = "waiting" /\ c \in Servers /\ step'[c] = "serving" /\ got'[c] # <<>>
              \/ /\ step[c] = "serving" /\ step'[c] = "replying" /\ got'[c] # <<>>
                 /\ Len(got'[c]) = 2 /\ got'[c][2] \in Messages
       PROVE  \A d \in Conns : PeerOK(d)'
 <2>1. \A d \in Conns : d # c => down'[d] = down[d]  BY <1>18 DEF Receives, Carried
 <2>2. \A d \in Conns : d # c => PeerOK(d)'  BY <1>1, <1>18, <2>1, SamePeerOK DEF SamePeer
 <2>3. PeerOK(c)'  BY <1>1, <1>18 DEF PeerOK, Receives, Asked
 <2> QED  BY <2>2, <2>3
<1>19. ASSUME NEW c \in Conns, ReceiveReply(c, Head(down[c])) \/ ReceiveEof(c)
       PROVE  \A d \in Conns : PeerOK(d)'
  BY <1>16, <1>19 DEF ReceiveReply, ReceiveEof, daemon, Carried
<1>20. ASSUME NEW c \in Conns, down[c] # <<>>, ReceiveRegistration(c, Head(down[c]))
       PROVE  \A d \in Conns : PeerOK(d)'
 <2>1. \/ Closes(c) /\ UNCHANGED got
       \/ /\ Receives(c) /\ step' = [step EXCEPT ![c] = "serving"]
          /\ got' = [got EXCEPT ![c] = <<Head(down[c]).name>>] /\ UNCHANGED peer
   BY <1>20 DEF ReceiveRegistration
 <2>2. step[c] = "waiting" /\ c \in Servers /\ peer[c] = "open"
       /\ UNCHANGED <<up, fdOf, running>>
   BY <1>20 DEF ReceiveRegistration, daemon
 <2>3. <<Head(down[c]).name>> # <<>>  OBVIOUS
 <2> QED  BY <1>16, <1>18, <1>20, <2>1, <2>2, <2>3 DEF Shape, Carried
<1>21. ASSUME NEW c \in Conns, down[c] # <<>>, ReceiveIncoming(c, Head(down[c]))
       PROVE  \A d \in Conns : PeerOK(d)'
 <2> DEFINE m == Head(down[c])
 <2>1. m \in Messages  BY <1>21, HeadAndTail DEF Carried
 <2>2. /\ got'[c] = <<Head(got[c]), m>>
       /\ \A d \in Conns : d # c => got'[d] = got[d] /\ step'[d] = step[d]
       /\ step[c] = "serving" /\ step'[c] = "replying"
       /\ Receives(c) /\ UNCHANGED <<peer, up, fdOf, running>>
   BY <1>21 DEF ReceiveIncoming, Carried, Shape, daemon
 <2>3. got'[c] # <<>> /\ Len(got'[c]) = 2 /\ got'[c][2] = m  BY <2>2
 <2> QED  BY <1>18, <1>21, <2>1, <2>2, <2>3
<1>22. ASSUME NEW c \in Conns, down[c] # <<>>, ReceivePush(c, Head(down[c]))
       PROVE  \A d \in Conns : PeerOK(d)'
  BY <1>18, <1>22 DEF ReceivePush, daemon, Carried
<1> QED  BY <1>3, <1>4, <1>5, <1>6, <1>7, <1>8, <1>9, <1>10, <1>11, <1>13, <1>14, <1>17,
     <1>19, <1>20, <1>21, <1>22
  DEF Next, Loop, Program

----
(* The registry.                                                           *)

\* A name and a transaction are entered with descriptors in use, and leave the
\* tables with the remove_client block of their connection.
LEMMA RegisteredStep ==
  ASSUME Shape, Carried, Connected, Peers, Registered, [Next]_vars
  PROVE  Registered'
<1> USE DEF Registered
<1>0. /\ \A c \in Conns : fdOf[c] \in Fds \cup {NoFd}
      /\ \A c, d \in Conns : fdOf[c] = fdOf[d] /\ fdOf[c] # NoFd => c = d
      /\ \A c \in Callers : c \in Conns
      /\ \A s \in Servers : s \in Conns
  BY OneProgram DEF Shape, Connected, Accepted
<1>1. CASE UNCHANGED <<owned, fdOf, services, pending, nextTxn, subscribed, running>>  BY <1>1
<1>2. CASE Poll
 <2>1. UNCHANGED <<owned, services, pending, nextTxn, subscribed, running>>
   BY <1>2 DEF Poll, registry, pushes
 <2>2. \A c \in Conns : fdOf[c] # NoFd => fdOf'[c] = fdOf[c]
  <3>1. CASE backlog = <<>>  BY <1>2, <3>1 DEF Poll
  <3>2. CASE backlog # <<>>
   <4>1. Head(backlog) = backlog[1] /\ 1 \in DOMAIN backlog  BY <3>2, HeadAndTail DEF Shape
   <4>2. fdOf[Head(backlog)] = NoFd  BY <4>1 DEF Connected, Accepted
   <4>3. \E fd \in Fds : fdOf' = [fdOf EXCEPT ![Head(backlog)] = fd]  BY <1>2, <3>2 DEF Poll
   <4> QED  BY <4>2, <4>3 DEF Shape
  <3> QED  BY <3>1, <3>2
 <2>3. \A p \in pending : p.caller # NoFd /\ p.owner # NoFd
   BY FdsArePositive DEF Shape, Transactions
 <2>4. \A n \in Names : services[n] \in Fds => services[n] # NoFd  BY FdsArePositive
 <2>5. \A c \in Conns : owned'[c] # {} => c \in Servers /\ fdOf'[c] # NoFd  BY <2>1, <2>2
 <2>6. running' => \A n \in Names : services'[n] \in Fds =>
         \E s \in Servers : fdOf'[s] = services'[n] /\ n \in owned'[s]
   BY <1>0, <2>1, <2>2, <2>4
 <2>7. \A p \in pending' :
         /\ p.txn < nextTxn' /\ p.id = 1
         /\ \E c \in Callers : fdOf'[c] = p.caller
         /\ \E s \in Servers : fdOf'[s] = p.owner /\ owned'[s] # {}
   BY <1>0, <2>1, <2>2, <2>3
 <2>8. \A w \in subscribed' : w \in Watchers /\ fdOf'[w] # NoFd  BY <2>1, <2>2, OneProgram
 <2> QED  BY <2>1, <2>5, <2>6, <2>7, <2>8
<1>3. ASSUME NEW c \in Conns, up[c] # <<>>, Received(c)
      PROVE  fdOf[c] \in Fds /\ Asked(c, Head(up[c])) /\ fdOf[c] # NoFd
 <2>1. AtClient(c, "in")  BY <1>3 DEF Received
 <2> QED  BY <1>3, <2>1, AtClientProperties, ReceivedProperties, FdsArePositive
<1>4. ASSUME NEW c \in Conns, up[c] # <<>>, HandleRegister(c, Head(up[c]))
      PROVE  Registered'
 <2> DEFINE m == Head(up[c])
 <2>1. c \in Servers /\ m.name \in Names /\ fdOf[c] \in Fds /\ fdOf[c] # NoFd
   BY <1>3, <1>4 DEF HandleRegister, Asked
 <2>2. UNCHANGED <<fdOf, pending, nextTxn, subscribed, running>>
   BY <1>4 DEF HandleRegister, pushes
 <2>3. CASE Available(m.name)
  <3>1. /\ services'[m.name] = fdOf[c]
        /\ \A n \in Names : n # m.name => services'[n] = services[n]
        /\ owned'[c] = owned[c] \cup {m.name}
        /\ \A d \in Conns : d # c => owned'[d] = owned[d]
    BY <1>4, <2>1, <2>3 DEF HandleRegister, Shape
  <3>2. \A d \in Conns : owned[d] \subseteq owned'[d]  BY <3>1
  <3>3. ASSUME NEW n \in Names, services'[n] \in Fds, running
        PROVE  \E s \in Servers : fdOf[s] = services'[n] /\ n \in owned'[s]
   <4>1. CASE n = m.name  BY <2>1, <3>1, <4>1
   <4>2. CASE n # m.name  BY <1>0, <3>1, <3>2, <3>3, <4>2
   <4> QED  BY <4>1, <4>2
  <3>4. \A d \in Conns : owned'[d] # {} => d \in Servers /\ fdOf[d] # NoFd  BY <2>1, <3>1
  <3>5. \A p \in pending : \E s \in Servers : fdOf[s] = p.owner /\ owned'[s] # {}
   <4> TAKE p \in pending
   <4>1. PICK s \in Servers : fdOf[s] = p.owner /\ owned[s] # {}  OBVIOUS
   <4> QED  BY <1>0, <3>2, <4>1
  <3> QED  BY <2>2, <3>3, <3>4, <3>5
 <2>4. CASE ~Available(m.name)
  <3>1. services' = services /\ owned' = owned  BY <1>4, <2>4 DEF HandleRegister
  <3> QED  BY <1>1, <2>2, <3>1
 <2> QED  BY <2>3, <2>4
<1>5. ASSUME NEW c \in Conns, up[c] # <<>>, HandleSubscribe(c, Head(up[c]))
      PROVE  Registered'
 <2>1. c \in Watchers /\ fdOf[c] # NoFd  BY <1>3, <1>5 DEF HandleSubscribe, Asked
 <2> QED  BY <1>5, <2>1 DEF HandleSubscribe, registry
<1>6. ASSUME NEW c \in Conns, up[c] # <<>>, HandleTransact(c, Head(up[c]))
      PROVE  Registered'
 <2> DEFINE m == Head(up[c])
            p == [txn |-> nextTxn, caller |-> fdOf[c],
                  owner |-> services[m.name], id |-> m.id]
 <2>1. /\ c \in Callers /\ m.name \in Names /\ m.id = 1 /\ fdOf[c] # NoFd
       /\ AtClient(c, "in")
   BY <1>3, <1>6 DEF HandleTransact, Asked, Received
 <2>2. UNCHANGED <<fdOf, services, owned, subscribed, running>>
   BY <1>6 DEF HandleTransact, pushes
 <2>3. CASE services[m.name] \in {Missing, Declared}
   BY <1>1, <1>6, <2>2, <2>3 DEF HandleTransact
 <2>4. CASE services[m.name] \notin {Missing, Declared}
  <3>1. pending' = pending \cup {p} /\ nextTxn' = nextTxn + 1  BY <1>6, <2>4 DEF HandleTransact
  <3>2. services[m.name] \in Fds /\ running  BY <2>1, <2>4, AtClientProperties DEF Shape
  <3>3. \E s \in Servers : fdOf[s] = services[m.name] /\ owned[s] # {}  BY <2>1, <3>2
  <3>4. /\ p.txn = nextTxn /\ p.caller = fdOf[c] /\ p.owner = services[m.name]
        /\ p.id = 1
    BY <2>1
  <3> HIDE DEF p, m
  <3>5. nextTxn \in Nat /\ \A q \in pending : q.txn \in Nat /\ q.txn < nextTxn
    BY DEF Shape, Transactions
  <3>6. \A q \in pending' : q.txn < nextTxn'  BY <3>1, <3>4, <3>5
  <3>7. \A q, r \in pending' : q.txn = r.txn => q = r  BY <3>1, <3>4, <3>5
  <3>8. \A q \in pending' :
          /\ q.id = 1
          /\ \E d \in Callers : fdOf[d] = q.caller
          /\ \E s \in Servers : fdOf[s] = q.owner /\ owned[s] # {}
    BY <2>1, <3>1, <3>3, <3>4
  <3> QED  BY <2>2, <3>6, <3>7, <3>8
 <2> QED  BY <2>3, <2>4
<1>7. ASSUME pending' \subseteq pending,
             UNCHANGED <<fdOf, services, owned, nextTxn, subscribed, running>>
      PROVE  Registered'
  BY <1>7
<1>8. ASSUME NEW c \in Conns, up[c] # <<>>, HandleReply(c, Head(up[c]))
      PROVE  Registered'
  BY <1>7, <1>8 DEF HandleReply, pushes
<1>9. CASE SendMessageFails
 <2>1. pending' \subseteq pending  BY <1>9 DEF SendMessageFails
 <2> QED  BY <1>7, <1>9, <2>1 DEF SendMessageFails, kernel, pushes
<1>10. ASSUME NEW c \in Conns, NEW e \in {"in", "hup"}, AtClient(c, e), Removed(c)
       PROVE  Registered'
 <2>1. /\ fdOf'[c] = NoFd /\ \A d \in Conns : d # c => fdOf'[d] = fdOf[d]
       /\ owned'[c] = {} /\ \A d \in Conns : d # c => owned'[d] = owned[d]
       /\ UNCHANGED <<nextTxn, running>> /\ subscribed' = subscribed \ {c}
   BY <1>10 DEF Removed, Shape
 <2>2. fdOf[c] # NoFd  BY <1>10, AtClientProperties, FdsArePositive
 <2>3. pending' = {p \in pending : fdOf[c] \notin {p.owner, p.caller}}
   BY <1>10 DEF Removed, StillPending
 <2>4. \A n \in Names : services'[n] = IF n \in owned[c] /\ services[n] = fdOf[c]
                                       THEN Missing ELSE services[n]
   BY <1>10 DEF Removed, ServicesWithout
 <2>5. ASSUME NEW n \in Names, services'[n] \in Fds, running
       PROVE  \E s \in Servers : fdOf'[s] = services'[n] /\ n \in owned'[s]
  <3>1. services'[n] = services[n] /\ ~(n \in owned[c] /\ services[n] = fdOf[c])
    BY <2>4, <2>5, FdsArePositive
  <3>2. PICK s \in Servers : fdOf[s] = services[n] /\ n \in owned[s]  BY <2>5, <3>1
  <3> QED  BY <1>0, <2>1, <3>1, <3>2
 <2>6. ASSUME NEW p \in pending'
       PROVE  /\ p.txn < nextTxn' /\ p.id = 1
              /\ \E d \in Callers : fdOf'[d] = p.caller
              /\ \E s \in Servers : fdOf'[s] = p.owner /\ owned'[s] # {}
  <3>1. p \in pending /\ p.owner # fdOf[c] /\ p.caller # fdOf[c]  BY <2>3
  <3>2. PICK d \in Callers : fdOf[d] = p.caller  BY <3>1
  <3>3. PICK s \in Servers : fdOf[s] = p.owner /\ owned[s] # {}  BY <3>1
  <3> QED  BY <1>0, <2>1, <3>1, <3>2, <3>3
 <2>7. \A w \in subscribed' : w \in Watchers /\ fdOf'[w] # NoFd  BY <2>1, OneProgram
 <2>8. \A d \in Conns : owned'[d] # {} => d \in Servers /\ fdOf'[d] # NoFd  BY <2>1
 <2>9. \A p, q \in pending' : p.txn = q.txn => p = q  BY <2>3
 <2> QED  BY <2>1, <2>5, <2>6, <2>7, <2>8, <2>9
<1>11. CASE Terminate
 <2>1. ~running' /\ pending' = {} /\ subscribed' = {}  BY <1>11, Zenon DEF Terminate
 <2>2. \A c \in Conns : owned'[c] = {}  BY <1>11 DEF Terminate
 <2> QED  BY <2>1, <2>2
<1>12. CASE EndRound \/ SendMessage \/ RegistryChanges \/ UNCHANGED vars
  BY <1>1, <1>12 DEF EndRound, SendMessage, RegistryChanges, vars, kernel, daemon, registry,
     pushes
<1>13. ASSUME NEW c \in Conns, Connect(c) \/ Program(c) \/ Killed(c)
       PROVE  Registered'
 <2>1. UNCHANGED <<owned, fdOf, services, pending, nextTxn, subscribed, running>>
   BY <1>13 DEF Connect, Program, Killed, Request, Sends, ReceiveReply, ReceiveRegistration,
      ReceiveIncoming, ReceivePush, Receives, SendReply, ReceiveEof, daemon, registry
 <2> QED  BY <1>1, <2>1
<1> QED  BY <1>2, <1>4, <1>5, <1>6, <1>8, <1>9, <1>10, <1>11, <1>12, <1>13
  DEF Next, Loop, Handle, HandleHangup, HandleTruncated

\* The layer of the invariant that is about the daemon.
Base == Shape /\ Carried /\ Connected /\ Peers /\ Registered

\* Base is inductive.
LEMMA BaseInvariant == Spec => []Base
<1>1. Init => Base  BY ShapeInit, CarriedInit, ConnectedInit DEF Base
<1>2. Base /\ [Next]_vars => Base'
  BY ShapeStep, CarriedStep, AcceptedStep, StoppedStep, PeersStep, RegisteredStep
  DEF Base, Connected
<1> QED  BY <1>1, <1>2, PTL DEF Spec

\* muplard names connections by descriptor numbers that the kernel reuses;
\* neither its service registry nor its table of pending transactions keeps a
\* number after the client block that closes it, for any number of clients.
THEOREM DescriptorsAreCurrent == Spec => []NoStaleDescriptor
<1>1. Base => NoStaleDescriptor
 <2> SUFFICES ASSUME Base, running PROVE NoStaleDescriptor  BY Zenon DEF NoStaleDescriptor
 <2>1. \A c \in Conns : fdOf[c] # NoFd <=> c \in Range(clients)
   BY DEF Base, Connected, Accepted, Range
 <2>2. Range(clients) \subseteq Conns  BY DEF Base, Shape, Range
 <2>3. \A c, d \in Range(clients) : fdOf[c] = fdOf[d] => c = d
   BY <2>1, <2>2 DEF Base, Connected, Accepted
 <2>4. {c \in Conns : fdOf[c] # NoFd} = Range(clients)  BY <2>1, <2>2
 <2>5. \A n \in Names : services[n] \in Fds =>
         \E c \in Range(clients) : fdOf[c] = services[n] /\ n \in owned[c]
   BY <2>1, OneProgram, FdsArePositive DEF Base, Registered
 <2>6. \A p \in pending : p.caller # NoFd /\ p.owner # NoFd
   BY FdsArePositive DEF Base, Shape, Transactions
 <2>7. \A p \in pending :
         /\ \E c \in Range(clients) : fdOf[c] = p.caller
         /\ \E c \in Range(clients) : fdOf[c] = p.owner /\ owned[c] # {}
   BY <2>1, <2>6, OneProgram DEF Base, Registered
 <2> QED  BY <2>3, <2>4, <2>5, <2>7 DEF NoStaleDescriptor
<1> QED  BY <1>1, BaseInvariant, PTL

----
(* Who the daemon sends to.                                                *)

\* The facts of Base that the rest of the proofs use most.
LEMMA Descriptors ==
  ASSUME Base
  PROVE  /\ \A c \in Conns : fdOf[c] \in Fds \/ fdOf[c] = NoFd
         /\ \A c, d \in Conns : fdOf[c] = fdOf[d] /\ fdOf[c] # NoFd => c = d
         /\ \A i \in DOMAIN outbox : outbox[i] \in Sending /\ outbox[i].fd # NoFd
         /\ \A p \in pending : p.caller # NoFd /\ p.owner # NoFd
         /\ \A c \in Callers : c \in Conns
         /\ \A c \in Servers : c \in Conns
         /\ \A c \in Watchers : c \in Conns
<1>1. \A i \in DOMAIN outbox : outbox[i] \in Sending  BY DEF Base, Carried
<1>2. \A i \in DOMAIN outbox : outbox[i].fd # NoFd  BY <1>1, FdsArePositive DEF Sending
<1>3. \A p \in pending : p.caller # NoFd /\ p.owner # NoFd
  BY FdsArePositive DEF Base, Shape, Transactions
<1> QED  BY <1>1, <1>2, <1>3, OneProgram DEF Base, Shape, Connected, Accepted

\* Answers go to callers the daemon still has.
LEMMA Answering ==
  ASSUME Base, NEW ps \in SUBSET pending, NEW body \in Bodies, Tells(ps, body)
  PROVE  /\ \A i \in DOMAIN outbox' :
              /\ outbox'[i].msg.op = "BinderTransact"
              /\ outbox'[i].msg.body = body
              /\ outbox'[i].fd # NoFd
              /\ \E p \in ps : p.caller = outbox'[i].fd
              /\ \E c \in Callers : fdOf[c] = outbox'[i].fd
         /\ \A p \in ps : (\A q \in ps : q.caller = p.caller => q = p) =>
              \E i \in DOMAIN outbox' :
                /\ outbox'[i].fd = p.caller
                /\ \A j \in DOMAIN outbox' : outbox'[j].fd = p.caller => j = i
<1>1. ps \in SUBSET Transactions /\ IsFiniteSet(ps)  BY FS_Subset DEF Base, Shape
<1>2. /\ \A i \in DOMAIN outbox' :
           \E p \in ps : outbox'[i] = Answer(p.caller, p.id, body)
      /\ \A p \in ps : (\A q \in ps : q.caller = p.caller => q = p) =>
           \E i \in DOMAIN outbox' :
             /\ outbox'[i].fd = p.caller
             /\ \A j \in DOMAIN outbox' : outbox'[j].fd = p.caller => j = i
  BY <1>1, TellsProperties
<1>3. ASSUME NEW i \in DOMAIN outbox'
      PROVE  /\ outbox'[i].msg.op = "BinderTransact"
             /\ outbox'[i].msg.body = body
             /\ outbox'[i].fd # NoFd
             /\ \E p \in ps : p.caller = outbox'[i].fd
             /\ \E c \in Callers : fdOf[c] = outbox'[i].fd
 <2>1. PICK p \in ps : outbox'[i] = Answer(p.caller, p.id, body)  BY <1>2
 <2>2. /\ outbox'[i].fd = p.caller /\ outbox'[i].msg.op = "BinderTransact"
       /\ outbox'[i].msg.body = body
   BY <2>1 DEF Answer, To, Msg
 <2>3. p \in pending /\ p.caller # NoFd  BY Descriptors
 <2>4. \E c \in Callers : fdOf[c] = p.caller  BY <2>3 DEF Base, Registered
 <2> QED  BY <2>2, <2>3, <2>4
<1> QED  BY <1>2, <1>3

\* The queue without its first element.
LEMMA Dequeued ==
  ASSUME Base, outbox # <<>>, outbox' = Tail(outbox)
  PROVE  /\ Head(outbox) = outbox[1] /\ 1 \in DOMAIN outbox /\ Head(outbox) \in Sending
         /\ Len(outbox) \in Nat /\ DOMAIN outbox = 1..Len(outbox)
         /\ Len(outbox') = Len(outbox) - 1
         /\ \A i \in DOMAIN outbox' : /\ i + 1 \in DOMAIN outbox /\ i \in Nat
                                      /\ outbox'[i] = outbox[i + 1] /\ i + 1 # 1
         /\ \A i \in DOMAIN outbox : i # 1 =>
              i - 1 \in DOMAIN outbox' /\ outbox'[i - 1] = outbox[i]
<1>1. outbox \in Seq(Sending)  BY DEF Base, Carried
<1>2. /\ Len(outbox) \in Nat /\ DOMAIN outbox = 1..Len(outbox)
      /\ Head(outbox) = outbox[1] /\ 1 \in DOMAIN outbox /\ Head(outbox) \in Sending
      /\ Len(outbox') = Len(outbox) - 1
      /\ DOMAIN outbox' = 1..(Len(outbox) - 1)
      /\ \A i \in DOMAIN outbox' : i + 1 \in DOMAIN outbox /\ outbox'[i] = outbox[i + 1]
  BY <1>1, HeadAndTail
<1>3. ASSUME NEW i \in DOMAIN outbox, i # 1
      PROVE  i - 1 \in DOMAIN outbox' /\ outbox'[i - 1] = outbox[i]
 <2>1. i - 1 \in DOMAIN outbox' /\ (i - 1) + 1 = i  BY <1>2, <1>3
 <2> QED  BY <1>2, <2>1
<1> QED  BY <1>2, <1>3

\* What a handler of client c starts from.
LEMMA AtReceive ==
  ASSUME Base, NEW c \in Conns, up[c] # <<>>, Received(c)
  PROVE  /\ running /\ outbox = <<>> /\ phase = "clients"
         /\ fdOf[c] \in Fds /\ fdOf[c] # NoFd
         /\ Head(up[c]) \in Messages /\ Asked(c, Head(up[c]))
         /\ Head(up[c]) = up[c][1] /\ 1 \in DOMAIN up[c]
         /\ up' \in [Conns -> Seq(Messages)]
         /\ \A d \in Conns : d # c => up'[d] = up[d]
         /\ up'[c] = Tail(up[c])
         /\ Len(up'[c]) = Len(up[c]) - 1 /\ Len(up[c]) \in Nat
         /\ Len(up[c]) = 1 => up'[c] = <<>>
         /\ \A i \in DOMAIN up'[c] :
              i + 1 \in DOMAIN up[c] /\ up'[c][i] = up[c][i + 1]
<1>1. AtClient(c, "in")  BY DEF Received
<1>2. /\ running /\ outbox = <<>> /\ phase = "clients" /\ fdOf[c] \in Fds
  BY <1>1, AtClientProperties DEF Base
<1>3. /\ Head(up[c]) \in Messages /\ Asked(c, Head(up[c]))
      /\ Head(up[c]) = up[c][1] /\ 1 \in DOMAIN up[c]
      /\ up' \in [Conns -> Seq(Messages)]
      /\ \A d \in Conns : d # c => up'[d] = up[d]
      /\ up'[c] = Tail(up[c])
      /\ Len(up'[c]) = Len(up[c]) - 1 /\ Len(up[c]) \in Nat
      /\ \A i \in DOMAIN up'[c] :
           i + 1 \in DOMAIN up[c] /\ up'[c][i] = up[c][i + 1]
  BY ReceivedProperties DEF Base
<1>4. Len(up[c]) = 1 => up'[c] = <<>>  BY <1>3
<1> QED  BY <1>2, <1>3, <1>4, FdsArePositive

\* What the removal of client c starts from, and what it does to the others.
LEMMA AtRemoval ==
  ASSUME Base, NEW c \in Conns, HandleHangup(c) \/ (up[c] # <<>> /\ HandleTruncated(c, Head(up[c])))
  PROVE  /\ running /\ running' = running /\ outbox = <<>> /\ phase = "clients"
         /\ peer[c] = "closed" /\ fdOf[c] \in Fds /\ fdOf[c] # NoFd
         /\ fdOf'[c] = NoFd /\ \A d \in Conns : d # c => fdOf'[d] = fdOf[d]
         /\ up'[c] = <<>> /\ \A d \in Conns : d # c => up'[d] = up[d]
         /\ owned'[c] = {} /\ \A d \in Conns : d # c => owned'[d] = owned[d]
         /\ pending' = {p \in pending : fdOf[c] \notin {p.owner, p.caller}}
         /\ Orphans(fdOf[c]) \in SUBSET pending /\ Tells(Orphans(fdOf[c]), DeadObject)
         /\ \A n \in Names : services'[n] = services[n] \/ services[n] = fdOf[c]
         /\ subscribed' = subscribed \ {c}
         /\ UNCHANGED <<peer, down, nextTxn, generation, step, got>>
<1>1. PICK e \in {"in", "hup"} : AtClient(c, e) /\ Removed(c)
  BY DEF HandleHangup, HandleTruncated
<1>2. running /\ outbox = <<>> /\ phase = "clients" /\ fdOf[c] \in Fds
  BY <1>1, AtClientProperties DEF Base
<1>3. peer[c] = "closed"
 <2>1. CASE HandleHangup(c)  BY <2>1, AtClientProperties DEF HandleHangup, Base
 <2>2. CASE up[c] # <<>> /\ HandleTruncated(c, Head(up[c]))
  <3>1. Head(up[c]) = up[c][1] /\ 1 \in DOMAIN up[c]  BY <2>2, HeadAndTail DEF Base, Carried
  <3>2. Asked(c, up[c][1])  BY <3>1 DEF Base, Peers, PeerOK
  <3> QED  BY <2>2, <3>1, <3>2 DEF HandleTruncated, Asked
 <2> QED  BY <2>1, <2>2
<1>4. /\ fdOf'[c] = NoFd /\ \A d \in Conns : d # c => fdOf'[d] = fdOf[d]
      /\ up'[c] = <<>> /\ \A d \in Conns : d # c => up'[d] = up[d]
      /\ owned'[c] = {} /\ \A d \in Conns : d # c => owned'[d] = owned[d]
  BY <1>1 DEF Removed, Base, Shape, Carried
<1>5. /\ pending' = {p \in pending : fdOf[c] \notin {p.owner, p.caller}}
      /\ Orphans(fdOf[c]) \in SUBSET pending /\ Tells(Orphans(fdOf[c]), DeadObject)
      /\ \A n \in Names : services'[n] = services[n] \/ services[n] = fdOf[c]
      /\ subscribed' = subscribed \ {c}
      /\ UNCHANGED <<peer, down, nextTxn, generation, step, got, running>>
  BY <1>1 DEF Removed, StillPending, Orphans, ServicesWithout
<1> QED  BY <1>2, <1>3, <1>4, <1>5, FdsArePositive

\* What the end of a round queues.
LEMMA AtEndRound ==
  ASSUME Base, EndRound
  PROVE  /\ running /\ outbox = <<>>
         /\ UNCHANGED <<peer, up, down, fdOf, services, owned, pending, nextTxn,
                        subscribed, step, got, running>>
         /\ \/ generation' = generation /\ outbox' = <<>>
            \/ /\ generation' = generation + 1
               /\ \A i \in DOMAIN outbox' :
                    /\ outbox'[i].msg.op = "PackageChanged"
                    /\ outbox'[i].msg.body = generation'
                    /\ \E w \in subscribed : fdOf[w] = outbox'[i].fd
               /\ \A w \in subscribed : \E i \in DOMAIN outbox' :
                    /\ outbox'[i].fd = fdOf[w]
                    /\ \A j \in DOMAIN outbox' : outbox'[j].fd = fdOf[w] => j = i
<1>1. /\ phase = "clients" /\ outbox = <<>>
      /\ UNCHANGED <<peer, up, down, fdOf, services, owned, pending, nextTxn,
                     subscribed, step, got, running>>
  BY DEF EndRound, kernel, registry
<1>2. running  BY <1>1, Zenon DEF Base, Connected, Stopped
<1>3. CASE stamp = prevStamp  BY <1>1, <1>2, <1>3 DEF EndRound
<1>4. CASE stamp # prevStamp
 <2> DEFINE g == generation + 1
 <2>1. generation' = g /\ Broadcast(g)  BY <1>4 DEF EndRound
 <2>2. g \in Nat /\ subscribed \subseteq Conns  BY DEF Base, Shape
 <2>3. /\ \A w \in subscribed : fdOf[w] \in Fds
       /\ \A c, d \in Conns : fdOf[c] = fdOf[d] /\ fdOf[c] # NoFd => c = d
   BY <2>2, Descriptors DEF Base, Registered
 <2> HIDE DEF g
 <2>4. /\ \A i \in DOMAIN outbox' :
            \E w \in subscribed : outbox'[i] = Push(w, g)
       /\ \A w \in subscribed : \E i \in DOMAIN outbox' :
            /\ outbox'[i] = Push(w, g)
            /\ \A j \in DOMAIN outbox' : outbox'[j].fd = fdOf[w] => j = i
   BY <2>1, <2>2, <2>3, BroadcastProperties
 <2>5. \A w : /\ Push(w, g).fd = fdOf[w] /\ Push(w, g).msg.op = "PackageChanged"
              /\ Push(w, g).msg.body = g
   BY DEF Push, To, Msg
 <2>6. \A i \in DOMAIN outbox' :
         /\ outbox'[i].msg.op = "PackageChanged"
         /\ outbox'[i].msg.body = generation'
         /\ \E w \in subscribed : fdOf[w] = outbox'[i].fd
   BY <2>1, <2>4, <2>5
 <2>7. \A w \in subscribed : \E i \in DOMAIN outbox' :
         /\ outbox'[i].fd = fdOf[w]
         /\ \A j \in DOMAIN outbox' : outbox'[j].fd = fdOf[w] => j = i
   BY <2>4, <2>5
 <2>8. generation' = generation + 1  BY <2>1 DEF g
 <2> QED  BY <1>1, <1>2, <2>6, <2>7, <2>8
<1> QED  BY <1>3, <1>4

\* Every handler sends to the kind of client that understands its message.
LEMMA AddressedStep ==
  ASSUME Base, Addressed, [Next]_vars
  PROVE  Addressed'
<1> USE DEF Addressed
<1>0. /\ \A c, d \in Conns : fdOf[c] = fdOf[d] /\ fdOf[c] # NoFd => c = d
      /\ \A c \in Callers : c \in Conns /\ c \notin Servers /\ c \notin Watchers
      /\ \A c \in Servers : c \in Conns /\ c \notin Callers /\ c \notin Watchers
      /\ \A c \in Watchers : c \in Conns /\ c \notin Callers /\ c \notin Servers
  BY Descriptors, OneProgram
<1>1. CASE UNCHANGED <<outbox, fdOf>>  BY <1>1
<1>2. CASE outbox' = <<>>  BY <1>2
<1>3. ASSUME NEW x, outbox' = <<x>>, fdOf' = fdOf, NEW d \in Conns, fdOf[d] = x.fd,
             fdOf[d] # NoFd,
             d \in Callers => x.msg.op = "BinderTransact",
             d \in Servers => x.msg.op \in {"RegisterService", "BinderIncoming"},
             d \in Watchers => x.msg.op \in {"SubscribePackages", "PackageChanged"}
      PROVE  Addressed'
 <2>1. DOMAIN outbox' = {1} /\ outbox'[1] = x /\ Len(outbox') = 1  BY <1>3
 <2>2. \A c \in Conns : fdOf[c] = x.fd => c = d  BY <1>0, <1>3
 <2> QED  BY <1>3, <2>1, <2>2
<1>4. ASSUME NEW ps \in SUBSET pending, NEW body \in Bodies, Tells(ps, body),
             \A c \in Conns : fdOf'[c] = fdOf[c] \/ fdOf'[c] = NoFd
      PROVE  Addressed'
 <2>1. \A i \in DOMAIN outbox' :
         /\ outbox'[i].msg.op = "BinderTransact" /\ outbox'[i].fd # NoFd
         /\ \E c \in Callers : fdOf[c] = outbox'[i].fd
   BY <1>4, Answering
 <2>2. \A i \in DOMAIN outbox' : \A c \in Conns :
         fdOf'[c] = outbox'[i].fd => c \in Callers
   BY <1>0, <1>4, <2>1
 <2> QED  BY <1>0, <2>1, <2>2
<1>5. ASSUME NEW c \in Conns, up[c] # <<>>, HandleRegister(c, Head(up[c]))
      PROVE  Addressed'
 <2>1. Received(c) /\ fdOf' = fdOf  BY <1>5 DEF HandleRegister
 <2>2. c \in Servers /\ fdOf[c] # NoFd  BY <1>5, <2>1, AtReceive DEF HandleRegister, Asked
 <2>3. PICK b : outbox' = <<To(fdOf[c], Msg("RegisterService", Head(up[c]).id,
                                            Head(up[c]).name, b))>>
   BY <1>5 DEF HandleRegister
 <2>4. PICK x : outbox' = <<x>> /\ x.fd = fdOf[c] /\ x.msg.op = "RegisterService"
   BY <2>3 DEF To, Msg
 <2> QED  BY <1>0, <1>3, <2>1, <2>2, <2>4
<1>6. ASSUME NEW c \in Conns, up[c] # <<>>, HandleSubscribe(c, Head(up[c]))
      PROVE  Addressed'
 <2>1. Received(c) /\ fdOf' = fdOf  BY <1>6 DEF HandleSubscribe
 <2>2. c \in Watchers /\ fdOf[c] # NoFd  BY <1>6, <2>1, AtReceive DEF HandleSubscribe, Asked
 <2>3. PICK x : outbox' = <<x>> /\ x.fd = fdOf[c] /\ x.msg.op = "SubscribePackages"
   BY <1>6 DEF HandleSubscribe, To, Msg
 <2> QED  BY <1>0, <1>3, <2>1, <2>2, <2>3
<1>7. ASSUME NEW c \in Conns, up[c] # <<>>, HandleTransact(c, Head(up[c]))
      PROVE  Addressed'
 <2> DEFINE m == Head(up[c])
 <2>1. Received(c) /\ fdOf' = fdOf  BY <1>7 DEF HandleTransact
 <2>2. c \in Callers /\ fdOf[c] # NoFd /\ m.name \in Names /\ running
   BY <1>7, <2>1, AtReceive DEF HandleTransact, Asked
 <2>3. CASE services[m.name] \in {Missing, Declared}
  <3>1. PICK x : outbox' = <<x>> /\ x.fd = fdOf[c] /\ x.msg.op = "BinderTransact"
    BY <1>7, <2>3 DEF HandleTransact, Answer, To, Msg
  <3> QED  BY <1>0, <1>3, <2>1, <2>2, <3>1
 <2>4. CASE services[m.name] \notin {Missing, Declared}
  <3>1. PICK x : outbox' = <<x>> /\ x.fd = services[m.name] /\ x.msg.op = "BinderIncoming"
    BY <1>7, <2>4 DEF HandleTransact, To, Msg
  <3>2. services[m.name] \in Fds  BY <2>2, <2>4 DEF Base, Shape
  <3>3. PICK s \in Servers : fdOf[s] = services[m.name]  BY <2>2, <3>2 DEF Base, Registered
  <3>4. fdOf[s] # NoFd  BY <3>2, <3>3, FdsArePositive
  <3> QED  BY <1>0, <1>3, <2>1, <3>1, <3>3, <3>4
 <2> QED  BY <2>3, <2>4
<1>8. ASSUME NEW c \in Conns, up[c] # <<>>, HandleReply(c, Head(up[c]))
      PROVE  Addressed'
 <2> DEFINE m == Head(up[c])
            mine == {p \in pending : p.txn = m.id /\ p.owner = fdOf[c]}
 <2>1. Received(c) /\ fdOf' = fdOf /\ Tells(mine, m.body) /\ mine \in SUBSET pending
   BY <1>8 DEF HandleReply
 <2>2. m.body \in Bodies  BY <1>8, <2>1, AtReceive DEF Messages
 <2> QED  BY <1>4, <2>1, <2>2
<1>9. ASSUME NEW c \in Conns,
             HandleHangup(c) \/ (up[c] # <<>> /\ HandleTruncated(c, Head(up[c])))
      PROVE  Addressed'
 <2>1. DeadObject \in Bodies  BY DEF Bodies
 <2> QED  BY <1>4, <1>9, <2>1, AtRemoval
<1>10. CASE EndRound
 <2>1. CASE outbox' = <<>>  BY <1>2, <2>1
 <2>2. CASE outbox' # <<>>
  <3>1. /\ \A i \in DOMAIN outbox' :
             /\ outbox'[i].msg.op = "PackageChanged"
             /\ \E w \in subscribed : fdOf[w] = outbox'[i].fd
        /\ fdOf' = fdOf
    BY <1>10, <2>2, AtEndRound
  <3>2. \A w \in subscribed : w \in Watchers /\ fdOf[w] # NoFd  BY DEF Base, Registered
  <3>3. \A i \in DOMAIN outbox' : \A c \in Conns :
          fdOf[c] = outbox'[i].fd => c \in Watchers
    BY <1>0, <3>1, <3>2
  <3> QED  BY <1>0, <3>1, <3>3
 <2> QED  BY <2>1, <2>2
<1>11. ASSUME outbox # <<>>, outbox' = Tail(outbox), fdOf' = fdOf
       PROVE  Addressed'
 <2>1. /\ \A i \in DOMAIN outbox' : /\ i + 1 \in DOMAIN outbox /\ i \in Nat
                                    /\ outbox'[i] = outbox[i + 1] /\ i + 1 # 1
       /\ DOMAIN outbox = 1..Len(outbox)
   BY <1>11, Dequeued
 <2>2. \A i \in DOMAIN outbox' : outbox'[i].msg.op # "BinderIncoming"
  <3> SUFFICES ASSUME NEW i \in DOMAIN outbox', outbox[i + 1].msg.op = "BinderIncoming"
               PROVE  FALSE
    BY <2>1
  <3>1. Len(outbox) = 1  BY <2>1
  <3> QED  BY <2>1, <3>1
 <2> QED  BY <1>11, <2>1, <2>2
<1>12. CASE SendMessage  BY <1>11, <1>12 DEF SendMessage
<1>13. CASE SendMessageFails
 <2> DEFINE h == Head(outbox)
            failed == {p \in pending : p.txn = h.msg.id}
 <2>1. fdOf' = fdOf /\ outbox # <<>>  BY <1>13 DEF SendMessageFails, kernel
 <2>2. CASE h.msg.op = "BinderIncoming"
  <3>1. Tells(failed, DeadObject) /\ failed \in SUBSET pending /\ DeadObject \in Bodies
    BY <1>13, <2>2 DEF SendMessageFails, Bodies
  <3> QED  BY <1>4, <2>1, <3>1
 <2>3. CASE h.msg.op # "BinderIncoming"  BY <1>11, <1>13, <2>1, <2>3 DEF SendMessageFails
 <2> QED  BY <2>2, <2>3
<1>14. CASE Poll \/ Terminate  BY <1>2, <1>14 DEF Poll, Terminate
<1>15. CASE RegistryChanges \/ UNCHANGED vars
  BY <1>1, <1>15 DEF RegistryChanges, vars, kernel, daemon
<1>16. ASSUME NEW c \in Conns, Connect(c) \/ Program(c) \/ Killed(c)
       PROVE  UNCHANGED <<outbox, fdOf>>
  BY <1>16 DEF Connect, Program, Killed, Request, Sends, ReceiveReply, ReceiveRegistration,
     ReceiveIncoming, ReceivePush, Receives, SendReply, ReceiveEof, daemon
<1> QED  BY <1>1, <1>5, <1>6, <1>7, <1>8, <1>9, <1>10, <1>12, <1>13, <1>14, <1>15, <1>16
  DEF Next, Loop, Handle

----
(* Registrations.                                                          *)

\* A step that does not concern server s, and queues nothing for it.
LEMMA OtherServer ==
  ASSUME NEW s \in Servers, ServerStage(s),
         step'[s] = step[s], up'[s] = up[s], down'[s] = down[s], owned'[s] = owned[s],
         \/ outbox' = outbox /\ fdOf'[s] = fdOf[s]
         \/ outbox = <<>> /\ NoneFor(s)'
  PROVE  ServerStage(s)'
<1>1. Len(<<>>) # 1  OBVIOUS
<1>2. CASE outbox' = outbox /\ fdOf'[s] = fdOf[s]  BY <1>2 DEF ServerStage, NoneFor, OnlyForwards
<1>3. CASE outbox = <<>> /\ NoneFor(s)'
 <2>1. OnlyForwards(s)'  BY <1>3 DEF NoneFor, OnlyForwards
 <2> QED  BY <1>1, <1>3, <2>1 DEF ServerStage
<1> QED  BY <1>2, <1>3

\* A server is acknowledged before anything is forwarded to it.
LEMMA ServersStep ==
  ASSUME Base, Addressed, ServersInOrder, [Next]_vars
  PROVE  ServersInOrder'
<1> SUFFICES ASSUME NEW s \in Servers, running', peer'[s] = "open"
             PROVE  ServerStage(s)'
  BY DEF ServersInOrder
<1>0. /\ s \in Conns /\ s \notin Callers /\ s \notin Watchers
      /\ \A c, d \in Conns : fdOf[c] = fdOf[d] /\ fdOf[c] # NoFd => c = d
      /\ \A c \in Callers : c \in Conns
      /\ PeerOK(s)
  BY Descriptors, OneProgram DEF Base, Peers
<1>1. ASSUME running, peer[s] = "open"
      PROVE  ServerStage(s)
  BY <1>1 DEF ServersInOrder
<1>2. ASSUME running, peer[s] = "open", step'[s] = step[s], up'[s] = up[s],
             down'[s] = down[s], owned'[s] = owned[s],
             \/ outbox' = outbox /\ fdOf'[s] = fdOf[s]
             \/ outbox = <<>> /\ NoneFor(s)'
      PROVE  ServerStage(s)'
  BY <1>1, <1>2, OtherServer
<1>3. CASE UNCHANGED vars  BY <1>2, <1>3 DEF vars, kernel, registry
<1>4. CASE Poll
 <2>1. running /\ outbox = <<>> /\ UNCHANGED <<peer, step, up, down, owned, outbox>>
   BY <1>4 DEF Poll, registry
 <2>2. NoneFor(s)'  BY <2>1 DEF NoneFor
 <2> QED  BY <1>2, <2>1, <2>2
<1>5. ASSUME NEW c \in Conns, up[c] # <<>>, HandleRegister(c, Head(up[c]))
      PROVE  ServerStage(s)'
 <2>1. Received(c) /\ UNCHANGED <<peer, step, down, fdOf>>  BY <1>5 DEF HandleRegister
 <2>2. /\ running /\ outbox = <<>> /\ fdOf[c] # NoFd /\ Head(up[c]) = up[c][1]
       /\ 1 \in DOMAIN up[c] /\ \A d \in Conns : d # c => up'[d] = up[d]
       /\ Len(up[c]) = 1 => up'[c] = <<>>
   BY <1>5, <2>1, AtReceive
 <2>3. PICK x : outbox' = <<x>> /\ x.fd = fdOf[c] /\ x.msg.op = "RegisterService"
  <3>1. PICK b : outbox' = <<To(fdOf[c], Msg("RegisterService", Head(up[c]).id,
                                             Head(up[c]).name, b))>>
    BY <1>5 DEF HandleRegister
  <3> QED  BY <3>1 DEF To, Msg
 <2>4. Len(outbox') = 1 /\ DOMAIN outbox' = {1} /\ outbox'[1] = x  BY <2>3
 <2>5. CASE c = s
  <3>1. ServerStage(s) /\ up[s][1].op = "RegisterService"
    BY <1>1, <1>5, <2>1, <2>2, <2>5 DEF HandleRegister
  <3>2. step[s] = "waiting" /\ down[s] = <<>> /\ Len(up[s]) = 1
    BY <1>0, <1>5, <2>2, <2>5, <3>1 DEF ServerStage, PeerOK
  <3> QED  BY <2>1, <2>2, <2>3, <2>4, <2>5, <3>2 DEF ServerStage
 <2>6. CASE c # s
  <3>1. NoneFor(s)'  BY <1>0, <2>1, <2>2, <2>3, <2>4, <2>6 DEF NoneFor
  <3>2. owned'[s] = owned[s]  BY <1>0, <1>5, <2>6 DEF HandleRegister, Base, Shape
  <3> QED  BY <1>0, <1>2, <2>1, <2>2, <2>6, <3>1, <3>2
 <2> QED  BY <2>5, <2>6
<1>6. ASSUME NEW c \in Conns, up[c] # <<>>, Received(c), c # s, NEW x, outbox' = <<x>>,
             x.fd # fdOf[s], UNCHANGED <<peer, step, down, fdOf, owned>>
      PROVE  ServerStage(s)'
 <2>1. running /\ outbox = <<>> /\ \A d \in Conns : d # c => up'[d] = up[d]  BY <1>6, AtReceive
 <2>2. NoneFor(s)'  BY <1>6 DEF NoneFor
 <2> QED  BY <1>0, <1>2, <1>6, <2>1, <2>2
<1>7. ASSUME NEW c \in Conns, up[c] # <<>>, HandleSubscribe(c, Head(up[c]))
      PROVE  ServerStage(s)'
 <2>1. Received(c) /\ UNCHANGED <<peer, step, down, fdOf, owned>>
   BY <1>7 DEF HandleSubscribe, registry
 <2>2. c \in Watchers /\ fdOf[c] # NoFd  BY <1>7, <2>1, AtReceive DEF HandleSubscribe, Asked
 <2>3. PICK x : outbox' = <<x>> /\ x.fd = fdOf[c]  BY <1>7 DEF HandleSubscribe, To
 <2> QED  BY <1>0, <1>6, <1>7, <2>1, <2>2, <2>3
<1>8. ASSUME NEW c \in Conns, up[c] # <<>>, HandleTransact(c, Head(up[c]))
      PROVE  ServerStage(s)'
 <2> DEFINE m == Head(up[c])
 <2>1. Received(c) /\ UNCHANGED <<peer, step, down, fdOf, owned>>  BY <1>8 DEF HandleTransact
 <2>2. /\ c \in Callers /\ fdOf[c] # NoFd /\ m.name \in Names /\ running
       /\ outbox = <<>> /\ \A d \in Conns : d # c => up'[d] = up[d]
   BY <1>8, <2>1, AtReceive DEF HandleTransact, Asked
 <2>3. CASE services[m.name] \in {Missing, Declared}
  <3>1. PICK x : outbox' = <<x>> /\ x.fd = fdOf[c]  BY <1>8, <2>3 DEF HandleTransact, Answer, To
  <3> QED  BY <1>0, <1>6, <1>8, <2>1, <2>2, <3>1
 <2>4. CASE services[m.name] \notin {Missing, Declared}
  <3>1. PICK x : outbox' = <<x>> /\ x.fd = services[m.name] /\ x.msg.op = "BinderIncoming"
    BY <1>8, <2>4 DEF HandleTransact, To, Msg
  <3>2. CASE services[m.name] # fdOf[s]  BY <1>0, <1>6, <1>8, <2>1, <2>2, <3>1, <3>2
  <3>3. CASE services[m.name] = fdOf[s]
   <4>1. services[m.name] \in Fds /\ fdOf[s] # NoFd
     BY <2>2, <2>4, <3>3, FdsArePositive DEF Base, Shape
   <4>2. PICK t \in Servers : fdOf[t] = services[m.name] /\ m.name \in owned[t]
     BY <2>2, <4>1 DEF Base, Registered
   <4>3. owned[s] # {}  BY <1>0, <3>3, <4>1, <4>2, OneProgram
   <4>4. DOMAIN outbox' = {1} /\ outbox'[1] = x  BY <3>1
   <4>5. OnlyForwards(s)'  BY <3>1, <4>4 DEF OnlyForwards
   <4>6. ServerStage(s) /\ Len(<<>>) # 1  BY <1>1, <2>1, <2>2
   <4>7. c # s /\ up'[s] = up[s]  BY <1>0, <2>2
   <4> QED  BY <2>1, <2>2, <4>3, <4>5, <4>6, <4>7 DEF ServerStage
  <3> QED  BY <3>2, <3>3
 <2> QED  BY <2>3, <2>4
<1>9. ASSUME NEW ps \in SUBSET pending, NEW body \in Bodies, Tells(ps, body),
             fdOf'[s] = fdOf[s]
      PROVE  NoneFor(s)' /\ OnlyForwards(s)'
 <2>1. \A i \in DOMAIN outbox' :
         outbox'[i].fd # NoFd /\ \E c \in Callers : fdOf[c] = outbox'[i].fd
   BY <1>9, Answering
 <2>2. \A i \in DOMAIN outbox' : outbox'[i].fd # fdOf'[s]  BY <1>0, <1>9, <2>1
 <2> QED  BY <2>2 DEF NoneFor, OnlyForwards
<1>10. ASSUME NEW c \in Conns, up[c] # <<>>, HandleReply(c, Head(up[c]))
       PROVE  ServerStage(s)'
 <2> DEFINE m == Head(up[c])
            mine == {p \in pending : p.txn = m.id /\ p.owner = fdOf[c]}
 <2>1. /\ Received(c) /\ Tells(mine, m.body) /\ mine \in SUBSET pending
       /\ UNCHANGED <<peer, step, down, fdOf, owned>> /\ m.op = "BinderReply"
   BY <1>10 DEF HandleReply
 <2>2. m \in Messages  BY <1>10, <2>1, AtReceive
 <2>3. m.body \in Bodies  BY <2>2 DEF Messages
 <2>4. NoneFor(s)' /\ OnlyForwards(s)'  BY <1>9, <2>1, <2>3
 <2>5. /\ running /\ outbox = <<>> /\ m = up[c][1]
       /\ 1 \in DOMAIN up[c] /\ \A d \in Conns : d # c => up'[d] = up[d]
       /\ \A i \in DOMAIN up'[c] : i + 1 \in DOMAIN up[c] /\ up'[c][i] = up[c][i + 1]
   BY <1>10, <2>1, AtReceive
 <2>6. CASE c = s
  <3>1. ServerStage(s) /\ up[s][1].op = "BinderReply" /\ 1 \in DOMAIN up[s]
    BY <1>1, <2>1, <2>5, <2>6
  <3>2. /\ step[s] \in {"serving", "replying"}
        /\ \A i \in DOMAIN up[s] : up[s][i].op = "BinderReply"
        /\ \A i \in DOMAIN down[s] : down[s][i].op = "BinderIncoming"
    BY <1>0, <3>1 DEF ServerStage, PeerOK
  <3> QED  BY <2>1, <2>4, <2>5, <2>6, <3>2 DEF ServerStage
 <2>7. CASE c # s  BY <1>0, <1>2, <2>1, <2>4, <2>5, <2>7
 <2> QED  BY <2>6, <2>7
<1>11. ASSUME NEW c \in Conns,
              HandleHangup(c) \/ (up[c] # <<>> /\ HandleTruncated(c, Head(up[c])))
       PROVE  ServerStage(s)'
 <2>1. /\ running /\ outbox = <<>> /\ peer[c] = "closed" /\ UNCHANGED <<peer, down, step>>
       /\ \A d \in Conns : d # c => /\ fdOf'[d] = fdOf[d] /\ up'[d] = up[d]
                                    /\ owned'[d] = owned[d]
       /\ Orphans(fdOf[c]) \in SUBSET pending /\ Tells(Orphans(fdOf[c]), DeadObject)
   BY <1>11, AtRemoval
 <2>2. c # s /\ DeadObject \in Bodies  BY <2>1 DEF Bodies
 <2>3. NoneFor(s)'  BY <1>0, <1>9, <2>1, <2>2
 <2> QED  BY <1>0, <1>2, <2>1, <2>2, <2>3
<1>12. CASE EndRound
 <2>1. /\ running /\ outbox = <<>> /\ UNCHANGED <<peer, up, down, fdOf, owned, step>>
       /\ \A i \in DOMAIN outbox' : \E w \in subscribed : fdOf[w] = outbox'[i].fd
  <3>1. DOMAIN <<>> = {}  OBVIOUS
  <3> QED  BY <1>12, <3>1, AtEndRound
 <2>2. \A w \in subscribed : w \in Watchers /\ fdOf[w] # NoFd /\ w \in Conns
   BY OneProgram DEF Base, Registered
 <2>3. NoneFor(s)'  BY <1>0, <2>1, <2>2 DEF NoneFor
 <2> QED  BY <1>2, <2>1, <2>3
<1>13. CASE SendMessage
 <2>1. /\ outbox # <<>> /\ outbox' = Tail(outbox)
       /\ UNCHANGED <<peer, up, fdOf, owned, step, running>>
   BY <1>13 DEF SendMessage, registry
 <2>2. PICK c \in Conns : /\ fdOf[c] = Head(outbox).fd /\ peer[c] = "open"
                          /\ down' = [down EXCEPT ![c] = Append(@, Head(outbox).msg)]
   BY <1>13 DEF SendMessage
 <2>3. /\ Head(outbox) = outbox[1] /\ 1 \in DOMAIN outbox /\ Head(outbox) \in Sending
       /\ Len(outbox') = Len(outbox) - 1
       /\ \A i \in DOMAIN outbox' : i + 1 \in DOMAIN outbox /\ outbox'[i] = outbox[i + 1]
   BY <2>1, Dequeued
 <2>4. ServerStage(s)  BY <1>1, <2>1
 <2>5. (NoneFor(s) => NoneFor(s)') /\ (OnlyForwards(s) => OnlyForwards(s)')
   BY <2>1, <2>3 DEF NoneFor, OnlyForwards
 <2>6. fdOf[c] # NoFd  BY <2>2, <2>3, FdsArePositive DEF Sending
 <2>7. CASE c # s
  <3>1. down'[s] = down[s] /\ outbox[1].fd # fdOf[s]
    BY <1>0, <2>2, <2>3, <2>6, <2>7 DEF Base, Carried
  <3> QED  BY <2>1, <2>4, <2>5, <3>1 DEF ServerStage
 <2>8. CASE c = s
  <3> DEFINE m == Head(outbox).msg
  <3>1. down[s] \in Seq(Messages) /\ m \in Messages /\ down'[s] = Append(down[s], m)
    BY <1>0, <2>2, <2>3, <2>8 DEF Base, Carried, Sending
  <3>2. ~NoneFor(s) /\ outbox[1].fd = fdOf[s] /\ outbox[1].msg = m
    BY <2>2, <2>3, <2>8 DEF NoneFor
  <3> HIDE DEF m
  <3>3. /\ Len(down[s]) \in Nat /\ DOMAIN down[s] = 1..Len(down[s])
        /\ DOMAIN down'[s] = 1..(Len(down[s]) + 1) /\ Len(down'[s]) = Len(down[s]) + 1
        /\ \A i \in DOMAIN down[s] : down'[s][i] = down[s][i]
        /\ down'[s][Len(down[s]) + 1] = m
    BY <3>1, Appended
  <3>4. down'[s] # <<>>  BY <3>3
  <3>5. CASE Len(outbox) = 1 /\ m.op = "RegisterService"
   <4>1. step[s] = "waiting" /\ up[s] = <<>> /\ down[s] = <<>>
     BY <2>3, <2>4, <3>2, <3>5 DEF ServerStage, OnlyForwards
   <4>2. DOMAIN outbox' = {}  BY <2>3, <3>5, CarriedStep DEF Base, Carried
   <4>3. OnlyForwards(s)'  BY <4>2 DEF OnlyForwards
   <4>4. DOMAIN down'[s] = {1} /\ down'[s][1] = m  BY <3>3, <4>1
   <4> QED  BY <2>1, <3>4, <3>5, <4>1, <4>3, <4>4 DEF ServerStage
  <3>6. CASE ~(Len(outbox) = 1 /\ m.op = "RegisterService")
   <4>1. \/ /\ step[s] = "waiting" /\ up[s] = <<>> /\ down[s] # <<>>
            /\ down[s][1].op = "RegisterService" /\ OnlyForwards(s)
            /\ \A i \in DOMAIN down[s] : i # 1 => down[s][i].op = "BinderIncoming"
         \/ /\ step[s] \in {"serving", "replying"} /\ OnlyForwards(s)
            /\ \A i \in DOMAIN up[s] : up[s][i].op = "BinderReply"
            /\ \A i \in DOMAIN down[s] : down[s][i].op = "BinderIncoming"
     BY <2>4, <3>2, <3>6 DEF ServerStage
   <4>2. m.op = "BinderIncoming"  BY <2>3, <3>2, <4>1 DEF OnlyForwards
   <4>3. \A i \in DOMAIN down'[s] : i \in DOMAIN down[s] \/ down'[s][i] = m  BY <3>3
   <4>4. down[s] # <<>> => 1 \in DOMAIN down[s]  BY <3>1
   <4> QED  BY <2>1, <2>5, <3>3, <3>4, <4>1, <4>2, <4>3, <4>4 DEF ServerStage
  <3> QED  BY <3>5, <3>6
 <2> QED  BY <2>7, <2>8
<1>14. CASE SendMessageFails
 <2> DEFINE h == Head(outbox)
            failed == {p \in pending : p.txn = h.msg.id}
 <2>1. /\ UNCHANGED <<peer, up, down, fdOf, owned, step, running>> /\ outbox # <<>>
       /\ h.fd # fdOf[s]
   BY <1>0, <1>14 DEF SendMessageFails, kernel
 <2>2. ServerStage(s) /\ h = outbox[1] /\ 1 \in DOMAIN outbox
   BY <1>1, <2>1, HeadAndTail DEF Base, Carried
 <2>3. CASE h.msg.op = "BinderIncoming"
  <3>1. Tells(failed, DeadObject) /\ failed \in SUBSET pending /\ DeadObject \in Bodies
    BY <1>14, <2>3 DEF SendMessageFails, Bodies
  <3>2. NoneFor(s)' /\ OnlyForwards(s)'  BY <1>9, <2>1, <3>1
  <3> QED  BY <2>1, <2>2, <3>2 DEF ServerStage
 <2>4. CASE h.msg.op # "BinderIncoming"
  <3>1. outbox' = Tail(outbox)  BY <1>14, <2>4 DEF SendMessageFails
  <3>2. \A i \in DOMAIN outbox' : i + 1 \in DOMAIN outbox /\ outbox'[i] = outbox[i + 1]
    BY <2>1, <3>1, Dequeued
  <3>3. (NoneFor(s) => NoneFor(s)') /\ (OnlyForwards(s) => OnlyForwards(s)')
    BY <2>1, <3>2 DEF NoneFor, OnlyForwards
  <3> QED  BY <2>1, <2>2, <3>3 DEF ServerStage
 <2> QED  BY <2>3, <2>4
<1>15. CASE Terminate  BY <1>15, Zenon DEF Terminate
<1>16. ASSUME NEW c \in Conns, Connect(c) \/ Program(c) \/ Killed(c), c # s
       PROVE  ServerStage(s)'
 <2>1. /\ peer'[s] = peer[s] /\ step'[s] = step[s] /\ up'[s] = up[s]
       /\ down'[s] = down[s]
   BY <1>0, <1>16 DEF Connect, Program, Killed, Request, Sends, ReceiveReply,
      ReceiveRegistration, ReceiveIncoming, ReceivePush, Receives, Closes, SendReply, ReceiveEof,
      Base, Shape, Carried
 <2>2. UNCHANGED <<fdOf, owned, outbox, running>>
   BY <1>16 DEF Connect, Program, Killed, Request, Sends, ReceiveReply, ReceiveRegistration,
      ReceiveIncoming, ReceivePush, Receives, Closes, SendReply, ReceiveEof, daemon, registry
 <2> QED  BY <1>2, <2>1, <2>2
<1>17. CASE Connect(s)
 <2>1. /\ step'[s] = "connected" /\ UNCHANGED <<down, fdOf, owned, outbox>>
       /\ step[s] = "start"
   BY <1>0, <1>17 DEF Connect, daemon, registry, Base, Shape
 <2>2. peer[s] = "unused" /\ down[s] = <<>>  BY <1>0, <2>1 DEF PeerOK
 <2>3. fdOf[s] = NoFd /\ owned[s] = {}  BY <1>0, <2>2 DEF Base, Connected, Accepted, Registered
 <2>4. NoneFor(s)'  BY <2>1, <2>3, Descriptors DEF NoneFor
 <2> QED  BY <2>1, <2>2, <2>3, <2>4 DEF ServerStage
<1>18. CASE Request(s)
 <2>1. PICK m \in Requests(s) : Sends(s, m)  BY <1>18 DEF Request
 <2>2. m.op = "RegisterService"  BY <1>0 DEF Requests, Msg
 <2>3. /\ running /\ peer[s] = "open" /\ step[s] = "connected" /\ step'[s] = "waiting"
       /\ up'[s] = Append(up[s], m) /\ UNCHANGED <<down, fdOf, owned, outbox>>
   BY <1>0, <1>18, <2>1 DEF Request, Sends, daemon, registry, Base, Shape, Carried
 <2>4. up[s] = <<>>  BY <1>0, <2>3 DEF PeerOK
 <2>5. Len(up'[s]) = 1 /\ up'[s][1] = m  BY <2>3, <2>4
 <2>6. down[s] = <<>> /\ NoneFor(s)' /\ owned[s] = {}  BY <1>1, <2>3 DEF ServerStage, NoneFor
 <2> QED  BY <2>2, <2>3, <2>5, <2>6 DEF ServerStage
<1>19. ASSUME down[s] # <<>>, Receives(s)
       PROVE  /\ \A i \in DOMAIN down'[s] :
                   i + 1 \in DOMAIN down[s] /\ down'[s][i] = down[s][i + 1] /\ i + 1 # 1
              /\ Head(down[s]) = down[s][1] /\ 1 \in DOMAIN down[s]
 <2>1. down[s] \in Seq(Messages) /\ down'[s] = Tail(down[s])
   BY <1>0, <1>19 DEF Receives, Base, Carried
 <2> QED  BY <1>19, <2>1, HeadAndTail
<1>20. CASE down[s] # <<>> /\ ReceiveRegistration(s, Head(down[s]))
 <2>1. /\ step[s] = "waiting" /\ peer[s] = "open"
       /\ UNCHANGED <<up, fdOf, owned, outbox, running>>
   BY <1>20 DEF ReceiveRegistration, daemon, registry
 <2>2. ~Closes(s)  BY <1>0 DEF Closes, Base, Shape
 <2>3. Receives(s) /\ step'[s] = "serving"
   BY <1>0, <1>20, <2>2 DEF ReceiveRegistration, Base, Shape
 <2>4. /\ up[s] = <<>> /\ OnlyForwards(s)
       /\ \A i \in DOMAIN down[s] : i # 1 => down[s][i].op = "BinderIncoming"
   BY <1>1, <1>20, <2>1 DEF ServerStage
 <2>5. \A i \in DOMAIN down'[s] : down'[s][i].op = "BinderIncoming"  BY <1>19, <1>20, <2>3, <2>4
 <2>6. OnlyForwards(s)'  BY <2>1, <2>4 DEF OnlyForwards
 <2>7. DOMAIN <<>> = {}  OBVIOUS
 <2> QED  BY <2>1, <2>3, <2>4, <2>5, <2>6, <2>7 DEF ServerStage
<1>21. CASE down[s] # <<>> /\ ReceiveIncoming(s, Head(down[s]))
 <2>1. /\ step[s] = "serving" /\ peer[s] = "open" /\ step'[s] = "replying" /\ Receives(s)
       /\ UNCHANGED <<up, fdOf, owned, outbox, running>>
   BY <1>0, <1>21 DEF ReceiveIncoming, Receives, daemon, registry, Base, Shape
 <2>2. /\ OnlyForwards(s) /\ \A i \in DOMAIN up[s] : up[s][i].op = "BinderReply"
       /\ \A i \in DOMAIN down[s] : down[s][i].op = "BinderIncoming"
   BY <1>1, <2>1 DEF ServerStage
 <2>3. \A i \in DOMAIN down'[s] : down'[s][i].op = "BinderIncoming"  BY <1>19, <1>21, <2>1, <2>2
 <2> QED  BY <2>1, <2>2, <2>3 DEF ServerStage, OnlyForwards
<1>22. CASE SendReply(s)
 <2> DEFINE m == Msg("BinderReply", got[s][2].id, got[s][2].name, got[s][2].body)
 <2>1. /\ step[s] = "replying" /\ peer[s] = "open" /\ step'[s] = "serving"
       /\ UNCHANGED <<down, fdOf, owned, outbox, running>> /\ up'[s] = Append(up[s], m)
   BY <1>0, <1>22 DEF SendReply, Sends, daemon, registry, Base, Shape, Carried
 <2>2. /\ OnlyForwards(s) /\ \A i \in DOMAIN up[s] : up[s][i].op = "BinderReply"
       /\ \A i \in DOMAIN down[s] : down[s][i].op = "BinderIncoming"
   BY <1>1, <2>1 DEF ServerStage
 <2>3. m.op = "BinderReply" /\ up[s] \in Seq(Messages) /\ m \in Messages
   BY <1>0, <2>1 DEF Msg, Base, Carried, PeerOK, Messages, Ops
 <2> HIDE DEF m
 <2>4. \A i \in DOMAIN up'[s] : up'[s][i].op = "BinderReply"
  <3>1. /\ DOMAIN up'[s] = 1..(Len(up[s]) + 1) /\ Len(up[s]) \in Nat
        /\ DOMAIN up[s] = 1..Len(up[s])
        /\ \A i \in DOMAIN up[s] : up'[s][i] = up[s][i]
        /\ up'[s][Len(up[s]) + 1] = m
    BY <2>1, <2>3, Appended
  <3> QED  BY <2>2, <2>3, <3>1
 <2> QED  BY <2>1, <2>2, <2>4 DEF ServerStage, OnlyForwards
<1>23. ~(down[s] # <<>> /\ ReceivePush(s, Head(down[s])))
       /\ ~(down[s] # <<>> /\ ReceiveReply(s, Head(down[s])))
       /\ ~ReceiveEof(s) /\ ~Killed(s)
 <2>1. ~Closes(s)  BY <1>0 DEF Closes, Base, Shape
 <2> QED  BY <1>0, <2>1 DEF ReceivePush, ReceiveReply, ReceiveEof, Killed
<1>24. CASE RegistryChanges  BY <1>2, <1>24 DEF RegistryChanges, kernel, daemon, registry
<1> QED  BY <1>3, <1>4, <1>5, <1>7, <1>8, <1>10, <1>11, <1>12, <1>13, <1>14, <1>15, <1>16,
     <1>17, <1>18, <1>20, <1>21, <1>22, <1>23, <1>24
  DEF Next, Loop, Handle, Program

\* A confirmed name stays in the registry.
LEMMA ConfirmedStep ==
  ASSUME Base, Addressed, ServersInOrder, Confirmed, [Next]_vars
  PROVE  Confirmed'
<1> SUFFICES ASSUME NEW s \in Servers, running', fdOf'[s] # NoFd
             PROVE  /\ \A i \in DOMAIN outbox' :
                         outbox'[i].fd = fdOf'[s] => Confirms(outbox[i].msg, s)'
                    /\ \A i \in DOMAIN down'[s] : Confirms(down[s][i], s)'
                    /\ step'[s] \in {"serving", "replying"} =>
                         got'[s][1] \in Names /\ services'[got'[s][1]] = fdOf'[s]
  BY DEF Confirmed
<1> DEFINE Goal == /\ \A i \in DOMAIN outbox' :
                        outbox'[i].fd = fdOf'[s] => Confirms(outbox[i].msg, s)'
                   /\ \A i \in DOMAIN down'[s] : Confirms(down[s][i], s)'
                   /\ step'[s] \in {"serving", "replying"} =>
                        got'[s][1] \in Names /\ services'[got'[s][1]] = fdOf'[s]
           Keeps == /\ fdOf'[s] = fdOf[s]
                    /\ \A n \in Names : services[n] = fdOf[s] => services'[n] = fdOf[s]
<1>0. /\ s \in Conns /\ s \notin Callers /\ s \notin Watchers
      /\ \A c, d \in Conns : fdOf[c] = fdOf[d] /\ fdOf[c] # NoFd => c = d
      /\ \A c \in Callers : c \in Conns
      /\ PeerOK(s) /\ fdOf[s] \in Fds \cup {NoFd}
  BY Descriptors, OneProgram DEF Base, Peers
<1>1. ASSUME running, fdOf[s] # NoFd
      PROVE  /\ \A i \in DOMAIN outbox :
                  outbox[i].fd = fdOf[s] => Confirms(outbox[i].msg, s)
             /\ \A i \in DOMAIN down[s] : Confirms(down[s][i], s)
             /\ step[s] \in {"serving", "replying"} =>
                  got[s][1] \in Names /\ services[got[s][1]] = fdOf[s]
  BY <1>1 DEF Confirmed
<1>2. ASSUME Keeps, running, down'[s] = down[s], step'[s] = step[s], got'[s] = got[s],
             \A i \in DOMAIN outbox' :
               outbox'[i].fd = fdOf[s] => Confirms(outbox[i].msg, s)'
      PROVE  Goal
  BY <1>1, <1>2 DEF Confirms
<1>3. ASSUME Keeps, running, outbox' = outbox
      PROVE  \A i \in DOMAIN outbox' :
               outbox'[i].fd = fdOf[s] => Confirms(outbox[i].msg, s)'
  BY <1>1, <1>3 DEF Confirms
<1>4. CASE UNCHANGED vars  BY <1>2, <1>3, <1>4 DEF vars, kernel, registry
<1>5. CASE Poll
 <2>1. /\ running /\ outbox' = <<>>
       /\ UNCHANGED <<down, step, got, services, outbox>>
   BY <1>5 DEF Poll, registry
 <2>2. CASE fdOf[s] # NoFd
  <3>1. fdOf'[s] = fdOf[s]
   <4>1. CASE backlog = <<>>  BY <1>5, <4>1 DEF Poll
   <4>2. CASE backlog # <<>>
    <5>1. Head(backlog) = backlog[1] /\ 1 \in DOMAIN backlog
      BY <4>2, HeadAndTail DEF Base, Shape
    <5>2. fdOf[Head(backlog)] = NoFd  BY <5>1 DEF Base, Connected, Accepted
    <5>3. \E fd \in Fds : fdOf' = [fdOf EXCEPT ![Head(backlog)] = fd]  BY <1>5, <4>2 DEF Poll
    <5> QED  BY <1>0, <2>2, <5>2, <5>3 DEF Base, Shape
   <4> QED  BY <4>1, <4>2
  <3> QED  BY <1>2, <1>3, <2>1, <3>1
 <2>3. CASE fdOf[s] = NoFd
  <3>1. down'[s] = <<>>  BY <1>0, <2>1, <2>3 DEF PeerOK
  <3>2. step[s] \notin {"serving", "replying"}  BY <1>0, <2>1, <2>3 DEF PeerOK
  <3>3. DOMAIN <<>> = {}  OBVIOUS
  <3> QED  BY <2>1, <3>1, <3>2, <3>3
 <2> QED  BY <2>2, <2>3
<1>6. ASSUME Keeps, running, down'[s] = down[s], step'[s] = step[s], got'[s] = got[s],
             \A i \in DOMAIN outbox' :
               outbox'[i].fd = fdOf[s] => outbox'[i].msg.op # "RegisterService"
      PROVE  Goal
  BY <1>2, <1>6 DEF Confirms
<1>7. ASSUME NEW c \in Conns, up[c] # <<>>, HandleRegister(c, Head(up[c]))
      PROVE  Goal
 <2> DEFINE m == Head(up[c])
 <2>1. Received(c) /\ UNCHANGED <<step, got, down, fdOf>> /\ m.op = "RegisterService"
   BY <1>7 DEF HandleRegister
 <2>2. running /\ fdOf[c] # NoFd /\ m.name \in Names /\ fdOf[s] \in Fds
   BY <1>0, <1>7, <2>1, AtReceive DEF Asked
 <2>3. /\ \A n \in Names : services[n] = fdOf[s] => services'[n] = fdOf[s]
       /\ Available(m.name) => services'[m.name] = fdOf[c]
  <3>1. services \in [Names -> {Missing, Declared} \cup Fds]  BY DEF Base, Shape
  <3>2. fdOf[s] \notin {Missing, Declared}  BY <2>2, FdsArePositive
  <3> QED  BY <1>7, <2>2, <3>1, <3>2 DEF HandleRegister, Available
 <2>4. PICK x : /\ outbox' = <<x>> /\ x.fd = fdOf[c] /\ x.msg.name = m.name
                /\ x.msg.body = IF Available(m.name) THEN "1" ELSE "0"
   BY <1>7 DEF HandleRegister, To, Msg
 <2>5. DOMAIN outbox' = {1} /\ outbox'[1] = x  BY <2>4
 <2>6. x.fd = fdOf[s] => Confirms(x.msg, s)'
  <3>1. x.fd = fdOf[s] => c = s  BY <1>0, <2>2, <2>4
  <3>2. x.msg.body = "1" => Available(m.name)  BY <2>4
  <3> QED  BY <2>1, <2>2, <2>3, <2>4, <3>1, <3>2 DEF Confirms
 <2> QED  BY <1>2, <2>1, <2>2, <2>3, <2>5, <2>6
<1>8. ASSUME NEW c \in Conns, up[c] # <<>>, HandleSubscribe(c, Head(up[c]))
      PROVE  Goal
 <2>1. Received(c) /\ UNCHANGED <<step, got, down, fdOf, services>>
   BY <1>8 DEF HandleSubscribe, registry
 <2>2. PICK x : outbox' = <<x>> /\ x.msg.op = "SubscribePackages"
   BY <1>8 DEF HandleSubscribe, To, Msg
 <2>3. running  BY <1>8, <2>1, AtReceive
 <2> QED  BY <1>6, <2>1, <2>2, <2>3
<1>9. ASSUME NEW c \in Conns, up[c] # <<>>, HandleTransact(c, Head(up[c]))
      PROVE  Goal
 <2>1. Received(c) /\ UNCHANGED <<step, got, down, fdOf, services>>  BY <1>9 DEF HandleTransact
 <2>2. PICK x : outbox' = <<x>> /\ x.msg.op # "RegisterService"
   BY <1>9 DEF HandleTransact, Answer, To, Msg
 <2>3. running  BY <1>9, <2>1, AtReceive
 <2> QED  BY <1>6, <2>1, <2>2, <2>3
<1>10. ASSUME NEW ps \in SUBSET pending, NEW body \in Bodies, Tells(ps, body)
       PROVE  \A i \in DOMAIN outbox' : outbox'[i].msg.op # "RegisterService"
  BY <1>10, Answering
<1>11. ASSUME NEW c \in Conns, up[c] # <<>>, HandleReply(c, Head(up[c]))
       PROVE  Goal
 <2> DEFINE m == Head(up[c])
            mine == {p \in pending : p.txn = m.id /\ p.owner = fdOf[c]}
 <2>1. /\ Received(c) /\ Tells(mine, m.body) /\ mine \in SUBSET pending
       /\ UNCHANGED <<step, got, down, fdOf, services>>
   BY <1>11 DEF HandleReply
 <2>2. m.body \in Bodies /\ running  BY <1>11, <2>1, AtReceive DEF Messages
 <2> QED  BY <1>6, <1>10, <2>1, <2>2
<1>12. ASSUME NEW c \in Conns,
              HandleHangup(c) \/ (up[c] # <<>> /\ HandleTruncated(c, Head(up[c])))
       PROVE  Goal
 <2>1. /\ running /\ UNCHANGED <<down, step, got>> /\ fdOf'[c] = NoFd /\ fdOf[c] # NoFd
       /\ \A d \in Conns : d # c => fdOf'[d] = fdOf[d]
       /\ \A n \in Names : services'[n] = services[n] \/ services[n] = fdOf[c]
       /\ Orphans(fdOf[c]) \in SUBSET pending /\ Tells(Orphans(fdOf[c]), DeadObject)
   BY <1>12, AtRemoval
 <2>2. c # s /\ DeadObject \in Bodies  BY <2>1 DEF Bodies
 <2>3. fdOf'[s] = fdOf[s] /\ fdOf[c] # fdOf[s]  BY <1>0, <2>1, <2>2
 <2>4. Keeps  BY <2>1, <2>3
 <2>5. \A i \in DOMAIN outbox' : outbox'[i].msg.op # "RegisterService"  BY <1>10, <2>1, <2>2
 <2> QED  BY <1>6, <2>1, <2>4, <2>5
<1>13. CASE EndRound
 <2>1. /\ running /\ UNCHANGED <<down, fdOf, services, step, got>>
       /\ \A i \in DOMAIN outbox' : outbox'[i].msg.op # "RegisterService"
  <3>1. DOMAIN <<>> = {}  OBVIOUS
  <3> QED  BY <1>13, <3>1, AtEndRound
 <2> QED  BY <1>6, <2>1
<1>14. CASE SendMessage
 <2>1. /\ outbox # <<>> /\ outbox' = Tail(outbox)
       /\ UNCHANGED <<fdOf, services, step, got, running>>
   BY <1>14 DEF SendMessage, registry
 <2>2. PICK c \in Conns : /\ fdOf[c] = Head(outbox).fd
                          /\ down' = [down EXCEPT ![c] = Append(@, Head(outbox).msg)]
   BY <1>14 DEF SendMessage
 <2>3. /\ Head(outbox) = outbox[1] /\ 1 \in DOMAIN outbox /\ Head(outbox) \in Sending
       /\ \A i \in DOMAIN outbox' : i + 1 \in DOMAIN outbox /\ outbox'[i] = outbox[i + 1]
   BY <2>1, Dequeued
 <2>4. \A i \in DOMAIN outbox' : outbox'[i].fd = fdOf[s] => Confirms(outbox[i].msg, s)'
   BY <1>1, <2>1, <2>3 DEF Confirms
 <2>5. CASE c # s
  <3>1. down'[s] = down[s]  BY <1>0, <2>2, <2>5 DEF Base, Carried
  <3> QED  BY <1>2, <2>1, <2>4, <3>1
 <2>6. CASE c = s
  <3> DEFINE m == Head(outbox).msg
  <3>1. down[s] \in Seq(Messages) /\ m \in Messages /\ down'[s] = Append(down[s], m)
    BY <1>0, <2>2, <2>3, <2>6 DEF Base, Carried, Sending
  <3>2. Confirms(m, s)  BY <1>1, <2>1, <2>2, <2>3, <2>6
  <3> HIDE DEF m
  <3>3. /\ Len(down[s]) \in Nat /\ DOMAIN down[s] = 1..Len(down[s])
        /\ DOMAIN down'[s] = 1..(Len(down[s]) + 1)
        /\ \A i \in DOMAIN down[s] : down'[s][i] = down[s][i]
        /\ down'[s][Len(down[s]) + 1] = m
    BY <3>1, Appended
  <3>4. \A i \in DOMAIN down'[s] : i \in DOMAIN down[s] \/ down'[s][i] = m  BY <3>3
  <3>5. \A i \in DOMAIN down'[s] : Confirms(down[s][i], s)'
    BY <1>1, <2>1, <3>2, <3>3, <3>4 DEF Confirms
  <3> QED  BY <1>1, <2>1, <2>4, <3>5
 <2> QED  BY <2>5, <2>6
<1>15. CASE SendMessageFails
 <2> DEFINE h == Head(outbox)
            failed == {p \in pending : p.txn = h.msg.id}
 <2>1. UNCHANGED <<down, fdOf, services, step, got, running>> /\ outbox # <<>>
   BY <1>15 DEF SendMessageFails, kernel
 <2>2. CASE h.msg.op = "BinderIncoming"
  <3>1. Tells(failed, DeadObject) /\ failed \in SUBSET pending /\ DeadObject \in Bodies
    BY <1>15, <2>2 DEF SendMessageFails, Bodies
  <3> QED  BY <1>6, <1>10, <2>1, <3>1
 <2>3. CASE h.msg.op # "BinderIncoming"
  <3>1. outbox' = Tail(outbox)  BY <1>15, <2>3 DEF SendMessageFails
  <3>2. \A i \in DOMAIN outbox' : i + 1 \in DOMAIN outbox /\ outbox'[i] = outbox[i + 1]
    BY <2>1, <3>1, Dequeued
  <3>3. \A i \in DOMAIN outbox' : outbox'[i].fd = fdOf[s] => Confirms(outbox[i].msg, s)'
    BY <1>1, <2>1, <3>2 DEF Confirms
  <3> QED  BY <1>2, <2>1, <3>3
 <2> QED  BY <2>2, <2>3
<1>16. CASE Terminate  BY <1>16, Zenon DEF Terminate
<1>17. ASSUME NEW c \in Conns, Connect(c) \/ Program(c) \/ Killed(c)
       PROVE  UNCHANGED <<fdOf, services, outbox, running>>
  BY <1>17 DEF Connect, Program, Killed, Request, Sends, ReceiveReply, ReceiveRegistration,
     ReceiveIncoming, ReceivePush, Receives, Closes, SendReply, ReceiveEof, daemon, registry
<1>18. ASSUME NEW c \in Conns, Connect(c) \/ Program(c) \/ Killed(c), c # s
       PROVE  Goal
 <2>1. step'[s] = step[s] /\ got'[s] = got[s] /\ down'[s] = down[s]
   BY <1>0, <1>18 DEF Connect, Program, Killed, Request, Sends, ReceiveReply,
      ReceiveRegistration, ReceiveIncoming, ReceivePush, Receives, Closes, SendReply, ReceiveEof,
      Base, Shape, Carried
 <2> QED  BY <1>2, <1>3, <1>17, <1>18, <2>1
<1>19. ASSUME UNCHANGED <<fdOf, services, outbox, running>>,
              \/ down'[s] = down[s]
              \/ down[s] # <<>> /\ Receives(s)
              \/ down'[s] = <<>>
       PROVE  /\ running /\ fdOf[s] # NoFd
              /\ \A i \in DOMAIN outbox' :
                   outbox'[i].fd = fdOf'[s] => Confirms(outbox[i].msg, s)'
              /\ \A i \in DOMAIN down'[s] : Confirms(down[s][i], s)'
 <2>1. running /\ fdOf[s] # NoFd /\ DOMAIN <<>> = {}  BY <1>19
 <2>2. ASSUME down[s] # <<>>, Receives(s)
       PROVE  \A i \in DOMAIN down'[s] : i + 1 \in DOMAIN down[s]
                                         /\ down'[s][i] = down[s][i + 1]
  <3>1. down[s] \in Seq(Messages) /\ down'[s] = Tail(down[s])
    BY <1>0, <2>2 DEF Receives, Base, Carried
  <3> QED  BY <2>2, <3>1, HeadAndTail
 <2>3. \A i \in DOMAIN down'[s] : Confirms(down[s][i], s)'
   BY <1>1, <1>19, <2>1, <2>2 DEF Confirms
 <2>4. \A i \in DOMAIN outbox' :
         outbox'[i].fd = fdOf'[s] => Confirms(outbox[i].msg, s)'
   BY <1>1, <1>19, <2>1 DEF Confirms
 <2> QED  BY <2>1, <2>3, <2>4
<1>20. CASE Connect(s) \/ Request(s)
 <2>1. down' = down /\ step'[s] \in {"connected", "waiting"}
   BY <1>0, <1>20 DEF Connect, Request, Sends, Base, Shape
 <2>2. UNCHANGED <<fdOf, services, outbox, running>>  BY <1>0, <1>17, <1>20 DEF Program
 <2> QED  BY <1>19, <2>1, <2>2
<1>21. CASE Closes(s) /\ (Program(s) \/ Killed(s))
 <2>1. down'[s] = <<>> /\ step'[s] = "done"  BY <1>0, <1>21 DEF Closes, Base, Shape, Carried
 <2>2. UNCHANGED <<fdOf, services, outbox, running>>  BY <1>0, <1>17, <1>21
 <2> QED  BY <1>19, <2>1, <2>2
<1>22. CASE down[s] # <<>> /\ ReceiveRegistration(s, Head(down[s]))
 <2>1. UNCHANGED <<fdOf, services, outbox, running>> /\ Program(s)
   BY <1>0, <1>17, <1>22 DEF Program
 <2>2. CASE Closes(s)  BY <1>21, <2>1, <2>2
 <2>3. CASE ~Closes(s)
  <3> DEFINE m == Head(down[s])
  <3>1. /\ m.op = "RegisterService" /\ m.body = "1" /\ Receives(s)
        /\ got'[s] = <<m.name>>
    BY <1>0, <1>22, <2>3 DEF ReceiveRegistration, Base, Carried
  <3>2. m = down[s][1] /\ 1 \in DOMAIN down[s]  BY <1>0, <1>22, HeadAndTail DEF Base, Carried
  <3>3. running /\ fdOf[s] # NoFd  BY <2>1
  <3>4. m.name \in Names /\ services[m.name] = fdOf[s]  BY <1>1, <3>1, <3>2, <3>3 DEF Confirms
  <3>5. got'[s][1] = m.name  BY <3>1
  <3> HIDE DEF m
  <3> QED  BY <1>19, <1>22, <2>1, <3>1, <3>4, <3>5
 <2> QED  BY <2>2, <2>3
<1>23. CASE (down[s] # <<>> /\ ReceiveIncoming(s, Head(down[s]))) \/ SendReply(s)
 <2>1. UNCHANGED <<fdOf, services, outbox, running>>  BY <1>0, <1>17, <1>23 DEF Program
 <2>2. /\ step[s] \in {"serving", "replying"}
       /\ \/ down[s] # <<>> /\ Receives(s)
          \/ down'[s] = down[s]
       /\ \/ got'[s] = <<Head(got[s]), Head(down[s])>>
          \/ got'[s] = <<Head(got[s])>>
   BY <1>0, <1>23 DEF ReceiveIncoming, SendReply, Sends, Base, Carried
 <2>3. got[s] # <<>> /\ got[s] \in Seq(Payloads)  BY <1>0, <2>2 DEF PeerOK, Base, Carried
 <2>4. Head(got[s]) = got[s][1]  BY <2>3, HeadAndTail
 <2>5. got'[s][1] = got[s][1]  BY <2>2, <2>4
 <2> QED  BY <1>1, <1>19, <2>1, <2>2, <2>5
<1>24. ~(down[s] # <<>> /\ ReceivePush(s, Head(down[s])))  BY <1>0 DEF ReceivePush
<1>25. CASE RegistryChanges  BY <1>2, <1>3, <1>25 DEF RegistryChanges, kernel, daemon, registry
<1>26. ASSUME Connect(s) \/ Program(s) \/ Killed(s)
       PROVE  Goal
  BY <1>20, <1>21, <1>22, <1>23, <1>24, <1>26 DEF Program, ReceiveReply, ReceiveEof, Killed
<1> QED  BY <1>4, <1>5, <1>7, <1>8, <1>9, <1>11, <1>12, <1>13, <1>14, <1>15, <1>16, <1>18,
     <1>25, <1>26
  DEF Next, Loop, Handle

----
(* Answers.                                                                *)

\* A message that names a transaction and its caller goes on doing so.
StillCarries ==
  \A m \in Messages : Carries(m) =>
    /\ m.id < nextTxn'
    /\ \A p \in pending' : p.txn = m.id =>
         m.body \in Callers /\ fdOf'[m.body] = p.caller

\* Transaction ids are not used twice, and a pending transaction is dropped
\* before the descriptor of its caller is.
LEMMA CarriesStep ==
  ASSUME Base, [Next]_vars
  PROVE  StillCarries
<1>0. /\ nextTxn \in Nat /\ \A m \in Messages : m.id \in Nat
      /\ \A p \in pending : p.caller # NoFd /\ p.owner # NoFd
      /\ \A c \in Callers : c \in Conns
      /\ \A c, d \in Conns : fdOf[c] = fdOf[d] /\ fdOf[c] # NoFd => c = d
  BY Descriptors DEF Base, Shape, Messages
<1>1. ASSUME nextTxn' \in {nextTxn, nextTxn + 1},
             \A p \in pending' : p \in pending \/ p.txn = nextTxn,
             \A p \in pending' : p \in pending =>
               \A c \in Callers : fdOf[c] = p.caller => fdOf'[c] = p.caller
      PROVE  StillCarries
 <2> SUFFICES ASSUME NEW m \in Messages, Carries(m)
              PROVE  /\ m.id < nextTxn'
                     /\ \A p \in pending' : p.txn = m.id =>
                          m.body \in Callers /\ fdOf'[m.body] = p.caller
   BY DEF StillCarries
 <2>1. m.id \in Nat /\ m.id < nextTxn  BY <1>0 DEF Carries
 <2>2. m.id < nextTxn' /\ m.id # nextTxn  BY <1>0, <1>1, <2>1
 <2>3. ASSUME NEW p \in pending', p.txn = m.id
       PROVE  m.body \in Callers /\ fdOf'[m.body] = p.caller
  <3>1. p \in pending  BY <1>1, <2>2, <2>3
  <3>2. m.body \in Callers /\ fdOf[m.body] = p.caller  BY <2>3, <3>1 DEF Carries
  <3> QED  BY <1>1, <3>1, <3>2
 <2> QED  BY <2>2, <2>3
<1>2. CASE Poll
 <2>1. UNCHANGED <<pending, nextTxn>>  BY <1>2 DEF Poll, registry
 <2>2. \A c \in Conns : fdOf[c] # NoFd => fdOf'[c] = fdOf[c]
  <3>1. CASE backlog = <<>>  BY <1>2, <3>1 DEF Poll
  <3>2. CASE backlog # <<>>
   <4>1. Head(backlog) = backlog[1] /\ 1 \in DOMAIN backlog
     BY <3>2, HeadAndTail DEF Base, Shape
   <4>2. fdOf[Head(backlog)] = NoFd  BY <4>1 DEF Base, Connected, Accepted
   <4>3. \E fd \in Fds : fdOf' = [fdOf EXCEPT ![Head(backlog)] = fd]  BY <1>2, <3>2 DEF Poll
   <4> QED  BY <4>2, <4>3 DEF Base, Shape
  <3> QED  BY <3>1, <3>2
 <2> QED  BY <1>0, <1>1, <2>1, <2>2
<1>3. ASSUME NEW c \in Conns, up[c] # <<>>, HandleTransact(c, Head(up[c]))
      PROVE  StillCarries
 <2>1. /\ fdOf' = fdOf
       /\ \/ UNCHANGED <<pending, nextTxn>>
          \/ /\ nextTxn' = nextTxn + 1
             /\ \E p : p.txn = nextTxn /\ pending' = pending \cup {p}
   BY <1>3 DEF HandleTransact
 <2> QED  BY <1>1, <2>1
<1>4. ASSUME UNCHANGED <<fdOf, nextTxn>>, pending' \subseteq pending
      PROVE  StillCarries
  BY <1>1, <1>4
<1>5. ASSUME NEW c \in Conns,
             HandleHangup(c) \/ (up[c] # <<>> /\ HandleTruncated(c, Head(up[c])))
      PROVE  StillCarries
 <2>1. /\ \A d \in Conns : d # c => fdOf'[d] = fdOf[d]
       /\ pending' = {p \in pending : fdOf[c] \notin {p.owner, p.caller}}
       /\ nextTxn' = nextTxn
   BY <1>5, AtRemoval
 <2>2. \A p \in pending' : p \in pending /\ p.caller # fdOf[c]  BY <2>1
 <2> QED  BY <1>0, <1>1, <2>1, <2>2
<1>6. CASE Terminate  BY <1>1, <1>6 DEF Terminate
<1>7. ASSUME NEW c \in Conns, Connect(c) \/ Program(c) \/ Killed(c)
      PROVE  UNCHANGED <<fdOf, pending, nextTxn>>
  BY <1>7 DEF Connect, Program, Killed, Request, Sends, ReceiveReply, ReceiveRegistration,
     ReceiveIncoming, ReceivePush, Receives, Closes, SendReply, ReceiveEof, daemon, registry
<1>8. CASE EndRound \/ SendMessage \/ RegistryChanges \/ UNCHANGED vars
  BY <1>4, <1>8 DEF EndRound, SendMessage, RegistryChanges, vars, kernel, daemon, registry
<1>9. CASE SendMessageFails  BY <1>4, <1>9 DEF SendMessageFails, kernel
<1>10. ASSUME NEW c \in Conns, up[c] # <<>>,
              \/ HandleRegister(c, Head(up[c]))
              \/ HandleSubscribe(c, Head(up[c]))
              \/ HandleReply(c, Head(up[c]))
       PROVE  StillCarries
  BY <1>4, <1>10 DEF HandleRegister, HandleSubscribe, HandleReply, registry
<1> QED  BY <1>2, <1>3, <1>4, <1>5, <1>6, <1>7, <1>8, <1>9, <1>10 DEF Next, Loop, Handle

\* What the daemon sends names the caller it goes to, or the transaction it
\* belongs to.
LEMMA RoutedOutStep ==
  ASSUME Base, RoutedOut, RoutedServers, [Next]_vars
  PROVE  RoutedOut'
<1> USE DEF RoutedOut
<1>0. /\ StillCarries /\ nextTxn \in Nat
      /\ \A i \in DOMAIN outbox : outbox[i].msg \in Messages
      /\ \A c, d \in Conns : fdOf[c] = fdOf[d] /\ fdOf[c] # NoFd => c = d
      /\ \A c \in Callers : c \in Conns
  BY CarriesStep, Descriptors DEF Sending, Base, Shape
<1>1. \A i \in DOMAIN outbox : outbox[i].msg.op = "BinderIncoming" =>
        /\ outbox[i].msg.id < nextTxn'
        /\ \A p \in pending' : p.txn = outbox[i].msg.id =>
             outbox[i].msg.body \in Callers /\ fdOf'[outbox[i].msg.body] = p.caller
  BY <1>0 DEF StillCarries
<1>2. CASE UNCHANGED <<outbox, fdOf>>
 <2>1. \A i \in DOMAIN outbox' :
         outbox'[i].msg.op = "BinderIncoming" => Carries(outbox[i].msg)'
   BY <1>1, <1>2 DEF Carries
 <2> QED  BY <1>2, <2>1
<1>3. CASE outbox # <<>> /\ outbox' = Tail(outbox) /\ fdOf' = fdOf
 <2>1. \A i \in DOMAIN outbox' : i + 1 \in DOMAIN outbox /\ outbox'[i] = outbox[i + 1]
   BY <1>3, Dequeued
 <2>2. \A i \in DOMAIN outbox' :
         outbox'[i].msg.op = "BinderIncoming" => Carries(outbox[i].msg)'
   BY <1>1, <2>1 DEF Carries
 <2> QED  BY <1>3, <2>1, <2>2
<1>4. ASSUME \A i \in DOMAIN outbox' :
               outbox'[i].msg.op \notin {"BinderIncoming", "BinderTransact"}
      PROVE  RoutedOut'
  BY <1>4
<1>5. ASSUME NEW ps \in SUBSET pending, Tells(ps, DeadObject)
      PROVE  RoutedOut'
 <2>1. DeadObject \in Bodies  BY DEF Bodies
 <2>2. \A i \in DOMAIN outbox' : /\ outbox'[i].msg.op = "BinderTransact"
                                 /\ outbox'[i].msg.body = DeadObject
   BY <1>5, <2>1, Answering
 <2> QED  BY <2>2
<1>6. ASSUME NEW c \in Conns, up[c] # <<>>, HandleReply(c, Head(up[c]))
      PROVE  RoutedOut'
 <2> DEFINE m == Head(up[c])
            mine == {p \in pending : p.txn = m.id /\ p.owner = fdOf[c]}
 <2>1. /\ Received(c) /\ Tells(mine, m.body) /\ mine \in SUBSET pending
       /\ fdOf' = fdOf /\ m.op = "BinderReply"
   BY <1>6 DEF HandleReply
 <2>2. m \in Messages /\ running /\ m = up[c][1] /\ 1 \in DOMAIN up[c] /\ c \in Servers
   BY <1>6, <2>1, AtReceive DEF Asked
 <2>3. m.body \in Bodies  BY <2>2 DEF Messages
 <2>4. Carries(m)  BY <2>1, <2>2 DEF RoutedServers
 <2>5. ASSUME NEW i \in DOMAIN outbox'
       PROVE  /\ outbox'[i].msg.op = "BinderTransact"
              /\ outbox'[i].msg.body \in Callers
              /\ fdOf'[outbox'[i].msg.body] = outbox'[i].fd
  <3>1. /\ outbox'[i].msg.op = "BinderTransact" /\ outbox'[i].msg.body = m.body
        /\ \E p \in mine : p.caller = outbox'[i].fd
    BY <2>1, <2>3, Answering
  <3>2. PICK p \in mine : p.caller = outbox'[i].fd  BY <3>1
  <3>3. m.body \in Callers /\ fdOf[m.body] = p.caller  BY <2>4 DEF Carries
  <3> QED  BY <2>1, <3>1, <3>2, <3>3
 <2> QED  BY <2>5
<1>7. ASSUME NEW c \in Conns, up[c] # <<>>, HandleTransact(c, Head(up[c]))
      PROVE  RoutedOut'
 <2> DEFINE m == Head(up[c])
 <2>1. Received(c) /\ fdOf' = fdOf  BY <1>7 DEF HandleTransact
 <2>2. c \in Callers /\ m.body = c  BY <1>7, <2>1, AtReceive DEF HandleTransact, Asked
 <2>3. CASE services[m.name] \in {Missing, Declared}
  <3>1. PICK x : outbox' = <<x>> /\ x.msg.op = "BinderTransact" /\ x.msg.body = DeadObject
    BY <1>7, <2>3 DEF HandleTransact, Answer, To, Msg
  <3> QED  BY <3>1
 <2>4. CASE services[m.name] \notin {Missing, Declared}
  <3>1. PICK x : /\ outbox' = <<x>> /\ x.msg.op = "BinderIncoming"
                 /\ x.msg.id = nextTxn /\ x.msg.body = c
    BY <1>7, <2>2, <2>4 DEF HandleTransact, To, Msg
  <3>2. /\ nextTxn' = nextTxn + 1
        /\ \A p \in pending' : p \in pending \/ p.caller = fdOf[c]
    BY <1>7, <2>4 DEF HandleTransact
  <3>3. \A p \in pending : p.txn # nextTxn
   <4>1. \A p \in pending : p.txn \in Nat /\ p.txn < nextTxn
     BY DEF Base, Shape, Transactions, Registered
   <4> QED  BY <1>0, <4>1
  <3>4. x.msg.id < nextTxn'  BY <1>0, <3>1, <3>2
  <3>5. \A p \in pending' : p.txn = x.msg.id =>
          x.msg.body \in Callers /\ fdOf'[x.msg.body] = p.caller
    BY <2>1, <2>2, <3>1, <3>2, <3>3
  <3>6. DOMAIN outbox' = {1} /\ outbox'[1] = x  BY <3>1
  <3> QED  BY <3>1, <3>4, <3>5, <3>6 DEF Carries
 <2> QED  BY <2>3, <2>4
<1>8. ASSUME NEW c \in Conns, up[c] # <<>>,
             HandleRegister(c, Head(up[c])) \/ HandleSubscribe(c, Head(up[c]))
      PROVE  RoutedOut'
 <2>1. PICK x : outbox' = <<x>> /\ x.msg.op \in {"RegisterService", "SubscribePackages"}
  <3>1. ASSUME HandleRegister(c, Head(up[c]))
        PROVE  \E x : outbox' = <<x>> /\ x.msg.op = "RegisterService"
   <4>1. PICK b : outbox' = <<To(fdOf[c], Msg("RegisterService", Head(up[c]).id,
                                              Head(up[c]).name, b))>>
     BY <3>1 DEF HandleRegister
   <4> QED  BY <4>1 DEF To, Msg
  <3>2. ASSUME HandleSubscribe(c, Head(up[c]))
        PROVE  \E x : outbox' = <<x>> /\ x.msg.op = "SubscribePackages"
    BY <3>2 DEF HandleSubscribe, To, Msg
  <3> QED  BY <1>8, <3>1, <3>2
 <2> QED  BY <1>4, <2>1
<1>9. ASSUME NEW c \in Conns,
             HandleHangup(c) \/ (up[c] # <<>> /\ HandleTruncated(c, Head(up[c])))
      PROVE  RoutedOut'
  BY <1>5, <1>9, AtRemoval
<1>10. CASE EndRound
 <2>1. DOMAIN <<>> = {}  OBVIOUS
 <2>2. \A i \in DOMAIN outbox' : outbox'[i].msg.op = "PackageChanged"  BY <1>10, <2>1, AtEndRound
 <2> QED  BY <1>4, <2>2
<1>11. CASE SendMessage  BY <1>3, <1>11 DEF SendMessage
<1>12. CASE SendMessageFails  BY <1>3, <1>5, <1>12 DEF SendMessageFails, kernel
<1>13. CASE Poll \/ Terminate  BY <1>4, <1>13 DEF Poll, Terminate
<1>14. CASE RegistryChanges \/ UNCHANGED vars
  BY <1>2, <1>14 DEF RegistryChanges, vars, kernel, daemon
<1>15. ASSUME NEW c \in Conns, Connect(c) \/ Program(c) \/ Killed(c)
       PROVE  UNCHANGED <<outbox, fdOf>>
  BY <1>15 DEF Connect, Program, Killed, Request, Sends, ReceiveReply, ReceiveRegistration,
     ReceiveIncoming, ReceivePush, Receives, SendReply, ReceiveEof, daemon
<1> QED  BY <1>2, <1>6, <1>7, <1>8, <1>9, <1>10, <1>11, <1>12, <1>13, <1>14, <1>15
  DEF Next, Loop, Handle

\* What a server holds of a transaction names its caller.
LEMMA RoutedServersStep ==
  ASSUME Base, ServersInOrder, RoutedOut, RoutedServers, [Next]_vars
  PROVE  RoutedServers'
<1> SUFFICES ASSUME NEW s \in Servers, running'
             PROVE  /\ \A i \in DOMAIN down'[s] :
                         down'[s][i].op = "BinderIncoming" => Carries(down[s][i])'
                    /\ \A i \in DOMAIN up'[s] :
                         up'[s][i].op = "BinderReply" => Carries(up[s][i])'
                    /\ step'[s] = "replying" => Carries(got[s][2])'
  BY DEF RoutedServers
<1>0. /\ s \in Conns /\ s \notin Callers /\ s \notin Watchers
      /\ StillCarries /\ PeerOK(s) /\ PeerOK(s)' /\ Base
  BY OneProgram, CarriesStep, PeersStep DEF Base, Peers
<1> DEFINE Mine == {m \in Messages : Carries(m)}
<1>1. running
  BY Zenon DEF Next, vars, Loop, Poll, Handle, HandleHangup, HandleTruncated, Removed,
    HandleRegister, HandleSubscribe, HandleTransact, HandleReply, EndRound, SendMessage,
    SendMessageFails, Terminate, Connect, Program, Killed, Request, Sends, ReceiveReply,
    ReceiveRegistration, ReceiveIncoming, ReceivePush, SendReply, ReceiveEof,
    RegistryChanges, daemon
<1>2. /\ \A i \in DOMAIN down[s] : down[s][i].op = "BinderIncoming" => down[s][i] \in Mine
      /\ \A i \in DOMAIN up[s] : up[s][i].op = "BinderReply" => up[s][i] \in Mine
      /\ step[s] = "replying" => got[s][2] \in Mine
  BY <1>0, <1>1 DEF RoutedServers, Base, Carried, PeerOK
<1>3. ASSUME \A i \in DOMAIN down'[s] : down'[s][i].op = "BinderIncoming" => down'[s][i] \in Mine,
             \A i \in DOMAIN up'[s] : up'[s][i].op = "BinderReply" => up'[s][i] \in Mine,
             step'[s] = "replying" => got'[s][2] \in Mine
      PROVE  /\ \A i \in DOMAIN down'[s] :
                  down'[s][i].op = "BinderIncoming" => Carries(down[s][i])'
             /\ \A i \in DOMAIN up'[s] :
                  up'[s][i].op = "BinderReply" => Carries(up[s][i])'
             /\ step'[s] = "replying" => Carries(got[s][2])'
  BY <1>0, <1>3 DEF StillCarries, Carries
<1> HIDE DEF Mine
<1> SUFFICES /\ \A i \in DOMAIN down'[s] : down'[s][i].op = "BinderIncoming" => down'[s][i] \in Mine
             /\ \A i \in DOMAIN up'[s] : up'[s][i].op = "BinderReply" => up'[s][i] \in Mine
             /\ step'[s] = "replying" => got'[s][2] \in Mine
  BY <1>3
<1>4. CASE /\ down'[s] = down[s] /\ up'[s] = up[s]
           /\ step'[s] = step[s] /\ got'[s] = got[s]
  BY <1>2, <1>4
<1>5. CASE Poll \/ EndRound \/ SendMessageFails \/ RegistryChanges \/ UNCHANGED vars
  BY <1>4, <1>5 DEF Poll, EndRound, SendMessageFails, RegistryChanges, vars, kernel
<1>6. ASSUME NEW c \in Conns, up[c] # <<>>, Received(c), UNCHANGED <<down, step, got>>
      PROVE  /\ \A i \in DOMAIN down'[s] : down'[s][i].op = "BinderIncoming" => down'[s][i] \in Mine
             /\ \A i \in DOMAIN up'[s] : up'[s][i].op = "BinderReply" => up'[s][i] \in Mine
             /\ step'[s] = "replying" => got'[s][2] \in Mine
 <2>1. /\ \A d \in Conns : d # c => up'[d] = up[d]
       /\ \A i \in DOMAIN up'[c] : i + 1 \in DOMAIN up[c] /\ up'[c][i] = up[c][i + 1]
   BY <1>6, AtReceive
 <2>2. \A i \in DOMAIN up'[s] : up'[s][i].op = "BinderReply" => up'[s][i] \in Mine
   BY <1>0, <1>2, <2>1
 <2> QED  BY <1>2, <1>6, <2>2
<1>7. ASSUME NEW c \in Conns, up[c] # <<>>,
             \/ HandleRegister(c, Head(up[c]))
             \/ HandleSubscribe(c, Head(up[c]))
             \/ HandleTransact(c, Head(up[c]))
             \/ HandleReply(c, Head(up[c]))
      PROVE  Received(c) /\ UNCHANGED <<down, step, got>>
  BY <1>7 DEF HandleRegister, HandleSubscribe, HandleTransact, HandleReply
<1>8. ASSUME NEW c \in Conns,
             HandleHangup(c) \/ (up[c] # <<>> /\ HandleTruncated(c, Head(up[c])))
      PROVE  /\ \A i \in DOMAIN down'[s] : down'[s][i].op = "BinderIncoming" => down'[s][i] \in Mine
             /\ \A i \in DOMAIN up'[s] : up'[s][i].op = "BinderReply" => up'[s][i] \in Mine
             /\ step'[s] = "replying" => got'[s][2] \in Mine
 <2>1. /\ UNCHANGED <<down, step, got>>
       /\ up'[s] = up[s] \/ up'[s] = <<>>
   BY <1>0, <1>8, AtRemoval
 <2>2. DOMAIN <<>> = {}  OBVIOUS
 <2> QED  BY <1>2, <2>1, <2>2
<1>9. CASE SendMessage
 <2>1. /\ outbox # <<>> /\ outbox' = Tail(outbox) /\ UNCHANGED <<up, step, got>>
   BY <1>9 DEF SendMessage
 <2>2. PICK c \in Conns : down' = [down EXCEPT ![c] = Append(@, Head(outbox).msg)]
   BY <1>9 DEF SendMessage
 <2>3. CASE c # s  BY <1>0, <1>4, <2>1, <2>2, <2>3 DEF Base, Carried
 <2>4. CASE c = s
  <3> DEFINE m == Head(outbox).msg
  <3>1. Head(outbox) = outbox[1] /\ 1 \in DOMAIN outbox /\ Head(outbox) \in Sending
    BY <2>1, Dequeued
  <3>2. m \in Messages /\ (m.op = "BinderIncoming" => m \in Mine)
    BY <3>1 DEF Sending, RoutedOut, Mine
  <3>3. down[s] \in Seq(Messages) /\ down'[s] = Append(down[s], m)
    BY <1>0, <2>2, <2>4 DEF Base, Carried
  <3> HIDE DEF m
  <3>4. \A i \in DOMAIN down'[s] :
          down'[s][i] = m \/ (i \in DOMAIN down[s] /\ down'[s][i] = down[s][i])
   <4>1. /\ Len(down[s]) \in Nat /\ DOMAIN down[s] = 1..Len(down[s])
         /\ DOMAIN down'[s] = 1..(Len(down[s]) + 1)
         /\ \A i \in DOMAIN down[s] : down'[s][i] = down[s][i]
         /\ down'[s][Len(down[s]) + 1] = m
     BY <3>2, <3>3, Appended
   <4> QED  BY <4>1
  <3> QED  BY <1>2, <2>1, <3>2, <3>4
 <2> QED  BY <2>3, <2>4
<1>10. CASE Terminate  BY <1>10, Zenon DEF Terminate
<1>11. ASSUME NEW c \in Conns, Connect(c) \/ Program(c) \/ Killed(c), c # s
       PROVE  /\ down'[s] = down[s] /\ up'[s] = up[s]
              /\ step'[s] = step[s] /\ got'[s] = got[s]
  BY <1>0, <1>11 DEF Connect, Program, Killed, Request, Sends, ReceiveReply, ReceiveRegistration,
     ReceiveIncoming, ReceivePush, Receives, Closes, SendReply, ReceiveEof, Base, Shape, Carried
<1>12. ASSUME down[s] # <<>>, Receives(s)
       PROVE  /\ \A i \in DOMAIN down'[s] :
                   i + 1 \in DOMAIN down[s] /\ down'[s][i] = down[s][i + 1]
              /\ Head(down[s]) = down[s][1] /\ 1 \in DOMAIN down[s]
 <2>1. down[s] \in Seq(Messages) /\ down'[s] = Tail(down[s])
   BY <1>0, <1>12 DEF Receives, Base, Carried
 <2> QED  BY <1>12, <2>1, HeadAndTail
<1>13. ASSUME \/ up'[s] = up[s]
              \/ /\ up[s] \in Seq(Messages)
                 /\ \E m \in Messages : /\ up'[s] = Append(up[s], m)
                                        /\ m.op = "BinderReply" => m \in Mine
       PROVE  \A i \in DOMAIN up'[s] : up'[s][i].op = "BinderReply" => up'[s][i] \in Mine
 <2>1. CASE up'[s] = up[s]  BY <1>2, <2>1
 <2>2. ASSUME NEW m \in Messages, up[s] \in Seq(Messages), up'[s] = Append(up[s], m),
              m.op = "BinderReply" => m \in Mine
       PROVE  \A i \in DOMAIN up'[s] : up'[s][i].op = "BinderReply" => up'[s][i] \in Mine
  <3>1. /\ Len(up[s]) \in Nat /\ DOMAIN up[s] = 1..Len(up[s])
        /\ DOMAIN up'[s] = 1..(Len(up[s]) + 1)
        /\ \A i \in DOMAIN up[s] : up'[s][i] = up[s][i]
        /\ up'[s][Len(up[s]) + 1] = m
    BY <2>2, Appended
  <3>2. \A i \in DOMAIN up'[s] :
          up'[s][i] = m \/ (i \in DOMAIN up[s] /\ up'[s][i] = up[s][i])
    BY <3>1
  <3> QED  BY <1>2, <2>2, <3>2
 <2> QED  BY <1>13, <2>1, <2>2
<1>14. CASE Connect(s) \/ Request(s)
 <2>1. down' = down /\ step'[s] \in {"connected", "waiting"}
   BY <1>0, <1>14 DEF Connect, Request, Sends, Base, Shape
 <2>2. \/ up'[s] = up[s]
       \/ \E m \in Messages : up'[s] = Append(up[s], m) /\ m.op # "BinderReply"
  <3>1. CASE Connect(s)  BY <3>1 DEF Connect
  <3>2. CASE Request(s)
   <4>1. PICK m \in Requests(s) : Sends(s, m)  BY <3>2 DEF Request
   <4>2. m \in Messages /\ m.op # "BinderReply"
     BY <1>0 DEF Requests, Msg, Messages, Ops, Bodies
   <4> QED  BY <1>0, <4>1, <4>2 DEF Sends, Base, Carried
  <3> QED  BY <1>14, <3>1, <3>2
 <2>3. up[s] \in Seq(Messages)  BY <1>0 DEF Base, Carried
 <2> QED  BY <1>2, <1>13, <2>1, <2>2, <2>3
<1>15. CASE Closes(s) /\ (up' = up \/ Killed(s))
 <2>1. down'[s] = <<>> /\ step'[s] = "done" /\ DOMAIN <<>> = {}
   BY <1>0, <1>15 DEF Closes, Base, Shape, Carried
 <2>2. \/ up'[s] = up[s]
       \/ \E m \in Messages : up'[s] = Append(up[s], m) /\ m.op # "BinderReply"
  <3> DEFINE m == Msg("Truncated", 0, NoName, s)
  <3>1. m \in Messages /\ m.op # "BinderReply"  BY <1>0 DEF Msg, Messages, Ops, Bodies
  <3>2. up' = up \/ up' = [up EXCEPT ![s] = Append(@, m)]  BY <1>15 DEF Killed
  <3> HIDE DEF m
  <3> QED  BY <1>0, <3>1, <3>2 DEF Base, Carried
 <2>3. up[s] \in Seq(Messages)  BY <1>0 DEF Base, Carried
 <2> QED  BY <1>13, <2>1, <2>2, <2>3
<1>16. CASE down[s] # <<>> /\ ReceiveRegistration(s, Head(down[s]))
 <2>1. UNCHANGED up /\ (Closes(s) \/ (Receives(s) /\ step' = [step EXCEPT ![s] = "serving"]))
   BY <1>16 DEF ReceiveRegistration
 <2>2. CASE Closes(s)  BY <1>15, <2>1, <2>2
 <2>3. CASE Receives(s) /\ step' = [step EXCEPT ![s] = "serving"]
  <3>1. step'[s] = "serving"  BY <1>0, <2>3 DEF Base, Shape
  <3> QED  BY <1>2, <1>12, <1>16, <2>1, <2>3, <3>1
 <2> QED  BY <2>1, <2>2, <2>3
<1>17. CASE down[s] # <<>> /\ ReceiveIncoming(s, Head(down[s]))
 <2>1. /\ UNCHANGED up /\ Receives(s) /\ step[s] = "serving" /\ peer[s] = "open"
       /\ got'[s] = <<Head(got[s]), Head(down[s])>>
   BY <1>0, <1>17 DEF ReceiveIncoming, Receives, Base, Carried
 <2>2. \A i \in DOMAIN down[s] : down[s][i].op = "BinderIncoming"
   BY <1>1, <2>1 DEF ServersInOrder, ServerStage
 <2>3. got'[s][2] = down[s][1] /\ 1 \in DOMAIN down[s]  BY <1>12, <1>17, <2>1
 <2> QED  BY <1>2, <1>12, <1>17, <2>1, <2>2, <2>3
<1>18. CASE SendReply(s)
 <2>1. step[s] = "replying" /\ got[s][2] \in Mine /\ got[s][2] \in Messages
   BY <1>0, <1>2, <1>18 DEF SendReply, PeerOK
 <2>2. PICK m \in Messages :
         m = Msg("BinderReply", got[s][2].id, got[s][2].name, got[s][2].body)
   BY <2>1 DEF Msg, Messages, Ops
 <2>3. m \in Mine  BY <2>1, <2>2 DEF Msg, Mine, Carries
 <2>4. up'[s] = Append(up[s], m) /\ step'[s] = "serving" /\ UNCHANGED down
   BY <1>0, <1>18, <2>2 DEF SendReply, Sends, Base, Shape, Carried
 <2>5. up[s] \in Seq(Messages)  BY <1>0 DEF Base, Carried
 <2> QED  BY <1>2, <1>13, <2>3, <2>4, <2>5
<1>19. ~(down[s] # <<>> /\ ReceivePush(s, Head(down[s])))
       /\ ~(down[s] # <<>> /\ ReceiveReply(s, Head(down[s])))
       /\ ~ReceiveEof(s)
  BY <1>0, <1>1 DEF ReceivePush, ReceiveReply, ReceiveEof
<1>20. CASE Killed(s)  BY <1>15, <1>20 DEF Killed
<1>21. CASE Connect(s) \/ Program(s) \/ Killed(s)
  BY <1>14, <1>16, <1>17, <1>18, <1>19, <1>20, <1>21 DEF Program
<1> QED  BY <1>4, <1>5, <1>6, <1>7, <1>8, <1>9, <1>10, <1>11, <1>21 DEF Next, Loop, Handle

\* What a caller is sent, and takes, is its own answer or DEAD_OBJECT.
LEMMA RoutedCallersStep ==
  ASSUME Base, Addressed, RoutedOut, RoutedCallers, [Next]_vars
  PROVE  RoutedCallers'
<1> SUFFICES ASSUME NEW c \in Callers
             PROVE  /\ \A i \in DOMAIN down'[c] : down'[c][i].body \in {c, DeadObject}
                    /\ \A i \in DOMAIN got'[c] : got'[c][i] \in {c, DeadObject}
  BY DEF RoutedCallers
<1>0. /\ c \in Conns /\ c \notin Servers /\ c \notin Watchers /\ PeerOK(c)
      /\ \A b, d \in Conns : fdOf[b] = fdOf[d] /\ fdOf[b] # NoFd => b = d
      /\ \A d \in Callers : d \in Conns
      /\ down[c] \in Seq(Messages) /\ got[c] \in Seq(Payloads)
  BY OneProgram, Descriptors DEF Base, Peers, Carried
<1>1. /\ \A i \in DOMAIN down[c] : down[c][i].body \in {c, DeadObject}
      /\ \A i \in DOMAIN got[c] : got[c][i] \in {c, DeadObject}
  BY DEF RoutedCallers
<1>2. CASE down'[c] = down[c] /\ got'[c] = got[c]  BY <1>1, <1>2
<1>3. CASE SendMessage
 <2>1. outbox # <<>> /\ outbox' = Tail(outbox) /\ UNCHANGED got  BY <1>3 DEF SendMessage
 <2>2. PICK d \in Conns : /\ fdOf[d] = Head(outbox).fd
                          /\ down' = [down EXCEPT ![d] = Append(@, Head(outbox).msg)]
   BY <1>3 DEF SendMessage
 <2>3. CASE d # c  BY <1>0, <1>2, <2>1, <2>2, <2>3 DEF Base, Carried
 <2>4. CASE d = c
  <3> DEFINE m == Head(outbox).msg
  <3>1. Head(outbox) = outbox[1] /\ 1 \in DOMAIN outbox /\ Head(outbox) \in Sending
    BY <2>1, Dequeued
  <3>2. m \in Messages /\ fdOf[c] # NoFd  BY <2>2, <2>4, <3>1, FdsArePositive DEF Sending
  <3>3. m.op = "BinderTransact"  BY <1>0, <2>2, <2>4, <3>1 DEF Addressed
  <3>4. m.body = DeadObject \/ (m.body \in Callers /\ fdOf[m.body] = fdOf[c])
    BY <2>2, <2>4, <3>1, <3>3 DEF RoutedOut
  <3>5. m.body \in {c, DeadObject}  BY <1>0, <3>2, <3>4
  <3>6. down'[c] = Append(down[c], m)  BY <1>0, <2>2, <2>4 DEF Base, Carried
  <3> HIDE DEF m
  <3>7. /\ Len(down[c]) \in Nat /\ DOMAIN down[c] = 1..Len(down[c])
        /\ DOMAIN down'[c] = 1..(Len(down[c]) + 1)
        /\ \A i \in DOMAIN down[c] : down'[c][i] = down[c][i]
        /\ down'[c][Len(down[c]) + 1] = m
    BY <1>0, <3>2, <3>6, Appended
  <3>8. \A i \in DOMAIN down'[c] :
          down'[c][i] = m \/ (i \in DOMAIN down[c] /\ down'[c][i] = down[c][i])
    BY <3>7
  <3> QED  BY <1>1, <2>1, <3>5, <3>8
 <2> QED  BY <2>3, <2>4
<1>4. CASE down[c] # <<>> /\ ReceiveReply(c, Head(down[c]))
 <2> DEFINE b == Head(down[c]).body
 <2>1. down'[c] = <<>> /\ got'[c] = Append(got[c], b) /\ DOMAIN <<>> = {}
   BY <1>0, <1>4 DEF ReceiveReply, Closes, Base, Carried
 <2>2. Head(down[c]) = down[c][1] /\ 1 \in DOMAIN down[c] /\ Head(down[c]) \in Messages
   BY <1>0, <1>4, HeadAndTail
 <2>3. b \in {c, DeadObject} /\ b \in Payloads  BY <1>1, <2>2 DEF Messages, Payloads
 <2> HIDE DEF b
 <2>4. /\ Len(got[c]) \in Nat /\ DOMAIN got[c] = 1..Len(got[c])
       /\ DOMAIN got'[c] = 1..(Len(got[c]) + 1)
       /\ \A i \in DOMAIN got[c] : got'[c][i] = got[c][i]
       /\ got'[c][Len(got[c]) + 1] = b
   BY <1>0, <2>1, <2>3, Appended
 <2>5. \A i \in DOMAIN got'[c] :
         got'[c][i] = b \/ (i \in DOMAIN got[c] /\ got'[c][i] = got[c][i])
   BY <2>4
 <2> QED  BY <1>1, <2>1, <2>3, <2>5
<1>5. ASSUME down'[c] = <<>>, got'[c] = got[c]
      PROVE  /\ \A i \in DOMAIN down'[c] : down'[c][i].body \in {c, DeadObject}
             /\ \A i \in DOMAIN got'[c] : got'[c][i] \in {c, DeadObject}
 <2>1. DOMAIN <<>> = {}  OBVIOUS
 <2> QED  BY <1>1, <1>5, <2>1
<1>6. CASE ReceiveEof(c) \/ Killed(c)
  BY <1>0, <1>5, <1>6 DEF ReceiveEof, Killed, Closes, Base, Carried
<1>7. CASE Connect(c) \/ Request(c)  BY <1>2, <1>7 DEF Connect, Request, Sends
<1>8. /\ ~(down[c] # <<>> /\ ReceiveRegistration(c, Head(down[c])))
      /\ ~(down[c] # <<>> /\ ReceiveIncoming(c, Head(down[c])))
      /\ ~(down[c] # <<>> /\ ReceivePush(c, Head(down[c])))
      /\ ~SendReply(c)
  BY <1>0 DEF ReceiveRegistration, ReceiveIncoming, ReceivePush, SendReply, PeerOK
<1>9. ASSUME NEW d \in Conns, Connect(d) \/ Program(d) \/ Killed(d), d # c
      PROVE  down'[c] = down[c] /\ got'[c] = got[c]
  BY <1>0, <1>9 DEF Connect, Program, Killed, Request, Sends, ReceiveReply, ReceiveRegistration,
     ReceiveIncoming, ReceivePush, Receives, Closes, SendReply, ReceiveEof, Base, Carried
<1>10. CASE Connect(c) \/ Program(c) \/ Killed(c)  BY <1>4, <1>6, <1>7, <1>8, <1>10 DEF Program
<1>11. ASSUME Poll \/ (\E d \in Conns : Handle(d)) \/ EndRound \/ SendMessageFails
                \/ Terminate \/ RegistryChanges \/ UNCHANGED vars
       PROVE  UNCHANGED <<down, got>>
  BY <1>11 DEF Poll, Handle, HandleHangup, HandleTruncated, Removed, HandleRegister,
     HandleSubscribe, HandleTransact, HandleReply, EndRound, SendMessageFails, Terminate,
     RegistryChanges, vars, kernel
<1> QED  BY <1>2, <1>3, <1>9, <1>10, <1>11 DEF Next, Loop

\* The three parts of Routed together.
LEMMA RoutedStep ==
  ASSUME Base, Addressed, ServersInOrder, Routed, [Next]_vars
  PROVE  Routed'
BY RoutedOutStep, RoutedServersStep, RoutedCallersStep DEF Routed

----
(* Transactions.                                                           *)

\* A step that does not concern caller c, and queues nothing for it.
LEMMA OtherCaller ==
  ASSUME NEW c \in Callers, CallerStage(c),
         step'[c] = step[c], up'[c] = up[c], down'[c] = down[c], fdOf'[c] = fdOf[c],
         {p \in pending' : p.caller = fdOf[c]} = {p \in pending : p.caller = fdOf[c]},
         \/ outbox' = outbox
         \/ ~OneFor(c) /\ NoneFor(c)'
  PROVE  CallerStage(c)'
<1>1. (NoPending(c) => NoPending(c)') /\ (OnePending(c) => OnePending(c)')
 <2> DEFINE P == {p \in pending : p.caller = fdOf[c]}
            Q == {p \in pending' : p.caller = fdOf[c]}
 <2>1. /\ NoPending(c) <=> P = {}
       /\ NoPending(c)' <=> Q = {}
   BY DEF NoPending
 <2>2. /\ OnePending(c) <=> \E p \in P : \A q \in P : q = p
       /\ OnePending(c)' <=> \E p \in Q : \A q \in Q : q = p
   BY DEF OnePending
 <2> QED  BY <2>1, <2>2
<1>2. CASE outbox' = outbox
 <2>1. (NoneFor(c) => NoneFor(c)') /\ (OneFor(c) => OneFor(c)')  BY <1>2 DEF NoneFor, OneFor
 <2> QED  BY <1>1, <2>1 DEF CallerStage
<1>3. CASE ~OneFor(c) /\ NoneFor(c)'  BY <1>1, <1>3 DEF CallerStage
<1> QED  BY <1>2, <1>3

\* Answering the transactions ps, which stop being pending.
LEMMA ToldCaller ==
  ASSUME Base, NEW c \in Callers, CallerStage(c), ~OneFor(c),
         NEW ps \in SUBSET pending, NEW body \in Bodies, Tells(ps, body),
         \A p \in pending' : p \in pending /\ p \notin ps,
         \A p \in pending : p.caller = fdOf[c] => p \in ps \/ p \in pending',
         step'[c] = step[c], up'[c] = up[c], down'[c] = down[c], fdOf'[c] = fdOf[c]
  PROVE  CallerStage(c)'
<1>1. /\ \A i \in DOMAIN outbox' : \E p \in ps : p.caller = outbox'[i].fd
      /\ \A p \in ps : (\A q \in ps : q.caller = p.caller => q = p) =>
           \E i \in DOMAIN outbox' :
             /\ outbox'[i].fd = p.caller
             /\ \A j \in DOMAIN outbox' : outbox'[j].fd = p.caller => j = i
  BY Answering
<1>2. CASE NoPending(c)
 <2>1. NoPending(c)'  BY <1>2 DEF NoPending
 <2>2. NoneFor(c)'  BY <1>1, <1>2 DEF NoPending, NoneFor
 <2> QED  BY <1>2, <2>1, <2>2 DEF CallerStage, OnePending, NoPending
<1>3. CASE ~NoPending(c)
 <2>1. /\ step[c] = "waiting" /\ up[c] = <<>> /\ fdOf[c] # NoFd
       /\ OnePending(c) /\ down[c] = <<>>
   BY <1>3 DEF CallerStage
 <2>2. PICK p \in pending :
            p.caller = fdOf[c] /\ \A q \in pending : q.caller = fdOf[c] => q = p
   BY <2>1 DEF OnePending
 <2>3. CASE p \in ps
  <3>1. NoPending(c)'  BY <2>2, <2>3 DEF NoPending
  <3>2. OneFor(c)'
   <4>1. \A q \in ps : q.caller = p.caller => q = p  BY <2>2
   <4>2. PICK i \in DOMAIN outbox' :
               /\ outbox'[i].fd = p.caller
               /\ \A j \in DOMAIN outbox' : outbox'[j].fd = p.caller => j = i
     BY <1>1, <2>3, <4>1
   <4> QED  BY <2>2, <4>2 DEF OneFor
  <3> QED  BY <2>1, <3>1, <3>2 DEF CallerStage
 <2>4. CASE p \notin ps
  <3>1. OnePending(c)'  BY <2>2, <2>4 DEF OnePending
  <3>2. NoneFor(c)'  BY <1>1, <2>2, <2>4 DEF NoneFor
  <3> QED  BY <2>1, <3>1, <3>2 DEF CallerStage
 <2> QED  BY <2>3, <2>4
<1> QED  BY <1>2, <1>3

\* Sending to another client leaves the sends queued for client c.
LEMMA StillQueued ==
  ASSUME Base, NEW c, outbox # <<>>, outbox' = Tail(outbox),
         outbox[1].fd # fdOf[c], fdOf'[c] = fdOf[c]
  PROVE  (NoneFor(c) => NoneFor(c)') /\ (OneFor(c) => OneFor(c)')
<1>1. /\ \A i \in DOMAIN outbox' : /\ i + 1 \in DOMAIN outbox /\ i \in Nat
                                   /\ outbox'[i] = outbox[i + 1] /\ i + 1 # 1
      /\ \A i \in DOMAIN outbox : i # 1 =>
           i - 1 \in DOMAIN outbox' /\ outbox'[i - 1] = outbox[i]
      /\ DOMAIN outbox = 1..Len(outbox) /\ Len(outbox) \in Nat
  BY Dequeued
<1>2. NoneFor(c) => NoneFor(c)'  BY <1>1 DEF NoneFor
<1>3. ASSUME OneFor(c) PROVE OneFor(c)'
 <2>1. PICK i \in DOMAIN outbox :
            /\ outbox[i].fd = fdOf[c]
            /\ \A j \in DOMAIN outbox : outbox[j].fd = fdOf[c] => j = i
   BY <1>3 DEF OneFor
 <2>2. i # 1 /\ i \in Nat  BY <1>1, <2>1
 <2>3. i - 1 \in DOMAIN outbox' /\ outbox'[i - 1].fd = fdOf[c]  BY <1>1, <2>1, <2>2
 <2>4. ASSUME NEW j \in DOMAIN outbox', outbox'[j].fd = fdOf[c]
       PROVE  j = i - 1
  <3>1. j + 1 \in DOMAIN outbox /\ outbox[j + 1].fd = fdOf[c] /\ j \in Nat  BY <1>1, <2>4
  <3>2. j + 1 = i  BY <2>1, <3>1
  <3> QED  BY <2>2, <3>1, <3>2
 <2> QED  BY <2>3, <2>4 DEF OneFor
<1> QED  BY <1>2, <1>3

\* The only send queued for client c has been made.
LEMMA NoLongerQueued ==
  ASSUME Base, NEW c, outbox # <<>>, outbox' = Tail(outbox),
         outbox[1].fd = fdOf[c], fdOf'[c] = fdOf[c], OneFor(c)
  PROVE  NoneFor(c)'
<1>1. /\ \A i \in DOMAIN outbox' : /\ i + 1 \in DOMAIN outbox /\ i \in Nat
                                   /\ outbox'[i] = outbox[i + 1] /\ i + 1 # 1
      /\ 1 \in DOMAIN outbox
  BY Dequeued
<1>2. \A j \in DOMAIN outbox : outbox[j].fd = fdOf[c] => j = 1  BY <1>1 DEF OneFor
<1> QED  BY <1>1, <1>2 DEF NoneFor

\* A transaction is a request, a pending entry or an answer at every step.
LEMMA CallersStep ==
  ASSUME Base, Addressed, CallersInOrder, [Next]_vars
  PROVE  CallersInOrder'
<1> SUFFICES ASSUME NEW c \in Callers, running', peer'[c] = "open"
             PROVE  CallerStage(c)'
  BY DEF CallersInOrder
<1>0. /\ c \in Conns /\ c \notin Servers /\ c \notin Watchers /\ PeerOK(c)
      /\ \A b, d \in Conns : fdOf[b] = fdOf[d] /\ fdOf[b] # NoFd => b = d
      /\ \A d \in Callers : d \in Conns
      /\ \A d \in Servers : d \in Conns
      /\ \A p \in pending : p.caller # NoFd
      /\ up[c] \in Seq(Messages) /\ down[c] \in Seq(Messages)
  BY OneProgram, Descriptors DEF Base, Peers, Carried
<1>1. ASSUME running, peer[c] = "open"
      PROVE  CallerStage(c)
  BY <1>1 DEF CallersInOrder
<1>2. CASE UNCHANGED vars \/ RegistryChanges
 <2>1. UNCHANGED <<running, peer, step, up, down, fdOf, pending, outbox>>
   BY <1>2 DEF vars, RegistryChanges, kernel, daemon, registry
 <2> QED  BY <1>1, <2>1, OtherCaller
<1>3. ~(outbox = <<>> /\ OneFor(c))  BY DEF OneFor
<1>4. CASE Poll
 <2>1. /\ running /\ outbox = <<>> /\ UNCHANGED <<peer, step, up, down, pending, outbox>>
   BY <1>4 DEF Poll, registry
 <2>2. NoneFor(c)'  BY <2>1 DEF NoneFor
 <2>3. CallerStage(c)  BY <1>1, <2>1
 <2>4. CASE fdOf'[c] = fdOf[c]  BY <1>3, <2>1, <2>2, <2>3, <2>4, OtherCaller
 <2>5. CASE fdOf'[c] # fdOf[c]
  <3>1. PICK fd \in Fds : FreeFd(fd) /\ fdOf' = [fdOf EXCEPT ![Head(backlog)] = fd]
    BY <1>4, <2>5 DEF Poll
  <3>2. c = Head(backlog) /\ backlog # <<>>  BY <1>0, <1>4, <2>5, <3>1 DEF Base, Shape, Poll
  <3>3. fdOf'[c] = fd  BY <1>0, <3>1, <3>2 DEF Base, Shape
  <3>4. fdOf[c] = NoFd
   <4>1. Head(backlog) = backlog[1] /\ 1 \in DOMAIN backlog
     BY <3>2, HeadAndTail DEF Base, Shape
   <4> QED  BY <3>2, <4>1 DEF Base, Connected, Accepted
  <3>5. \A d \in Conns : fdOf[d] # fd  BY <3>1 DEF FreeFd, Range, Base, Shape
  <3>6. NoPending(c)'  BY <1>0, <2>1, <3>3, <3>5 DEF NoPending, Base, Registered
  <3>7. \/ step[c] = "connected" /\ down[c] = <<>>
        \/ /\ step[c] = "waiting" /\ Len(up[c]) = 1 /\ up[c][1].op = "BinderTransact"
           /\ down[c] = <<>>
    BY <2>3, <3>4 DEF CallerStage
  <3> QED  BY <2>1, <2>2, <3>6, <3>7 DEF CallerStage
 <2> QED  BY <2>4, <2>5
<1>5. ASSUME NEW d \in Conns, up[d] # <<>>, Received(d), d # c, fdOf[d] # NoFd,
             NEW x, outbox' = <<x>>, NEW e \in Conns, fdOf[e] = x.fd, fdOf[e] # NoFd, e # c,
             UNCHANGED <<peer, step, down, fdOf>>,
             {p \in pending' : p.caller = fdOf[c]} = {p \in pending : p.caller = fdOf[c]}
      PROVE  CallerStage(c)'
 <2>1. running /\ outbox = <<>> /\ up'[c] = up[c]  BY <1>0, <1>5, AtReceive
 <2>2. NoneFor(c)'  BY <1>0, <1>5 DEF NoneFor
 <2> QED  BY <1>1, <1>3, <1>5, <2>1, <2>2, OtherCaller
<1>6. ASSUME NEW d \in Conns, up[d] # <<>>,
             HandleRegister(d, Head(up[d])) \/ HandleSubscribe(d, Head(up[d]))
      PROVE  CallerStage(c)'
 <2>1. /\ Received(d) /\ UNCHANGED <<peer, step, down, fdOf, pending>>
       /\ Head(up[d]).op \in {"RegisterService", "SubscribePackages"}
   BY <1>6 DEF HandleRegister, HandleSubscribe, registry
 <2>2. d # c /\ fdOf[d] # NoFd  BY <1>0, <1>6, <2>1, AtReceive DEF Asked
 <2>3. PICK x : outbox' = <<x>> /\ x.fd = fdOf[d]
  <3>1. PICK m : outbox' = <<To(fdOf[d], m)>>  BY <1>6 DEF HandleRegister, HandleSubscribe
  <3> QED  BY <3>1 DEF To
 <2> QED  BY <1>5, <1>6, <2>1, <2>2, <2>3
<1>7. ASSUME NEW d \in Conns, up[d] # <<>>, HandleTransact(d, Head(up[d]))
      PROVE  CallerStage(c)'
 <2> DEFINE m == Head(up[d])
            owner == services[m.name]
            new == [txn |-> nextTxn, caller |-> fdOf[d], owner |-> owner, id |-> m.id]
 <2>1. Received(d) /\ UNCHANGED <<peer, step, down, fdOf>>  BY <1>7 DEF HandleTransact
 <2>2. /\ d \in Callers /\ fdOf[d] # NoFd /\ m.name \in Names /\ running /\ outbox = <<>>
       /\ m = up[d][1] /\ (Len(up[d]) = 1 => up'[d] = <<>>)
   BY <1>7, <2>1, AtReceive DEF HandleTransact, Asked
 <2>3. CallerStage(c)  BY <1>1, <2>1, <2>2
 <2>4. CASE owner \in {Missing, Declared}
  <3>1. PICK x : outbox' = <<x>> /\ x.fd = fdOf[d]  BY <1>7, <2>4 DEF HandleTransact, Answer, To
  <3>2. pending' = pending  BY <1>7, <2>4 DEF HandleTransact
  <3>3. CASE d # c  BY <1>5, <1>7, <2>1, <2>2, <3>1, <3>2, <3>3
  <3>4. CASE d = c
   <4>1. step[c] = "waiting" /\ Len(up[c]) = 1 /\ NoPending(c) /\ down[c] = <<>>
     BY <1>0, <1>7, <2>3, <3>4 DEF CallerStage, PeerOK
   <4>2. DOMAIN outbox' = {1} /\ outbox'[1].fd = fdOf[c]  BY <3>1, <3>4
   <4>3. OneFor(c)' /\ NoPending(c)'  BY <2>1, <3>2, <4>1, <4>2 DEF OneFor, NoPending
   <4> QED  BY <2>1, <2>2, <3>4, <4>1, <4>3 DEF CallerStage
  <3> QED  BY <3>3, <3>4
 <2>5. CASE owner \notin {Missing, Declared}
  <3>1. PICK x : outbox' = <<x>> /\ x.fd = owner  BY <1>7, <2>5 DEF HandleTransact, To
  <3>2. pending' = pending \cup {new} /\ new.caller = fdOf[d]  BY <1>7, <2>5 DEF HandleTransact
  <3>3. owner \in Fds  BY <2>2, <2>5 DEF Base, Shape
  <3>4. PICK s \in Servers : fdOf[s] = owner  BY <2>2, <3>3 DEF Base, Registered
  <3>5. fdOf[s] # NoFd /\ s # c /\ s \in Conns  BY <1>0, <3>3, <3>4, FdsArePositive
  <3> HIDE DEF new, owner
  <3>6. CASE d # c
   <4>1. new.caller # fdOf[c]  BY <1>0, <2>2, <3>2, <3>6
   <4>2. {p \in pending' : p.caller = fdOf[c]} = {p \in pending : p.caller = fdOf[c]}
     BY <3>2, <4>1
   <4> QED  BY <1>5, <1>7, <2>1, <2>2, <3>1, <3>4, <3>5, <3>6, <4>2
  <3>7. CASE d = c
   <4>1. step[c] = "waiting" /\ Len(up[c]) = 1 /\ NoPending(c) /\ down[c] = <<>>
     BY <1>0, <1>7, <2>3, <3>7 DEF CallerStage, PeerOK
   <4>2. OnePending(c)'  BY <2>1, <3>2, <3>7, <4>1 DEF OnePending, NoPending
   <4>3. NoneFor(c)'  BY <1>0, <2>1, <3>1, <3>4, <3>5 DEF NoneFor
   <4> QED  BY <2>1, <2>2, <3>7, <4>1, <4>2, <4>3 DEF CallerStage
  <3> QED  BY <3>6, <3>7
 <2> QED  BY <2>4, <2>5
<1>8. ASSUME NEW d \in Conns, up[d] # <<>>, HandleReply(d, Head(up[d]))
      PROVE  CallerStage(c)'
 <2> DEFINE m == Head(up[d])
            mine == {p \in pending : p.txn = m.id /\ p.owner = fdOf[d]}
 <2>1. /\ Received(d) /\ Tells(mine, m.body) /\ mine \in SUBSET pending
       /\ UNCHANGED <<peer, step, down, fdOf>> /\ m.op = "BinderReply"
       /\ pending' = pending \ mine
   BY <1>8 DEF HandleReply
 <2>2. m \in Messages /\ running /\ outbox = <<>> /\ d # c
       /\ \A e \in Conns : e # d => up'[e] = up[e]
   BY <1>0, <1>8, <2>1, AtReceive DEF Asked
 <2>3. m.body \in Bodies  BY <2>2 DEF Messages
 <2>4. CallerStage(c) /\ ~OneFor(c) /\ up'[c] = up[c]  BY <1>0, <1>1, <1>3, <2>1, <2>2
 <2> HIDE DEF mine, m
 <2> QED  BY <2>1, <2>3, <2>4, ToldCaller
<1>9. ASSUME NEW d \in Conns,
             HandleHangup(d) \/ (up[d] # <<>> /\ HandleTruncated(d, Head(up[d])))
      PROVE  CallerStage(c)'
 <2>1. /\ running /\ outbox = <<>> /\ peer[d] = "closed" /\ UNCHANGED <<peer, down, step>>
       /\ \A e \in Conns : e # d => fdOf'[e] = fdOf[e] /\ up'[e] = up[e]
       /\ pending' = {p \in pending : fdOf[d] \notin {p.owner, p.caller}}
       /\ Orphans(fdOf[d]) \in SUBSET pending /\ Tells(Orphans(fdOf[d]), DeadObject)
       /\ fdOf[d] # NoFd
   BY <1>9, AtRemoval
 <2>2. d # c /\ DeadObject \in Bodies  BY <2>1 DEF Bodies
 <2>3. fdOf[d] # fdOf[c]  BY <1>0, <2>1, <2>2
 <2>4. /\ \A p \in pending' : p \in pending /\ p \notin Orphans(fdOf[d])
       /\ \A p \in pending : p.caller = fdOf[c] => p \in Orphans(fdOf[d]) \/ p \in pending'
   BY <2>1, <2>3 DEF Orphans
 <2>5. CallerStage(c) /\ ~OneFor(c) /\ up'[c] = up[c] /\ fdOf'[c] = fdOf[c]
   BY <1>0, <1>1, <1>3, <2>1, <2>2
 <2> QED  BY <2>1, <2>2, <2>4, <2>5, ToldCaller
<1>10. CASE EndRound
 <2>1. /\ running /\ outbox = <<>> /\ UNCHANGED <<peer, up, down, fdOf, pending, step>>
       /\ \A i \in DOMAIN outbox' : \E w \in subscribed : fdOf[w] = outbox'[i].fd
  <3>1. DOMAIN <<>> = {}  OBVIOUS
  <3> QED  BY <1>10, <3>1, AtEndRound
 <2>2. \A w \in subscribed : w \in Watchers /\ fdOf[w] # NoFd /\ w \in Conns
   BY OneProgram DEF Base, Registered
 <2>3. NoneFor(c)'  BY <1>0, <2>1, <2>2 DEF NoneFor
 <2> QED  BY <1>1, <1>3, <2>1, <2>3, OtherCaller
<1>11. ASSUME outbox # <<>>, outbox' = Tail(outbox), outbox[1].fd # fdOf[c],
              fdOf'[c] = fdOf[c], pending' = pending
       PROVE  /\ NoneFor(c) => NoneFor(c)'
              /\ OneFor(c) => OneFor(c)'
              /\ NoPending(c) => NoPending(c)'
              /\ OnePending(c) => OnePending(c)'
  BY <1>11, StillQueued DEF NoPending, OnePending
<1>12. CASE SendMessage
 <2>1. /\ outbox # <<>> /\ outbox' = Tail(outbox)
       /\ UNCHANGED <<peer, up, fdOf, pending, step, running>>
   BY <1>12 DEF SendMessage, registry
 <2>2. PICK d \in Conns : /\ fdOf[d] = Head(outbox).fd
                          /\ down' = [down EXCEPT ![d] = Append(@, Head(outbox).msg)]
   BY <1>12 DEF SendMessage
 <2>3. /\ Head(outbox) = outbox[1] /\ 1 \in DOMAIN outbox /\ Head(outbox) \in Sending
       /\ \A i \in DOMAIN outbox' : /\ i + 1 \in DOMAIN outbox /\ i \in Nat
                                    /\ outbox'[i] = outbox[i + 1] /\ i + 1 # 1
   BY <2>1, Dequeued
 <2>4. CallerStage(c) /\ fdOf[d] # NoFd /\ Head(outbox).msg \in Messages
   BY <1>1, <2>1, <2>2, <2>3, FdsArePositive DEF Sending
 <2>5. CASE d # c
  <3>1. down'[c] = down[c] /\ outbox[1].fd # fdOf[c]
    BY <1>0, <2>2, <2>3, <2>4, <2>5 DEF Base, Carried
  <3> QED  BY <1>11, <2>1, <2>4, <3>1 DEF CallerStage
 <2>6. CASE d = c
  <3> DEFINE m == Head(outbox).msg
  <3>1. outbox[1].fd = fdOf[c] /\ ~NoneFor(c)  BY <2>2, <2>3, <2>6 DEF NoneFor
  <3>2. /\ step[c] = "waiting" /\ up[c] = <<>> /\ fdOf[c] # NoFd
        /\ NoPending(c) /\ OneFor(c) /\ down[c] = <<>>
    BY <2>4, <3>1 DEF CallerStage
  <3>4. NoneFor(c)'  BY <2>1, <3>1, <3>2, NoLongerQueued
  <3>5. down'[c] = Append(down[c], m)  BY <1>0, <2>2, <2>6 DEF Base, Carried
  <3>6. Len(down'[c]) = 1  BY <3>2, <3>5
  <3>7. NoPending(c)'  BY <2>1, <3>2 DEF NoPending
  <3> QED  BY <2>1, <3>2, <3>4, <3>6, <3>7 DEF CallerStage
 <2> QED  BY <2>5, <2>6
<1>13. CASE SendMessageFails
 <2> DEFINE h == Head(outbox)
            failed == {p \in pending : p.txn = h.msg.id}
 <2>1. /\ UNCHANGED <<peer, up, down, fdOf, step, running>> /\ outbox # <<>>
       /\ h.fd # fdOf[c]
   BY <1>0, <1>13 DEF SendMessageFails, kernel
 <2>2. CallerStage(c) /\ h = outbox[1] /\ 1 \in DOMAIN outbox
       /\ DOMAIN outbox = 1..Len(outbox)
   BY <1>1, <2>1, HeadAndTail DEF Base, Carried
 <2>3. CASE h.msg.op = "BinderIncoming"
  <3>1. /\ Tells(failed, DeadObject) /\ failed \in SUBSET pending /\ DeadObject \in Bodies
        /\ pending' = pending \ failed
    BY <1>13, <2>3 DEF SendMessageFails, Bodies
  <3>2. Len(outbox) = 1  BY <2>2, <2>3 DEF Addressed
  <3>3. ~OneFor(c)  BY <2>1, <2>2, <3>2 DEF OneFor
  <3> HIDE DEF failed
  <3> QED  BY <2>1, <2>2, <3>1, <3>3, ToldCaller
 <2>4. CASE h.msg.op # "BinderIncoming"
  <3>1. outbox' = Tail(outbox) /\ pending' = pending  BY <1>13, <2>4 DEF SendMessageFails
  <3> QED  BY <1>11, <2>1, <2>2, <3>1 DEF CallerStage
 <2> QED  BY <2>3, <2>4
<1>14. CASE Terminate  BY <1>14, Zenon DEF Terminate
<1>15. ASSUME NEW d \in Conns, Connect(d) \/ Program(d) \/ Killed(d)
       PROVE  UNCHANGED <<fdOf, pending, outbox, running>>
  BY <1>15 DEF Connect, Program, Killed, Request, Sends, ReceiveReply, ReceiveRegistration,
     ReceiveIncoming, ReceivePush, Receives, Closes, SendReply, ReceiveEof, daemon, registry
<1>16. ASSUME NEW d \in Conns, Connect(d) \/ Program(d) \/ Killed(d), d # c
       PROVE  CallerStage(c)'
 <2>1. /\ peer'[c] = peer[c] /\ step'[c] = step[c] /\ up'[c] = up[c]
       /\ down'[c] = down[c]
   BY <1>0, <1>16 DEF Connect, Program, Killed, Request, Sends, ReceiveReply,
      ReceiveRegistration, ReceiveIncoming, ReceivePush, Receives, Closes, SendReply, ReceiveEof,
      Base, Shape, Carried
 <2> QED  BY <1>1, <1>15, <1>16, <2>1, OtherCaller
<1>17. CASE Connect(c)
 <2>1. /\ step'[c] = "connected" /\ UNCHANGED <<down, fdOf, pending, outbox>>
       /\ step[c] = "start"
   BY <1>0, <1>17 DEF Connect, daemon, registry, Base, Shape
 <2>2. peer[c] = "unused" /\ down[c] = <<>>  BY <1>0, <2>1 DEF PeerOK
 <2>3. fdOf[c] = NoFd  BY <1>0, <2>2 DEF Base, Connected, Accepted
 <2>4. NoneFor(c)' /\ NoPending(c)'  BY <1>0, <2>1, <2>3, Descriptors DEF NoneFor, NoPending
 <2> QED  BY <2>1, <2>2, <2>4 DEF CallerStage
<1>18. CASE Request(c)
 <2>1. PICK m \in Requests(c) : Sends(c, m)  BY <1>18 DEF Request
 <2>2. m.op = "BinderTransact"  BY <1>0 DEF Requests, Msg
 <2>3. /\ running /\ peer[c] = "open" /\ step[c] = "connected" /\ step'[c] = "waiting"
       /\ up'[c] = Append(up[c], m) /\ UNCHANGED <<down, fdOf, pending, outbox>>
   BY <1>0, <1>18, <2>1 DEF Request, Sends, daemon, registry, Base, Shape, Carried
 <2>4. up[c] = <<>>  BY <1>0, <2>3 DEF PeerOK
 <2>5. Len(up'[c]) = 1 /\ up'[c][1] = m  BY <2>3, <2>4
 <2>6. down[c] = <<>> /\ NoneFor(c)' /\ NoPending(c)'
   BY <1>1, <2>3 DEF CallerStage, NoneFor, NoPending
 <2> QED  BY <2>2, <2>3, <2>5, <2>6 DEF CallerStage
<1>19. /\ ~(down[c] # <<>> /\ ReceiveRegistration(c, Head(down[c])))
       /\ ~(down[c] # <<>> /\ ReceiveIncoming(c, Head(down[c])))
       /\ ~(down[c] # <<>> /\ ReceivePush(c, Head(down[c])))
       /\ ~SendReply(c)
  BY <1>0 DEF ReceiveRegistration, ReceiveIncoming, ReceivePush, SendReply, PeerOK
<1>20. /\ ~(down[c] # <<>> /\ ReceiveReply(c, Head(down[c])))
       /\ ~ReceiveEof(c) /\ ~Killed(c)
 <2>1. ~Closes(c)  BY <1>0 DEF Closes, Base, Shape
 <2> QED  BY <2>1 DEF ReceiveReply, ReceiveEof, Killed
<1> QED  BY <1>2, <1>4, <1>6, <1>7, <1>8, <1>9, <1>10, <1>12, <1>13, <1>14, <1>16, <1>17, <1>18,
     <1>19, <1>20
  DEF Next, Loop, Handle, Program

\* The daemon gives out one transaction id for each caller at most.
LEMMA CountedStep ==
  ASSUME Base, Counted, [Next]_vars
  PROVE  Counted'
<1>0. /\ \A c \in Callers : c \in Conns /\ c \notin Servers
      /\ \A c \in Conns : PeerOK(c)
      /\ IsFiniteSet(Callers) /\ nextTxn \in Nat
  BY OneProgram, MuplardAssumption DEF Base, Peers, Shape
<1>1. Spent \subseteq Callers /\ Spent' \subseteq Callers  BY DEF Spent
<1>2. /\ IsFiniteSet(Spent) /\ IsFiniteSet(Spent')
      /\ Cardinality(Spent) \in Nat /\ Cardinality(Spent') \in Nat
  BY <1>0, <1>1, FS_Subset, FS_CardinalityType
<1>3. ASSUME Spent \subseteq Spent', nextTxn' = nextTxn
      PROVE  Counted'
 <2>1. Cardinality(Spent) <= Cardinality(Spent')  BY <1>2, <1>3, FS_Subset
 <2> QED  BY <1>0, <1>2, <1>3, <2>1 DEF Counted
<1>4. ASSUME NEW c \in Callers, up[c] # <<>>, HandleTransact(c, Head(up[c]))
      PROVE  Counted'
 <2>1. Received(c) /\ UNCHANGED step /\ nextTxn' \in {nextTxn, nextTxn + 1}
       /\ Head(up[c]).op = "BinderTransact"
   BY <1>4 DEF HandleTransact
 <2>2. /\ Head(up[c]) = up[c][1] /\ 1 \in DOMAIN up[c]
       /\ Len(up[c]) = 1 => up'[c] = <<>>
       /\ \A d \in Conns : d # c => up'[d] = up[d]
   BY <1>0, <1>4, <2>1, AtReceive
 <2>3. c \notin Spent  BY <2>1, <2>2 DEF Spent
 <2>4. up'[c] = <<>>
  <3>1. up[c] \in Seq(Messages) /\ Len(up[c]) <= 1  BY <1>0 DEF PeerOK, Base, Carried
  <3>2. Len(up[c]) = 1
   <4>1. Len(up[c]) \in Nat /\ Len(up[c]) > 0  BY <1>4, <3>1, HeadAndTail
   <4>2. \A n \in Nat : n > 0 /\ n <= 1 => n = 1  OBVIOUS
   <4> QED  BY <3>1, <4>1, <4>2, Zenon
  <3> QED  BY <2>2, <3>2
 <2>5. step[c] \in {"waiting", "done"}  BY <1>0, <1>4 DEF PeerOK, Base, Shape, Steps
 <2>6. c \in Spent'
  <3>1. DOMAIN <<>> = {}  OBVIOUS
  <3> QED  BY <2>1, <2>4, <2>5, <3>1 DEF Spent
 <2>7. Spent \cup {c} \subseteq Spent'  BY <1>0, <2>1, <2>2, <2>3, <2>6 DEF Spent
 <2>8. Cardinality(Spent \cup {c}) = Cardinality(Spent) + 1  BY <1>2, <2>3, FS_AddElement
 <2>9. Cardinality(Spent \cup {c}) <= Cardinality(Spent')  BY <1>2, <2>7, FS_Subset
 <2> QED  BY <1>0, <1>2, <2>1, <2>8, <2>9 DEF Counted
<1>5. ASSUME NEW c \in Conns, up[c] # <<>>, HandleTransact(c, Head(up[c]))
      PROVE  c \in Callers
 <2>1. Received(c) /\ Head(up[c]).op = "BinderTransact"  BY <1>5 DEF HandleTransact
 <2> QED  BY <1>5, <2>1, AtReceive DEF Asked
<1>6. ASSUME nextTxn' = nextTxn,
             \A c \in Callers :
               /\ step[c] \in {"waiting", "done"} => step'[c] \in {"waiting", "done"}
               /\ \/ up'[c] = up[c] \/ up'[c] = <<>>
                  \/ \A i \in DOMAIN up'[c] : i + 1 \in DOMAIN up[c] /\ up'[c][i] = up[c][i + 1]
                  \/ step[c] \notin {"waiting", "done"}
      PROVE  Counted'
 <2>1. DOMAIN <<>> = {}  OBVIOUS
 <2>2. Spent \subseteq Spent'  BY <1>6, <2>1 DEF Spent
 <2> QED  BY <1>3, <1>6, <2>2
<1>7. ASSUME NEW c \in Conns, up[c] # <<>>,
             \/ HandleRegister(c, Head(up[c]))
             \/ HandleSubscribe(c, Head(up[c]))
             \/ HandleReply(c, Head(up[c]))
      PROVE  Counted'
 <2>1. Received(c) /\ UNCHANGED <<step, nextTxn>>
   BY <1>7 DEF HandleRegister, HandleSubscribe, HandleReply, registry
 <2>2. /\ \A d \in Conns : d # c => up'[d] = up[d]
       /\ \A i \in DOMAIN up'[c] : i + 1 \in DOMAIN up[c] /\ up'[c][i] = up[c][i + 1]
   BY <1>7, <2>1, AtReceive
 <2> QED  BY <1>0, <1>6, <2>1, <2>2
<1>8. ASSUME NEW c \in Conns,
             HandleHangup(c) \/ (up[c] # <<>> /\ HandleTruncated(c, Head(up[c])))
      PROVE  Counted'
 <2>1. /\ UNCHANGED <<step, nextTxn>> /\ up'[c] = <<>>
       /\ \A d \in Conns : d # c => up'[d] = up[d]
   BY <1>8, AtRemoval
 <2> QED  BY <1>0, <1>6, <2>1
<1>9. CASE Poll \/ EndRound \/ SendMessage \/ SendMessageFails \/ RegistryChanges
             \/ UNCHANGED vars
  BY <1>6, <1>9 DEF Poll, EndRound, SendMessage, SendMessageFails, RegistryChanges, vars, kernel,
     registry, daemon
<1>10. CASE Terminate  BY <1>0, <1>6, <1>10 DEF Terminate
<1>11. ASSUME NEW c \in Conns, Connect(c) \/ Program(c) \/ Killed(c)
       PROVE  Counted'
 <2>1. nextTxn' = nextTxn  BY <1>11 DEF Connect, Program, Killed, Request, Sends, ReceiveReply,
           ReceiveRegistration, ReceiveIncoming, ReceivePush, Receives, Closes,
           SendReply, ReceiveEof, daemon, registry
 <2>2. \A d \in Conns : d # c => step'[d] = step[d] /\ up'[d] = up[d]
   BY <1>11 DEF Connect, Program, Killed, Request, Sends, ReceiveReply, ReceiveRegistration,
      ReceiveIncoming, ReceivePush, Receives, Closes, SendReply, ReceiveEof, Base, Shape, Carried
 <2>3. CASE c \in Callers
  <3>1. ~SendReply(c) /\ ~ReceiveIncoming(c, Head(down[c]))
    BY <1>0, <2>3 DEF SendReply, ReceiveIncoming, PeerOK
  <3>2. CASE Connect(c) \/ Request(c)  BY <1>0, <1>6, <2>1, <2>2, <3>2 DEF Connect, Request
  <3>3. CASE /\ down[c] # <<>>
             /\ \/ ReceiveReply(c, Head(down[c]))
                \/ ReceiveRegistration(c, Head(down[c]))
                \/ ReceivePush(c, Head(down[c]))
    BY <1>0, <1>6, <2>1, <2>2, <2>3, <3>3
    DEF ReceiveReply, ReceiveRegistration, ReceivePush, Closes, Base, Shape
  <3>4. CASE ReceiveEof(c)  BY <1>0, <1>6, <2>1, <2>2, <3>4 DEF ReceiveEof, Closes, Base, Shape
  <3>5. CASE Killed(c)
   <4>1. step'[c] = "done"  BY <3>5 DEF Killed, Closes, Base, Shape
   <4>2. up'[c] = up[c] \/ step[c] \in {"connected", "replying"}  BY <3>5 DEF Killed
   <4> QED  BY <1>0, <1>6, <2>1, <2>2, <4>1, <4>2
  <3> QED  BY <1>11, <3>1, <3>2, <3>3, <3>4, <3>5 DEF Program
 <2>4. CASE c \notin Callers  BY <1>0, <1>6, <2>1, <2>2, <2>4
 <2> QED  BY <2>3, <2>4
<1> QED  BY <1>4, <1>5, <1>7, <1>8, <1>9, <1>10, <1>11 DEF Next, Loop, Handle

----
(* Pushes.                                                                 *)

\* A push that is queued carries the current generation.
LEMMA PushedStep ==
  ASSUME Base, Pushed, [Next]_vars
  PROVE  Pushed'
<1> SUFFICES ASSUME NEW w \in Watchers
             PROVE  \A i \in DOMAIN outbox' :
                      outbox'[i].fd = fdOf'[w] => outbox'[i].msg.body = generation'
  BY DEF Pushed
<1>0. /\ w \in Conns /\ w \notin Callers /\ w \notin Servers
      /\ \A c, d \in Conns : fdOf[c] = fdOf[d] /\ fdOf[c] # NoFd => c = d
      /\ \A d \in Callers : d \in Conns
      /\ \A d \in Servers : d \in Conns
  BY OneProgram, Descriptors
<1>1. CASE UNCHANGED <<outbox, fdOf, generation>>  BY <1>1 DEF Pushed
<1>2. CASE outbox' = <<>>  BY <1>2
<1>3. ASSUME NEW x, outbox' = <<x>>, x.fd = fdOf'[w] => x.msg.body = generation'
      PROVE  \A i \in DOMAIN outbox' :
               outbox'[i].fd = fdOf'[w] => outbox'[i].msg.body = generation'
  BY <1>3
<1>4. ASSUME NEW c \in Conns, up[c] # <<>>,
             HandleRegister(c, Head(up[c])) \/ HandleSubscribe(c, Head(up[c]))
      PROVE  \A i \in DOMAIN outbox' :
               outbox'[i].fd = fdOf'[w] => outbox'[i].msg.body = generation'
 <2>1. Received(c) /\ UNCHANGED <<fdOf, generation>>
   BY <1>4 DEF HandleRegister, HandleSubscribe, pushes
 <2>2. fdOf[c] # NoFd /\ Asked(c, Head(up[c]))  BY <1>4, <2>1, AtReceive
 <2>3. PICK x : /\ outbox' = <<x>> /\ x.fd = fdOf[c]
                /\ Head(up[c]).op # "RegisterService" => x.msg.body = generation
  <3>1. PICK m : /\ outbox' = <<To(fdOf[c], m)>>
                 /\ Head(up[c]).op # "RegisterService" => m.body = generation
    BY <1>4 DEF HandleRegister, HandleSubscribe, Msg
  <3> QED  BY <3>1 DEF To
 <2>4. x.fd = fdOf[w] => c = w  BY <1>0, <2>2, <2>3
 <2>5. c = w => Head(up[c]).op # "RegisterService"  BY <1>0, <2>2 DEF Asked
 <2> QED  BY <1>3, <2>1, <2>3, <2>4, <2>5
<1>5. ASSUME NEW c \in Conns, up[c] # <<>>, HandleTransact(c, Head(up[c]))
      PROVE  \A i \in DOMAIN outbox' :
               outbox'[i].fd = fdOf'[w] => outbox'[i].msg.body = generation'
 <2> DEFINE m == Head(up[c])
 <2>1. Received(c) /\ fdOf' = fdOf  BY <1>5 DEF HandleTransact
 <2>2. c \in Callers /\ fdOf[c] # NoFd /\ m.name \in Names /\ running
   BY <1>5, <2>1, AtReceive DEF HandleTransact, Asked
 <2>3. PICK x : outbox' = <<x>> /\ \E d \in Conns : x.fd = fdOf[d] /\ fdOf[d] # NoFd /\ d # w
  <3>1. CASE services[m.name] \in {Missing, Declared}
   <4>1. PICK x : outbox' = <<x>> /\ x.fd = fdOf[c]
     BY <1>5, <3>1 DEF HandleTransact, Answer, To
   <4> QED  BY <1>0, <2>2, <4>1
  <3>2. CASE services[m.name] \notin {Missing, Declared}
   <4>1. PICK x : outbox' = <<x>> /\ x.fd = services[m.name]
     BY <1>5, <3>2 DEF HandleTransact, To
   <4>2. services[m.name] \in Fds  BY <2>2, <3>2 DEF Base, Shape
   <4>3. PICK s \in Servers : fdOf[s] = services[m.name]  BY <2>2, <4>2 DEF Base, Registered
   <4> QED  BY <1>0, <4>1, <4>2, <4>3, FdsArePositive
  <3> QED  BY <3>1, <3>2
 <2>4. x.fd # fdOf'[w]  BY <1>0, <2>1, <2>3
 <2> QED  BY <1>3, <2>3, <2>4
<1>6. ASSUME NEW ps \in SUBSET pending, NEW body \in Bodies, Tells(ps, body),
             fdOf'[w] \in {fdOf[w], NoFd}
      PROVE  \A i \in DOMAIN outbox' :
               outbox'[i].fd = fdOf'[w] => outbox'[i].msg.body = generation'
 <2>1. \A i \in DOMAIN outbox' :
         outbox'[i].fd # NoFd /\ \E c \in Callers : fdOf[c] = outbox'[i].fd
   BY <1>6, Answering
 <2>2. \A i \in DOMAIN outbox' : outbox'[i].fd # fdOf'[w]  BY <1>0, <1>6, <2>1
 <2> QED  BY <2>2
<1>7. ASSUME NEW c \in Conns, up[c] # <<>>, HandleReply(c, Head(up[c]))
      PROVE  \A i \in DOMAIN outbox' :
               outbox'[i].fd = fdOf'[w] => outbox'[i].msg.body = generation'
 <2> DEFINE m == Head(up[c])
            mine == {p \in pending : p.txn = m.id /\ p.owner = fdOf[c]}
 <2>1. Received(c) /\ Tells(mine, m.body) /\ mine \in SUBSET pending /\ fdOf' = fdOf
   BY <1>7 DEF HandleReply
 <2>2. m.body \in Bodies  BY <1>7, <2>1, AtReceive DEF Messages
 <2> QED  BY <1>6, <2>1, <2>2
<1>8. ASSUME NEW c \in Conns,
             HandleHangup(c) \/ (up[c] # <<>> /\ HandleTruncated(c, Head(up[c])))
      PROVE  \A i \in DOMAIN outbox' :
               outbox'[i].fd = fdOf'[w] => outbox'[i].msg.body = generation'
 <2>1. /\ fdOf'[w] \in {fdOf[w], NoFd} /\ DeadObject \in Bodies
       /\ Orphans(fdOf[c]) \in SUBSET pending /\ Tells(Orphans(fdOf[c]), DeadObject)
   BY <1>0, <1>8, AtRemoval DEF Bodies
 <2> QED  BY <1>6, <2>1
<1>9. CASE EndRound
 <2>1. DOMAIN <<>> = {}  OBVIOUS
 <2> QED  BY <1>9, <2>1, AtEndRound
<1>10. CASE outbox # <<>> /\ outbox' = Tail(outbox) /\ UNCHANGED <<fdOf, generation>>
 <2>1. \A i \in DOMAIN outbox' : i + 1 \in DOMAIN outbox /\ outbox'[i] = outbox[i + 1]
   BY <1>10, Dequeued
 <2> QED  BY <1>10, <2>1 DEF Pushed
<1>11. CASE SendMessage  BY <1>10, <1>11 DEF SendMessage, pushes
<1>12. CASE SendMessageFails
 <2> DEFINE failed == {p \in pending : p.txn = Head(outbox).msg.id}
 <2>1. CASE Tells(failed, DeadObject)
  <3>1. failed \in SUBSET pending /\ DeadObject \in Bodies /\ fdOf' = fdOf
    BY <1>12 DEF SendMessageFails, kernel, Bodies
  <3> QED  BY <1>6, <2>1, <3>1
 <2>2. CASE ~Tells(failed, DeadObject)
   BY <1>10, <1>12, <2>2 DEF SendMessageFails, kernel, pushes
 <2> QED  BY <2>1, <2>2
<1>13. CASE Poll \/ Terminate  BY <1>2, <1>13 DEF Poll, Terminate
<1>14. CASE RegistryChanges \/ UNCHANGED vars
  BY <1>1, <1>14 DEF RegistryChanges, vars, kernel, daemon, pushes
<1>15. ASSUME NEW c \in Conns, Connect(c) \/ Program(c) \/ Killed(c)
       PROVE  UNCHANGED <<outbox, fdOf, generation>>
  BY <1>15 DEF Connect, Program, Killed, Request, Sends, ReceiveReply, ReceiveRegistration,
     ReceiveIncoming, ReceivePush, Receives, SendReply, ReceiveEof, daemon
<1> QED  BY <1>1, <1>4, <1>5, <1>7, <1>8, <1>9, <1>11, <1>12, <1>13, <1>14, <1>15
  DEF Next, Loop, Handle

\* A step that does not concern watcher w, and queues nothing for it.
LEMMA OtherWatcher ==
  ASSUME NEW w \in Watchers, WatcherStage(w),
         step'[w] = step[w], up'[w] = up[w], down'[w] = down[w], got'[w] = got[w],
         w \in subscribed' <=> w \in subscribed, generation' = generation,
         \/ outbox' = outbox /\ fdOf'[w] = fdOf[w]
         \/ ~OneFor(w) /\ NoneFor(w)'
  PROVE  WatcherStage(w)'
<1>1. (Told(w)' <=> Told(w)) /\ Newest(w)' = Newest(w)  BY DEF Told, Newest
<1>2. CASE outbox' = outbox /\ fdOf'[w] = fdOf[w]
 <2>1. (NoneFor(w) => NoneFor(w)') /\ (OneFor(w) => OneFor(w)')  BY <1>2 DEF NoneFor, OneFor
 <2> QED  BY <1>1, <2>1 DEF WatcherStage
<1>3. CASE ~OneFor(w) /\ NoneFor(w)'  BY <1>1, <1>3 DEF WatcherStage
<1> QED  BY <1>2, <1>3

\* A watcher takes the message at the head of its buffer.
LEMMA TakenPush ==
  ASSUME Base, NEW w \in Watchers, Stream(w), down[w] # <<>>, ReceivePush(w, Head(down[w]))
  PROVE  Stream(w)' /\ Told(w)' /\ Newest(w)' = Newest(w) /\ Told(w)
<1> DEFINE b == Head(down[w]).body
           D == Len(down[w])
           G == Len(got[w])
<1>1. /\ w \in Conns /\ down[w] \in Seq(Messages) /\ got[w] \in Seq(Payloads)
  BY OneProgram DEF Base, Carried
<1>2. /\ down'[w] = Tail(down[w]) /\ got'[w] = Append(got[w], b)
      /\ step'[w] = "waiting"
  BY <1>1 DEF ReceivePush, Receives, Base, Carried
<1>3. /\ D \in Nat /\ D > 0 /\ DOMAIN down[w] = 1..D
      /\ Head(down[w]) = down[w][1] /\ Head(down[w]) \in Messages
      /\ Len(down'[w]) = D - 1 /\ DOMAIN down'[w] = 1..(D - 1)
      /\ \A i \in 1..(D - 1) : down'[w][i] = down[w][i + 1]
  BY <1>1, <1>2, HeadAndTail
<1>4. b = down[w][1].body /\ b \in Payloads /\ b \in Nat  BY <1>3 DEF Messages, Payloads, Stream
<1> HIDE DEF b
<1>5. /\ G \in Nat /\ DOMAIN got[w] = 1..G
      /\ Len(got'[w]) = G + 1 /\ DOMAIN got'[w] = 1..(G + 1)
      /\ \A i \in 1..G : got'[w][i] = got[w][i]
      /\ got'[w][G + 1] = b
  BY <1>1, <1>2, <1>4, Appended
<1>6. /\ got[w] = <<>> <=> G = 0
      /\ got'[w] # <<>>
      /\ down'[w] = <<>> <=> D = 1
 <2>1. got[w] = <<>> <=> G = 0  BY <1>1
 <2>2. got'[w] # <<>>  BY <1>5
 <2>3. down'[w] = <<>> <=> D = 1
  <3>1. down'[w] \in Seq(Messages)  BY <1>1, <1>2, HeadAndTail
  <3>2. down'[w] = <<>> <=> Len(down'[w]) = 0  BY <3>1
  <3> QED  BY <1>3, <3>2
 <2> QED  BY <2>1, <2>2, <2>3
<1>7. /\ \A i \in 1..G : got[w][i] \in Nat
      /\ \A i \in 1..G : i # 1 => got[w][i] = got[w][i - 1] + 1
      /\ \A i \in 1..D : down[w][i].body \in Nat
      /\ \A i \in 1..D : i # 1 => down[w][i].body = down[w][i - 1].body + 1
      /\ G # 0 => down[w][1].body = got[w][G] + 1
  BY <1>3, <1>5, <1>6 DEF Stream
<1> HIDE DEF D, G
<1>8. \A i \in 1..(G + 1) : got'[w][i] \in Nat
 <2> SUFFICES ASSUME NEW i \in 1..(G + 1) PROVE got'[w][i] \in Nat  OBVIOUS
 <2>1. CASE i = G + 1  BY <1>4, <1>5, <2>1
 <2>2. CASE i # G + 1
  <3>1. i \in 1..G  BY <1>5, <2>2
  <3> QED  BY <1>5, <1>7, <3>1
 <2> QED  BY <2>1, <2>2
<1>9. \A i \in 1..(G + 1) : i # 1 => got'[w][i] = got'[w][i - 1] + 1
 <2> SUFFICES ASSUME NEW i \in 1..(G + 1), i # 1 PROVE got'[w][i] = got'[w][i - 1] + 1  OBVIOUS
 <2>1. i - 1 \in 1..G  BY <1>5
 <2>2. CASE i = G + 1
  <3>1. i - 1 = G /\ G # 0  BY <1>5, <2>1, <2>2
  <3> QED  BY <1>4, <1>5, <1>7, <2>1, <2>2, <3>1
 <2>3. CASE i # G + 1
  <3>1. i \in 1..G  BY <1>5, <2>3
  <3> QED  BY <1>5, <1>7, <2>1, <3>1
 <2> QED  BY <2>2, <2>3
<1>10. \A i \in 1..(D - 1) : down'[w][i].body \in Nat  BY <1>3, <1>7
<1>11. \A i \in 1..(D - 1) : i # 1 => down'[w][i].body = down'[w][i - 1].body + 1
 <2> SUFFICES ASSUME NEW i \in 1..(D - 1), i # 1
              PROVE  down'[w][i].body = down'[w][i - 1].body + 1
   OBVIOUS
 <2>1. i - 1 \in 1..(D - 1) /\ i + 1 \in 1..D /\ i + 1 # 1 /\ (i - 1) + 1 = i /\ (i + 1) - 1 = i
   BY <1>3
 <2>2. down[w][i + 1].body = down[w][i].body + 1  BY <1>7, <2>1
 <2>3. down'[w][i] = down[w][i + 1] /\ down'[w][i - 1] = down[w][i]  BY <1>3, <2>1
 <2> QED  BY <2>2, <2>3
<1>12. D # 1 => down'[w][1].body = got'[w][G + 1] + 1
 <2> SUFFICES ASSUME D # 1 PROVE down'[w][1].body = got'[w][G + 1] + 1  OBVIOUS
 <2>1. 1 \in 1..(D - 1) /\ 2 \in 1..D  BY <1>3
 <2>2. down'[w][1] = down[w][2] /\ down[w][2].body = down[w][1].body + 1  BY <1>3, <1>7, <2>1
 <2> QED  BY <1>4, <1>5, <2>2
<1>13. Stream(w)'  BY <1>2, <1>3, <1>5, <1>6, <1>8, <1>9, <1>10, <1>11, <1>12 DEF Stream
<1>14. Told(w)' /\ Told(w)  BY <1>6 DEF Told
<1>15. Newest(w)' = Newest(w)
 <2>1. Newest(w) = down[w][D].body  BY DEF Newest, D
 <2>2. CASE D = 1
  <3>1. Newest(w)' = got'[w][G + 1]  BY <1>5, <1>6, <2>2 DEF Newest
  <3> QED  BY <1>4, <1>5, <2>1, <2>2, <3>1
 <2>3. CASE D # 1
  <3>1. Newest(w)' = down'[w][D - 1].body  BY <1>3, <1>6, <2>3 DEF Newest
  <3>2. D - 1 \in 1..(D - 1) /\ (D - 1) + 1 = D  BY <1>3, <2>3
  <3>3. down'[w][D - 1] = down[w][D]  BY <1>3, <3>2
  <3> QED  BY <2>1, <3>1, <3>3
 <2> QED  BY <2>2, <2>3
<1> QED  BY <1>13, <1>14, <1>15

\* The daemon sends a watcher the generation after the newest it was told of.
LEMMA SentPush ==
  ASSUME NEW w \in Watchers, Stream(w), NEW m \in Messages,
         down[w] \in Seq(Messages), got[w] \in Seq(Payloads),
         down'[w] = Append(down[w], m), got'[w] = got[w], step'[w] = step[w],
         generation \in Nat, m.body = generation,
         Told(w) => Newest(w) = generation - 1
  PROVE  Stream(w)' /\ Told(w)' /\ Newest(w)' = generation
<1> DEFINE D == Len(down[w])
<1>1. /\ D \in Nat /\ DOMAIN down[w] = 1..D
      /\ Len(down'[w]) = D + 1 /\ DOMAIN down'[w] = 1..(D + 1)
      /\ \A i \in 1..D : down'[w][i] = down[w][i]
      /\ down'[w][D + 1] = m
  BY Appended
<1>2. (down[w] = <<>> <=> D = 0) /\ down'[w] # <<>>
 <2>1. down[w] = <<>> <=> D = 0  OBVIOUS
 <2>2. down'[w] # <<>>  BY <1>1
 <2> QED  BY <2>1, <2>2
<1>3. /\ \A i \in 1..D : down[w][i].body \in Nat
      /\ \A i \in 1..D : i # 1 => down[w][i].body = down[w][i - 1].body + 1
      /\ D # 0 => down[w][D].body = generation - 1
      /\ D # 0 /\ got[w] # <<>> => down[w][1].body = got[w][Len(got[w])] + 1
      /\ D = 0 /\ got[w] # <<>> => got[w][Len(got[w])] = generation - 1
  BY <1>1, <1>2 DEF Stream, Told, Newest
<1> HIDE DEF D
<1>4. \A i \in 1..(D + 1) : down'[w][i].body \in Nat  BY <1>1, <1>3
<1>5. \A i \in 1..(D + 1) : i # 1 => down'[w][i].body = down'[w][i - 1].body + 1
 <2> SUFFICES ASSUME NEW i \in 1..(D + 1), i # 1
              PROVE  down'[w][i].body = down'[w][i - 1].body + 1
   OBVIOUS
 <2>1. i - 1 \in 1..D  BY <1>1
 <2>2. CASE i = D + 1
  <3>1. i - 1 = D /\ D # 0  BY <1>1, <2>1, <2>2
  <3>2. down'[w][i - 1].body = generation - 1  BY <1>1, <1>3, <2>1, <3>1
  <3> QED  BY <1>1, <2>2, <3>2
 <2>3. CASE i # D + 1
  <3>1. i \in 1..D  BY <1>1, <2>3
  <3> QED  BY <1>1, <1>3, <2>1, <3>1
 <2> QED  BY <2>2, <2>3
<1>6. got[w] # <<>> => down'[w][1].body = got[w][Len(got[w])] + 1
 <2>1. CASE D = 0  BY <1>1, <1>3, <2>1
 <2>2. CASE D # 0
  <3>1. 1 \in 1..D  BY <1>1, <2>2
  <3> QED  BY <1>1, <1>3, <2>2, <3>1
 <2> QED  BY <2>1, <2>2
<1>7. Stream(w)'  BY <1>1, <1>2, <1>4, <1>5, <1>6 DEF Stream
<1>8. Told(w)' /\ Newest(w)' = generation  BY <1>1, <1>2 DEF Told, Newest
<1> QED  BY <1>7, <1>8

\* Every push is one more than the one before.
LEMMA StreamsStep ==
  ASSUME Base, Streams, WatchersInOrder, Pushed, [Next]_vars
  PROVE  Streams'
<1> SUFFICES ASSUME NEW w \in Watchers PROVE Stream(w)'  BY DEF Streams
<1>0. /\ w \in Conns /\ w \notin Callers /\ w \notin Servers /\ PeerOK(w) /\ Stream(w)
      /\ \A c, d \in Conns : fdOf[c] = fdOf[d] /\ fdOf[c] # NoFd => c = d
      /\ down[w] \in Seq(Messages) /\ got[w] \in Seq(Payloads)
  BY OneProgram, Descriptors DEF Base, Peers, Carried, Streams
<1>1. CASE /\ down'[w] = down[w] /\ got'[w] = got[w]
           /\ step'[w] = "start" => step[w] = "start"
  BY <1>0, <1>1 DEF Stream
<1>2. CASE SendMessage
 <2>1. outbox # <<>> /\ outbox' = Tail(outbox) /\ UNCHANGED <<got, step>>
   BY <1>2 DEF SendMessage
 <2>2. PICK c \in Conns : /\ fdOf[c] = Head(outbox).fd /\ peer[c] = "open"
                          /\ down' = [down EXCEPT ![c] = Append(@, Head(outbox).msg)]
   BY <1>2 DEF SendMessage
 <2>3. CASE c # w  BY <1>0, <1>1, <2>1, <2>2, <2>3 DEF Base, Carried
 <2>4. CASE c = w
  <3>1. Head(outbox) = outbox[1] /\ 1 \in DOMAIN outbox /\ Head(outbox) \in Sending
    BY <2>1, Dequeued
  <3>2. PICK m \in Messages : m = Head(outbox).msg  BY <3>1 DEF Sending
  <3>3. m.body = generation /\ ~NoneFor(w)  BY <2>2, <2>4, <3>1, <3>2 DEF Pushed, NoneFor
  <3>4. running  BY <2>1, Zenon DEF Base, Connected, Stopped
  <3>5. Told(w) => Newest(w) = generation - 1
    BY <2>2, <2>4, <3>3, <3>4 DEF WatchersInOrder, WatcherStage
  <3>6. down'[w] = Append(down[w], m) /\ generation \in Nat
    BY <1>0, <2>2, <2>4, <3>2 DEF Base, Carried, Shape
  <3> QED  BY <1>0, <2>1, <3>3, <3>5, <3>6, SentPush
 <2> QED  BY <2>3, <2>4
<1>3. CASE down[w] # <<>> /\ ReceivePush(w, Head(down[w]))  BY <1>0, <1>3, TakenPush
<1>4. CASE Closes(w) /\ got' = got
 <2>1. down'[w] = <<>> /\ step'[w] = "done" /\ DOMAIN <<>> = {}
   BY <1>0, <1>4 DEF Closes, Base, Shape, Carried
 <2> QED  BY <1>0, <1>4, <2>1 DEF Stream
<1>5. CASE ReceiveEof(w) \/ Killed(w)  BY <1>4, <1>5 DEF ReceiveEof, Killed
<1>6. CASE Connect(w) \/ Request(w)
 <2>1. UNCHANGED <<down, got>> /\ step'[w] # "start"
   BY <1>0, <1>6 DEF Connect, Request, Sends, Base, Shape
 <2> QED  BY <1>1, <2>1
<1>7. /\ ~(down[w] # <<>> /\ ReceiveRegistration(w, Head(down[w])))
      /\ ~(down[w] # <<>> /\ ReceiveIncoming(w, Head(down[w])))
      /\ ~(down[w] # <<>> /\ ReceiveReply(w, Head(down[w])))
      /\ ~SendReply(w)
  BY <1>0 DEF ReceiveRegistration, ReceiveIncoming, ReceiveReply, SendReply, PeerOK
<1>8. ASSUME NEW d \in Conns, Connect(d) \/ Program(d) \/ Killed(d), d # w
      PROVE  down'[w] = down[w] /\ got'[w] = got[w] /\ step'[w] = step[w]
  BY <1>0, <1>8 DEF Connect, Program, Killed, Request, Sends, ReceiveReply, ReceiveRegistration,
     ReceiveIncoming, ReceivePush, Receives, Closes, SendReply, ReceiveEof, Base, Shape, Carried
<1>9. CASE Connect(w) \/ Program(w) \/ Killed(w)  BY <1>3, <1>5, <1>6, <1>7, <1>9 DEF Program
<1>10. ASSUME Poll \/ (\E d \in Conns : Handle(d)) \/ EndRound \/ SendMessageFails
                \/ Terminate \/ RegistryChanges \/ UNCHANGED vars
       PROVE  UNCHANGED <<down, got, step>>
  BY <1>10 DEF Poll, Handle, HandleHangup, HandleTruncated, Removed, HandleRegister,
     HandleSubscribe, HandleTransact, HandleReply, EndRound, SendMessageFails, Terminate,
     RegistryChanges, vars, kernel
<1> QED  BY <1>1, <1>2, <1>8, <1>9, <1>10 DEF Next, Loop

\* A watcher has been told of the current generation or is about to be.
LEMMA WatchersStep ==
  ASSUME Base, Addressed, Streams, WatchersInOrder, Pushed, [Next]_vars
  PROVE  WatchersInOrder'
<1> SUFFICES ASSUME NEW w \in Watchers, running', peer'[w] = "open"
             PROVE  WatcherStage(w)'
  BY DEF WatchersInOrder
<1>0. /\ w \in Conns /\ w \notin Callers /\ w \notin Servers /\ PeerOK(w) /\ Stream(w)
      /\ \A c, d \in Conns : fdOf[c] = fdOf[d] /\ fdOf[c] # NoFd => c = d
      /\ \A d \in Callers : d \in Conns
      /\ \A d \in Servers : d \in Conns
      /\ up[w] \in Seq(Messages) /\ down[w] \in Seq(Messages) /\ got[w] \in Seq(Payloads)
      /\ generation \in Nat
  BY OneProgram, Descriptors DEF Base, Peers, Carried, Shape, Streams
<1>1. ASSUME running, peer[w] = "open"
      PROVE  WatcherStage(w)
  BY <1>1 DEF WatchersInOrder
<1>2. CASE UNCHANGED vars \/ RegistryChanges
 <2>1. UNCHANGED <<running, peer, step, up, down, got, fdOf, outbox, subscribed, generation>>
   BY <1>2 DEF vars, RegistryChanges, kernel, daemon, pushes
 <2> QED  BY <1>1, <2>1, OtherWatcher
<1>3. ~(outbox = <<>> /\ OneFor(w))  BY DEF OneFor
<1>4. CASE Poll
 <2>1. /\ running /\ outbox = <<>>
       /\ UNCHANGED <<peer, step, up, down, got, outbox, subscribed, generation>>
   BY <1>4 DEF Poll, pushes
 <2>2. NoneFor(w)'  BY <2>1 DEF NoneFor
 <2> QED  BY <1>1, <1>3, <2>1, <2>2, OtherWatcher
<1>5. ASSUME NEW d \in Conns, up[d] # <<>>, Received(d), d # w,
             NEW x, outbox' = <<x>>, NEW e \in Conns, fdOf[e] = x.fd, fdOf[e] # NoFd, e # w,
             UNCHANGED <<peer, step, down, got, fdOf, generation>>,
             w \in subscribed' <=> w \in subscribed
      PROVE  WatcherStage(w)'
 <2>1. running /\ outbox = <<>> /\ up'[w] = up[w]  BY <1>0, <1>5, AtReceive
 <2>2. NoneFor(w)'  BY <1>0, <1>5 DEF NoneFor
 <2> QED  BY <1>1, <1>3, <1>5, <2>1, <2>2, OtherWatcher
<1>6. ASSUME NEW d \in Conns, up[d] # <<>>, HandleRegister(d, Head(up[d]))
      PROVE  WatcherStage(w)'
 <2>1. /\ Received(d) /\ UNCHANGED <<peer, step, down, got, fdOf, generation, subscribed>>
       /\ Head(up[d]).op = "RegisterService"
   BY <1>6 DEF HandleRegister, pushes
 <2>2. d # w /\ fdOf[d] # NoFd  BY <1>0, <1>6, <2>1, AtReceive DEF Asked
 <2>3. PICK x : outbox' = <<x>> /\ x.fd = fdOf[d]
  <3>1. PICK m : outbox' = <<To(fdOf[d], m)>>  BY <1>6 DEF HandleRegister
  <3> QED  BY <3>1 DEF To
 <2> QED  BY <1>5, <1>6, <2>1, <2>2, <2>3
<1>7. ASSUME NEW d \in Conns, up[d] # <<>>, HandleSubscribe(d, Head(up[d]))
      PROVE  WatcherStage(w)'
 <2>1. /\ Received(d) /\ UNCHANGED <<peer, step, down, got, fdOf, generation>>
       /\ subscribed' = subscribed \cup {d}
   BY <1>7 DEF HandleSubscribe
 <2>2. /\ running /\ fdOf[d] # NoFd
       /\ Len(up[d]) = 1 => up'[d] = <<>>
   BY <1>7, <2>1, AtReceive
 <2>3. PICK x : outbox' = <<x>> /\ x.fd = fdOf[d]  BY <1>7 DEF HandleSubscribe, To
 <2>4. CASE d # w  BY <1>5, <1>7, <2>1, <2>2, <2>3, <2>4
 <2>5. CASE d = w
  <3>1. WatcherStage(w)  BY <1>1, <2>1, <2>2
  <3>2. step[w] = "waiting" /\ Len(up[w]) = 1 /\ ~Told(w)
    BY <1>0, <1>7, <2>5, <3>1 DEF WatcherStage, PeerOK
  <3>3. DOMAIN outbox' = {1} /\ outbox'[1].fd = fdOf'[w]  BY <2>1, <2>3, <2>5
  <3>4. OneFor(w)' /\ ~Told(w)'  BY <2>1, <3>2, <3>3 DEF OneFor, Told
  <3> QED  BY <2>1, <2>2, <2>5, <3>2, <3>4 DEF WatcherStage
 <2> QED  BY <2>4, <2>5
<1>8. ASSUME NEW d \in Conns, up[d] # <<>>, HandleTransact(d, Head(up[d]))
      PROVE  WatcherStage(w)'
 <2> DEFINE m == Head(up[d])
 <2>1. Received(d) /\ UNCHANGED <<peer, step, down, got, fdOf, generation, subscribed>>
   BY <1>8 DEF HandleTransact, pushes
 <2>2. d \in Callers /\ fdOf[d] # NoFd /\ m.name \in Names /\ running
   BY <1>8, <2>1, AtReceive DEF HandleTransact, Asked
 <2>3. CASE services[m.name] \in {Missing, Declared}
  <3>1. PICK x : outbox' = <<x>> /\ x.fd = fdOf[d]  BY <1>8, <2>3 DEF HandleTransact, Answer, To
  <3> QED  BY <1>0, <1>5, <1>8, <2>1, <2>2, <3>1
 <2>4. CASE services[m.name] \notin {Missing, Declared}
  <3>1. PICK x : outbox' = <<x>> /\ x.fd = services[m.name]
    BY <1>8, <2>4 DEF HandleTransact, To
  <3>2. services[m.name] \in Fds  BY <2>2, <2>4 DEF Base, Shape
  <3>3. PICK s \in Servers : fdOf[s] = services[m.name]  BY <2>2, <3>2 DEF Base, Registered
  <3>4. fdOf[s] # NoFd /\ s # w /\ s \in Conns /\ d # w
    BY <1>0, <2>2, <3>2, <3>3, FdsArePositive
  <3> QED  BY <1>5, <1>8, <2>1, <2>2, <3>1, <3>3, <3>4
 <2> QED  BY <2>3, <2>4
<1>9. ASSUME NEW ps \in SUBSET pending, NEW body \in Bodies, Tells(ps, body),
             fdOf'[w] = fdOf[w]
      PROVE  NoneFor(w)'
 <2>1. \A i \in DOMAIN outbox' :
         outbox'[i].fd # NoFd /\ \E c \in Callers : fdOf[c] = outbox'[i].fd
   BY <1>9, Answering
 <2>2. \A i \in DOMAIN outbox' : outbox'[i].fd # fdOf'[w]  BY <1>0, <1>9, <2>1
 <2> QED  BY <2>2 DEF NoneFor
<1>10. ASSUME NEW d \in Conns, up[d] # <<>>, HandleReply(d, Head(up[d]))
       PROVE  WatcherStage(w)'
 <2> DEFINE m == Head(up[d])
            mine == {p \in pending : p.txn = m.id /\ p.owner = fdOf[d]}
 <2>1. /\ Received(d) /\ Tells(mine, m.body) /\ mine \in SUBSET pending
       /\ UNCHANGED <<peer, step, down, got, fdOf, generation, subscribed>>
       /\ m.op = "BinderReply"
   BY <1>10 DEF HandleReply, pushes
 <2>2. m \in Messages /\ running /\ outbox = <<>> /\ d # w
       /\ \A e \in Conns : e # d => up'[e] = up[e]
   BY <1>0, <1>10, <2>1, AtReceive DEF Asked
 <2>3. m.body \in Bodies  BY <2>2 DEF Messages
 <2>4. NoneFor(w)' /\ up'[w] = up[w]  BY <1>0, <1>9, <2>1, <2>2, <2>3
 <2> QED  BY <1>1, <1>3, <2>1, <2>2, <2>4, OtherWatcher
<1>11. ASSUME NEW d \in Conns,
              HandleHangup(d) \/ (up[d] # <<>> /\ HandleTruncated(d, Head(up[d])))
       PROVE  WatcherStage(w)'
 <2>1. /\ running /\ outbox = <<>> /\ peer[d] = "closed"
       /\ UNCHANGED <<peer, down, step, got, generation>>
       /\ \A e \in Conns : e # d => fdOf'[e] = fdOf[e] /\ up'[e] = up[e]
       /\ subscribed' = subscribed \ {d}
       /\ Orphans(fdOf[d]) \in SUBSET pending /\ Tells(Orphans(fdOf[d]), DeadObject)
   BY <1>11, AtRemoval
 <2>2. d # w /\ DeadObject \in Bodies  BY <2>1 DEF Bodies
 <2>3. NoneFor(w)' /\ up'[w] = up[w]  BY <1>0, <1>9, <2>1, <2>2
 <2> QED  BY <1>1, <1>3, <2>1, <2>2, <2>3, OtherWatcher
<1>12. CASE EndRound
 <2>1. /\ running /\ outbox = <<>>
       /\ UNCHANGED <<peer, up, down, fdOf, subscribed, step, got>>
   BY <1>12, AtEndRound
 <2>2. WatcherStage(w) /\ ~OneFor(w)  BY <1>1, <1>3, <2>1
 <2>3. CASE generation' = generation /\ outbox' = <<>>
  <3>1. NoneFor(w)'  BY <2>3 DEF NoneFor
  <3> QED  BY <2>1, <2>2, <2>3, <3>1, OtherWatcher
 <2>4. CASE ~(generation' = generation /\ outbox' = <<>>)
  <3>1. /\ generation' = generation + 1
        /\ \A i \in DOMAIN outbox' : \E v \in subscribed : fdOf[v] = outbox'[i].fd
        /\ \A v \in subscribed : \E i \in DOMAIN outbox' :
             /\ outbox'[i].fd = fdOf[v]
             /\ \A j \in DOMAIN outbox' : outbox'[j].fd = fdOf[v] => j = i
    BY <1>12, <2>4, AtEndRound
  <3>2. \A v \in subscribed : v \in Conns /\ fdOf[v] # NoFd  BY OneProgram DEF Base, Registered
  <3>3. (Told(w)' <=> Told(w)) /\ Newest(w)' = Newest(w)  BY <2>1 DEF Told, Newest
  <3>4. CASE w \in subscribed
   <4>1. step[w] = "waiting" /\ up[w] = <<>> /\ Newest(w) = generation
     BY <2>2, <3>4 DEF WatcherStage
   <4>2. OneFor(w)'  BY <2>1, <3>1, <3>4 DEF OneFor
   <4>3. Newest(w)' = generation' - 1  BY <1>0, <3>1, <3>3, <4>1
   <4> QED  BY <2>1, <3>4, <4>1, <4>2, <4>3 DEF WatcherStage
  <3>5. CASE w \notin subscribed
   <4>1. NoneFor(w)'  BY <1>0, <2>1, <3>1, <3>2, <3>5 DEF NoneFor
   <4> QED  BY <2>1, <2>2, <3>3, <3>5, <4>1 DEF WatcherStage
  <3> QED  BY <3>4, <3>5
 <2> QED  BY <2>3, <2>4
<1>13. ASSUME outbox # <<>>, outbox' = Tail(outbox), outbox[1].fd # fdOf[w],
              fdOf'[w] = fdOf[w], step'[w] = step[w], up'[w] = up[w], down'[w] = down[w],
              got'[w] = got[w], subscribed' = subscribed, generation' = generation,
              WatcherStage(w)
       PROVE  WatcherStage(w)'
 <2>1. (NoneFor(w) => NoneFor(w)') /\ (OneFor(w) => OneFor(w)')  BY <1>13, StillQueued
 <2>2. (Told(w)' <=> Told(w)) /\ Newest(w)' = Newest(w)  BY <1>13 DEF Told, Newest
 <2> QED  BY <1>13, <2>1, <2>2 DEF WatcherStage
<1>14. CASE SendMessage
 <2>1. /\ outbox # <<>> /\ outbox' = Tail(outbox)
       /\ UNCHANGED <<peer, up, fdOf, step, got, running, subscribed, generation>>
   BY <1>14 DEF SendMessage, pushes
 <2>2. PICK d \in Conns : /\ fdOf[d] = Head(outbox).fd
                          /\ down' = [down EXCEPT ![d] = Append(@, Head(outbox).msg)]
   BY <1>14 DEF SendMessage
 <2>3. Head(outbox) = outbox[1] /\ 1 \in DOMAIN outbox /\ Head(outbox) \in Sending
   BY <2>1, Dequeued
 <2>4. WatcherStage(w) /\ fdOf[d] # NoFd  BY <1>1, <2>1, <2>2, <2>3, FdsArePositive DEF Sending
 <2>5. CASE d # w
  <3>1. down'[w] = down[w] /\ outbox[1].fd # fdOf[w]
    BY <1>0, <2>2, <2>3, <2>4, <2>5 DEF Base, Carried
  <3> QED  BY <1>13, <2>1, <2>4, <3>1
 <2>6. CASE d = w
  <3>1. PICK m \in Messages : m = Head(outbox).msg  BY <2>3 DEF Sending
  <3>2. outbox[1].fd = fdOf[w] /\ ~NoneFor(w) /\ m.body = generation
    BY <2>2, <2>3, <2>6, <3>1 DEF NoneFor, Pushed
  <3>3. /\ step[w] = "waiting" /\ up[w] = <<>> /\ w \in subscribed
        /\ Told(w) => Newest(w) = generation - 1
        /\ OneFor(w)
    BY <2>4, <3>2 DEF WatcherStage
  <3>4. NoneFor(w)'  BY <2>1, <3>2, <3>3, NoLongerQueued
  <3>5. down'[w] = Append(down[w], m)  BY <1>0, <2>2, <2>6, <3>1 DEF Base, Carried
  <3>6. Told(w)' /\ Newest(w)' = generation  BY <1>0, <2>1, <3>2, <3>3, <3>5, SentPush
  <3> QED  BY <2>1, <3>3, <3>4, <3>6 DEF WatcherStage
 <2> QED  BY <2>5, <2>6
<1>15. CASE SendMessageFails
 <2> DEFINE h == Head(outbox)
            failed == {p \in pending : p.txn = h.msg.id}
 <2>1. /\ UNCHANGED <<peer, up, down, fdOf, step, got, running, subscribed, generation>>
       /\ outbox # <<>> /\ h.fd # fdOf[w]
   BY <1>0, <1>15 DEF SendMessageFails, kernel, pushes
 <2>2. WatcherStage(w) /\ h = outbox[1] /\ 1 \in DOMAIN outbox
       /\ DOMAIN outbox = 1..Len(outbox)
   BY <1>1, <2>1, HeadAndTail DEF Base, Carried
 <2>3. CASE h.msg.op = "BinderIncoming"
  <3>1. Tells(failed, DeadObject) /\ failed \in SUBSET pending /\ DeadObject \in Bodies
    BY <1>15, <2>3 DEF SendMessageFails, Bodies
  <3>2. Len(outbox) = 1  BY <2>2, <2>3 DEF Addressed
  <3>3. ~OneFor(w)  BY <2>1, <2>2, <3>2 DEF OneFor
  <3>4. NoneFor(w)'  BY <1>9, <2>1, <3>1
  <3> QED  BY <2>1, <2>2, <3>3, <3>4, OtherWatcher
 <2>4. CASE h.msg.op # "BinderIncoming"
  <3>1. outbox' = Tail(outbox)  BY <1>15, <2>4 DEF SendMessageFails
  <3> QED  BY <1>13, <2>1, <2>2, <3>1
 <2> QED  BY <2>3, <2>4
<1>16. CASE Terminate  BY <1>16, Zenon DEF Terminate
<1>17. ASSUME NEW d \in Conns, Connect(d) \/ Program(d) \/ Killed(d)
       PROVE  UNCHANGED <<fdOf, outbox, running, subscribed, generation>>
  BY <1>17 DEF Connect, Program, Killed, Request, Sends, ReceiveReply, ReceiveRegistration,
     ReceiveIncoming, ReceivePush, Receives, Closes, SendReply, ReceiveEof, daemon
<1>18. ASSUME NEW d \in Conns, Connect(d) \/ Program(d) \/ Killed(d), d # w
       PROVE  WatcherStage(w)'
 <2>1. /\ peer'[w] = peer[w] /\ step'[w] = step[w] /\ up'[w] = up[w]
       /\ down'[w] = down[w] /\ got'[w] = got[w]
   BY <1>0, <1>18 DEF Connect, Program, Killed, Request, Sends, ReceiveReply,
      ReceiveRegistration, ReceiveIncoming, ReceivePush, Receives, Closes, SendReply, ReceiveEof,
      Base, Shape, Carried
 <2> QED  BY <1>1, <1>17, <1>18, <2>1, OtherWatcher
<1>19. CASE Connect(w)
 <2>1. /\ step'[w] = "connected" /\ UNCHANGED <<down, got, fdOf, outbox, subscribed>>
       /\ step[w] = "start"
   BY <1>0, <1>19 DEF Connect, daemon, Base, Shape
 <2>2. peer[w] = "unused" /\ down[w] = <<>> /\ got[w] = <<>>  BY <1>0, <2>1 DEF PeerOK, Stream
 <2>3. fdOf[w] = NoFd /\ w \notin subscribed
   BY <1>0, <2>2 DEF Base, Connected, Accepted, Registered
 <2>4. NoneFor(w)' /\ ~Told(w)'  BY <2>1, <2>2, <2>3, Descriptors DEF NoneFor, Told
 <2> QED  BY <2>1, <2>3, <2>4 DEF WatcherStage
<1>20. CASE Request(w)
 <2>1. PICK m \in Requests(w) : Sends(w, m)  BY <1>20 DEF Request
 <2>2. /\ running /\ peer[w] = "open" /\ step[w] = "connected" /\ step'[w] = "waiting"
       /\ up'[w] = Append(up[w], m) /\ UNCHANGED <<down, got, fdOf, outbox, subscribed>>
   BY <1>0, <1>20, <2>1 DEF Request, Sends, daemon, Base, Shape, Carried
 <2>3. up[w] = <<>>  BY <1>0, <2>2 DEF PeerOK
 <2>4. Len(up'[w]) = 1  BY <2>2, <2>3
 <2>5. w \notin subscribed /\ NoneFor(w)' /\ ~Told(w)'
   BY <1>1, <2>2 DEF WatcherStage, NoneFor, Told
 <2> QED  BY <2>2, <2>4, <2>5 DEF WatcherStage
<1>21. CASE down[w] # <<>> /\ ReceivePush(w, Head(down[w]))
 <2>1. /\ UNCHANGED <<up, peer, running, step, fdOf, outbox, subscribed, generation>>
       /\ step[w] = "waiting"
   BY <1>21 DEF ReceivePush, daemon
 <2>2. WatcherStage(w)  BY <1>1, <2>1
 <2>3. Told(w)' /\ Newest(w)' = Newest(w) /\ Told(w)  BY <1>0, <1>21, TakenPush
 <2>4. (NoneFor(w) => NoneFor(w)') /\ (OneFor(w) => OneFor(w)')  BY <2>1 DEF NoneFor, OneFor
 <2> QED  BY <2>1, <2>2, <2>3, <2>4 DEF WatcherStage
<1>22. /\ ~(down[w] # <<>> /\ ReceiveRegistration(w, Head(down[w])))
       /\ ~(down[w] # <<>> /\ ReceiveIncoming(w, Head(down[w])))
       /\ ~(down[w] # <<>> /\ ReceiveReply(w, Head(down[w])))
       /\ ~SendReply(w)
  BY <1>0 DEF ReceiveRegistration, ReceiveIncoming, ReceiveReply, SendReply, PeerOK
<1>23. ~ReceiveEof(w) /\ ~Killed(w)
 <2>1. ~Closes(w)  BY <1>0 DEF Closes, Base, Shape
 <2> QED  BY <2>1 DEF ReceiveEof, Killed
<1> QED  BY <1>2, <1>4, <1>6, <1>7, <1>8, <1>10, <1>11, <1>12, <1>14, <1>15, <1>16, <1>18,
     <1>19, <1>20, <1>21, <1>22, <1>23
  DEF Next, Loop, Handle, Program

----
(* The whole invariant and what follows from it.                           *)

\* The layer that adds what is on the way between the daemon and its clients.
Conversations ==
  /\ Base /\ Addressed /\ ServersInOrder /\ Confirmed /\ Routed
  /\ CallersInOrder /\ Counted
  /\ Streams /\ WatchersInOrder /\ Pushed

\* There is nothing on the way at first.
LEMMA ConversationsInit == Init => Conversations
<1> SUFFICES ASSUME Init PROVE Conversations  OBVIOUS
<1>1. Base  BY ShapeInit, CarriedInit, ConnectedInit DEF Base
<1>2. /\ outbox = <<>> /\ pending = {} /\ nextTxn = 1 /\ DOMAIN <<>> = {}
      /\ \A c \in Conns : /\ up[c] = <<>> /\ down[c] = <<>> /\ got[c] = <<>>
                          /\ step[c] = "start" /\ peer[c] = "unused" /\ fdOf[c] = NoFd
  BY DEF Init
<1>3. Addressed /\ ServersInOrder /\ Confirmed /\ CallersInOrder
  BY <1>2, OneProgram DEF Addressed, ServersInOrder, Confirmed, CallersInOrder
<1>4. Routed  BY <1>2, OneProgram DEF Routed, RoutedOut, RoutedServers, RoutedCallers
<1>5. Counted
 <2>1. Spent \subseteq Callers  BY DEF Spent
 <2>2. Cardinality(Spent) \in Nat  BY <2>1, MuplardAssumption, FS_Subset, FS_CardinalityType
 <2> QED  BY <1>2, <2>2 DEF Counted
<1>6. Streams /\ WatchersInOrder /\ Pushed
  BY <1>2, OneProgram DEF Streams, Stream, WatchersInOrder, Pushed
<1> QED  BY <1>1, <1>3, <1>4, <1>5, <1>6 DEF Conversations

\* Every step of the daemon, of a client and of the installer keeps it.
LEMMA ConversationsInvariant == Spec => []Conversations
<1>1. Base /\ [Next]_vars => Base'
  BY ShapeStep, CarriedStep, AcceptedStep, StoppedStep, PeersStep, RegisteredStep
  DEF Base, Connected
<1>2. Conversations /\ [Next]_vars => Conversations'
  BY <1>1, AddressedStep, ServersStep, ConfirmedStep, RoutedStep, CallersStep, CountedStep,
     StreamsStep, WatchersStep, PushedStep DEF Conversations
<1> QED  BY <1>2, ConversationsInit, PTL DEF Spec

\* The types hold for any number of clients; in particular the transaction ids
\* that muplard hands out stay below the number of callers.
THEOREM TypeCorrect == Spec => []TypeOK
<1>1. Conversations => TypeOK
 <2> SUFFICES ASSUME Conversations PROVE TypeOK  OBVIOUS
 <2>1. Base /\ Counted  BY DEF Conversations
 <2>2. Range(backlog) \cup Range(clients) \subseteq Conns  BY <2>1 DEF Base, Shape, Range
 <2>3. subscribed \subseteq Range(clients)
   BY <2>1, OneProgram DEF Base, Registered, Connected, Accepted, Range
 <2>4. \A p \in pending : p.txn \in 1..(nextTxn - 1)
  <3>1. \A p \in pending : p.txn \in Nat \ {0} /\ p.txn < nextTxn
    BY <2>1 DEF Base, Shape, Transactions, Registered
  <3>2. nextTxn \in Nat  BY <2>1 DEF Base, Shape
  <3> QED  BY <3>1, <3>2
 <2>5. nextTxn \in 1..(Cardinality(Callers) + 1)
  <3>1. Spent \subseteq Callers  BY DEF Spent
  <3>2. /\ Cardinality(Spent) \in Nat /\ Cardinality(Callers) \in Nat
        /\ Cardinality(Spent) <= Cardinality(Callers)
    BY <3>1, MuplardAssumption, FS_Subset, FS_CardinalityType
  <3>3. nextTxn \in Nat \ {0}  BY <2>1 DEF Base, Shape
  <3> QED  BY <2>1, <3>2, <3>3 DEF Counted
 <2>6. /\ generation \in 1..(prevStamp + 1)
       /\ stamp \in 0..MaxStamp /\ prevStamp \in 0..stamp
   BY <2>1, MuplardAssumption DEF Base, Shape
 <2>7. /\ peer \in [Conns -> {"unused", "open", "closed"}]
       /\ \A c \in Conns : Len(up[c]) <= Capacity /\ Len(down[c]) <= Capacity
       /\ fdOf \in [Conns -> Fds \cup {NoFd}]
       /\ phase \in {"poll", "clients"}
       /\ revents \in Seq({"none", "in", "hup"}) /\ Len(revents) <= Len(clients)
       /\ services \in [Names -> {Missing, Declared} \cup Fds]
       /\ owned \in [Conns -> SUBSET Names]
       /\ step \in [Conns -> {"start", "connected", "waiting", "serving",
                              "replying", "done"}]
   BY <2>1 DEF Base, Shape, Steps
 <2>8. running \in BOOLEAN  BY <2>1 DEF Base, Shape
 <2> QED  BY <2>2, <2>3, <2>4, <2>5, <2>6, <2>7, <2>8 DEF TypeOK
<1> QED  BY <1>1, ConversationsInvariant, PTL

\* muplard never hands a caller the answer to another client's transaction,
\* although it routes by descriptor numbers and transaction ids alone.
THEOREM CallersGetTheirAnswers == Spec => []AnswersAreMine
<1>1. Conversations => AnswersAreMine
  BY DEF Conversations, Routed, RoutedCallers, AnswersAreMine, Range
<1> QED  BY <1>1, ConversationsInvariant, PTL

\* A name that muplard has confirmed to a server stays that server's until the
\* daemon drops the connection, whoever else asks for it.
THEOREM ConfirmedNamesHold == Spec => []RegistrationHolds
<1>1. Conversations => RegistrationHolds  BY DEF Conversations, Confirmed, RegistrationHolds
<1> QED  BY <1>1, ConversationsInvariant, PTL

\* A waiting caller's transaction is in exactly one place, for any number of
\* callers and servers that come, go and die in any order.
THEOREM TransactionsAreConserved == Spec => []TransactionConserved
<1>1. Conversations => TransactionConserved
 <2> SUFFICES ASSUME Conversations, running, NEW c \in Callers, step[c] = "waiting"
              PROVE  IF fdOf[c] = NoFd THEN InRequest(c) = 1
                     ELSE InRequest(c) + InPending(c) + InOutbox(c) + InAnswer(c) = 1
   BY DEF TransactionConserved
 <2>1. Base /\ Addressed /\ CallersInOrder  BY DEF Conversations
 <2>2. c \in Conns /\ down[c] \in Seq(Messages) /\ up[c] \in Seq(Messages)
   BY <2>1, OneProgram DEF Base, Carried
 <2>3. peer[c] = "open"  BY <2>1, <2>2 DEF Base, Peers, PeerOK, Shape
 <2>4. CallerStage(c)  BY <2>1, <2>3 DEF CallersInOrder
 <2>5. \A S : /\ (\A x \in S : FALSE) => Cardinality(S) = 0
              /\ \A x : (x \in S /\ \A y \in S : y = x) => Cardinality(S) = 1
  <3>1. ASSUME NEW S, \A x \in S : FALSE PROVE Cardinality(S) = 0
   <4>1. S = {}  BY <3>1
   <4> QED  BY <4>1, FS_EmptySet
  <3>2. ASSUME NEW S, NEW x, x \in S, \A y \in S : y = x PROVE Cardinality(S) = 1
   <4>1. S = {x}  BY <3>2
   <4> QED  BY <4>1, FS_Singleton
  <3> QED  BY <3>1, <3>2
 <2>6. /\ up[c] = <<>> => InRequest(c) = 0
       /\ Len(up[c]) = 1 /\ up[c][1].op = "BinderTransact" => InRequest(c) = 1
  <3> DEFINE R == {i \in DOMAIN up[c] : up[c][i].op = "BinderTransact"}
  <3>1. up[c] = <<>> => \A i \in R : FALSE  OBVIOUS
  <3>2. Len(up[c]) = 1 /\ up[c][1].op = "BinderTransact" => 1 \in R /\ \A i \in R : i = 1
    BY <2>2
  <3>3. InRequest(c) = Cardinality(R)  BY DEF InRequest
  <3> HIDE DEF R
  <3> QED  BY <2>5, <3>1, <3>2, <3>3
 <2>7. (NoPending(c) => InPending(c) = 0) /\ (OnePending(c) => InPending(c) = 1)
  <3> DEFINE P == {p \in pending : p.caller = fdOf[c]}
  <3>1. NoPending(c) => \A p \in P : FALSE  BY DEF NoPending
  <3>2. OnePending(c) => \E p \in P : \A q \in P : q = p  BY DEF OnePending
  <3>3. InPending(c) = Cardinality(P)  BY DEF InPending
  <3> HIDE DEF P
  <3> QED  BY <2>5, <3>1, <3>2, <3>3
 <2>8. (NoneFor(c) => InOutbox(c) = 0) /\ (OneFor(c) => InOutbox(c) = 1)
  <3> DEFINE Q == {i \in DOMAIN outbox : /\ outbox[i].fd = fdOf[c]
                                         /\ outbox[i].msg.op = "BinderTransact"}
  <3>1. NoneFor(c) => \A i \in Q : FALSE  BY DEF NoneFor
  <3>2. OneFor(c) => \E i \in Q : \A j \in Q : j = i  BY <2>1, <2>2 DEF OneFor, Addressed
  <3>3. InOutbox(c) = Cardinality(Q)  BY DEF InOutbox
  <3> HIDE DEF Q
  <3> QED  BY <2>5, <3>1, <3>2, <3>3
 <2>9. InAnswer(c) = Len(down[c]) /\ Len(<<>>) = 0  BY DEF InAnswer
 <2>10. CASE Len(up[c]) = 1 /\ up[c][1].op = "BinderTransact"
             /\ NoPending(c) /\ NoneFor(c) /\ down[c] = <<>>
  <3>1. InRequest(c) = 1 /\ InPending(c) = 0 /\ InOutbox(c) = 0 /\ InAnswer(c) = 0
    BY <2>6, <2>7, <2>8, <2>9, <2>10
  <3> QED  BY <3>1
 <2>11. CASE /\ up[c] = <<>> /\ fdOf[c] # NoFd
             /\ \/ OnePending(c) /\ NoneFor(c) /\ down[c] = <<>>
                \/ NoPending(c) /\ OneFor(c) /\ down[c] = <<>>
                \/ NoPending(c) /\ NoneFor(c) /\ Len(down[c]) = 1
  <3>1. InRequest(c) = 0  BY <2>6, <2>11
  <3>2. \/ InPending(c) = 1 /\ InOutbox(c) = 0 /\ InAnswer(c) = 0
        \/ InPending(c) = 0 /\ InOutbox(c) = 1 /\ InAnswer(c) = 0
        \/ InPending(c) = 0 /\ InOutbox(c) = 0 /\ InAnswer(c) = 1
    BY <2>7, <2>8, <2>9, <2>11
  <3> QED  BY <2>11, <3>1, <3>2
 <2> QED  BY <2>4, <2>10, <2>11 DEF CallerStage
<1> QED  BY <1>1, ConversationsInvariant, PTL

\* A subscriber of the package changes sees every generation once and in order,
\* the acknowledgement of its subscription first, however the rewrites of the
\* registry and its own reading interleave.
THEOREM PushesCountUp == Spec => []PushesAreContiguous
<1>1. Conversations => PushesAreContiguous
 <2> SUFFICES ASSUME Conversations, NEW w \in Watchers, NEW i \in 1..(Len(got[w]) - 1)
              PROVE  got[w][i + 1] = got[w][i] + 1
   BY DEF PushesAreContiguous
 <2>1. w \in Conns /\ got[w] \in Seq(Payloads) /\ Stream(w)
   BY OneProgram DEF Conversations, Base, Carried, Streams
 <2>2. i + 1 \in DOMAIN got[w] /\ i + 1 # 1 /\ (i + 1) - 1 = i
  <3>1. Len(got[w]) \in Nat /\ DOMAIN got[w] = 1..Len(got[w])  BY <2>1
  <3> QED  BY <3>1
 <2> QED  BY <2>1, <2>2 DEF Stream
<1> QED  BY <1>1, ConversationsInvariant, PTL
=============================================================================
