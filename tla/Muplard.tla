------------------------------- MODULE Muplard -------------------------------
(***************************************************************************)
(* The Android session daemon: one thread that polls a listening socket    *)
(* and its clients, keeps the service registry, routes binder transactions *)
(* from callers to the connection that owns a service, and pushes package  *)
(* changes to subscribers.  Connections are named by reusable descriptor   *)
(* numbers, as in the code.                                                *)
(*                                                                         *)
(* A handler's messages go through outbox one send() at a time, because a  *)
(* send blocks while the peer's socket buffer is full and the daemon has   *)
(* no other thread.  The client ends are the client programs of the        *)
(* repository: one-shot requests, binder-serve, and subscribers.           *)
(***************************************************************************)
EXTENDS Integers, Sequences, FiniteSets, SequencesExt, FiniteSetsExt

CONSTANTS
  Callers,   \* connections of one-shot binder-transact requests
  Servers,   \* connections of binder-serve clients
  Watchers,  \* connections of subscribe-packages clients
  Names,     \* service names
  Builtin,   \* the names builtin_services() declares
  Capacity,  \* messages a socket buffer holds
  MaxStamp   \* bound: rewrites of the package registry

ASSUME MuplardAssumption ==
  /\ IsFiniteSet(Callers) /\ IsFiniteSet(Servers) /\ IsFiniteSet(Watchers)
  /\ Callers \cap Servers = {} /\ Callers \cap Watchers = {}
  /\ Servers \cap Watchers = {}
  /\ Builtin \subseteq Names
  /\ Capacity \in Nat \ {0} /\ MaxStamp \in Nat

Conns == Callers \cup Servers \cup Watchers
Fds == 1..Cardinality(Conns)

\* What services.find(name) yields: no entry, -1, or the owner's descriptor.
Missing == 0
Declared == -1

NoFd == 0

VARIABLES
  \* the kernel's side of the socket
  peer,        \* peer[c]: the client's end of connection c
  up,          \* up[c]: messages sent and not yet received by the daemon
  down,        \* down[c]: messages sent to the client and not yet received
  backlog,     \* connections not yet accepted
  fdOf,        \* the daemon's descriptor of a connection, or NoFd
  \* the daemon
  running,     \* FALSE once the loop has ended
  phase,       \* "poll", or "clients" between poll() and the registry check
  clients,     \* accepted connections, in the order of the vector
  revents,     \* what poll() reported of the clients still to be looked at
  outbox,      \* the sends the current handler still has to make
  services,    \* the registry
  owned,       \* owned[c]: Client::owned_services
  pending,     \* pending_transactions
  nextTxn,     \* next_transaction_id
  subscribed,  \* the connections with Client::package_subscriber
  generation,  \* package_generation
  stamp,       \* the stamp of the registry file
  prevStamp,   \* previous_registry_stamp
  \* the client programs
  step,        \* where the program of connection c is
  got          \* got[c]: the payloads it has received

kernel == <<peer, up, down, backlog, fdOf>>
registry == <<services, owned, pending, nextTxn>>
pushes == <<subscribed, generation, stamp, prevStamp>>
vars == <<kernel, running, phase, clients, revents, outbox, registry, pushes,
          step, got>>

----
(* Messages.  id is the header's request id: 1 from every client program,  *)
(* the transaction id in BinderIncoming and BinderReply, 0 in a push.      *)

Msg(op, id, name, body) == [op |-> op, id |-> id, name |-> name, body |-> body]
NoName == "none"
DeadObject == "DEAD_OBJECT"

\* A send() of the daemon that is still to be made.
To(fd, m) == [fd |-> fd, msg |-> m]
Answer(fd, id, body) == To(fd, Msg("BinderTransact", id, NoName, body))

Init ==
  /\ peer = [c \in Conns |-> "unused"]
  /\ up = [c \in Conns |-> <<>>]
  /\ down = [c \in Conns |-> <<>>]
  /\ backlog = <<>>
  /\ fdOf = [c \in Conns |-> NoFd]
  /\ running = TRUE
  /\ phase = "poll"
  /\ clients = <<>>
  /\ revents = <<>>
  /\ outbox = <<>>
  /\ services = [n \in Names |-> IF n \in Builtin THEN Declared ELSE Missing]
  /\ owned = [c \in Conns |-> {}]
  /\ pending = {}
  /\ nextTxn = 1
  /\ subscribed = {}
  /\ generation = 1
  /\ stamp = 0
  /\ prevStamp = 0
  /\ step = [c \in Conns |-> "start"]
  /\ got = [c \in Conns |-> <<>>]

----
(* One round of the daemon's loop.                                         *)

Events(c) ==
  CASE peer[c] = "closed" -> "hup"   \* reported with POLLIN if bytes are left
    [] peer[c] = "open" /\ up[c] # <<>> -> "in"
    [] OTHER -> "none"

\* accept() hands out the lowest number that is free.
FreeFd(fd) ==
  LET free == Fds \ Range(fdOf)
  IN  fd \in free /\ \A other \in free : fd <= other

\* poll(), and the accept() of at most one connection.  A round without any
\* event changes nothing and is left out.  The new client has no events yet.
Poll ==
  /\ running /\ phase = "poll" /\ outbox = <<>>
  /\ \/ backlog # <<>> \/ stamp # prevStamp
     \/ \E i \in DOMAIN clients : Events(clients[i]) # "none"
  /\ revents' = [i \in DOMAIN clients |-> Events(clients[i])]
  /\ phase' = "clients"
  /\ IF backlog # <<>>
     THEN /\ \E fd \in Fds : /\ FreeFd(fd)
                             /\ fdOf' = [fdOf EXCEPT ![Head(backlog)] = fd]
          /\ backlog' = Tail(backlog)
          /\ clients' = Append(clients, Head(backlog))
     ELSE UNCHANGED <<backlog, fdOf, clients>>
  /\ UNCHANGED <<peer, up, down, running, outbox, registry, pushes, step, got>>

\* The daemon is between two clients of a round, which goes from the last to
\* the first: c is the next one with an event, e.
AtClient(c, e) ==
  /\ phase = "clients" /\ outbox = <<>>
  /\ \E i \in DOMAIN revents :
       /\ clients[i] = c /\ revents[i] = e
       /\ \A j \in DOMAIN revents : j > i => revents[j] = "none"
       /\ revents' = SubSeq(revents, 1, i - 1)

\* receive_header_with_fd() and receive_exact() return the first message of c.
Received(c) ==
  /\ AtClient(c, "in")
  /\ up' = [up EXCEPT ![c] = Tail(@)]

\* Whether a client may register the name.  Mutant: taken names are given away.
AvailableAlways(name) == TRUE
Available(name) == services[name] \in {Missing, Declared}

HandleRegister(c, m) ==
  LET available == Available(m.name)
  IN  /\ Received(c) /\ m.op = "RegisterService"
      /\ services' = IF available THEN [services EXCEPT ![m.name] = fdOf[c]]
                                  ELSE services
      /\ owned' = IF available THEN [owned EXCEPT ![c] = @ \cup {m.name}]
                               ELSE owned
      /\ outbox' = <<To(fdOf[c], Msg(m.op, m.id, m.name,
                                       IF available THEN "1" ELSE "0"))>>
      /\ UNCHANGED <<peer, down, backlog, fdOf, running, phase, clients,
                     pending, nextTxn, pushes, step, got>>

HandleSubscribe(c, m) ==
  /\ Received(c) /\ m.op = "SubscribePackages"
  /\ subscribed' = subscribed \cup {c}
  /\ outbox' = <<To(fdOf[c], Msg(m.op, m.id, NoName, generation))>>
  /\ UNCHANGED <<peer, down, backlog, fdOf, running, phase, clients, registry,
                 generation, stamp, prevStamp, step, got>>

\* The sends that push generation g to every subscriber, in client order.
Push(c, g) == To(fdOf[c], Msg("PackageChanged", 0, NoName, g))
InClientOrder(q) ==
  \A i, j \in DOMAIN clients : \A k, l \in DOMAIN q :
    clients[i] = q[k] /\ clients[j] = q[l] /\ k < l => i < j

\* Mutants: the generation before the change is pushed; nobody is told.
BroadcastOld(g) ==
  \E q \in SetToSeqs(subscribed) :
    /\ InClientOrder(q)
    /\ outbox' = [i \in DOMAIN q |-> Push(q[i], g - 1)]
BroadcastNone(g) == outbox' = <<>>
Broadcast(g) ==
  \E q \in SetToSeqs(subscribed) :
    /\ InClientOrder(q)
    /\ outbox' = [i \in DOMAIN q |-> Push(q[i], g)]

HandleTransact(c, m) ==
  LET owner == services[m.name]
  IN  /\ Received(c) /\ m.op = "BinderTransact"
      /\ IF owner \in {Missing, Declared}
         THEN /\ outbox' = <<Answer(fdOf[c], m.id, DeadObject)>>
              /\ UNCHANGED <<pending, nextTxn>>
         ELSE /\ nextTxn' = nextTxn + 1
              /\ pending' = pending \cup
                   {[txn |-> nextTxn, caller |-> fdOf[c], owner |-> owner,
                     id |-> m.id]}
              /\ outbox' = <<To(owner, Msg("BinderIncoming", nextTxn, m.name,
                                           m.body))>>
      /\ UNCHANGED <<peer, down, backlog, fdOf, running, phase, clients,
                     services, owned, pushes, step, got>>

\* The daemon goes on to send body to the callers of the transactions ps, in
\* whatever order the hash map has them.
Tells(ps, body) ==
  \E q \in SetToSeqs(ps) :
    outbox' = [i \in DOMAIN q |-> Answer(q[i].caller, q[i].id, body)]

\* Mutant of HandleReply: the transaction stays pending after its answer.
HandleReplyKeepsPending(c, m) ==
  LET mine == {p \in pending : p.txn = m.id /\ p.owner = fdOf[c]}
  IN  /\ Received(c) /\ m.op = "BinderReply"
      /\ Tells(mine, m.body)
      /\ UNCHANGED <<peer, down, backlog, fdOf, running, phase, clients,
                     registry, pushes, step, got>>

\* BinderReply: answered only for a pending transaction of this owner.
HandleReply(c, m) ==
  LET mine == {p \in pending : p.txn = m.id /\ p.owner = fdOf[c]}
  IN  /\ Received(c) /\ m.op = "BinderReply"
      /\ Tells(mine, m.body)
      /\ pending' = pending \ mine
      /\ UNCHANGED <<peer, down, backlog, fdOf, running, phase, clients,
                     services, owned, nextTxn, pushes, step, got>>

\* The transactions a removed owner leaves behind; their callers are told.
\* Mutant: nobody is told.
OrphansUntold(fd) == {}
Orphans(fd) == {p \in pending : p.owner = fd}

\* The transactions that survive: neither end is the removed client.
\* Mutant: the transactions the client was waiting for survive.
StillPendingOwnerOnly(fd) == {p \in pending : fd # p.owner}
StillPending(fd) == {p \in pending : fd \notin {p.owner, p.caller}}

\* The registry without the removed client's services.  An entry goes even if
\* the name is a builtin one.  Mutant: the services stay registered.
ServicesKept(c) == services
ServicesWithout(c) ==
  [n \in Names |-> IF n \in owned[c] /\ services[n] = fdOf[c]
                   THEN Missing ELSE services[n]]

\* The remove_client block.
Removed(c) ==
  /\ Tells(Orphans(fdOf[c]), DeadObject)
  /\ pending' = StillPending(fdOf[c])
  /\ services' = ServicesWithout(c)
  /\ fdOf' = [fdOf EXCEPT ![c] = NoFd]
  /\ up' = [up EXCEPT ![c] = <<>>]
  /\ \E i \in DOMAIN clients : clients[i] = c /\ clients' = RemoveAt(clients, i)
  /\ owned' = [owned EXCEPT ![c] = {}]
  /\ subscribed' = subscribed \ {c}
  /\ UNCHANGED <<peer, down, backlog, running, phase, nextTxn, generation,
                 stamp, prevStamp, step, got>>

\* POLLHUP: what the client had sent is not read any more.
HandleHangup(c) == AtClient(c, "hup") /\ Removed(c)

\* The client died in the middle of a message: receive returns short.
HandleTruncated(c, m) == AtClient(c, "in") /\ m.op = "Truncated" /\ Removed(c)

\* The registry check that ends a round.
EndRound ==
  /\ phase = "clients" /\ outbox = <<>>
  /\ \A i \in DOMAIN revents : revents[i] = "none"
  /\ phase' = "poll"
  /\ revents' = <<>>
  /\ prevStamp' = stamp
  /\ IF stamp # prevStamp
     THEN /\ generation' = generation + 1
          /\ Broadcast(generation + 1)
     ELSE UNCHANGED <<generation, outbox>>
  /\ UNCHANGED <<kernel, running, clients, registry, subscribed, stamp,
                 step, got>>

\* There is room in the socket buffer of c.  Mutant: off by one.
RoomForTooMany(c) == Len(down[c]) <= Capacity
Room(c) == Len(down[c]) < Capacity

\* send_message() succeeds; it waits until there is room.
SendMessage ==
  /\ outbox # <<>>
  /\ outbox' = Tail(outbox)
  /\ \E c \in Conns :
       /\ fdOf[c] = Head(outbox).fd
       /\ peer[c] = "open" /\ Room(c)
       /\ down' = [down EXCEPT ![c] = Append(@, Head(outbox).msg)]
  /\ UNCHANGED <<peer, up, backlog, fdOf, running, phase, clients, revents,
                 registry, pushes, step, got>>

\* send_message() fails because the peer is gone.  Only the forwarding of a
\* transaction, the only send of its handler, looks at the result: the caller
\* is told instead.
SendMessageFails ==
  LET h == Head(outbox)
      failed == {p \in pending : p.txn = h.msg.id}
  IN  /\ outbox # <<>>
      /\ \A c \in Conns : fdOf[c] = h.fd => peer[c] = "closed"
      /\ IF h.msg.op = "BinderIncoming"
         THEN Tells(failed, DeadObject) /\ pending' = pending \ failed
         ELSE outbox' = Tail(outbox) /\ UNCHANGED pending
      /\ UNCHANGED <<kernel, running, phase, clients, revents, services, owned,
                     nextTxn, pushes, step, got>>

\* SIGTERM: the loop ends at its next test, every descriptor is closed and the
\* daemon's memory is gone.
Terminate ==
  /\ running /\ phase = "poll" /\ outbox = <<>>
  /\ running' = FALSE
  /\ fdOf' = [c \in Conns |-> NoFd]
  /\ up' = [c \in Conns |-> <<>>]
  /\ clients' = <<>> /\ backlog' = <<>> /\ pending' = {}
  /\ services' = [n \in Names |-> Missing]
  /\ owned' = [c \in Conns |-> {}]
  /\ subscribed' = {}
  /\ UNCHANGED <<peer, down, phase, revents, outbox, nextTxn, generation, stamp,
                 prevStamp, step, got>>

----
(* The client programs.                                                    *)

daemon == <<running, phase, clients, revents, outbox, registry, subscribed,
            generation, prevStamp>>

Connect(c) ==
  /\ running /\ step[c] = "start"
  /\ step' = [step EXCEPT ![c] = "connected"]
  /\ peer' = [peer EXCEPT ![c] = "open"]
  /\ backlog' = Append(backlog, c)
  /\ UNCHANGED <<up, down, fdOf, daemon, stamp, got>>

\* A client's send(): it waits for room in the buffer.
Sends(c, m) ==
  /\ running /\ peer[c] = "open" /\ Len(up[c]) < Capacity
  /\ up' = [up EXCEPT ![c] = Append(@, m)]
  /\ UNCHANGED <<peer, down, backlog, fdOf, daemon, stamp>>

\* The request a program opens with.  The body of a transaction names its
\* caller, so that an answer shows whose request it answers.
Requests(c) ==
  {Msg("BinderTransact", 1, n, c) : n \in {n \in Names : c \in Callers}}
    \cup {Msg("RegisterService", 1, n, c) : n \in {n \in Names : c \in Servers}}
    \cup {Msg("SubscribePackages", 1, NoName, c) : w \in {w \in Watchers : w = c}}

Request(c) ==
  /\ step[c] = "connected"
  /\ \E m \in Requests(c) : Sends(c, m)
  /\ step' = [step EXCEPT ![c] = "waiting"]
  /\ UNCHANGED got

\* A client's recv() of the message at the head of its buffer.
Receives(c) ==
  /\ peer[c] = "open"
  /\ down' = [down EXCEPT ![c] = Tail(@)]

\* The program ends; what it has not received is discarded with its socket.
Closes(c) ==
  /\ step' = [step EXCEPT ![c] = "done"]
  /\ peer' = [peer EXCEPT ![c] = "closed"]
  /\ down' = [down EXCEPT ![c] = <<>>]

\* request(): the first message is the reply, and then the socket is closed.
ReceiveReply(c, m) ==
  /\ c \in Callers /\ step[c] = "waiting" /\ peer[c] = "open"
  /\ Closes(c)
  /\ got' = [got EXCEPT ![c] = Append(@, m.body)]
  /\ UNCHANGED <<up, backlog, fdOf, daemon, stamp>>

ReceiveRegistration(c, m) ==
  LET registered == m.op = "RegisterService" /\ m.body = "1"
  IN  /\ c \in Servers /\ step[c] = "waiting" /\ peer[c] = "open"
      /\ \/ /\ registered /\ Receives(c)
            /\ step' = [step EXCEPT ![c] = "serving"]
            /\ got' = [got EXCEPT ![c] = <<m.name>>]
            /\ UNCHANGED peer
         \/ /\ ~registered /\ Closes(c)
            /\ UNCHANGED got
      /\ UNCHANGED <<up, backlog, fdOf, daemon, stamp>>

\* binder-serve takes a transaction; it answers with the same payload.
ReceiveIncoming(c, m) ==
  /\ step[c] = "serving" /\ Receives(c)
  /\ step' = [step EXCEPT ![c] = "replying"]
  /\ got' = [got EXCEPT ![c] = <<Head(@), m>>]
  /\ UNCHANGED <<peer, up, backlog, fdOf, daemon, stamp>>

SendReply(c) ==
  LET m == got[c][2]
  IN  /\ step[c] = "replying"
      /\ Sends(c, Msg("BinderReply", m.id, m.name, m.body))
      /\ step' = [step EXCEPT ![c] = "serving"]
      /\ got' = [got EXCEPT ![c] = <<Head(@)>>]

\* The acknowledgement of a subscription, and every push after it.
ReceivePush(c, m) ==
  /\ c \in Watchers /\ step[c] = "waiting"
  /\ Receives(c)
  /\ got' = [got EXCEPT ![c] = Append(@, m.body)]
  /\ UNCHANGED <<peer, up, backlog, fdOf, daemon, stamp, step>>

\* recv() returns 0 once the daemon has closed its end.
ReceiveEof(c) ==
  /\ ~running /\ peer[c] = "open" /\ down[c] = <<>>
  /\ Closes(c)
  /\ UNCHANGED <<up, backlog, fdOf, daemon, stamp, got>>

\* The process dies; what it was sending may have gone out in part.
Killed(c) ==
  /\ peer[c] = "open"
  /\ Closes(c)
  /\ up' \in {up} \cup
       (IF running /\ step[c] \in {"connected", "replying"} /\ Len(up[c]) < Capacity
        THEN {[up EXCEPT ![c] = Append(@, Msg("Truncated", 0, NoName, c))]}
        ELSE {})
  /\ UNCHANGED <<backlog, fdOf, daemon, stamp, got>>

\* The installer rewrites the package registry.
RegistryChanges ==
  /\ stamp < MaxStamp
  /\ stamp' = stamp + 1
  /\ UNCHANGED <<kernel, daemon, step, got>>

----
Handle(c) ==
  \/ HandleHangup(c)
  \/ /\ up[c] # <<>>
     /\ \/ HandleRegister(c, Head(up[c]))
        \/ HandleSubscribe(c, Head(up[c]))
        \/ HandleTransact(c, Head(up[c]))
        \/ HandleReply(c, Head(up[c]))
        \/ HandleTruncated(c, Head(up[c]))

Loop ==
  \/ Poll
  \/ \E c \in Conns : Handle(c)
  \/ EndRound
  \/ SendMessage
  \/ SendMessageFails

\* What a client program does by itself once it is connected.
Program(c) ==
  \/ Request(c)
  \/ /\ down[c] # <<>>
     /\ \/ ReceiveReply(c, Head(down[c]))
        \/ ReceiveRegistration(c, Head(down[c]))
        \/ ReceiveIncoming(c, Head(down[c]))
        \/ ReceivePush(c, Head(down[c]))
  \/ SendReply(c)
  \/ ReceiveEof(c)

Next ==
  \/ Loop
  \/ Terminate
  \/ \E c \in Conns : Connect(c) \/ Program(c) \/ Killed(c)
  \/ RegistryChanges

Spec == Init /\ [][Next]_vars

\* The loop never stops by itself, and a client program that is not killed
\* goes on: it is a straight line, or a loop around a blocking recv().
FairSpec ==
  Spec /\ WF_vars(Loop) /\ \A c \in Conns : WF_vars(Program(c))

----
(* Properties.                                                             *)

\* Types of the state; the daemon holds back its round while it is sending.
TypeOK ==
  /\ peer \in [Conns -> {"unused", "open", "closed"}]
  /\ \A c \in Conns : Len(up[c]) <= Capacity /\ Len(down[c]) <= Capacity
  /\ Range(backlog) \cup Range(clients) \subseteq Conns
  /\ fdOf \in [Conns -> Fds \cup {NoFd}]
  /\ running \in BOOLEAN /\ phase \in {"poll", "clients"}
  /\ revents \in Seq({"none", "in", "hup"}) /\ Len(revents) <= Len(clients)
  /\ services \in [Names -> {Missing, Declared} \cup Fds]
  /\ owned \in [Conns -> SUBSET Names]
  /\ \A p \in pending : p.txn \in 1..(nextTxn - 1)
  /\ nextTxn \in 1..(Cardinality(Callers) + 1)
  /\ subscribed \subseteq Range(clients)
  /\ generation \in 1..(prevStamp + 1)
  /\ stamp \in 0..MaxStamp /\ prevStamp \in 0..stamp
  /\ step \in [Conns -> {"start", "connected", "waiting", "serving",
                         "replying", "done"}]

\* Descriptor numbers are reused, so none may outlive its connection: two
\* clients never share one, and the registry and every pending transaction
\* name connections the daemon still has, the owner being one that registered
\* the name (the remove_client block cleans up before it closes).
NoStaleDescriptor ==
  running =>
    /\ \A c, d \in Range(clients) : fdOf[c] = fdOf[d] => c = d
    /\ {c \in Conns : fdOf[c] # NoFd} = Range(clients)
    /\ \A n \in Names : services[n] \in Fds =>
         \E c \in Range(clients) : fdOf[c] = services[n] /\ n \in owned[c]
    /\ \A p \in pending :
         /\ \E c \in Range(clients) : fdOf[c] = p.caller
         /\ \E c \in Range(clients) : fdOf[c] = p.owner /\ owned[c] # {}

\* A caller gets the answer to its own transaction or DEAD_OBJECT, never the
\* answer to a request of the connection that had its descriptor before.
AnswersAreMine ==
  \A c \in Callers : Range(got[c]) \subseteq {c, DeadObject}

\* A server that was told "1" keeps its name until the daemon drops the
\* connection; no second server can take it over meanwhile.
RegistrationHolds ==
  running =>
    \A c \in Servers :
      step[c] \in {"serving", "replying"} /\ fdOf[c] # NoFd
        => services[got[c][1]] = fdOf[c]

\* The places where the transaction of caller c can be.
InRequest(c) == Cardinality({i \in DOMAIN up[c] : up[c][i].op = "BinderTransact"})
InPending(c) == Cardinality({p \in pending : p.caller = fdOf[c]})
InOutbox(c) ==
  Cardinality({i \in DOMAIN outbox : /\ outbox[i].fd = fdOf[c]
                                     /\ outbox[i].msg.op = "BinderTransact"})
InAnswer(c) == Len(down[c])

\* A transaction is never lost and never answered twice: while its caller
\* waits it is a request on the way, or one pending entry, or one answer on
\* the way, whoever dies in between.
TransactionConserved ==
  running =>
    \A c \in Callers :
      step[c] = "waiting" =>
        IF fdOf[c] = NoFd THEN InRequest(c) = 1
        ELSE InRequest(c) + InPending(c) + InOutbox(c) + InAnswer(c) = 1

\* A subscriber sees every generation once and in order from the one its
\* subscription was acknowledged with: reply first, then the pushes.
PushesAreContiguous ==
  \A c \in Watchers : \A i \in 1..(Len(got[c]) - 1) : got[c][i + 1] = got[c][i] + 1

\* A waiting request ends: with an answer, or with the end of the daemon.
\* A server's death does not leave its callers waiting.
RequestsEnd ==
  \A c \in Callers : step[c] = "waiting" ~> step[c] = "done"

\* A live subscriber hears of the last change of the registry.
Behind(c) ==
  /\ running /\ step[c] = "waiting" /\ got[c] # <<>>
  /\ stamp # prevStamp \/ Last(got[c]) < generation
WatchersCatchUp == \A c \in Watchers : Behind(c) ~> ~Behind(c)

----
\* Callers and servers are interchangeable for the run muplard_binder.
Symmetry == Permutations(Callers) \cup Permutations(Servers)
==============================================================================
