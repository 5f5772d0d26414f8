---------------------------- MODULE GuestParcel ----------------------------
(***************************************************************************)
(* Parcels and transactions of the guest runtime (libbinder_ndk stubs): a  *)
(* client prepares a parcel, writes it and transacts; a local binder's     *)
(* onTransact, muplard or the built-in echo answers; the client reads the  *)
(* reply.  A value is its kind and a payload; a parcel is its values and   *)
(* a cursor counted in values.  Reads and writes of the scalar kinds are   *)
(* the same code with another tag and are told apart by the tag only.      *)
(***************************************************************************)
EXTENDS Integers, Sequences, SequencesExt

CONSTANTS MaxValues,    \* bound: values written to one parcel
          MaxCalls      \* bound: transactions

VARIABLES phase,   \* "client", "handler" (onTransact runs) or "reply"
          target,  \* the binder of this transaction and its class
          inp,     \* the input parcel, NoParcel when erased
          out,     \* the reply parcel
          inPtr,   \* the guest's AParcel** argument is not null
          outPtr,
          sent, served,      \* values written by the client, read by onTransact
          answered, got,     \* values of the reply, values read by the client
          result,  \* what AIBinder_transact returned
          calls

vars == <<phase, target, inp, out, inPtr, outPtr, sent, served, answered, got, result, calls>>

NoParcel == [there |-> FALSE, vals |-> <<>>, cur |-> 0]
Empty == [there |-> TRUE, vals |-> <<>>, cur |-> 0]

\* AStatus: exception, service specific error, low status.
ExService == -8
ExFailed == -129
FromStatus(s) == [ex |-> IF s = 0 THEN 0 ELSE ExFailed, err |-> 0, low |-> s]
Statuses == {[ex |-> 0, err |-> 0, low |-> 0],            \* AStatus_newOk
             [ex |-> -1, err |-> 0, low |-> 0],           \* fromExceptionCode
             [ex |-> ExService, err |-> 7, low |-> 0],    \* fromServiceSpecificError
             FromStatus(-38)}                             \* fromStatus

Token == [k |-> "token", v |-> <<>>]
\* The status value of a reply that muplard or the echo answers: no elements.
BareStatus == [k |-> "status", v |-> <<0>>]
StatusValue(s) == [k |-> "status", v |-> <<s.low, s.ex, s.err>>]

\* What the guest writes, by its length: a string longer than MaxString is cut
\* by AParcel_writeString, a negative length is the null string, whose mark is 1.
MaxString == 1
Int32(n) == [k |-> "i32", v |-> <<n>>]
String(length) == [k |-> "str", v |-> IF length < 0 THEN <<1>>
                         ELSE <<0, IF length > MaxString THEN MaxString ELSE length>>]
Inputs == {Int32(1), String(-1), String(0), String(2)}

Append1(p, val) == [p EXCEPT !.vals = Append(@, val), !.cur = Len(p.vals) + 1]

\* read_value(): the value under the cursor when it has the kind asked for.
Readable(p, k) == p.there /\ p.cur < Len(p.vals) /\ p.vals[p.cur + 1].k = k
Under(p) == p.vals[p.cur + 1]
Advance(p) == [p EXCEPT !.cur = @ + 1]
Targets == [kind : {"local", "daemon", "echo", "dead", "broken"}, header : BOOLEAN]

Init == /\ phase = "client" /\ target = [kind |-> "echo", header |-> FALSE]
        /\ inp = NoParcel /\ out = NoParcel /\ inPtr = FALSE /\ outPtr = FALSE
        /\ sent = <<>> /\ served = <<>> /\ answered = <<>> /\ got = <<>>
        /\ result = "none" /\ calls = 0

----
(* The client                                                              *)

PrepareTransaction(t) ==
    /\ phase = "client" /\ ~inPtr /\ t.kind # "dead" /\ calls < MaxCalls
    /\ target' = t
    /\ inp' = IF t.header THEN Append1(Empty, Token) ELSE Empty
    /\ inPtr' = TRUE /\ sent' = <<>> /\ served' = <<>>
    /\ UNCHANGED <<phase, out, outPtr, answered, got, result, calls>>

ClientWrites(x) ==
    /\ phase = "client" /\ inPtr /\ Len(sent) < MaxValues
    /\ inp' = Append1(inp, x)
    /\ sent' = Append(sent, x)
    /\ UNCHANGED <<phase, target, out, inPtr, outPtr, served, answered, got, result, calls>>

\* AParcel_writeParcelableArray: the marker, then what the element callback
\* writes; a callback that fails leaves the elements written before it.
ClientWritesArray(n, done) ==
    LET vals == <<[k |-> "arr", v |-> <<n>>]>> \o [i \in 1..done |-> Int32(1)] IN
    /\ phase = "client" /\ inPtr /\ Len(sent) + Len(vals) <= MaxValues
    /\ inp' = [inp EXCEPT !.vals = @ \o vals, !.cur = Len(inp.vals \o vals)]
    /\ sent' = sent \o vals
    /\ UNCHANGED <<phase, target, out, inPtr, outPtr, served, answered, got, result, calls>>

\* A class header that is missing from the parcel: the parcel was prepared for
\* another class, or before associateClass.
ClassChanges ==
    /\ phase = "client" /\ inPtr
    /\ target' = [target EXCEPT !.header = ~@]
    /\ UNCHANGED <<phase, inp, out, inPtr, outPtr, sent, served, answered, got, result, calls>>

\* The binder dies after the parcel was prepared.
TargetDies ==
    /\ phase = "client" /\ inPtr
    /\ target' = [target EXCEPT !.kind = "dead"]
    /\ UNCHANGED <<phase, inp, out, inPtr, outPtr, sent, served, answered, got, result, calls>>

\* The end of every transact() that takes the input: consume_input(), the
\* reply handle or null in *out, the status.
Consumed == inp' = NoParcel /\ inPtr' = FALSE
Answers(vals) == /\ out' = [there |-> TRUE, vals |-> vals, cur |-> 0]
                 /\ outPtr' = TRUE /\ answered' = vals /\ got' = <<>>
NoAnswer == out' = NoParcel /\ outPtr' = FALSE /\ answered' = <<>> /\ got' = <<>>
Returns(s, replied) == /\ result' = s /\ calls' = calls + 1
                       /\ phase' = IF replied THEN "reply" ELSE "client"

HeaderOk == IF target.header THEN Readable([inp EXCEPT !.cur = 0], "token") ELSE TRUE

\* A dead binder, and a local one without onTransact, whose parcel stays.
TransactRefused ==
    /\ phase = "client" /\ inPtr /\ target.kind \in {"dead", "broken"}
    /\ calls < MaxCalls /\ NoAnswer
    /\ IF target.kind = "dead" THEN Consumed /\ Returns("DEAD_OBJECT", FALSE)
       ELSE UNCHANGED <<inp, inPtr>> /\ Returns("INVALID_OPERATION", FALSE)
    /\ UNCHANGED <<target, sent, served>>

\* A local binder: the cursor goes to the start, over the header, and
\* onTransact runs with the reply parcel already there.
TransactLocal(oneway) ==
    /\ phase = "client" /\ inPtr /\ target.kind = "local"
    /\ IF ~HeaderOk
       THEN /\ Consumed /\ NoAnswer /\ Returns("BAD_TYPE", FALSE)
            /\ UNCHANGED <<target, sent, served>>
       ELSE /\ inp' = [inp EXCEPT !.cur = IF target.header THEN 1 ELSE 0]
            /\ out' = IF oneway THEN NoParcel ELSE Empty
            /\ outPtr' = ~oneway /\ phase' = "handler"
            /\ answered' = <<>> /\ got' = <<>> /\ served' = <<>>
            /\ UNCHANGED <<target, inPtr, sent, result, calls>>

\* The values that are no class headers, in their order.
WithoutTokens(vals) ==
    LET kept[n \in 0 .. Len(vals)] ==
            IF n = 0 THEN <<>>
            ELSE IF vals[n].k = "token" THEN kept[n - 1] ELSE Append(kept[n - 1], vals[n])
    IN  kept[Len(vals)]

\* A binder that muplard owns: the reply decodes or not, or nobody answers.
TransactDaemon(reply) ==
    /\ phase = "client" /\ inPtr /\ target.kind = "daemon"
    /\ Consumed
    /\ CASE reply.how = "lost" -> /\ target' = [target EXCEPT !.kind = "dead"]
                              /\ NoAnswer /\ Returns("DEAD_OBJECT", FALSE)
         [] reply.how = "malformed" -> NoAnswer /\ Returns("BAD_VALUE", FALSE) /\ UNCHANGED target
         [] reply.how = "oneway" -> NoAnswer /\ Returns("OK", FALSE) /\ UNCHANGED target
         [] OTHER -> /\ Answers(<<BareStatus>> \o WithoutTokens(reply.vals))
                     /\ Returns("OK", TRUE) /\ UNCHANGED target
    /\ UNCHANGED <<sent, served>>

\* No one behind the binder: the first integer of the input comes back with
\* the transaction code (1) added.
TransactEcho(oneway) ==
    LET ints == {i \in DOMAIN inp.vals : inp.vals[i].k = "i32"}
        first == CHOOSE i \in ints : \A j \in ints : i <= j
        reply == IF ints = {} THEN 1 ELSE inp.vals[first].v[1] + 1 IN
    /\ phase = "client" /\ inPtr /\ target.kind = "echo"
    /\ Consumed
    /\ IF oneway THEN NoAnswer ELSE Answers(<<BareStatus, Int32(reply)>>)
    /\ Returns("OK", ~oneway)
    /\ UNCHANGED <<target, sent, served>>

----
(* onTransact                                                              *)

\* No call reads a header: over one that was not expected no read succeeds.
\* A read that fails to allocate in the guest has moved the cursor all the same.
HandlerReads ==
    /\ phase = "handler" /\ \E k \in {"i32", "str", "arr"} : Readable(inp, k)
    /\ served' = Append(served, Under(inp))
    /\ inp' = Advance(inp)
    /\ UNCHANGED <<phase, target, out, inPtr, outPtr, sent, answered, got, result, calls>>

\* AParcel_setDataPosition: any place up to the end.
HandlerSeeks(pos) ==
    /\ phase = "handler" /\ pos <= Len(inp.vals)
    /\ inp' = [inp EXCEPT !.cur = pos]
    /\ served' = SubSeq(inp.vals, 1 + Len(inp.vals) - Len(sent), pos)
    /\ UNCHANGED <<phase, target, out, inPtr, outPtr, sent, answered, got, result, calls>>

HandlerWrites(val) ==
    /\ phase = "handler" /\ out.there /\ Len(answered) < MaxValues
    /\ out' = Append1(out, val) /\ answered' = Append(answered, val)
    /\ UNCHANGED <<phase, target, inp, inPtr, outPtr, sent, served, got, result, calls>>

\* Mutant: the cursor of the reply stays at its end.
HandlerReturnsUnwound(s) ==
    /\ phase = "handler"
    /\ Consumed /\ Returns(s, outPtr)
    /\ sent' = <<>> /\ served' = <<>>
    /\ UNCHANGED <<target, out, outPtr, answered, got>>

HandlerReturns(s) ==
    /\ phase = "handler"
    /\ out' = [out EXCEPT !.cur = 0]
    /\ Consumed /\ Returns(s, outPtr)
    /\ sent' = <<>> /\ served' = <<>>
    /\ UNCHANGED <<target, outPtr, answered, got>>

----
(* The reply                                                               *)

\* AParcel_readStatusHeader: a reply that does not start with a status reads as
\* an OK status and stays where it is.
ReadBack(p) ==
    IF ~Readable(p, "status") THEN FromStatus(0)
    ELSE LET v == Under(p).v IN
         IF Len(v) = 1 THEN FromStatus(v[1]) ELSE [ex |-> v[2], err |-> v[3], low |-> v[1]]

ClientReadsStatus ==
    /\ phase = "reply" /\ out.there /\ got = <<>>
    /\ out' = IF Readable(out, "status") THEN Advance(out) ELSE out
    /\ got' = IF Readable(out, "status") THEN <<StatusValue(ReadBack(out))>> ELSE got
    /\ UNCHANGED <<phase, target, inp, inPtr, outPtr, sent, served, answered, result, calls>>

ClientReads ==
    /\ phase = "reply" /\ out.there
    /\ \E k \in {"i32", "str", "arr"} : Readable(out, k)
    /\ got' = Append(got, Under(out)) /\ out' = Advance(out)
    /\ UNCHANGED <<phase, target, inp, inPtr, outPtr, sent, served, answered, result, calls>>

DeleteReply ==
    /\ phase = "reply" /\ out' = NoParcel /\ outPtr' = FALSE /\ phase' = "client"
    /\ answered' = <<>> /\ got' = <<>>
    /\ UNCHANGED <<target, inp, inPtr, sent, served, result, calls>>

Replies == {[how |-> h, vals |-> <<>>] : h \in {"lost", "malformed", "oneway"}}
           \cup {[how |-> "reply", vals |-> <<Token, Int32(1)>>]}
Next ==
    \/ \E t \in Targets : PrepareTransaction(t)
    \/ ClassChanges \/ TargetDies \/ TransactRefused
    \/ \E x \in Inputs : ClientWrites(x)
    \/ \E n \in 1..2, done \in 0..2 : done <= n /\ ClientWritesArray(n, done)
    \/ \E oneway \in BOOLEAN : TransactLocal(oneway) \/ TransactEcho(oneway)
    \/ \E r \in Replies : TransactDaemon(r)
    \/ HandlerReads \/ \E pos \in 0..1 : HandlerSeeks(pos)
    \/ \E s \in Statuses : HandlerWrites(StatusValue(s))
    \/ HandlerWrites(Int32(1))
    \/ \E s \in {"OK", "FAILED"} : HandlerReturns(s)
    \/ ClientReadsStatus \/ ClientReads \/ DeleteReply

Spec == Init /\ [][Next]_vars

----
Kinds == {"token", "i32", "str", "arr", "status"}
ParcelOK(p) == p.there \in BOOLEAN /\ p.cur \in 0..Len(p.vals)
               /\ \A i \in DOMAIN p.vals : p.vals[i].k \in Kinds
TypeOK == /\ phase \in {"client", "handler", "reply"} /\ target \in Targets
          /\ ParcelOK(inp) /\ ParcelOK(out)
          /\ inPtr \in BOOLEAN /\ outPtr \in BOOLEAN /\ calls \in 0..MaxCalls

\* A status as the reader of a reply sees it; a reply without elements is the
\* low status alone.
Seen(v) == IF v.k = "status" /\ Len(v.v) = 1 THEN StatusValue(FromStatus(v.v[1])) ELSE v

\* onTransact reads the client's values from the first on, in the order they
\* were written and without the class header, and the client reads the reply
\* of onTransact or of muplard the same way, from its start and without a gap,
\* its status with exception and service error unchanged (read_value, append_value, AIBinder_transact).
ReadsInOrder ==
    /\ phase = "handler" => IsPrefix(served, sent)
    /\ phase = "reply" => /\ IsPrefix(got, [i \in DOMAIN answered |-> Seen(answered[i])])
                          /\ out.cur = Len(got)

\* Every parcel in binder_parcels_ is one the guest has a pointer to, and a
\* pointer it has is never to an erased parcel: a transaction that returns OK,
\* DEAD_OBJECT, BAD_TYPE or BAD_VALUE took its input and cleared *in.
ParcelsAccounted ==
    /\ inp.there <=> inPtr
    /\ out.there <=> outPtr
    /\ phase = "reply" => ~inPtr \/ result = "INVALID_OPERATION"

\* A transaction reads what was written, in order, and every parcel is given
\* back or freed once.
ParcelsSound == ReadsInOrder /\ ParcelsAccounted
=============================================================================
