---------------------------- MODULE GuestBinder ----------------------------
(***************************************************************************)
(* The binder objects of the guest runtime (AndroidRuntime, libbinder_ndk  *)
(* stubs): strong and weak references, extensions, service names and death *)
(* links, with the guest's onDestroy running in the middle of a release.   *)
(*                                                                         *)
(* A handle is a number given out in order.  A release that reaches the    *)
(* last reference of a local binder calls onDestroy and erases the binder  *)
(* only when the callback is back; until then the release is a frame on    *)
(* `frames', and the callback may make every call of this module, releases *)
(* of other binders included.  The guest is assumed to give back only      *)
(* references it was given, and not to touch a binder whose onDestroy runs.*)
(*                                                                         *)
(* retire_service() and AIBinder_DeathRecipient_delete walk over vectors   *)
(* of death links and call the guest from the loop.  A loop that waits for *)
(* the guest to come back is on `loops'; it is under the onDestroys that   *)
(* began after it.  A callback that changes the vector its loop walks over *)
(* leaves the loop with iterators of a vector that is not there any more:  *)
(* the binder is `torn', such a loop may tell any recipient, and what it    *)
(* tells is not counted any more.                                          *)
(* A (recipient, cookie) pair is one element of Recipients.                *)
(***************************************************************************)
EXTENDS Naturals, Sequences, FiniteSets, FiniteSetsExt

CONSTANTS ServiceNames,   \* names known to the service manager
          Recipients,     \* death recipients, each with its cookie
          MaxBinders,     \* bound: handles given out
          MaxHeld,        \* bound: strong references the guest has at a time
          MaxLoops        \* bound: loops over death links that wait at a time

VARIABLES svc,      \* binder_services_
          byName,   \* binder_service_by_name_; 0 where the name has no entry
          removed,  \* binder_removed_service_names_
          weak,     \* the binders some handle of binder_weaks_ points to
          frames,   \* release_binder_strong() calls waiting for onDestroy
          held,     \* strong references in the guest's hands
          destroyed,\* times onDestroy was called
          ends,     \* linkToDeath calls that succeeded, less onUnlinked calls
          loops,    \* loops over death links that wait for a callback
          torn      \* binders whose links were changed under such a loop

walks == <<loops, torn>>
vars == <<svc, byName, removed, weak, frames, held, destroyed, ends, walks>>

Handles == 1..MaxBinders
Absent == [there |-> FALSE, remote |-> FALSE, alive |-> FALSE, ref |-> 0,
           ext |-> 0, links |-> {}]
Dying == {frames[i].h : i \in DOMAIN frames}
Fresh == Cardinality({h \in Handles : svc[h].there \/ destroyed[h] > 0}) + 1

MayHold == MapThenSumSet(LAMBDA h : held[h], Handles) < MaxHeld

\* What the guest may use: a binder it holds, or one it can look up.
Usable(h) == /\ svc[h].there /\ h \notin Dying
             /\ held[h] > 0 \/ \E n \in ServiceNames : byName[n] = h

Init == /\ svc = [h \in Handles |-> Absent]
        /\ byName = [n \in ServiceNames |-> 0]
        /\ removed = {} /\ weak = {} /\ frames = <<>>
        /\ held = [h \in Handles |-> 0]
        /\ destroyed = [h \in Handles |-> 0]
        /\ ends = [h \in Handles |-> [r \in Recipients |-> 0]]
        /\ loops = <<>> /\ torn = {}

----
(* release_binder_strong(): the state after the part before the callback.  *)

DropLast(h, s) == s[h].ref <= 1

Release(h, s, below) ==
    IF h = 0 \/ ~s[h].there
    THEN svc' = s /\ frames' = below /\ UNCHANGED destroyed
    ELSE IF s[h].remote \/ ~DropLast(h, s)
    THEN /\ svc' = [s EXCEPT ![h].ref = IF @ > 1 THEN @ - 1 ELSE @]
         /\ frames' = below /\ UNCHANGED destroyed
    ELSE /\ svc' = s
         /\ frames' = <<[h |-> h, ext |-> s[h].ext]>> \o below
         /\ destroyed' = [destroyed EXCEPT ![h] = @ + 1]

\* The names of a binder that is erased become removed names.
ForgetNames(h) ==
    /\ byName' = [n \in ServiceNames |-> IF byName[n] = h THEN 0 ELSE byName[n]]
    /\ removed' = removed \cup {n \in ServiceNames : byName[n] = h}

\* onDestroy is back: the binder is erased, then its extension released.
OnDestroyReturns ==
    /\ frames # <<>>
    /\ loops # <<>> => Head(loops).under < Len(frames)
    /\ LET f == Head(frames) IN
       /\ ForgetNames(f.h)
       /\ Release(f.ext, [svc EXCEPT ![f.h] = Absent], Tail(frames))
    /\ UNCHANGED <<weak, held, ends, walks>>

----
(* AServiceManager                                                         *)

Remote(h) == [svc EXCEPT ![h] = [Absent EXCEPT !.there = TRUE, !.remote = TRUE,
                                               !.alive = TRUE, !.ref = 1]]

\* A binder added to the table may rehash it: a walk over the table may then
\* miss binders it has not come to.
Rehash == /\ loops' = [i \in DOMAIN loops |-> [loops[i] EXCEPT !.rest = {}]]
          /\ UNCHANGED torn

\* check/get/waitForService: a stale entry is dropped, a name that was not
\* removed gets a new remote binder.
Lookup(n) ==
    LET old == byName[n] IN
    IF old # 0 /\ svc[old].there /\ svc[old].alive
    THEN /\ svc[old].remote /\ MayHold
         /\ held' = [held EXCEPT ![old] = @ + 1]
         /\ UNCHANGED <<svc, byName, removed, weak, frames, destroyed, ends, walks>>
    ELSE IF n \in removed
    THEN /\ byName' = [byName EXCEPT ![n] = 0]
         /\ UNCHANGED <<svc, removed, weak, frames, held, destroyed, ends, walks>>
    ELSE /\ Fresh \in Handles /\ MayHold
         /\ svc' = Remote(Fresh)
         /\ byName' = [byName EXCEPT ![n] = Fresh]
         /\ held' = [held EXCEPT ![Fresh] = 1]
         /\ Rehash
         /\ UNCHANGED <<removed, weak, frames, destroyed, ends>>

AddService(n, h) ==
    /\ Usable(h) /\ svc[h].alive /\ ~svc[h].remote
    /\ ~(byName[n] \notin {0, h} /\ svc[byName[n]].there /\ svc[byName[n]].alive)
    /\ byName' = [byName EXCEPT ![n] = h]
    /\ removed' = removed \ {n}
    /\ UNCHANGED <<svc, weak, frames, held, destroyed, ends, walks>>

----
(* AIBinder                                                                *)

New == /\ Fresh \in Handles /\ MayHold
       /\ svc' = [svc EXCEPT ![Fresh] = [Absent EXCEPT !.there = TRUE,
                                                       !.alive = TRUE, !.ref = 1]]
       /\ held' = [held EXCEPT ![Fresh] = 1]
       /\ Rehash
       /\ UNCHANGED <<byName, removed, weak, frames, destroyed, ends>>

Grab(h) == /\ MayHold
           /\ svc' = [svc EXCEPT ![h].ref = @ + 1]
           /\ held' = [held EXCEPT ![h] = @ + 1]
           /\ UNCHANGED <<byName, removed, weak, frames, destroyed, ends, walks>>

IncStrong(h) == Usable(h) /\ Grab(h)

DecStrong(h) ==
    /\ held[h] > 0 /\ h \notin Dying
    /\ held' = [held EXCEPT ![h] = @ - 1]
    /\ Release(h, svc, frames)
    /\ UNCHANGED <<byName, removed, weak, ends, walks>>

WeakNew(h) == /\ Usable(h) /\ weak' = weak \cup {h}
              /\ UNCHANGED <<svc, byName, removed, frames, held, destroyed, ends, walks>>

WeakDelete(h) == /\ h \in weak /\ weak' = weak \ {h}
                 /\ UNCHANGED <<svc, byName, removed, frames, held, destroyed, ends, walks>>

\* A handle that was erased is not found any more; a dead one is refused.
WeakPromote(h) == /\ h \in weak /\ h \notin Dying
                  /\ svc[h].there /\ svc[h].alive
                  /\ Grab(h)

\* Mutant: the extension is not counted.
SetExtensionUncounted(h, e) ==
    /\ Usable(h) /\ Usable(e)
    /\ svc[h].alive /\ svc[e].alive /\ ~svc[h].remote
    /\ svc[h].ext # e
    /\ Release(svc[h].ext, [svc EXCEPT ![h].ext = e], frames)
    /\ UNCHANGED <<byName, removed, weak, held, ends, walks>>

\* The new extension is counted before the old one is let go.
SetExtension(h, e) ==
    /\ Usable(h) /\ Usable(e)
    /\ svc[h].alive /\ svc[e].alive /\ ~svc[h].remote
    /\ svc[h].ext # e
    /\ Release(svc[h].ext, [svc EXCEPT ![e].ref = @ + 1, ![h].ext = e], frames)
    /\ UNCHANGED <<byName, removed, weak, held, ends, walks>>

GetExtension(h) ==
    LET e == svc[h].ext IN
    /\ Usable(h) /\ e # 0 /\ svc[e].there /\ svc[e].alive
    /\ Grab(e)

----
(* Death recipients                                                        *)

\* The binders torn after the links of h changed while the loops of q wait.
TornBy(h, q) == torn \cup {x \in {h} : \E i \in DOMAIN q : q[i].h = x}

\* The onUnlinked calls to come for the recipients of h, while h is whole.
Owed(h, row, t) ==
    ends' = [ends EXCEPT ![h] = IF h \in t THEN [r \in Recipients |-> 0] ELSE row]

LinkToDeath(h, r) ==
    /\ Usable(h) /\ svc[h].alive /\ svc[h].remote /\ r \notin svc[h].links
    /\ svc' = [svc EXCEPT ![h].links = @ \cup {r}]
    /\ torn' = TornBy(h, loops)
    /\ Owed(h, [ends[h] EXCEPT ![r] = @ + 1], torn')
    /\ UNCHANGED <<byName, removed, weak, frames, held, destroyed, loops>>

\* The link of h to r is erased and its onUnlinked called.
Unlink(h, r, q) ==
    /\ svc' = [svc EXCEPT ![h].links = @ \ {r}]
    /\ torn' = TornBy(h, q)
    /\ Owed(h, [ends[h] EXCEPT ![r] = @ - 1], torn')
    /\ UNCHANGED <<byName, removed, weak, frames, held, destroyed>>

\* The guest's code after onUnlinked finds no loop of the call to go on with.
UnlinkToDeath(h, r) ==
    /\ Usable(h) /\ r \in svc[h].links
    /\ Unlink(h, r, loops) /\ UNCHANGED loops

\* A loop waits for the guest: at binder h, for recipient r.
Waits(retires, h, r, left, rest) ==
    [retires |-> retires, h |-> h, cur |-> r, left |-> left, rest |-> rest,
     under |-> Len(frames)]

\* The guest is back in the loop that called it last.
Back == loops # <<>> /\ Head(loops).under = Len(frames)

\* remove_recipient_links(): one binder after the other loses its link to r.
DeleteRecipient(r) ==
    \E h \in Handles :
        /\ r \in svc[h].links /\ Len(loops) < MaxLoops
        /\ Unlink(h, r, loops)
        /\ loops' = <<Waits(FALSE, h, r, {}, {x \in Handles \ {h} : r \in svc[x].links})>>
                    \o loops

DeletionGoesOn(x) ==
    LET L == Head(loops) IN
    /\ Back /\ ~L.retires /\ L.cur \in svc[x].links
    /\ Unlink(x, L.cur, Tail(loops))
    /\ loops' = <<[L EXCEPT !.h = x, !.rest = @ \ {x}]>> \o Tail(loops)

DeletionEnds ==
    LET L == Head(loops) IN
    /\ Back /\ ~L.retires /\ \A x \in L.rest : L.cur \notin svc[x].links
    /\ loops' = Tail(loops)
    /\ UNCHANGED <<svc, byName, removed, weak, frames, held, destroyed, ends, torn>>

\* retire_service(): dead, its names free again, and the first recipient told
\* by onBinderDied; the links stay in the vector until all are told.
Kill(h) ==
    /\ Usable(h) /\ svc[h].alive
    /\ svc' = [svc EXCEPT ![h].alive = FALSE]
    /\ byName' = [n \in ServiceNames |-> IF byName[n] = h THEN 0 ELSE byName[n]]
    /\ \/ svc[h].links = {} /\ UNCHANGED loops
       \/ \E r \in svc[h].links :
              /\ Len(loops) < MaxLoops
              /\ loops' = <<Waits(TRUE, h, r, svc[h].links, {})>> \o loops
    /\ UNCHANGED <<removed, weak, frames, held, destroyed, ends, torn>>

\* onBinderDied is back and onUnlinked is called, through the same reference
\* into the vector.
DiedReturns ==
    LET L == Head(loops) IN
    /\ Back /\ L.retires /\ L.cur \in L.left
    /\ Owed(L.h, [ends[L.h] EXCEPT ![L.cur] = @ - 1], torn)
    /\ loops' = <<[L EXCEPT !.left = @ \ {L.cur}]>> \o Tail(loops)
    /\ UNCHANGED <<svc, byName, removed, weak, frames, held, destroyed, torn>>

\* onUnlinked is back and the next slot of the vector is read.
NextDies(r) ==
    LET L == Head(loops) IN
    /\ Back /\ L.retires /\ L.cur \notin L.left /\ r \in L.left
    /\ loops' = <<[L EXCEPT !.cur = r]>> \o Tail(loops)
    /\ UNCHANGED <<svc, byName, removed, weak, frames, held, destroyed, ends, torn>>

\* The last onUnlinked is back: the vector is cleared.
Retired ==
    LET L == Head(loops) IN
    /\ Back /\ L.retires /\ L.left = {}
    /\ svc' = [svc EXCEPT ![L.h].links = {}]
    /\ torn' = TornBy(L.h, Tail(loops))
    /\ Owed(L.h, ends[L.h], torn')
    /\ loops' = Tail(loops)
    /\ UNCHANGED <<byName, removed, weak, frames, held, destroyed>>

\* A transaction that muplard could not deliver marks the binder dead; names
\* and links stay as they are.
DeliveryFails(h) ==
    /\ Usable(h) /\ svc[h].alive /\ svc[h].remote
    /\ svc' = [svc EXCEPT ![h].alive = FALSE]
    /\ UNCHANGED <<byName, removed, weak, frames, held, destroyed, ends, walks>>

----
Next == \/ OnDestroyReturns \/ New
        \/ \E n \in ServiceNames : Lookup(n)
        \/ \E n \in ServiceNames, h \in Handles : AddService(n, h)
        \/ \E h \in Handles : \/ IncStrong(h) \/ DecStrong(h)
                              \/ WeakNew(h) \/ WeakDelete(h) \/ WeakPromote(h)
                              \/ GetExtension(h) \/ Kill(h) \/ DeliveryFails(h)
        \/ \E h, e \in Handles : SetExtension(h, e)
        \/ \E h \in Handles, r \in Recipients : LinkToDeath(h, r) \/ UnlinkToDeath(h, r)
        \/ \E r \in Recipients : DeleteRecipient(r) \/ NextDies(r)
        \/ \E h \in Handles : DeletionGoesOn(h)
        \/ DeletionEnds \/ DiedReturns \/ Retired

Spec == Init /\ [][Next]_vars

----
TypeOK == /\ svc \in [Handles -> [there : BOOLEAN, remote : BOOLEAN, alive : BOOLEAN,
                                  ref : Nat, ext : 0..MaxBinders, links : SUBSET Recipients]]
          /\ byName \in [ServiceNames -> 0..MaxBinders]
          /\ removed \subseteq ServiceNames /\ weak \subseteq Handles
          /\ frames \in Seq([h : Handles, ext : 0..MaxBinders])
          /\ held \in [Handles -> Nat]
          /\ destroyed \in [Handles -> Nat]
          /\ ends \in [Handles -> [Recipients -> Nat]]
          /\ loops \in Seq([retires : BOOLEAN, h : Handles, cur : Recipients,
                           left : SUBSET Recipients, rest : SUBSET Handles, under : Nat])
          /\ torn \subseteq Handles

Extended(h) == {s \in Handles : svc[s].there /\ svc[s].ext = h /\ s \notin Dying}
Pending(h) == {i \in DOMAIN frames : frames[i].ext = h}

\* The reference count of a local binder is what the guest holds, and one for
\* every binder that has it as its extension, one on its way out included
\* (release_binder_strong(), setExtension()).
CountsExact ==
    \A h \in Handles \ Dying : svc[h].there /\ ~svc[h].remote =>
        svc[h].ref = held[h] + Cardinality(Extended(h)) + Cardinality(Pending(h))

\* However releases nest in onDestroy callbacks, a binder that the guest or
\* another binder still refers to is there, and onDestroy is called once for
\* every local binder that is erased and for no other.
HeldIsLive ==
    \A h \in Handles :
        /\ held[h] > 0 \/ Extended(h) # {} => svc[h].there /\ h \notin Dying
        /\ destroyed[h] = IF h \in Dying \/ (destroyed[h] > 0 /\ ~svc[h].there)
                          THEN 1 ELSE 0

\* A name of the service manager stands for a binder that is there, never for
\* one that was erased, and a removed name stands for none.
NamesResolve ==
    \A n \in ServiceNames : byName[n] # 0 => svc[byName[n]].there /\ n \notin removed

\* The links of h that no running retire_service() has told yet.
Untold(h) == {r \in svc[h].links :
                 \A i \in DOMAIN loops : loops[i].retires /\ loops[i].h = h => r \in loops[i].left}

\* Every successful linkToDeath is ended by exactly one onUnlinked call,
\* whatever the guest does in the callbacks of retire_service() and of the
\* deletion of a recipient (kill and release other binders, link and unlink
\* them, delete other recipients), unless a callback changes the very vector
\* its loop walks over: then nothing is promised of that binder.
LinksEndOnce ==
    \A h \in Handles \ torn, r \in Recipients :
        ends[h][r] = IF r \in Untold(h) THEN 1 ELSE 0

\* Reference counts agree with the handles the guest holds, names and death
\* links included.
BindersSound == CountsExact /\ HeldIsLive /\ NamesResolve /\ LinksEndOnce
=============================================================================
