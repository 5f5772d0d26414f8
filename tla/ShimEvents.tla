----------------------------- MODULE ShimEvents -----------------------------
(***************************************************************************)
(* The ART shim's native halves of MotionEvent and DisplayEventReceiver.   *)
(* A Java MotionEvent keeps the address of a native record; the framework  *)
(* (external) recycles objects with their address, so nativeInitialize and *)
(* nativeCopy write over records of earlier events.  A record holds one    *)
(* pointer and no history.  A DisplayEventReceiver asks for a vsync and    *)
(* waits; the shim posts it to a Java timer through a global reference     *)
(* that nativeInit took.  Numbers stand for field values, and the setters  *)
(* that differ only in their field are one action.                         *)
(***************************************************************************)
EXTENDS Integers, FiniteSets

CONSTANTS Events,       \* Java MotionEvent objects
          Receivers,    \* Java DisplayEventReceiver objects
          MaxX,         \* bound: largest coordinate
          MaxPosted     \* bound: timer callbacks waiting

VARIABLES native,     \* address -> record, or Free
          ptr,        \* MotionEvent.mNativePtr
          pooled,     \* recycled MotionEvents
          told,       \* what each event in use was told, as its own record
          handle,     \* DisplayEventReceiver.mReceiverPtr: the native state
          waiting,    \* receivers waiting for a vsync
          posted      \* callbacks on the main looper, per receiver

motion == <<native, ptr, pooled, told>>
vsync == <<handle, waiting, posted>>
vars == <<native, ptr, pooled, told, handle, waiting, posted>>

Addresses == 1 .. Cardinality(Events)
Free == [field |-> "free"]
Bit == {0, 1}

\* muplar_motion_event_t: "set" stands for the fields the initializer and
\* the setters write (nativeAddBatch writes two of them too), "button" for the one the initializer clears.
Motion == [field : {"live"}, set : Bit, button : Bit, count : 1 .. 2, id : Bit, x : 0 .. MaxX]

TypeOK ==
    /\ native \in [Addresses -> Motion \cup {Free}]
    /\ ptr \in [Events -> Addresses \cup {0}]
    /\ pooled \subseteq Events
    /\ handle \in [Receivers -> {"none", "deaf", "bound", "disposed"}]
    /\ waiting \subseteq Receivers
    /\ posted \in [Receivers -> 0 .. MaxPosted]

Init ==
    /\ native = [a \in Addresses |-> Free]
    /\ ptr = [e \in Events |-> 0]
    /\ pooled = Events
    /\ told = [e \in Events |-> Free]
    /\ handle = [r \in Receivers |-> "none"]
    /\ waiting = {}
    /\ posted = [r \in Receivers |-> 0]

----
(* MotionEvent. *)

\* calloc and malloc: any free address.
Address(e) == IF ptr[e] # 0 THEN {ptr[e]} ELSE {a \in Addresses : native[a] = Free}

\* read_pointer0(): pointer 0 of the arrays, and zeroes for an absent array.
ReadPointer0(given) == IF given = {} THEN [id |-> 0, x |-> 0] ELSE CHOOSE p \in given : TRUE

Pointers == {{}} \cup {{[id |-> i, x |-> c]} : i \in Bit, c \in 0 .. 1}

\* What nativeInitialize leaves in a record, whatever it held.
Fresh(set, count, given) ==
    LET p == ReadPointer0(given)
    IN  [field |-> "live", set |-> set, button |-> 0, count |-> IF count > 0 THEN count ELSE 1,
         id |-> p.id, x |-> p.x]

\* nativeInitialize for MotionEvent.obtain(): a recycled object keeps its
\* record's address.
\* Mutant: a record that is used again keeps its action button.
NativeInitializeKeepingButton(e, set, count, given) ==
    \E a \in Address(e) :
        /\ e \in pooled
        /\ ptr' = [ptr EXCEPT ![e] = a]
        /\ native' = [native EXCEPT ![a] =
               IF ptr[e] = 0 THEN Fresh(set, count, given)
               ELSE [Fresh(set, count, given) EXCEPT !.button = native[a].button]]
        /\ told' = [told EXCEPT ![e] = Fresh(set, count, given)]
        /\ pooled' = pooled \ {e}
        /\ UNCHANGED vsync
NativeInitialize(e, set, count, given) ==
    \E a \in Address(e) :
        /\ e \in pooled
        /\ ptr' = [ptr EXCEPT ![e] = a]
        /\ native' = [native EXCEPT ![a] = Fresh(set, count, given)]
        /\ told' = [told EXCEPT ![e] = Fresh(set, count, given)]
        /\ pooled' = pooled \ {e}
        /\ UNCHANGED vsync

\* nativeCopy and nativeSplit: the whole record, into the object's own.
NativeCopy(e, from) ==
    \E a \in Address(e) :
        /\ e \in pooled /\ from \in Events \ pooled
        /\ ptr' = [ptr EXCEPT ![e] = a]
        /\ native' = [native EXCEPT ![a] = native[ptr[from]]]
        /\ told' = [told EXCEPT ![e] = told[from]]
        /\ pooled' = pooled \ {e}
        /\ UNCHANGED vsync

\* A call on an event in use writes its record; Change says how.
Write(e, Change(_)) ==
    /\ e \notin pooled
    /\ native' = [native EXCEPT ![ptr[e]] = Change(@)]
    /\ told' = [told EXCEPT ![e] = Change(@)]
    /\ UNCHANGED <<ptr, pooled, vsync>>

\* nativeSetAction, SetSource, SetDisplayId, SetFlags, SetEdgeFlags, ...
NativeSetField(e, v) == Write(e, LAMBDA m : [m EXCEPT !.set = v])
NativeSetActionButton(e, v) == Write(e, LAMBDA m : [m EXCEPT !.button = v])
NativeOffsetLocation(e, delta) ==
    /\ e \notin pooled /\ native[ptr[e]].x + delta \in 0 .. MaxX
    /\ Write(e, LAMBDA m : [m EXCEPT !.x = @ + delta])
NativeScale(e, scale) ==
    /\ e \notin pooled /\ native[ptr[e]].x * scale <= MaxX
    /\ Write(e, LAMBDA m : [m EXCEPT !.x = @ * scale])

\* nativeAddBatch: no history, the batched sample becomes the current one;
\* absent coordinates leave the old ones.
NativeAddBatch(e, v, given) ==
    Write(e, LAMBDA m :
        [m EXCEPT !.set = v, !.x = IF given = {} THEN @ ELSE ReadPointer0(given).x])

\* The framework recycles an event, its record stays allocated.
Recycle(e) ==
    /\ e \notin pooled
    /\ pooled' = pooled \cup {e}
    /\ told' = [told EXCEPT ![e] = Free]
    /\ UNCHANGED <<native, ptr, vsync>>

\* nativeDispose, from MotionEvent.finalize().
NativeDispose(e) ==
    /\ e \in pooled /\ ptr[e] # 0
    /\ native' = [native EXCEPT ![ptr[e]] = Free]
    /\ ptr' = [ptr EXCEPT ![e] = 0]
    /\ UNCHANGED <<pooled, told, vsync>>

\* nativeGetPointerCount, GetPointerId, FindPointerIndex: every index names
\* the one pointer the record has.
PointerId(m, index) == m.id
FindPointerIndex(m, id) == IF m.id = id THEN 0 ELSE -1

\* nativeGetAxisValue, GetRawAxisValue, GetPointerCoords.
AxisValue(m) == m.x

\* The other getters.
Fields(m) == <<m.set, m.button, m.count>>

----
(* DisplayEventReceiver. *)

\* nativeInit: the receiver comes in a weak reference, which may be cleared.
NativeInit(r, referent) ==
    /\ handle[r] = "none"
    /\ handle' = [handle EXCEPT ![r] = IF referent THEN "bound" ELSE "deaf"]
    /\ UNCHANGED <<motion, waiting, posted>>

\* nativeScheduleVsync: a callback on the timer, unless there is nobody to
\* call.  The Java caller waits from now on.  (The runtime's scheduler class
\* is there and the main looper prepared: the look-ups do not fail here.)
NativeScheduleVsync(r) ==
    /\ handle[r] \in {"bound", "deaf"} /\ posted[r] < MaxPosted
    /\ waiting' = waiting \cup {r}
    /\ posted' = IF handle[r] = "bound" THEN [posted EXCEPT ![r] = @ + 1] ELSE posted
    /\ UNCHANGED <<motion, handle>>

\* The timer calls dispatchVsync (nativeGetLatestVsyncEventData: the times
\* and the id of the frame).
DispatchVsync(r) ==
    /\ posted[r] > 0
    /\ posted' = [posted EXCEPT ![r] = @ - 1]
    /\ waiting' = waiting \ {r}
    /\ UNCHANGED <<motion, handle>>

\* dispose(): the native state is freed, its global reference leaks.
FreeReceiver(r) ==
    /\ handle[r] \in {"bound", "deaf"}
    /\ handle' = [handle EXCEPT ![r] = "disposed"]
    /\ UNCHANGED <<motion, waiting, posted>>

Next ==
    \/ \E e \in Events, set \in Bit, count \in {0, 2}, given \in Pointers :
            NativeInitialize(e, set, count, given)
    \/ \E e, from \in Events : NativeCopy(e, from)
    \/ \E e \in Events, v \in Bit : NativeSetField(e, v) \/ NativeSetActionButton(e, v)
    \/ \E e \in Events, delta \in {-1, 1} : NativeOffsetLocation(e, delta)
    \/ \E e \in Events : NativeScale(e, 2)
    \/ \E e \in Events, v \in Bit, given \in Pointers : NativeAddBatch(e, v, given)
    \/ \E e \in Events : Recycle(e) \/ NativeDispose(e)
    \/ \E r \in Receivers : \/ \E referent \in BOOLEAN : NativeInit(r, referent)
                            \/ NativeScheduleVsync(r) \/ DispatchVsync(r) \/ FreeReceiver(r)

Spec == Init /\ [][Next]_vars

----
(* Properties. *)

\* What the getters answer for an event in use is what that event was told
\* since it was obtained: nothing of the record's earlier events and
\* nothing written through another event shows, however objects are copied,
\* recycled and disposed (nativeInitialize, nativeCopy and the setters).
EventsAreTheirOwn ==
    \A e \in Events \ pooled :
        LET m == native[ptr[e]]
        IN  /\ m # Free
            /\ AxisValue(m) = AxisValue(told[e]) /\ Fields(m) = Fields(told[e])
            /\ \A i \in 0 .. m.count - 1 :
                   FindPointerIndex(m, PointerId(told[e], i)) = 0

\* A receiver that waits for a vsync has a callback on the timer, also after
\* it was disposed, unless its weak reference was already cleared in
\* nativeInit: then nativeScheduleVsync drops the request.
WaitersArePosted ==
    \A r \in waiting : posted[r] > 0 \/ handle[r] \in {"deaf", "disposed"}

\* Native event records and vsync requests of the shim stay with their owner.
EventsSound == EventsAreTheirOwn /\ WaitersArePosted
=============================================================================
