----------------------------- MODULE JniArrays -----------------------------
(***************************************************************************)
(* Java arrays of the guest's JNI environment.  The host keeps each array; *)
(* Get<Type>ArrayElements copies it into a scratch ring in guest memory    *)
(* and Release<Type>ArrayElements copies the guest's bytes back.  The ring *)
(* is never freed: its bump pointer starts again at zero when the next     *)
(* copy does not fit, whatever pointers are still out.  Array contents and *)
(* the ring are counted in 16 byte blocks, the ring's alignment, so the    *)
(* byte, int, long and float calls differ only by their type.              *)
(***************************************************************************)
EXTENDS Integers, Sequences, FiniteSets

CONSTANTS RingBlocks,     \* kArrayScratchSize in blocks
          Lengths,        \* array lengths in blocks
          MaxArrays,      \* bound: arrays made
          MaxGets         \* bound: element pointers handed out

VARIABLES arrays,   \* handle -> [type, data], handles in order of creation
          ring,     \* guest scratch memory
          bump,     \* array_elements_bump_
          held,     \* element pointers the guest holds
          gets,
          last      \* what the last release should have left behind

vars == <<arrays, ring, bump, held, gets, last>>

ElementTypes == {"byte", "int"}
Types == ElementTypes \cup {"object"}
Value == {0, 1}
Quiet == [array |-> 0, expect |-> <<>>, safe |-> FALSE]

TypeOK ==
    /\ \A h \in DOMAIN arrays : arrays[h].type \in Types /\ Len(arrays[h].data) \in Lengths
    /\ ring \in [0 .. RingBlocks - 1 -> Value]
    /\ bump \in 0 .. RingBlocks
    /\ \A p \in held : p.array \in DOMAIN arrays /\ p.at + Len(p.mine) <= RingBlocks

Init ==
    /\ arrays = <<>>
    /\ ring = [b \in 0 .. RingBlocks - 1 |-> 0]
    /\ bump = 0
    /\ held = {}
    /\ gets = 0
    /\ last = Quiet

\* make_<type>_array(), make_object_array(): zeroes, or the initial object.
NewArray(type, length, first) ==
    /\ Len(arrays) < MaxArrays
    /\ type # "object" => first = 0
    /\ arrays' = Append(arrays, [type |-> type, data |-> [i \in 1 .. length |-> first]])
    /\ last' = Quiet
    /\ UNCHANGED <<ring, bump, held, gets>>

\* write_scratch_bytes(): an empty array still takes one block.
Blocks(data) == IF Len(data) = 0 THEN 1 ELSE Len(data)
Place(blocks) == IF bump + blocks > RingBlocks THEN 0 ELSE bump
CopyIn(data, at) == [b \in DOMAIN ring |->
    IF b - at + 1 \in DOMAIN data THEN data[b - at + 1] ELSE ring[b]]

\* Get<Type>ArrayElements: a handle of another type, or an array larger than
\* the ring, answers null and changes nothing.
GetElements(type, h) ==
    LET data == arrays[h].data
        blocks == Blocks(data)
        at == Place(blocks)
    IN  /\ arrays[h].type = type
        /\ blocks <= RingBlocks
        /\ gets < MaxGets
        /\ ring' = CopyIn(data, at)
        /\ bump' = at + blocks
        /\ held' = {[p EXCEPT !.spent = @ + blocks] : p \in held}
                     \cup {[array |-> h, at |-> at, mine |-> data, spent |-> blocks, id |-> gets]}
        /\ gets' = gets + 1
        /\ last' = Quiet
        /\ UNCHANGED <<arrays>>

\* A pointer is sure to be intact while everything handed out since it, and
\* the longest tail a wrap can skip, fits in the ring.
Longest == CHOOSE n \in Lengths : \A k \in Lengths : k <= n
Intact(p) == p.spent + Longest - 1 <= RingBlocks

\* Native code writes through a pointer it was given.  It does so only while
\* the pointer is intact: a write through one the ring has turned over lands in
\* another array's copy, and no property of the ring could hold.
GuestWrites(p, i, v) ==
    /\ p \in held
    /\ Intact(p)
    /\ i \in DOMAIN p.mine
    /\ ring' = [ring EXCEPT ![p.at + i - 1] = v]
    /\ held' = (held \ {p}) \cup {[p EXCEPT !.mine[i] = v]}
    /\ last' = Quiet
    /\ UNCHANGED <<arrays, bump, gets>>

\* The blocks guest_read() finds under the pointer, for the array's length.
Under(p) == [i \in DOMAIN arrays[p.array].data |-> ring[p.at + i - 1]]

\* Mutant: releasing elements hands the scratch ring out again from its start.
ReleaseElementsRewinding(p, mode) ==
    /\ p \in held
    /\ arrays' = IF mode = "abort" THEN arrays
                 ELSE [arrays EXCEPT ![p.array].data = Under(p)]
    /\ held' = IF mode = "commit" THEN held ELSE held \ {p}
    /\ last' = [array |-> p.array, safe |-> Intact(p),
                expect |-> IF mode = "abort" THEN arrays[p.array].data ELSE p.mine]
    /\ bump' = 0
    /\ UNCHANGED <<ring, gets>>

\* Release<Type>ArrayElements: only JNI_ABORT keeps the array as it was; after
\* JNI_COMMIT the guest goes on using the pointer.
ReleaseElements(p, mode) ==
    /\ p \in held
    /\ arrays' = IF mode = "abort" THEN arrays
                 ELSE [arrays EXCEPT ![p.array].data = Under(p)]
    /\ held' = IF mode = "commit" THEN held ELSE held \ {p}
    /\ last' = [array |-> p.array, safe |-> Intact(p),
                expect |-> IF mode = "abort" THEN arrays[p.array].data ELSE p.mine]
    /\ UNCHANGED <<ring, bump, gets>>

\* jni_Get<Type>ArrayRegion: what both directions check.
InRegion(type, h, start, len) ==
    arrays[h].type = type /\ start + len <= Len(arrays[h].data)

\* Set<Type>ArrayRegion, SetObjectArrayElement (len = 1): a handle of another
\* type or a region past the end throws (module JniClasses) and copies nothing.
SetRegion(type, h, start, len, v) ==
    /\ InRegion(type, h, start, len)
    /\ arrays' = [arrays EXCEPT ![h].data =
           [i \in DOMAIN @ |-> IF i > start /\ i <= start + len THEN v ELSE @[i]]]
    /\ last' = Quiet
    /\ UNCHANGED <<ring, bump, held, gets>>

Next ==
    \/ \E type \in Types, n \in Lengths : NewArray(type, n, 0)
    \/ \E type \in ElementTypes, h \in DOMAIN arrays : GetElements(type, h)
    \/ \E p \in held, i \in 1 .. Longest : GuestWrites(p, i, 1)
    \/ \E p \in held, mode \in {"store", "commit", "abort"} : ReleaseElements(p, mode)
    \/ \E type \in Types, h \in DOMAIN arrays, start \in Lengths :
           SetRegion(type, h, start, 1, 1)

Spec == Init /\ [][Next]_vars

\* While what was handed out since a pointer fits in the scratch ring
\* (jni_bridge.cpp:147-166), the guest finds behind the pointer what it last
\* saw or wrote there, whichever other arrays were copied in meanwhile.
ElementsHold == \A p \in held : Intact(p) => Under(p) = p.mine

\* Releasing such a pointer stores into the array what the guest wrote through
\* it, and JNI_ABORT leaves the array alone: no other array's bytes come back.
ReleaseStoresOwn == last.safe => arrays[last.array].data = last.expect

ArraysSound == ElementsHold /\ ReleaseStoresOwn
=============================================================================
