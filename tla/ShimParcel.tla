----------------------------- MODULE ShimParcel -----------------------------
(***************************************************************************)
(* android.os.Parcel of the ART shim: one growing buffer with a size, a    *)
(* capacity and a position, and the binders it refers to by index.         *)
(* Sizes and positions are bytes, the buffer is a row of 4 byte words; the *)
(* position may be set anywhere, a read or write starts at the next word.  *)
(* A value is what its words hold: <<v>> for an int, two words for a long, *)
(* the length and the character words for a string.                        *)
(***************************************************************************)
EXTENDS Integers, Sequences, FiniteSets

CONSTANTS MaxWords,    \* bound: words of the buffer
          MinCapacity, \* words of the first allocation
          MaxBinders   \* bound: binders written

VARIABLES words, size, pos, cap, binders,
          intact      \* values written and not overwritten or cut off since

vars == <<words, size, pos, cap, binders, intact>>

Init == /\ words = [w \in 0..MaxWords-1 |-> 0] /\ size = 0 /\ pos = 0 /\ cap = 0
        /\ binders = <<>> /\ intact = {}

Aligned(p) == ((p + 3) \div 4) * 4

\* muplar_parcel_grow(): doubled until it is enough, the new part zero.
Doubled(n) ==
    LET base == IF cap = 0 THEN 4 * MinCapacity ELSE 2 * cap
        sizes == {base * k : k \in {1, 2, 4, 8, 16, 32, 64, 128, 256}}
    IN  CHOOSE c \in sizes : c >= n /\ \A d \in sizes : d >= n => c <= d
Grown(n) == IF n <= cap THEN cap ELSE Doubled(n)
Zeroed(n) == [w \in DOMAIN words |-> IF n > cap /\ w * 4 >= cap THEN 0 ELSE words[w]]

\* The words vs at the next word; string tells how a read will take them.
Put(kind, vs, binder) ==
    LET start == Aligned(pos)
        end == start + 4 * Len(vs) IN
    /\ end <= 4 * MaxWords
    /\ cap' = Grown(end) /\ pos' = end /\ size' = IF end > size THEN end ELSE size
    /\ words' = [w \in DOMAIN words |-> IF w * 4 >= start /\ w * 4 < end
                                        THEN vs[w - start \div 4 + 1] ELSE Zeroed(end)[w]]
    /\ intact' = {e \in intact : e.end <= start \/ e.start >= end}
                 \cup {[kind |-> kind, start |-> start, end |-> end, value |-> vs, binder |-> binder]}

\* Mutant: the terminating zero is not counted.
StringWordsUnended(cs, len) == (len * cs + 3) \div 4
\* The words of a string of len characters of cs bytes, its zero included:
\* the code writes the length and then the padded characters.
StringWords(cs, len) == ((len + 1) * cs + 3) \div 4
Characters(cs, len) == [i \in 1..StringWords(cs, len) |-> IF (i - 1) * 4 < len * cs THEN 20 + i ELSE 0]

WriteInt(v) == Put("int", <<v>>, 0) /\ UNCHANGED binders
WriteLong(v) == Put("long", <<v, v + 1>>, 0) /\ UNCHANGED binders
WriteString(cs, len) ==
    /\ IF len < 0 THEN Put("str", <<-1>>, 0) ELSE
       Put(IF cs = 1 THEN "str8" ELSE "str", <<len>> \o Characters(cs, len), 0)
    /\ UNCHANGED binders
WriteBinder(b) ==
    /\ Len(binders) < MaxBinders
    /\ Put("binder", <<Len(binders)>>, b)
    /\ binders' = Append(binders, b)

----
(* Reads: the value and the position after it; a value that does not fit in *)
(* the size is zero (null for a string) and an int or long leaves pos alone. *)

ReadInt(p) == LET s == Aligned(p) IN
              IF s + 4 > size THEN [v |-> <<0>>, at |-> p] ELSE [v |-> <<words[s \div 4]>>, at |-> s + 4]
ReadLong(p) == LET s == Aligned(p) IN
               IF s + 8 > size THEN [v |-> <<0, 0>>, at |-> p]
               ELSE [v |-> <<words[s \div 4], words[s \div 4 + 1]>>, at |-> s + 8]

AtMost(p) == IF p <= size THEN p ELSE size
\* A string of length 0 skips one word; one that does not fit is null after its
\* length was read.
ReadString(cs, p) ==
    LET n == ReadInt(p)
        len == n.v[1] IN
    IF len < 0 THEN [v |-> <<-1>>, at |-> n.at]
    ELSE IF len = 0 THEN [v |-> <<0>>, at |-> AtMost(n.at + 4)]
    ELSE IF n.at + len * cs > size THEN [v |-> <<-1>>, at |-> n.at]
    ELSE [v |-> <<len>> \o [i \in 1..((len * cs + 3) \div 4) |-> words[n.at \div 4 + i - 1]],
          at |-> AtMost(n.at + 4 * StringWords(cs, len))]

ReadBinder(p) ==
    LET n == ReadInt(p) IN
    [v |-> IF n.v[1] \in 0..Len(binders)-1 THEN <<binders[n.v[1] + 1]>> ELSE <<0>>, at |-> n.at]

ReadAs(kind, p) == CASE kind = "int" -> ReadInt(p) [] kind = "long" -> ReadLong(p)
                     [] kind = "str8" -> ReadString(1, p) [] kind = "str" -> ReadString(2, p)
                     [] kind = "binder" -> ReadBinder(p)

Read(kind) == /\ pos' = ReadAs(kind, pos).at
              /\ UNCHANGED <<words, size, cap, binders, intact>>

----
SetDataPosition(p) == /\ pos' = p /\ UNCHANGED <<words, size, cap, binders, intact>>

SetDataSize(n) ==
    /\ n <= 4 * MaxWords
    /\ cap' = Grown(n) /\ words' = Zeroed(n) /\ size' = n
    /\ pos' = IF pos > n THEN n ELSE pos
    /\ intact' = {e \in intact : e.end <= n}
    /\ UNCHANGED binders

SetDataCapacity(n) == /\ n > 0 /\ cap' = Grown(n) /\ words' = Zeroed(n)
                      /\ UNCHANGED <<size, pos, binders, intact>>

\* nativeFreeBuffer, and nativeDestroy of a parcel that is created again.
FreeBuffer == /\ size' = 0 /\ pos' = 0 /\ cap' = 0 /\ binders' = <<>> /\ intact' = {}
              /\ words' = [w \in DOMAIN words |-> 0]

Next == \/ WriteInt(1) \/ WriteLong(3) \/ WriteBinder(1)
        \/ \E cs \in 1..2, len \in {-1, 0, 2} : WriteString(cs, len)
        \/ \E k \in {"int", "long", "str8", "str", "binder"} : Read(k)
        \/ \E p \in {0, 5} : SetDataPosition(p)
        \/ \E n \in {0, 5, 8} : SetDataSize(n)
        \/ SetDataCapacity(9) \/ FreeBuffer

Spec == Init /\ [][Next]_vars

----
TypeOK == /\ size \in 0..4*MaxWords /\ pos \in Nat /\ cap \in Nat
          /\ binders \in Seq(1..1) /\ Len(binders) <= MaxBinders

\* What a reader gets back of a written value.
Shown(e) == CASE e.kind = "binder" -> <<e.binder>>
              [] e.kind \in {"str", "str8"} /\ e.value[1] >= 0 ->
                    SubSeq(e.value, 1, 1 + (e.value[1] * (IF e.kind = "str" THEN 2 ELSE 1) + 3) \div 4)
              [] OTHER -> e.value

\* A value that was not overwritten or cut off reads back as it was written,
\* and the read ends where the next value starts: whatever grew, moved, seeked
\* or was written over other parts of the buffer (nativeWrite*, nativeRead*).
\* The buffer always has room for its size.
ParcelReadsBack ==
    /\ \A e \in intact : LET r == ReadAs(e.kind, e.start) IN r.v = Shown(e) /\ r.at = e.end
    /\ size <= cap
=============================================================================
