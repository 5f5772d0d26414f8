---------------------------- MODULE PackedRelocs ----------------------------
(***************************************************************************)
(* The two packed relocation formats the loaders read: DT_RELR, by the     *)
(* guest's linker and by GuestRunner, and DT_ANDROID_RELA (APS2), by the   *)
(* guest's linker, each loop one step per round.  A relocation is the slot *)
(* it is for, its kind and its addend.  Numbers are words of Width bits    *)
(* and bytes have Digit bits and a continuation bit: 64 and 7 in the code. *)
(*                                                                         *)
(* What a file means is defined apart from the loops: Named for RELR, and  *)
(* Packed, the packer's side of APS2.  Files that break off in the middle  *)
(* of a word end the linker (FATAL) and are left out.                      *)
(***************************************************************************)
EXTENDS Integers, Sequences, FiniteSets, SequencesExt

CONSTANTS Width,       \* bits of a word
          Digit,       \* bits of a byte without the continuation bit
          MemorySlots, \* slots of the image
          RelrFiles,   \* DT_RELR tables: addresses and bitmaps
          Groups       \* groups of relocations, with their flags

Word == 2 ^ Width

VARIABLES loader,    \* whose loop runs: "linker", "direct" or "android"
          file,      \* what it reads
          pos,       \* entries or bytes read
          slot,      \* RELR: the slot after the last address; APS2: r_offset
          info,      \* r_info
          addend,    \* r_addend
          group,     \* the group whose relocations are being read
          applied,   \* the relocations applied, in order
          wanted,    \* the relocations the file stands for
          at         \* "header", "group", "reloc", "entry" or "done"

vars == <<loader, file, pos, slot, info, addend, group, applied, wanted, at>>

----
(* What a RELR table means. *)

\* An address, or the bits of a bitmap (bit 0 is the slot after the last one
\* covered before).
Address(s) == [bitmap |-> FALSE, slot |-> s, bits |-> {}]
Bitmap(bits) == [bitmap |-> TRUE, slot |-> 0, bits |-> bits]
Window == Width - 1

\* Entry i of table f names slot s: by address, or by the bit whose distance
\* from the last address counts the bitmaps in between.
Named(f, i, s) ==
    IF ~f[i].bitmap THEN s = f[i].slot
    ELSE \E a \in 1 .. i - 1 :
           /\ ~f[a].bitmap /\ \A k \in a + 1 .. i : f[k].bitmap
           /\ s - (f[a].slot + 1 + Window * (i - a - 1)) \in f[i].bits
RelrSlots(f) == [s \in 0 .. MemorySlots - 1 |-> Cardinality({i \in DOMAIN f : Named(f, i, s)})]

----
(* What an APS2 file means: the packer. *)

Flag(g, f) == f \in g.flags
InfoFlag == "GROUPED_BY_INFO"
OffsetFlag == "GROUPED_BY_OFFSET_DELTA"
GroupedAddend == "GROUPED_BY_ADDEND"
HasAddend == "GROUP_HAS_ADDEND"
EachAddend(g) == Flag(g, HasAddend) /\ ~Flag(g, GroupedAddend)
SharedAddend(g) == Flag(g, HasAddend) /\ Flag(g, GroupedAddend)

\* The bytes of a word: the fewest digits whose sign extension gives it back.
Signed(w) == IF w >= Word \div 2 THEN w - Word ELSE w
SlebBytes(w) ==
    LET v == Signed(w)
        n == CHOOSE n \in 1 .. Width :
               /\ -(2 ^ (Digit * n - 1)) <= v /\ v < 2 ^ (Digit * n - 1)
               /\ n = 1 \/ ~(-(2 ^ (Digit * (n - 1) - 1)) <= v /\ v < 2 ^ (Digit * (n - 1) - 1))
    IN  [i \in 1 .. n |-> ((v \div 2 ^ (Digit * (i - 1))) % 2 ^ Digit)
                            + IF i < n THEN 2 ^ Digit ELSE 0]
Sleb(words) == FoldLeft(LAMBDA acc, w : acc \o SlebBytes(w % Word), <<>>, words)

\* The flags as one number, and the words of a group after relocation p.
FlagBits(g) ==
    (IF Flag(g, InfoFlag) THEN 1 ELSE 0) + (IF Flag(g, OffsetFlag) THEN 2 ELSE 0)
      + (IF Flag(g, GroupedAddend) THEN 4 ELSE 0) + (IF Flag(g, HasAddend) THEN 8 ELSE 0)
If(c, w) == IF c THEN <<w>> ELSE <<>>
GroupWords(g, p) ==
    LET r == g.relocs
        before(i) == IF i = 1 THEN p ELSE r[i - 1]
    IN  <<Len(r), FlagBits(g)>>
          \o If(Flag(g, OffsetFlag), r[1].offset - p.offset)
          \o If(Flag(g, InfoFlag), r[1].info)
          \o If(SharedAddend(g), r[1].addend - p.addend)
          \o FoldLeft(LAMBDA acc, i : acc
                        \o If(~Flag(g, OffsetFlag), r[i].offset - before(i).offset)
                        \o If(~Flag(g, InfoFlag), r[i].info)
                        \o If(EachAddend(g), r[i].addend - before(i).addend),
                      <<>>, [i \in 1 .. Len(r) |-> i])

\* The flags tell the truth about the group.
WellFormed(g, p) ==
    LET r == g.relocs
    IN  /\ Flag(g, OffsetFlag) => \A i \in 2 .. Len(r) :
              (r[i].offset - r[i - 1].offset - r[1].offset + p.offset) % Word = 0
        /\ Flag(g, InfoFlag) => \A i \in DOMAIN r : r[i].info = r[1].info
        /\ SharedAddend(g) => \A i \in DOMAIN r : r[i].addend = r[1].addend
        /\ ~Flag(g, HasAddend) => \A i \in DOMAIN r : r[i].addend = 0

Start == [offset |-> 0, info |-> 0, addend |-> 0]
Packed(g, h) == Sleb(<<Len(g.relocs) + Len(h.relocs), 0>> \o GroupWords(g, Start)
                      \o GroupWords(h, Last(g.relocs)))

Init ==
    /\ pos = 0 /\ slot = 0 /\ info = 0 /\ addend = 0 /\ applied = <<>>
    /\ group = [left |-> 0, size |-> 0, flags |-> {}, delta |-> 0]
    /\ \/ /\ loader \in {"linker", "direct"} /\ at = "entry"
          /\ file \in RelrFiles /\ wanted = <<>>
       \/ /\ loader = "android" /\ at = "header"
          /\ \E g, h \in Groups :
               /\ WellFormed(g, Start) /\ WellFormed(h, Last(g.relocs))
               /\ file = Packed(g, h) /\ wanted = g.relocs \o h.relocs

----
(* apply_relr() and apply_direct_so_relr(). *)

Relative(s) == [offset |-> s, info |-> 0, addend |-> 0]

\* The slots a bitmap names, from the lowest bit on.
Scan(from, bits) ==
    LET all == [i \in 1 .. Window |-> i - 1]
        set == SelectSeq(all, LAMBDA b : b \in bits)
    IN  [i \in DOMAIN set |-> Relative(from + set[i])]

\* One entry.  Mutant: the window counts the marker bit.
ApplyRelrWideWindow(e) ==
    /\ applied' = applied \o IF e.bitmap THEN Scan(slot, e.bits) ELSE <<Relative(e.slot)>>
    /\ slot' = IF e.bitmap THEN slot + Width ELSE e.slot + 1
ApplyRelr(e) ==
    /\ applied' = applied \o IF e.bitmap THEN Scan(slot, e.bits) ELSE <<Relative(e.slot)>>
    /\ slot' = IF e.bitmap THEN slot + Window ELSE e.slot + 1

\* The same in guest memory, where a slot that is not mapped is passed over.
ApplyDirectSoRelr(e) ==
    LET mapped == SelectSeq(IF e.bitmap THEN Scan(slot, e.bits) ELSE <<Relative(e.slot)>>,
                            LAMBDA r : r.offset < MemorySlots)
    IN  /\ applied' = applied \o mapped
        /\ slot' = IF e.bitmap THEN slot + Window ELSE e.slot + 1

RelrEntry ==
    /\ at = "entry"
    /\ IF pos = Len(file)
       THEN at' = "done" /\ UNCHANGED <<pos, slot, applied>>
       ELSE /\ pos' = pos + 1 /\ UNCHANGED at
            /\ IF loader = "linker" THEN ApplyRelr(file[pos + 1])
                                    ELSE ApplyDirectSoRelr(file[pos + 1])
    /\ UNCHANGED <<loader, file, info, addend, group, wanted>>

----
(* apply_android_rela(). *)

\* sleb128_decoder_pop_front() after byte p: the word and the new position.
\* Mutant: the sign bit is not extended.
Continues(b) == b >= 2 ^ Digit
PopFrontUnsigned(p) ==
    LET n == CHOOSE n \in 1 .. Len(file) - p :
               ~Continues(file[p + n]) /\ \A k \in 1 .. n - 1 : Continues(file[p + k])
        value == FoldLeft(LAMBDA acc, k : acc + (file[p + k] % 2 ^ Digit) * 2 ^ (Digit * (k - 1)),
                          0, [k \in 1 .. n |-> k])
    IN  [value |-> value % Word, pos |-> p + n]
PopFront(p) ==
    LET n == CHOOSE n \in 1 .. Len(file) - p :
               ~Continues(file[p + n]) /\ \A k \in 1 .. n - 1 : Continues(file[p + k])
        value == FoldLeft(LAMBDA acc, k : acc + (file[p + k] % 2 ^ Digit) * 2 ^ (Digit * (k - 1)),
                          0, [k \in 1 .. n |-> k])
        shift == Digit * n
        extended == IF shift < Width /\ file[p + n] >= 2 ^ (Digit - 1) THEN value - 2 ^ shift ELSE value
    IN  [value |-> extended % Word, pos |-> p + n]

\* Pops one word if c holds, and otherwise gives the word that stays.
Maybe(c, p, stays) == IF c THEN PopFront(p) ELSE [value |-> stays, pos |-> p]

ReadHeader ==
    LET count == PopFront(pos)
        offset == PopFront(count.pos)
    IN  /\ at = "header"
        /\ group' = [group EXCEPT !.left = count.value]
        /\ slot' = offset.value /\ pos' = offset.pos
        /\ at' = "group"
        /\ UNCHANGED <<loader, file, info, addend, applied, wanted>>

Bit(n, k) == (n \div k) % 2 = 1
ReadGroup ==
    LET size == PopFront(pos)
        bits == PopFront(size.pos)
        flags == (IF Bit(bits.value, 1) THEN {InfoFlag} ELSE {})
                   \cup (IF Bit(bits.value, 2) THEN {OffsetFlag} ELSE {})
                   \cup (IF Bit(bits.value, 4) THEN {GroupedAddend} ELSE {})
                   \cup (IF Bit(bits.value, 8) THEN {HasAddend} ELSE {})
        delta == Maybe(OffsetFlag \in flags, bits.pos, 0)
        kind == Maybe(InfoFlag \in flags, delta.pos, info)
        more == Maybe({HasAddend, GroupedAddend} \subseteq flags, kind.pos, 0)
    IN  /\ at = "group" /\ group.left > 0
        /\ group' = [left |-> group.left - size.value, size |-> size.value, flags |-> flags,
                     delta |-> delta.value]
        /\ info' = kind.value
        /\ addend' = IF HasAddend \in flags THEN (addend + more.value) % Word ELSE 0
        /\ pos' = more.pos
        /\ at' = "reloc"
        /\ UNCHANGED <<loader, file, slot, applied, wanted>>

ReadReloc ==
    LET offset == Maybe(~Flag(group, OffsetFlag), pos, group.delta)
        kind == Maybe(~Flag(group, InfoFlag), offset.pos, info)
        more == Maybe(EachAddend(group), kind.pos, 0)
    IN  /\ at = "reloc" /\ group.size > 0
        /\ slot' = (slot + offset.value) % Word
        /\ info' = kind.value
        /\ addend' = (addend + more.value) % Word
        /\ applied' = Append(applied, [offset |-> slot', info |-> info', addend |-> addend'])
        /\ group' = [group EXCEPT !.size = @ - 1]
        /\ pos' = more.pos
        /\ UNCHANGED <<loader, file, wanted, at>>

EndGroup ==
    /\ at = "reloc" /\ group.size = 0
    /\ at' = IF group.left > 0 THEN "group" ELSE "done"
    /\ UNCHANGED <<loader, file, pos, slot, info, addend, group, applied, wanted>>

Next == RelrEntry \/ ReadHeader \/ ReadGroup \/ ReadReloc \/ EndGroup

Spec == Init /\ [][Next]_vars

----
(* Properties. *)

TypeOK ==
    /\ pos \in 0 .. Len(file) /\ info \in Nat /\ addend \in Nat
    /\ at \in {"header", "group", "reloc", "entry", "done"}

\* Both RELR loops relocate exactly the slots of the image that the table
\* names, each as often as it is named, although a bitmap's place is only
\* known from the entries before it.
RelrApplied ==
    at = "done" /\ loader # "android" =>
        \A s \in 0 .. MemorySlots - 1 :
            Cardinality({i \in DOMAIN applied : applied[i].offset = s}) = RelrSlots(file)[s]

\* The APS2 loop applies the relocations that were packed, in their order and
\* with their kinds and addends: deltas go on over the end of a group, and
\* are negative or wrap like the words they come from.
AndroidRelaApplied ==
    loader = "android" =>
        /\ IsPrefix(applied, wanted)
        /\ at = "done" => applied = wanted /\ pos = Len(file)

RelocsSound == RelrApplied /\ AndroidRelaApplied
=============================================================================
