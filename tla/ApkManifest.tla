---------------------------- MODULE ApkManifest ----------------------------
(***************************************************************************)
(* What apk_envelope.cpp infers from AndroidManifest.xml: the activity to  *)
(* launch, the widget provider, the native library and the label.  The     *)
(* manifest comes in two forms, binary XML (chunks) and plain text; each   *)
(* has its own scanner.  A manifest grows here element by element, in      *)
(* document order; what the scanners make of it are operators on it.       *)
(*                                                                         *)
(* A chunk is the start or the end of an element.  `written` is FALSE for  *)
(* the end of an element that the text closes in its own tag (<x/>), which *)
(* only the binary form has.  Names are resolved already.                  *)
(***************************************************************************)
EXTENDS Naturals, SequencesExt

CONSTANTS Components, \* pairs of a tag and a name (or NoClass) a component may have
          MainLike,   \* those whose name says "main" (and not "panic" or "calc")
          Bases,      \* sequence of the native libraries' base names
          MaxChunks, MaxTypes

NoClass == "none"

VARIABLES chunks,  \* the manifest
          label,   \* the application's label: "none", "text" or "reference"
          table    \* resources.arsc: its chunks, the string pool among them

vars == <<chunks, label, table>>

Tags == {"activity", "activity-alias", "receiver"}
Leaves == {<<"action", "MAIN">>, <<"action", "UPDATE">>, <<"category", "LAUNCHER">>}
Start(t, n) == [kind |-> "start", tag |-> t, name |-> n, written |-> TRUE]
End(t, w) == [kind |-> "end", tag |-> t, name |-> NoClass, written |-> w]

\* The element that is still open, if any: components do not nest.
Opened == LET last == SelectLastInSubSeq(chunks, 1, Len(chunks), LAMBDA c : c.tag \in Tags)
          IN IF last = 0 \/ chunks[last].kind = "end" THEN NoClass ELSE chunks[last].tag

TypeOK == /\ chunks \in Seq([kind : {"start", "end"}, tag : Tags \cup {l[1] : l \in Leaves} \cup {"meta-data"},
                             name : STRING, written : BOOLEAN])
          /\ label \in {"none", "text", "reference"}

Init == chunks = <<>> /\ label \in {"none", "text", "reference"} /\ table = <<>>

Grow(c) == Len(chunks) < MaxChunks /\ chunks' = Append(chunks, c) /\ UNCHANGED <<label, table>>
\* Components and label do not influence one another: a manifest has one or the other.
OpenElement(t, n) == label = "none" /\ Opened = NoClass /\ Grow(Start(t, n))
CloseElement(w) == /\ Opened # NoClass /\ (~w => chunks[Len(chunks)].tag \in Tags)
                   /\ Grow(End(Opened, w))
\* Saying it twice in one element changes nothing.
AddLeaf(l) == Opened # NoClass /\ Grow(Start(l[1], l[2]))
              /\ LET from == SelectLastInSubSeq(chunks, 1, Len(chunks), LAMBDA c : c.tag \in Tags)
                 IN \A i \in from..Len(chunks) : chunks[i].name # l[2]
\* android.app.lib_name; the scanners look for it in the whole document.
AddLibName(b) == label = "none" /\ chunks = <<>> /\ Grow(Start("meta-data", b))
\* A chunk of the table: the pool, or an entry of the wanted id in one
\* configuration (a string, a complex value, none) or of another package.
AddTable(c) == /\ label = "reference" /\ chunks = <<>> /\ Len(table) < MaxTypes
               /\ table' = Append(table, c) /\ UNCHANGED <<chunks, label>>

TableChunks == {"pool", "string", "complex", "absent", "other"}
Next == \/ \E c \in Components : OpenElement(c[1], c[2])
        \/ \E w \in BOOLEAN : CloseElement(w)
        \/ \E l \in Leaves : AddLeaf(l)
        \/ \E b \in Range(Bases) \cup {"unknown"} : AddLibName(b)
        \/ \E c \in TableChunks : AddTable(c)

Spec == Init /\ [][Next]_vars

----
(* Candidates in document order; one that looks like the main activity is  *)
(* preferred among the launchers, a launcher to any other.                 *)

FirstOf(cs, Test(_)) == LET i == SelectInSeq(cs, Test) IN IF i = 0 THEN NoClass ELSE cs[i].name
Pick(cs) ==
    LET main == FirstOf(cs, LAMBDA c : c.launcher /\ c.name \in MainLike)
        any == FirstOf(cs, LAMBDA c : c.launcher)
    IN IF main # NoClass THEN main ELSE IF any # NoClass THEN any ELSE FirstOf(cs, LAMBDA c : TRUE)

\* Mutant: the flags of an activity are not cleared for the next one.
BinaryStepKeeping(acc, c) ==
    CASE c.kind = "start" /\ c.tag = "activity" /\ c.name # NoClass ->
            [acc EXCEPT !.cur = c.name, !.all = Append(@, [name |-> c.name, launcher |-> FALSE])]
      [] c.kind = "start" /\ c.tag = "action" /\ acc.cur # NoClass -> [acc EXCEPT !.main = @ \/ c.name = "MAIN"]
      [] c.kind = "start" /\ c.tag = "category" /\ acc.cur # NoClass -> [acc EXCEPT !.cat = TRUE]
      [] c.kind = "end" /\ c.tag = "activity" /\ acc.cur # NoClass ->
            [acc EXCEPT !.cur = NoClass,
                        !.all = IF acc.main /\ acc.cat
                                THEN [@ EXCEPT ![Len(@)].launcher = TRUE] ELSE @]
      [] OTHER -> acc
\* infer_binary_manifest_launch_activity(): one pass with the current activity.
BinaryStep(acc, c) ==
    CASE c.kind = "start" /\ c.tag = "activity" /\ c.name # NoClass ->
            [acc EXCEPT !.cur = c.name, !.main = FALSE, !.cat = FALSE,
                        !.all = Append(@, [name |-> c.name, launcher |-> FALSE])]
      [] c.kind = "start" /\ c.tag = "action" /\ acc.cur # NoClass -> [acc EXCEPT !.main = @ \/ c.name = "MAIN"]
      [] c.kind = "start" /\ c.tag = "category" /\ acc.cur # NoClass -> [acc EXCEPT !.cat = TRUE]
      [] c.kind = "end" /\ c.tag = "activity" /\ acc.cur # NoClass ->
            [acc EXCEPT !.cur = NoClass,
                        !.all = IF acc.main /\ acc.cat
                                THEN [@ EXCEPT ![Len(@)].launcher = TRUE] ELSE @]
      [] OTHER -> acc
BinaryLaunch == Pick(FoldLeft(BinaryStep, [cur |-> NoClass, main |-> FALSE, cat |-> FALSE, all |-> <<>>], chunks).all)

Text == SelectSeq(chunks, LAMBDA c : c.written)
Has(s, tag, name) == \E i \in DOMAIN s : s[i].tag = tag /\ s[i].name = name
\* The index of the next "</tag>" after i, or i.
CloseAfter(s, i, tag) ==
    LET j == SelectInSubSeq(s, i, Len(s), LAMBDA c : c.kind = "end" /\ c.tag = tag)
    IN IF j = 0 THEN i ELSE j
\* infer_plain_manifest_launch_activity(): find "<activity", which an alias has
\* too, and the next "</activity>"; what lies between belongs to it.
PlainCandidates ==
    LET s == Text
        from[i \in 1..Len(s) + 1] ==
            IF i > Len(s) THEN <<>>
            ELSE IF ~(s[i].kind = "start" /\ s[i].tag \in {"activity", "activity-alias"}) THEN from[i + 1]
            ELSE LET e == CloseAfter(s, i, "activity")
                     block == SubSeq(s, i, e)
                     one == [name |-> s[i].name,
                             launcher |-> Has(block, "action", "MAIN") /\ Has(block, "category", "LAUNCHER")]
                 IN (IF s[i].name = NoClass THEN <<>> ELSE <<one>>) \o from[e + 1]
    IN from[1]
PlainLaunch == Pick(PlainCandidates)

\* infer_binary_manifest_widget_provider() and its plain counterpart.
WidgetStep(acc, c) ==
    CASE acc.found # NoClass -> acc
      [] c.kind = "start" /\ c.tag = "receiver" -> [acc EXCEPT !.cur = c.name]
      [] c.kind = "start" /\ c.tag = "action" /\ c.name = "UPDATE" -> [acc EXCEPT !.found = acc.cur]
      [] c.kind = "end" /\ c.tag = "receiver" -> [acc EXCEPT !.cur = NoClass]
      [] OTHER -> acc
BinaryWidget == FoldLeft(WidgetStep, [cur |-> NoClass, found |-> NoClass], chunks).found
PlainWidget ==
    LET s == Text
        from[i \in 1..Len(s) + 1] ==
            IF i > Len(s) THEN NoClass
            ELSE IF ~(s[i].kind = "start" /\ s[i].tag = "receiver") THEN from[i + 1]
            ELSE LET e == CloseAfter(s, i, "receiver")
                 IN IF s[i].name # NoClass /\ Has(SubSeq(s, i, e), "action", "UPDATE") THEN s[i].name
                    ELSE from[e + 1]
    IN from[1]

\* infer_plain_manifest_lib() and infer_binary_manifest_lib(): with the marker
\* anywhere, the first library whose name appears anywhere, else the only one.
\* (No other string of these documents is the name of a library.)
InferLib ==
    LET named(b) == \E i \in DOMAIN chunks : chunks[i].name = b
        i == SelectInSeq(Bases, named)
    IN IF ~\E k \in DOMAIN chunks : chunks[k].tag = "meta-data" THEN NoClass
       ELSE IF i # 0 THEN Bases[i] ELSE IF Len(Bases) = 1 THEN Bases[1] ELSE NoClass

\* resolve_resource_string(): the strings of the first pool; the first type
\* chunk of the package whose entry is a string that the pool holds.
ResolveStep(acc, c) ==
    CASE acc.found -> acc
      [] c = "pool" -> [acc EXCEPT !.pool = TRUE]
      [] c = "string" /\ acc.pool -> [acc EXCEPT !.found = TRUE]
      [] OTHER -> acc
Label == CASE label = "text" -> "text" [] label = "none" -> "none"
           [] OTHER -> IF FoldLeft(ResolveStep, [pool |-> FALSE, found |-> FALSE], table).found
                       THEN "resolved" ELSE "none"

----
(* What the manifest declares, read off its elements. *)

Activities == {i \in DOMAIN chunks : chunks[i].kind = "start" /\ chunks[i].tag = "activity" /\ chunks[i].name # NoClass}
BodyOf(i) == SubSeq(chunks, i, LET j == SelectInSubSeq(chunks, i, Len(chunks), LAMBDA c : c.kind = "end" /\ c.tag = "activity")
                               IN IF j = 0 THEN i ELSE j)
Launchers == {i \in Activities : Has(BodyOf(i), "action", "MAIN") /\ Has(BodyOf(i), "category", "LAUNCHER")}
Best == LET mains == {i \in Launchers : chunks[i].name \in MainLike}
            pool == IF mains # {} THEN mains ELSE IF Launchers # {} THEN Launchers ELSE Activities
        IN IF pool = {} THEN NoClass ELSE chunks[CHOOSE i \in pool : \A j \in pool : i <= j].name

\* The binary scanner launches the activity the manifest declares, whatever
\* aliases, receivers and nameless elements surround it; the text scanner agrees
\* with it, on the activity and on the widget, as long as every component has an
\* end tag of its own and there is no alias; a label of a string resource is
\* found whatever configurations precede it, once the pool came first; the
\* library that lib_name names is the one chosen.
ManifestUnderstood ==
    Opened = NoClass =>
        /\ BinaryLaunch = Best
        /\ (\A i \in DOMAIN chunks : chunks[i].written /\ chunks[i].tag # "activity-alias") =>
              PlainLaunch = BinaryLaunch /\ PlainWidget = BinaryWidget
        /\ (label = "reference" /\ table # <<>> /\ Head(table) = "pool" /\ "string" \in Range(table)) => Label = "resolved"
        /\ \A i \in DOMAIN chunks : chunks[i].tag = "meta-data" /\ chunks[i].name \in Range(Bases) => InferLib = chunks[i].name
=============================================================================
