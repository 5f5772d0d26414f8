------------------------------ MODULE RuntimeProofs ------------------------------
(***************************************************************************)
(* Proofs about the runtimes of guest programs: binder objects and         *)
(* transactions (GuestBinder, GuestParcel), Java arrays, classes and calls *)
(* (JniArrays, JniClasses), the stubs handed out by name (StubTable), the  *)
(* graphics bridge (EglBridge), assets (GuestAssets), the heap (GuestHeap),*)
(* and the parcels, events and frames of the ART shim (ShimParcel,         *)
(* ShimEvents, FrameChannel).  The binder objects come first;              *)
(* GuestSystemProofs proves the C++ runtime (GuestCxx) and puts all of     *)
(* them together.                                                          *)
(*                                                                         *)
(* The binder objects of the guest are counted as they are referred to,    *)
(* for any number of handles, names and recipients and however deep the    *)
(* onDestroy callbacks nest (GuestBinder).                                 *)
(*                                                                         *)
(* CountsExact is not inductive: it says nothing of a binder between the   *)
(* moment a reference to it is given up and the moment its count goes      *)
(* down, and every release is such a moment.  Sound is the invariant for   *)
(* any table, stack of releases and handles held, with one reference that  *)
(* is still owed to a binder.  DecStrong, SetExtension and the end of an   *)
(* onDestroy each reach a table that owes one reference (DecOwes,          *)
(* SetExtensionOwes, EraseOwes), and release_binder_strong() settles it    *)
(* (ReleaseSettles).  A binder counts the binders that have it as their    *)
(* extension, whether their own release is under way or not, so a release  *)
(* only moves a referrer from Extended to Pending.                         *)
(*                                                                         *)
(* A retire_service() on the stack of loops is of a dead binder, so there  *)
(* is one at most for every binder and no link is added to that binder     *)
(* (LoopsSound); what it still has to tell are links of the binder, unless *)
(* a callback has torn them.                                               *)
(***************************************************************************)
EXTENDS GuestBinder, SequenceTheorems, FiniteSetTheorems, FunctionTheorems, TLAPS

\* The bounds are numbers of handles.
Bounds == MaxBinders \in Nat

Binders == [Handles -> [there : BOOLEAN, remote : BOOLEAN, alive : BOOLEAN,
                        ref : Nat, ext : 0..MaxBinders, links : SUBSET Recipients]]
Releases == [h : Handles, ext : 0..MaxBinders]
Stacks == Seq(Releases)

Push(f, fr) == <<f>> \o fr

\* The binders whose release is on the stack, and those that refer to h.
Leaving(fr) == {fr[i].h : i \in DOMAIN fr}
Referrers(s, h) == {x \in Handles : s[x].there /\ s[x].ext = h}
Counting(s, fr, h) == s[h].there /\ ~s[h].remote /\ h \notin Leaving(fr)

Typed(s, fr, hd, des, owed) ==
    /\ s \in Binders /\ fr \in Stacks
    /\ hd \in [Handles -> Nat] /\ des \in [Handles -> Nat] /\ owed \in 0..MaxBinders

\* One release per binder, which knows the extension the binder still has.
StackSound(s, fr, des) ==
    /\ \A i, j \in DOMAIN fr : fr[i].h = fr[j].h => i = j
    /\ \A i \in DOMAIN fr : fr[i].ext = s[fr[i].h].ext
    /\ \A h \in Leaving(fr) : s[h].there /\ ~s[h].remote /\ des[h] = 1

\* What is referred to, or owed a release, is there and not on its way out.
ReferredIsThere(s, fr, hd, owed) ==
    \A h \in Handles : hd[h] > 0 \/ Referrers(s, h) # {} \/ h = owed
                         => s[h].there /\ h \notin Leaving(fr)

\* onDestroy is not called before a binder leaves, and never twice.
DestroyedOnce(s, fr, des) ==
    \A h \in Handles : /\ s[h].there /\ h \notin Leaving(fr) => des[h] = 0
                       /\ des[h] <= 1

Counted(s, fr, hd, owed) ==
    \A h \in Handles : Counting(s, fr, h) =>
        s[h].ref = hd[h] + Cardinality(Referrers(s, h)) + (IF h = owed THEN 1 ELSE 0)

Sound(s, fr, hd, des, owed) ==
    /\ Typed(s, fr, hd, des, owed)
    /\ StackSound(s, fr, des)
    /\ ReferredIsThere(s, fr, hd, owed)
    /\ DestroyedOnce(s, fr, des)
    /\ Counted(s, fr, hd, owed)

\* Handles are given out in order and never again.
InOrder == \E k \in 0..MaxBinders :
              \A h \in Handles : (svc[h].there \/ destroyed[h] > 0) <=> h <= k

\* Only a remote binder has death links.
LinksAreRemote == \A h \in Handles : svc[h].links # {} => svc[h].there /\ svc[h].remote

Settled == Sound(svc, frames, held, destroyed, 0)

\* The stack of loops over death links: where they are, which of them retire
\* a binder, and what those still have to tell.
Walks == [retires : BOOLEAN, h : Handles, cur : Recipients, left : SUBSET Recipients,
          rest : SUBSET Handles, under : Nat]
On(q) == {q[i].h : i \in DOMAIN q}
Retiring(q) == {q[i].h : i \in {j \in DOMAIN q : q[j].retires}}
Lefts(q, h) == {q[i].left : i \in {j \in DOMAIN q : q[j].retires /\ q[j].h = h}}
RetiredOnce(q) == \A i, j \in DOMAIN q :
                     q[i].retires /\ q[j].retires /\ q[i].h = q[j].h => i = j

LoopsSound(s, q, t) ==
    /\ \A h \in On(q) : s[h].there /\ s[h].remote
    /\ \A h \in Retiring(q) : ~s[h].alive
    /\ \A h \in Handles \ t : \A L \in Lefts(q, h) : L \subseteq s[h].links
    /\ RetiredOnce(q)

\* The onUnlinked calls to come are those of the links no loop has told.
EndsFit(s, q, t, e) ==
    \A h \in Handles \ t, r \in Recipients :
        e[h][r] = IF r \in s[h].links /\ \A L \in Lefts(q, h) : r \in L THEN 1 ELSE 0

Linked == LoopsSound(svc, loops, torn) /\ EndsFit(svc, loops, torn, ends)

Others == /\ byName \in [ServiceNames -> 0..MaxBinders]
          /\ removed \subseteq ServiceNames /\ weak \subseteq Handles
          /\ ends \in [Handles -> [Recipients -> Nat]]
          /\ loops \in Seq(Walks) /\ torn \subseteq Handles

Inv == Settled /\ Others /\ InOrder /\ LinksAreRemote /\ NamesResolve /\ Linked

----
(* Sets of binders and stacks of releases. *)

\* Sets of handles are finite, and count what they have.
LEMMA HandleSets ==
  ASSUME Bounds, NEW S \in SUBSET Handles
  PROVE  /\ IsFiniteSet(S) /\ Cardinality(S) \in Nat
         /\ Cardinality(S) = 0 <=> S = {}
         /\ \A x \in Handles \ S : Cardinality(S \cup {x}) = Cardinality(S) + 1
         /\ \A x \in S : Cardinality(S \ {x}) = Cardinality(S) - 1
<1>1. IsFiniteSet(Handles)  BY FS_Interval DEF Bounds, Handles
<1>2. IsFiniteSet(S)  BY <1>1, FS_Subset
<1>. QED  BY <1>2, FS_CardinalityType, FS_EmptySet, FS_AddElement, FS_RemoveElement

\* A set of handles with one more.
LEMMA OneMore ==
  ASSUME Bounds, NEW S \in SUBSET Handles, NEW x \in Handles, x \notin S, NEW T, T = S \cup {x}
  PROVE  Cardinality(T) = Cardinality(S) + 1
BY HandleSets

\* A set of handles with one less.
LEMMA OneLess ==
  ASSUME Bounds, NEW S \in SUBSET Handles, NEW x \in S, NEW T, T = S \ {x}
  PROVE  Cardinality(T) = Cardinality(S) - 1
BY HandleSets

\* The referrers of a binder are handles.
LEMMA ReferrersAreHandles == \A s, h : Referrers(s, h) \in SUBSET Handles
BY DEF Referrers

\* The places of a sequence are numbers, and hold its elements.
LEMMA ElementsOf ==
  ASSUME NEW S, NEW q \in Seq(S)
  PROVE  \A i \in DOMAIN q : q[i] \in S /\ i \in Int
OBVIOUS

\* A stack holds releases of handles.
LEMMA StackOfHandles ==
  ASSUME NEW fr \in Stacks
  PROVE  (\A i \in DOMAIN fr : fr[i].h \in Handles /\ i \in Int) /\ Leaving(fr) \subseteq Handles
<1>1. \A i \in DOMAIN fr : fr[i] \in Releases /\ i \in Int  BY ElementsOf DEF Stacks
<1>2. \A i \in DOMAIN fr : fr[i].h \in Handles  BY <1>1 DEF Releases
<1>. QED  BY <1>1, <1>2 DEF Leaving

\* A release put on the stack: its binder leaves, the others' places move by
\* one.
LEMMA Pushed ==
  ASSUME NEW fr \in Stacks, NEW f \in Releases,
         NEW fs, fs = Push(f, fr)
  PROVE  /\ fs[1] = f
         /\ fs \in Stacks /\ Leaving(fs) = Leaving(fr) \cup {f.h}
         /\ \A i \in DOMAIN fs : \/ i = 1 /\ fs[i] = f
                                 \/ i - 1 \in DOMAIN fr /\ fs[i] = fr[i - 1]
<1>1. /\ fs \in Stacks /\ DOMAIN fs = 1..(Len(fr) + 1) /\ DOMAIN fr = 1..Len(fr)
      /\ fs[1] = f /\ Len(fr) \in Nat
      /\ \A i \in 2..(Len(fr) + 1) : fs[i] = fr[i - 1]
  BY DEF Stacks, Push
<1>2. \A i \in DOMAIN fs : \/ i = 1 /\ fs[i] = f
                           \/ i - 1 \in DOMAIN fr /\ fs[i] = fr[i - 1]
  BY <1>1
<1>3. \A i \in DOMAIN fr : i + 1 \in DOMAIN fs /\ fs[i + 1] = fr[i]  BY <1>1
<1>4. Leaving(fs) \subseteq Leaving(fr) \cup {f.h}  BY <1>2 DEF Leaving
<1>5. Leaving(fr) \cup {f.h} \subseteq Leaving(fs)
 <2>1. 1 \in DOMAIN fs  BY <1>1
 <2>2. f.h \in Leaving(fs)  BY <1>1, <2>1 DEF Leaving
 <2>3. Leaving(fr) \subseteq Leaving(fs)  BY <1>3 DEF Leaving
 <2>. QED  BY <2>2, <2>3
<1>. QED  BY <1>1, <1>2, <1>4, <1>5

\* The release on top of the stack taken off.
LEMMA Popped ==
  ASSUME NEW fr \in Stacks, fr # <<>>,
         \A i, j \in DOMAIN fr : fr[i].h = fr[j].h => i = j
  PROVE  /\ Tail(fr) \in Stacks /\ Head(fr) = fr[1] /\ 1 \in DOMAIN fr
         /\ Leaving(Tail(fr)) = Leaving(fr) \ {Head(fr).h}
         /\ \A i \in DOMAIN Tail(fr) : i + 1 \in DOMAIN fr /\ Tail(fr)[i] = fr[i + 1]
<1>. DEFINE tl == Tail(fr)
<1>1. /\ tl \in Stacks /\ Head(fr) = fr[1] /\ Len(fr) \in Nat \ {0}
      /\ DOMAIN fr = 1..Len(fr) /\ DOMAIN tl = 1..(Len(fr) - 1)
      /\ \A i \in 1..(Len(fr) - 1) : tl[i] = fr[i + 1]
  BY DEF Stacks
<1>. HIDE DEF tl
<1>2. \A i \in DOMAIN tl : i + 1 \in DOMAIN fr /\ tl[i] = fr[i + 1] /\ i + 1 # 1  BY <1>1
<1>3. \A i \in DOMAIN fr : i # 1 => i - 1 \in DOMAIN tl /\ tl[i - 1] = fr[i]  BY <1>1
<1>4. 1 \in DOMAIN fr  BY <1>1
<1>5. Leaving(tl) \subseteq Leaving(fr) \ {fr[1].h}  BY <1>2, <1>4 DEF Leaving
<1>6. Leaving(fr) \ {fr[1].h} \subseteq Leaving(tl)  BY <1>3 DEF Leaving
<1>. QED  BY <1>1, <1>2, <1>4, <1>5, <1>6 DEF tl

----
(* Tables that owe a reference, and the release that settles it. *)

\* A table with other counts, life and links: what is there, where it comes
\* from and its extensions are the same.
SameShape(s, t) == \A h \in Handles : /\ t[h].there = s[h].there
                                      /\ t[h].remote = s[h].remote
                                      /\ t[h].ext = s[h].ext

\* The shape of a table decides who refers to whom.
LEMMA ShapeReferrers ==
  ASSUME NEW s, NEW t, SameShape(s, t)
  PROVE  \A h : Referrers(t, h) = Referrers(s, h)
BY DEF SameShape, Referrers

\* Counts and handles aside, a table of the same shape is as sound.
LEMMA SameShapeSound ==
  ASSUME NEW s, NEW t \in Binders, NEW fr, NEW hd, NEW des, NEW owed,
         Sound(s, fr, hd, des, owed), SameShape(s, t)
  PROVE  /\ StackSound(t, fr, des) /\ DestroyedOnce(t, fr, des)
         /\ ReferredIsThere(t, fr, hd, owed)
<1>1. (\A i \in DOMAIN fr : fr[i].h \in Handles) /\ Leaving(fr) \subseteq Handles
  BY StackOfHandles DEF Sound, Typed
<1>3. StackSound(t, fr, des)  BY <1>1 DEF Sound, StackSound, SameShape
<1>4. DestroyedOnce(t, fr, des)  BY DEF Sound, DestroyedOnce, SameShape
<1>5. ReferredIsThere(t, fr, hd, owed)  BY ShapeReferrers DEF Sound, ReferredIsThere, SameShape
<1>. QED  BY <1>3, <1>4, <1>5

\* release_binder_strong() of the binder that is owed it settles the table:
\* either the count goes down, or nobody refers to the binder any more, its
\* onDestroy is called for the first time and it starts to leave.
LEMMA ReleaseSettles ==
  ASSUME Bounds, NEW s, NEW below, NEW hd, NEW x,
         Sound(s, below, hd, destroyed, x), Release(x, s, below)
  PROVE  /\ Sound(svc', frames', hd, destroyed', 0)
         /\ \A h \in Handles : /\ svc'[h].there = s[h].there
                               /\ svc'[h].remote = s[h].remote
                               /\ svc'[h].links = s[h].links
                               /\ svc'[h].alive = s[h].alive
                               /\ destroyed'[h] = destroyed[h] \/ s[h].there
                               /\ destroyed'[h] >= destroyed[h]
<1>0. /\ s \in Binders /\ below \in Stacks /\ hd \in [Handles -> Nat]
      /\ destroyed \in [Handles -> Nat] /\ x \in 0..MaxBinders /\ 0 \in 0..MaxBinders
      /\ 0 \notin Handles /\ (x # 0 => x \in Handles)
  BY DEF Sound, Typed, Bounds, Handles
<1>1. CASE x = 0
 <2>1. svc' = s /\ frames' = below /\ destroyed' = destroyed  BY <1>1 DEF Release
 <2>. QED  BY <1>0, <1>1, <2>1
<1>2. CASE x # 0
 <2>0. x \in Handles /\ s[x].there /\ x \notin Leaving(below)
   BY <1>0, <1>2 DEF Sound, ReferredIsThere
 <2>00. s[x].ref \in Nat /\ hd[x] \in Nat /\ destroyed[x] = 0
   BY <1>0, <2>0 DEF Binders, Sound, DestroyedOnce
 <2>1. CASE s[x].remote \/ ~DropLast(x, s)
  <3>1. /\ svc' = [s EXCEPT ![x].ref = IF @ > 1 THEN @ - 1 ELSE @]
        /\ frames' = below /\ destroyed' = destroyed
    BY <1>2, <2>0, <2>1 DEF Release
  <3>2. svc' \in Binders  BY <1>0, <2>0, <2>00, <3>1 DEF Binders
  <3>3. /\ SameShape(s, svc')
        /\ \A h \in Handles : svc'[h].links = s[h].links /\ svc'[h].alive = s[h].alive
    BY <1>0, <3>1 DEF Binders, SameShape
  <3>4. Counted(svc', frames', hd, 0)
   <4>. SUFFICES ASSUME NEW h \in Handles, Counting(svc', frames', h)
                 PROVE  svc'[h].ref = hd[h] + Cardinality(Referrers(svc', h))
                                        + (IF h = 0 THEN 1 ELSE 0)
     BY DEF Counted
   <4>0. Counting(s, below, h) /\ h # 0  BY <1>0, <3>1, <3>3 DEF Counting, SameShape
   <4>1. Counting(s, below, h) /\ Referrers(svc', h) = Referrers(s, h) /\ h # 0
     BY <3>3, <4>0, ShapeReferrers
   <4>2. s[h].ref = hd[h] + Cardinality(Referrers(s, h)) + (IF h = x THEN 1 ELSE 0)
     BY <4>1 DEF Sound, Counted
   <4>3. Cardinality(Referrers(s, h)) \in Nat /\ hd[h] \in Nat
     BY <1>0, HandleSets, ReferrersAreHandles
   <4>4. CASE h = x
    <5>1. s[h].ref > 1  BY <2>1, <2>00, <4>1, <4>4 DEF DropLast, Counting
    <5>2. svc'[h].ref = s[h].ref - 1  BY <1>0, <3>1, <4>4, <5>1 DEF Binders
    <5>. QED  BY <4>1, <4>2, <4>3, <4>4, <5>2
   <4>5. CASE h # x  BY <1>0, <3>1, <4>1, <4>2, <4>3, <4>5 DEF Binders
   <4>. QED  BY <4>4, <4>5
  <3>5. /\ StackSound(svc', frames', destroyed') /\ DestroyedOnce(svc', frames', destroyed')
        /\ ReferredIsThere(svc', frames', hd, x)
    BY <3>1, <3>2, <3>3, SameShapeSound
  <3>6. ReferredIsThere(svc', frames', hd, 0)  BY <1>0, <3>5 DEF ReferredIsThere
  <3>7. Typed(svc', frames', hd, destroyed', 0)  BY <1>0, <3>1, <3>2 DEF Typed
  <3>. QED  BY <1>0, <3>1, <3>3, <3>4, <3>5, <3>6, <3>7 DEF Sound, SameShape
 <2>2. CASE ~s[x].remote /\ DropLast(x, s)
  <3>. DEFINE f == [h |-> x, ext |-> s[x].ext]
  <3>1. /\ svc' = s /\ frames' = <<f>> \o below
        /\ destroyed' = [destroyed EXCEPT ![x] = @ + 1]
    BY <1>2, <2>0, <2>2 DEF Release
  <3>2. f \in Releases /\ f.h = x /\ f.ext = s[x].ext  BY <1>0, <2>0 DEF Binders, Releases
  <3>. HIDE DEF f
  <3>29. PICK fs : fs = frames'  OBVIOUS
  <3>30. /\ fs[1] = f
         /\ fs \in Stacks /\ Leaving(fs) = Leaving(below) \cup {f.h}
         /\ \A i \in DOMAIN fs : \/ i = 1 /\ fs[i] = f
                                 \/ i - 1 \in DOMAIN below /\ fs[i] = below[i - 1]
   <4>1. below \in Stacks /\ f \in Releases /\ fs = Push(f, below)
     BY <1>0, <3>1, <3>2, <3>29 DEF Push
   <4>. QED  BY <4>1, Pushed
  <3>3. /\ frames'[1] = f
        /\ frames' \in Stacks /\ Leaving(frames') = Leaving(below) \cup {x}
        /\ \A i \in DOMAIN frames' : \/ i = 1 /\ frames'[i] = f
                                     \/ i - 1 \in DOMAIN below /\ frames'[i] = below[i - 1]
    BY <3>2, <3>29, <3>30
  <3>4. /\ destroyed' \in [Handles -> Nat] /\ destroyed'[x] = 1
        /\ \A h \in Handles : h # x => destroyed'[h] = destroyed[h]
    BY <1>0, <2>0, <2>00, <3>1
  <3>5. hd[x] = 0 /\ Referrers(s, x) = {}
   <4>1. s[x].ref <= 1  BY <2>2 DEF DropLast
   <4>2. s[x].ref = hd[x] + Cardinality(Referrers(s, x)) + 1
     BY <2>0, <2>2 DEF Sound, Counted, Counting
   <4>3. Cardinality(Referrers(s, x)) \in Nat  BY HandleSets, ReferrersAreHandles
   <4>4. hd[x] = 0 /\ Cardinality(Referrers(s, x)) = 0  BY <2>00, <4>1, <4>2, <4>3
   <4>. QED  BY <4>4, HandleSets, ReferrersAreHandles
  <3>6. StackSound(svc', frames', destroyed')
   <4>1. \A i \in DOMAIN below : below[i].h \in Leaving(below)  BY DEF Leaving
   <4>2. \A i, j \in DOMAIN frames' : frames'[i].h = frames'[j].h => i = j
    <5>. SUFFICES ASSUME NEW i \in DOMAIN frames', NEW j \in DOMAIN frames',
                         frames'[i].h = frames'[j].h
                  PROVE  i = j
      OBVIOUS
    <5>1. i \in Int /\ j \in Int  BY <3>3, StackOfHandles
    <5>2. CASE i = 1 \/ j = 1
     <6>1. \A k \in DOMAIN frames' : k = 1 => frames'[k].h = x  BY <3>2, <3>3
     <6>2. \A k \in DOMAIN frames' : k # 1 => frames'[k].h # x  BY <2>0, <3>3, <4>1
     <6>. QED  BY <5>2, <6>1, <6>2
    <5>3. CASE i # 1 /\ j # 1
     <6>1. below[i - 1].h = below[j - 1].h /\ i - 1 \in DOMAIN below /\ j - 1 \in DOMAIN below
       BY <3>3, <5>3
     <6>2. i - 1 = j - 1  BY <6>1 DEF Sound, StackSound
     <6>. QED  BY <5>1, <6>2
    <5>. QED  BY <5>2, <5>3
   <4>3. \A i \in DOMAIN frames' : frames'[i].ext = s[frames'[i].h].ext
     BY <3>2, <3>3 DEF Sound, StackSound
   <4>4. \A h \in Leaving(frames') : s[h].there /\ ~s[h].remote /\ destroyed'[h] = 1
    <5>. SUFFICES ASSUME NEW h \in Leaving(frames')
                  PROVE  s[h].there /\ ~s[h].remote /\ destroyed'[h] = 1
      OBVIOUS
    <5>1. CASE h = x  BY <2>0, <2>2, <3>4, <5>1
    <5>2. CASE h \in Leaving(below)
     <6>1. h \in Handles  BY <1>0, <5>2, StackOfHandles
     <6>. QED  BY <2>0, <3>4, <5>2, <6>1 DEF Sound, StackSound
    <5>. QED  BY <3>3, <5>1, <5>2
   <4>. QED  BY <3>1, <4>2, <4>3, <4>4 DEF StackSound
  <3>7. ReferredIsThere(svc', frames', hd, 0)
   <4>. SUFFICES ASSUME NEW h \in Handles, hd[h] > 0 \/ Referrers(s, h) # {}
                 PROVE  s[h].there /\ h \notin Leaving(frames')
     BY <1>0, <3>1 DEF ReferredIsThere
   <4>1. h # x  BY <3>5
   <4>2. s[h].there /\ h \notin Leaving(below)  BY DEF Sound, ReferredIsThere
   <4>. QED  BY <3>3, <4>1, <4>2
  <3>8. DestroyedOnce(svc', frames', destroyed')  BY <3>1, <3>3, <3>4 DEF Sound, DestroyedOnce
  <3>9. Counted(svc', frames', hd, 0)
   <4>. SUFFICES ASSUME NEW h \in Handles, Counting(s, frames', h)
                 PROVE  s[h].ref = hd[h] + Cardinality(Referrers(s, h))
                                     + (IF h = 0 THEN 1 ELSE 0)
     BY <3>1 DEF Counted
   <4>1. h # x /\ h # 0 /\ Counting(s, below, h)  BY <1>0, <3>3 DEF Counting
   <4>2. Cardinality(Referrers(s, h)) \in Nat /\ hd[h] \in Nat
     BY <1>0, HandleSets, ReferrersAreHandles
   <4>. QED  BY <4>1, <4>2 DEF Sound, Counted
  <3>10. Typed(svc', frames', hd, destroyed', 0)  BY <1>0, <3>1, <3>3, <3>4 DEF Typed
  <3>11. \A h \in Handles : /\ destroyed'[h] = destroyed[h] \/ s[h].there
                            /\ destroyed'[h] >= destroyed[h]
   <4>. SUFFICES ASSUME NEW h \in Handles
                 PROVE  /\ destroyed'[h] = destroyed[h] \/ s[h].there
                        /\ destroyed'[h] >= destroyed[h]
     OBVIOUS
   <4>1. CASE h = x  BY <2>0, <2>00, <3>4, <4>1
   <4>2. CASE h # x
    <5>1. destroyed'[h] = destroyed[h] /\ destroyed[h] \in Nat  BY <1>0, <3>4, <4>2
    <5>. QED  BY <5>1
   <4>. QED  BY <4>1, <4>2
  <3>. QED  BY <3>1, <3>6, <3>7, <3>8, <3>9, <3>10, <3>11 DEF Sound
 <2>. QED  BY <2>1, <2>2
<1>. QED  BY <1>1, <1>2

\* decStrong gives up a handle the guest has: the table owes that reference.
LEMMA DecOwes ==
  ASSUME Bounds, Settled, NEW x \in Handles, held[x] > 0
  PROVE  Sound(svc, frames, [held EXCEPT ![x] = @ - 1], destroyed, x)
<1>. DEFINE hd == [held EXCEPT ![x] = @ - 1]
<1>1. /\ svc \in Binders /\ frames \in Stacks /\ destroyed \in [Handles -> Nat]
      /\ held \in [Handles -> Nat] /\ x \in 0..MaxBinders /\ 0 \notin Handles
  BY DEF Settled, Sound, Typed, Bounds, Handles
<1>2. /\ hd \in [Handles -> Nat] /\ hd[x] = held[x] - 1
      /\ \A h \in Handles : h # x => hd[h] = held[h]
  BY <1>1
<1>. HIDE DEF hd
<1>3. ReferredIsThere(svc, frames, hd, x)  BY <1>1, <1>2 DEF Settled, Sound, ReferredIsThere
<1>4. Counted(svc, frames, hd, x)
 <2>. SUFFICES ASSUME NEW h \in Handles, Counting(svc, frames, h)
               PROVE  svc[h].ref = hd[h] + Cardinality(Referrers(svc, h))
                                     + (IF h = x THEN 1 ELSE 0)
   BY DEF Counted
 <2>1. Cardinality(Referrers(svc, h)) \in Nat /\ held[h] \in Nat
   BY <1>1, HandleSets, ReferrersAreHandles
 <2>2. svc[h].ref = held[h] + Cardinality(Referrers(svc, h))
   BY <1>1, <2>1 DEF Settled, Sound, Counted
 <2>. QED  BY <1>2, <2>1, <2>2
<1>5. Typed(svc, frames, hd, destroyed, x)  BY <1>1, <1>2 DEF Typed
<1>. QED  BY <1>3, <1>4, <1>5 DEF Settled, Sound, hd

\* A table with another extension for one binder.
LEMMA UpdateExt ==
  ASSUME NEW s \in Binders, NEW x \in Handles, NEW e \in 0..MaxBinders, NEW t,
         t = [s EXCEPT ![x].ext = e]
  PROVE  t \in Binders
BY DEF Binders

\* A table with a higher count for one binder.
LEMMA UpdateRef ==
  ASSUME NEW s \in Binders, NEW x \in Handles, NEW t, t = [s EXCEPT ![x].ref = @ + 1]
  PROVE  t \in Binders
BY DEF Binders

\* setExtension counts the new extension and owes the old one.
LEMMA SetExtensionOwes ==
  ASSUME Bounds, Settled, NEW x \in Handles, NEW e \in Handles, NEW s,
         s = [svc EXCEPT ![e].ref = @ + 1, ![x].ext = e],
         svc[x].there, x \notin Leaving(frames), svc[e].there, e \notin Leaving(frames),
         svc[x].ext # e
  PROVE  Sound(s, frames, held, destroyed, svc[x].ext)
<1>. DEFINE o == svc[x].ext
<1>1. /\ svc \in Binders /\ frames \in Stacks /\ destroyed \in [Handles -> Nat]
      /\ held \in [Handles -> Nat] /\ 0 \notin Handles /\ e \in 0..MaxBinders
      /\ (\A i \in DOMAIN frames : frames[i].h \in Handles) /\ Leaving(frames) \subseteq Handles
  BY StackOfHandles DEF Settled, Sound, Typed, Bounds, Handles
<1>2. /\ o \in 0..MaxBinders /\ o # e
      /\ \A h \in Handles : svc[h].ref \in Nat /\ svc[h].ext \in 0..MaxBinders
  BY <1>1 DEF Binders
<1>3. /\ s \in Binders
      /\ \A h \in Handles : /\ s[h].there = svc[h].there /\ s[h].remote = svc[h].remote
                            /\ s[h].ext = IF h = x THEN e ELSE svc[h].ext
                            /\ s[h].ref = IF h = e THEN svc[h].ref + 1 ELSE svc[h].ref
 <2>1. s \in Binders
  <3>. DEFINE r == [svc EXCEPT ![e].ref = @ + 1]
  <3>1. r \in Binders  BY <1>1, UpdateRef
  <3>2. s = [r EXCEPT ![x].ext = e]  OBVIOUS
  <3>. HIDE DEF r
  <3>3. e \in 0..MaxBinders  BY <1>1
  <3>. QED  BY <3>1, <3>2, <3>3, UpdateExt
 <2>2. \A h \in Handles : /\ s[h].there = svc[h].there /\ s[h].remote = svc[h].remote
   BY <1>1 DEF Binders
 <2>3. \A h \in Handles : s[h].ext = IF h = x THEN e ELSE svc[h].ext  BY <1>1 DEF Binders
 <2>4. \A h \in Handles : s[h].ref = IF h = e THEN svc[h].ref + 1 ELSE svc[h].ref
   BY <1>1 DEF Binders
 <2>. QED  BY <2>1, <2>2, <2>3, <2>4
<1>4. /\ Referrers(s, e) = Referrers(svc, e) \cup {x} /\ x \notin Referrers(svc, e)
      /\ Referrers(s, o) = Referrers(svc, o) \ {x} /\ x \in Referrers(svc, o)
      /\ \A h \in Handles \ {e, o} : Referrers(s, h) = Referrers(svc, h)
 <2>0. svc[x].there /\ svc[x].ext = o  OBVIOUS
 <2>. HIDE DEF o
 <2>00. /\ s[x].there /\ s[x].ext = e
        /\ \A y \in Handles \ {x} : s[y].there = svc[y].there /\ s[y].ext = svc[y].ext
   BY <1>3
 <2>1. Referrers(s, e) = Referrers(svc, e) \cup {x}
  <3>1. \A y \in Handles : y \in Referrers(s, e) <=> y \in Referrers(svc, e) \/ y = x
    BY <2>00 DEF Referrers
  <3>. QED  BY <3>1, ReferrersAreHandles
 <2>2. x \notin Referrers(svc, e) /\ x \in Referrers(svc, o)  BY <1>2, <2>0 DEF Referrers
 <2>3. Referrers(s, o) = Referrers(svc, o) \ {x}
  <3>1. \A y \in Handles : y \in Referrers(s, o) <=> y \in Referrers(svc, o) /\ y # x
    BY <1>2, <2>00 DEF Referrers
  <3>. QED  BY <3>1, ReferrersAreHandles
 <2>4. \A h \in Handles \ {e, o} : Referrers(s, h) = Referrers(svc, h)
  <3>. SUFFICES ASSUME NEW h \in Handles \ {e, o}
                PROVE  Referrers(s, h) = Referrers(svc, h)
    OBVIOUS
  <3>1. \A y \in Handles : y \in Referrers(s, h) <=> y \in Referrers(svc, h)
    BY <2>0, <2>00 DEF Referrers
  <3>. QED  BY <3>1, ReferrersAreHandles
 <2>. QED  BY <2>1, <2>2, <2>3, <2>4
<1>. HIDE DEF o
<1>5. StackSound(s, frames, destroyed)
 <2>1. \A i \in DOMAIN frames : frames[i].h # x  BY DEF Leaving
 <2>2. \A i \in DOMAIN frames : s[frames[i].h].ext = svc[frames[i].h].ext  BY <1>1, <1>3, <2>1
 <2>3. \A h \in Leaving(frames) : s[h].there = svc[h].there /\ s[h].remote = svc[h].remote
   BY <1>1, <1>3
 <2>. QED  BY <2>2, <2>3 DEF Settled, Sound, StackSound
<1>6. ReferredIsThere(s, frames, held, o)
 <2>. SUFFICES ASSUME NEW h \in Handles, held[h] > 0 \/ Referrers(s, h) # {} \/ h = o
               PROVE  svc[h].there /\ h \notin Leaving(frames)
   BY <1>3 DEF ReferredIsThere
 <2>1. CASE h = e  BY <2>1
 <2>2. CASE h = o  BY <1>4, <2>2 DEF Settled, Sound, ReferredIsThere
 <2>3. CASE h # e /\ h # o  BY <1>4, <2>3 DEF Settled, Sound, ReferredIsThere
 <2>. QED  BY <2>1, <2>2, <2>3
<1>7. DestroyedOnce(s, frames, destroyed)  BY <1>3 DEF Settled, Sound, DestroyedOnce
<1>8. Counted(s, frames, held, o)
 <2>. SUFFICES ASSUME NEW h \in Handles, Counting(s, frames, h)
               PROVE  s[h].ref = held[h] + Cardinality(Referrers(s, h))
                                   + (IF h = o THEN 1 ELSE 0)
   BY DEF Counted
 <2>1. Cardinality(Referrers(svc, h)) \in Nat /\ held[h] \in Nat
   BY <1>1, HandleSets, ReferrersAreHandles
 <2>2. svc[h].ref = held[h] + Cardinality(Referrers(svc, h))
  <3>1. Counting(svc, frames, h) /\ h # 0  BY <1>1, <1>3 DEF Counting
  <3>. QED  BY <2>1, <3>1 DEF Settled, Sound, Counted
 <2>3. CASE h = e
  <3>1. Cardinality(Referrers(s, h)) = Cardinality(Referrers(svc, h)) + 1
   <4>1. /\ Referrers(svc, h) \in SUBSET Handles /\ x \notin Referrers(svc, h)
         /\ Referrers(s, h) = Referrers(svc, h) \cup {x}
     BY <1>4, <2>3, ReferrersAreHandles
   <4>. QED  BY <4>1, OneMore
  <3>2. s[h].ref = svc[h].ref + 1 /\ h # o  BY <1>2, <1>3, <2>3
  <3>. QED  BY <2>1, <2>2, <3>1, <3>2
 <2>4. CASE h = o
  <3>1. Cardinality(Referrers(s, h)) = Cardinality(Referrers(svc, h)) - 1
   <4>1. /\ Referrers(svc, h) \in SUBSET Handles /\ x \in Referrers(svc, h)
         /\ Referrers(s, h) = Referrers(svc, h) \ {x}
     BY <1>4, <2>4, ReferrersAreHandles
   <4>. QED  BY <4>1, OneLess
  <3>2. s[h].ref = svc[h].ref  BY <1>2, <1>3, <2>4
  <3>. QED  BY <2>1, <2>2, <2>4, <3>1, <3>2
 <2>5. CASE h # e /\ h # o
  <3>1. Referrers(s, h) = Referrers(svc, h) /\ s[h].ref = svc[h].ref  BY <1>3, <1>4, <2>5
  <3>. QED  BY <2>1, <2>2, <2>5, <3>1
 <2>. QED  BY <2>3, <2>4, <2>5
<1>9. Typed(s, frames, held, destroyed, o)  BY <1>1, <1>2, <1>3 DEF Typed
<1>. QED  BY <1>5, <1>6, <1>7, <1>8, <1>9 DEF Sound, o

\* When onDestroy is back the binder is erased, and its extension owed.
LEMMA EraseOwes ==
  ASSUME Bounds, Settled, frames # <<>>, NEW s, NEW x, NEW o,
         x = Head(frames).h, o = Head(frames).ext, s = [svc EXCEPT ![x] = Absent]
  PROVE  /\ Sound(s, Tail(frames), held, destroyed, o)
         /\ x \in Handles /\ svc[x].there /\ ~svc[x].remote /\ destroyed[x] = 1 /\ held[x] = 0
<1>. DEFINE tl == Tail(frames)
<1>1. /\ svc \in Binders /\ frames \in Stacks /\ destroyed \in [Handles -> Nat]
      /\ held \in [Handles -> Nat] /\ 0 \notin Handles
      /\ (\A i \in DOMAIN frames : frames[i].h \in Handles /\ i \in Int)
      /\ Leaving(frames) \subseteq Handles
  BY StackOfHandles DEF Settled, Sound, Typed, Bounds, Handles
<1>2. /\ tl \in Stacks /\ Head(frames) = frames[1] /\ 1 \in DOMAIN frames
      /\ Leaving(tl) = Leaving(frames) \ {x}
      /\ \A i \in DOMAIN tl : i + 1 \in DOMAIN frames /\ tl[i] = frames[i + 1]
  BY <1>1, Popped DEF Settled, Sound, StackSound
<1>. HIDE DEF tl
<1>3. x \in Leaving(frames) /\ x \in Handles  BY <1>1, <1>2 DEF Leaving
<1>4. svc[x].there /\ ~svc[x].remote /\ destroyed[x] = 1 /\ svc[x].ext = o
  BY <1>2, <1>3 DEF Settled, Sound, StackSound
<1>5. held[x] = 0 /\ Referrers(svc, x) = {} /\ o \in 0..MaxBinders
 <2>1. ~(held[x] > 0) /\ Referrers(svc, x) = {}  BY <1>3 DEF Settled, Sound, ReferredIsThere
 <2>2. held[x] \in Nat /\ svc[x].ext \in 0..MaxBinders  BY <1>1, <1>3 DEF Binders
 <2>. QED  BY <1>4, <2>1, <2>2
<1>6. /\ s \in Binders /\ ~s[x].there /\ \A h \in Handles : h # x => s[h] = svc[h]
 <2>1. Absent \in [there : BOOLEAN, remote : BOOLEAN, alive : BOOLEAN,
                   ref : Nat, ext : 0..MaxBinders, links : SUBSET Recipients]
   BY DEF Absent, Bounds
 <2>2. ~Absent.there  BY DEF Absent
 <2>. QED  BY <1>1, <1>3, <2>1, <2>2 DEF Binders
<1>7. \A h \in Handles : Referrers(s, h) = Referrers(svc, h) \ {x}  BY <1>3, <1>6 DEF Referrers
<1>8. /\ x # o
      /\ x \in Referrers(svc, o) /\ \A h \in Handles \ {o} : x \notin Referrers(svc, h)
  BY <1>3, <1>4, <1>5 DEF Referrers
<1>9. StackSound(s, tl, destroyed)
 <2>1. \A i, j \in DOMAIN tl : tl[i].h = tl[j].h => i = j
  <3>. SUFFICES ASSUME NEW i \in DOMAIN tl, NEW j \in DOMAIN tl, tl[i].h = tl[j].h
                PROVE  i = j
    OBVIOUS
  <3>1. i + 1 = j + 1  BY <1>2 DEF Settled, Sound, StackSound
  <3>2. i \in Int /\ j \in Int  BY <1>2, StackOfHandles
  <3>. QED  BY <3>1, <3>2
 <2>2. \A i \in DOMAIN tl : tl[i].h \in Leaving(tl)  BY DEF Leaving
 <2>3. \A i \in DOMAIN tl : tl[i].ext = s[tl[i].h].ext
   BY <1>1, <1>2, <1>6, <2>2 DEF Settled, Sound, StackSound
 <2>4. \A h \in Leaving(tl) : s[h].there /\ ~s[h].remote /\ destroyed[h] = 1
   BY <1>1, <1>2, <1>6 DEF Settled, Sound, StackSound
 <2>. QED  BY <2>1, <2>3, <2>4 DEF StackSound
<1>10. ReferredIsThere(s, tl, held, o)
 <2>. SUFFICES ASSUME NEW h \in Handles, held[h] > 0 \/ Referrers(s, h) # {} \/ h = o
               PROVE  s[h].there /\ h \notin Leaving(tl)
   BY DEF ReferredIsThere
 <2>1. h # x
  <3>1. Referrers(s, x) = {}  BY <1>3, <1>5, <1>7
  <3>2. ~(held[x] > 0) /\ x # o  BY <1>5, <1>8
  <3>. QED  BY <3>1, <3>2
 <2>2. held[h] > 0 \/ Referrers(svc, h) # {}  BY <1>7, <1>8
 <2>. QED  BY <1>2, <1>6, <2>1, <2>2 DEF Settled, Sound, ReferredIsThere
<1>11. DestroyedOnce(s, tl, destroyed)  BY <1>2, <1>6 DEF Settled, Sound, DestroyedOnce
<1>12. Counted(s, tl, held, o)
 <2>. SUFFICES ASSUME NEW h \in Handles, Counting(s, tl, h)
               PROVE  s[h].ref = held[h] + Cardinality(Referrers(s, h))
                                   + (IF h = o THEN 1 ELSE 0)
   BY DEF Counted
 <2>1. Cardinality(Referrers(svc, h)) \in Nat /\ held[h] \in Nat
   BY <1>1, HandleSets, ReferrersAreHandles
 <2>2. h # x /\ h # 0 /\ Counting(svc, frames, h) /\ s[h].ref = svc[h].ref
   BY <1>1, <1>2, <1>6 DEF Counting
 <2>3. svc[h].ref = held[h] + Cardinality(Referrers(svc, h))
   BY <2>1, <2>2 DEF Settled, Sound, Counted
 <2>4. CASE h = o
  <3>1. Cardinality(Referrers(s, h)) = Cardinality(Referrers(svc, h)) - 1
   <4>1. Referrers(svc, h) \in SUBSET Handles /\ x \in Referrers(svc, h)
     BY <1>8, <2>4, ReferrersAreHandles
   <4>. QED  BY <1>7, <4>1, OneLess
  <3>. QED  BY <2>1, <2>2, <2>3, <2>4, <3>1
 <2>5. CASE h # o
  <3>1. Referrers(s, h) = Referrers(svc, h)
   <4>1. x \notin Referrers(svc, h) /\ Referrers(s, h) = Referrers(svc, h) \ {x}
     BY <1>7, <1>8, <2>5
   <4>. QED  BY <4>1
  <3>. QED  BY <2>1, <2>2, <2>3, <2>5, <3>1
 <2>. QED  BY <2>4, <2>5
<1>13. Typed(s, tl, held, destroyed, o)  BY <1>1, <1>2, <1>5, <1>6 DEF Typed
<1>. QED  BY <1>3, <1>4, <1>5, <1>9, <1>10, <1>11, <1>12, <1>13 DEF Sound, tl

----
(* The calls of the guest. *)

\* The binders on their way out, by the name the model has for them.
LEMMA DyingLeaving == Dying = Leaving(frames)
BY DEF Dying, Leaving

----
(* The stack of loops. *)

\* What the stack fs is when the loop f is put on the stack q.
PushedAs(fs, f, q) ==
  /\ fs \in Seq(Walks) /\ On(fs) = On(q) \cup {f.h}
  /\ Retiring(fs) = IF f.retires THEN Retiring(q) \cup {f.h} ELSE Retiring(q)
  /\ \A h : Lefts(fs, h) = IF f.retires /\ f.h = h THEN Lefts(q, h) \cup {f.left}
                           ELSE Lefts(q, h)
  /\ RetiredOnce(fs) <=> RetiredOnce(q) /\ (f.retires => f.h \notin Retiring(q))

\* A loop put on the stack.
LEMMA PushedLoop ==
  ASSUME NEW q \in Seq(Walks), NEW f \in Walks, NEW fs, fs = Push(f, q)
  PROVE  PushedAs(fs, f, q)
<1>1. /\ fs \in Seq(Walks) /\ DOMAIN fs = 1..(Len(q) + 1) /\ DOMAIN q = 1..Len(q)
      /\ fs[1] = f /\ Len(q) \in Nat
      /\ \A i \in 2..(Len(q) + 1) : fs[i] = q[i - 1]
  BY DEF Push
<1>2. \A i \in DOMAIN fs : \/ i = 1 /\ fs[i] = f
                           \/ i - 1 \in DOMAIN q /\ fs[i] = q[i - 1] /\ i # 1
  BY <1>1
<1>3. \A i \in DOMAIN q : i + 1 \in DOMAIN fs /\ fs[i + 1] = q[i] /\ i + 1 # 1  BY <1>1
<1>4. 1 \in DOMAIN fs /\ fs[1] = f  BY <1>1
<1>5. On(fs) = On(q) \cup {f.h}
 <2>1. On(fs) \subseteq On(q) \cup {f.h}  BY <1>2 DEF On
 <2>2. On(q) \subseteq On(fs)  BY <1>3 DEF On
 <2>3. f.h \in On(fs)  BY <1>4 DEF On
 <2>. QED  BY <2>1, <2>2, <2>3
<1>6. Retiring(fs) = IF f.retires THEN Retiring(q) \cup {f.h} ELSE Retiring(q)
 <2>1. \A h \in Retiring(fs) : h \in Retiring(q) \/ (f.retires /\ h = f.h)  BY <1>2 DEF Retiring
 <2>2. Retiring(q) \subseteq Retiring(fs)  BY <1>3 DEF Retiring
 <2>3. f.retires => f.h \in Retiring(fs)  BY <1>4 DEF Retiring
 <2>. QED  BY <2>1, <2>2, <2>3
<1>7. ASSUME NEW h
      PROVE  Lefts(fs, h) = IF f.retires /\ f.h = h THEN Lefts(q, h) \cup {f.left}
                            ELSE Lefts(q, h)
 <2>1. \A L \in Lefts(fs, h) : L \in Lefts(q, h) \/ (f.retires /\ f.h = h /\ L = f.left)
   BY <1>2 DEF Lefts
 <2>2. Lefts(q, h) \subseteq Lefts(fs, h)  BY <1>3 DEF Lefts
 <2>3. f.retires /\ f.h = h => f.left \in Lefts(fs, h)  BY <1>4 DEF Lefts
 <2>. QED  BY <2>1, <2>2, <2>3
<1>8. RetiredOnce(fs) => RetiredOnce(q) /\ (f.retires => f.h \notin Retiring(q))
 <2>. SUFFICES ASSUME RetiredOnce(fs)
               PROVE  RetiredOnce(q) /\ (f.retires => f.h \notin Retiring(q))
   OBVIOUS
 <2>1. RetiredOnce(q)
  <3>. SUFFICES ASSUME NEW i \in DOMAIN q, NEW j \in DOMAIN q,
                       q[i].retires, q[j].retires, q[i].h = q[j].h
                PROVE  i = j
    BY DEF RetiredOnce
  <3>1. i + 1 = j + 1  BY <1>3 DEF RetiredOnce
  <3>2. i \in Int /\ j \in Int  BY <1>1
  <3>. QED  BY <3>1, <3>2
 <2>2. ASSUME f.retires, f.h \in Retiring(q) PROVE FALSE
  <3>1. PICK j \in DOMAIN q : q[j].retires /\ q[j].h = f.h  BY <2>2 DEF Retiring
  <3>2. /\ j + 1 \in DOMAIN fs /\ fs[j + 1].retires /\ fs[j + 1].h = fs[1].h
        /\ j + 1 # 1 /\ fs[1].retires
    BY <1>3, <1>4, <2>2, <3>1
  <3>. QED  BY <1>4, <3>2 DEF RetiredOnce
 <2>. QED  BY <2>1, <2>2
<1>9. RetiredOnce(q) /\ (f.retires => f.h \notin Retiring(q)) => RetiredOnce(fs)
 <2>. SUFFICES ASSUME RetiredOnce(q), f.retires => f.h \notin Retiring(q),
                      NEW i \in DOMAIN fs, NEW j \in DOMAIN fs,
                      fs[i].retires, fs[j].retires, fs[i].h = fs[j].h
               PROVE  i = j
   BY DEF RetiredOnce
 <2>0. i \in Int /\ j \in Int  BY <1>1
 <2>1. \A k \in DOMAIN q : q[k].retires => q[k].h \in Retiring(q)  BY DEF Retiring
 <2>2. CASE i = 1 \/ j = 1  BY <1>2, <2>1, <2>2
 <2>3. CASE i # 1 /\ j # 1
  <3>1. i - 1 = j - 1  BY <1>2, <2>3 DEF RetiredOnce
  <3>. QED  BY <2>0, <3>1
 <2>. QED  BY <2>2, <2>3
<1>. QED  BY <1>1, <1>5, <1>6, <1>7, <1>8, <1>9 DEF PushedAs

\* A stack that is not empty is its first loop on the others.
LEMMA SplitLoops ==
  ASSUME NEW q \in Seq(Walks), q # <<>>
  PROVE  /\ Head(q) \in Walks /\ Tail(q) \in Seq(Walks)
         /\ q = Push(Head(q), Tail(q))
BY DEF Push

\* What is not retired has nothing left to tell.
LEMMA NotRetiring == \A q, h : h \notin Retiring(q) => Lefts(q, h) = {}
BY DEF Retiring, Lefts

\* Only binders of the stack are retired, and only handles.
LEMMA RetiringIsOn == \A q : Retiring(q) \subseteq On(q)
BY DEF Retiring, On

\* The loops of a stack are at handles.
LEMMA OnHandles ==
  ASSUME NEW q \in Seq(Walks)
  PROVE  On(q) \subseteq Handles
<1>1. \A i \in DOMAIN q : q[i] \in Walks  BY ElementsOf
<1>. QED  BY <1>1 DEF On, Walks

\* Loops at the same binders that retire alike.
LEMMA SameRetiring ==
  ASSUME NEW p, NEW q, DOMAIN p = DOMAIN q,
         \A i \in DOMAIN q : p[i].h = q[i].h /\ p[i].retires = q[i].retires
  PROVE  Retiring(p) = Retiring(q)
<1>1. \A h : h \in Retiring(p) => h \in Retiring(q)  BY DEF Retiring
<1>2. \A h : h \in Retiring(q) => h \in Retiring(p)  BY DEF Retiring
<1>. QED  BY <1>1, <1>2

LEMMA SameLefts ==
  ASSUME NEW p, NEW q, NEW h, DOMAIN p = DOMAIN q,
         \A i \in DOMAIN q : /\ p[i].h = q[i].h /\ p[i].retires = q[i].retires
                              /\ p[i].left = q[i].left
  PROVE  Lefts(p, h) = Lefts(q, h)
<1>1. \A L : L \in Lefts(p, h) => L \in Lefts(q, h)  BY DEF Lefts
<1>2. \A L : L \in Lefts(q, h) => L \in Lefts(p, h)  BY DEF Lefts
<1>. QED  BY <1>1, <1>2

\* Loops that change in what they have still to visit tell the same.
LEMMA RehashedLoops ==
  ASSUME NEW q \in Seq(Walks), NEW p, p = [i \in DOMAIN q |-> [q[i] EXCEPT !.rest = {}]]
  PROVE  /\ p \in Seq(Walks) /\ On(p) = On(q) /\ Retiring(p) = Retiring(q)
         /\ \A h : Lefts(p, h) = Lefts(q, h)
         /\ RetiredOnce(q) => RetiredOnce(p)
<1>1. DOMAIN q = 1..Len(q) /\ Len(q) \in Nat /\ \A i \in DOMAIN q : q[i] \in Walks  BY ElementsOf
<1>2. \A w \in Walks : LET v == [w EXCEPT !.rest = {}]
                       IN  v \in Walks /\ v.h = w.h /\ v.retires = w.retires /\ v.left = w.left
  BY DEF Walks
<1>3. DOMAIN p = DOMAIN q
      /\ \A i \in DOMAIN q : /\ p[i] \in Walks /\ p[i].h = q[i].h
                             /\ p[i].retires = q[i].retires /\ p[i].left = q[i].left
  BY <1>1, <1>2
<1>4. p \in Seq(Walks)  BY <1>1, <1>3
<1>5. On(p) = On(q)  BY <1>3 DEF On
<1>6. Retiring(p) = Retiring(q)  BY <1>3, SameRetiring
<1>7. ASSUME NEW h PROVE Lefts(p, h) = Lefts(q, h)  BY <1>3, SameLefts
<1>8. RetiredOnce(q) => RetiredOnce(p)  BY <1>3 DEF RetiredOnce
<1>. QED  BY <1>4, <1>5, <1>6, <1>7, <1>8

\* The binders torn are those there were and perhaps the one whose links
\* change, which no loop walks over unless it is torn.
LEMMA TornIs ==
  ASSUME NEW h, NEW q
  PROVE  TornBy(h, q) = IF h \in On(q) THEN torn \cup {h} ELSE torn
<1>1. (\E i \in DOMAIN q : q[i].h = h) <=> h \in On(q)  BY DEF On
<1>2. TornBy(h, q) = torn \cup {x \in {h} : h \in On(q)}  BY <1>1 DEF TornBy
<1>. QED  BY <1>2

\* The calls to come after a change for one binder.
LEMMA OwedFacts ==
  ASSUME NEW x \in Handles, NEW row, NEW t, Owed(x, row, t), Inv,
         x \notin t => row \in [Recipients -> Nat]
  PROVE  /\ ends' \in [Handles -> [Recipients -> Nat]]
         /\ x \notin t => ends'[x] = row
         /\ \A h \in Handles \ {x} : ends'[h] = ends[h]
<1>1. ends \in [Handles -> [Recipients -> Nat]]  BY DEF Inv, Others
<1>2. [r \in Recipients |-> 0] \in [Recipients -> Nat]  OBVIOUS
<1>3. PICK new : new = IF x \in t THEN [r \in Recipients |-> 0] ELSE row  OBVIOUS
<1>4. new \in [Recipients -> Nat] /\ (x \notin t => new = row)  BY <1>2, <1>3
<1>5. ends' = [ends EXCEPT ![x] = new]  BY <1>3 DEF Owed
<1>. QED  BY <1>1, <1>4, <1>5

\* Names, links and the order of handles stay as they are while binders stay
\* where they are.
LEMMA RestKept ==
  ASSUME Bounds, Inv, UNCHANGED <<byName, removed, weak, ends, walks>>,
         \A h \in Handles : /\ svc'[h].there = svc[h].there
                            /\ svc'[h].remote = svc[h].remote
                            /\ svc'[h].links = svc[h].links
                            /\ svc'[h].alive => svc[h].alive
                            /\ destroyed'[h] > 0 \/ svc[h].there
                                 <=> destroyed[h] > 0 \/ svc[h].there
  PROVE  Others' /\ InOrder' /\ LinksAreRemote' /\ NamesResolve' /\ Linked'
<1>0. loops' = loops /\ torn' = torn  BY DEF walks
<1>1. Others'  BY <1>0 DEF Inv, Others
<1>2. InOrder'  BY DEF Inv, InOrder
<1>3. LinksAreRemote'  BY DEF Inv, LinksAreRemote
<1>4. NamesResolve'
 <2>1. \A n \in ServiceNames : byName[n] # 0 => byName[n] \in Handles
   BY DEF Inv, Others, Bounds, Handles
 <2>. QED  BY <2>1 DEF Inv, NamesResolve
<1>5. On(loops) \subseteq Handles /\ Retiring(loops) \subseteq Handles
  BY OnHandles, RetiringIsOn DEF Inv, Others
<1>6. Linked'  BY <1>0, <1>5 DEF Inv, Linked, LoopsSound, EndsFit
<1>. QED  BY <1>1, <1>2, <1>3, <1>4, <1>6

\* One more reference for the guest, on a binder that is there and stays.
LEMMA GrabInv ==
  ASSUME Bounds, Inv, NEW x \in Handles, svc[x].there, x \notin Leaving(frames), Grab(x)
  PROVE  Inv'
<1>1. /\ svc' = [svc EXCEPT ![x].ref = @ + 1] /\ held' = [held EXCEPT ![x] = @ + 1]
      /\ frames' = frames /\ destroyed' = destroyed
      /\ UNCHANGED <<byName, removed, weak, ends, walks>>
  BY DEF Grab
<1>2. /\ svc \in Binders /\ frames \in Stacks /\ destroyed \in [Handles -> Nat]
      /\ held \in [Handles -> Nat] /\ 0 \notin Handles /\ 0 \in 0..MaxBinders
  BY DEF Inv, Settled, Sound, Typed, Bounds, Handles
<1>3. /\ svc' \in Binders /\ SameShape(svc, svc')
      /\ \A h \in Handles : /\ svc'[h].links = svc[h].links
                            /\ svc'[h].ref = IF h = x THEN svc[h].ref + 1 ELSE svc[h].ref
 <2>1. svc' \in Binders  BY <1>1, <1>2, UpdateRef
 <2>2. SameShape(svc, svc') /\ \A h \in Handles : svc'[h].links = svc[h].links
   BY <1>1, <1>2 DEF Binders, SameShape
 <2>3. \A h \in Handles : svc'[h].ref = IF h = x THEN svc[h].ref + 1 ELSE svc[h].ref
   BY <1>1, <1>2 DEF Binders
 <2>. QED  BY <2>1, <2>2, <2>3
<1>4. /\ held' \in [Handles -> Nat]
      /\ \A h \in Handles : held'[h] = IF h = x THEN held[h] + 1 ELSE held[h]
  BY <1>1, <1>2
<1>5. Settled'
 <2>0. Sound(svc, frames, held, destroyed, 0)  BY DEF Inv, Settled
 <2>1. /\ StackSound(svc', frames, destroyed) /\ DestroyedOnce(svc', frames, destroyed)
       /\ ReferredIsThere(svc', frames, held, 0)
   BY <1>3, <2>0, SameShapeSound
 <2>2. ReferredIsThere(svc', frames, held', 0)
  <3>1. \A h \in Handles : held'[h] > 0 => held[h] > 0 \/ h = x  BY <1>4
  <3>2. svc'[x].there  BY <1>3 DEF SameShape
  <3>. QED  BY <2>1, <3>1, <3>2 DEF ReferredIsThere
 <2>3. Counted(svc', frames, held', 0)
  <3>. SUFFICES ASSUME NEW h \in Handles, Counting(svc', frames, h)
                PROVE  svc'[h].ref = held'[h] + Cardinality(Referrers(svc', h))
                                       + (IF h = 0 THEN 1 ELSE 0)
    BY DEF Counted
  <3>1. Counting(svc, frames, h) /\ h # 0  BY <1>2, <1>3 DEF Counting, SameShape
  <3>2. Referrers(svc', h) = Referrers(svc, h)  BY <1>3, ShapeReferrers
  <3>3. Cardinality(Referrers(svc, h)) \in Nat /\ held[h] \in Nat
    BY <1>2, HandleSets, ReferrersAreHandles
  <3>4. svc[h].ref = held[h] + Cardinality(Referrers(svc, h))
    BY <2>0, <3>1, <3>3 DEF Sound, Counted
  <3>. QED  BY <1>3, <1>4, <3>1, <3>2, <3>3, <3>4
 <2>4. Typed(svc', frames, held', destroyed, 0)  BY <1>2, <1>3, <1>4 DEF Typed
 <2>. QED  BY <1>1, <2>1, <2>2, <2>3, <2>4 DEF Settled, Sound
<1>6. Others' /\ InOrder' /\ LinksAreRemote' /\ NamesResolve' /\ Linked'
  BY <1>1, <1>3, RestKept DEF SameShape
<1>. QED  BY <1>5, <1>6 DEF Inv

\* The handle that is given out next was never used.
LEMMA FreshIsNew ==
  ASSUME Bounds, Inv, Fresh \in Handles
  PROVE  /\ ~svc[Fresh].there /\ destroyed[Fresh] = 0
         /\ \A h \in Handles : (svc[h].there \/ destroyed[h] > 0) <=> h <= Fresh - 1
<1>1. PICK k \in 0..MaxBinders :
        \A h \in Handles : (svc[h].there \/ destroyed[h] > 0) <=> h <= k
  BY DEF Inv, InOrder
<1>2. {h \in Handles : svc[h].there \/ destroyed[h] > 0} = 1..k  BY <1>1 DEF Handles, Bounds
<1>3. k \in Int /\ k >= 0  BY <1>1 DEF Bounds
<1>4. Cardinality(1..k) = k  BY <1>3, FS_Interval
<1>5. Fresh = k + 1  BY <1>2, <1>4 DEF Fresh
<1>6. \A h \in Handles : destroyed[h] \in Nat  BY DEF Inv, Settled, Sound, Typed
<1>7. ~(Fresh <= k) /\ Fresh - 1 = k  BY <1>3, <1>5
<1>. QED  BY <1>1, <1>6, <1>7

\* A new binder, remote or the guest's own, with the one reference its maker
\* gets.
LEMMA CreateSettled ==
  ASSUME Bounds, Inv, NEW x \in Handles, ~svc[x].there, destroyed[x] = 0,
         NEW b \in [there : BOOLEAN, remote : BOOLEAN, alive : BOOLEAN,
                    ref : Nat, ext : 0..MaxBinders, links : SUBSET Recipients],
         b.there, b.ref = 1, b.ext = 0, b.links = {},
         svc' = [svc EXCEPT ![x] = b], held' = [held EXCEPT ![x] = 1],
         UNCHANGED <<frames, destroyed>>
  PROVE  Settled'
<1>2. /\ svc \in Binders /\ frames \in Stacks /\ destroyed \in [Handles -> Nat]
      /\ held \in [Handles -> Nat] /\ 0 \notin Handles /\ 0 \in 0..MaxBinders
      /\ (\A i \in DOMAIN frames : frames[i].h \in Handles) /\ Leaving(frames) \subseteq Handles
  BY StackOfHandles DEF Inv, Settled, Sound, Typed, Bounds, Handles
<1>3. /\ svc' \in Binders /\ svc'[x] = b /\ \A h \in Handles \ {x} : svc'[h] = svc[h]
  BY <1>2 DEF Binders
<1>4. /\ held' \in [Handles -> Nat] /\ held'[x] = 1
      /\ \A h \in Handles \ {x} : held'[h] = held[h]
  BY <1>2
<1>5. \A h \in Handles : Referrers(svc', h) = Referrers(svc, h)
 <2>. SUFFICES ASSUME NEW h \in Handles
               PROVE  Referrers(svc', h) = Referrers(svc, h)
   OBVIOUS
 <2>1. \A y \in Handles : y \in Referrers(svc', h) <=> y \in Referrers(svc, h)
   BY <1>2, <1>3 DEF Referrers
 <2>. QED  BY <2>1, ReferrersAreHandles
<1>6. Sound(svc, frames, held, destroyed, 0)  BY DEF Inv, Settled
<1>7. x \notin Leaving(frames) /\ Referrers(svc, x) = {}
  BY <1>6 DEF Sound, StackSound, ReferredIsThere
<1>8. StackSound(svc', frames, destroyed)
 <2>1. \A i \in DOMAIN frames : frames[i].h \in Leaving(frames)  BY DEF Leaving
 <2>2. \A h \in Leaving(frames) : svc'[h] = svc[h]  BY <1>2, <1>3, <1>7
 <2>. QED  BY <1>6, <2>1, <2>2 DEF Sound, StackSound
<1>9. ReferredIsThere(svc', frames, held', 0)
  BY <1>2, <1>3, <1>4, <1>5, <1>6, <1>7 DEF Sound, ReferredIsThere
<1>10. DestroyedOnce(svc', frames, destroyed)  BY <1>3, <1>6 DEF Sound, DestroyedOnce
<1>11. Counted(svc', frames, held', 0)
 <2>. SUFFICES ASSUME NEW h \in Handles, Counting(svc', frames, h)
               PROVE  svc'[h].ref = held'[h] + Cardinality(Referrers(svc', h))
                                      + (IF h = 0 THEN 1 ELSE 0)
   BY DEF Counted
 <2>1. CASE h = x
  <3>1. Cardinality(Referrers(svc', h)) = 0
   <4>1. Referrers(svc', h) = {}  BY <1>5, <1>7, <2>1
   <4>. QED  BY <4>1, FS_EmptySet
  <3>. QED  BY <1>2, <1>3, <1>4, <2>1, <3>1
 <2>2. CASE h # x
  <3>1. Counting(svc, frames, h) /\ svc'[h].ref = svc[h].ref /\ held'[h] = held[h]
    BY <1>3, <1>4, <2>2 DEF Counting
  <3>. QED  BY <1>5, <1>6, <3>1 DEF Sound, Counted
 <2>. QED  BY <2>1, <2>2
<1>12. Typed(svc', frames, held', destroyed, 0)  BY <1>2, <1>3, <1>4 DEF Typed
<1>. QED  BY <1>8, <1>9, <1>10, <1>11, <1>12 DEF Settled, Sound

\* The same for handles, links and names: the name may be given to it.
LEMMA CreateInv ==
  ASSUME Bounds, Inv, Fresh \in Handles,
         NEW b \in [there : BOOLEAN, remote : BOOLEAN, alive : BOOLEAN,
                    ref : Nat, ext : 0..MaxBinders, links : SUBSET Recipients],
         b.there, b.ref = 1, b.ext = 0, b.links = {},
         svc' = [svc EXCEPT ![Fresh] = b], held' = [held EXCEPT ![Fresh] = 1],
         UNCHANGED <<frames, destroyed, removed, weak, ends>>, Rehash,
         \/ byName' = byName
         \/ \E n \in ServiceNames \ removed : byName' = [byName EXCEPT ![n] = Fresh]
  PROVE  Inv'
<1>1. PICK x \in Handles : x = Fresh  OBVIOUS
<1>2. /\ ~svc[x].there /\ destroyed[x] = 0
      /\ \A h \in Handles : (svc[h].there \/ destroyed[h] > 0) <=> h <= x - 1
  BY <1>1, FreshIsNew
<1>3. /\ svc \in Binders /\ destroyed \in [Handles -> Nat] /\ 0 \notin Handles
      /\ Handles \subseteq 0..MaxBinders /\ x \in 0..MaxBinders /\ x \in Int
      /\ \A h \in Handles : h \in Int
  BY DEF Inv, Settled, Sound, Typed, Handles, Bounds
<1>4. svc' = [svc EXCEPT ![x] = b] /\ held' = [held EXCEPT ![x] = 1]  BY <1>1
<1>5. Settled'  BY <1>2, <1>4, CreateSettled
<1>6. svc'[x] = b /\ \A h \in Handles \ {x} : svc'[h] = svc[h]  BY <1>3, <1>4 DEF Binders
<1>7. InOrder'
 <2>. SUFFICES \A h \in Handles : (svc'[h].there \/ destroyed'[h] > 0) <=> h <= x
   BY <1>3 DEF InOrder
 <2>. SUFFICES ASSUME NEW h \in Handles
               PROVE  (svc'[h].there \/ destroyed'[h] > 0) <=> h <= x
   OBVIOUS
 <2>1. CASE h = x  BY <1>3, <1>6, <2>1
 <2>2. CASE h # x  BY <1>2, <1>3, <1>6, <2>2
 <2>. QED  BY <2>1, <2>2
<1>8. LinksAreRemote'  BY <1>6 DEF Inv, LinksAreRemote
<1>80. /\ loops' \in Seq(Walks) /\ On(loops') = On(loops)
       /\ Retiring(loops') = Retiring(loops) /\ torn' = torn
       /\ \A h : Lefts(loops', h) = Lefts(loops, h)
       /\ RetiredOnce(loops')
 <2>1. PICK q : q = loops  OBVIOUS
 <2>2. PICK u : u = loops'  OBVIOUS
 <2>3. q \in Seq(Walks) /\ u = [i \in DOMAIN q |-> [q[i] EXCEPT !.rest = {}]] /\ torn' = torn
   BY <2>1, <2>2 DEF Inv, Others, Rehash
 <2>4. RetiredOnce(q)  BY <2>1 DEF Inv, Linked, LoopsSound
 <2>. QED  BY <2>1, <2>2, <2>3, <2>4, RehashedLoops
<1>9. Others' /\ NamesResolve'
 <2>1. /\ byName' \in [ServiceNames -> 0..MaxBinders]
       /\ \A n \in ServiceNames : \/ byName'[n] = byName[n]
                                  \/ byName'[n] = x /\ n \notin removed
   BY <1>1, <1>3 DEF Inv, Others
 <2>2. Others'  BY <1>80, <2>1 DEF Inv, Others
 <2>3. NamesResolve'
  <3>. SUFFICES ASSUME NEW n \in ServiceNames, byName'[n] # 0
                PROVE  svc'[byName'[n]].there /\ n \notin removed
    BY DEF NamesResolve
  <3>1. byName'[n] \in Handles  BY <2>1 DEF Handles, Bounds
  <3>2. byName'[n] # x => svc[byName'[n]].there /\ n \notin removed
    BY <2>1 DEF Inv, NamesResolve
  <3>3. byName'[n] = x => n \notin removed  BY <1>2, <1>3, <2>1 DEF Inv, NamesResolve
  <3>. QED  BY <1>6, <3>1, <3>2, <3>3
 <2>. QED  BY <2>2, <2>3
<1>10. Linked'
 <2>1. svc[x].links = {} /\ x \notin On(loops)
   BY <1>2 DEF Inv, LinksAreRemote, Linked, LoopsSound
 <2>2. On(loops) \subseteq Handles \ {x} /\ Retiring(loops) \subseteq Handles \ {x}
   BY <2>1, OnHandles, RetiringIsOn DEF Inv, Others
 <2>3. Lefts(loops, x) = {}  BY <2>2, NotRetiring
 <2>4. LoopsSound(svc', loops', torn')  BY <1>6, <1>80, <2>2, <2>3 DEF Inv, Linked, LoopsSound
 <2>5. EndsFit(svc', loops', torn', ends')  BY <1>6, <1>80, <2>1 DEF Inv, Linked, EndsFit
 <2>. QED  BY <2>4, <2>5 DEF Linked
<1>. QED  BY <1>5, <1>7, <1>8, <1>9, <1>10 DEF Inv

\* decStrong releases the reference it owes.
LEMMA DecStrongInv ==
  ASSUME Bounds, Inv, NEW x \in Handles, DecStrong(x)
  PROVE  Inv'
<1>1. /\ held[x] > 0 /\ held' = [held EXCEPT ![x] = @ - 1] /\ Release(x, svc, frames)
      /\ UNCHANGED <<byName, removed, weak, ends, walks>>
  BY DEF DecStrong
<1>2. PICK hd : hd = [held EXCEPT ![x] = @ - 1]  OBVIOUS
<1>3. Sound(svc, frames, hd, destroyed, x)  BY <1>1, <1>2, DecOwes DEF Inv
<1>4. /\ Sound(svc', frames', hd, destroyed', 0)
      /\ \A h \in Handles : /\ svc'[h].there = svc[h].there
                            /\ svc'[h].remote = svc[h].remote
                            /\ svc'[h].links = svc[h].links
                            /\ svc'[h].alive = svc[h].alive
                            /\ destroyed'[h] = destroyed[h] \/ svc[h].there
                            /\ destroyed'[h] >= destroyed[h]
  BY <1>1, <1>3, ReleaseSettles
<1>5. Settled'  BY <1>1, <1>2, <1>4 DEF Settled
<1>6. \A h \in Handles : destroyed'[h] > 0 \/ svc[h].there
                           <=> destroyed[h] > 0 \/ svc[h].there
  BY <1>4
<1>7. Others' /\ InOrder' /\ LinksAreRemote' /\ NamesResolve' /\ Linked'
  BY <1>1, <1>4, <1>6, RestKept
<1>. QED  BY <1>5, <1>7 DEF Inv

\* setExtension releases the extension it replaced.
LEMMA SetExtensionInv ==
  ASSUME Bounds, Inv, NEW x \in Handles, NEW e \in Handles, SetExtension(x, e)
  PROVE  Inv'
<1>0. /\ svc[x].there /\ svc[e].there /\ x \notin Leaving(frames) /\ e \notin Leaving(frames)
      /\ svc[x].ext # e
      /\ Release(svc[x].ext, [svc EXCEPT ![e].ref = @ + 1, ![x].ext = e], frames)
      /\ UNCHANGED <<byName, removed, weak, held, ends, walks>>
  BY DyingLeaving DEF SetExtension, Usable
<1>1. PICK s : s = [svc EXCEPT ![e].ref = @ + 1, ![x].ext = e]  OBVIOUS
<1>2. PICK o : o = svc[x].ext  OBVIOUS
<1>3. Sound(s, frames, held, destroyed, o)  BY <1>0, <1>1, <1>2, SetExtensionOwes DEF Inv
<1>4. Release(o, s, frames)  BY <1>0, <1>1, <1>2
<1>5. /\ Sound(svc', frames', held, destroyed', 0)
      /\ \A h \in Handles : /\ svc'[h].there = s[h].there
                            /\ svc'[h].remote = s[h].remote
                            /\ svc'[h].links = s[h].links
                            /\ svc'[h].alive = s[h].alive
                            /\ destroyed'[h] = destroyed[h] \/ s[h].there
                            /\ destroyed'[h] >= destroyed[h]
  BY <1>3, <1>4, ReleaseSettles
<1>6. \A h \in Handles : /\ s[h].there = svc[h].there /\ s[h].remote = svc[h].remote
                         /\ s[h].links = svc[h].links /\ s[h].alive = svc[h].alive
 <2>1. svc \in Binders  BY DEF Inv, Settled, Sound, Typed
 <2>. QED  BY <1>1, <2>1 DEF Binders
<1>7. Settled'  BY <1>0, <1>5 DEF Settled
<1>8. \A h \in Handles : destroyed'[h] > 0 \/ svc[h].there
                           <=> destroyed[h] > 0 \/ svc[h].there
  BY <1>5, <1>6
<1>9. Others' /\ InOrder' /\ LinksAreRemote' /\ NamesResolve' /\ Linked'
  BY <1>0, <1>5, <1>6, <1>8, RestKept
<1>. QED  BY <1>7, <1>9 DEF Inv

\* onDestroy returns: the binder and its names are erased together, and it
\* had no death links.
LEMMA OnDestroyReturnsInv ==
  ASSUME Bounds, Inv, OnDestroyReturns
  PROVE  Inv'
<1>1. PICK x : x = Head(frames).h  OBVIOUS
<1>2. PICK o : o = Head(frames).ext  OBVIOUS
<1>3. PICK s : s = [svc EXCEPT ![x] = Absent]  OBVIOUS
<1>4. /\ frames # <<>> /\ ForgetNames(x) /\ Release(o, s, Tail(frames))
      /\ UNCHANGED <<weak, held, ends, walks>>
  BY <1>1, <1>2, <1>3 DEF OnDestroyReturns
<1>5. /\ Sound(s, Tail(frames), held, destroyed, o)
      /\ x \in Handles /\ svc[x].there /\ ~svc[x].remote /\ destroyed[x] = 1 /\ held[x] = 0
  BY <1>1, <1>2, <1>3, <1>4, EraseOwes DEF Inv
<1>6. /\ Sound(svc', frames', held, destroyed', 0)
      /\ \A h \in Handles : /\ svc'[h].there = s[h].there
                            /\ svc'[h].remote = s[h].remote
                            /\ svc'[h].links = s[h].links
                            /\ svc'[h].alive = s[h].alive
                            /\ destroyed'[h] = destroyed[h] \/ s[h].there
                            /\ destroyed'[h] >= destroyed[h]
  BY <1>4, <1>5, ReleaseSettles
<1>7. Settled'  BY <1>4, <1>6 DEF Settled
<1>8. /\ s[x] = Absent /\ \A h \in Handles \ {x} : s[h] = svc[h]
 <2>1. svc \in Binders  BY DEF Inv, Settled, Sound, Typed
 <2>. QED  BY <1>3, <1>5, <2>1 DEF Binders
<1>9. ~Absent.there /\ Absent.links = {}  BY DEF Absent
<1>10. /\ ~svc'[x].there /\ svc'[x].links = {} /\ destroyed'[x] = 1
       /\ \A h \in Handles \ {x} : /\ svc'[h].there = svc[h].there
                                   /\ svc'[h].remote = svc[h].remote
                                   /\ svc'[h].links = svc[h].links
                                   /\ svc'[h].alive = svc[h].alive
                                   /\ destroyed'[h] > 0 \/ svc[h].there
                                        <=> destroyed[h] > 0 \/ svc[h].there
  BY <1>5, <1>6, <1>8, <1>9
<1>11. InOrder'  BY <1>5, <1>10 DEF Inv, InOrder
<1>12. LinksAreRemote'  BY <1>10 DEF Inv, LinksAreRemote
<1>13. /\ byName' = [n \in ServiceNames |-> IF byName[n] = x THEN 0 ELSE byName[n]]
       /\ removed' = removed \cup {n \in ServiceNames : byName[n] = x}
  BY <1>4 DEF ForgetNames
<1>130. loops' = loops /\ torn' = torn  BY <1>4 DEF walks
<1>14. Others'  BY <1>4, <1>13, <1>130 DEF Inv, Others, Bounds
<1>15. NamesResolve'
 <2>. SUFFICES ASSUME NEW n \in ServiceNames, byName'[n] # 0
               PROVE  svc'[byName'[n]].there /\ n \notin removed'
   BY DEF NamesResolve
 <2>1. byName'[n] = byName[n] /\ byName[n] # x  BY <1>13
 <2>2. byName[n] \in Handles  BY <2>1 DEF Inv, Others, Handles, Bounds
 <2>. QED  BY <1>10, <1>13, <2>1, <2>2 DEF Inv, NamesResolve
<1>16. Linked'
 <2>1. svc[x].links = {} /\ x \notin On(loops)
   BY <1>5 DEF Inv, LinksAreRemote, Linked, LoopsSound
 <2>2. On(loops) \subseteq Handles \ {x} /\ Retiring(loops) \subseteq Handles \ {x}
   BY <2>1, OnHandles, RetiringIsOn DEF Inv, Others
 <2>3. Lefts(loops, x) = {}  BY <2>2, NotRetiring
 <2>4. LoopsSound(svc', loops', torn')  BY <1>10, <1>130, <2>2, <2>3 DEF Inv, Linked, LoopsSound
 <2>5. EndsFit(svc', loops', torn', ends')  BY <1>4, <1>10, <1>130, <2>1 DEF Inv, Linked, EndsFit
 <2>. QED  BY <2>4, <2>5 DEF Linked
<1>. QED  BY <1>7, <1>11, <1>12, <1>14, <1>15, <1>16 DEF Inv

\* A step that changes life and links only: counts are as they were.
LEMMA LinkStep ==
  ASSUME Bounds, Inv, svc' \in Binders, SameShape(svc, svc'),
         \A h \in Handles : svc'[h].ref = svc[h].ref,
         UNCHANGED <<frames, held, destroyed>>
  PROVE  Settled' /\ InOrder'
<1>0. Sound(svc, frames, held, destroyed, 0)  BY DEF Inv, Settled
<1>1. /\ StackSound(svc', frames, destroyed) /\ DestroyedOnce(svc', frames, destroyed)
      /\ ReferredIsThere(svc', frames, held, 0)
  BY <1>0, SameShapeSound
<1>2. Counted(svc', frames, held, 0)
 <2>. SUFFICES ASSUME NEW h \in Handles, Counting(svc', frames, h)
               PROVE  svc'[h].ref = held[h] + Cardinality(Referrers(svc', h))
                                      + (IF h = 0 THEN 1 ELSE 0)
   BY DEF Counted
 <2>1. Counting(svc, frames, h)  BY DEF Counting, SameShape
 <2>2. Referrers(svc', h) = Referrers(svc, h)  BY ShapeReferrers
 <2>. QED  BY <1>0, <2>1, <2>2 DEF Sound, Counted
<1>3. Typed(svc', frames, held, destroyed, 0)  BY <1>0 DEF Sound, Typed
<1>4. InOrder'  BY DEF Inv, InOrder, SameShape
<1>. QED  BY <1>1, <1>2, <1>3, <1>4 DEF Settled, Sound

\* What a call for links leaves alone keeps what it was, wherever the loops
\* are: names may go, types are known.
LEMMA RestOfLinks ==
  ASSUME Bounds, Inv, svc' \in Binders, SameShape(svc, svc'),
         \A h \in Handles : svc'[h].ref = svc[h].ref,
         \A h \in Handles : svc'[h].links # {} => svc'[h].remote /\ svc'[h].there,
         \A n \in ServiceNames : byName'[n] = byName[n] \/ byName'[n] = 0,
         byName' \in [ServiceNames -> 0..MaxBinders],
         ends' \in [Handles -> [Recipients -> Nat]],
         loops' \in Seq(Walks), torn' \subseteq Handles, Linked',
         UNCHANGED <<removed, weak, frames, held, destroyed>>
  PROVE  Inv'
<1>1. Settled' /\ InOrder'  BY LinkStep
<1>2. Others'  BY DEF Inv, Others
<1>3. LinksAreRemote'  BY DEF LinksAreRemote
<1>4. NamesResolve'
 <2>1. \A n \in ServiceNames : byName[n] # 0 => byName[n] \in Handles
   BY DEF Inv, Others, Bounds, Handles
 <2>. QED  BY <2>1 DEF Inv, NamesResolve, SameShape
<1>. QED  BY <1>1, <1>2, <1>3, <1>4 DEF Inv

\* One binder with other links: counts, life and shape are as they were.
LEMMA LinksUpdate ==
  ASSUME Inv, NEW x \in Handles, NEW ls \in SUBSET Recipients,
         svc' = [svc EXCEPT ![x].links = ls]
  PROVE  /\ svc' \in Binders /\ SameShape(svc, svc')
         /\ \A h \in Handles : svc'[h].ref = svc[h].ref /\ svc'[h].alive = svc[h].alive
         /\ svc'[x].links = ls /\ \A h \in Handles \ {x} : svc'[h].links = svc[h].links
<1>1. svc \in Binders  BY DEF Inv, Settled, Sound, Typed
<1>. QED  BY <1>1 DEF Binders, SameShape

\* A link that ends: the loops may change, but tell what they told, and none
\* retires the binder unless its links are torn.
LEMMA UnlinkStep ==
  ASSUME Bounds, Inv, NEW x \in Handles, NEW r \in Recipients, NEW q, NEW u,
         r \in svc[x].links, Unlink(x, r, q), u = loops',
         u \in Seq(Walks), On(u) \subseteq On(loops) \cup {x}, Retiring(u) = Retiring(loops),
         \A h : Lefts(u, h) = Lefts(loops, h), RetiredOnce(u),
         x \notin On(q) => x \notin Retiring(loops)
  PROVE  Inv'
<1>1. /\ svc' = [svc EXCEPT ![x].links = @ \ {r}]
      /\ torn' = TornBy(x, q)
      /\ Owed(x, [ends[x] EXCEPT ![r] = @ - 1], torn')
      /\ UNCHANGED <<byName, removed, weak, frames, held, destroyed>>
  BY DEF Unlink
<1>2. PICK ls : ls = svc[x].links \ {r}  OBVIOUS
<1>3. svc \in Binders /\ ends \in [Handles -> [Recipients -> Nat]] /\ torn \subseteq Handles
      /\ byName \in [ServiceNames -> 0..MaxBinders]
  BY DEF Inv, Settled, Sound, Typed, Others
<1>4. /\ svc' \in Binders /\ SameShape(svc, svc')
      /\ \A h \in Handles : svc'[h].ref = svc[h].ref /\ svc'[h].alive = svc[h].alive
      /\ svc'[x].links = svc[x].links \ {r}
      /\ \A h \in Handles \ {x} : svc'[h].links = svc[h].links
 <2>1. svc[x].links \in SUBSET Recipients  BY <1>3 DEF Binders
 <2>2. ls \in SUBSET Recipients /\ svc' = [svc EXCEPT ![x].links = ls]  BY <1>1, <1>2, <2>1
 <2>. QED  BY <1>2, <2>2, LinksUpdate
<1>5. PICK t : t = torn'  OBVIOUS
<1>6. /\ torn \subseteq t /\ t \subseteq torn \cup {x}
      /\ x \notin t => x \notin On(q) /\ x \notin torn
  BY <1>1, <1>5, TornIs
<1>7. x \notin t => Lefts(loops, x) = {}  BY <1>6, NotRetiring
<1>8. x \notin t => ends[x][r] = 1  BY <1>6, <1>7 DEF Inv, Linked, EndsFit
<1>9. PICK row : row = [ends[x] EXCEPT ![r] = @ - 1]  OBVIOUS
<1>10. x \notin t => /\ row \in [Recipients -> Nat] /\ row[r] = 0
                     /\ \A p \in Recipients \ {r} : row[p] = ends[x][p]
 <2>1. ends[x] \in [Recipients -> Nat]  BY <1>3
 <2>. QED  BY <1>8, <1>9, <2>1
<1>11. /\ ends' \in [Handles -> [Recipients -> Nat]]
       /\ x \notin t => ends'[x] = row
       /\ \A h \in Handles \ {x} : ends'[h] = ends[h]
 <2>1. Owed(x, row, t)  BY <1>1, <1>5, <1>9
 <2>. QED  BY <1>10, <2>1, OwedFacts
<1>12. svc[x].there /\ svc[x].remote  BY DEF Inv, LinksAreRemote
<1>13. On(u) \subseteq Handles /\ Retiring(u) \subseteq Handles  BY OnHandles, RetiringIsOn
<1>14. LoopsSound(svc', u, t)
 <2>1. \A h \in On(u) : svc'[h].there /\ svc'[h].remote
   BY <1>4, <1>12, <1>13 DEF Inv, Linked, LoopsSound, SameShape
 <2>2. \A h \in Retiring(u) : ~svc'[h].alive  BY <1>4, <1>13 DEF Inv, Linked, LoopsSound
 <2>3. \A h \in Handles \ t : \A L \in Lefts(u, h) : L \subseteq svc'[h].links
  <3>. SUFFICES ASSUME NEW h \in Handles \ t, NEW L \in Lefts(u, h)
                PROVE  L \subseteq svc'[h].links
    OBVIOUS
  <3>1. h # x  BY <1>7
  <3>. QED  BY <1>4, <1>6, <3>1 DEF Inv, Linked, LoopsSound
 <2>. QED  BY <2>1, <2>2, <2>3 DEF LoopsSound
<1>15. EndsFit(svc', u, t, ends')
 <2>. SUFFICES ASSUME NEW h \in Handles \ t, NEW p \in Recipients
               PROVE  ends'[h][p] = IF p \in svc'[h].links /\ \A L \in Lefts(u, h) : p \in L
                                    THEN 1 ELSE 0
   BY DEF EndsFit
 <2>1. ends[h][p] = IF p \in svc[h].links /\ \A L \in Lefts(loops, h) : p \in L THEN 1 ELSE 0
   BY <1>6 DEF Inv, Linked, EndsFit
 <2>2. CASE h # x  BY <1>4, <1>11, <2>1, <2>2
 <2>3. CASE h = x /\ p = r  BY <1>4, <1>10, <1>11, <2>3
 <2>4. CASE h = x /\ p # r  BY <1>4, <1>10, <1>11, <2>1, <2>4
 <2>. QED  BY <2>2, <2>3, <2>4
<1>16. Linked'  BY <1>5, <1>14, <1>15 DEF Linked
<1>17. \A h \in Handles : svc'[h].links # {} => svc'[h].remote /\ svc'[h].there
 <2>1. \A h \in Handles : svc'[h].links # {} => svc[h].links # {}  BY <1>4
 <2>. QED  BY <1>4, <2>1 DEF Inv, LinksAreRemote, SameShape
<1>18. torn' \subseteq Handles  BY <1>3, <1>5, <1>6
<1>. QED  BY <1>1, <1>3, <1>4, <1>11, <1>16, <1>17, <1>18, RestOfLinks

\* unlinkToDeath: the loops stay.
LEMMA UnlinkToDeathInv ==
  ASSUME Bounds, Inv, NEW x \in Handles, NEW r \in Recipients, UnlinkToDeath(x, r)
  PROVE  Inv'
<1>1. PICK u : u = loops'  OBVIOUS
<1>2. r \in svc[x].links /\ Unlink(x, r, loops) /\ u = loops  BY <1>1 DEF UnlinkToDeath
<1>3. u \in Seq(Walks) /\ RetiredOnce(u)  BY <1>2 DEF Inv, Others, Linked, LoopsSound
<1>4. x \notin On(loops) => x \notin Retiring(loops)  BY RetiringIsOn
<1>. QED  BY <1>1, <1>2, <1>3, <1>4, UnlinkStep

\* A loop that waits is one of the stack's.
LEMMA WaitsIsWalk ==
  ASSUME Inv, NEW b \in BOOLEAN, NEW x \in Handles, NEW r \in Recipients,
         NEW ls \in SUBSET Recipients, NEW hs \in SUBSET Handles, NEW f, f = Waits(b, x, r, ls, hs)
  PROVE  f \in Walks /\ f.h = x /\ f.retires = b /\ f.left = ls
<1>1. Len(frames) \in Nat  BY DEF Inv, Settled, Sound, Typed, Stacks
<1>. QED  BY <1>1 DEF Waits, Walks

\* The loop that a death puts on the stack, while ls are to be told.
DeathLoop(f, x, ls) == f \in Walks /\ f.h = x /\ f.retires /\ f.left = ls

LEMMA DeathIsWalk ==
  ASSUME Inv, NEW x \in Handles, NEW r \in Recipients, NEW ls \in SUBSET Recipients,
         NEW f, f = Waits(TRUE, x, r, ls, {})
  PROVE  DeathLoop(f, x, ls)
<1>1. Len(frames) \in Nat  BY DEF Inv, Settled, Sound, Typed, Stacks
<1>. QED  BY <1>1 DEF Waits, Walks, DeathLoop

\* The deletion of a recipient starts a loop that retires nothing.
LEMMA DeleteRecipientInv ==
  ASSUME Bounds, Inv, NEW r \in Recipients, DeleteRecipient(r)
  PROVE  Inv'
<1>1. PICK x \in Handles :
        /\ r \in svc[x].links
        /\ Unlink(x, r, loops)
        /\ loops' = <<Waits(FALSE, x, r, {}, {y \in Handles \ {x} : r \in svc[y].links})>> \o loops
  BY DEF DeleteRecipient
<1>2. PICK hs \in SUBSET Handles : hs = {y \in Handles \ {x} : r \in svc[y].links}  OBVIOUS
<1>3. PICK f : f = Waits(FALSE, x, r, {}, hs)  OBVIOUS
<1>30. PICK b \in BOOLEAN : b = FALSE  OBVIOUS
<1>31. PICK ls \in SUBSET Recipients : ls = {}  OBVIOUS
<1>32. f = Waits(b, x, r, ls, hs)  BY <1>3, <1>30, <1>31
<1>4. f \in Walks /\ f.h = x /\ ~f.retires  BY <1>30, <1>32, WaitsIsWalk
<1>5. PICK u : u = loops'  OBVIOUS
<1>6. loops \in Seq(Walks) /\ RetiredOnce(loops)  BY DEF Inv, Others, Linked, LoopsSound
<1>7. u = Push(f, loops)  BY <1>1, <1>2, <1>3, <1>5 DEF Push
<1>8. /\ u \in Seq(Walks) /\ On(u) = On(loops) \cup {x} /\ Retiring(u) = Retiring(loops)
      /\ (\A h : Lefts(u, h) = Lefts(loops, h)) /\ RetiredOnce(u)
 <2>1. PICK q : q = loops  OBVIOUS
 <2>2. PushedAs(u, f, q)  BY <1>4, <1>6, <1>7, <2>1, PushedLoop
 <2>. QED  BY <1>4, <1>6, <2>1, <2>2 DEF PushedAs
<1>9. x \notin On(loops) => x \notin Retiring(loops)  BY RetiringIsOn
<1>. QED  BY <1>1, <1>5, <1>8, <1>9, UnlinkStep

\* The loop on top of the stack, and what the others are.
LEMMA TopLoop ==
  ASSUME Inv, loops # <<>>, NEW f, NEW q, f = Head(loops), q = Tail(loops)
  PROVE  /\ f \in Walks /\ q \in Seq(Walks) /\ On(loops) = On(q) \cup {f.h}
         /\ Retiring(loops) = IF f.retires THEN Retiring(q) \cup {f.h} ELSE Retiring(q)
         /\ \A h : Lefts(loops, h) = IF f.retires /\ f.h = h THEN Lefts(q, h) \cup {f.left}
                                     ELSE Lefts(q, h)
         /\ RetiredOnce(q) /\ (f.retires => f.h \notin Retiring(q))
         /\ f.h \in Handles /\ f.cur \in Recipients /\ f.left \in SUBSET Recipients
<1>1. loops \in Seq(Walks) /\ RetiredOnce(loops)  BY DEF Inv, Others, Linked, LoopsSound
<1>2. f \in Walks /\ q \in Seq(Walks) /\ loops = Push(f, q)  BY <1>1, SplitLoops
<1>3. f.h \in Handles /\ f.cur \in Recipients /\ f.left \in SUBSET Recipients  BY <1>2 DEF Walks
<1>4. PICK p : p = loops  OBVIOUS
<1>59. PushedAs(p, f, q)  BY <1>2, <1>4, PushedLoop
<1>. QED  BY <1>1, <1>2, <1>3, <1>4, <1>59 DEF PushedAs

\* The deletion goes on with the next binder.
LEMMA DeletionGoesOnInv ==
  ASSUME Bounds, Inv, NEW x \in Handles, DeletionGoesOn(x)
  PROVE  Inv'
<1>1. PICK f : f = Head(loops)  OBVIOUS
<1>2. PICK q : q = Tail(loops)  OBVIOUS
<1>3. PICK r : r = f.cur  OBVIOUS
<1>4. PICK g : g = [f EXCEPT !.h = x, !.rest = @ \ {x}]  OBVIOUS
<1>5. PICK u : u = loops'  OBVIOUS
<1>6. /\ loops # <<>> /\ ~f.retires /\ r \in svc[x].links /\ Unlink(x, r, q)
      /\ u = Push(g, q)
  BY <1>1, <1>2, <1>3, <1>4, <1>5 DEF DeletionGoesOn, Back, Push
<1>7. /\ f \in Walks /\ q \in Seq(Walks) /\ On(loops) = On(q) \cup {f.h}
      /\ Retiring(loops) = Retiring(q) /\ (\A h : Lefts(loops, h) = Lefts(q, h))
      /\ RetiredOnce(q) /\ r \in Recipients
  BY <1>1, <1>2, <1>3, <1>6, TopLoop
<1>8. g \in Walks /\ g.h = x /\ ~g.retires  BY <1>4, <1>6, <1>7 DEF Walks
<1>809. PushedAs(u, g, q)  BY <1>6, <1>7, <1>8, PushedLoop
<1>9. /\ u \in Seq(Walks) /\ On(u) = On(q) \cup {x} /\ Retiring(u) = Retiring(q)
      /\ (\A h : Lefts(u, h) = Lefts(q, h)) /\ RetiredOnce(u)
  BY <1>7, <1>8, <1>809 DEF PushedAs
<1>10. x \notin On(q) => x \notin Retiring(loops)  BY <1>7, RetiringIsOn
<1>. QED  BY <1>5, <1>6, <1>7, <1>9, <1>10, UnlinkStep

\* Loops that change while every binder keeps its links and what it is told.
LEMMA LoopsStep ==
  ASSUME Bounds, Inv, NEW u, u = loops', u \in Seq(Walks), On(u) \subseteq On(loops),
         Retiring(u) = Retiring(loops), \A h : Lefts(u, h) = Lefts(loops, h), RetiredOnce(u),
         UNCHANGED <<svc, byName, removed, weak, frames, held, destroyed, ends, torn>>
  PROVE  Inv'
<1>1. Settled' /\ InOrder' /\ LinksAreRemote' /\ NamesResolve'
  BY DEF Inv, Settled, InOrder, LinksAreRemote, NamesResolve
<1>2. Others'  BY DEF Inv, Others
<1>3. LoopsSound(svc, u, torn)  BY DEF Inv, Linked, LoopsSound
<1>4. EndsFit(svc, u, torn, ends)  BY DEF Inv, Linked, EndsFit
<1>5. Linked'  BY <1>3, <1>4 DEF Linked
<1>. QED  BY <1>1, <1>2, <1>5 DEF Inv

\* A deletion that ends leaves the stack.
LEMMA DeletionEndsInv ==
  ASSUME Bounds, Inv, DeletionEnds
  PROVE  Inv'
<1>1. PICK f : f = Head(loops)  OBVIOUS
<1>2. PICK q : q = Tail(loops)  OBVIOUS
<1>3. /\ loops # <<>> /\ ~f.retires /\ loops' = q
      /\ UNCHANGED <<svc, byName, removed, weak, frames, held, destroyed, ends, torn>>
  BY <1>1, <1>2 DEF DeletionEnds, Back
<1>4. /\ q \in Seq(Walks) /\ On(loops) = On(q) \cup {f.h}
      /\ Retiring(loops) = Retiring(q) /\ (\A h : Lefts(loops, h) = Lefts(q, h))
      /\ RetiredOnce(q)
  BY <1>1, <1>2, <1>3, TopLoop
<1>. QED  BY <1>3, <1>4, LoopsStep

\* The next recipient is told of the death: nothing has been unlinked yet.
LEMMA NextDiesInv ==
  ASSUME Bounds, Inv, NEW r \in Recipients, NextDies(r)
  PROVE  Inv'
<1>1. PICK f : f = Head(loops)  OBVIOUS
<1>2. PICK q : q = Tail(loops)  OBVIOUS
<1>3. PICK g : g = [f EXCEPT !.cur = r]  OBVIOUS
<1>4. PICK u : u = loops'  OBVIOUS
<1>5. /\ loops # <<>> /\ f.retires /\ u = Push(g, q)
      /\ UNCHANGED <<svc, byName, removed, weak, frames, held, destroyed, ends, torn>>
  BY <1>1, <1>2, <1>3, <1>4 DEF NextDies, Back, Push
<1>6. /\ f \in Walks /\ q \in Seq(Walks) /\ On(loops) = On(q) \cup {f.h}
      /\ Retiring(loops) = Retiring(q) \cup {f.h}
      /\ (\A h : Lefts(loops, h) = IF f.h = h THEN Lefts(q, h) \cup {f.left} ELSE Lefts(q, h))
      /\ RetiredOnce(q) /\ f.h \notin Retiring(q)
  BY <1>1, <1>2, <1>5, TopLoop
<1>7. g \in Walks /\ g.h = f.h /\ g.retires /\ g.left = f.left  BY <1>3, <1>5, <1>6 DEF Walks
<1>709. PushedAs(u, g, q)  BY <1>5, <1>6, <1>7, PushedLoop
<1>8. /\ u \in Seq(Walks) /\ On(u) = On(loops) /\ Retiring(u) = Retiring(loops)
      /\ (\A h : Lefts(u, h) = Lefts(loops, h)) /\ RetiredOnce(u)
  BY <1>6, <1>7, <1>709 DEF PushedAs
<1>. QED  BY <1>4, <1>5, <1>8, LoopsStep

\* onUnlinked is called for a link of a whole binder that was not told before.
LEMMA DiedReturnsInv ==
  ASSUME Bounds, Inv, DiedReturns
  PROVE  Inv'
<1>1. PICK f : f = Head(loops)  OBVIOUS
<1>2. PICK q : q = Tail(loops)  OBVIOUS
<1>3. PICK g : g = [f EXCEPT !.left = @ \ {f.cur}]  OBVIOUS
<1>4. PICK u : u = loops'  OBVIOUS
<1>5. PICK x : x = f.h  OBVIOUS
<1>6. PICK r : r = f.cur  OBVIOUS
<1>7. PICK row : row = [ends[x] EXCEPT ![r] = @ - 1]  OBVIOUS
<1>8. /\ loops # <<>> /\ f.retires /\ r \in f.left /\ u = Push(g, q)
      /\ Owed(x, row, torn)
      /\ UNCHANGED <<svc, byName, removed, weak, frames, held, destroyed, torn>>
  BY <1>1, <1>2, <1>3, <1>4, <1>5, <1>6, <1>7 DEF DiedReturns, Back, Push
<1>9. /\ f \in Walks /\ q \in Seq(Walks) /\ On(loops) = On(q) \cup {x}
      /\ Retiring(loops) = Retiring(q) \cup {x}
      /\ (\A h : Lefts(loops, h) = IF x = h THEN Lefts(q, h) \cup {f.left} ELSE Lefts(q, h))
      /\ RetiredOnce(q) /\ x \notin Retiring(q)
      /\ x \in Handles /\ r \in Recipients /\ f.left \in SUBSET Recipients
  BY <1>1, <1>2, <1>5, <1>6, <1>8, TopLoop
<1>10. g \in Walks /\ g.h = x /\ g.retires /\ g.left = f.left \ {r}
  BY <1>3, <1>5, <1>6, <1>8, <1>9 DEF Walks
<1>1009. PushedAs(u, g, q)  BY <1>8, <1>9, <1>10, PushedLoop
<1>11. /\ u \in Seq(Walks) /\ On(u) = On(loops) /\ Retiring(u) = Retiring(loops)
       /\ (\A h : Lefts(u, h) = IF x = h THEN Lefts(q, h) \cup {f.left \ {r}} ELSE Lefts(q, h))
       /\ RetiredOnce(u)
  BY <1>9, <1>10, <1>1009 DEF PushedAs
<1>12. Lefts(loops, x) = {f.left} /\ Lefts(u, x) = {f.left \ {r}}  BY <1>9, <1>11, NotRetiring
<1>13. x \notin torn => f.left \subseteq svc[x].links /\ ends[x][r] = 1
  BY <1>8, <1>9, <1>12 DEF Inv, Linked, LoopsSound, EndsFit
<1>14. ends[x] \in [Recipients -> Nat]  BY <1>9 DEF Inv, Others
<1>15. x \notin torn => /\ row \in [Recipients -> Nat] /\ row[r] = 0
                        /\ \A p \in Recipients \ {r} : row[p] = ends[x][p]
  BY <1>7, <1>9, <1>13, <1>14
<1>16. /\ ends' \in [Handles -> [Recipients -> Nat]]
       /\ x \notin torn => ends'[x] = row
       /\ \A h \in Handles \ {x} : ends'[h] = ends[h]
  BY <1>8, <1>9, <1>15, OwedFacts
<1>17. LoopsSound(svc, u, torn)
 <2>1. \A h \in Handles \ torn : \A L \in Lefts(u, h) : L \subseteq svc[h].links
   BY <1>9, <1>11, <1>12, <1>13 DEF Inv, Linked, LoopsSound
 <2>. QED  BY <1>11, <2>1 DEF Inv, Linked, LoopsSound
<1>18. EndsFit(svc, u, torn, ends')
 <2>. SUFFICES ASSUME NEW h \in Handles \ torn, NEW p \in Recipients
               PROVE  ends'[h][p] = IF p \in svc[h].links /\ \A L \in Lefts(u, h) : p \in L
                                    THEN 1 ELSE 0
   BY DEF EndsFit
 <2>1. ends[h][p] = IF p \in svc[h].links /\ \A L \in Lefts(loops, h) : p \in L THEN 1 ELSE 0
   BY DEF Inv, Linked, EndsFit
 <2>2. CASE h # x  BY <1>9, <1>11, <1>16, <2>1, <2>2
 <2>3. CASE h = x /\ p = r  BY <1>12, <1>15, <1>16, <2>3
 <2>4. CASE h = x /\ p # r  BY <1>12, <1>15, <1>16, <2>1, <2>4
 <2>. QED  BY <2>2, <2>3, <2>4
<1>19. Linked'  BY <1>4, <1>8, <1>17, <1>18 DEF Linked
<1>20. svc \in Binders /\ SameShape(svc, svc)  BY DEF Inv, Settled, Sound, Typed, SameShape
<1>21. Settled' /\ InOrder' /\ LinksAreRemote' /\ NamesResolve'
  BY <1>8 DEF Inv, Settled, InOrder, LinksAreRemote, NamesResolve
<1>22. Others'  BY <1>4, <1>8, <1>11, <1>16 DEF Inv, Others
<1>. QED  BY <1>19, <1>21, <1>22 DEF Inv

\* The vector of a binder whose recipients were all told is cleared: none of
\* its links had a call to come.
LEMMA RetiredInv ==
  ASSUME Bounds, Inv, Retired
  PROVE  Inv'
<1>1. PICK f : f = Head(loops)  OBVIOUS
<1>2. PICK q : q = Tail(loops)  OBVIOUS
<1>3. PICK x : x = f.h  OBVIOUS
<1>4. PICK t : t = torn'  OBVIOUS
<1>5. PICK row : row = ends[x]  OBVIOUS
<1>6. /\ loops # <<>> /\ f.retires /\ f.left = {} /\ loops' = q
      /\ svc' = [svc EXCEPT ![x].links = {}]
      /\ t = TornBy(x, q) /\ Owed(x, row, t)
      /\ UNCHANGED <<byName, removed, weak, frames, held, destroyed>>
  BY <1>1, <1>2, <1>3, <1>4, <1>5 DEF Retired, Back
<1>7. /\ q \in Seq(Walks) /\ On(loops) = On(q) \cup {x}
      /\ Retiring(loops) = Retiring(q) \cup {x}
      /\ (\A h : Lefts(loops, h) = IF x = h THEN Lefts(q, h) \cup {{}} ELSE Lefts(q, h))
      /\ RetiredOnce(q) /\ x \notin Retiring(q) /\ x \in Handles
  BY <1>1, <1>2, <1>3, <1>6, TopLoop
<1>70. {} \in SUBSET Recipients  OBVIOUS
<1>8. /\ svc' \in Binders /\ SameShape(svc, svc')
      /\ \A h \in Handles : svc'[h].ref = svc[h].ref /\ svc'[h].alive = svc[h].alive
      /\ svc'[x].links = {} /\ \A h \in Handles \ {x} : svc'[h].links = svc[h].links
  BY <1>6, <1>7, <1>70, LinksUpdate
<1>9. /\ torn \subseteq t /\ t \subseteq torn \cup {x} /\ torn \subseteq Handles
  BY <1>6, TornIs DEF Inv, Others
<1>10. row \in [Recipients -> Nat]  BY <1>5, <1>7 DEF Inv, Others
<1>11. /\ ends' \in [Handles -> [Recipients -> Nat]]
       /\ x \notin t => ends'[x] = row
       /\ \A h \in Handles \ {x} : ends'[h] = ends[h]
  BY <1>6, <1>7, <1>10, OwedFacts
<1>12. Lefts(q, x) = {} /\ Lefts(loops, x) = {{}}  BY <1>7, NotRetiring
<1>13. On(q) \subseteq Handles /\ Retiring(q) \subseteq Handles  BY <1>7, OnHandles, RetiringIsOn
<1>14. LoopsSound(svc', q, t)
 <2>1. \A h \in On(q) : svc'[h].there /\ svc'[h].remote
   BY <1>7, <1>8, <1>13 DEF Inv, Linked, LoopsSound, SameShape
 <2>2. \A h \in Retiring(q) : ~svc'[h].alive  BY <1>7, <1>8, <1>13 DEF Inv, Linked, LoopsSound
 <2>3. \A h \in Handles \ t : \A L \in Lefts(q, h) : L \subseteq svc'[h].links
   BY <1>7, <1>8, <1>9, <1>12 DEF Inv, Linked, LoopsSound
 <2>. QED  BY <1>7, <2>1, <2>2, <2>3 DEF LoopsSound
<1>15. EndsFit(svc', q, t, ends')
 <2>. SUFFICES ASSUME NEW h \in Handles \ t, NEW p \in Recipients
               PROVE  ends'[h][p] = IF p \in svc'[h].links /\ \A L \in Lefts(q, h) : p \in L
                                    THEN 1 ELSE 0
   BY DEF EndsFit
 <2>1. ends[h][p] = IF p \in svc[h].links /\ \A L \in Lefts(loops, h) : p \in L THEN 1 ELSE 0
   BY <1>9 DEF Inv, Linked, EndsFit
 <2>2. CASE h # x  BY <1>7, <1>8, <1>11, <2>1, <2>2
 <2>3. CASE h = x  BY <1>5, <1>8, <1>11, <1>12, <2>1, <2>3
 <2>. QED  BY <2>2, <2>3
<1>16. Linked'  BY <1>4, <1>6, <1>14, <1>15 DEF Linked
<1>17. \A h \in Handles : svc'[h].links # {} => svc'[h].remote /\ svc'[h].there
 <2>1. \A h \in Handles : svc'[h].links # {} => svc[h].links # {}  BY <1>8
 <2>. QED  BY <1>8, <2>1 DEF Inv, LinksAreRemote, SameShape
<1>18. torn' \subseteq Handles /\ byName' \in [ServiceNames -> 0..MaxBinders]
  BY <1>4, <1>6, <1>7, <1>9 DEF Inv, Others
<1>. QED  BY <1>6, <1>7, <1>8, <1>11, <1>16, <1>17, <1>18, RestOfLinks

\* retire_service(): the binder dies, its names are free, and all its links
\* are still to be told.
LEMMA KillInv ==
  ASSUME Bounds, Inv, NEW x \in Handles, Kill(x)
  PROVE  Inv'
<1>1. /\ svc[x].alive /\ svc' = [svc EXCEPT ![x].alive = FALSE]
      /\ byName' = [n \in ServiceNames |-> IF byName[n] = x THEN 0 ELSE byName[n]]
      /\ \/ svc[x].links = {} /\ UNCHANGED loops
         \/ \E r \in svc[x].links : loops' = <<Waits(TRUE, x, r, svc[x].links, {})>> \o loops
      /\ UNCHANGED <<removed, weak, frames, held, destroyed, ends, torn>>
  BY DEF Kill
<1>2. svc \in Binders  BY DEF Inv, Settled, Sound, Typed
<1>3. /\ svc' \in Binders /\ SameShape(svc, svc')
      /\ \A h \in Handles : svc'[h].ref = svc[h].ref /\ svc'[h].links = svc[h].links
      /\ ~svc'[x].alive /\ \A h \in Handles \ {x} : svc'[h].alive = svc[h].alive
  BY <1>1, <1>2 DEF Binders, SameShape
<1>4. PICK u : u = loops'  OBVIOUS
<1>5. /\ loops \in Seq(Walks) /\ RetiredOnce(loops) /\ x \notin Retiring(loops)
      /\ Lefts(loops, x) = {} /\ Retiring(loops) \subseteq Handles /\ On(loops) \subseteq Handles
  BY <1>1, NotRetiring, OnHandles, RetiringIsOn DEF Inv, Others, Linked, LoopsSound
<1> DEFINE Walked ==
      /\ u \in Seq(Walks) /\ RetiredOnce(u)
      /\ On(u) \subseteq On(loops) \cup {y \in {x} : svc[x].links # {}}
      /\ Retiring(u) \subseteq Retiring(loops) \cup {x}
      /\ \A h : h # x => Lefts(u, h) = Lefts(loops, h)
      /\ Lefts(u, x) \subseteq {svc[x].links}
<1>6. Walked
 <2>1. CASE svc[x].links = {} /\ UNCHANGED loops  BY <1>4, <1>5, <2>1
 <2>2. ASSUME NEW r \in svc[x].links,
              loops' = <<Waits(TRUE, x, r, svc[x].links, {})>> \o loops
       PROVE  Walked
  <3>1. PICK f : f = Waits(TRUE, x, r, svc[x].links, {})  OBVIOUS
  <3>2. /\ svc[x].links \in SUBSET Recipients /\ r \in Recipients  BY <1>2, <2>2 DEF Binders
  <3>22. PICK ls \in SUBSET Recipients : ls = svc[x].links  BY <3>2
  <3>23. f = Waits(TRUE, x, r, ls, {})  BY <3>1, <3>22
  <3>24. DeathLoop(f, x, ls)  BY <3>2, <3>23, DeathIsWalk
  <3>3. f \in Walks /\ f.h = x /\ f.retires /\ f.left = svc[x].links
    BY <3>22, <3>24 DEF DeathLoop
  <3>4. u = Push(f, loops)  BY <1>4, <2>2, <3>1 DEF Push
  <3>40. PICK q : q = loops  OBVIOUS
  <3>59. PushedAs(u, f, q)  BY <1>5, <3>3, <3>4, <3>40, PushedLoop
  <3>6. On(u) = On(loops) \cup {x} /\ Retiring(u) = Retiring(loops) \cup {x} /\ RetiredOnce(u)
    BY <1>5, <3>3, <3>40, <3>59 DEF PushedAs
  <3>7. \A h : Lefts(u, h) = IF x = h THEN Lefts(loops, h) \cup {svc[x].links} ELSE Lefts(loops, h)
    BY <3>3, <3>40, <3>59 DEF PushedAs
  <3>8. Lefts(u, x) = {svc[x].links}  BY <1>5, <3>7
  <3>9. u \in Seq(Walks) /\ \E y \in svc[x].links : TRUE  BY <2>2, <3>59 DEF PushedAs
  <3>. QED  BY <3>6, <3>7, <3>8, <3>9
 <2>. QED  BY <1>1, <2>1, <2>2
<1>7. LoopsSound(svc', u, torn)
 <2>1. svc[x].links # {} => svc[x].there /\ svc[x].remote  BY DEF Inv, LinksAreRemote
 <2>2. \A h \in On(u) : svc'[h].there /\ svc'[h].remote
   BY <1>3, <1>5, <1>6, <2>1 DEF Inv, Linked, LoopsSound, SameShape
 <2>3. \A h \in Retiring(u) : ~svc'[h].alive  BY <1>3, <1>5, <1>6 DEF Inv, Linked, LoopsSound
 <2>4. \A h \in Handles \ torn : \A L \in Lefts(u, h) : L \subseteq svc'[h].links
   BY <1>3, <1>6 DEF Inv, Linked, LoopsSound
 <2>. QED  BY <1>6, <2>2, <2>3, <2>4 DEF LoopsSound
<1>8. EndsFit(svc', u, torn, ends)
 <2>. SUFFICES ASSUME NEW h \in Handles \ torn, NEW p \in Recipients
               PROVE  ends[h][p] = IF p \in svc'[h].links /\ \A L \in Lefts(u, h) : p \in L
                                   THEN 1 ELSE 0
   BY DEF EndsFit
 <2>1. ends[h][p] = IF p \in svc[h].links /\ \A L \in Lefts(loops, h) : p \in L THEN 1 ELSE 0
   BY DEF Inv, Linked, EndsFit
 <2>2. CASE h # x  BY <1>3, <1>6, <2>1, <2>2
 <2>3. CASE h = x  BY <1>3, <1>5, <1>6, <2>1, <2>3
 <2>. QED  BY <2>2, <2>3
<1>9. Linked'  BY <1>1, <1>4, <1>7, <1>8 DEF Linked
<1>10. \A h \in Handles : svc'[h].links # {} => svc'[h].remote /\ svc'[h].there
  BY <1>3 DEF Inv, LinksAreRemote, SameShape
<1>11. /\ byName' \in [ServiceNames -> 0..MaxBinders]
       /\ \A n \in ServiceNames : byName'[n] = byName[n] \/ byName'[n] = 0
       /\ ends' \in [Handles -> [Recipients -> Nat]] /\ torn' \subseteq Handles
  BY <1>1 DEF Inv, Others, Bounds
<1>12. loops' \in Seq(Walks)  BY <1>4, <1>6
<1>. QED  BY <1>1, <1>3, <1>9, <1>10, <1>11, <1>12, RestOfLinks

\* A delivery that failed marks the binder dead, and nothing else.
LEMMA DeliveryFailsInv ==
  ASSUME Bounds, Inv, NEW x \in Handles, DeliveryFails(x)
  PROVE  Inv'
<1>1. /\ svc' = [svc EXCEPT ![x].alive = FALSE]
      /\ UNCHANGED <<byName, removed, weak, frames, held, destroyed, ends, walks>>
  BY DEF DeliveryFails
<1>2. svc \in Binders  BY DEF Inv, Settled, Sound, Typed
<1>3. /\ svc' \in Binders /\ SameShape(svc, svc')
      /\ \A h \in Handles : /\ svc'[h].ref = svc[h].ref /\ svc'[h].links = svc[h].links
                            /\ svc'[h].alive => svc[h].alive
  BY <1>1, <1>2 DEF Binders, SameShape
<1>4. Settled'  BY <1>1, <1>3, LinkStep
<1>5. Others' /\ InOrder' /\ LinksAreRemote' /\ NamesResolve' /\ Linked'
  BY <1>1, <1>3, RestKept DEF SameShape
<1>. QED  BY <1>4, <1>5 DEF Inv

\* linkToDeath of a remote binder that is alive, so that nothing retires it,
\* for a recipient it does not have yet.
LEMMA LinkToDeathInv ==
  ASSUME Bounds, Inv, NEW x \in Handles, NEW r \in Recipients, LinkToDeath(x, r)
  PROVE  Inv'
<1>1. PICK row : row = [ends[x] EXCEPT ![r] = @ + 1]  OBVIOUS
<1>2. PICK t : t = torn'  OBVIOUS
<1>3. /\ svc[x].there /\ svc[x].remote /\ svc[x].alive /\ r \notin svc[x].links
      /\ svc' = [svc EXCEPT ![x].links = @ \cup {r}]
      /\ t = TornBy(x, loops) /\ Owed(x, row, t)
      /\ UNCHANGED <<byName, removed, weak, frames, held, destroyed, loops>>
  BY <1>1, <1>2 DEF LinkToDeath, Usable
<1>4. svc \in Binders /\ ends \in [Handles -> [Recipients -> Nat]] /\ torn \subseteq Handles
      /\ byName \in [ServiceNames -> 0..MaxBinders] /\ loops \in Seq(Walks)
  BY DEF Inv, Settled, Sound, Typed, Others
<1>5. PICK ls : ls = svc[x].links \cup {r}  OBVIOUS
<1>6. /\ svc' \in Binders /\ SameShape(svc, svc')
      /\ \A h \in Handles : svc'[h].ref = svc[h].ref /\ svc'[h].alive = svc[h].alive
      /\ svc'[x].links = svc[x].links \cup {r}
      /\ \A h \in Handles \ {x} : svc'[h].links = svc[h].links
 <2>1. svc[x].links \in SUBSET Recipients  BY <1>4 DEF Binders
 <2>2. ls \in SUBSET Recipients /\ svc' = [svc EXCEPT ![x].links = ls]  BY <1>3, <1>5, <2>1
 <2>. QED  BY <1>5, <2>2, LinksUpdate
<1>7. /\ torn \subseteq t /\ t \subseteq torn \cup {x}  BY <1>3, TornIs
<1>8. Lefts(loops, x) = {} /\ On(loops) \subseteq Handles /\ Retiring(loops) \subseteq Handles
  BY <1>3, <1>4, NotRetiring, OnHandles, RetiringIsOn DEF Inv, Linked, LoopsSound
<1>9. row \in [Recipients -> Nat] /\ row[r] = ends[x][r] + 1
      /\ \A p \in Recipients \ {r} : row[p] = ends[x][p]
 <2>1. ends[x] \in [Recipients -> Nat]  BY <1>4
 <2>. QED  BY <1>1, <2>1
<1>10. /\ ends' \in [Handles -> [Recipients -> Nat]]
       /\ x \notin t => ends'[x] = row
       /\ \A h \in Handles \ {x} : ends'[h] = ends[h]
  BY <1>3, <1>9, OwedFacts
<1>11. LoopsSound(svc', loops, t)  BY <1>6, <1>7, <1>8 DEF Inv, Linked, LoopsSound, SameShape
<1>12. EndsFit(svc', loops, t, ends')
 <2>. SUFFICES ASSUME NEW h \in Handles \ t, NEW p \in Recipients
               PROVE  ends'[h][p] = IF p \in svc'[h].links /\ \A L \in Lefts(loops, h) : p \in L
                                    THEN 1 ELSE 0
   BY DEF EndsFit
 <2>1. ends[h][p] = IF p \in svc[h].links /\ \A L \in Lefts(loops, h) : p \in L THEN 1 ELSE 0
   BY <1>7 DEF Inv, Linked, EndsFit
 <2>2. CASE h # x  BY <1>6, <1>10, <2>1, <2>2
 <2>3. CASE h = x /\ p = r  BY <1>3, <1>6, <1>8, <1>9, <1>10, <2>1, <2>3
 <2>4. CASE h = x /\ p # r  BY <1>6, <1>9, <1>10, <2>1, <2>4
 <2>. QED  BY <2>2, <2>3, <2>4
<1>13. Linked'  BY <1>2, <1>3, <1>11, <1>12 DEF Linked
<1>14. \A h \in Handles : svc'[h].links # {} => svc'[h].remote /\ svc'[h].there
 <2>1. \A h \in Handles : svc'[h].links # {} => svc[h].links # {} \/ h = x  BY <1>6
 <2>. QED  BY <1>3, <1>6, <2>1 DEF Inv, LinksAreRemote, SameShape
<1>15. torn' \subseteq Handles  BY <1>2, <1>4, <1>7
<1>. QED  BY <1>3, <1>4, <1>6, <1>10, <1>13, <1>14, <1>15, RestOfLinks

\* A lookup hands out the live remote binder of the name, drops a stale name
\* that was removed, or makes a new remote binder.
LEMMA LookupInv ==
  ASSUME Bounds, Inv, NEW n \in ServiceNames, Lookup(n)
  PROVE  Inv'
<1>. DEFINE old == byName[n]
            found == old # 0 /\ svc[old].there /\ svc[old].alive
<1>0. /\ svc \in Binders /\ frames \in Stacks /\ destroyed \in [Handles -> Nat]
      /\ held \in [Handles -> Nat] /\ 0 \notin Handles /\ 0 \in 0..MaxBinders
      /\ old \in 0..MaxBinders /\ (old # 0 => old \in Handles)
  BY DEF Inv, Settled, Sound, Typed, Others, Bounds, Handles
<1>1. CASE found
 <2>1. /\ svc[old].remote /\ held' = [held EXCEPT ![old] = @ + 1] /\ old \in Handles
       /\ svc' = svc /\ frames' = frames /\ destroyed' = destroyed
       /\ UNCHANGED <<byName, removed, weak, ends, walks>>
   BY <1>0, <1>1 DEF Lookup
 <2>2. Sound(svc, frames, held, destroyed, 0)  BY DEF Inv, Settled
 <2>3. old \notin Leaving(frames)  BY <2>1, <2>2 DEF Sound, StackSound
 <2>4. /\ held' \in [Handles -> Nat] /\ \A h \in Handles : h # old => held'[h] = held[h]
   BY <1>0, <2>1
 <2>5. ReferredIsThere(svc, frames, held', 0)
   BY <1>1, <2>2, <2>3, <2>4 DEF Sound, ReferredIsThere
 <2>6. Counted(svc, frames, held', 0)  BY <2>1, <2>2, <2>4 DEF Sound, Counted, Counting
 <2>7. Settled'  BY <2>1, <2>2, <2>4, <2>5, <2>6 DEF Settled, Sound, Typed
 <2>8. Others' /\ InOrder' /\ LinksAreRemote' /\ NamesResolve' /\ Linked'  BY <2>1, RestKept
 <2>. QED  BY <2>7, <2>8 DEF Inv
<1>2. CASE ~found /\ n \in removed
 <2>1. /\ byName' = [byName EXCEPT ![n] = 0]
       /\ UNCHANGED <<svc, removed, weak, frames, held, destroyed, ends, loops, torn>>
   BY <1>2 DEF Lookup, walks
 <2>2. Settled' /\ InOrder' /\ LinksAreRemote' /\ Linked'
   BY <2>1 DEF Inv, Settled, InOrder, LinksAreRemote, Linked
 <2>3. Others' /\ NamesResolve'  BY <1>0, <2>1 DEF Inv, Others, NamesResolve
 <2>. QED  BY <2>2, <2>3 DEF Inv
<1>3. CASE ~found /\ n \notin removed
 <2>. DEFINE b == [Absent EXCEPT !.there = TRUE, !.remote = TRUE, !.alive = TRUE, !.ref = 1]
 <2>1. /\ Fresh \in Handles /\ svc' = [svc EXCEPT ![Fresh] = b]
       /\ byName' = [byName EXCEPT ![n] = Fresh] /\ held' = [held EXCEPT ![Fresh] = 1]
       /\ UNCHANGED <<removed, weak, frames, destroyed, ends>> /\ Rehash
   BY <1>3 DEF Lookup, Remote
 <2>2. /\ b \in [there : BOOLEAN, remote : BOOLEAN, alive : BOOLEAN,
                 ref : Nat, ext : 0..MaxBinders, links : SUBSET Recipients]
       /\ b.there /\ b.ref = 1 /\ b.ext = 0 /\ b.links = {}
   BY <1>0 DEF Absent
 <2>. HIDE DEF b
 <2>. QED  BY <1>3, <2>1, <2>2, CreateInv
<1>. QED  BY <1>1, <1>2, <1>3

\* AIBinder_new.
LEMMA NewInv ==
  ASSUME Bounds, Inv, New
  PROVE  Inv'
<1>. DEFINE b == [Absent EXCEPT !.there = TRUE, !.alive = TRUE, !.ref = 1]
<1>1. /\ Fresh \in Handles /\ svc' = [svc EXCEPT ![Fresh] = b]
      /\ byName' = byName /\ held' = [held EXCEPT ![Fresh] = 1]
      /\ UNCHANGED <<removed, weak, frames, destroyed, ends>> /\ Rehash
  BY DEF New
<1>2. /\ b \in [there : BOOLEAN, remote : BOOLEAN, alive : BOOLEAN,
                ref : Nat, ext : 0..MaxBinders, links : SUBSET Recipients]
      /\ b.there /\ b.ref = 1 /\ b.ext = 0 /\ b.links = {}
 <2>1. 0 \in 0..MaxBinders  BY DEF Bounds
 <2>. QED  BY <2>1 DEF Absent
<1>. HIDE DEF b
<1>. QED  BY <1>1, <1>2, CreateInv

\* addService names a binder that is there, and the name is not a removed one
\* any more.
LEMMA AddServiceInv ==
  ASSUME Bounds, Inv, NEW n \in ServiceNames, NEW x \in Handles, AddService(n, x)
  PROVE  Inv'
<1>1. /\ svc[x].there /\ byName' = [byName EXCEPT ![n] = x] /\ removed' = removed \ {n}
      /\ UNCHANGED <<svc, weak, frames, held, destroyed, ends, loops, torn>>
  BY DEF AddService, Usable, walks
<1>2. x \in 0..MaxBinders  BY DEF Handles, Bounds
<1>3. Settled' /\ InOrder' /\ LinksAreRemote' /\ Linked'
  BY <1>1 DEF Inv, Settled, InOrder, LinksAreRemote, Linked
<1>4. Others' /\ NamesResolve'  BY <1>1, <1>2 DEF Inv, Others, NamesResolve
<1>. QED  BY <1>3, <1>4 DEF Inv

\* The weak handles are counted nowhere.
LEMMA WeakInv ==
  ASSUME Inv, weak' \subseteq Handles,
         UNCHANGED <<svc, byName, removed, frames, held, destroyed, ends, walks>>
  PROVE  Inv'
<1>1. loops' = loops /\ torn' = torn  BY DEF walks
<1>. QED  BY <1>1 DEF Inv, Settled, Others, InOrder, LinksAreRemote, NamesResolve, Linked

----
(* The specification. *)

\* Nothing is there at the start.
LEMMA InitInv == Bounds /\ Init => Inv
<1>. SUFFICES ASSUME Bounds, Init PROVE Inv  OBVIOUS
<1>1. Absent \in [there : BOOLEAN, remote : BOOLEAN, alive : BOOLEAN,
                  ref : Nat, ext : 0..MaxBinders, links : SUBSET Recipients]
  BY DEF Absent, Bounds
<1>2. ~Absent.there /\ Absent.links = {}  BY DEF Absent
<1>3. \A h \in Handles : svc[h] = Absent /\ held[h] = 0 /\ destroyed[h] = 0  BY DEF Init
<1>4. frames = <<>> /\ Leaving(frames) = {} /\ 0 \in 0..MaxBinders /\ 0 \notin Handles
  BY DEF Init, Leaving, Bounds, Handles
<1>5. Typed(svc, frames, held, destroyed, 0)  BY <1>1, <1>4 DEF Init, Typed, Binders, Stacks
<1>6. \A h : Referrers(svc, h) = {}  BY <1>2, <1>3 DEF Referrers
<1>7. StackSound(svc, frames, destroyed) /\ DestroyedOnce(svc, frames, destroyed)
  BY <1>2, <1>3, <1>4 DEF StackSound, DestroyedOnce
<1>8. ReferredIsThere(svc, frames, held, 0) /\ Counted(svc, frames, held, 0)
  BY <1>2, <1>3, <1>4, <1>6 DEF ReferredIsThere, Counted, Counting
<1>9. InOrder
 <2>1. \A h \in Handles : ~(h <= 0)  BY DEF Handles, Bounds
 <2>. QED  BY <1>2, <1>3, <1>4, <2>1 DEF InOrder
<1>10. LinksAreRemote /\ NamesResolve  BY <1>2, <1>3 DEF Init, LinksAreRemote, NamesResolve
<1>100. Linked
 <2>1. loops = <<>> /\ torn = {} /\ \A h \in Handles, r \in Recipients : ends[h][r] = 0
   BY DEF Init
 <2>2. On(loops) = {} /\ Retiring(loops) = {} /\ RetiredOnce(loops) /\ \A h : Lefts(loops, h) = {}
   BY <2>1 DEF On, Retiring, RetiredOnce, Lefts
 <2>. QED  BY <1>2, <1>3, <2>1, <2>2 DEF Linked, LoopsSound, EndsFit
<1>11. Others  BY <1>4 DEF Init, Others
<1>. QED  BY <1>5, <1>7, <1>8, <1>9, <1>10, <1>100, <1>11 DEF Inv, Settled, Sound

\* Every call of the guest, and every return of onDestroy, keeps it.
LEMMA NextInv ==
  ASSUME Bounds, Inv, [Next]_vars
  PROVE  Inv'
<1>1. CASE OnDestroyReturns  BY <1>1, OnDestroyReturnsInv
<1>2. CASE New  BY <1>2, NewInv
<1>3. CASE \E n \in ServiceNames : Lookup(n)  BY <1>3, LookupInv
<1>4. CASE \E n \in ServiceNames, h \in Handles : AddService(n, h)  BY <1>4, AddServiceInv
<1>5. CASE \E h \in Handles : IncStrong(h) \/ WeakPromote(h)
  BY <1>5, GrabInv, DyingLeaving DEF IncStrong, WeakPromote, Usable
<1>6. ASSUME NEW h \in Handles, GetExtension(h) PROVE Inv'
 <2>1. PICK e : e = svc[h].ext  OBVIOUS
 <2>2. e # 0 /\ svc[h].there /\ svc[e].there /\ Grab(e)  BY <1>6, <2>1 DEF GetExtension, Usable
 <2>3. e \in Handles
  <3>1. svc \in Binders  BY DEF Inv, Settled, Sound, Typed
  <3>2. e \in 0..MaxBinders  BY <2>1, <3>1 DEF Binders
  <3>. QED  BY <2>2, <3>2 DEF Handles, Bounds
 <2>4. h \in Referrers(svc, e)  BY <2>1, <2>2 DEF Referrers
 <2>5. e \notin Leaving(frames)  BY <2>3, <2>4 DEF Inv, Settled, Sound, ReferredIsThere
 <2>. QED  BY <2>2, <2>3, <2>5, GrabInv
<1>7. CASE \E h \in Handles : DecStrong(h)  BY <1>7, DecStrongInv
<1>8. CASE \E h \in Handles : WeakNew(h) \/ WeakDelete(h)
  BY <1>8, WeakInv DEF WeakNew, WeakDelete, Inv, Others
<1>9. CASE \E h \in Handles : Kill(h)  BY <1>9, KillInv
<1>10. CASE \E h \in Handles : DeliveryFails(h)  BY <1>10, DeliveryFailsInv
<1>11. CASE \E h, e \in Handles : SetExtension(h, e)  BY <1>11, SetExtensionInv
<1>12. CASE \E h \in Handles, r \in Recipients : LinkToDeath(h, r)  BY <1>12, LinkToDeathInv
<1>13. CASE \E h \in Handles, r \in Recipients : UnlinkToDeath(h, r)  BY <1>13, UnlinkToDeathInv
<1>14. CASE \E r \in Recipients : DeleteRecipient(r) \/ NextDies(r)
  BY <1>14, DeleteRecipientInv, NextDiesInv
<1>140. CASE \E h \in Handles : DeletionGoesOn(h)  BY <1>140, DeletionGoesOnInv
<1>141. CASE DeletionEnds \/ DiedReturns \/ Retired
  BY <1>141, DeletionEndsInv, DiedReturnsInv, RetiredInv
<1>15. CASE UNCHANGED vars
  BY <1>15 DEF vars, walks, Inv, Settled, Others, InOrder, LinksAreRemote, NamesResolve, Linked
<1>. QED
  BY <1>1, <1>2, <1>3, <1>4, <1>5, <1>6, <1>7, <1>8, <1>9, <1>10, <1>11, <1>12, <1>13, <1>14,
     <1>140, <1>141, <1>15 DEF Next

\* The releases on the stack that will give up a reference to h are as many
\* as the binders on their way out that have h as their extension.
LEMMA PendingCount ==
  ASSUME Bounds, Inv, NEW x \in Handles
  PROVE  /\ IsFiniteSet(Pending(x))
         /\ Cardinality(Pending(x)) = Cardinality({y \in Leaving(frames) : svc[y].ext = x})
<1>. DEFINE L == {y \in Leaving(frames) : svc[y].ext = x}
            f == [i \in Pending(x) |-> frames[i].h]
<1>1. /\ frames \in Stacks /\ Len(frames) \in Nat /\ DOMAIN frames = 1..Len(frames)
  BY DEF Inv, Settled, Sound, Typed, Stacks
<1>2. IsFiniteSet(Pending(x))
 <2>1. Pending(x) \in SUBSET (1..Len(frames))  BY <1>1 DEF Pending
 <2>2. IsFiniteSet(1..Len(frames))  BY <1>1, FS_Interval
 <2>. QED  BY <2>1, <2>2, FS_Subset
<1>3. /\ \A i, j \in DOMAIN frames : frames[i].h = frames[j].h => i = j
      /\ \A i \in DOMAIN frames : frames[i].ext = svc[frames[i].h].ext
  BY DEF Inv, Settled, Sound, StackSound
<1>4. f \in [Pending(x) -> L]  BY <1>3 DEF Pending, Leaving
<1>5. \A y \in L : \E i \in Pending(x) : f[i] = y
 <2>. SUFFICES ASSUME NEW y \in L PROVE \E i \in Pending(x) : f[i] = y  OBVIOUS
 <2>1. PICK i \in DOMAIN frames : frames[i].h = y  BY DEF Leaving
 <2>2. i \in Pending(x)  BY <1>3, <2>1 DEF Pending
 <2>. QED  BY <2>1, <2>2
<1>6. f \in Surjection(Pending(x), L)  BY <1>4, <1>5 DEF Surjection
<1>7. f \in Injection(Pending(x), L)
 <2>1. \A i, j \in Pending(x) : f[i] = f[j] => i = j  BY <1>3 DEF Pending
 <2>. QED  BY <1>4, <2>1 DEF Injection, IsInjective
<1>. HIDE DEF f, L
<1>8. Cardinality(L) = Cardinality(Pending(x))  BY <1>2, <1>6, <1>7, FS_Surjection
<1>. QED  BY <1>2, <1>8 DEF L

\* The references to a binder are those of binders that stay and those that
\* releases on the stack will give up.
LEMMA CountsExactHolds ==
  ASSUME Bounds, Inv
  PROVE  CountsExact
<1>. SUFFICES ASSUME NEW x \in Handles \ Dying, svc[x].there, ~svc[x].remote
              PROVE  svc[x].ref = held[x] + Cardinality(Extended(x)) + Cardinality(Pending(x))
  BY DEF CountsExact
<1>. DEFINE L == {y \in Leaving(frames) : svc[y].ext = x}
<1>1. /\ held \in [Handles -> Nat] /\ 0 \notin Handles /\ Leaving(frames) \subseteq Handles
  BY StackOfHandles DEF Inv, Settled, Sound, Typed, Bounds, Handles
<1>2. /\ Referrers(svc, x) = Extended(x) \cup L /\ Extended(x) \cap L = {}
      /\ Extended(x) \in SUBSET Handles /\ L \in SUBSET Handles
 <2>1. \A y \in Leaving(frames) : svc[y].there  BY DEF Inv, Settled, Sound, StackSound
 <2>2. \A y \in Handles : y \in Referrers(svc, x) <=> y \in Extended(x) \/ y \in L
   BY <2>1, DyingLeaving DEF Referrers, Extended
 <2>3. Extended(x) \cap L = {}  BY DyingLeaving DEF Extended
 <2>4. Extended(x) \in SUBSET Handles /\ L \in SUBSET Handles  BY <1>1 DEF Extended
 <2>. QED  BY <2>2, <2>3, <2>4, ReferrersAreHandles
<1>3. Cardinality(L) = Cardinality(Pending(x))  BY PendingCount
<1>. HIDE DEF L
<1>4. /\ IsFiniteSet(Extended(x)) /\ IsFiniteSet(L)
      /\ Cardinality(Extended(x)) \in Nat /\ Cardinality(L) \in Nat
  BY <1>2, HandleSets
<1>5. Cardinality(Referrers(svc, x)) = Cardinality(Extended(x)) + Cardinality(L)
 <2>1. Cardinality(Extended(x) \cap L) = 0  BY <1>2, FS_EmptySet
 <2>2. Cardinality(Extended(x) \cup L) = Cardinality(Extended(x)) + Cardinality(L)
                                           - Cardinality(Extended(x) \cap L)
   BY <1>4, FS_Union
 <2>. QED  BY <1>2, <1>4, <2>1, <2>2
<1>6. svc[x].ref = held[x] + Cardinality(Referrers(svc, x))
 <2>1. Counting(svc, frames, x) /\ x # 0  BY <1>1, DyingLeaving DEF Counting
 <2>2. held[x] \in Nat /\ Cardinality(Referrers(svc, x)) \in Nat  BY <1>1, <1>4, <1>5
 <2>. QED  BY <2>1, <2>2 DEF Inv, Settled, Sound, Counted
<1>7. held[x] \in Nat  BY <1>1
<1>. QED  BY <1>3, <1>4, <1>5, <1>6, <1>7

\* What the guest or another binder refers to is there, and onDestroy was
\* called once for what left.
LEMMA HeldIsLiveHolds ==
  ASSUME Bounds, Inv
  PROVE  HeldIsLive
<1>. SUFFICES ASSUME NEW x \in Handles
              PROVE  /\ held[x] > 0 \/ Extended(x) # {} => svc[x].there /\ x \notin Dying
                     /\ destroyed[x] = IF x \in Dying \/ (destroyed[x] > 0 /\ ~svc[x].there)
                                       THEN 1 ELSE 0
  BY DEF HeldIsLive
<1>1. Extended(x) \subseteq Referrers(svc, x)  BY DEF Extended, Referrers
<1>2. held[x] > 0 \/ Extended(x) # {} => svc[x].there /\ x \notin Dying
  BY <1>1, DyingLeaving DEF Inv, Settled, Sound, ReferredIsThere
<1>3. /\ destroyed[x] \in Nat /\ destroyed[x] <= 1
      /\ svc[x].there /\ x \notin Dying => destroyed[x] = 0
      /\ x \in Dying => destroyed[x] = 1
  BY DyingLeaving DEF Inv, Settled, Sound, Typed, DestroyedOnce, StackSound
<1>. QED  BY <1>2, <1>3

\* The type invariant, from the invariant.
LEMMA TypeHolds == Inv => TypeOK
BY DEF Inv, Settled, Sound, Typed, Binders, Stacks, Releases, Others, Walks, TypeOK

\* The links no loop has told are those with a call to come.
LEMMA LinksEndOnceHolds == Inv => LinksEndOnce
<1>. SUFFICES ASSUME Inv, NEW h \in Handles \ torn, NEW r \in Recipients
              PROVE  ends[h][r] = IF r \in Untold(h) THEN 1 ELSE 0
  BY DEF LinksEndOnce
<1>1. r \in Untold(h) <=> r \in svc[h].links /\ \A L \in Lefts(loops, h) : r \in L
  BY DEF Untold, Lefts
<1>. QED  BY <1>1 DEF Inv, Linked, EndsFit

\* The variables of the binder objects keep their types, for any number of
\* handles, names and recipients and any stack of releases.
THEOREM BinderTypes ==
  ASSUME Bounds
  PROVE  Spec => []TypeOK
<1>. QED  BY InitInv, NextInv, TypeHolds, PTL DEF Spec

\* Reference counts are what the guest and other binders refer to, onDestroy
\* is called once for every local binder that goes and for no other, a name
\* stands for a binder that is there, and every death link ends once, however
\* releases nest in onDestroy and calls in the callbacks of death links, on
\* every binder whose vector of links no callback changed under a loop
\* (release_binder_strong(), setExtension(), linkToDeath(), retire_service(),
\* remove_recipient_links()).
THEOREM BindersStaySound ==
  ASSUME Bounds
  PROVE  Spec => []BindersSound
<1>1. Inv => BindersSound
  BY CountsExactHolds, HeldIsLiveHolds, LinksEndOnceHolds DEF Inv, BindersSound
<1>. QED  BY <1>1, InitInv, NextInv, PTL DEF Spec

----
(* The stubs handed out by name, for ranges of any size, any libraries,    *)
(* names and exports.                                                      *)

CONSTANTS Libraries, Names, Exports, HostProcs, Imports, ProcBase, ProcLimit, ImportLimit,
          MaxStubs, MaxHandles
VARIABLES procs, imported, arena, handlers, nextProc, nextImport, opened, nextHandle, mine, pointers

Stubs == INSTANCE StubTable WITH held <- pointers

\* The ranges follow each other, and no library has the name that stands for
\* a search of all of them.
Ranges ==
    /\ ProcBase \in Nat /\ ProcLimit \in Nat /\ ImportLimit \in Nat
    /\ ProcBase <= ProcLimit /\ ProcLimit <= ImportLimit
    /\ \A n \in Names : <<Stubs!Anywhere, n>> \notin Exports

\* Every number in use was handed out by its counter: below ProcLimit by
\* nextProc; from there on by nextImport, unless dlsym has overrun.
NumbersCounted ==
    /\ ProcBase <= nextProc
    /\ \A i \in DOMAIN arena :
         /\ arena[i] < ProcLimit => arena[i] < nextProc
         /\ nextProc <= ProcLimit => arena[i] < nextImport

\* The stub of a name in __procaddr__ has a number of the range.
ProcsInRange ==
    \A n \in DOMAIN procs :
        arena[procs[n]] < ProcLimit /\ handlers[arena[procs[n]]] = Stubs!Proc(n)
ImportsInRange == \A n \in DOMAIN imported : arena[imported[n]] >= ProcLimit

\* What the guest holds was registered or written.
HeldPlaces ==
    \A p \in pointers : p.place.at = 0 \/ p.place.at \in DOMAIN arena

StubsInv ==
    /\ Stubs!TypeOK /\ NumbersCounted /\ ProcsInRange /\ ImportsInRange /\ HeldPlaces
    /\ Stubs!StubsSound

\* The invariant holds at the start.
LEMMA StubsInit == Ranges /\ Stubs!Init => StubsInv
  BY DEF Ranges, Stubs!Init, StubsInv, Stubs!TypeOK, NumbersCounted, ProcsInRange, ImportsInRange,
     HeldPlaces, Stubs!StubsSound, Stubs!PointersKeepTheirMeaning, Stubs!ImportsAbort,
     Stubs!HandlesKeepTheirLibrary

\* What write_stub() leaves alone and what it adds.
Adds(nr, meaning) ==
    /\ arena' \in Seq(Nat) /\ Len(arena) \in Nat
    /\ DOMAIN arena = 1 .. Len(arena) /\ DOMAIN arena' = 1 .. Len(arena) + 1
    /\ arena'[Len(arena) + 1] = nr
    /\ \A i \in DOMAIN arena : arena'[i] = arena[i] /\ arena[i] \in Nat
    /\ DOMAIN handlers' = DOMAIN handlers \cup {nr}
    /\ handlers'[nr] = meaning
    /\ \A n \in DOMAIN handlers : n # nr => handlers'[n] = handlers[n]

\* What a written stub leaves behind.
LEMMA WriteStubFacts ==
  ASSUME Stubs!TypeOK, NEW nr \in Nat, NEW meaning, Stubs!WriteStub(nr, meaning)
  PROVE  Adds(nr, meaning)
  BY AppendProperties, LenProperties DEF Stubs!TypeOK, Stubs!WriteStub, Stubs!Stored, Adds

\* A stub with the next number of either range: what the tables and the guest
\* held before is as it was.
Kept ==
    /\ \A n \in DOMAIN procs : /\ procs[n] \in DOMAIN arena'
                               /\ arena'[procs[n]] < ProcLimit
                               /\ handlers'[arena'[procs[n]]] = Stubs!Proc(n)
    /\ \A n \in DOMAIN imported : /\ imported[n] \in DOMAIN arena'
                                  /\ arena'[imported[n]] >= ProcLimit
    /\ \A i \in DOMAIN arena' : arena'[i] \in DOMAIN handlers'
    /\ \A p \in pointers :
         /\ p.place.at = 0 \/ p.place.at \in DOMAIN arena'
         /\ p.place.at > 0 /\ arena'[p.place.at] < ProcLimit
              => handlers'[arena'[p.place.at]] = Stubs!Proc(p.name)

\* A stub written at a fresh place keeps the invariant.
LEMMA WriteKeeps ==
  ASSUME Ranges, StubsInv, NEW nr \in Nat, NEW meaning,
         Stubs!WriteStub(nr, meaning), nr = nextProc \/ nr = nextImport
  PROVE  Kept
<1>1. Adds(nr, meaning)  BY WriteStubFacts DEF StubsInv
<1>2. ASSUME NEW i \in DOMAIN arena, arena[i] < ProcLimit
      PROVE  arena'[i] = arena[i] /\ handlers'[arena'[i]] = handlers[arena[i]]
 <2>1. arena[i] # nr  BY <1>1, <1>2 DEF Adds, StubsInv, Stubs!TypeOK, NumbersCounted, Ranges
 <2>. QED  BY <1>1, <1>2, <2>1 DEF Adds, StubsInv, Stubs!TypeOK
<1>3. \A n \in DOMAIN procs : /\ procs[n] \in DOMAIN arena'
                              /\ arena'[procs[n]] < ProcLimit
                              /\ handlers'[arena'[procs[n]]] = Stubs!Proc(n)
  BY <1>1, <1>2 DEF Adds, StubsInv, Stubs!TypeOK, ProcsInRange
<1>4. \A n \in DOMAIN imported : /\ imported[n] \in DOMAIN arena'
                                 /\ arena'[imported[n]] >= ProcLimit
  BY <1>1 DEF Adds, StubsInv, Stubs!TypeOK, ImportsInRange
<1>5. \A i \in DOMAIN arena' : arena'[i] \in DOMAIN handlers'
  BY <1>1 DEF Adds, StubsInv, Stubs!TypeOK
<1>6. ASSUME NEW p \in pointers
      PROVE  /\ p.place.at = 0 \/ p.place.at \in DOMAIN arena'
             /\ p.place.at > 0 /\ arena'[p.place.at] < ProcLimit
                  => handlers'[arena'[p.place.at]] = Stubs!Proc(p.name)
 <2>1. p.place.at = 0 \/ p.place.at \in DOMAIN arena  BY DEF StubsInv, HeldPlaces
 <2>2. p.place.at > 0 /\ arena[p.place.at] < ProcLimit
         => handlers[arena[p.place.at]] = Stubs!Proc(p.name)
   BY DEF StubsInv, Stubs!StubsSound, Stubs!PointersKeepTheirMeaning
 <2>. QED  BY <1>1, <1>2, <2>1, <2>2 DEF Adds
<1>. QED  BY <1>3, <1>4, <1>5, <1>6 DEF Kept

\* A number that its counter has passed keeps the numbers counted.
LEMMA WriteCounts ==
  ASSUME Ranges, StubsInv, NEW nr \in Nat, NEW meaning, Adds(nr, meaning),
         nextProc' \in Nat, nextImport' \in Nat,
         nextProc <= nextProc', nextImport <= nextImport',
         nr < ProcLimit => nr < nextProc',
         nextProc' <= ProcLimit => nr < nextImport'
  PROVE  NumbersCounted'
<1>1. /\ nextProc \in Nat /\ nextImport \in Nat /\ ProcLimit \in Nat /\ ProcBase \in Nat
      /\ ProcBase <= nextProc
  BY DEF StubsInv, Stubs!TypeOK, Ranges, NumbersCounted
<1>2. ProcBase <= nextProc'  BY <1>1
<1>3. ASSUME NEW i \in DOMAIN arena'
      PROVE  /\ arena'[i] < ProcLimit => arena'[i] < nextProc'
             /\ nextProc' <= ProcLimit => arena'[i] < nextImport'
 <2>1. i \in DOMAIN arena \/ i = Len(arena) + 1  BY DEF Adds
 <2>2. CASE i \in DOMAIN arena
  <3>1. PICK k \in Nat : k = arena[i] /\ arena'[i] = k  BY <2>2 DEF Adds
  <3>2. (k < ProcLimit => k < nextProc) /\ (nextProc <= ProcLimit => k < nextImport)
    BY <2>2, <3>1 DEF StubsInv, NumbersCounted
  <3>. QED  BY <1>1, <3>1, <3>2
 <2>3. CASE i = Len(arena) + 1  BY <2>3 DEF Adds
 <2>. QED  BY <2>1, <2>2, <2>3
<1>. QED  BY <1>2, <1>3 DEF NumbersCounted

\* The guest gets a stub that is written in the same step; lib does not have
\* the name.
LEMMA NewPointer ==
  ASSUME Ranges, StubsInv, NEW name \in Names, NEW lib, <<lib, name>> \notin Exports,
         Stubs!WriteStub(nextProc, Stubs!Proc(name)), Stubs!Holds(lib, name,
         Stubs!Written(Len(arena) + 1))
  PROVE  HeldPlaces' /\ Stubs!PointersKeepTheirMeaning'
<1>. DEFINE at == Len(arena) + 1
            new == [lib |-> lib, name |-> name, place |-> Stubs!Written(at)]
<1>1. Adds(nextProc, Stubs!Proc(name)) /\ Kept
  BY WriteStubFacts, WriteKeeps DEF StubsInv, Stubs!TypeOK
<1>2. pointers' = pointers \cup {new}  BY DEF Stubs!Holds
<1>3. new.place.at = at /\ new.name = name /\ new.lib = lib  BY DEF Stubs!Written
<1>4. at > 0 /\ at # 0 /\ at \in DOMAIN arena' /\ handlers'[arena'[at]] = Stubs!Proc(name)
  BY <1>1 DEF Adds
<1>5. HeldPlaces'  BY <1>1, <1>2, <1>3, <1>4 DEF HeldPlaces, Kept
<1>6. ASSUME NEW p \in pointers
      PROVE  /\ <<p.lib, p.name>> \in Exports => p.place = Stubs!Registered(p.lib, p.name)
             /\ p.place.at = 0 => p.place.entry = p.name
  BY DEF StubsInv, Stubs!StubsSound, Stubs!PointersKeepTheirMeaning
<1>7. Stubs!PointersKeepTheirMeaning'
  BY <1>1, <1>2, <1>3, <1>4, <1>6 DEF Stubs!PointersKeepTheirMeaning, Kept
<1>. QED  BY <1>5, <1>7

\* eglGetProcAddress keeps it.
LEMMA EglGetProcAddressInv ==
  ASSUME Ranges, StubsInv, NEW name \in Names, Stubs!EglGetProcAddress(name)
  PROVE  StubsInv'
<1>. DEFINE at == Len(arena) + 1
<1>0. nextProc \in Nat /\ Stubs!WriteStub(nextProc, Stubs!Proc(name))
  BY DEF StubsInv, Stubs!TypeOK, Stubs!EglGetProcAddress
<1>1. Adds(nextProc, Stubs!Proc(name)) /\ Kept  BY <1>0, WriteStubFacts, WriteKeeps DEF StubsInv
<1>2. /\ procs' = Stubs!Stored(procs, name, at) /\ nextProc' = nextProc + 1
      /\ nextProc < ProcLimit /\ Stubs!Holds(Stubs!Anywhere, name, Stubs!Written(at))
      /\ UNCHANGED <<imported, nextImport, opened, nextHandle, mine>>
  BY DEF Stubs!EglGetProcAddress, Stubs!calls
<1>3. DOMAIN procs' = DOMAIN procs \cup {name} /\ procs'[name] = at
        /\ \A n \in DOMAIN procs : n # name => procs'[n] = procs[n]
  BY <1>2 DEF Stubs!Stored
<1>4. Stubs!TypeOK'
 <2>1. DOMAIN procs' \subseteq Names /\ \A n \in DOMAIN procs' : procs'[n] \in DOMAIN arena'
   BY <1>1, <1>3 DEF StubsInv, Stubs!TypeOK, Adds, Kept
 <2>2. \A n \in DOMAIN imported' : imported'[n] \in DOMAIN arena'  BY <1>1, <1>2 DEF Kept
 <2>. QED  BY <1>0, <1>1, <1>2, <2>1, <2>2 DEF StubsInv, Stubs!TypeOK, Adds, Kept
<1>5. NumbersCounted'
 <2>1. nextImport \in Nat /\ ProcLimit <= nextImport /\ ProcLimit \in Nat
   BY DEF StubsInv, Stubs!TypeOK, Ranges
 <2>. QED  BY <1>0, <1>1, <1>2, <2>1, WriteCounts
<1>6. ProcsInRange' /\ ImportsInRange'
  BY <1>1, <1>2, <1>3 DEF ProcsInRange, ImportsInRange, Adds, Kept
<1>7. HeldPlaces' /\ Stubs!PointersKeepTheirMeaning'  BY <1>0, <1>2, NewPointer DEF Ranges
<1>8. Stubs!ImportsAbort'
 <2>. SUFFICES ASSUME NEW n \in DOMAIN imported
               PROVE  handlers'[arena'[imported[n]]] = Stubs!Import(n)
   BY <1>2 DEF Stubs!ImportsAbort
 <2>1. /\ arena[imported[n]] >= ProcLimit /\ imported[n] \in DOMAIN arena
       /\ handlers[arena[imported[n]]] = Stubs!Import(n)
       /\ arena[imported[n]] \in DOMAIN handlers
   BY <1>2 DEF StubsInv, Stubs!TypeOK, Ranges, ImportsInRange, Stubs!StubsSound, Stubs!ImportsAbort
 <2>. QED  BY <1>0, <1>1, <1>2, <2>1 DEF Adds, Ranges
<1>9. Stubs!HandlesKeepTheirLibrary'
  BY <1>2 DEF StubsInv, Stubs!StubsSound, Stubs!HandlesKeepTheirLibrary
<1>. QED  BY <1>4, <1>5, <1>6, <1>7, <1>8, <1>9 DEF StubsInv, Stubs!StubsSound

\* The stub of an import without a handler keeps it.
LEMMA UnsupportedImportStubInv ==
  ASSUME Ranges, StubsInv, NEW name \in Imports, Stubs!UnsupportedImportStub(name)
  PROVE  StubsInv'
<1>. DEFINE at == Len(arena) + 1
<1>0. nextImport \in Nat /\ Stubs!WriteStub(nextImport, Stubs!Import(name))
  BY DEF StubsInv, Stubs!TypeOK, Stubs!UnsupportedImportStub, Ranges
<1>1. Adds(nextImport, Stubs!Import(name)) /\ Kept
  BY <1>0, WriteStubFacts, WriteKeeps DEF StubsInv
<1>2. /\ imported' = Stubs!Stored(imported, name, at) /\ nextImport' = nextImport + 1
      /\ nextImport < ImportLimit
      /\ UNCHANGED <<procs, nextProc, opened, nextHandle, mine, pointers>>
  BY DEF Stubs!UnsupportedImportStub, Stubs!calls
<1>3. DOMAIN imported' = DOMAIN imported \cup {name} /\ imported'[name] = at
        /\ \A n \in DOMAIN imported : n # name => imported'[n] = imported[n]
  BY <1>2 DEF Stubs!Stored
<1>4. Stubs!TypeOK'
 <2>1. DOMAIN imported' \subseteq Imports
         /\ \A n \in DOMAIN imported' : imported'[n] \in DOMAIN arena'
   BY <1>1, <1>3 DEF StubsInv, Stubs!TypeOK, Adds, Kept
 <2>2. \A n \in DOMAIN procs' : procs'[n] \in DOMAIN arena'  BY <1>1, <1>2 DEF Kept
 <2>3. nextImport' \in ProcLimit .. ImportLimit  BY <1>2 DEF StubsInv, Stubs!TypeOK, Ranges
 <2>. QED  BY <1>1, <1>2, <2>1, <2>2, <2>3 DEF StubsInv, Stubs!TypeOK, Adds, Kept
<1>5. NumbersCounted'
 <2>1. nextProc \in Nat /\ ProcLimit <= nextImport /\ ProcLimit \in Nat
   BY DEF StubsInv, Stubs!TypeOK, Ranges
 <2>. QED  BY <1>0, <1>1, <1>2, <2>1, WriteCounts
<1>6. ProcsInRange' /\ ImportsInRange'
 <2>1. nextImport >= ProcLimit  BY DEF StubsInv, Stubs!TypeOK, Ranges
 <2>2. \A n \in DOMAIN imported' : arena'[imported'[n]] >= ProcLimit
   BY <1>1, <1>3, <2>1 DEF Adds, Kept
 <2>. QED  BY <1>1, <1>2, <2>2 DEF ProcsInRange, ImportsInRange, Kept
<1>7. HeldPlaces' /\ Stubs!PointersKeepTheirMeaning'
  BY <1>1, <1>2 DEF StubsInv, Stubs!StubsSound, HeldPlaces, Stubs!PointersKeepTheirMeaning, Kept
<1>8. Stubs!ImportsAbort'
 <2>. SUFFICES ASSUME nextProc <= ProcLimit, NEW n \in DOMAIN imported'
               PROVE  handlers'[arena'[imported'[n]]] = Stubs!Import(n)
   BY <1>2 DEF Stubs!ImportsAbort
 <2>1. CASE n = name  BY <1>1, <1>3, <2>1 DEF Adds
 <2>2. CASE n # name
  <3>1. /\ n \in DOMAIN imported /\ imported'[n] = imported[n]
        /\ imported[n] \in DOMAIN arena /\ arena[imported[n]] \in DOMAIN handlers
        /\ handlers[arena[imported[n]]] = Stubs!Import(n)
    BY <1>3, <2>2 DEF StubsInv, Stubs!TypeOK, Stubs!StubsSound, Stubs!ImportsAbort
  <3>2. arena[imported[n]] # nextImport
    BY <3>1 DEF StubsInv, Stubs!TypeOK, NumbersCounted, Ranges
  <3>. QED  BY <1>1, <3>1, <3>2 DEF Adds
 <2>. QED  BY <2>1, <2>2
<1>9. Stubs!HandlesKeepTheirLibrary'
  BY <1>2 DEF StubsInv, Stubs!StubsSound, Stubs!HandlesKeepTheirLibrary
<1>. QED  BY <1>4, <1>5, <1>6, <1>7, <1>8, <1>9 DEF StubsInv, Stubs!StubsSound

\* A stub that a table has is one that was registered or written for the name.
LEMMA HeldFromTable ==
  ASSUME Ranges, StubsInv, NEW name \in Names, NEW lib, NEW place,
         \/ lib # Stubs!Anywhere /\ <<lib, name>> \in Exports /\ place = Stubs!Registered(lib, name)
         \/ <<lib, name>> \notin Exports /\ place \in Stubs!Tables(name),
         Stubs!Holds(lib, name, place),
         UNCHANGED <<procs, imported, arena, handlers, nextProc, nextImport, Stubs!calls>>
  PROVE  StubsInv'
<1>. DEFINE new == [lib |-> lib, name |-> name, place |-> place]
<1>1. pointers' = pointers \cup {new}  BY DEF Stubs!Holds
<1>2. /\ place.at = 0 \/ place.at \in DOMAIN arena
      /\ <<lib, name>> \in Exports => place = Stubs!Registered(lib, name)
      /\ place.at = 0 => place.entry = name
      /\ place.at # 0 => handlers[arena[place.at]] = Stubs!Proc(name)
 <2>1. CASE place = Stubs!Registered(lib, name)  BY <2>1 DEF Stubs!Registered
 <2>2. CASE <<lib, name>> \notin Exports /\ \E e \in Exports : place = Stubs!Registered(e[1], name)
   BY <2>2 DEF Stubs!Registered
 <2>3. CASE <<lib, name>> \notin Exports /\ name \in DOMAIN procs /\ place = Stubs!Written(procs[name])
   BY <2>3, LenProperties DEF Stubs!Written, StubsInv, Stubs!TypeOK, ProcsInRange
 <2>. QED  BY <2>1, <2>2, <2>3 DEF Stubs!Tables
<1>3. HeldPlaces'  BY <1>1, <1>2 DEF StubsInv, HeldPlaces
<1>4. Stubs!PointersKeepTheirMeaning'
 <2>1. new.lib = lib /\ new.name = name /\ new.place = place  OBVIOUS
 <2>2. arena' = arena /\ handlers' = handlers  OBVIOUS
 <2>3. place.at > 0 => place.at # 0  OBVIOUS
 <2>4. \A p \in pointers :
         /\ <<p.lib, p.name>> \in Exports => p.place = Stubs!Registered(p.lib, p.name)
         /\ p.place.at = 0 => p.place.entry = p.name
         /\ p.place.at > 0 /\ arena[p.place.at] < ProcLimit
              => handlers[arena[p.place.at]] = Stubs!Proc(p.name)
   BY DEF StubsInv, Stubs!StubsSound, Stubs!PointersKeepTheirMeaning
 <2>. QED  BY <1>1, <1>2, <2>1, <2>2, <2>3, <2>4 DEF Stubs!PointersKeepTheirMeaning
<1>5. /\ Stubs!TypeOK' /\ NumbersCounted' /\ ProcsInRange' /\ ImportsInRange'
      /\ Stubs!ImportsAbort' /\ Stubs!HandlesKeepTheirLibrary'
  BY DEF StubsInv, Stubs!TypeOK, NumbersCounted, ProcsInRange, ImportsInRange, Stubs!StubsSound,
     Stubs!ImportsAbort, Stubs!HandlesKeepTheirLibrary, Stubs!calls
<1>. QED  BY <1>3, <1>4, <1>5 DEF StubsInv, Stubs!StubsSound

\* dlsym of an ANGLE function keeps it.
LEMMA DlsymAngleInv ==
  ASSUME Ranges, StubsInv, NEW name \in Names, NEW lib, Stubs!DlsymAngle(lib, name)
  PROVE  StubsInv'
<1>0. nextProc \in Nat /\ Stubs!WriteStub(nextProc, Stubs!Proc(name))
  BY DEF StubsInv, Stubs!TypeOK, Stubs!DlsymAngle
<1>1. Adds(nextProc, Stubs!Proc(name)) /\ Kept  BY <1>0, WriteStubFacts, WriteKeeps DEF StubsInv
<1>2. /\ nextProc' = nextProc + 1 /\ Stubs!Holds(lib, name, Stubs!Written(Len(arena) + 1))
      /\ UNCHANGED <<procs, imported, nextImport, opened, nextHandle, mine>>
  BY DEF Stubs!DlsymAngle, Stubs!calls
<1>3. <<lib, name>> \notin Exports  BY DEF Stubs!DlsymAngle, Stubs!Tables
<1>4. Stubs!TypeOK'  BY <1>0, <1>1, <1>2 DEF StubsInv, Stubs!TypeOK, Adds, Kept
<1>5. NumbersCounted'
 <2>1. nextImport \in Nat /\ ProcLimit \in Nat /\ ProcLimit <= nextImport
   BY DEF StubsInv, Stubs!TypeOK, Ranges
 <2>. QED  BY <1>0, <1>1, <1>2, <2>1, WriteCounts
<1>6. ProcsInRange' /\ ImportsInRange'  BY <1>1, <1>2 DEF ProcsInRange, ImportsInRange, Kept
<1>7. HeldPlaces' /\ Stubs!PointersKeepTheirMeaning'  BY <1>0, <1>2, <1>3, NewPointer
<1>8. Stubs!ImportsAbort'
 <2>. SUFFICES ASSUME nextProc + 1 <= ProcLimit, NEW n \in DOMAIN imported
               PROVE  handlers'[arena'[imported[n]]] = Stubs!Import(n)
   BY <1>2 DEF Stubs!ImportsAbort
 <2>1. /\ arena[imported[n]] >= ProcLimit /\ imported[n] \in DOMAIN arena
       /\ handlers[arena[imported[n]]] = Stubs!Import(n)
       /\ arena[imported[n]] \in DOMAIN handlers
   BY DEF StubsInv, Stubs!TypeOK, Ranges, ImportsInRange, Stubs!StubsSound, Stubs!ImportsAbort
 <2>. QED  BY <1>0, <1>1, <2>1 DEF Adds, Ranges
<1>9. Stubs!HandlesKeepTheirLibrary'
  BY <1>2 DEF StubsInv, Stubs!StubsSound, Stubs!HandlesKeepTheirLibrary
<1>. QED  BY <1>4, <1>5, <1>6, <1>7, <1>8, <1>9 DEF StubsInv, Stubs!StubsSound

\* dlsym of a function with a stub keeps it.
LEMMA DlsymFindsInv ==
  ASSUME Ranges, StubsInv, NEW name \in Names, NEW lib, Stubs!DlsymFinds(lib, lib, name)
  PROVE  StubsInv'
  BY HeldFromTable DEF Stubs!DlsymFinds, Ranges

\* Opening and closing libraries; handle numbers only grow.
LEMMA HandleInv ==
  ASSUME StubsInv,
         (\E lib \in Libraries : Stubs!Dlopen(lib)) \/ (\E h \in DOMAIN opened : Stubs!Dlclose(h))
  PROVE  StubsInv'
<1>1. /\ NumbersCounted' /\ ProcsInRange' /\ ImportsInRange' /\ HeldPlaces'
      /\ Stubs!PointersKeepTheirMeaning' /\ Stubs!ImportsAbort'
  BY DEF StubsInv, NumbersCounted, ProcsInRange, ImportsInRange, HeldPlaces, Stubs!StubsSound,
     Stubs!PointersKeepTheirMeaning, Stubs!ImportsAbort, Stubs!Dlopen, Stubs!Dlclose
<1>2. ASSUME NEW lib \in Libraries, Stubs!Dlopen(lib)
      PROVE  Stubs!TypeOK' /\ Stubs!HandlesKeepTheirLibrary'
 <2>1. /\ nextHandle' = nextHandle + 1 /\ DOMAIN opened' = DOMAIN opened \cup {nextHandle}
       /\ nextHandle \notin DOMAIN opened
       /\ opened'[nextHandle] = lib
       /\ \A h \in DOMAIN opened : opened'[h] = opened[h]
   BY <1>2 DEF StubsInv, Stubs!TypeOK, Stubs!Dlopen, Stubs!Stored
 <2>2. DOMAIN opened' \subseteq 1 .. nextHandle' - 1  BY <2>1 DEF StubsInv, Stubs!TypeOK
 <2>3. mine' = mine \cup {<<nextHandle, lib>>}  BY <1>2 DEF Stubs!Dlopen
 <2>4. Stubs!HandlesKeepTheirLibrary'
   BY <2>1, <2>3 DEF StubsInv, Stubs!StubsSound, Stubs!HandlesKeepTheirLibrary
 <2>. QED  BY <1>2, <2>1, <2>2, <2>4 DEF StubsInv, Stubs!TypeOK, Stubs!Dlopen
<1>3. ASSUME NEW h \in DOMAIN opened, Stubs!Dlclose(h)
      PROVE  Stubs!TypeOK' /\ Stubs!HandlesKeepTheirLibrary'
  BY <1>3 DEF StubsInv, Stubs!TypeOK, Stubs!StubsSound, Stubs!HandlesKeepTheirLibrary, Stubs!Dlclose
<1>. QED  BY <1>1, <1>2, <1>3 DEF StubsInv, Stubs!StubsSound

\* Every step keeps the invariant.
LEMMA StubsStep == Ranges /\ StubsInv /\ [Stubs!Next]_(Stubs!vars) => StubsInv'
<1>. SUFFICES ASSUME Ranges, StubsInv, [Stubs!Next]_(Stubs!vars)  PROVE StubsInv'  OBVIOUS
<1>1. ASSUME NEW name \in Names, Stubs!EglGetProcAddressAgain(name)  PROVE StubsInv'
  BY <1>1, HeldFromTable DEF Stubs!EglGetProcAddressAgain, Stubs!Tables, Ranges
<1>2. ASSUME NEW name \in Names, Stubs!Dlsym(name)  PROVE StubsInv'
 <2>1. \A m \in mine : opened[m[1]] = m[2]
   BY DEF StubsInv, Stubs!StubsSound, Stubs!HandlesKeepTheirLibrary
 <2>. QED  BY <1>2, <2>1, DlsymFindsInv, DlsymAngleInv DEF Stubs!Dlsym
<1>3. ASSUME UNCHANGED Stubs!vars  PROVE StubsInv'
  BY <1>3 DEF Stubs!vars, StubsInv, Stubs!TypeOK, NumbersCounted, ProcsInRange, ImportsInRange,
     HeldPlaces, Stubs!StubsSound, Stubs!PointersKeepTheirMeaning, Stubs!ImportsAbort,
     Stubs!HandlesKeepTheirLibrary
<1>. QED
  BY <1>1, <1>2, <1>3, EglGetProcAddressInv, UnsupportedImportStubInv, HandleInv DEF Stubs!Next

\* For every table of exports and ranges of any size: a function pointer from
\* eglGetProcAddress or dlsym keeps meaning the name it was asked for, imports
\* nobody provides abort under their own name until dlsym overruns its range,
\* and a handle keeps its library.
THEOREM StubTableSound ==
  ASSUME Ranges
  PROVE  Stubs!Spec => [](Stubs!TypeOK /\ Stubs!StubsSound)
<1>1. StubsInv => Stubs!TypeOK /\ Stubs!StubsSound  BY DEF StubsInv
<1>. QED  BY <1>1, StubsInit, StubsStep, PTL DEF Stubs!Spec

----
(* The graphics bridge: an EGL object in use is live, and mapped buffers   *)
(* do not overlap, for any sizes and number of handles.                    *)

CONSTANTS MapHeapSize, MapLimit, MapLengths, MaxEglHandles, MaxMaps
VARIABLES display, config, context, surface, handles, eglMade, current, orphans, window, mode, maps,
          heapTop

Egl == INSTANCE EglBridge WITH
    made <- eglMade, MaxHandles <- MaxEglHandles, HeapSize <- MapHeapSize

\* The sizes are counted.
EglSizes == MapHeapSize \in Nat /\ MapLimit \in Nat /\ MapLengths \subseteq Nat /\ MaxEglHandles \in Nat

Mapping == [at : Nat, asked : Nat, granted : Nat]

\* The slots have handles that were made, never the same one twice, so that
\* destroying the one in one slot leaves the other alone.
SlotsInv ==
    /\ display \in {"none", "open", "initialized"} /\ window \in {"none", "open", "closed"}
    /\ eglMade \in 0 .. MaxEglHandles /\ context \in 0 .. eglMade /\ surface \in 0 .. eglMade
    /\ handles \subseteq 1 .. eglMade
    /\ context = surface => context = 0
    /\ Egl!SlotsLive

\* The mappings lie one behind the other, below the top of the heap.
MapsInv ==
    /\ heapTop \in 0 .. MapHeapSize /\ maps \in Seq(Mapping)
    /\ \A i \in 1 .. Len(maps) : maps[i].at + maps[i].granted <= heapTop
    /\ \A i, j \in 1 .. Len(maps) : i < j => maps[i].at + maps[i].granted <= maps[j].at

EglInv == SlotsInv /\ MapsInv

\* Making a handle: it is a new one, live, or there is none.
LEMMA HandleMade ==
    ASSUME EglSizes, SlotsInv, eglMade < MaxEglHandles, Egl!MakeHandle
    PROVE  /\ eglMade' \in 0 .. MaxEglHandles /\ eglMade <= eglMade' /\ handles' \subseteq 1 .. eglMade'
           /\ Egl!Made \in 0 .. eglMade' /\ (Egl!Made # 0 => Egl!Made > eglMade /\ Egl!Made \in handles')
           /\ handles \subseteq handles' /\ orphans' = orphans
<1>1. eglMade \in 0 .. MaxEglHandles /\ handles \subseteq 1 .. eglMade  BY DEF SlotsInv
<1>2. PICK m : m = Egl!Made  OBVIOUS
<1>3. m = 0 \/ m = eglMade + 1  BY <1>2 DEF Egl!Made
<1>4. /\ eglMade' = IF m = 0 THEN eglMade ELSE m
      /\ handles' = handles \cup ({m} \ {0}) /\ orphans' = orphans
  BY <1>2 DEF Egl!MakeHandle
<1>5. CASE m = 0  BY <1>1, <1>2, <1>4, <1>5
<1>6. CASE m = eglMade + 1  BY <1>1, <1>2, <1>4, <1>6 DEF EglSizes
<1> QED  BY <1>3, <1>5, <1>6

\* Every step of the display and its slots keeps the slots apart and live.
LEMMA SlotsStep ==
    ASSUME EglSizes, SlotsInv, Egl!Next
    PROVE  SlotsInv'
<1> USE DEF EglSizes
<1>1. CASE Egl!EglGetDisplay \/ Egl!EglInitialize \/ Egl!EglChooseConfig
  BY <1>1 DEF SlotsInv, Egl!SlotsLive, Egl!EglGetDisplay, Egl!EglInitialize, Egl!EglChooseConfig,
     Egl!slots, Egl!angle
<1>2. CASE Egl!EglCreateContext
 <2>1. /\ eglMade' \in 0 .. MaxEglHandles /\ eglMade <= eglMade' /\ handles' \subseteq 1 .. eglMade'
       /\ Egl!Made \in 0 .. eglMade' /\ (Egl!Made # 0 => Egl!Made > eglMade /\ Egl!Made \in handles')
       /\ handles \subseteq handles' /\ orphans' = orphans
   BY <1>2, HandleMade DEF Egl!EglCreateContext
 <2>2. context' = Egl!Made /\ surface' = surface /\ display' = display /\ window' = window
   BY <1>2 DEF Egl!EglCreateContext
 <2>3. PICK m : m = Egl!Made  OBVIOUS
 <2> QED  BY <2>1, <2>2, <2>3 DEF SlotsInv, Egl!SlotsLive
<1>3. CASE Egl!EglCreateWindowSurface \/ Egl!EglCreatePbufferSurface
 <2>1. /\ eglMade' \in 0 .. MaxEglHandles /\ eglMade <= eglMade' /\ handles' \subseteq 1 .. eglMade'
       /\ Egl!Made \in 0 .. eglMade' /\ (Egl!Made # 0 => Egl!Made > eglMade /\ Egl!Made \in handles')
       /\ handles \subseteq handles' /\ orphans' = orphans
   BY <1>3, HandleMade DEF Egl!EglCreateWindowSurface, Egl!EglCreatePbufferSurface
 <2>2. surface' = Egl!Made /\ context' = context /\ display' = display /\ window' = window
   BY <1>3 DEF Egl!EglCreateWindowSurface, Egl!EglCreatePbufferSurface
 <2>3. PICK m : m = Egl!Made  OBVIOUS
 <2> QED  BY <2>1, <2>2, <2>3 DEF SlotsInv, Egl!SlotsLive
<1>4. ASSUME NEW wanted \in BOOLEAN, Egl!EglMakeCurrent(wanted) PROVE SlotsInv'
  BY <1>4 DEF SlotsInv, Egl!SlotsLive, Egl!EglMakeCurrent, Egl!slots
<1>5. CASE Egl!EglSwapBuffers \/ Egl!PresentNativeWindowBuffer \/ Egl!PumpHostAppEvents \/ Egl!UserClosesWindow
 <2>1. window' \in {"none", "open", "closed"}
   BY <1>5 DEF SlotsInv, Egl!EglSwapBuffers, Egl!PresentNativeWindowBuffer,
      Egl!PumpHostAppEvents, Egl!UserClosesWindow, Egl!EnsureHostWindow
 <2>2. UNCHANGED <<display, Egl!slots, Egl!angle>>
   BY <1>5 DEF Egl!EglSwapBuffers, Egl!PresentNativeWindowBuffer, Egl!PumpHostAppEvents,
      Egl!UserClosesWindow
 <2> QED  BY <2>1, <2>2 DEF SlotsInv, Egl!SlotsLive, Egl!slots, Egl!angle
<1>6. CASE Egl!EglDestroyContext  BY <1>6 DEF SlotsInv, Egl!SlotsLive, Egl!EglDestroyContext
<1>7. CASE Egl!EglDestroySurface  BY <1>7 DEF SlotsInv, Egl!SlotsLive, Egl!EglDestroySurface
<1>8. CASE Egl!EglTerminate  BY <1>8 DEF SlotsInv, Egl!SlotsLive, Egl!EglTerminate, Egl!slots
<1>9. CASE Egl!EglReleaseThread
  BY <1>9 DEF SlotsInv, Egl!SlotsLive, Egl!EglReleaseThread, Egl!slots
<1>10. ASSUME NEW length \in MapLengths, Egl!GlMapBufferRange(length) PROVE SlotsInv'
  BY <1>10 DEF SlotsInv, Egl!SlotsLive, Egl!GlMapBufferRange, Egl!slots, Egl!angle
<1> QED  BY <1>1, <1>2, <1>3, <1>4, <1>5, <1>6, <1>7, <1>8, <1>9, <1>10 DEF Egl!Next

\* A mapping is taken from the top of the heap; nothing else moves it.
LEMMA MapsStep ==
    ASSUME EglSizes, MapsInv, Egl!Next
    PROVE  MapsInv'
<1>1. ASSUME NEW length \in MapLengths, Egl!GlMapBufferRange(length) PROVE MapsInv'
 <2> DEFINE g == Egl!Smaller(length, MapLimit)
            new == [at |-> heapTop, asked |-> length, granted |-> g]
 <2>1. g \in Nat /\ length \in Nat  BY DEF EglSizes, Egl!Smaller
 <2>2. heapTop \in Nat /\ heapTop \in 0 .. MapHeapSize /\ maps \in Seq(Mapping)
   BY DEF MapsInv, EglSizes
 <2>3. /\ heapTop + g <= MapHeapSize /\ maps' = Append(maps, new)
       /\ heapTop' = heapTop + g
   BY <1>1 DEF Egl!GlMapBufferRange
 <2>4. new \in Mapping /\ new.at = heapTop /\ new.granted = g  BY <2>1, <2>2 DEF Mapping
 <2> HIDE DEF g, new
 <2>5. heapTop' \in 0 .. MapHeapSize /\ heapTop <= heapTop'  BY <2>1, <2>2, <2>3 DEF EglSizes
 <2>6. /\ maps' \in Seq(Mapping) /\ Len(maps') = Len(maps) + 1 /\ maps'[Len(maps) + 1] = new
       /\ \A i \in 1 .. Len(maps) : maps'[i] = maps[i]
   BY <2>2, <2>3, <2>4
 <2>7. ASSUME NEW i \in 1 .. Len(maps') PROVE maps'[i].at + maps'[i].granted <= heapTop'
  <3>1. CASE i = Len(maps) + 1  BY <3>1, <2>6, <2>4, <2>3, <2>1, <2>2
  <3>2. CASE i \in 1 .. Len(maps)
   <4>1. maps'[i] = maps[i] /\ maps[i] \in Mapping  BY <3>2, <2>6, <2>2
   <4>2. maps[i].at + maps[i].granted <= heapTop  BY <3>2 DEF MapsInv
   <4>3. maps[i].at \in Nat /\ maps[i].granted \in Nat  BY <4>1 DEF Mapping
   <4> QED  BY <4>1, <4>2, <4>3, <2>5, <2>2
  <3> QED  BY <3>1, <3>2, <2>6, <2>2
 <2>8. ASSUME NEW i \in 1 .. Len(maps'), NEW j \in 1 .. Len(maps'), i < j
       PROVE  maps'[i].at + maps'[i].granted <= maps'[j].at
  <3>1. i \in 1 .. Len(maps) /\ maps'[i] = maps[i]  BY <2>8, <2>6, <2>2
  <3>2. CASE j = Len(maps) + 1  BY <3>1, <3>2, <2>6, <2>4 DEF MapsInv
  <3>3. CASE j \in 1 .. Len(maps)  BY <3>1, <3>3, <2>8, <2>6 DEF MapsInv
  <3> QED  BY <3>2, <3>3, <2>6, <2>2
 <2> QED  BY <2>5, <2>6, <2>7, <2>8 DEF MapsInv
<1>2. CASE UNCHANGED <<maps, heapTop>>  BY <1>2 DEF MapsInv
<1> QED  BY <1>1, <1>2 DEF Egl!Next, Egl!EglGetDisplay, Egl!EglInitialize, Egl!EglChooseConfig,
                    Egl!EglCreateContext,
     Egl!EglCreateWindowSurface, Egl!EglCreatePbufferSurface, Egl!EglMakeCurrent,
     Egl!EglSwapBuffers,
     Egl!PresentNativeWindowBuffer, Egl!PumpHostAppEvents, Egl!UserClosesWindow,
     Egl!EglDestroyContext,
     Egl!EglDestroySurface, Egl!EglTerminate, Egl!EglReleaseThread

\* The constants of the guest stand for live handles and mapped buffers do not
\* overlap, whatever the sizes, the number of handles and the order of calls.
THEOREM EglStaysSound == ASSUME EglSizes PROVE Egl!Spec => [](Egl!TypeOK /\ Egl!EglSound)
<1>1. Egl!Init => EglInv  BY DEF EglSizes, Egl!Init, EglInv, SlotsInv, MapsInv, Egl!SlotsLive
<1>2. EglInv /\ [Egl!Next]_(Egl!vars) => EglInv'
 <2>1. ASSUME EglInv, Egl!Next PROVE EglInv'  BY <2>1, SlotsStep, MapsStep DEF EglInv
 <2>2. ASSUME EglInv, UNCHANGED Egl!vars PROVE EglInv'
   BY <2>2 DEF Egl!vars, EglInv, SlotsInv, MapsInv, Egl!SlotsLive
 <2> QED  BY <2>1, <2>2
<1>3. EglInv => Egl!TypeOK /\ Egl!EglSound
 <2> SUFFICES ASSUME EglInv PROVE Egl!TypeOK /\ Egl!EglSound  OBVIOUS
 <2>1. Egl!TypeOK /\ Egl!SlotsLive  BY DEF EglSizes, EglInv, SlotsInv, MapsInv, Egl!TypeOK
 <2>2. maps \in Seq(Mapping) /\ heapTop \in 0 .. MapHeapSize  BY DEF EglInv, MapsInv
 <2>3. ASSUME NEW i \in DOMAIN maps PROVE maps[i].at + maps[i].granted <= MapHeapSize
  <3>1. i \in 1 .. Len(maps) /\ maps[i] \in Mapping  BY <2>2
  <3>2. maps[i].at \in Nat /\ maps[i].granted \in Nat /\ maps[i].at + maps[i].granted <= heapTop
    BY <3>1 DEF Mapping, EglInv, MapsInv
  <3> QED  BY <3>2, <2>2 DEF EglSizes
 <2>4. DOMAIN maps = 1 .. Len(maps)  BY <2>2
 <2>5. Egl!MapsDisjoint  BY <2>3, <2>4 DEF Egl!MapsDisjoint, EglInv, MapsInv
 <2> QED  BY <2>1, <2>5 DEF Egl!EglSound
<1> QED  BY <1>1, <1>2, <1>3, PTL DEF Egl!Spec

----
(* Assets: an open asset is the file as it was opened, for any files,      *)
(* lengths and counts.                                                     *)

CONSTANTS AssetNames, SafeNames, Sizes, ReadCounts, MaxAssets, MaxReplaced
VARIABLES onRoot, assets, nextAsset, myAssets, answer, replaced

Assets == INSTANCE GuestAssets WITH mine <- myAssets, Counts <- ReadCounts

\* Lengths and counts are counted.
AssetSizes == Sizes \subseteq Nat /\ ReadCounts \subseteq Nat /\ MaxAssets \in Nat

Byte == AssetNames \X Nat \X Nat
AssetType == [bytes : Seq(Byte), offset : Nat]
MineType == [file : Seq(Byte), pos : Nat]
FileType == {Assets!NoFile} \cup {Assets!File(n, v) : n \in Sizes, v \in Nat}

\* What the runtime has of an open asset is what the guest knows of it.
AssetHandleInv(h) ==
    /\ assets[h].bytes = myAssets[h].file /\ assets[h].offset = myAssets[h].pos
    /\ myAssets[h].pos <= Len(myAssets[h].file)

\* Handles are given out in order, so the last answer is of a handle that is
\* closed for good or still of the file it was read from.
AssetInv ==
    /\ onRoot \in [AssetNames -> FileType] /\ replaced \in Nat
    /\ nextAsset \in 1 .. MaxAssets + 1 /\ DOMAIN assets \subseteq 1 .. nextAsset - 1
    /\ DOMAIN myAssets = DOMAIN assets
    /\ assets \in [DOMAIN assets -> AssetType] /\ myAssets \in [DOMAIN assets -> MineType]
    /\ \A h \in DOMAIN assets : AssetHandleInv(h)
    /\ answer \in [handle : Nat, at : Nat, bytes : Seq(Byte)] /\ answer.handle < nextAsset
    /\ answer.handle \in DOMAIN myAssets =>
          \A i \in 1 .. Len(answer.bytes) :
             answer.bytes[i] = myAssets[answer.handle].file[answer.at + i]

\* The bytes of a file are a sequence of its length.
LEMMA BytesSeq ==
    ASSUME AssetSizes, NEW name \in AssetNames, NEW f \in FileType
    PROVE  f.length \in Nat /\ Assets!Bytes(name, f) \in Seq(Byte) /\ Len(Assets!Bytes(name, f)) = f.length
<1>1. f.length \in Nat /\ f.version \in Nat
  BY DEF FileType, Assets!NoFile, Assets!File, AssetSizes
<1>2. \A i \in 1 .. f.length : <<name, f.version, i>> \in Byte  BY <1>1 DEF Byte
<1> QED  BY <1>1, <1>2 DEF Assets!Bytes

\* Opening a file: what it holds now is what the guest will read.
LEMMA OpenKeeps ==
    ASSUME AssetSizes, AssetInv, NEW name \in AssetNames, NEW readable \in BOOLEAN,
           Assets!Open(name, readable)
    PROVE  AssetInv'
<1> DEFINE file == Assets!Bytes(name, onRoot[name])
           bytes == Assets!ReadAssetFile(name, readable)
           D == DOMAIN assets
           h == nextAsset
<1>1. onRoot[name].length \in Nat /\ file \in Seq(Byte) /\ Len(file) = onRoot[name].length
  BY BytesSeq DEF AssetInv
<1>2. /\ bytes # <<>> \/ onRoot[name].length = 0
      /\ assets' = Assets!With(assets, h, [bytes |-> bytes, offset |-> 0])
      /\ myAssets' = Assets!With(myAssets, h, [file |-> file, pos |-> 0])
      /\ h <= MaxAssets /\ nextAsset' = h + 1
      /\ onRoot' = onRoot /\ answer' = answer /\ replaced' = replaced
  BY DEF Assets!Open
<1>3. bytes = file
 <2>1. CASE readable  BY <2>1 DEF Assets!ReadAssetFile
 <2>2. CASE ~readable
  <3>1. bytes = <<>>  BY <2>2 DEF Assets!ReadAssetFile
  <3>2. Len(file) = 0  BY <1>1, <1>2, <3>1
  <3> QED  BY <1>1, <3>1, <3>2, EmptySeq
 <2> QED  BY <2>1, <2>2
<1> HIDE DEF file, bytes
<1>4. /\ [bytes |-> bytes, offset |-> 0] \in AssetType /\ [file |-> file, pos |-> 0] \in MineType
      /\ Len(file) \in Nat
  BY <1>1, <1>3 DEF AssetType, MineType
<1>5. /\ assets \in [D -> AssetType] /\ myAssets \in [D -> MineType] /\ h \notin D
      /\ D \subseteq 1 .. h - 1 /\ h \in 1 .. MaxAssets + 1
  BY DEF AssetInv, AssetSizes
<1>6. /\ assets' \in [D \cup {h} -> AssetType] /\ assets'[h] = [bytes |-> bytes, offset |-> 0]
      /\ DOMAIN assets' = D \cup {h} /\ \A x \in D : assets'[x] = assets[x]
 <2> HIDE DEF D, h
 <2> QED  BY <1>2, <1>4, <1>5 DEF Assets!With
<1>7. /\ myAssets' \in [D \cup {h} -> MineType] /\ myAssets'[h] = [file |-> file, pos |-> 0]
      /\ DOMAIN myAssets' = D \cup {h} /\ \A x \in D : myAssets'[x] = myAssets[x]
 <2> HIDE DEF D, h
 <2> QED  BY <1>2, <1>4, <1>5 DEF Assets!With
<1>8. nextAsset' \in 1 .. MaxAssets + 1 /\ DOMAIN assets' \subseteq 1 .. nextAsset' - 1
  BY <1>2, <1>5, <1>6 DEF AssetSizes
<1>9. \A x \in DOMAIN assets' : AssetHandleInv(x)'
 <2> SUFFICES ASSUME NEW x \in D \cup {h} PROVE AssetHandleInv(x)'  BY <1>6
 <2>1. CASE x = h  BY <2>1, <1>3, <1>4, <1>6, <1>7 DEF AssetHandleInv
 <2>2. CASE x \in D  BY <2>2, <1>6, <1>7 DEF AssetHandleInv, AssetInv
 <2> QED  BY <2>1, <2>2
<1>10. /\ answer' \in [handle : Nat, at : Nat, bytes : Seq(Byte)] /\ answer'.handle < nextAsset'
       /\ answer'.handle # h
  BY <1>2, <1>5 DEF AssetInv
<1>11. answer'.handle \in DOMAIN myAssets' =>
          \A i \in 1 .. Len(answer'.bytes) :
             answer'.bytes[i] = myAssets'[answer'.handle].file[answer'.at + i]
  BY <1>2, <1>7, <1>10 DEF AssetInv
<1>12. onRoot' \in [AssetNames -> FileType] /\ replaced' \in Nat  BY <1>2 DEF AssetInv
<1> QED  BY <1>6, <1>7, <1>8, <1>9, <1>10, <1>11, <1>12 DEF AssetInv

\* A read: the bytes from where the guest is, or nothing moves.
LEMMA ReadKeeps ==
    ASSUME AssetSizes, AssetInv, NEW h \in DOMAIN assets, NEW count \in ReadCounts,
           NEW writes \in BOOLEAN, Assets!Read(h, count, writes)
    PROVE  AssetInv'
<1> DEFINE left == Len(assets[h].bytes) - assets[h].offset
           n == IF count < left THEN count ELSE left
           D == DOMAIN assets
<1>1. CASE UNCHANGED Assets!vars  BY <1>1 DEF Assets!vars, AssetInv, AssetHandleInv
<1>2. CASE /\ assets' = [assets EXCEPT ![h].offset = @ + n]
           /\ answer' = [handle |-> h, at |-> myAssets[h].pos,
                         bytes |-> SubSeq(assets[h].bytes, assets[h].offset + 1,
                                          assets[h].offset + n)]
           /\ myAssets' = [myAssets EXCEPT ![h].pos = @ + n]
           /\ UNCHANGED <<onRoot, nextAsset, replaced>>
 <2>1. /\ assets \in [D -> AssetType] /\ myAssets \in [D -> MineType] /\ AssetHandleInv(h)
       /\ assets[h] \in AssetType /\ myAssets[h] \in MineType
   BY DEF AssetInv
 <2>2. PICK s \in Seq(Byte), p \in Nat :
          /\ assets[h].bytes = s /\ assets[h].offset = p /\ myAssets[h].file = s
          /\ myAssets[h].pos = p /\ p <= Len(s)
   BY <2>1 DEF AssetHandleInv, AssetType, MineType
 <2>3. n \in Nat /\ p + n <= Len(s)  BY <2>2 DEF AssetSizes
 <2>4. PICK k \in Nat : k = n  BY <2>3
 <2>5. /\ assets' \in [D -> AssetType] /\ assets'[h].bytes = s /\ assets'[h].offset = p + k
       /\ \A x \in D \ {h} : assets'[x] = assets[x]
  <3>1. [assets[h] EXCEPT !.offset = @ + n] \in AssetType  BY <2>1, <2>2, <2>4 DEF AssetType
  <3> QED  BY <1>2, <2>1, <2>2, <2>4, <3>1 DEF AssetType
 <2>6. /\ myAssets' \in [D -> MineType] /\ myAssets'[h].file = s /\ myAssets'[h].pos = p + k
       /\ \A x \in D \ {h} : myAssets'[x] = myAssets[x]
  <3>1. [myAssets[h] EXCEPT !.pos = @ + n] \in MineType  BY <2>1, <2>2, <2>4 DEF MineType
  <3> QED  BY <1>2, <2>1, <2>2, <2>4, <3>1 DEF MineType
 <2>7. PICK r : r = SubSeq(s, p + 1, p + k)  OBVIOUS
 <2>8. /\ r \in Seq(Byte) /\ Len(r) = k /\ \A i \in 1 .. k : r[i] = s[p + i]
  <3>1. \A i \in p + 1 .. p + k : s[i] \in Byte  BY <2>3, <2>4
  <3>2. /\ r \in Seq(Byte) /\ Len(r) = IF p + 1 <= p + k THEN (p + k) - (p + 1) + 1 ELSE 0
        /\ \A i \in 1 .. (p + k) - (p + 1) + 1 : r[i] = s[(p + 1) + i - 1]
    BY <2>7, <3>1, SubSeqProperties
  <3> QED  BY <3>2
 <2>9. answer' = [handle |-> h, at |-> p, bytes |-> r]  BY <1>2, <2>2, <2>4, <2>7
 <2>10. h \in Nat /\ h < nextAsset /\ nextAsset' = nextAsset  BY <1>2 DEF AssetInv, AssetSizes
 <2>11. /\ answer' \in [handle : Nat, at : Nat, bytes : Seq(Byte)] /\ answer'.handle < nextAsset'
   BY <2>8, <2>9, <2>10
 <2>12. \A i \in 1 .. Len(answer'.bytes) :
            answer'.bytes[i] = myAssets'[answer'.handle].file[answer'.at + i]
   BY <2>6, <2>8, <2>9
 <2>13. \A x \in D : AssetHandleInv(x)'
  <3> SUFFICES ASSUME NEW x \in D PROVE AssetHandleInv(x)'  OBVIOUS
  <3>1. CASE x = h  BY <3>1, <2>3, <2>4, <2>5, <2>6 DEF AssetHandleInv
  <3>2. CASE x # h  BY <3>2, <2>5, <2>6 DEF AssetHandleInv, AssetInv
  <3> QED  BY <3>1, <3>2
 <2>14. DOMAIN assets' = D /\ DOMAIN myAssets' = D  BY <2>5, <2>6
 <2>15. /\ onRoot' \in [AssetNames -> FileType] /\ replaced' \in Nat
        /\ nextAsset' \in 1 .. MaxAssets + 1 /\ D \subseteq 1 .. nextAsset' - 1
   BY <1>2 DEF AssetInv
 <2> QED  BY <2>5, <2>6, <2>11, <2>12, <2>13, <2>14, <2>15 DEF AssetInv
<1> QED  BY <1>1, <1>2 DEF Assets!Read

\* A seek moves both places alike.
LEMMA SeekKeeps ==
    ASSUME AssetSizes, AssetInv, NEW h \in DOMAIN assets, NEW offset \in -1 .. 1,
           NEW whence \in {"set", "cur", "end"}, Assets!Seek(h, offset, whence)
    PROVE  AssetInv'
<1> DEFINE D == DOMAIN assets
<1>1. /\ assets \in [D -> AssetType] /\ myAssets \in [D -> MineType] /\ AssetHandleInv(h)
      /\ assets[h] \in AssetType /\ myAssets[h] \in MineType
  BY DEF AssetInv
<1>2. PICK s \in Seq(Byte) : assets[h].bytes = s /\ myAssets[h].file = s
  BY <1>1 DEF AssetHandleInv, AssetType, MineType
<1>3. PICK to \in 0 .. Len(s) :
         /\ assets' = [assets EXCEPT ![h].offset = to]
         /\ myAssets' = [myAssets EXCEPT ![h].pos = to]
         /\ UNCHANGED <<onRoot, nextAsset, answer, replaced>>
  BY <1>2 DEF Assets!Seek
<1>4. to \in Nat /\ to <= Len(s)  OBVIOUS
<1>5. /\ assets' \in [D -> AssetType] /\ assets'[h].bytes = s /\ assets'[h].offset = to
      /\ \A x \in D \ {h} : assets'[x] = assets[x]
  BY <1>1, <1>2, <1>3, <1>4 DEF AssetType
<1>6. /\ myAssets' \in [D -> MineType] /\ myAssets'[h].file = s /\ myAssets'[h].pos = to
      /\ \A x \in D \ {h} : myAssets'[x] = myAssets[x]
  BY <1>1, <1>2, <1>3, <1>4 DEF MineType
<1>7. \A x \in D : AssetHandleInv(x)'
 <2> SUFFICES ASSUME NEW x \in D PROVE AssetHandleInv(x)'  OBVIOUS
 <2>1. CASE x = h  BY <2>1, <1>4, <1>5, <1>6 DEF AssetHandleInv
 <2>2. CASE x # h  BY <2>2, <1>5, <1>6 DEF AssetHandleInv, AssetInv
 <2> QED  BY <2>1, <2>2
<1>8. \A x \in D : myAssets'[x].file = myAssets[x].file  BY <1>2, <1>6
<1>9. DOMAIN assets' = D /\ DOMAIN myAssets' = D /\ DOMAIN myAssets = D  BY <1>1, <1>5, <1>6
<1>10. /\ onRoot' \in [AssetNames -> FileType] /\ replaced' \in Nat
       /\ nextAsset' \in 1 .. MaxAssets + 1 /\ D \subseteq 1 .. nextAsset' - 1
       /\ answer' \in [handle : Nat, at : Nat, bytes : Seq(Byte)] /\ answer'.handle < nextAsset'
  BY <1>3 DEF AssetInv
<1>11. answer'.handle \in DOMAIN myAssets' =>
          \A i \in 1 .. Len(answer'.bytes) :
             answer'.bytes[i] = myAssets'[answer'.handle].file[answer'.at + i]
  BY <1>3, <1>8, <1>9 DEF AssetInv
<1> QED  BY <1>5, <1>6, <1>7, <1>9, <1>10, <1>11 DEF AssetInv

\* Closing an asset takes its handle away from both.
LEMMA CloseKeeps ==
    ASSUME AssetInv, NEW h \in DOMAIN assets, Assets!Close(h)
    PROVE  AssetInv'
<1>1. PICK D : D = DOMAIN assets  OBVIOUS
<1>2. assets \in [D -> AssetType] /\ myAssets \in [D -> MineType] /\ DOMAIN myAssets = D
  BY <1>1 DEF AssetInv
<1>3. /\ assets' \in [D \ {h} -> AssetType] /\ DOMAIN assets' = D \ {h}
      /\ \A x \in D \ {h} : assets'[x] = assets[x]
  BY <1>2 DEF Assets!Close, Assets!Without
<1>4. /\ myAssets' \in [D \ {h} -> MineType] /\ DOMAIN myAssets' = D \ {h}
      /\ \A x \in D \ {h} : myAssets'[x] = myAssets[x]
  BY <1>2 DEF Assets!Close, Assets!Without
<1>5. UNCHANGED <<onRoot, nextAsset, answer, replaced>>  BY DEF Assets!Close
<1>6. \A x \in D \ {h} : AssetHandleInv(x)'  BY <1>1, <1>3, <1>4 DEF AssetHandleInv, AssetInv
<1>7. /\ onRoot' \in [AssetNames -> FileType] /\ replaced' \in Nat
      /\ nextAsset' \in 1 .. MaxAssets + 1 /\ D \ {h} \subseteq 1 .. nextAsset' - 1
      /\ answer' \in [handle : Nat, at : Nat, bytes : Seq(Byte)] /\ answer'.handle < nextAsset'
  BY <1>1, <1>5 DEF AssetInv
<1>8. answer'.handle \in DOMAIN myAssets' =>
          \A i \in 1 .. Len(answer'.bytes) :
             answer'.bytes[i] = myAssets'[answer'.handle].file[answer'.at + i]
  BY <1>2, <1>4, <1>5 DEF AssetInv
<1> QED  BY <1>3, <1>4, <1>6, <1>7, <1>8 DEF AssetInv

\* A file that is replaced changes no open asset.
LEMMA ReplaceKeeps ==
    ASSUME AssetSizes, AssetInv, NEW name \in AssetNames, NEW length \in Sizes,
           Assets!Replace(name, length)
    PROVE  AssetInv'
<1>1. replaced' \in Nat /\ replaced' = replaced + 1  BY DEF Assets!Replace, AssetInv
<1>2. onRoot' \in [AssetNames -> FileType]
 <2>1. Assets!File(length, replaced + 1) \in FileType  BY <1>1 DEF FileType
 <2> QED  BY <2>1 DEF Assets!Replace, AssetInv
<1>3. UNCHANGED <<assets, nextAsset, myAssets, answer>>  BY DEF Assets!Replace
<1> QED  BY <1>1, <1>2, <1>3 DEF AssetInv, AssetHandleInv

\* An open asset is the file as it was when it was opened, for any files,
\* any number of assets and replacements, and reads that fail.
THEOREM AssetsStaySnapshots == ASSUME AssetSizes PROVE Assets!Spec => [](Assets!TypeOK /\ Assets!AssetsAreSnapshots)
<1>1. Assets!Init => AssetInv
 <2> SUFFICES ASSUME Assets!Init PROVE AssetInv  OBVIOUS
 <2>1. \A n \in Sizes : Assets!File(n, 0) \in FileType  BY DEF FileType
 <2>2. onRoot \in [AssetNames -> FileType]  BY <2>1 DEF Assets!Init, FileType
 <2>3. <<>> \in [{} -> AssetType] /\ <<>> \in [{} -> MineType] /\ DOMAIN <<>> = {}  OBVIOUS
 <2>4. [handle |-> 0, at |-> 0, bytes |-> <<>>] \in [handle : Nat, at : Nat, bytes : Seq(Byte)]
   OBVIOUS
 <2>5. nextAsset \in 1 .. MaxAssets + 1 /\ answer.handle = 0 /\ replaced = 0
   BY DEF Assets!Init, AssetSizes
 <2> QED  BY <2>2, <2>3, <2>4, <2>5 DEF Assets!Init, AssetInv
<1>2. AssetInv /\ [Assets!Next]_(Assets!vars) => AssetInv'
 <2> SUFFICES ASSUME AssetInv, [Assets!Next]_(Assets!vars) PROVE AssetInv'  OBVIOUS
 <2>1. CASE UNCHANGED Assets!vars  BY <2>1 DEF Assets!vars, AssetInv, AssetHandleInv
 <2> QED  BY <2>1, OpenKeeps, ReadKeeps, SeekKeeps, CloseKeeps, ReplaceKeeps DEF Assets!Next
<1>3. AssetInv => Assets!TypeOK /\ Assets!AssetsAreSnapshots
 <2> SUFFICES ASSUME AssetInv PROVE Assets!TypeOK /\ Assets!AssetsAreSnapshots  OBVIOUS
 <2>1. ASSUME NEW h \in DOMAIN assets
       PROVE  /\ assets[h].offset \in 0 .. Len(assets[h].bytes)
              /\ Assets!Remaining(h) = Len(myAssets[h].file) - myAssets[h].pos
  <3>1. assets[h] \in AssetType /\ AssetHandleInv(h)  BY DEF AssetInv
  <3> QED  BY <3>1 DEF AssetHandleInv, AssetType, Assets!Remaining
 <2>2. DOMAIN assets \subseteq 1 .. MaxAssets  BY DEF AssetInv, AssetSizes
 <2>3. DOMAIN answer.bytes = 1 .. Len(answer.bytes)  BY DEF AssetInv
 <2> QED  BY <2>1, <2>2, <2>3 DEF Assets!TypeOK, Assets!AssetsAreSnapshots, AssetInv
<1> QED  BY <1>1, <1>2, <1>3, PTL DEF Assets!Spec

----
(* The heap of the guest: a block keeps its contents until it is freed,    *)
(* whatever is allocated, moved or copied beside it.                       *)

CONSTANTS Width, HeapBase, HeapSize, Unit, Page, StackSize, BitmapBytes, Requests, MaxBlocks
VARIABLES heapBump, cells, blocks, died

Heap == INSTANCE GuestHeap

\* The arena is small beside what a machine word can count, and the guest asks
\* for any sizes.
ArenaFits ==
    /\ HeapBase \in Nat /\ HeapSize \in Nat /\ Unit \in Nat \ {0} /\ Page \in Nat \ {0}
    /\ StackSize \in Nat /\ BitmapBytes \in Nat /\ Width \in Nat /\ Requests \subseteq Nat
    /\ Heap!End + HeapSize + Page + Unit <= Width

Cell == Heap!Values \cup {0}
Block == [at : Nat, expect : Seq(Cell \cup {Heap!Any})]

\* A block lies between the base and the pointer, and reads what is expected.
BlockInv(b) ==
    /\ HeapBase <= blocks[b].at /\ blocks[b].at + Len(blocks[b].expect) <= heapBump
    /\ \A i \in 1 .. Len(blocks[b].expect) :
          blocks[b].expect[i] \in {Heap!Any, cells[blocks[b].at + i - 1]}

\* The blocks lie one behind the other.
BlocksInOrder ==
    \A b, c \in 1 .. Len(blocks) : b < c => blocks[b].at + Len(blocks[b].expect) <= blocks[c].at

HeapInv ==
    /\ Heap!TypeOK /\ blocks \in Seq(Block)
    /\ \A b \in 1 .. Len(blocks) : BlockInv(b)
    /\ BlocksInOrder

\* A number below the modulus is its own remainder.
LEMMA SmallRemainder ==
    ASSUME NEW x \in Nat, NEW m \in Nat \ {0}
    PROVE  x % m \in 0 .. m - 1 /\ x % m <= x /\ (x < m => x % m = x)
OBVIOUS

\* Rounding up gives a size, and one that is large enough when no sum wraps.
LEMMA Rounded ==
    ASSUME ArenaFits, NEW x \in Nat, NEW unit \in {Unit, Page}
    PROVE  /\ Heap!RoundUp(x, unit) \in Nat
           /\ x <= Heap!End => x <= Heap!RoundUp(x, unit) /\ Heap!RoundUp(x, unit) <= x + unit - 1
<1>1. unit \in Nat \ {0} /\ Width \in Nat \ {0} /\ Heap!End \in Nat /\ Heap!End + unit <= Width
  BY DEF ArenaFits, Heap!End
<1>2. PICK sum \in Nat : sum = (x + unit - 1) % Width /\ (x + unit - 1 < Width => sum = x + unit - 1)
 <2>1. PICK y \in Nat : y = x + unit - 1  BY <1>1
 <2>2. y % Width \in 0 .. Width - 1 /\ (y < Width => y % Width = y)  BY <1>1, SmallRemainder
 <2> QED  BY <1>1, <2>1, <2>2
<1>3. PICK r \in 0 .. unit - 1 : r = sum % unit /\ r <= sum  BY <1>1, <1>2, SmallRemainder
<1>4. Heap!RoundUp(x, unit) = sum - r  BY <1>2, <1>3 DEF Heap!RoundUp
<1> QED  BY <1>1, <1>2, <1>3, <1>4

\* A block that passed the check, from where it is rounded to, ends in the arena.
LEMMA FitsInArena ==
    ASSUME ArenaFits, NEW ptr \in Nat, NEW size \in Nat, ptr <= Heap!End + Page + Unit,
         size <= HeapSize,
           ptr + size < Width, Heap!Fits(ptr, size)
    PROVE  ptr + size <= Heap!End
<1>1. PICK y \in Nat : y = ptr + size  OBVIOUS
<1>2. Width \in Nat \ {0}  BY DEF ArenaFits
<1>3. y % Width = y  BY <1>1, <1>2, SmallRemainder
<1> QED  BY <1>1, <1>3 DEF Heap!Fits

\* Writing into the arena.
LEMMA WrittenCells ==
    ASSUME ArenaFits, Heap!TypeOK, NEW ptr \in Nat, NEW s \in Seq(Cell)
    PROVE  /\ Heap!Written(ptr, s) \in [HeapBase .. Heap!End - 1 -> Cell]
           /\ \A i \in 1 .. Len(s) : ptr + i - 1 \in HeapBase .. Heap!End - 1 => Heap!Written(ptr, s)[ptr + i - 1] = s[i]
           /\ \A c \in HeapBase .. Heap!End - 1 : c < ptr \/ c >= ptr + Len(s) => Heap!Written(ptr, s)[c] = cells[c]
<1>1. DOMAIN cells = HeapBase .. Heap!End - 1 /\ cells \in [HeapBase .. Heap!End - 1 -> Cell]
  BY DEF Heap!TypeOK, Cell
<1>2. Heap!End \in Nat /\ HeapBase \in Nat  BY DEF ArenaFits, Heap!End
<1>3. ASSUME NEW c \in HeapBase .. Heap!End - 1
      PROVE  (IF c >= ptr /\ c < ptr + Len(s) THEN s[c - ptr + 1] ELSE cells[c]) \in Cell
 <2>1. CASE c >= ptr /\ c < ptr + Len(s)
  <3>1. c - ptr + 1 \in 1 .. Len(s)  BY <1>2, <2>1
  <3> QED  BY <2>1, <3>1
 <2>2. CASE ~(c >= ptr /\ c < ptr + Len(s))  BY <1>1, <2>2
 <2> QED  BY <2>1, <2>2
<1>4. Heap!Written(ptr, s) = [c \in HeapBase .. Heap!End - 1 |->
         IF c >= ptr /\ c < ptr + Len(s) THEN s[c - ptr + 1] ELSE cells[c]]
  BY <1>1 DEF Heap!Written
<1>5. ASSUME NEW i \in 1 .. Len(s), ptr + i - 1 \in HeapBase .. Heap!End - 1
      PROVE  Heap!Written(ptr, s)[ptr + i - 1] = s[i]
 <2>1. PICK c \in HeapBase .. Heap!End - 1 : c = ptr + i - 1  BY <1>5
 <2>2. c >= ptr /\ c < ptr + Len(s) /\ c - ptr + 1 = i  BY <2>1, <1>2
 <2> QED  BY <1>4, <2>1, <2>2
<1>6. ASSUME NEW c \in HeapBase .. Heap!End - 1, c < ptr \/ c >= ptr + Len(s)
      PROVE  Heap!Written(ptr, s)[c] = cells[c]
 <2>1. ~(c >= ptr /\ c < ptr + Len(s))  BY <1>6, <1>2
 <2> QED  BY <1>4, <2>1
<1> QED  BY <1>3, <1>4, <1>5, <1>6

\* What is known of one block.
LEMMA OneBlock ==
    ASSUME ArenaFits, HeapInv, NEW b \in 1 .. Len(blocks)
    PROVE  /\ blocks[b] \in Block /\ blocks[b].at \in Nat
           /\ blocks[b].expect \in Seq(Cell \cup {Heap!Any}) /\ Len(blocks[b].expect) \in Nat
           /\ HeapBase <= blocks[b].at /\ blocks[b].at + Len(blocks[b].expect) <= heapBump
           /\ heapBump \in HeapBase .. Heap!End /\ heapBump \in Nat /\ Heap!End \in Nat /\ HeapBase \in Nat
           /\ \A i \in 1 .. Len(blocks[b].expect) : blocks[b].at + i - 1 \in HeapBase .. Heap!End - 1
<1>1. blocks[b] \in Block  BY DEF HeapInv
<1>2. /\ blocks[b].at \in Nat /\ blocks[b].expect \in Seq(Cell \cup {Heap!Any})
      /\ Len(blocks[b].expect) \in Nat
  BY <1>1 DEF Block
<1>3. HeapBase <= blocks[b].at /\ blocks[b].at + Len(blocks[b].expect) <= heapBump
  BY DEF HeapInv, BlockInv
<1>4. heapBump \in HeapBase .. Heap!End /\ heapBump \in Nat /\ Heap!End \in Nat /\ HeapBase \in Nat
  BY DEF HeapInv, Heap!TypeOK, ArenaFits, Heap!End
<1> QED  BY <1>1, <1>2, <1>3, <1>4

\* A block that is given out at or above the pointer and ends in the arena
\* keeps the invariant.
LEMMA GiveKeeps ==
    ASSUME ArenaFits, HeapInv, NEW ptr \in Nat, NEW size \in Nat, heapBump <= ptr,
           size <= HeapSize => ptr + size <= Heap!End,
           NEW contents \in Seq(Cell), Len(contents) <= size,
           NEW expect \in Seq(Cell \cup {Heap!Any}), size <= HeapSize => Len(expect) <= size,
           size <= HeapSize => \A i \in 1 .. Len(expect) :
               expect[i] = Heap!Any \/ (i <= Len(contents) /\ contents[i] = expect[i]),
           Heap!Give(ptr, size, contents, expect)
    PROVE  HeapInv'
<1>1. CASE size > HeapSize
 <2>1. died' = TRUE /\ UNCHANGED <<heapBump, cells, blocks>>  BY <1>1 DEF Heap!Give
 <2> QED  BY <2>1 DEF HeapInv, Heap!TypeOK, BlockInv, BlocksInOrder
<1>2. CASE ~(size > HeapSize)
 <2>1. PICK e : e = IF ptr = 0 THEN <<>> ELSE expect  OBVIOUS
 <2>2. /\ e \in Seq(Cell \cup {Heap!Any}) /\ Len(e) \in Nat /\ Len(e) <= size
       /\ \A i \in 1 .. Len(e) : e[i] = Heap!Any \/ (i <= Len(contents) /\ contents[i] = e[i])
  <3>1. size <= HeapSize  BY <1>2 DEF ArenaFits
  <3>2. CASE ptr = 0
   <4>1. e = <<>> /\ Len(e) = 0  BY <2>1, <3>2
   <4> QED  BY <4>1
  <3>3. CASE ptr # 0  BY <2>1, <3>1, <3>3
  <3> QED  BY <3>2, <3>3
 <2>3. PICK new : new = [at |-> ptr, expect |-> e]  OBVIOUS
 <2>4. new \in Block /\ new.at = ptr /\ new.expect = e  BY <2>2, <2>3 DEF Block
 <2>5. /\ heapBump' = ptr + size /\ cells' = Heap!Written(ptr, contents)
       /\ blocks' = Append(blocks, new) /\ died' = died
   BY <1>2, <2>1, <2>3 DEF Heap!Give
 <2>6. blocks \in Seq(Block) /\ Heap!TypeOK  BY DEF HeapInv
 <2>7. /\ blocks' \in Seq(Block) /\ Len(blocks') = Len(blocks) + 1
       /\ blocks'[Len(blocks) + 1] = new /\ Len(blocks) \in Nat
       /\ \A b \in 1 .. Len(blocks) : blocks'[b] = blocks[b]
   BY <2>4, <2>5, <2>6
 <2>8. /\ heapBump \in HeapBase .. Heap!End /\ heapBump \in Nat /\ Heap!End \in Nat /\ HeapBase \in Nat
       /\ ptr + size <= Heap!End
   BY <1>2, <2>6 DEF Heap!TypeOK, ArenaFits, Heap!End
 <2>9. PICK cs : cs = Heap!Written(ptr, contents)  OBVIOUS
 <2>10. /\ cs \in [HeapBase .. Heap!End - 1 -> Cell]
        /\ \A i \in 1 .. Len(contents) : ptr + i - 1 \in HeapBase .. Heap!End - 1 => cs[ptr + i - 1] = contents[i]
        /\ \A c \in HeapBase .. Heap!End - 1 : c < ptr \/ c >= ptr + Len(contents) => cs[c] = cells[c]
   BY <2>6, <2>9, WrittenCells
 <2>11. cells' = cs  BY <2>5, <2>9
 <2>12. Heap!TypeOK'  BY <2>5, <2>6, <2>8, <2>10, <2>11 DEF Heap!TypeOK, Cell
 <2>13. ASSUME NEW b \in 1 .. Len(blocks) PROVE BlockInv(b)'
  <3>1. /\ blocks[b].at \in Nat /\ Len(blocks[b].expect) \in Nat
        /\ HeapBase <= blocks[b].at /\ blocks[b].at + Len(blocks[b].expect) <= heapBump
        /\ \A i \in 1 .. Len(blocks[b].expect) : blocks[b].at + i - 1 \in HeapBase .. Heap!End - 1
    BY OneBlock
  <3>2. PICK a \in Nat : a = blocks[b].at  BY <3>1
  <3>6. PICK x : x = blocks[b].expect /\ Len(x) \in Nat  BY <3>1
  <3>3. \A i \in 1 .. Len(x) : x[i] \in {Heap!Any, cells[a + i - 1]}
    BY <3>2, <3>6 DEF HeapInv, BlockInv
  <3>4. \A i \in 1 .. Len(x) : cs[a + i - 1] = cells[a + i - 1]
   <4> SUFFICES ASSUME NEW i \in 1 .. Len(x) PROVE cs[a + i - 1] = cells[a + i - 1]  OBVIOUS
   <4>1. PICK c \in HeapBase .. Heap!End - 1 : c = a + i - 1  BY <3>1, <3>2, <3>6
   <4>2. PICK n \in Nat : n = Len(x) /\ a + n <= heapBump  BY <3>1, <3>2, <3>6
   <4>3. i \in 1 .. n /\ heapBump \in Nat  BY <2>8, <4>2
   <4>4. a + i - 1 < ptr  BY <4>2, <4>3
   <4>5. c < ptr  BY <4>1, <4>4
   <4> QED  BY <2>10, <4>1, <4>5
  <3>5. blocks'[b].at = a /\ blocks'[b].expect = x  BY <2>7, <3>2, <3>6
  <3>7. HeapBase <= a /\ a + Len(x) <= heapBump  BY <3>1, <3>2, <3>6
  <3>8. PICK n \in Nat : n = Len(x)  BY <3>6
  <3>9. heapBump' \in Nat /\ heapBump <= heapBump'  BY <2>5, <2>8
  <3>10. a + n <= heapBump'  BY <3>7, <3>8, <3>9, <2>8
  <3> QED  BY <2>11, <3>3, <3>4, <3>5, <3>7, <3>8, <3>10 DEF BlockInv
 <2>17. PICK k : k = Len(blocks) + 1  OBVIOUS
 <2>14. BlockInv(k)'
  <3>2. blocks'[k].at = ptr /\ blocks'[k].expect = e  BY <2>4, <2>7, <2>17
  <3>3. ASSUME NEW i \in 1 .. Len(e) PROVE e[i] \in {Heap!Any, cs[ptr + i - 1]}
   <4>1. ptr + i - 1 \in HeapBase .. Heap!End - 1  BY <2>2, <2>8
   <4>2. CASE e[i] = Heap!Any  BY <4>2
   <4>3. CASE i <= Len(contents) /\ contents[i] = e[i]  BY <2>10, <4>1, <4>3, <2>2
   <4> QED  BY <2>2, <4>2, <4>3
  <3>4. HeapBase <= ptr /\ ptr + Len(e) <= heapBump'  BY <2>2, <2>5, <2>8
  <3> QED  BY <2>11, <3>2, <3>3, <3>4 DEF BlockInv
 <2>15. BlocksInOrder'
  <3> SUFFICES ASSUME NEW b \in 1 .. Len(blocks'), NEW c \in 1 .. Len(blocks'), b < c
               PROVE  blocks'[b].at + Len(blocks'[b].expect) <= blocks'[c].at
    BY DEF BlocksInOrder
  <3>1. b \in 1 .. Len(blocks) /\ blocks'[b] = blocks[b]  BY <2>7
  <3>2. CASE c = Len(blocks) + 1
   <4>1. /\ blocks[b].at \in Nat /\ Len(blocks[b].expect) \in Nat
         /\ blocks[b].at + Len(blocks[b].expect) <= heapBump
     BY <3>1, OneBlock
   <4>2. blocks'[c].at = ptr  BY <3>2, <2>4, <2>7
   <4> QED  BY <3>1, <4>1, <4>2, <2>8
  <3>3. CASE c \in 1 .. Len(blocks)  BY <3>1, <3>3, <2>7 DEF HeapInv, BlocksInOrder
  <3>4. c = Len(blocks) + 1 \/ c \in 1 .. Len(blocks)  BY <2>7
  <3> QED  BY <3>2, <3>3, <3>4
 <2>16. \A b \in 1 .. Len(blocks') : BlockInv(b)'
  <3> SUFFICES ASSUME NEW b \in 1 .. Len(blocks') PROVE BlockInv(b)'  OBVIOUS
  <3>1. CASE b \in 1 .. Len(blocks)  BY <3>1, <2>13
  <3>2. CASE b = k  BY <3>2, <2>14
  <3> QED  BY <3>1, <3>2, <2>7, <2>17
 <2> QED  BY <2>7, <2>12, <2>15, <2>16 DEF HeapInv
<1> QED  BY <1>1, <1>2

\* An allocator that takes the pointer, or rounds it up, gives a block above it
\* that ends in the arena if it passed the check.
LEMMA PlaceFits ==
    ASSUME ArenaFits, HeapInv, NEW ptr, NEW size \in Nat, Heap!Fits(ptr, size),
           ptr = heapBump \/ \E unit \in {Unit, Page} : ptr = Heap!RoundUp(heapBump, unit)
    PROVE  ptr \in Nat /\ heapBump <= ptr /\ (size <= HeapSize => ptr + size <= Heap!End)
<1>1. /\ heapBump \in Nat /\ heapBump <= Heap!End /\ Heap!End \in Nat /\ HeapSize \in Nat /\ Width \in Nat
      /\ Unit \in Nat \ {0} /\ Page \in Nat \ {0} /\ Heap!End + HeapSize + Page + Unit <= Width
  BY DEF HeapInv, Heap!TypeOK, ArenaFits, Heap!End
<1>2. ptr \in Nat /\ heapBump <= ptr /\ ptr <= heapBump + Unit + Page - 1
 <2>1. CASE ptr = heapBump  BY <1>1, <2>1
 <2>2. ASSUME NEW unit \in {Unit, Page}, ptr = Heap!RoundUp(heapBump, unit)
       PROVE  ptr \in Nat /\ heapBump <= ptr /\ ptr <= heapBump + Unit + Page - 1
  <3>1. PICK r \in Nat : r = ptr /\ heapBump <= r /\ r <= heapBump + unit - 1
    BY <1>1, <2>2, Rounded
  <3> QED  BY <1>1, <3>1
 <2> QED  BY <2>1, <2>2
<1>3. ASSUME size <= HeapSize PROVE ptr + size <= Heap!End
 <2>1. ptr <= Heap!End + Page + Unit /\ ptr + size < Width  BY <1>1, <1>2, <1>3
 <2> QED  BY <1>2, <1>3, <2>1, FitsInArena
<1> QED  BY <1>2, <1>3

\* Cleared cells, and cells nobody has written.
LEMMA Filled ==
    ASSUME NEW n \in Nat
    PROVE  /\ Heap!Zeros(n) \in Seq(Cell) /\ Len(Heap!Zeros(n)) = n /\ \A i \in 1 .. n : Heap!Zeros(n)[i] = 0
           /\ Heap!Zeros(n) \in Seq(Cell \cup {Heap!Any})
           /\ Heap!Anything(n) \in Seq(Cell \cup {Heap!Any}) /\ Len(Heap!Anything(n)) = n
           /\ \A i \in 1 .. n : Heap!Anything(n)[i] = Heap!Any
BY DEF Heap!Zeros, Heap!Anything, Cell

\* An allocator that clears its block and promises zeros or nothing.
LEMMA ClearedKeeps ==
    ASSUME ArenaFits, HeapInv, NEW ptr, NEW size \in Nat, Heap!Fits(ptr, size),
           ptr = heapBump \/ \E unit \in {Unit, Page} : ptr = Heap!RoundUp(heapBump, unit),
           NEW n \in Nat, n <= HeapSize => n <= size,
           NEW e, e \in {<<>>, Heap!Zeros(n), Heap!Anything(n)}, n > HeapSize => e = <<>>,
           Heap!Give(ptr, size, Heap!Zeros(size), e)
    PROVE  HeapInv'
<1>1. ptr \in Nat /\ heapBump <= ptr /\ (size <= HeapSize => ptr + size <= Heap!End)  BY PlaceFits
<1>2. PICK z : z = Heap!Zeros(size)  OBVIOUS
<1>3. z \in Seq(Cell) /\ Len(z) = size /\ \A i \in 1 .. size : z[i] = 0  BY <1>2, Filled
<1>4. /\ e \in Seq(Cell \cup {Heap!Any}) /\ Len(e) \in Nat /\ Len(e) <= size
      /\ \A i \in 1 .. Len(e) : e[i] \in {0, Heap!Any}
 <2>1. CASE e = <<>>
  <3>1. e \in Seq(Cell \cup {Heap!Any}) /\ Len(e) = 0  BY <2>1
  <3> QED  BY <3>1
 <2>2. CASE e # <<>>
  <3>1. n <= size  BY <2>2 DEF ArenaFits
  <3>2. /\ e \in Seq(Cell \cup {Heap!Any}) /\ Len(e) = n /\ \A i \in 1 .. n : e[i] \in {0, Heap!Any}
    BY <2>2, Filled
  <3> QED  BY <3>1, <3>2
 <2> QED  BY <2>1, <2>2
<1>5. \A i \in 1 .. Len(e) : e[i] = Heap!Any \/ (i <= Len(z) /\ z[i] = e[i])  BY <1>3, <1>4
<1>6. Heap!Give(ptr, size, z, e)  BY <1>2
<1> QED  BY <1>1, <1>3, <1>4, <1>5, <1>6, GiveKeeps

\* A size that is rounded up is large enough for a request the arena could hold.
LEMMA LargeEnough ==
    ASSUME ArenaFits, NEW n \in Nat, NEW unit \in {Unit, Page}
    PROVE  Heap!RoundUp(n, unit) \in Nat /\ (n <= HeapSize => n <= Heap!RoundUp(n, unit))
<1>1. n <= HeapSize => n <= Heap!End  BY DEF ArenaFits, Heap!End
<1> QED  BY <1>1, Rounded

\* What a caller may rely on.
LEMMA ExpectedOf ==
    ASSUME ArenaFits, NEW n \in Nat, NEW x
    PROVE  Heap!Expected(n, x) \in {<<>>, x} /\ (n > HeapSize => Heap!Expected(n, x) = <<>>)
BY DEF Heap!Expected, Heap!Sane, ArenaFits

\* malloc() and operator new.
LEMMA MallocKeeps ==
    ASSUME ArenaFits, HeapInv, NEW n \in Requests, Heap!Malloc(n) \/ Heap!OperatorNew(n)
    PROVE  HeapInv'
<1>1. n \in Nat  BY DEF ArenaFits
<1>2. CASE Heap!Malloc(n)
 <2>1. PICK size \in Nat : size = Heap!RoundUp(n, Unit) /\ (n <= HeapSize => n <= size)
   BY <1>1, LargeEnough
 <2>2. PICK e : e = Heap!Expected(n, Heap!Anything(n))  OBVIOUS
 <2>3. e \in {<<>>, Heap!Zeros(n), Heap!Anything(n)} /\ (n > HeapSize => e = <<>>)
   BY <1>1, <2>2, ExpectedOf
 <2>4. Heap!Fits(heapBump, size) /\ Heap!Give(heapBump, size, Heap!Zeros(size), e)
   BY <1>2, <2>1, <2>2 DEF Heap!Malloc
 <2> QED  BY <1>1, <2>1, <2>3, <2>4, ClearedKeeps
<1>3. CASE ~Heap!Malloc(n)
 <2>1. died' = TRUE /\ UNCHANGED <<heapBump, cells, blocks>>  BY <1>3 DEF Heap!OperatorNew
 <2> QED  BY <2>1 DEF HeapInv, Heap!TypeOK, BlockInv, BlocksInOrder
<1> QED  BY <1>2, <1>3

\* calloc(): a product that wraps is larger than the arena.
LEMMA CallocKeeps ==
    ASSUME ArenaFits, HeapInv, NEW count \in Requests, NEW each \in Requests, Heap!Calloc(count, each)
    PROVE  HeapInv'
<1>1. PICK n \in Nat : n = count * each  BY DEF ArenaFits
<1>2. PICK m \in Nat : m = n % Width /\ (n < Width => m = n)
 <2>1. Width \in Nat \ {0}  BY DEF ArenaFits, Heap!End
 <2>2. n % Width \in 0 .. Width - 1 /\ (n < Width => n % Width = n)  BY <2>1, SmallRemainder
 <2> QED  BY <2>1, <2>2
<1>3. PICK size \in Nat : size = Heap!RoundUp(m, Unit) /\ (m <= HeapSize => m <= size)
  BY LargeEnough
<1>4. n <= HeapSize => n <= size  BY <1>2, <1>3 DEF ArenaFits, Heap!End
<1>5. PICK e : e = Heap!Expected(n, Heap!Zeros(n))  OBVIOUS
<1>6. e \in {<<>>, Heap!Zeros(n), Heap!Anything(n)} /\ (n > HeapSize => e = <<>>)
  BY <1>5, ExpectedOf
<1>7. Heap!Fits(heapBump, size) /\ Heap!Give(heapBump, size, Heap!Zeros(size), e)
  BY <1>1, <1>2, <1>3, <1>5 DEF Heap!Calloc
<1> QED  BY <1>3, <1>4, <1>6, <1>7, ClearedKeeps

\* posix_memalign() and mmap() round the pointer up too.
LEMMA AlignedKeeps ==
    ASSUME ArenaFits, HeapInv, NEW n \in Requests,
           Heap!Mmap(n) \/ \E align \in {1, Page} : Heap!PosixMemalign(align, n)
    PROVE  HeapInv'
<1>1. n \in Nat  BY DEF ArenaFits
<1>2. PICK size, ptr, e :
         /\ size \in Nat
         /\ n <= HeapSize => n <= size
         /\ e \in {Heap!Expected(n, Heap!Zeros(n)), Heap!Expected(n, Heap!Anything(n))}
         /\ \E unit \in {Unit, Page} : ptr = Heap!RoundUp(heapBump, unit)
         /\ Heap!Fits(ptr, size) /\ Heap!Give(ptr, size, Heap!Zeros(size), e)
 <2>1. CASE Heap!Mmap(n)
  <3>1. PICK size \in Nat : size = Heap!RoundUp(n, Page) /\ (n <= HeapSize => n <= size)
    BY <1>1, LargeEnough
  <3>2. PICK ptr : ptr = Heap!RoundUp(heapBump, Page)  OBVIOUS
  <3>3. Heap!Fits(ptr, size) /\ Heap!Give(ptr, size, Heap!Zeros(size), Heap!Expected(n, Heap!Zeros(n)))
    BY <2>1, <3>1, <3>2 DEF Heap!Mmap
  <3> QED  BY <3>1, <3>2, <3>3
 <2>2. ASSUME NEW align \in {1, Page}, Heap!PosixMemalign(align, n)
       PROVE  \E size, ptr, e :
                 /\ size \in Nat
                 /\ n <= HeapSize => n <= size
                 /\ e \in {Heap!Expected(n, Heap!Zeros(n)), Heap!Expected(n, Heap!Anything(n))}
                 /\ \E unit \in {Unit, Page} : ptr = Heap!RoundUp(heapBump, unit)
                 /\ Heap!Fits(ptr, size) /\ Heap!Give(ptr, size, Heap!Zeros(size), e)
  <3>1. PICK size \in Nat : size = Heap!RoundUp(n, Unit) /\ (n <= HeapSize => n <= size)
    BY <1>1, LargeEnough
  <3>2. PICK unit \in {Unit, Page} : unit = IF align < Unit THEN Unit ELSE align
    BY DEF ArenaFits
  <3>3. PICK ptr : ptr = Heap!RoundUp(heapBump, unit)  OBVIOUS
  <3>4. Heap!Fits(ptr, size) /\ Heap!Give(ptr, size, Heap!Zeros(size), Heap!Expected(n, Heap!Anything(n)))
    BY <2>2, <3>1, <3>2, <3>3 DEF Heap!PosixMemalign
  <3> QED  BY <3>1, <3>3, <3>4
 <2> QED  BY <2>1, <2>2
<1>3. e \in {<<>>, Heap!Zeros(n), Heap!Anything(n)} /\ (n > HeapSize => e = <<>>)
  BY <1>1, <1>2, ExpectedOf
<1> QED  BY <1>1, <1>2, <1>3, ClearedKeeps

\* Thread stacks and bitmaps: as many cells as they need, cleared.
LEMMA FixedKeeps ==
    ASSUME ArenaFits, HeapInv, Heap!ThreadStack \/ Heap!AllocPixels
    PROVE  HeapInv'
<1>1. PICK n, ptr :
         /\ n \in Nat
         /\ ptr = Heap!RoundUp(heapBump, Unit) /\ Heap!Fits(ptr, n) /\ Heap!Give(ptr, n, Heap!Zeros(n), Heap!Zeros(n))
  BY DEF Heap!ThreadStack, Heap!AllocPixels, ArenaFits
<1>2. ptr \in Nat /\ heapBump <= ptr /\ (n <= HeapSize => ptr + n <= Heap!End)  BY <1>1, PlaceFits
<1>3. PICK z : z = Heap!Zeros(n)  OBVIOUS
<1>4. z \in Seq(Cell) /\ Len(z) = n /\ z \in Seq(Cell \cup {Heap!Any})  BY <1>1, <1>3, Filled
<1>5. Heap!Give(ptr, n, z, z)  BY <1>1, <1>3
<1> QED  BY <1>1, <1>2, <1>4, <1>5, GiveKeeps

\* strdup() and the others that copy a text, and alloc_guest().
LEMMA TextKeeps ==
    ASSUME ArenaFits, HeapInv, NEW n \in Requests, Heap!Sane(n), Heap!CopyText(n) \/ Heap!AllocGuest(n)
    PROVE  HeapInv'
<1>1. n \in Nat /\ n <= HeapSize  BY DEF ArenaFits, Heap!Sane
<1>2. CASE Heap!CopyText(n)
 <2>1. PICK size \in Nat : size = Heap!RoundUp(n + 1, Unit)  BY <1>1, LargeEnough
 <2>2. size <= HeapSize => n + 1 <= size
  <3>1. Unit \in Nat \ {0} /\ Width \in Nat \ {0}  BY DEF ArenaFits, Heap!End
  <3>2. PICK y \in Nat : y = (n + 1) + Unit - 1 /\ y < Width  BY <1>1 DEF ArenaFits, Heap!End
  <3>3. y % Width = y  BY <3>1, <3>2, SmallRemainder
  <3>4. PICK r \in 0 .. Unit - 1 : r = y % Unit  BY <3>1, <3>2, SmallRemainder
  <3>5. size = y - r  BY <2>1, <3>2, <3>3, <3>4 DEF Heap!RoundUp
  <3> QED  BY <1>1, <3>1, <3>2, <3>5
 <2>3. PICK text : text = [i \in 1 .. n + 1 |-> IF i = n + 1 THEN 0 ELSE 1]  OBVIOUS
 <2>4. text \in Seq(Cell) /\ text \in Seq(Cell \cup {Heap!Any}) /\ Len(text) = n + 1
   BY <1>1, <2>3 DEF Cell, Heap!Values
 <2>5. Heap!Fits(heapBump, size) /\ Heap!Give(heapBump, size, text, text)
   BY <1>2, <2>1, <2>3 DEF Heap!CopyText
 <2>6. heapBump \in Nat /\ (size <= HeapSize => heapBump + size <= Heap!End)  BY <2>5, PlaceFits
 <2>7. size > HeapSize \/ Len(text) <= size  BY <2>2, <2>4 DEF ArenaFits
 <2>8. CASE size > HeapSize
  <3>1. died' = TRUE /\ UNCHANGED <<heapBump, cells, blocks>>  BY <2>5, <2>8 DEF Heap!Give
  <3> QED  BY <3>1 DEF HeapInv, Heap!TypeOK, BlockInv, BlocksInOrder
 <2>9. CASE Len(text) <= size
  <3>1. heapBump <= heapBump /\ \A i \in 1 .. Len(text) : i <= Len(text)  BY <2>4, <2>6, <1>1
  <3> QED  BY <2>4, <2>5, <2>6, <2>9, <3>1, GiveKeeps
 <2> QED  BY <2>7, <2>8, <2>9
<1>3. CASE Heap!AllocGuest(n)
 <2>1. PICK size \in Nat : size = Heap!RoundUp(n, Unit) /\ n <= size  BY <1>1, LargeEnough
 <2>2. PICK ptr : ptr = Heap!RoundUp(heapBump, Unit)  OBVIOUS
 <2>3. Heap!Fits(ptr, size) /\ Heap!Give(ptr, size, <<>>, Heap!Anything(n))
   BY <1>3, <2>1, <2>2 DEF Heap!AllocGuest
 <2>4. ptr \in Nat /\ heapBump <= ptr /\ (size <= HeapSize => ptr + size <= Heap!End)
   BY <2>1, <2>2, <2>3, PlaceFits
 <2>5. PICK e : e = Heap!Anything(n)  OBVIOUS
 <2>6. e \in Seq(Cell \cup {Heap!Any}) /\ Len(e) = n /\ \A i \in 1 .. n : e[i] = Heap!Any
   BY <1>1, <2>5, Filled
 <2>7. PICK none : none = <<>>  OBVIOUS
 <2>8. none \in Seq(Cell) /\ Len(none) = 0  BY <2>7
 <2>9. Heap!Give(ptr, size, none, e) /\ Len(none) <= size /\ Len(e) <= size
   BY <2>1, <2>3, <2>5, <2>6, <2>7, <2>8
 <2>10. \A i \in 1 .. Len(e) : e[i] = Heap!Any \/ (i <= Len(none) /\ none[i] = e[i])  BY <2>6
 <2> QED  BY <2>1, <2>4, <2>6, <2>8, <2>9, <2>10, GiveKeeps
<1> QED  BY <1>2, <1>3

\* realloc(): the cells of the old block as far as they go.
LEMMA ReallocKeeps ==
    ASSUME ArenaFits, HeapInv, NEW n \in Requests, NEW b \in 1 .. Len(blocks), Heap!Realloc(b, n)
    PROVE  HeapInv'
<1>1. n \in Nat  BY DEF ArenaFits
<1>2. PICK size \in Nat : size = Heap!RoundUp(n, Unit) /\ (n <= HeapSize => n <= size)
  BY <1>1, LargeEnough
<1>3. PICK from \in Nat, was \in Seq(Cell \cup {Heap!Any}) :
         /\ from = blocks[b].at /\ was = blocks[b].expect
         /\ HeapBase <= from /\ from + Len(was) <= heapBump
  BY OneBlock
<1>4. \A i \in 1 .. Len(was) : was[i] \in {Heap!Any, cells[from + i - 1]}
  BY <1>3 DEF HeapInv, BlockInv
<1>5. heapBump \in Nat /\ heapBump <= Heap!End /\ Heap!End \in Nat /\ HeapBase \in Nat
  BY OneBlock
<1>6. PICK copy \in Nat : /\ copy = IF size < heapBump - from THEN size ELSE heapBump - from
                          /\ copy <= size /\ copy <= heapBump - from
                          /\ \A i \in Nat : i <= size /\ i <= Len(was) => i <= copy
 <2>1. Len(was) \in Nat /\ heapBump - from \in Nat /\ Len(was) <= heapBump - from  BY <1>3, <1>5
 <2> QED  BY <2>1
<1>7. PICK s : s = [i \in 1 .. size |-> IF i <= copy THEN cells[from + i - 1] ELSE 0]  OBVIOUS
<1>8. s \in Seq(Cell) /\ Len(s) = size
 <2>1. \A i \in 1 .. size : i <= copy => cells[from + i - 1] \in Cell
  <3> SUFFICES ASSUME NEW i \in 1 .. size, i <= copy PROVE cells[from + i - 1] \in Cell  OBVIOUS
  <3>1. i <= heapBump - from  BY <1>3, <1>5, <1>6
  <3>2. HeapBase <= from /\ from \in Nat /\ i \in Nat /\ i >= 1  BY <1>3
  <3>3. from + i - 1 \in HeapBase .. Heap!End - 1  BY <1>5, <3>1, <3>2
  <3> QED  BY <3>3 DEF HeapInv, Heap!TypeOK, Cell
 <2>2. \A i \in 1 .. size : (IF i <= copy THEN cells[from + i - 1] ELSE 0) \in Cell
   BY <2>1 DEF Cell
 <2> QED  BY <1>7, <2>2
<1>9. PICK x : x = [i \in 1 .. n |-> IF i <= Len(was) THEN was[i] ELSE Heap!Any]  OBVIOUS
<1>10. x \in Seq(Cell \cup {Heap!Any}) /\ Len(x) = n  BY <1>1, <1>9
<1>11. PICK e : e = Heap!Expected(n, x)  OBVIOUS
<1>12. e \in Seq(Cell \cup {Heap!Any}) /\ (e = <<>> \/ (e = x /\ n <= HeapSize))
  BY <1>1, <1>10, <1>11 DEF Heap!Expected, Heap!Sane
<1>13. Heap!Fits(heapBump, size) /\ Heap!Give(heapBump, size, s, e)
  BY <1>2, <1>3, <1>6, <1>7, <1>9, <1>11 DEF Heap!Realloc
<1>14. heapBump <= heapBump /\ (size <= HeapSize => heapBump + size <= Heap!End)
  BY <1>5, <1>13, PlaceFits
<1>15. /\ Len(e) <= size
       /\ \A i \in 1 .. Len(e) : e[i] = Heap!Any \/ (i <= Len(s) /\ s[i] = e[i])
 <2>1. CASE e = <<>>
  <3>1. Len(e) = 0  BY <2>1
  <3> QED  BY <3>1
 <2>2. CASE e = x /\ n <= HeapSize
  <3>1. Len(e) = n /\ n <= size  BY <1>2, <1>10, <2>2
  <3>2. ASSUME NEW i \in 1 .. n PROVE e[i] = Heap!Any \/ (i <= Len(s) /\ s[i] = e[i])
   <4>1. i \in 1 .. size  BY <1>1, <3>1
   <4>2. CASE i <= Len(was)
    <5>1. i <= copy /\ i \in 1 .. Len(was)  BY <1>6, <4>1, <4>2
    <5>2. e[i] = was[i] /\ s[i] = cells[from + i - 1]  BY <1>7, <1>9, <2>2, <4>1, <4>2, <5>1
    <5> QED  BY <1>4, <1>8, <4>1, <5>1, <5>2
   <4>3. CASE ~(i <= Len(was))  BY <1>9, <2>2, <4>3
   <4> QED  BY <4>2, <4>3
  <3> QED  BY <3>1, <3>2
 <2> QED  BY <1>12, <2>1, <2>2
<1>16. Len(s) <= size  BY <1>8
<1> QED  BY <1>5, <1>8, <1>12, <1>13, <1>14, <1>15, <1>16, GiveKeeps

\* Writing over a block, as far as the owner may rely on it, leaves every other
\* block as it was.
LEMMA RewriteKeeps ==
    ASSUME ArenaFits, HeapInv, NEW b \in 1 .. Len(blocks), NEW s \in Seq(Cell),
           NEW x \in Seq(Cell \cup {Heap!Any}), Len(x) = Len(blocks[b].expect), Len(s) <= Len(x),
           \A i \in 1 .. Len(x) :
              IF i <= Len(s) THEN x[i] \in {Heap!Any, s[i]} ELSE x[i] = blocks[b].expect[i],
           cells' = Heap!Written(blocks[b].at, s), blocks' = [blocks EXCEPT ![b].expect = x],
           UNCHANGED <<heapBump, died>>
    PROVE  HeapInv'
<1>1. PICK a \in Nat, old \in Seq(Cell \cup {Heap!Any}) :
         /\ a = blocks[b].at /\ old = blocks[b].expect
         /\ HeapBase <= a /\ a + Len(old) <= heapBump
         /\ \A i \in 1 .. Len(old) : a + i - 1 \in HeapBase .. Heap!End - 1
  BY OneBlock
<1>2. heapBump \in Nat /\ heapBump <= Heap!End /\ Heap!End \in Nat /\ HeapBase \in Nat
  BY OneBlock
<1>3. blocks \in Seq(Block) /\ Heap!TypeOK /\ blocks[b] \in Block  BY OneBlock DEF HeapInv
<1>4. PICK cs : cs = Heap!Written(a, s)  OBVIOUS
<1>5. /\ cs \in [HeapBase .. Heap!End - 1 -> Cell]
      /\ \A i \in 1 .. Len(s) : a + i - 1 \in HeapBase .. Heap!End - 1 => cs[a + i - 1] = s[i]
      /\ \A c \in HeapBase .. Heap!End - 1 : c < a \/ c >= a + Len(s) => cs[c] = cells[c]
  BY <1>3, <1>4, WrittenCells
<1>6. cells' = cs  BY <1>1, <1>4
<1>7. /\ blocks' \in Seq(Block) /\ Len(blocks') = Len(blocks)
      /\ blocks'[b].at = a /\ blocks'[b].expect = x
      /\ \A c \in 1 .. Len(blocks) \ {b} : blocks'[c] = blocks[c]
 <2>1. [blocks[b] EXCEPT !.expect = x] \in Block  BY <1>3 DEF Block
 <2>2. blocks' = [blocks EXCEPT ![b] = [blocks[b] EXCEPT !.expect = x]]  OBVIOUS
 <2> QED  BY <1>1, <1>3, <2>1, <2>2 DEF Block
<1>8. Heap!TypeOK'  BY <1>3, <1>5, <1>6 DEF Heap!TypeOK, Cell
<1>9. Len(x) = Len(old) /\ Len(s) \in Nat /\ Len(x) \in Nat  BY <1>1
<1>10. BlockInv(b)'
 <2>1. ASSUME NEW i \in 1 .. Len(x) PROVE x[i] \in {Heap!Any, cs[a + i - 1]}
  <3>1. PICK c \in HeapBase .. Heap!End - 1 : c = a + i - 1  BY <1>1, <1>9
  <3>2. CASE i <= Len(s)
   <4>1. i \in 1 .. Len(s) /\ x[i] \in {Heap!Any, s[i]}  BY <1>9, <3>2
   <4> QED  BY <1>5, <3>1, <4>1
  <3>3. CASE ~(i <= Len(s))
   <4>1. c >= a + Len(s)  BY <1>9, <3>1, <3>3
   <4>2. x[i] = old[i] /\ cs[c] = cells[c]  BY <1>1, <1>5, <3>3, <4>1
   <4>3. old[i] \in {Heap!Any, cells[a + i - 1]}  BY <1>1, <1>9 DEF HeapInv, BlockInv
   <4> QED  BY <3>1, <4>2, <4>3
  <3> QED  BY <3>2, <3>3
 <2> QED  BY <1>1, <1>6, <1>7, <1>9, <2>1 DEF BlockInv
<1>11. ASSUME NEW c \in 1 .. Len(blocks) \ {b} PROVE BlockInv(c)'
 <2>1. PICK p \in Nat, y \in Seq(Cell \cup {Heap!Any}) :
          /\ p = blocks[c].at /\ y = blocks[c].expect
          /\ HeapBase <= p /\ p + Len(y) <= heapBump
          /\ \A i \in 1 .. Len(y) : p + i - 1 \in HeapBase .. Heap!End - 1
   BY OneBlock
 <2>2. p + Len(y) <= a \/ a + Len(old) <= p
  <3>1. b < c \/ c < b  OBVIOUS
  <3>2. CASE b < c  BY <1>1, <2>1, <3>2 DEF HeapInv, BlocksInOrder
  <3>3. CASE c < b  BY <1>1, <2>1, <3>3 DEF HeapInv, BlocksInOrder
  <3> QED  BY <3>1, <3>2, <3>3
 <2>3. ASSUME NEW i \in 1 .. Len(y) PROVE y[i] \in {Heap!Any, cs[p + i - 1]}
  <3>1. PICK k \in HeapBase .. Heap!End - 1 : k = p + i - 1  BY <2>1
  <3>2. k < a \/ k >= a + Len(s)  BY <1>9, <2>2, <3>1
  <3>3. cs[k] = cells[k]  BY <1>5, <3>2
  <3>4. y[i] \in {Heap!Any, cells[p + i - 1]}  BY <2>1 DEF HeapInv, BlockInv
  <3> QED  BY <3>1, <3>3, <3>4
 <2>4. blocks'[c].at = p /\ blocks'[c].expect = y  BY <1>7, <2>1
 <2> QED  BY <1>6, <2>1, <2>3, <2>4 DEF BlockInv
<1>12. BlocksInOrder'
 <2>1. \A c \in 1 .. Len(blocks) : /\ blocks'[c].at = blocks[c].at
                                    /\ Len(blocks'[c].expect) = Len(blocks[c].expect)
   BY <1>1, <1>7
 <2> QED  BY <1>7, <2>1 DEF HeapInv, BlocksInOrder
<1> QED  BY <1>7, <1>8, <1>10, <1>11, <1>12 DEF HeapInv

\* memset(): the owner fills its block.
LEMMA MemsetKeeps ==
    ASSUME ArenaFits, HeapInv, NEW b \in 1 .. Len(blocks), NEW value \in Heap!Values, Heap!Memset(b, value)
    PROVE  HeapInv'
<1>1. PICK n \in Nat : n = Len(blocks[b].expect)  BY OneBlock
<1>2. PICK s : s = [i \in 1 .. n |-> value]  OBVIOUS
<1>3. s \in Seq(Cell) /\ s \in Seq(Cell \cup {Heap!Any}) /\ Len(s) = n /\ \A i \in 1 .. n : s[i] = value
  BY <1>2 DEF Cell
<1>4. /\ cells' = Heap!Written(blocks[b].at, s) /\ blocks' = [blocks EXCEPT ![b].expect = s]
      /\ UNCHANGED <<heapBump, died>>
  BY <1>1, <1>2 DEF Heap!Memset
<1>5. \A i \in 1 .. Len(s) :
         IF i <= Len(s) THEN s[i] \in {Heap!Any, s[i]} ELSE s[i] = blocks[b].expect[i]
  BY <1>3
<1>6. Len(s) = Len(blocks[b].expect) /\ Len(s) <= Len(s)  BY <1>1, <1>3
<1> QED  BY <1>3, <1>4, <1>5, <1>6, RewriteKeeps

\* memcpy() and memmove(): what one owner relied on, the other may now.
LEMMA MemcpyKeeps ==
    ASSUME ArenaFits, HeapInv, NEW b \in 1 .. Len(blocks), NEW f \in 1 .. Len(blocks),
           Heap!Memcpy(b, f)
    PROVE  HeapInv'
<1>1. PICK old \in Seq(Cell \cup {Heap!Any}) : old = blocks[b].expect  BY OneBlock
<1>2. PICK a \in Nat, src \in Seq(Cell \cup {Heap!Any}) :
         /\ a = blocks[f].at /\ src = blocks[f].expect
         /\ \A i \in 1 .. Len(src) : a + i - 1 \in HeapBase .. Heap!End - 1
  BY OneBlock
<1>3. \A i \in 1 .. Len(src) : src[i] \in {Heap!Any, cells[a + i - 1]}
  BY <1>2 DEF HeapInv, BlockInv
<1>4. PICK n \in Nat : /\ n = IF Len(old) < Len(src) THEN Len(old) ELSE Len(src)
                       /\ n <= Len(old) /\ n <= Len(src)
  OBVIOUS
<1>5. PICK s : s = [i \in 1 .. n |-> cells[a + i - 1]]  OBVIOUS
<1>6. s \in Seq(Cell) /\ Len(s) = n /\ \A i \in 1 .. n : s[i] = cells[a + i - 1]
 <2>1. ASSUME NEW i \in 1 .. n PROVE cells[a + i - 1] \in Cell
  <3>1. a + i - 1 \in HeapBase .. Heap!End - 1  BY <1>2, <1>4
  <3> QED  BY <3>1 DEF HeapInv, Heap!TypeOK, Cell
 <2> QED  BY <1>5, <2>1
<1>7. PICK x : x = [i \in DOMAIN old |-> IF i <= n THEN src[i] ELSE old[i]]  OBVIOUS
<1>8. /\ x \in Seq(Cell \cup {Heap!Any}) /\ Len(x) = Len(old)
      /\ \A i \in 1 .. Len(old) : x[i] = IF i <= n THEN src[i] ELSE old[i]
 <2>1. DOMAIN old = 1 .. Len(old) /\ Len(old) \in Nat  OBVIOUS
 <2>2. ASSUME NEW i \in 1 .. Len(old)
       PROVE  (IF i <= n THEN src[i] ELSE old[i]) \in Cell \cup {Heap!Any}
  <3>1. CASE i <= n
   <4>1. i \in 1 .. Len(src)  BY <1>4, <3>1
   <4> QED  BY <3>1, <4>1
  <3>2. CASE ~(i <= n)  BY <3>2
  <3> QED  BY <3>1, <3>2
 <2> QED  BY <1>7, <2>1, <2>2
<1>9. /\ cells' = Heap!Written(blocks[b].at, s) /\ blocks' = [blocks EXCEPT ![b].expect = x]
      /\ UNCHANGED <<heapBump, died>>
  BY <1>1, <1>2, <1>4, <1>5, <1>7 DEF Heap!Memcpy
<1>10. ASSUME NEW i \in 1 .. Len(x)
       PROVE  IF i <= Len(s) THEN x[i] \in {Heap!Any, s[i]} ELSE x[i] = blocks[b].expect[i]
 <2>1. CASE i <= n
  <3>1. i \in 1 .. Len(src) /\ i \in 1 .. n /\ i \in 1 .. Len(old)  BY <1>4, <1>8, <2>1
  <3>2. x[i] = src[i] /\ s[i] = cells[a + i - 1] /\ src[i] \in {Heap!Any, cells[a + i - 1]}
    BY <1>3, <1>6, <1>8, <2>1, <3>1
  <3> QED  BY <1>6, <2>1, <3>2
 <2>2. CASE ~(i <= n)  BY <1>1, <1>6, <1>8, <2>2
 <2> QED  BY <2>1, <2>2
<1>11. Len(x) = Len(blocks[b].expect) /\ Len(s) <= Len(x)  BY <1>1, <1>4, <1>6, <1>8
<1> QED  BY <1>6, <1>8, <1>9, <1>10, <1>11, RewriteKeeps

\* Every allocator, with its own rounding and its own check, gives out memory of
\* its own, and what the owners wrote is there, for any arena that is small
\* beside a machine word and any requests, those whose size wraps too.
THEOREM BlocksStayKept == ASSUME ArenaFits PROVE Heap!Spec => [](Heap!TypeOK /\ Heap!BlocksKeepTheirContents)
<1>1. Heap!Init => HeapInv
 <2> SUFFICES ASSUME Heap!Init PROVE HeapInv  OBVIOUS
 <2>1. blocks \in Seq(Block) /\ Len(blocks) = 0  BY DEF Heap!Init
 <2>2. Heap!TypeOK
  <3>1. HeapBase \in HeapBase .. Heap!End  BY DEF ArenaFits, Heap!End
  <3>2. [c \in HeapBase .. Heap!End - 1 |-> 0] \in [HeapBase .. Heap!End - 1 -> Heap!Values \cup {0}]
    OBVIOUS
  <3> QED  BY <3>1, <3>2 DEF Heap!Init, Heap!TypeOK
 <2> QED  BY <2>1, <2>2 DEF HeapInv, BlocksInOrder
<1>2. HeapInv /\ [Heap!Next]_(Heap!vars) => HeapInv'
 <2> SUFFICES ASSUME HeapInv, [Heap!Next]_(Heap!vars) PROVE HeapInv'  OBVIOUS
 <2>1. CASE UNCHANGED Heap!vars
   BY <2>1 DEF Heap!vars, HeapInv, Heap!TypeOK, BlockInv, BlocksInOrder
 <2>2. DOMAIN blocks = 1 .. Len(blocks)  BY DEF HeapInv
 <2>3. ASSUME NEW n \in Requests, Heap!Sane(n),
              Heap!CopyText(n) \/ Heap!Vasprintf(n) \/ Heap!StatusGetMessage(n) \/ Heap!AllocGuest(n)
       PROVE  HeapInv'
   BY <2>3, TextKeeps DEF Heap!Vasprintf, Heap!StatusGetMessage
 <2>4. ASSUME NEW n \in Requests, NEW align \in {1, Page}, Heap!PosixMemalign(align, n)
       PROVE  HeapInv'
   BY <2>4, AlignedKeeps
 <2>5. ASSUME NEW n \in Requests, Heap!Malloc(n) \/ Heap!OperatorNew(n) \/ Heap!Mmap(n) PROVE HeapInv'
   BY <2>5, AlignedKeeps, MallocKeeps
 <2>6. ASSUME NEW n \in Requests, NEW b \in DOMAIN blocks, Heap!Realloc(b, n) PROVE HeapInv'
   BY <2>2, <2>6, ReallocKeeps
 <2>7. ASSUME NEW b \in DOMAIN blocks, NEW value \in Heap!Values, Heap!Memset(b, value) PROVE HeapInv'
   BY <2>2, <2>7, MemsetKeeps
 <2>8. ASSUME NEW b \in DOMAIN blocks, NEW f \in DOMAIN blocks, Heap!Memcpy(b, f) PROVE HeapInv'
   BY <2>2, <2>8, MemcpyKeeps
 <2>9. ASSUME NEW count \in Requests, NEW each \in Requests, Heap!Calloc(count, each) PROVE HeapInv'
   BY <2>9, CallocKeeps
 <2>10. CASE Heap!ThreadStack \/ Heap!AllocPixels  BY <2>10, FixedKeeps
 <2> QED  BY <2>1, <2>3, <2>4, <2>5, <2>6, <2>7, <2>8, <2>9, <2>10 DEF Heap!Next
<1>3. HeapInv => Heap!TypeOK /\ Heap!BlocksKeepTheirContents
 <2> SUFFICES ASSUME HeapInv,
                     NEW b \in DOMAIN blocks, NEW i \in DOMAIN blocks[b].expect
              PROVE  /\ blocks[b].at + i - 1 < Heap!End
                     /\ blocks[b].expect[i] \in {Heap!Any, cells[blocks[b].at + i - 1]}
   BY DEF HeapInv, Heap!BlocksKeepTheirContents
 <2>1. b \in 1 .. Len(blocks)  BY DEF HeapInv
 <2>2. PICK a \in Nat, x \in Seq(Cell \cup {Heap!Any}) :
          /\ a = blocks[b].at /\ x = blocks[b].expect /\ Heap!End \in Nat /\ HeapBase \in Nat
          /\ \A k \in 1 .. Len(x) : a + k - 1 \in HeapBase .. Heap!End - 1
   BY <2>1, OneBlock
 <2>3. i \in 1 .. Len(x)  BY <2>2
 <2>4. a + i - 1 \in HeapBase .. Heap!End - 1  BY <2>2, <2>3
 <2> QED  BY <2>1, <2>2, <2>3, <2>4 DEF HeapInv, BlockInv
<1> QED  BY <1>1, <1>2, <1>3, PTL DEF Heap!Spec

----
(* The events of the ART shim: a motion event reads what it was given, and *)
(* whoever waits for vsync has it posted.                                  *)

CONSTANTS Events, Receivers, MaxX, MaxPosted
VARIABLES native, ptr, pooled, told, handle, waiting, posted

Input == INSTANCE ShimEvents

\* The Java objects are finitely many, coordinates of pointers fit.
EventSizes == IsFiniteSet(Events) /\ MaxX \in Nat \ {0} /\ MaxPosted \in Nat

\* Every event has a record of its own, and an event in use has in it what it
\* was told.
RecordsInv ==
    /\ native \in [Input!Addresses -> Input!Motion \cup {Input!Free}] /\ ptr \in [Events -> Input!Addresses \cup {0}]
    /\ told \in [Events -> Input!Motion \cup {Input!Free}] /\ pooled \subseteq Events
    /\ \A e, f \in Events : ptr[e] = ptr[f] /\ ptr[e] # 0 => e = f
    /\ \A e \in Events : ptr[e] # 0 => native[ptr[e]] \in Input!Motion
    /\ \A e \in Events \ pooled : ptr[e] # 0 /\ told[e] = native[ptr[e]]

VsyncInv ==
    /\ handle \in [Receivers -> {"none", "deaf", "bound", "disposed"}]
    /\ waiting \subseteq Receivers /\ posted \in [Receivers -> 0 .. MaxPosted]
    /\ Input!WaitersArePosted

\* Records have addresses, and no record has the address 0.
LEMMA RecordAddresses == ASSUME EventSizes PROVE 0 \notin Input!Addresses /\ Input!Free \notin Input!Motion
<1>1. 0 \notin Input!Addresses  BY FS_CardinalityType DEF EventSizes, Input!Addresses
<1>2. Input!Free \notin Input!Motion  BY DEF Input!Free, Input!Motion
<1> QED  BY <1>1, <1>2

\* The pointer that is read is one of the given, or zeroes.
LEMMA PointerRead ==
    ASSUME NEW given \in Input!Pointers
    PROVE  Input!ReadPointer0(given).id \in Input!Bit /\ Input!ReadPointer0(given).x \in 0 .. 1
<1>1. CASE given = {}  BY <1>1 DEF Input!ReadPointer0, Input!Bit
<1>2. CASE given # {}
 <2>1. PICK i \in Input!Bit, c \in 0 .. 1 : given = {[id |-> i, x |-> c]}
   BY <1>2 DEF Input!Pointers
 <2>2. Input!ReadPointer0(given) = [id |-> i, x |-> c]  BY <1>2, <2>1 DEF Input!ReadPointer0
 <2> QED  BY <2>2
<1> QED  BY <1>1, <1>2

\* What nativeInitialize writes is a record.
LEMMA FreshRecord ==
    ASSUME EventSizes, NEW set \in Input!Bit, NEW count \in {0, 2}, NEW given \in Input!Pointers
    PROVE  Input!Fresh(set, count, given) \in Input!Motion
<1>1. PICK i \in Input!Bit, c \in 0 .. 1 : Input!ReadPointer0(given).id = i /\ Input!ReadPointer0(given).x = c
  BY PointerRead
<1>2. c \in 0 .. MaxX  BY DEF EventSizes
<1> QED  BY <1>1, <1>2 DEF Input!Fresh, Input!Motion, Input!Bit

\* An event that is obtained takes its own record or a free one, whatever is
\* written there.
LEMMA ObtainKeeps ==
    ASSUME EventSizes, RecordsInv, NEW e \in Events, NEW m \in Input!Motion,
         NEW a \in Input!Address(e),
           e \in pooled, ptr' = [ptr EXCEPT ![e] = a], native' = [native EXCEPT ![a] = m],
           told' = [told EXCEPT ![e] = m], pooled' = pooled \ {e}
    PROVE  RecordsInv'
<1>1. 0 \notin Input!Addresses /\ Input!Free \notin Input!Motion  BY RecordAddresses
<1>2. a \in Input!Addresses /\ (a = ptr[e] \/ native[a] = Input!Free)
  BY <1>1 DEF Input!Address, RecordsInv
<1>3. ASSUME NEW f \in Events, f # e PROVE ptr[f] # a  BY <1>1, <1>2, <1>3 DEF RecordsInv
<1>4. /\ native' \in [Input!Addresses -> Input!Motion \cup {Input!Free}] /\ ptr' \in [Events -> Input!Addresses \cup {0}]
      /\ told' \in [Events -> Input!Motion \cup {Input!Free}] /\ pooled' \subseteq Events
  BY <1>2 DEF RecordsInv
<1>5. ptr'[e] = a /\ native'[a] = m /\ told'[e] = m /\ a # 0  BY <1>1, <1>2 DEF RecordsInv
<1>6. \A f \in Events \ {e} : /\ ptr'[f] = ptr[f] /\ told'[f] = told[f] /\ ptr[f] # a
                              /\ ptr[f] # 0 => native'[ptr[f]] = native[ptr[f]]
  BY <1>3 DEF RecordsInv
<1>7. \A f, g \in Events : ptr'[f] = ptr'[g] /\ ptr'[f] # 0 => f = g  BY <1>5, <1>6 DEF RecordsInv
<1>8. \A f \in Events : ptr'[f] # 0 => native'[ptr'[f]] \in Input!Motion
  BY <1>5, <1>6 DEF RecordsInv
<1>9. \A f \in Events \ pooled' : ptr'[f] # 0 /\ told'[f] = native'[ptr'[f]]
  BY <1>5, <1>6 DEF RecordsInv
<1> QED  BY <1>4, <1>7, <1>8, <1>9 DEF RecordsInv

\* A write through an event in use stays in its own record.
LEMMA RecordWriteKeeps ==
    ASSUME EventSizes, RecordsInv, NEW e \in Events \ pooled, NEW m \in Input!Motion,
           native' = [native EXCEPT ![ptr[e]] = m], told' = [told EXCEPT ![e] = m],
           UNCHANGED <<ptr, pooled>>
    PROVE  RecordsInv'
<1>1. ptr[e] \in Input!Addresses /\ ptr[e] # 0  BY DEF RecordsInv
<1>2. /\ native' \in [Input!Addresses -> Input!Motion \cup {Input!Free}] /\ told' \in [Events -> Input!Motion \cup {Input!Free}]
  BY <1>1 DEF RecordsInv
<1>3. native'[ptr[e]] = m /\ told'[e] = m  BY <1>1 DEF RecordsInv
<1>4. \A f \in Events \ {e} : /\ told'[f] = told[f]
                              /\ ptr[f] # 0 => native'[ptr[f]] = native[ptr[f]]
  BY DEF RecordsInv
<1> QED  BY <1>2, <1>3, <1>4 DEF RecordsInv

\* The record of an event in use, and what it was told.
LEMMA InUse ==
    ASSUME RecordsInv, NEW e \in Events \ pooled
    PROVE  native[ptr[e]] \in Input!Motion /\ told[e] = native[ptr[e]]
BY DEF RecordsInv

\* Every call on motion events keeps the records apart.
LEMMA RecordsStep ==
    ASSUME EventSizes, RecordsInv, Input!Next
    PROVE  RecordsInv'
<1>1. ASSUME NEW e \in Events, NEW set \in Input!Bit, NEW count \in {0, 2},
         NEW given \in Input!Pointers,
             Input!NativeInitialize(e, set, count, given)
      PROVE  RecordsInv'
 <2>1. PICK m \in Input!Motion : m = Input!Fresh(set, count, given)  BY FreshRecord
 <2>2. PICK a \in Input!Address(e) :
         /\ e \in pooled /\ ptr' = [ptr EXCEPT ![e] = a] /\ native' = [native EXCEPT ![a] = m]
         /\ told' = [told EXCEPT ![e] = m] /\ pooled' = pooled \ {e}
   BY <1>1, <2>1 DEF Input!NativeInitialize
 <2> QED  BY <2>2, ObtainKeeps
<1>2. ASSUME NEW e \in Events, NEW from \in Events, Input!NativeCopy(e, from) PROVE RecordsInv'
 <2>1. from \in Events \ pooled  BY <1>2 DEF Input!NativeCopy
 <2>2. PICK m \in Input!Motion : m = native[ptr[from]] /\ told[from] = m  BY <2>1, InUse
 <2>3. PICK a \in Input!Address(e) :
         /\ e \in pooled /\ ptr' = [ptr EXCEPT ![e] = a] /\ native' = [native EXCEPT ![a] = m]
         /\ told' = [told EXCEPT ![e] = m] /\ pooled' = pooled \ {e}
   BY <1>2, <2>2 DEF Input!NativeCopy
 <2> QED  BY <2>3, ObtainKeeps
<1>3. ASSUME NEW e \in Events, NEW v \in Input!Bit,
             Input!NativeSetField(e, v) \/ Input!NativeSetActionButton(e, v)
      PROVE  RecordsInv'
 <2>1. e \in Events \ pooled /\ UNCHANGED <<ptr, pooled>>
   BY <1>3 DEF Input!NativeSetField, Input!NativeSetActionButton, Input!Write
 <2>2. PICK m \in Input!Motion : m = native[ptr[e]] /\ told[e] = m  BY <2>1, InUse
 <2>3. [m EXCEPT !.set = v] \in Input!Motion /\ [m EXCEPT !.button = v] \in Input!Motion
   BY DEF Input!Motion
 <2>4. \E n \in Input!Motion : /\ native' = [native EXCEPT ![ptr[e]] = n]
                               /\ told' = [told EXCEPT ![e] = n]
  <3>1. CASE Input!NativeSetField(e, v)
    BY <2>2, <2>3, <3>1 DEF Input!NativeSetField, Input!Write
  <3>2. CASE Input!NativeSetActionButton(e, v)
    BY <2>2, <2>3, <3>2 DEF Input!NativeSetActionButton, Input!Write
  <3> QED  BY <1>3, <3>1, <3>2
 <2> QED  BY <2>1, <2>4, RecordWriteKeeps
<1>4. ASSUME NEW e \in Events, NEW delta \in {-1, 1}, Input!NativeOffsetLocation(e, delta)
      PROVE  RecordsInv'
 <2>1. e \in Events \ pooled /\ UNCHANGED <<ptr, pooled>>
   BY <1>4 DEF Input!NativeOffsetLocation, Input!Write
 <2>2. PICK m \in Input!Motion : m = native[ptr[e]] /\ told[e] = m  BY <2>1, InUse
 <2>3. m.x + delta \in 0 .. MaxX  BY <1>4, <2>2 DEF Input!NativeOffsetLocation
 <2>4. [m EXCEPT !.x = @ + delta] \in Input!Motion  BY <2>3 DEF Input!Motion
 <2>5. \E n \in Input!Motion : /\ native' = [native EXCEPT ![ptr[e]] = n]
                               /\ told' = [told EXCEPT ![e] = n]
   BY <1>4, <2>2, <2>4 DEF Input!NativeOffsetLocation, Input!Write
 <2> QED  BY <2>1, <2>5, RecordWriteKeeps
<1>5. ASSUME NEW e \in Events, Input!NativeScale(e, 2) PROVE RecordsInv'
 <2>1. e \in Events \ pooled /\ UNCHANGED <<ptr, pooled>>
   BY <1>5 DEF Input!NativeScale, Input!Write
 <2>2. PICK m \in Input!Motion : m = native[ptr[e]] /\ told[e] = m  BY <2>1, InUse
 <2>3. m.x * 2 <= MaxX  BY <1>5, <2>2 DEF Input!NativeScale
 <2>4. m.x \in 0 .. MaxX  BY DEF Input!Motion
 <2>5. m.x * 2 \in 0 .. MaxX  BY <2>3, <2>4 DEF EventSizes
 <2>6. [m EXCEPT !.x = @ * 2] \in Input!Motion  BY <2>5 DEF Input!Motion
 <2>7. \E n \in Input!Motion : /\ native' = [native EXCEPT ![ptr[e]] = n]
                               /\ told' = [told EXCEPT ![e] = n]
   BY <1>5, <2>2, <2>6 DEF Input!NativeScale, Input!Write
 <2> QED  BY <2>1, <2>7, RecordWriteKeeps
<1>6. ASSUME NEW e \in Events, NEW v \in Input!Bit, NEW given \in Input!Pointers, Input!NativeAddBatch(e, v, given)
      PROVE  RecordsInv'
 <2>1. e \in Events \ pooled /\ UNCHANGED <<ptr, pooled>>
   BY <1>6 DEF Input!NativeAddBatch, Input!Write
 <2>2. PICK m \in Input!Motion : m = native[ptr[e]] /\ told[e] = m  BY <2>1, InUse
 <2>3. PICK c \in 0 .. MaxX : c = Input!ReadPointer0(given).x  BY PointerRead DEF EventSizes
 <2>4. PICK n : n = [m EXCEPT !.set = v, !.x = IF given = {} THEN @ ELSE c]  OBVIOUS
 <2>5. n \in Input!Motion  BY <2>4 DEF Input!Motion
 <2>6. native' = [native EXCEPT ![ptr[e]] = n] /\ told' = [told EXCEPT ![e] = n]
   BY <1>6, <2>2, <2>3, <2>4 DEF Input!NativeAddBatch, Input!Write
 <2> QED  BY <2>1, <2>5, <2>6, RecordWriteKeeps
<1>7. ASSUME NEW e \in Events, Input!Recycle(e) PROVE RecordsInv'
  BY <1>7 DEF Input!Recycle, RecordsInv
<1>8. ASSUME NEW e \in Events, Input!NativeDispose(e) PROVE RecordsInv'
 <2>1. /\ e \in pooled /\ ptr[e] # 0 /\ native' = [native EXCEPT ![ptr[e]] = Input!Free]
       /\ ptr' = [ptr EXCEPT ![e] = 0] /\ UNCHANGED <<pooled, told>>
   BY <1>8 DEF Input!NativeDispose
 <2>2. /\ native' \in [Input!Addresses -> Input!Motion \cup {Input!Free}]
       /\ ptr' \in [Events -> Input!Addresses \cup {0}] /\ ptr'[e] = 0
   BY <2>1 DEF RecordsInv
 <2>3. \A f \in Events \ {e} : /\ ptr'[f] = ptr[f]
                               /\ ptr[f] # 0 => native'[ptr[f]] = native[ptr[f]]
   BY <2>1 DEF RecordsInv
 <2> QED  BY <2>1, <2>2, <2>3 DEF RecordsInv
<1>9. CASE UNCHANGED Input!motion  BY <1>9 DEF Input!motion, RecordsInv
<1> QED  BY <1>1, <1>2, <1>3, <1>4, <1>5, <1>6, <1>7, <1>8, <1>9
     DEF Input!Next, Input!NativeInit, Input!NativeScheduleVsync, Input!DispatchVsync,
     Input!FreeReceiver

\* Every call of a receiver keeps its waits posted.
LEMMA VsyncStep ==
    ASSUME EventSizes, VsyncInv, Input!Next
    PROVE  VsyncInv'
<1> USE DEF EventSizes
<1>1. ASSUME NEW r \in Receivers, NEW referent \in BOOLEAN, Input!NativeInit(r, referent)
      PROVE  VsyncInv'
  BY <1>1 DEF VsyncInv, Input!WaitersArePosted, Input!NativeInit
<1>2. ASSUME NEW r \in Receivers, Input!NativeScheduleVsync(r) PROVE VsyncInv'
  BY <1>2 DEF VsyncInv, Input!WaitersArePosted, Input!NativeScheduleVsync
<1>3. ASSUME NEW r \in Receivers, Input!DispatchVsync(r) PROVE VsyncInv'
  BY <1>3 DEF VsyncInv, Input!WaitersArePosted, Input!DispatchVsync
<1>4. ASSUME NEW r \in Receivers, Input!FreeReceiver(r) PROVE VsyncInv'
  BY <1>4 DEF VsyncInv, Input!WaitersArePosted, Input!FreeReceiver
<1>5. CASE UNCHANGED Input!vsync  BY <1>5 DEF Input!vsync, VsyncInv, Input!WaitersArePosted
<1> QED  BY <1>1, <1>2, <1>3, <1>4, <1>5
     DEF Input!Next, Input!NativeInitialize, Input!NativeCopy, Input!NativeSetField,
     Input!NativeSetActionButton,
         Input!NativeOffsetLocation, Input!NativeScale, Input!NativeAddBatch, Input!Write,
         Input!Recycle, Input!NativeDispose

\* A motion event answers what it was told itself and a vsync that is waited
\* for is posted, for any number of events, receivers and callbacks.
THEOREM EventsStaySound == ASSUME EventSizes PROVE Input!Spec => [](Input!TypeOK /\ Input!EventsSound)
<1>1. Input!Init => RecordsInv /\ VsyncInv
  BY DEF EventSizes, Input!Init, RecordsInv, VsyncInv, Input!WaitersArePosted
<1>2. RecordsInv /\ VsyncInv /\ [Input!Next]_(Input!vars) => RecordsInv' /\ VsyncInv'
 <2>1. ASSUME RecordsInv, VsyncInv, UNCHANGED Input!vars PROVE RecordsInv' /\ VsyncInv'
   BY <2>1 DEF Input!vars, RecordsInv, VsyncInv, Input!WaitersArePosted
 <2> QED  BY <2>1, RecordsStep, VsyncStep
<1>3. RecordsInv /\ VsyncInv => Input!TypeOK /\ Input!EventsSound
 <2> SUFFICES ASSUME RecordsInv, VsyncInv PROVE Input!TypeOK /\ Input!EventsSound  OBVIOUS
 <2>1. Input!TypeOK /\ Input!WaitersArePosted  BY DEF RecordsInv, VsyncInv, Input!TypeOK
 <2>2. ASSUME NEW e \in Events \ pooled
       PROVE  LET m == native[ptr[e]]
              IN  /\ m # Input!Free
                  /\ Input!AxisValue(m) = Input!AxisValue(told[e]) /\ Input!Fields(m) = Input!Fields(told[e])
                  /\ \A i \in 0 .. m.count - 1 : Input!FindPointerIndex(m, Input!PointerId(told[e], i)) = 0
  <3>1. native[ptr[e]] # Input!Free /\ told[e] = native[ptr[e]]  BY InUse, RecordAddresses
  <3> QED  BY <3>1 DEF Input!FindPointerIndex, Input!PointerId
 <2>3. Input!EventsAreTheirOwn  BY <2>2 DEF Input!EventsAreTheirOwn
 <2> QED  BY <2>1, <2>3 DEF Input!EventsSound
<1> QED  BY <1>1, <1>2, <1>3, PTL DEF Input!Spec

----
(* The parcels of the ART shim: a value reads back as what was written     *)
(* there, for any capacity and number of words.                            *)

CONSTANTS MaxWords, MinCapacity, MaxParcelBinders
VARIABLES words, size, pos, cap, binders, intact

Shim == INSTANCE ShimParcel WITH MaxBinders <- MaxParcelBinders

\* The buffer is a small multiple of the first allocation.
ParcelSizes == /\ MaxWords \in Nat /\ MinCapacity \in Nat \ {0} /\ MaxParcelBinders \in Nat
               /\ MaxWords <= 256 * MinCapacity

ParcelTypes ==
    /\ words \in [0 .. MaxWords - 1 -> Int]
    /\ size \in 0 .. 4 * MaxWords /\ pos \in Nat /\ cap \in Nat
    /\ size <= cap /\ (cap = 0 \/ cap >= 4 * MinCapacity)
    /\ binders \in Seq(1 .. 1) /\ Len(binders) <= MaxParcelBinders

\* The values that may be written, and their words.
Wide(kind) == IF kind = "str" THEN 2 ELSE 1
Formed(kind, vs, binder) ==
    /\ kind \in {"int", "long", "str8", "str", "binder"} /\ vs \in Seq(Int) /\ Len(vs) >= 1
    /\ kind = "int" => Len(vs) = 1
    /\ kind = "long" => Len(vs) = 2
    /\ kind \in {"str8", "str"} =>
          \/ vs[1] = -1 /\ Len(vs) = 1
          \/ vs[1] \in Nat /\ Len(vs) = 1 + Shim!StringWords(Wide(kind), vs[1])
    /\ kind = "binder" => /\ Len(vs) = 1 /\ vs[1] \in 0 .. Len(binders) - 1
                          /\ binders[vs[1] + 1] = binder

\* A value lies in the words from start to end, below the size.
Lies(e) ==
    /\ e.start \in Nat /\ e.start = 4 * (e.start \div 4) /\ e.end = e.start + 4 * Len(e.value)
    /\ e.end <= size
    /\ \A i \in 1 .. Len(e.value) : words[e.start \div 4 + i - 1] = e.value[i]
Whole == \A e \in intact : Formed(e.kind, e.value, e.binder) /\ Lies(e)

ParcelInv == ParcelTypes /\ Whole

----
\* The place where a read or write starts.
LEMMA AlignedIs ==
    ASSUME NEW p \in Nat
    PROVE  /\ Shim!Aligned(p) \in Nat /\ Shim!Aligned(p) >= p /\ Shim!Aligned(p) = 4 * (Shim!Aligned(p) \div 4)
           /\ p = 4 * (p \div 4) => Shim!Aligned(p) = p
BY DEF Shim!Aligned

\* A string takes a word for its zero at least, and its characters fit.
LEMMA StringFits ==
    ASSUME NEW cs \in 1 .. 2, NEW n \in Nat
    PROVE  /\ Shim!StringWords(cs, n) \in Nat \ {0} /\ (n = 0 => Shim!StringWords(cs, n) = 1)
           /\ n * cs <= 4 * Shim!StringWords(cs, n)
           /\ (n * cs + 3) \div 4 \in Nat /\ (n * cs + 3) \div 4 <= Shim!StringWords(cs, n)
<1>1. CASE cs = 1  BY <1>1 DEF Shim!StringWords
<1>2. CASE cs = 2  BY <1>2 DEF Shim!StringWords
<1> QED  BY <1>1, <1>2

\* A buffer that grows has room, and never gets smaller.
LEMMA GrownFits ==
    ASSUME ParcelSizes, ParcelTypes, NEW n \in Nat, n <= 4 * MaxWords \/ n <= 9
    PROVE  /\ Shim!Grown(n) \in Nat /\ Shim!Grown(n) >= n /\ Shim!Grown(n) >= cap
           /\ (n <= cap => Shim!Grown(n) = cap)
           /\ (Shim!Grown(n) = 0 \/ Shim!Grown(n) >= 4 * MinCapacity)
<1> DEFINE base == IF cap = 0 THEN 4 * MinCapacity ELSE 2 * cap
           sizes == {base * k : k \in {1, 2, 4, 8, 16, 32, 64, 128, 256}}
<1>1. cap \in Nat /\ MinCapacity \in Nat /\ MinCapacity >= 1 /\ MaxWords \in Nat /\ MaxWords <= 256 * MinCapacity
      /\ (cap = 0 \/ cap >= 4 * MinCapacity)
  BY DEF ParcelSizes, ParcelTypes
<1>2. CASE n <= cap  BY <1>1, <1>2 DEF Shim!Grown
<1>3. CASE ~(n <= cap)
 <2>1. PICK b : b = base  OBVIOUS
 <2>2. b \in Nat /\ b >= 4 * MinCapacity /\ b >= cap /\ 256 * b >= n  BY <1>1, <2>1
 <2>3. \E c \in sizes : c >= n /\ \A d \in sizes : d >= n => c <= d
  <3> HIDE DEF base
  <3>1. PICK S : S = sizes  OBVIOUS
  <3>2. S = {b, 2 * b, 4 * b, 8 * b, 16 * b, 32 * b, 64 * b, 128 * b, 256 * b}
    BY <2>1, <2>2, <3>1
  <3>3. \E c \in S : c >= n /\ \A d \in S : d >= n => c <= d  BY <2>2, <3>2
  <3> QED  BY <3>1, <3>3
 <2>4. PICK c : c = Shim!Doubled(n)  OBVIOUS
 <2>5. c \in sizes /\ c >= n  BY <2>3, <2>4 DEF Shim!Doubled
 <2>6. c \in Nat /\ c >= b  BY <2>1, <2>2, <2>5
 <2> QED  BY <1>1, <1>3, <2>2, <2>4, <2>5, <2>6 DEF Shim!Grown
<1> QED  BY <1>2, <1>3

\* The word of a place within a value.
LEMMA WordOf ==
    ASSUME NEW s \in Nat, s = 4 * (s \div 4), NEW n \in Nat, NEW i \in 1 .. n
    PROVE  LET w == s \div 4 + i - 1 IN
           w \in Nat /\ w * 4 >= s /\ w * 4 + 4 <= s + 4 * n /\ w - s \div 4 + 1 = i
OBVIOUS

\* A value is kept while its words are.
LEMMA ValueKept ==
    ASSUME ParcelTypes, NEW e, Formed(e.kind, e.value, e.binder), Lies(e), e.end <= size',
           \A i \in DOMAIN binders : i \in DOMAIN binders' /\ binders'[i] = binders[i],
           binders \in Seq(1 .. 1), binders' \in Seq(1 .. 1), Len(binders) <= Len(binders'),
           \A w \in Nat : w * 4 >= e.start /\ w * 4 + 4 <= e.end => words'[w] = words[w]
    PROVE  Formed(e.kind, e.value, e.binder)' /\ Lies(e)'
<1>1. PICK s : s = e.start  OBVIOUS
<1>2. PICK v : v = e.value  OBVIOUS
<1>3. s \in Nat /\ s = 4 * (s \div 4) /\ e.end = s + 4 * Len(v) /\ v \in Seq(Int) /\ Len(v) \in Nat
  BY <1>1, <1>2 DEF Lies, Formed
<1>4. ASSUME NEW i \in 1 .. Len(v) PROVE words'[s \div 4 + i - 1] = v[i]
 <2>1. PICK w \in Nat : w = s \div 4 + i - 1 /\ w * 4 >= s /\ w * 4 + 4 <= s + 4 * Len(v)
   BY <1>3, WordOf
 <2>2. words[w] = v[i]  BY <1>1, <1>2, <2>1 DEF Lies
 <2> QED  BY <1>1, <1>3, <2>1, <2>2
<1>5. Lies(e)'  BY <1>1, <1>2, <1>3, <1>4 DEF Lies
<1>6. Formed(e.kind, e.value, e.binder)'
 <2>1. e.kind = "binder" => v[1] \in 0 .. Len(binders') - 1 /\ binders'[v[1] + 1] = e.binder
  <3> SUFFICES ASSUME e.kind = "binder"
               PROVE  v[1] \in 0 .. Len(binders') - 1 /\ binders'[v[1] + 1] = e.binder
    OBVIOUS
  <3>1. v[1] \in 0 .. Len(binders) - 1 /\ binders[v[1] + 1] = e.binder  BY <1>2 DEF Formed
  <3>2. v[1] + 1 \in DOMAIN binders /\ Len(binders) \in Nat /\ Len(binders') \in Nat  BY <3>1
  <3> QED  BY <3>1, <3>2
 <2> QED  BY <1>2, <2>1 DEF Formed
<1> QED  BY <1>5, <1>6

\* A read at a value starts at its first word.
LEMMA ReadsFirst ==
    ASSUME ParcelTypes, NEW e, Formed(e.kind, e.value, e.binder), Lies(e)
    PROVE  Shim!ReadInt(e.start) = [v |-> <<e.value[1]>>, at |-> e.start + 4]
<1>1. PICK s : s = e.start  OBVIOUS
<1>2. PICK v : v = e.value  OBVIOUS
<1>3. s \in Nat /\ s = 4 * (s \div 4) /\ e.end = s + 4 * Len(v) /\ v \in Seq(Int) /\ Len(v) \in Nat
      /\ Len(v) >= 1 /\ e.end <= size /\ size \in Nat
  BY <1>1, <1>2 DEF Lies, Formed, ParcelTypes
<1>4. Shim!Aligned(s) = s  BY <1>3, AlignedIs
<1>5. s + 4 <= size  BY <1>3
<1>6. words[s \div 4 + 1 - 1] = v[1]  BY <1>1, <1>2, <1>3 DEF Lies
<1>7. words[s \div 4] = v[1]  BY <1>3, <1>6
<1> QED  BY <1>1, <1>2, <1>3, <1>4, <1>5, <1>7 DEF Shim!ReadInt

\* A string reads back: its length, its characters, and the place after them.
LEMMA StringReadsBack ==
    ASSUME ParcelTypes, NEW e, Formed(e.kind, e.value, e.binder), Lies(e), e.kind \in {"str8", "str"}
    PROVE  LET r == Shim!ReadString(Wide(e.kind), e.start) IN r.v = Shim!Shown(e) /\ r.at = e.end
<1>1. PICK s : s = e.start  OBVIOUS
<1>2. PICK v : v = e.value  OBVIOUS
<1>3. PICK cs \in 1 .. 2 : cs = Wide(e.kind) /\ cs = IF e.kind = "str" THEN 2 ELSE 1  BY DEF Wide
<1>4. s \in Nat /\ s = 4 * (s \div 4) /\ e.end = s + 4 * Len(v) /\ v \in Seq(Int) /\ Len(v) \in Nat
      /\ Len(v) >= 1 /\ e.end <= size /\ size \in Nat
  BY <1>1, <1>2 DEF Lies, Formed, ParcelTypes
<1>5. Shim!ReadInt(s) = [v |-> <<v[1]>>, at |-> s + 4]  BY <1>1, <1>2, ReadsFirst
<1>6. (v[1] = -1 /\ Len(v) = 1) \/ (v[1] \in Nat /\ Len(v) = 1 + Shim!StringWords(cs, v[1]))
  BY <1>2, <1>3 DEF Formed
<1>7. PICK r : r = Shim!ReadString(cs, s)  OBVIOUS
<1>8. CASE v[1] = -1 /\ Len(v) = 1
 <2>1. r = [v |-> <<-1>>, at |-> s + 4]  BY <1>5, <1>7, <1>8 DEF Shim!ReadString
 <2>2. v = <<-1>>  BY <1>4, <1>8
 <2>3. ~(v[1] >= 0)  BY <1>8
 <2>4. Shim!Shown(e) = v  BY <1>2, <2>3 DEF Shim!Shown
 <2>5. r.v = Shim!Shown(e) /\ r.at = e.end  BY <1>4, <1>8, <2>1, <2>2, <2>4
 <2> QED  BY <1>1, <1>3, <1>7, <2>5
<1>9. CASE v[1] \in Nat /\ Len(v) = 1 + Shim!StringWords(cs, v[1])
 <2>1. PICK n \in Nat : n = v[1]  BY <1>9
 <2>2. PICK m : m = (n * cs + 3) \div 4  OBVIOUS
 <2>3. /\ Shim!StringWords(cs, n) \in Nat \ {0} /\ (n = 0 => Shim!StringWords(cs, n) = 1)
       /\ n * cs <= 4 * Shim!StringWords(cs, n) /\ m \in Nat /\ m <= Shim!StringWords(cs, n)
   BY <2>2, StringFits
 <2>4. Shim!Shown(e) = SubSeq(v, 1, 1 + m)
  <3>1. Shim!Shown(e) = SubSeq(e.value, 1, 1 + (e.value[1] * (IF e.kind = "str" THEN 2 ELSE 1) + 3) \div 4)
    BY <1>2, <2>1 DEF Shim!Shown
  <3> QED  BY <1>2, <1>3, <2>1, <2>2, <3>1
 <2>5. PICK q : q = SubSeq(v, 1, 1 + m)  OBVIOUS
 <2>6. 1 + m <= Len(v)  BY <1>4, <1>9, <2>1, <2>3
 <2>7. q \in Seq(Int) /\ Len(q) = 1 + m /\ \A i \in 1 .. 1 + m : q[i] = v[i]
   BY <1>4, <2>3, <2>5, <2>6
 <2>8. e.end = s + 4 + 4 * Shim!StringWords(cs, n) /\ e.end <= size
  <3>1. PICK k : k = Shim!StringWords(cs, n)  OBVIOUS
  <3>2. k \in Nat /\ Len(v) = 1 + k  BY <1>9, <2>1, <2>3, <3>1
  <3>3. e.end = s + 4 + 4 * k  BY <1>4, <3>2
  <3> QED  BY <1>4, <3>1, <3>3
 <2>9. CASE n = 0
  <3>1. r = [v |-> <<0>>, at |-> Shim!AtMost(s + 8)]
    BY <1>4, <1>5, <1>7, <2>1, <2>9 DEF Shim!ReadString
  <3>2. m = 0  BY <1>3, <2>2, <2>9
  <3>3. q = <<0>>
   <4>1. q \in Seq(Int) /\ Len(q) = 1 /\ q[1] = 0
    <5>1. 1 + m = 1 /\ 1 \in 1 .. 1 + m  BY <3>2
    <5>2. q[1] = v[1]  BY <2>7, <5>1
    <5> QED  BY <2>1, <2>7, <2>9, <5>1, <5>2
   <4> QED  BY <4>1
  <3>4. e.end = s + 8 /\ Shim!AtMost(s + 8) = s + 8  BY <1>4, <2>3, <2>8, <2>9 DEF Shim!AtMost
  <3>5. r.v = Shim!Shown(e) /\ r.at = e.end  BY <2>4, <2>5, <3>1, <3>3, <3>4
  <3> QED  BY <1>1, <1>3, <1>7, <3>5
 <2>10. CASE n # 0
  <3>1. PICK c : c = [i \in 1 .. m |-> words[(s + 4) \div 4 + i - 1]]  OBVIOUS
  <3>2. n * cs \in Nat /\ ~(s + 4 + n * cs > size)  BY <1>3, <1>4, <2>3, <2>8
  <3>3. r = [v |-> <<n>> \o c, at |-> Shim!AtMost(s + 4 + 4 * Shim!StringWords(cs, n))]
    BY <1>5, <1>7, <2>1, <2>2, <2>10, <3>1, <3>2 DEF Shim!ReadString
  <3>4. Shim!AtMost(s + 4 + 4 * Shim!StringWords(cs, n)) = e.end  BY <2>8 DEF Shim!AtMost
  <3>5. \A i \in 1 .. m : c[i] = v[1 + i]
   <4> SUFFICES ASSUME NEW i \in 1 .. m PROVE c[i] = v[1 + i]  OBVIOUS
   <4>1. 1 + i \in 1 .. Len(v) /\ (s + 4) \div 4 + i - 1 = s \div 4 + (1 + i) - 1
     BY <1>4, <2>3, <2>6
   <4>2. words[s \div 4 + (1 + i) - 1] = v[1 + i]  BY <1>1, <1>2, <4>1 DEF Lies
   <4> QED  BY <3>1, <4>1, <4>2
  <3>6. c \in Seq(Int) /\ Len(c) = m
   <4>1. \A i \in 1 .. m : c[i] \in Int
    <5> SUFFICES ASSUME NEW i \in 1 .. m PROVE c[i] \in Int  OBVIOUS
    <5>1. 1 + i \in 1 .. Len(v)  BY <1>4, <2>3, <2>6
    <5>2. v[1 + i] \in Int  BY <1>4, <5>1
    <5> QED  BY <3>5, <5>2
   <4> QED  BY <2>3, <3>1, <4>1
  <3>7. PICK d : d = <<n>> \o c  OBVIOUS
  <3>8. d \in Seq(Int) /\ Len(d) = 1 + m /\ d[1] = n /\ \A i \in 1 .. m : d[1 + i] = c[i]
    BY <2>1, <2>3, <3>6, <3>7
  <3>9. \A i \in 1 .. 1 + m : d[i] = q[i]
   <4> SUFFICES ASSUME NEW i \in 1 .. 1 + m PROVE d[i] = q[i]  OBVIOUS
   <4>1. CASE i = 1  BY <2>1, <2>7, <3>8, <4>1
   <4>2. CASE i # 1
    <5>1. PICK k \in 1 .. m : i = 1 + k  BY <2>3, <4>2
    <5> QED  BY <2>7, <3>5, <3>8, <5>1
   <4> QED  BY <4>1, <4>2
  <3>10. d = q
   <4>1. d = [i \in 1 .. 1 + m |-> d[i]] /\ q = [i \in 1 .. 1 + m |-> q[i]]
     BY <2>3, <2>7, <3>8
   <4> QED  BY <3>9, <4>1
  <3>11. r.v = Shim!Shown(e) /\ r.at = e.end  BY <2>4, <2>5, <3>3, <3>4, <3>7, <3>10
  <3> QED  BY <1>1, <1>3, <1>7, <3>11
 <2> QED  BY <2>9, <2>10
<1> QED  BY <1>6, <1>8, <1>9

\* Every value reads back.
LEMMA ValueReadsBack ==
    ASSUME ParcelTypes, NEW e, Formed(e.kind, e.value, e.binder), Lies(e)
    PROVE  LET r == Shim!ReadAs(e.kind, e.start) IN r.v = Shim!Shown(e) /\ r.at = e.end
<1>1. PICK s : s = e.start  OBVIOUS
<1>2. PICK v : v = e.value  OBVIOUS
<1>3. s \in Nat /\ s = 4 * (s \div 4) /\ e.end = s + 4 * Len(v) /\ v \in Seq(Int) /\ Len(v) \in Nat
      /\ Len(v) >= 1 /\ e.end <= size /\ size \in Nat
  BY <1>1, <1>2 DEF Lies, Formed, ParcelTypes
<1>4. Shim!ReadInt(s) = [v |-> <<v[1]>>, at |-> s + 4]  BY <1>1, <1>2, ReadsFirst
<1>5. CASE e.kind = "int"
 <2>1. Len(v) = 1 /\ v = <<v[1]>>  BY <1>2, <1>3, <1>5 DEF Formed
 <2>2. Shim!Shown(e) = v  BY <1>2, <1>5 DEF Shim!Shown
 <2>3. Shim!ReadAs(e.kind, s) = Shim!ReadInt(s)  BY <1>5 DEF Shim!ReadAs
 <2> QED  BY <1>1, <1>3, <1>4, <2>1, <2>2, <2>3
<1>6. CASE e.kind = "long"
 <2>1. Len(v) = 2 /\ v = <<v[1], v[2]>>  BY <1>2, <1>3, <1>6 DEF Formed
 <2>2. Shim!Shown(e) = v  BY <1>2, <1>6 DEF Shim!Shown
 <2>3. Shim!Aligned(s) = s  BY <1>3, AlignedIs
 <2>4. words[s \div 4 + 1 - 1] = v[1] /\ words[s \div 4 + 2 - 1] = v[2]
   BY <1>1, <1>2, <2>1 DEF Lies
 <2>5. words[s \div 4] = v[1] /\ words[s \div 4 + 1] = v[2]  BY <1>3, <2>4
 <2>6. Shim!ReadAs(e.kind, s) = [v |-> <<v[1], v[2]>>, at |-> s + 8]
   BY <1>3, <1>6, <2>1, <2>3, <2>5 DEF Shim!ReadAs, Shim!ReadLong
 <2> QED  BY <1>1, <1>3, <2>1, <2>2, <2>6
<1>7. CASE e.kind \in {"str8", "str"}
 <2>1. Shim!ReadAs(e.kind, e.start) = Shim!ReadString(Wide(e.kind), e.start)
   BY <1>7 DEF Shim!ReadAs, Wide
 <2> QED  BY <1>7, <2>1, StringReadsBack
<1>8. CASE e.kind = "binder"
 <2>1. Len(v) = 1 /\ v[1] \in 0 .. Len(binders) - 1 /\ binders[v[1] + 1] = e.binder
   BY <1>2, <1>8 DEF Formed
 <2>2. Shim!Shown(e) = <<e.binder>>  BY <1>8 DEF Shim!Shown
 <2>3. Shim!ReadAs(e.kind, s) = [v |-> <<binders[v[1] + 1]>>, at |-> s + 4]
   BY <1>4, <1>8, <2>1 DEF Shim!ReadAs, Shim!ReadBinder
 <2> QED  BY <1>1, <1>3, <2>1, <2>2, <2>3
<1> QED  BY <1>5, <1>6, <1>7, <1>8 DEF Formed

\* A read moves the position only.
LEMMA ParcelReadKeeps ==
    ASSUME ParcelSizes, ParcelInv, NEW k \in {"int", "long", "str8", "str", "binder"}, Shim!Read(k)
    PROVE  ParcelInv'
<1>1. UNCHANGED <<words, size, cap, binders, intact>> /\ pos' = Shim!ReadAs(k, pos).at
  BY DEF Shim!Read
<1>2. pos \in Nat /\ size \in Nat /\ words \in [0 .. MaxWords - 1 -> Int] /\ size <= 4 * MaxWords
      /\ MaxWords \in Nat
  BY DEF ParcelInv, ParcelTypes, ParcelSizes
<1>3. PICK s : s = Shim!Aligned(pos)  OBVIOUS
<1>4. s \in Nat /\ s = 4 * (s \div 4)  BY <1>2, <1>3, AlignedIs
<1>5. /\ Shim!ReadInt(pos).at \in Nat /\ Shim!ReadInt(pos).v[1] \in Int
 <2>1. CASE s + 4 > size  BY <1>2, <1>3, <2>1 DEF Shim!ReadInt
 <2>2. CASE ~(s + 4 > size)
  <3>1. s \div 4 \in 0 .. MaxWords - 1  BY <1>2, <1>4, <2>2
  <3>2. words[s \div 4] \in Int  BY <1>2, <3>1
  <3> QED  BY <1>3, <1>4, <2>2, <3>2 DEF Shim!ReadInt
 <2> QED  BY <2>1, <2>2
<1>6. Shim!ReadLong(pos).at \in Nat  BY <1>2, <1>3, <1>4 DEF Shim!ReadLong
<1>7. Shim!ReadBinder(pos).at \in Nat  BY <1>5 DEF Shim!ReadBinder
<1>8. ASSUME NEW cs \in 1 .. 2 PROVE Shim!ReadString(cs, pos).at \in Nat
 <2>1. PICK a \in Nat : a = Shim!ReadInt(pos).at  BY <1>5
 <2>2. PICK n \in Int : n = Shim!ReadInt(pos).v[1]  BY <1>5
 <2>3. CASE n <= 0  BY <1>2, <2>1, <2>2, <2>3 DEF Shim!ReadString, Shim!AtMost
 <2>4. CASE n > 0
  <3>1. PICK w : w = Shim!StringWords(cs, n)  OBVIOUS
  <3>2. w \in Nat
   <4>1. n \in Nat  BY <2>4
   <4>2. Shim!StringWords(cs, n) \in Nat \ {0}  BY <4>1, StringFits
   <4> QED  BY <3>1, <4>2
  <3>3. Shim!AtMost(a + 4 * w) \in Nat  BY <1>2, <2>1, <3>2 DEF Shim!AtMost
  <3> QED  BY <2>1, <2>2, <2>4, <3>1, <3>3 DEF Shim!ReadString
 <2> QED  BY <2>3, <2>4
<1>9. Shim!ReadAs(k, pos).at \in Nat
 <2>1. k = "int" => Shim!ReadAs(k, pos) = Shim!ReadInt(pos)  BY DEF Shim!ReadAs
 <2>2. k = "long" => Shim!ReadAs(k, pos) = Shim!ReadLong(pos)  BY DEF Shim!ReadAs
 <2>3. k = "str8" => Shim!ReadAs(k, pos) = Shim!ReadString(1, pos)  BY DEF Shim!ReadAs
 <2>4. k = "str" => Shim!ReadAs(k, pos) = Shim!ReadString(2, pos)  BY DEF Shim!ReadAs
 <2>5. k = "binder" => Shim!ReadAs(k, pos) = Shim!ReadBinder(pos)  BY DEF Shim!ReadAs
 <2>6. Shim!ReadString(1, pos).at \in Nat /\ Shim!ReadString(2, pos).at \in Nat  BY <1>8
 <2> QED  BY <1>5, <1>6, <1>7, <2>1, <2>2, <2>3, <2>4, <2>5, <2>6
<1>10. Whole'  BY <1>1 DEF ParcelInv, Whole, Formed, Lies
<1> QED  BY <1>1, <1>9, <1>10 DEF ParcelInv, ParcelTypes

\* What is written stands where it was put, and the values beside it stay.
LEMMA PutKeeps ==
    ASSUME ParcelSizes, ParcelInv, NEW kind, NEW vs, NEW binder, Shim!Put(kind, vs, binder),
           Formed(kind, vs, binder)', binders' \in Seq(1 .. 1), Len(binders') <= MaxParcelBinders,
           \A i \in DOMAIN binders : i \in DOMAIN binders' /\ binders'[i] = binders[i],
           Len(binders) <= Len(binders')
    PROVE  ParcelInv'
<1>1. PICK s : s = Shim!Aligned(pos)  OBVIOUS
<1>2. PICK n : n = Len(vs)  OBVIOUS
<1>3. /\ words \in [0 .. MaxWords - 1 -> Int] /\ size \in Nat /\ size <= cap /\ cap \in Nat
      /\ pos \in Nat /\ MaxWords \in Nat /\ size <= 4 * MaxWords
  BY DEF ParcelInv, ParcelTypes, ParcelSizes
<1>4. s \in Nat /\ s = 4 * (s \div 4)  BY <1>1, <1>3, AlignedIs
<1>5. vs \in Seq(Int) /\ n \in Nat /\ n >= 1  BY <1>2 DEF Formed
<1>6. PICK t \in Nat : t = s + 4 * n  BY <1>4, <1>5
<1>7. /\ t <= 4 * MaxWords /\ cap' = Shim!Grown(t) /\ pos' = t /\ size' = IF t > size THEN t ELSE size
      /\ words' = [w \in DOMAIN words |-> IF w * 4 >= s /\ w * 4 < t THEN vs[w - s \div 4 + 1] ELSE Shim!Zeroed(t)[w]]
      /\ intact' = {e \in intact : e.end <= s \/ e.start >= t}
                   \cup {[kind |-> kind, start |-> s, end |-> t, value |-> vs, binder |-> binder]}
  BY <1>1, <1>2, <1>6 DEF Shim!Put
<1>8. Shim!Grown(t) \in Nat /\ Shim!Grown(t) >= t /\ Shim!Grown(t) >= cap /\ (Shim!Grown(t) = 0 \/ Shim!Grown(t) >= 4 * MinCapacity)
  BY <1>6, <1>7, GrownFits DEF ParcelInv
<1>9. ASSUME NEW w \in DOMAIN words PROVE words'[w] \in Int
 <2>1. w \in Nat  BY <1>3
 <2>2. CASE w * 4 >= s /\ w * 4 < t
  <3>1. w - s \div 4 + 1 \in 1 .. n  BY <1>4, <1>5, <1>6, <2>1, <2>2
  <3>2. vs[w - s \div 4 + 1] \in Int  BY <1>2, <1>5, <3>1
  <3> QED  BY <1>7, <2>2, <3>2
 <2>3. CASE ~(w * 4 >= s /\ w * 4 < t)
  <3>1. Shim!Zeroed(t)[w] \in Int  BY <1>3 DEF Shim!Zeroed
  <3> QED  BY <1>7, <2>3, <3>1
 <2> QED  BY <2>2, <2>3
<1>10. words' \in [0 .. MaxWords - 1 -> Int]
 <2>1. DOMAIN words = 0 .. MaxWords - 1  BY <1>3
 <2>2. PICK f : f = words'  OBVIOUS
 <2>3. f = [w \in 0 .. MaxWords - 1 |-> f[w]]  BY <1>7, <2>1, <2>2
 <2>4. \A w \in 0 .. MaxWords - 1 : f[w] \in Int  BY <1>9, <2>1, <2>2
 <2> QED  BY <2>2, <2>3, <2>4
<1>11. ParcelTypes'
 <2>1. size' \in 0 .. 4 * MaxWords /\ size' <= cap' /\ pos' \in Nat /\ cap' \in Nat
   BY <1>3, <1>6, <1>7, <1>8
 <2> QED  BY <1>7, <1>8, <1>10, <2>1 DEF ParcelTypes
<1>12. ASSUME NEW e \in intact, e.end <= s \/ e.start >= t
       PROVE  Formed(e.kind, e.value, e.binder)' /\ Lies(e)'
 <2>1. Formed(e.kind, e.value, e.binder) /\ Lies(e)  BY DEF ParcelInv, Whole
 <2>2. e.start \in Nat /\ e.end \in Nat /\ e.end <= size
  <3>1. PICK k : k = Len(e.value)  OBVIOUS
  <3>2. k \in Nat  BY <2>1, <3>1 DEF Formed
  <3> QED  BY <2>1, <3>1, <3>2 DEF Lies
 <2>3. ASSUME NEW w \in Nat, w * 4 >= e.start, w * 4 + 4 <= e.end PROVE words'[w] = words[w]
  <3>1. w \in DOMAIN words /\ w * 4 < cap  BY <1>3, <2>2, <2>3
  <3>2. ~(w * 4 >= s /\ w * 4 < t)  BY <1>4, <1>6, <1>12, <2>2, <2>3
  <3>3. Shim!Zeroed(t)[w] = words[w]  BY <1>3, <3>1 DEF Shim!Zeroed
  <3> QED  BY <1>7, <3>1, <3>2, <3>3
 <2>4. e.end <= size'  BY <1>3, <1>6, <1>7, <2>2
 <2>5. binders \in Seq(1 .. 1) /\ ParcelTypes  BY DEF ParcelInv, ParcelTypes
 <2> QED  BY <2>1, <2>3, <2>4, <2>5, ValueKept
<1>13. PICK z : z = [kind |-> kind, start |-> s, end |-> t, value |-> vs, binder |-> binder]
  OBVIOUS
<1>14. /\ z.kind = kind /\ z.start = s /\ z.end = t /\ z.value = vs /\ z.binder = binder  BY <1>13
<1>15. ASSUME NEW i \in 1 .. n PROVE words'[s \div 4 + i - 1] = vs[i]
 <2>1. PICK w \in Nat : /\ w = s \div 4 + i - 1 /\ w * 4 >= s /\ w * 4 + 4 <= s + 4 * n
                        /\ w - s \div 4 + 1 = i
   BY <1>4, <1>5, WordOf
 <2>2. w \in DOMAIN words /\ w * 4 >= s /\ w * 4 < t  BY <1>3, <1>6, <1>7, <2>1
 <2> QED  BY <1>7, <2>1, <2>2
<1>16. Lies(z)'
 <2>1. z.end <= size'  BY <1>3, <1>6, <1>7, <1>14
 <2> QED  BY <1>2, <1>4, <1>6, <1>14, <1>15, <2>1 DEF Lies
<1>17. Formed(z.kind, z.value, z.binder)'  BY <1>14
<1>18. Whole'
 <2>1. \A e \in intact' : (e \in intact /\ (e.end <= s \/ e.start >= t)) \/ e = z  BY <1>7, <1>13
 <2>2. ASSUME NEW e \in intact' PROVE (Formed(e.kind, e.value, e.binder) /\ Lies(e))'
   BY <1>12, <1>16, <1>17, <2>1
 <2> QED  BY <2>2 DEF Whole
<1> QED  BY <1>11, <1>18 DEF ParcelInv

\* A number is written.
LEMMA WriteNumberKeeps == ASSUME ParcelSizes, ParcelInv, Shim!WriteInt(1) \/ Shim!WriteLong(3) PROVE ParcelInv'
<1>1. binders \in Seq(1 .. 1) /\ Len(binders) <= MaxParcelBinders  BY DEF ParcelInv, ParcelTypes
<1>2. binders' = binders  BY DEF Shim!WriteInt, Shim!WriteLong
<1>3. CASE Shim!WriteInt(1)
 <2>1. PICK v : v = <<1>>  OBVIOUS
 <2>2. v \in Seq(Int) /\ Len(v) = 1  BY <2>1
 <2>3. Formed("int", v, 0)'  BY <2>2 DEF Formed
 <2>4. Shim!Put("int", v, 0)  BY <1>3, <2>1 DEF Shim!WriteInt
 <2> QED  BY <1>1, <1>2, <2>3, <2>4, PutKeeps
<1>4. CASE Shim!WriteLong(3)
 <2>1. PICK v : v = <<3, 3 + 1>>  OBVIOUS
 <2>2. v \in Seq(Int) /\ Len(v) = 2  BY <2>1
 <2>3. Formed("long", v, 0)'  BY <2>2 DEF Formed
 <2>4. Shim!Put("long", v, 0)  BY <1>4, <2>1 DEF Shim!WriteLong
 <2> QED  BY <1>1, <1>2, <2>3, <2>4, PutKeeps
<1> QED  BY <1>3, <1>4

\* A string is written with its length, or as null.
LEMMA WriteStringKeeps ==
    ASSUME ParcelSizes, ParcelInv, NEW cs \in 1 .. 2, NEW n \in Nat \cup {-1}, Shim!WriteString(cs, n)
    PROVE  ParcelInv'
<1>1. binders \in Seq(1 .. 1) /\ Len(binders) <= MaxParcelBinders  BY DEF ParcelInv, ParcelTypes
<1>2. binders' = binders  BY DEF Shim!WriteString
<1>3. CASE n < 0
 <2>1. PICK v : v = <<-1>>  OBVIOUS
 <2>2. v \in Seq(Int) /\ Len(v) = 1 /\ v[1] = -1  BY <2>1
 <2>3. Formed("str", v, 0)'  BY <2>2 DEF Formed
 <2>4. Shim!Put("str", v, 0)  BY <1>3, <2>1 DEF Shim!WriteString
 <2> QED  BY <1>1, <1>2, <2>3, <2>4, PutKeeps
<1>4. CASE ~(n < 0)
 <2>1. n \in Nat  BY <1>4
 <2>2. PICK w : w = Shim!StringWords(cs, n)  OBVIOUS
 <2>3. w \in Nat \ {0}  BY <2>1, <2>2, StringFits
 <2>4. PICK c : c = Shim!Characters(cs, n)  OBVIOUS
 <2>5. c \in Seq(Int) /\ Len(c) = w
  <3>1. c = [i \in 1 .. w |-> IF (i - 1) * 4 < n * cs THEN 20 + i ELSE 0]
    BY <2>2, <2>4 DEF Shim!Characters
  <3>2. \A i \in 1 .. w : c[i] \in Int  BY <2>3, <3>1
  <3> QED  BY <2>3, <3>1, <3>2
 <2>6. PICK v : v = <<n>> \o c  OBVIOUS
 <2>7. v \in Seq(Int) /\ Len(v) = 1 + w /\ v[1] = n  BY <2>1, <2>3, <2>5, <2>6
 <2>8. PICK kind : kind = IF cs = 1 THEN "str8" ELSE "str"  OBVIOUS
 <2>9. Wide(kind) = cs /\ kind \in {"str8", "str"}  BY <2>8 DEF Wide
 <2>10. Formed(kind, v, 0)'  BY <2>1, <2>2, <2>3, <2>7, <2>9 DEF Formed
 <2>11. Shim!Put(kind, v, 0)  BY <1>4, <2>4, <2>6, <2>8 DEF Shim!WriteString
 <2> QED  BY <1>1, <1>2, <2>10, <2>11, PutKeeps
<1> QED  BY <1>3, <1>4

\* A binder is written as the number of its place.
LEMMA WriteBinderKeeps == ASSUME ParcelSizes, ParcelInv, Shim!WriteBinder(1) PROVE ParcelInv'
<1>1. binders \in Seq(1 .. 1) /\ Len(binders) < MaxParcelBinders /\ Len(binders) \in Nat /\ MaxParcelBinders \in Nat
  BY DEF ParcelInv, ParcelTypes, Shim!WriteBinder, ParcelSizes
<1>2. binders' = Append(binders, 1)  BY DEF Shim!WriteBinder
<1>3. /\ binders' \in Seq(1 .. 1) /\ Len(binders') = Len(binders) + 1 /\ binders'[Len(binders) + 1] = 1
      /\ \A i \in 1 .. Len(binders) : binders'[i] = binders[i]
      /\ DOMAIN binders = 1 .. Len(binders) /\ DOMAIN binders' = 1 .. Len(binders) + 1
  BY <1>1, <1>2
<1>4. PICK m \in Nat : m = Len(binders)  BY <1>1
<1>5. PICK v : v = <<m>>  OBVIOUS
<1>6. v \in Seq(Int) /\ Len(v) = 1 /\ v[1] = m  BY <1>5
<1>7. Formed("binder", v, 1)'  BY <1>3, <1>4, <1>6 DEF Formed
<1>8. Shim!Put("binder", v, 1)  BY <1>4, <1>5 DEF Shim!WriteBinder
<1>9. Len(binders) <= Len(binders') /\ Len(binders') <= MaxParcelBinders  BY <1>1, <1>3
<1>10. \A i \in DOMAIN binders : i \in DOMAIN binders' /\ binders'[i] = binders[i]  BY <1>1, <1>3
<1> QED  BY <1>3, <1>7, <1>8, <1>9, <1>10, PutKeeps

\* A buffer that is given more room keeps its words.
LEMMA RoomKeeps ==
    ASSUME ParcelSizes, ParcelInv, NEW n \in Nat, n <= 4 * MaxWords \/ n <= 9,
           cap' = Shim!Grown(n), words' = Shim!Zeroed(n), binders' = binders,
           size' \in 0 .. 4 * MaxWords, size' <= cap', pos' \in Nat,
           intact' = {e \in intact : e.end <= size'}
    PROVE  ParcelInv'
<1>1. /\ words \in [0 .. MaxWords - 1 -> Int] /\ size \in Nat /\ size <= cap /\ cap \in Nat
      /\ MaxWords \in Nat
  BY DEF ParcelInv, ParcelTypes, ParcelSizes
<1>2. Shim!Grown(n) \in Nat /\ (Shim!Grown(n) = 0 \/ Shim!Grown(n) >= 4 * MinCapacity)
  BY GrownFits DEF ParcelInv
<1>3. words' \in [0 .. MaxWords - 1 -> Int]  BY <1>1 DEF Shim!Zeroed
<1>4. ParcelTypes'  BY <1>2, <1>3 DEF ParcelInv, ParcelTypes
<1>5. ASSUME NEW e \in intact, e.end <= size' PROVE Formed(e.kind, e.value, e.binder)' /\ Lies(e)'
 <2>1. Formed(e.kind, e.value, e.binder) /\ Lies(e)  BY DEF ParcelInv, Whole
 <2>2. e.start \in Nat /\ e.end \in Nat /\ e.end <= size
  <3>1. PICK k : k = Len(e.value)  OBVIOUS
  <3>2. k \in Nat  BY <2>1, <3>1 DEF Formed
  <3> QED  BY <2>1, <3>1, <3>2 DEF Lies
 <2>3. ASSUME NEW w \in Nat, w * 4 >= e.start, w * 4 + 4 <= e.end PROVE words'[w] = words[w]
  <3>1. w \in DOMAIN words /\ w * 4 < cap
   <4>1. size <= 4 * MaxWords  BY DEF ParcelInv, ParcelTypes
   <4> QED  BY <1>1, <2>2, <2>3, <4>1
  <3> QED  BY <1>1, <3>1 DEF Shim!Zeroed
 <2>4. binders \in Seq(1 .. 1) /\ ParcelTypes /\ Len(binders) <= Len(binders')
   BY DEF ParcelInv, ParcelTypes
 <2> QED  BY <1>5, <2>1, <2>3, <2>4, ValueKept
<1>6. Whole'
 <2>1. ASSUME NEW e \in intact' PROVE (Formed(e.kind, e.value, e.binder) /\ Lies(e))'  BY <1>5
 <2> QED  BY <2>1 DEF Whole
<1> QED  BY <1>4, <1>6 DEF ParcelInv

\* The calls that set position, size and capacity, and the one that frees.
LEMMA SetKeeps ==
    ASSUME ParcelSizes, ParcelInv,
           \/ \E p \in {0, 5} : Shim!SetDataPosition(p)
           \/ \E n \in {0, 5, 8} : Shim!SetDataSize(n)
           \/ Shim!SetDataCapacity(9) \/ Shim!FreeBuffer
    PROVE  ParcelInv'
<1>1. /\ words \in [0 .. MaxWords - 1 -> Int] /\ size \in 0 .. 4 * MaxWords /\ size <= cap /\ cap \in Nat
      /\ pos \in Nat /\ MaxWords \in Nat /\ ParcelTypes
  BY DEF ParcelInv, ParcelTypes, ParcelSizes
<1>2. ASSUME NEW p \in {0, 5}, Shim!SetDataPosition(p) PROVE ParcelInv'
 <2>1. UNCHANGED <<words, size, cap, binders, intact>> /\ pos' \in Nat
   BY <1>2 DEF Shim!SetDataPosition
 <2> QED  BY <2>1 DEF ParcelInv, ParcelTypes, Whole, Formed, Lies
<1>3. ASSUME NEW n \in {0, 5, 8}, Shim!SetDataSize(n) PROVE ParcelInv'
 <2>1. /\ n <= 4 * MaxWords /\ cap' = Shim!Grown(n) /\ words' = Shim!Zeroed(n) /\ size' = n
       /\ pos' = (IF pos > n THEN n ELSE pos) /\ intact' = {e \in intact : e.end <= n}
       /\ binders' = binders
   BY <1>3 DEF Shim!SetDataSize
 <2>2. n \in Nat /\ Shim!Grown(n) >= n  BY <1>1, <2>1, GrownFits
 <2>3. size' \in 0 .. 4 * MaxWords /\ size' <= cap' /\ pos' \in Nat
  <3>1. Shim!Grown(n) \in Nat  BY <1>1, <2>1, <2>2, GrownFits
  <3> QED  BY <1>1, <2>1, <2>2, <3>1
 <2> QED  BY <2>1, <2>2, <2>3, RoomKeeps
<1>4. ASSUME Shim!SetDataCapacity(9) PROVE ParcelInv'
 <2>1. cap' = Shim!Grown(9) /\ words' = Shim!Zeroed(9) /\ UNCHANGED <<size, pos, binders, intact>>
   BY <1>4 DEF Shim!SetDataCapacity
 <2>2. Shim!Grown(9) \in Nat /\ Shim!Grown(9) >= cap  BY <1>1, GrownFits
 <2>3. size' \in 0 .. 4 * MaxWords /\ size' <= cap' /\ pos' \in Nat  BY <1>1, <2>1, <2>2
 <2>4. intact' = {e \in intact : e.end <= size'}  BY <2>1 DEF ParcelInv, Whole, Lies
 <2> QED  BY <2>1, <2>3, <2>4, RoomKeeps
<1>5. ASSUME Shim!FreeBuffer PROVE ParcelInv'
 <2>1. size' = 0 /\ pos' = 0 /\ cap' = 0 /\ binders' = <<>> /\ intact' = {}
       /\ words' = [w \in DOMAIN words |-> 0]
   BY <1>5 DEF Shim!FreeBuffer
 <2>2. binders' \in Seq(1 .. 1) /\ Len(binders') = 0  BY <2>1
 <2>3. words' \in [0 .. MaxWords - 1 -> Int]  BY <1>1, <2>1
 <2>4. ParcelTypes'  BY <1>1, <2>1, <2>2, <2>3 DEF ParcelTypes, ParcelSizes
 <2> QED  BY <2>1, <2>4 DEF ParcelInv, Whole
<1> QED  BY <1>2, <1>3, <1>4, <1>5

\* An empty parcel.
LEMMA ParcelStarts == ASSUME ParcelSizes, Shim!Init PROVE ParcelInv
<1>1. size = 0 /\ pos = 0 /\ cap = 0 /\ binders = <<>> /\ intact = {}
      /\ words = [w \in 0 .. MaxWords - 1 |-> 0]
  BY DEF Shim!Init
<1>2. binders \in Seq(1 .. 1) /\ Len(binders) = 0  BY <1>1
<1>3. words \in [0 .. MaxWords - 1 -> Int]  BY <1>1
<1>4. ParcelTypes  BY <1>1, <1>2, <1>3 DEF ParcelTypes, ParcelSizes
<1> QED  BY <1>1, <1>4 DEF ParcelInv, Whole

\* Every step keeps the invariant.
LEMMA ParcelSteps == ASSUME ParcelSizes, ParcelInv, [Shim!Next]_(Shim!vars) PROVE ParcelInv'
<1>1. CASE Shim!WriteInt(1) \/ Shim!WriteLong(3) \/ Shim!WriteBinder(1)
  BY <1>1, WriteNumberKeeps, WriteBinderKeeps
<1>2. ASSUME NEW cs \in 1 .. 2, NEW n \in {-1, 0, 2}, Shim!WriteString(cs, n) PROVE ParcelInv'
  BY <1>2, WriteStringKeeps
<1>3. ASSUME NEW k \in {"int", "long", "str8", "str", "binder"}, Shim!Read(k) PROVE ParcelInv'
  BY <1>3, ParcelReadKeeps
<1>4. CASE \/ \E p \in {0, 5} : Shim!SetDataPosition(p)
           \/ \E n \in {0, 5, 8} : Shim!SetDataSize(n)
           \/ Shim!SetDataCapacity(9) \/ Shim!FreeBuffer
  BY <1>4, SetKeeps
<1>5. CASE UNCHANGED Shim!vars  BY <1>5 DEF Shim!vars, ParcelInv, ParcelTypes, Whole, Formed, Lies
<1> QED  BY <1>1, <1>2, <1>3, <1>4, <1>5 DEF Shim!Next

\* A value of a parcel reads back as it was written, and the read ends where the
\* next value starts, whatever grew, was cut, sought or written over beside it
\* (nativeWrite*, nativeRead*, muplar_parcel_grow); for any size of the buffer.
THEOREM ParcelsReadBack == ASSUME ParcelSizes PROVE Shim!Spec => [](Shim!TypeOK /\ Shim!ParcelReadsBack)
<1>1. Shim!Init => ParcelInv  BY ParcelStarts
<1>2. ParcelInv /\ [Shim!Next]_(Shim!vars) => ParcelInv'  BY ParcelSteps
<1>3. ParcelInv => Shim!TypeOK /\ Shim!ParcelReadsBack
 <2> SUFFICES ASSUME ParcelInv PROVE Shim!TypeOK /\ Shim!ParcelReadsBack  OBVIOUS
 <2>1. Shim!TypeOK  BY DEF ParcelInv, ParcelTypes, Shim!TypeOK
 <2>2. ASSUME NEW e \in intact
       PROVE  Shim!ReadAs(e.kind, e.start).v = Shim!Shown(e) /\ Shim!ReadAs(e.kind, e.start).at = e.end
  <3>1. Formed(e.kind, e.value, e.binder) /\ Lies(e) /\ ParcelTypes  BY DEF ParcelInv, Whole
  <3> QED  BY <3>1, ValueReadsBack
 <2>3. size <= cap  BY DEF ParcelInv, ParcelTypes
 <2> QED  BY <2>1, <2>2, <2>3 DEF Shim!ParcelReadsBack
<1> QED  BY <1>1, <1>2, <1>3, PTL DEF Shim!Spec

----
(* The frame channel: a picture shown is one whole frame, for any parts of *)
(* a frame, sizes of the socket buffers and number of connections.         *)

CONSTANTS FrameParts, BufferParts, MaxFrames, MaxConns
VARIABLES frame, caller, wpc, attempt, sent, sock, conns, serving, got, queue, shown, tmp, file, poll

Frames == INSTANCE FrameChannel WITH Parts <- FrameParts

\* A frame has a part at least; the bounds are numbers.
FrameSizes == /\ FrameParts \in Nat \ {0} /\ BufferParts \in Nat
              /\ MaxFrames \in Nat /\ MaxConns \in Nat

\* What travels, and what a connection is.
Places == [frame : 1 .. MaxFrames, part : 1 .. FrameParts]
Streams == [bytes : Seq(Places), writer : BOOLEAN, reader : BOOLEAN]
Steps == {"idle", "socket", "open", "write", "rename"}

GuestTypes ==
    /\ frame \in 0 .. MaxFrames /\ caller \in {"present", "post"} /\ wpc \in Steps
    /\ attempt \in 1 .. 2 /\ sent \in 0 .. FrameParts /\ sock \in {0, Len(conns)}
    /\ wpc # "idle" => frame > 0
    /\ wpc \in {"idle", "open"} => sent = 0
    /\ wpc = "socket" => sent < FrameParts /\ (sock = 0 => sent = 0)
ConnTypes ==
    /\ conns \in Seq(Streams) /\ Len(conns) <= MaxConns
    /\ \A c \in DOMAIN conns : Len(conns[c].bytes) <= BufferParts
ShellTypes ==
    /\ serving \in 0 .. Len(conns) /\ got \in Seq(Places) /\ Len(got) < FrameParts
    /\ queue \in Seq([1 .. FrameParts -> Places]) /\ shown \in Nat
FileTypes ==
    /\ tmp \in Seq(Places) /\ Len(tmp) <= FrameParts
    /\ file \in [content : Seq(Places), stamp : Nat]
    /\ poll \in [at : {"idle", "stat"}, stat : Nat, seen : Nat, shown : Nat]

\* A closed end has nothing to read, the guest writes to one connection, and
\* the shell serves the first that is open.
Ends ==
    /\ \A c \in DOMAIN conns : ~conns[c].reader => conns[c].bytes = <<>>
    /\ \A c \in DOMAIN conns : conns[c].writer <=> c = sock
    /\ serving # 0 => /\ conns[serving].reader
                      /\ \A b \in 1 .. serving - 1 : ~conns[b].reader
    /\ serving = 0 => got = <<>>

\* The part after p on a connection.
Follows(p, q) == IF p.part < FrameParts THEN q = Frames!Part(p.frame, p.part + 1) ELSE q.part = 1

\* What is read is the beginning of one frame, what is still to be read goes on
\* from there, part by part.
Begun == \A i \in DOMAIN got : got[i] = Frames!Part(got[1].frame, i)
Chained ==
    \A c \in DOMAIN conns : \A i \in 1 .. Len(conns[c].bytes) - 1 :
        Follows(conns[c].bytes[i], conns[c].bytes[i + 1])
Reading(c) == c = serving /\ got # <<>>
FirstFits ==
    \A c \in DOMAIN conns : conns[c].bytes # <<>> =>
        IF Reading(c) THEN conns[c].bytes[1] = Frames!Part(got[1].frame, Len(got) + 1)
        ELSE conns[c].bytes[1].part = 1

\* The writer goes on where the connection ends.
Sending == wpc = "socket" /\ sent > 0
LastFits ==
    sock # 0 /\ conns[sock].reader =>
        LET b == conns[sock].bytes IN
        /\ Sending /\ b # <<>> => b[Len(b)] = Frames!Part(frame, sent)
        /\ Sending /\ b = <<>> => Reading(sock) /\ got[1].frame = frame /\ Len(got) = sent
        /\ ~Sending /\ b # <<>> => b[Len(b)].part = FrameParts
        /\ ~Sending /\ b = <<>> => ~Reading(sock)

\* Nothing on the way is of a frame before n.
NoneBefore(n) ==
    /\ n <= frame
    /\ \A c \in DOMAIN conns : \A i \in DOMAIN conns[c].bytes : n <= conns[c].bytes[i].frame
    /\ got # <<>> => n <= got[1].frame
Rising ==
    /\ \A c, d \in DOMAIN conns :
          \A i \in DOMAIN conns[c].bytes, j \in DOMAIN conns[d].bytes :
              c < d \/ (c = d /\ i <= j) => conns[c].bytes[i].frame <= conns[d].bytes[j].frame
    /\ \A c \in DOMAIN conns : \A i \in DOMAIN conns[c].bytes : conns[c].bytes[i].frame <= frame
    /\ got # <<>> =>
          /\ got[1].frame <= frame
          /\ \A c \in DOMAIN conns : \A i \in DOMAIN conns[c].bytes :
                got[1].frame <= conns[c].bytes[i].frame

Queued ==
    /\ \A i \in DOMAIN queue : /\ queue[i] = [p \in 1 .. FrameParts |-> Frames!Part(queue[i][1].frame, p)]
                               /\ NoneBefore(queue[i][1].frame) /\ shown <= queue[i][1].frame
    /\ \A i, j \in DOMAIN queue : i < j => queue[i][1].frame <= queue[j][1].frame
    /\ NoneBefore(shown)

\* The temporary file holds what was written of the frame.
Written ==
    /\ wpc = "write" => Len(tmp) = sent /\ sent < FrameParts
    /\ wpc = "rename" => Len(tmp) = FrameParts
    /\ wpc \in {"write", "rename"} => \A i \in DOMAIN tmp : tmp[i] = Frames!Part(frame, i)
Published ==
    /\ file.stamp = 0 <=> file = Frames!NoFile
    /\ poll.stat <= file.stamp /\ poll.seen <= file.stamp
    /\ poll.at = "stat" => poll.stat > 0

Net == /\ ConnTypes /\ ShellTypes /\ Ends /\ Begun /\ Chained /\ FirstFits /\ LastFits /\ Rising
       /\ Queued
Files == FileTypes /\ Written /\ Published /\ Frames!FileKept
FrameInv == GuestTypes /\ Net /\ Files

----
\* The frames on the way are numbers.
LEMMA FramesAreNumbers ==
    ASSUME FrameSizes, ConnTypes, ShellTypes
    PROVE  /\ \A c \in DOMAIN conns : \A i \in DOMAIN conns[c].bytes :
                  conns[c].bytes[i].frame \in Nat /\ conns[c].bytes[i].part \in 1 .. FrameParts
           /\ got # <<>> => got[1].frame \in Nat
           /\ shown \in Nat /\ \A i \in DOMAIN queue : queue[i][1].frame \in Nat
<1>1. \A p \in Places : p.frame \in Nat /\ p.part \in 1 .. FrameParts  BY DEF FrameSizes, Places
<1>2. \A c \in DOMAIN conns : conns[c].bytes \in Seq(Places)
 <2>1. conns \in Seq(Streams)  BY DEF ConnTypes
 <2>2. \A c \in DOMAIN conns : conns[c] \in Streams  BY <2>1
 <2> QED  BY <2>2 DEF Streams
<1>3. \A c \in DOMAIN conns : \A i \in DOMAIN conns[c].bytes : conns[c].bytes[i] \in Places
  BY <1>2
<1>4. got # <<>> => got[1] \in Places  BY DEF ShellTypes
<1>5. \A i \in DOMAIN queue : queue[i] \in [1 .. FrameParts -> Places]  BY DEF ShellTypes
<1>6. \A i \in DOMAIN queue : queue[i][1] \in Places  BY <1>5 DEF FrameSizes
<1> QED  BY <1>1, <1>3, <1>4, <1>6 DEF ShellTypes

\* Steps that leave the connections and the shell alone, with no frame half sent.
LEMMA NetStays ==
    ASSUME FrameSizes, FrameInv, UNCHANGED <<sock, conns, Frames!shell>>, frame' >= frame,
         frame' \in Nat,
           ~Sending, ~Sending'
    PROVE  Net'
<1>1. UNCHANGED <<sock, conns, serving, got, queue, shown>> /\ frame \in Nat
  BY DEF Frames!shell, FrameInv, GuestTypes
<1>2. ConnTypes' /\ ShellTypes' /\ Ends' /\ Begun' /\ Chained' /\ FirstFits'
  BY <1>1 DEF FrameInv, Net, ConnTypes, ShellTypes, Ends, Begun, Chained, FirstFits, Reading
<1>3. LastFits'  BY <1>1 DEF FrameInv, Net, LastFits, Reading
<1>4. /\ \A c \in DOMAIN conns : \A i \in DOMAIN conns[c].bytes : conns[c].bytes[i].frame \in Nat
      /\ got # <<>> => got[1].frame \in Nat
      /\ shown \in Nat /\ \A i \in DOMAIN queue : queue[i][1].frame \in Nat
  BY FramesAreNumbers DEF FrameInv, Net
<1>5. Rising'  BY <1>1, <1>4 DEF FrameInv, Net, Rising
<1>6. \A n \in Nat : NoneBefore(n) => NoneBefore(n)'  BY <1>1 DEF NoneBefore
<1>8. Queued'  BY <1>1, <1>4, <1>6 DEF FrameInv, Net, Queued
<1> QED  BY <1>2, <1>3, <1>5, <1>8 DEF Net

\* Steps that leave the files alone.
LEMMA FilesStay ==
    ASSUME FrameInv, UNCHANGED <<tmp, file, poll>>, wpc' \notin {"write", "rename"}
    PROVE  Files'
BY DEF FrameInv, Files, FileTypes, Written, Published, Frames!FileKept

\* A new frame begins with nothing sent.
LEMMA DrawKeeps == ASSUME FrameSizes, FrameInv, NEW who \in {"present", "post"}, Frames!Draw(who) PROVE FrameInv'
<1>1. /\ wpc = "idle" /\ frame < MaxFrames /\ frame' = frame + 1 /\ caller' = who /\ wpc' = "socket"
      /\ attempt' = 1 /\ sent' = 0
      /\ UNCHANGED <<sock, conns, Frames!shell, tmp, file, poll>>
  BY DEF Frames!Draw
<1>2. frame \in 0 .. MaxFrames  BY DEF FrameInv, GuestTypes
<1>3. Net'  BY <1>1, <1>2, NetStays DEF FrameSizes, Sending
<1>4. Files'  BY <1>1, FilesStay
<1>5. GuestTypes'  BY <1>1, <1>2 DEF FrameInv, GuestTypes, FrameSizes, Steps
<1> QED  BY <1>3, <1>4, <1>5 DEF FrameInv

\* Without a connection the writer goes on to the file.
LEMMA NoSocketKeeps ==
    ASSUME FrameSizes, FrameInv, Frames!GetFrameSocket(FALSE)
    PROVE  FrameInv'
<1>1. /\ wpc = "socket" /\ sock = 0 /\ wpc' = "open"
      /\ UNCHANGED <<frame, caller, attempt, sent, sock, conns, Frames!shell, tmp, file, poll>>
  BY DEF Frames!GetFrameSocket
<1>2. sent = 0 /\ frame \in Nat  BY <1>1 DEF FrameInv, GuestTypes
<1>3. Net'  BY <1>1, <1>2, NetStays DEF Sending
<1>4. Files'  BY <1>1, FilesStay
<1>5. GuestTypes'  BY <1>1, <1>2 DEF FrameInv, GuestTypes, FrameSizes, Steps
<1> QED  BY <1>3, <1>4, <1>5 DEF FrameInv

\* A new connection is empty and comes last.
LEMMA ConnectKeeps ==
    ASSUME FrameSizes, FrameInv, Frames!GetFrameSocket(TRUE)
    PROVE  FrameInv'
<1> DEFINE new == [bytes |-> <<>>, writer |-> TRUE, reader |-> TRUE]
<1>1. /\ wpc = "socket" /\ sock = 0 /\ wpc' = wpc /\ Len(conns) < MaxConns
      /\ conns' = Append(conns, new) /\ sock' = Len(conns) + 1
      /\ UNCHANGED <<frame, caller, attempt, sent, serving, got, queue, shown, tmp, file, poll>>
  BY DEF Frames!GetFrameSocket, Frames!shell
<1>2. sent = 0  BY <1>1 DEF FrameInv, GuestTypes
<1>3. conns \in Seq(Streams) /\ new \in Streams /\ serving \in 0 .. Len(conns)
 <2>1. <<>> \in Seq(Places)  OBVIOUS
 <2> QED  BY <2>1 DEF FrameInv, Net, ConnTypes, ShellTypes, Streams
<1>4. /\ conns' \in Seq(Streams) /\ Len(conns') = Len(conns) + 1
      /\ \A c \in 1 .. Len(conns) : conns'[c] = conns[c]
      /\ conns'[Len(conns) + 1] = new /\ new.bytes = <<>> /\ new.writer /\ new.reader
  BY <1>1, <1>3
<1>5. DOMAIN conns = 1 .. Len(conns) /\ DOMAIN conns' = 1 .. Len(conns) + 1 /\ Len(conns) \in Nat
  BY <1>3, <1>4
<1>6. ConnTypes' /\ ShellTypes'
 <2>1. \A c \in DOMAIN conns' : Len(conns'[c].bytes) <= BufferParts
   BY <1>4, <1>5 DEF FrameInv, Net, ConnTypes, FrameSizes
 <2> QED  BY <1>1, <1>3, <1>4, <1>5, <2>1 DEF FrameInv, Net, ConnTypes, ShellTypes, FrameSizes
<1>7. Ends' /\ Begun'  BY <1>1, <1>3, <1>4, <1>5 DEF FrameInv, Net, Ends, Begun
<1>8. Chained' /\ FirstFits' /\ LastFits'
  BY <1>1, <1>2, <1>3, <1>4, <1>5 DEF FrameInv, Net, Chained, FirstFits, LastFits, Reading, Sending
<1>9. Rising'  BY <1>1, <1>4, <1>5 DEF FrameInv, Net, Rising
<1>10. \A n \in Nat : NoneBefore(n) => NoneBefore(n)'  BY <1>1, <1>4, <1>5 DEF NoneBefore
<1>11. Queued'  BY <1>1, <1>10, FramesAreNumbers DEF FrameInv, Net, Queued
<1>12. Files'  BY <1>1, FilesStay
<1>13. GuestTypes'  BY <1>1, <1>2, <1>4, <1>5 DEF FrameInv, GuestTypes, FrameSizes, Steps
<1> QED  BY <1>6, <1>7, <1>8, <1>9, <1>11, <1>12, <1>13 DEF FrameInv, Net

\* A part that is sent follows the last one of its connection.
LEMMA SendPartKeeps == ASSUME FrameSizes, FrameInv, Frames!SendPart PROVE FrameInv'
<1> DEFINE b == conns[sock].bytes
           p == Frames!Part(frame, sent + 1)
<1>1. /\ wpc = "socket" /\ sock # 0 /\ conns[sock].reader /\ Len(b) < BufferParts
      /\ conns' = [conns EXCEPT ![sock].bytes = Append(b, p)]
      /\ sent' = IF sent + 1 = FrameParts THEN 0 ELSE sent + 1
      /\ wpc' = IF sent + 1 = FrameParts THEN "open" ELSE wpc
      /\ UNCHANGED <<frame, caller, attempt, sock, serving, got, queue, shown, tmp, file, poll>>
  BY DEF Frames!SendPart, Frames!shell
<1>2. /\ sent \in Nat /\ sent < FrameParts /\ sock = Len(conns) /\ frame \in 1 .. MaxFrames
  BY <1>1 DEF FrameInv, GuestTypes
<1>3. conns \in Seq(Streams) /\ serving \in 0 .. Len(conns)
  BY DEF FrameInv, Net, ConnTypes, ShellTypes
<1>4. DOMAIN conns = 1 .. Len(conns) /\ Len(conns) \in Nat /\ sock \in DOMAIN conns
  BY <1>1, <1>2, <1>3
<1>5. conns[sock] \in Streams  BY <1>3, <1>4
<1>6. b \in Seq(Places) /\ p \in Places /\ p.frame = frame /\ p.part = sent + 1
  BY <1>2, <1>5 DEF Streams, Places, Frames!Part, FrameSizes
<1>7. PICK a : a = Append(b, p)  OBVIOUS
<1>8. /\ a \in Seq(Places) /\ Len(a) = Len(b) + 1 /\ a[Len(b) + 1] = p /\ a # <<>>
      /\ \A i \in 1 .. Len(b) : a[i] = b[i]
      /\ DOMAIN a = 1 .. Len(b) + 1 /\ DOMAIN b = 1 .. Len(b) /\ Len(b) \in Nat
  BY <1>6, <1>7
<1>9. /\ DOMAIN conns' = DOMAIN conns /\ Len(conns') = Len(conns)
      /\ \A c \in DOMAIN conns : c # sock => conns'[c] = conns[c]
      /\ conns'[sock] = [conns[sock] EXCEPT !.bytes = a]
  BY <1>1, <1>3, <1>4, <1>7
<1>10. /\ conns'[sock].bytes = a /\ conns'[sock].reader = conns[sock].reader
       /\ conns'[sock].writer = conns[sock].writer
       /\ conns'[sock] \in Streams
  BY <1>5, <1>8, <1>9 DEF Streams
<1>11. conns' \in Seq(Streams)
 <2>1. \A c \in 1 .. Len(conns) : conns'[c] \in Streams  BY <1>3, <1>4, <1>9, <1>10
 <2>2. conns' = [c \in 1 .. Len(conns) |-> conns'[c]]  BY <1>1, <1>3, <1>4
 <2> QED  BY <1>4, <2>1, <2>2
<1>12. ConnTypes' /\ ShellTypes'
 <2>1. \A c \in DOMAIN conns' : Len(conns'[c].bytes) <= BufferParts
   BY <1>1, <1>4, <1>8, <1>9, <1>10 DEF FrameInv, Net, ConnTypes, FrameSizes
 <2> QED  BY <1>1, <1>3, <1>9, <1>11, <2>1 DEF FrameInv, Net, ConnTypes, ShellTypes
<1>13. Ends' /\ Begun'  BY <1>1, <1>4, <1>9, <1>10 DEF FrameInv, Net, Ends, Begun
<1>14. LastFits'  BY <1>1, <1>2, <1>4, <1>6, <1>8, <1>9, <1>10 DEF LastFits, Sending, Frames!Part
<1>15. FirstFits'
 <2>1. \A c \in DOMAIN conns : c # sock => (Reading(c)' <=> Reading(c))  BY <1>1 DEF Reading
 <2>2. b = <<>> => a[1] = p  BY <1>8
 <2>3. b # <<>> => a[1] = b[1]  BY <1>6, <1>8
 <2>4. ASSUME b = <<>> PROVE IF Reading(sock) THEN p = Frames!Part(got[1].frame, Len(got) + 1) ELSE p.part = 1
  <3>1. CASE Sending  BY <1>1, <2>4, <3>1 DEF FrameInv, Net, LastFits
  <3>2. CASE ~Sending  BY <1>1, <1>2, <1>6, <2>4, <3>2 DEF FrameInv, Net, LastFits, Sending
  <3> QED  BY <3>1, <3>2
 <2> QED
   BY <1>1, <1>4, <1>9, <1>10, <2>1, <2>2, <2>3, <2>4 DEF FrameInv, Net, FirstFits, Reading
<1>16. Chained'
 <2>1. ASSUME b # <<>> PROVE Follows(b[Len(b)], p)
  <3>1. CASE Sending
    BY <1>1, <1>2, <2>1, <3>1 DEF FrameInv, Net, LastFits, Follows, Frames!Part
  <3>2. CASE ~Sending
   <4>1. b[Len(b)].part = FrameParts  BY <1>1, <2>1, <3>2 DEF FrameInv, Net, LastFits
   <4>2. p.part = 1 /\ FrameParts \in Nat
     BY <1>1, <1>2, <3>2 DEF Sending, Frames!Part, FrameSizes
   <4> QED  BY <4>1, <4>2 DEF Follows
  <3> QED  BY <3>1, <3>2
 <2>2. \A i \in 1 .. Len(a) - 1 : Follows(a[i], a[i + 1])
  <3> SUFFICES ASSUME NEW i \in 1 .. Len(b) PROVE Follows(a[i], a[i + 1])
   <4>1. Len(a) - 1 = Len(b)  BY <1>8
   <4> QED  BY <4>1
  <3>1. CASE i = Len(b)  BY <1>6, <1>8, <2>1, <3>1
  <3>2. CASE i # Len(b)
   <4>1. i \in 1 .. Len(b) - 1 /\ i + 1 \in 1 .. Len(b)  BY <1>8, <3>2
   <4>2. Follows(b[i], b[i + 1])  BY <1>4, <4>1 DEF FrameInv, Net, Chained
   <4> QED  BY <1>8, <4>1, <4>2
  <3> QED  BY <3>1, <3>2
 <2> QED  BY <1>4, <1>9, <1>10, <2>2 DEF FrameInv, Net, Chained
<1>17. \A c \in DOMAIN conns : \A i \in DOMAIN conns'[c].bytes :
         \/ conns'[c].bytes[i].frame = frame /\ c = sock /\ i = Len(b) + 1
         \/ /\ i \in DOMAIN conns[c].bytes /\ conns'[c].bytes[i].frame = conns[c].bytes[i].frame
            /\ c = sock => i < Len(b) + 1
 <2>1. \A i \in DOMAIN a : i = Len(b) + 1 \/ (i \in DOMAIN b /\ a[i] = b[i] /\ i < Len(b) + 1)
   BY <1>8
 <2> QED  BY <1>6, <1>8, <1>9, <1>10, <2>1
<1>18. Rising'
 <2>1. ASSUME NEW c \in DOMAIN conns, NEW d \in DOMAIN conns, NEW i \in DOMAIN conns'[c].bytes,
              NEW j \in DOMAIN conns'[d].bytes, c < d \/ (c = d /\ i <= j)
       PROVE  conns'[c].bytes[i].frame <= conns'[d].bytes[j].frame
  <3>1. conns'[c].bytes[i].frame <= frame  BY <1>2, <1>17 DEF FrameInv, Net, Rising
  <3>2. CASE d = sock /\ j = Len(b) + 1
   <4>1. conns'[d].bytes[j].frame = frame
    <5>1. ~(j \in DOMAIN conns[d].bytes /\ d = sock /\ j < Len(b) + 1)  BY <1>8, <3>2
    <5> QED  BY <1>17, <3>2, <5>1
   <4> QED  BY <3>1, <4>1
  <3>3. CASE ~(d = sock /\ j = Len(b) + 1)
   <4>1. ~(c = sock /\ i = Len(b) + 1)
    <5>1. c = sock /\ i = Len(b) + 1 => c = d  BY <1>2, <1>4, <2>1
    <5>2. d = sock => j < Len(b) + 1  BY <1>17, <3>3
    <5>3. d = sock => j \in Nat  BY <1>8, <1>10
    <5> QED  BY <1>2, <1>4, <1>8, <2>1, <5>1, <5>2, <5>3
   <4> QED  BY <1>17, <2>1, <3>3, <4>1 DEF FrameInv, Net, Rising
  <3> QED  BY <3>2, <3>3
 <2>2. \A c \in DOMAIN conns : \A i \in DOMAIN conns'[c].bytes : conns'[c].bytes[i].frame <= frame
   BY <1>2, <1>17 DEF FrameInv, Net, Rising
 <2>3. got # <<>> =>
         /\ got[1].frame <= frame
         /\ \A c \in DOMAIN conns : \A i \in DOMAIN conns'[c].bytes :
               got[1].frame <= conns'[c].bytes[i].frame
   BY <1>17 DEF FrameInv, Net, Rising
 <2>4. DOMAIN conns' = DOMAIN conns /\ frame' = frame /\ got' = got  BY <1>1, <1>9
 <2>5. \A c \in DOMAIN conns, d \in DOMAIN conns :
         \A i \in DOMAIN conns'[c].bytes, j \in DOMAIN conns'[d].bytes :
             c < d \/ (c = d /\ i <= j) => conns'[c].bytes[i].frame <= conns'[d].bytes[j].frame
   BY <2>1
 <2> QED  BY <2>2, <2>3, <2>4, <2>5 DEF Rising
<1>19. \A n \in Nat : NoneBefore(n) => NoneBefore(n)'  BY <1>1, <1>9, <1>17 DEF NoneBefore
<1>20. Queued'  BY <1>1, <1>19, FramesAreNumbers DEF FrameInv, Net, Queued
<1>21. Files'  BY <1>1, FilesStay
<1>22. GuestTypes'  BY <1>1, <1>2, <1>9 DEF FrameInv, GuestTypes, FrameSizes, Steps
<1> QED  BY <1>12, <1>13, <1>14, <1>15, <1>16, <1>18, <1>20, <1>21, <1>22 DEF FrameInv, Net

\* A connection that the guest lets go keeps what it carries.
LEMMA LetGo ==
    ASSUME FrameSizes, FrameInv, UNCHANGED <<frame, serving, got, queue, shown>>, sock' = 0,
           conns' \in Seq(Streams), DOMAIN conns' = DOMAIN conns, Len(conns') = Len(conns),
           \A c \in DOMAIN conns : /\ conns'[c].bytes = conns[c].bytes
                                   /\ conns'[c].reader = conns[c].reader /\ ~conns'[c].writer
    PROVE  Net'
<1>1. serving \in 0 .. Len(conns) /\ DOMAIN conns = 1 .. Len(conns)
  BY DEF FrameInv, Net, ShellTypes, ConnTypes
<1>2. ConnTypes' /\ ShellTypes'  BY <1>1 DEF FrameInv, Net, ConnTypes, ShellTypes
<1>3. Ends' /\ Begun'  BY <1>1 DEF FrameInv, Net, Ends, Begun
<1>4. Chained' /\ FirstFits' /\ LastFits'
  BY DEF FrameInv, Net, Chained, FirstFits, LastFits, Reading
<1>5. Rising'  BY DEF FrameInv, Net, Rising
<1>6. \A n \in Nat : NoneBefore(n) => NoneBefore(n)'  BY DEF NoneBefore
<1>7. Queued'  BY <1>6, FramesAreNumbers DEF FrameInv, Net, Queued
<1> QED  BY <1>2, <1>3, <1>4, <1>5, <1>7 DEF Net

\* A connection that was given up is not written again.
LEMMA GiveUpSocketKeeps == ASSUME FrameSizes, FrameInv, Frames!GiveUpSocket PROVE FrameInv'
<1>1. /\ wpc = "socket" /\ sock # 0 /\ conns' = [conns EXCEPT ![sock].writer = FALSE]
      /\ sock' = 0 /\ sent' = 0 /\ wpc' = "open"
      /\ UNCHANGED <<frame, caller, attempt, serving, got, queue, shown, tmp, file, poll>>
  BY DEF Frames!GiveUpSocket, Frames!shell
<1>2. conns \in Seq(Streams) /\ sock = Len(conns)
  BY <1>1 DEF FrameInv, Net, ConnTypes, GuestTypes
<1>3. DOMAIN conns = 1 .. Len(conns) /\ sock \in DOMAIN conns /\ Len(conns) \in Nat  BY <1>1, <1>2
<1>4. /\ DOMAIN conns' = DOMAIN conns /\ Len(conns') = Len(conns)
      /\ \A c \in DOMAIN conns : c # sock => conns'[c] = conns[c]
      /\ conns'[sock] = [conns[sock] EXCEPT !.writer = FALSE]
 <2>1. PICK r : r = [conns[sock] EXCEPT !.writer = FALSE]  OBVIOUS
 <2>2. conns' = [conns EXCEPT ![sock] = r]  BY <1>1, <2>1
 <2>3. DOMAIN conns' = DOMAIN conns /\ conns'[sock] = r  BY <1>3, <2>2
 <2>4. \A c \in DOMAIN conns : c # sock => conns'[c] = conns[c]  BY <2>2
 <2>5. Len(conns') = Len(conns)  BY <1>2, <1>3, <2>2
 <2> QED  BY <2>1, <2>3, <2>4, <2>5
<1>5. \A c \in DOMAIN conns : conns[c] \in Streams  BY <1>2
<1>6. \A c \in DOMAIN conns : /\ conns'[c] \in Streams /\ conns'[c].bytes = conns[c].bytes
                              /\ conns'[c].reader = conns[c].reader
                              /\ c = sock => ~conns'[c].writer
  BY <1>3, <1>4, <1>5 DEF Streams
<1>7. \A c \in DOMAIN conns : ~conns'[c].writer  BY <1>4, <1>6 DEF FrameInv, Net, Ends
<1>8. conns' \in Seq(Streams)
 <2>1. conns' = [c \in 1 .. Len(conns) |-> conns'[c]]  BY <1>1, <1>2, <1>3
 <2> QED  BY <1>3, <1>6, <2>1
<1>9. Net'  BY <1>1, <1>4, <1>6, <1>7, <1>8, LetGo
<1>10. Files'  BY <1>1, FilesStay
<1>11. GuestTypes'  BY <1>1, <1>3, <1>4 DEF FrameInv, GuestTypes, FrameSizes, Steps
<1> QED  BY <1>9, <1>10, <1>11 DEF FrameInv

\* Nor is the one of a guest that died.
LEMMA GuestDiesKeeps == ASSUME FrameSizes, FrameInv, Frames!GuestDies PROVE FrameInv'
<1>1. /\ conns' = [c \in DOMAIN conns |->
                      IF c = sock THEN [conns[c] EXCEPT !.writer = FALSE] ELSE conns[c]]
      /\ sock' = 0 /\ wpc' = "idle" /\ attempt' = 1 /\ sent' = 0
      /\ UNCHANGED <<frame, caller, serving, got, queue, shown, tmp, file, poll>>
  BY DEF Frames!GuestDies, Frames!shell
<1>2. conns \in Seq(Streams)  BY <1>1 DEF FrameInv, Net, ConnTypes
<1>3. DOMAIN conns = 1 .. Len(conns) /\ Len(conns) \in Nat /\ \A c \in DOMAIN conns : conns[c] \in Streams
  BY <1>2
<1>4. \A c \in DOMAIN conns : /\ conns'[c] \in Streams /\ conns'[c].bytes = conns[c].bytes
                              /\ conns'[c].reader = conns[c].reader /\ ~conns'[c].writer
 <2>1. \A c \in DOMAIN conns : c # sock => ~conns[c].writer  BY DEF FrameInv, Net, Ends
 <2> QED  BY <1>1, <1>3, <2>1 DEF Streams
<1>5. DOMAIN conns' = DOMAIN conns /\ conns' \in Seq(Streams) /\ Len(conns') = Len(conns)
 <2>1. conns' = [c \in 1 .. Len(conns) |-> conns'[c]]  BY <1>1, <1>3
 <2> QED  BY <1>3, <1>4, <2>1
<1>6. Net'  BY <1>1, <1>4, <1>5, LetGo
<1>7. Files'  BY <1>1, FilesStay
<1>8. GuestTypes'  BY <1>1, <1>3, <1>5 DEF FrameInv, GuestTypes, FrameSizes, Steps
<1> QED  BY <1>6, <1>7, <1>8 DEF FrameInv

\* A writer that is through with the file begins again or rests.
LEMMA FinishNext ==
    ASSUME FrameInv, NEW ok \in BOOLEAN, Frames!Finish(ok), wpc # "idle", wpc # "socket",
           UNCHANGED <<frame, caller, sock, conns, Frames!shell>>, FrameSizes
    PROVE  GuestTypes' /\ Net' /\ wpc' \notin {"write", "rename"}
<1>1. wpc' \in {"socket", "idle"} /\ attempt' \in 1 .. 2 /\ sent' = 0  BY DEF Frames!Finish
<1>2. frame \in Nat /\ frame' = frame  BY DEF FrameInv, GuestTypes
<1>3. Net'  BY <1>1, <1>2, NetStays DEF Sending
<1>4. GuestTypes'  BY <1>1 DEF FrameInv, GuestTypes, FrameSizes, Steps
<1> QED  BY <1>1, <1>3, <1>4

\* The temporary file is begun.
LEMMA OpenTmpKeeps ==
    ASSUME FrameSizes, FrameInv, NEW ok \in BOOLEAN, Frames!OpenTmp(ok)
    PROVE  FrameInv'
<1>1. wpc = "open" /\ sent = 0 /\ UNCHANGED <<frame, caller, sock, conns, Frames!shell, file, poll>>
  BY DEF Frames!OpenTmp, FrameInv, GuestTypes
<1>2. CASE ok
 <2>1. tmp' = <<>> /\ wpc' = "write" /\ UNCHANGED <<attempt, sent>>  BY <1>2 DEF Frames!OpenTmp
 <2>2. frame \in Nat /\ frame' = frame  BY <1>1 DEF FrameInv, GuestTypes
 <2>3. Net'  BY <1>1, <2>1, <2>2, NetStays DEF Sending
 <2>4. GuestTypes'  BY <1>1, <2>1 DEF FrameInv, GuestTypes, FrameSizes, Steps
 <2>5. tmp' \in Seq(Places) /\ Len(tmp') = 0 /\ DOMAIN tmp' = {}  BY <2>1
 <2>6. Files'
   BY <1>1, <2>1, <2>5 DEF FrameInv, Files, FileTypes, Written, Published, Frames!FileKept,
      FrameSizes
 <2> QED  BY <2>3, <2>4, <2>6 DEF FrameInv
<1>3. CASE ~ok
 <2>1. Frames!Finish(FALSE) /\ tmp' = tmp  BY <1>3 DEF Frames!OpenTmp
 <2>2. GuestTypes' /\ Net' /\ wpc' \notin {"write", "rename"}  BY <1>1, <2>1, FinishNext
 <2> QED  BY <1>1, <2>1, <2>2, FilesStay DEF FrameInv
<1> QED  BY <1>2, <1>3

\* What is in the temporary file is the beginning of the frame.
LEMMA WriteTmpKeeps ==
    ASSUME FrameSizes, FrameInv, NEW ok \in BOOLEAN, Frames!WriteTmp(ok)
    PROVE  FrameInv'
<1>1. wpc = "write" /\ UNCHANGED <<frame, caller, sock, conns, Frames!shell, file, poll>>
  BY DEF Frames!WriteTmp
<1>2. /\ frame \in 1 .. MaxFrames /\ frame' = frame
      /\ tmp \in Seq(Places) /\ Len(tmp) = sent /\ sent < FrameParts /\ sent \in Nat
      /\ \A i \in DOMAIN tmp : tmp[i] = Frames!Part(frame, i)
  BY <1>1 DEF FrameInv, GuestTypes, Files, FileTypes, Written
<1>3. CASE ok
 <2>1. /\ tmp' = Append(tmp, Frames!Part(frame, sent + 1)) /\ sent' = sent + 1
       /\ wpc' = (IF sent + 1 = FrameParts THEN "rename" ELSE wpc) /\ attempt' = attempt
   BY <1>3 DEF Frames!WriteTmp
 <2>2. Net'  BY <1>1, <1>2, <2>1, NetStays DEF Sending
 <2>3. GuestTypes'  BY <1>1, <1>2, <2>1 DEF FrameInv, GuestTypes, FrameSizes, Steps
 <2>4. Frames!Part(frame, sent + 1) \in Places  BY <1>2 DEF Frames!Part, Places, FrameSizes
 <2>5. PICK p : p = Frames!Part(frame, sent + 1)  OBVIOUS
 <2>6. /\ tmp' \in Seq(Places) /\ Len(tmp') = sent + 1 /\ DOMAIN tmp' = 1 .. sent + 1
       /\ tmp'[sent + 1] = p /\ \A i \in 1 .. sent : tmp'[i] = tmp[i]
   BY <1>2, <2>1, <2>4, <2>5
 <2>7. \A i \in DOMAIN tmp' : tmp'[i] = Frames!Part(frame, i)
  <3>1. \A i \in 1 .. sent + 1 : i = sent + 1 \/ (i \in 1 .. sent /\ i \in DOMAIN tmp)  BY <1>2
  <3> QED  BY <1>2, <2>5, <2>6, <3>1
 <2>8. FileTypes' /\ Published' /\ Frames!FileKept'
   BY <1>1, <1>2, <2>6 DEF FrameInv, Files, FileTypes, Published, Frames!FileKept, FrameSizes
 <2>9. Written'  BY <1>1, <1>2, <2>1, <2>6, <2>7 DEF Written, FrameSizes
 <2> QED  BY <2>2, <2>3, <2>8, <2>9 DEF FrameInv, Files
<1>4. CASE ~ok
 <2>1. tmp' = <<>> /\ Frames!Finish(FALSE)  BY <1>4 DEF Frames!WriteTmp
 <2>2. GuestTypes' /\ Net' /\ wpc' \notin {"write", "rename"}  BY <1>1, <2>1, FinishNext
 <2>3. tmp' \in Seq(Places) /\ Len(tmp') = 0  BY <2>1
 <2>4. Files'
   BY <1>1, <2>2, <2>3 DEF FrameInv, Files, FileTypes, Written, Published, Frames!FileKept,
      FrameSizes
 <2> QED  BY <2>2, <2>4 DEF FrameInv
<1> QED  BY <1>3, <1>4

\* A file that is published is whole, and newer than any that was seen.
LEMMA RenameTmpKeeps ==
    ASSUME FrameSizes, FrameInv, NEW ok \in BOOLEAN, Frames!RenameTmp(ok)
    PROVE  FrameInv'
<1>1. wpc = "rename" /\ Frames!Finish(ok) /\ UNCHANGED <<frame, caller, sock, conns, Frames!shell, poll>>
  BY DEF Frames!RenameTmp
<1>2. GuestTypes' /\ Net' /\ wpc' \notin {"write", "rename"}  BY <1>1, FinishNext
<1>3. CASE ~ok  BY <1>1, <1>2, <1>3, FilesStay DEF Frames!RenameTmp, FrameInv
<1>4. CASE ok
 <2>1. file' = [content |-> tmp, stamp |-> file.stamp + 1] /\ tmp' = <<>>
   BY <1>4 DEF Frames!RenameTmp
 <2>2. /\ tmp \in Seq(Places) /\ Len(tmp) = FrameParts
       /\ \A i \in DOMAIN tmp : tmp[i] = Frames!Part(frame, i)
       /\ file \in [content : Seq(Places), stamp : Nat]
       /\ poll \in [at : {"idle", "stat"}, stat : Nat, seen : Nat, shown : Nat]
       /\ poll.stat <= file.stamp /\ poll.seen <= file.stamp
       /\ poll.at = "stat" => poll.stat > 0
   BY <1>1 DEF FrameInv, Files, FileTypes, Written, Published
 <2>3. PICK t : t = tmp  OBVIOUS
 <2>4. t = [p \in 1 .. FrameParts |-> Frames!Part(t[1].frame, p)]
  <3>1. DOMAIN t = 1 .. FrameParts /\ 1 \in DOMAIN t /\ t \in Seq(Places)
    BY <2>2, <2>3 DEF FrameSizes
  <3>2. t[1].frame = frame  BY <2>2, <2>3, <3>1 DEF Frames!Part
  <3>3. \A i \in 1 .. FrameParts : t[i] = Frames!Part(frame, i)  BY <2>2, <2>3, <3>1
  <3>4. t = [i \in 1 .. FrameParts |-> t[i]]  BY <3>1
  <3> QED  BY <3>2, <3>3, <3>4
 <2>5. PICK n : n = file.stamp  OBVIOUS
 <2>6. /\ file'.content = t /\ file'.stamp = n + 1 /\ n \in Nat
       /\ file' \in [content : Seq(Places), stamp : Nat]
   BY <2>1, <2>2, <2>3, <2>5
 <2>7. poll.stat <= n /\ poll.seen <= n /\ poll.stat \in Nat /\ poll.seen \in Nat /\ poll' = poll
   BY <1>1, <2>2, <2>5
 <2>8. file' # Frames!NoFile  BY <2>6 DEF Frames!NoFile
 <2>9. Published'
  <3>1. file'.stamp # 0 /\ poll'.stat <= file'.stamp /\ poll'.seen <= file'.stamp  BY <2>6, <2>7
  <3> QED  BY <2>2, <2>7, <2>8, <3>1 DEF Published
 <2>10. Frames!FileKept'
  <3>1. poll'.seen # file'.stamp  BY <2>6, <2>7
  <3> QED  BY <2>4, <2>6, <3>1 DEF Frames!FileKept
 <2>11. tmp' \in Seq(Places) /\ Len(tmp') = 0  BY <2>1
 <2>12. FileTypes' /\ Written'
   BY <1>2, <2>2, <2>6, <2>7, <2>11 DEF FileTypes, Written, FrameSizes
 <2> QED  BY <1>2, <2>9, <2>10, <2>12 DEF FrameInv, Files
<1> QED  BY <1>3, <1>4

\* One connection changes.
LEMMA OneConnection ==
    ASSUME conns \in Seq(Streams), NEW c \in DOMAIN conns, NEW r \in Streams,
           conns' = [conns EXCEPT ![c] = r]
    PROVE  /\ conns' \in Seq(Streams) /\ DOMAIN conns' = DOMAIN conns /\ Len(conns') = Len(conns)
           /\ conns'[c] = r /\ \A d \in DOMAIN conns : d # c => conns'[d] = conns[d]
OBVIOUS

\* The shell accepts the first connection that is open.
LEMMA AcceptKeeps == ASSUME FrameSizes, FrameInv, Frames!Accept PROVE FrameInv'
<1>1. PICK c \in DOMAIN conns : /\ conns[c].reader /\ \A b \in 1 .. c - 1 : ~conns[b].reader
                                /\ serving' = c
  BY DEF Frames!Accept
<1>2. /\ serving = 0 /\ got = <<>>
      /\ UNCHANGED <<frame, caller, wpc, attempt, sent, sock, conns, got, queue, shown, tmp, file, poll>>
  BY DEF Frames!Accept, Frames!guest, FrameInv, Net, Ends
<1>3. conns \in Seq(Streams) /\ DOMAIN conns = 1 .. Len(conns)  BY DEF FrameInv, Net, ConnTypes
<1>4. ConnTypes' /\ ShellTypes' /\ Ends' /\ Begun' /\ Chained' /\ FirstFits' /\ LastFits'
  BY <1>1, <1>2, <1>3 DEF FrameInv, Net, ConnTypes, ShellTypes, Ends, Begun, Chained, FirstFits,
     LastFits, Reading, Sending
<1>5. Rising'  BY <1>2 DEF FrameInv, Net, Rising
<1>6. \A n \in Nat : NoneBefore(n) => NoneBefore(n)'  BY <1>2 DEF NoneBefore
<1>7. Queued'  BY <1>2, <1>6, FramesAreNumbers DEF FrameInv, Net, Queued
<1>8. GuestTypes'  BY <1>2 DEF FrameInv, GuestTypes
<1>9. Files'  BY <1>2 DEF FrameInv, Files, FileTypes, Written, Published, Frames!FileKept
<1> QED  BY <1>4, <1>5, <1>7, <1>8, <1>9 DEF FrameInv, Net

\* At the end of the stream the beginning of a frame is dropped.
LEMMA ReadEndKeeps == ASSUME FrameSizes, FrameInv, Frames!ReadEnd PROVE FrameInv'
<1> DEFINE s == serving
<1>1. /\ s # 0 /\ conns[s].bytes = <<>> /\ ~conns[s].writer /\ serving' = 0 /\ got' = <<>>
      /\ UNCHANGED <<frame, caller, wpc, attempt, sent, sock, queue, shown, tmp, file, poll>>
      /\ conns' = [conns EXCEPT ![s].reader = FALSE, ![s].bytes = <<>>]
  BY DEF Frames!ReadEnd, Frames!CloseClient, Frames!guest
<1>2. conns \in Seq(Streams) /\ DOMAIN conns = 1 .. Len(conns) /\ s \in DOMAIN conns /\ Len(conns) \in Nat
  BY <1>1 DEF FrameInv, Net, ConnTypes, ShellTypes
<1>3. PICK r : r = [conns[s] EXCEPT !.reader = FALSE, !.bytes = <<>>]  OBVIOUS
<1>4. conns[s] \in Streams  BY <1>2
<1>5. r \in Streams /\ r.bytes = <<>> /\ ~r.reader /\ r.writer = conns[s].writer
 <2>1. <<>> \in Seq(Places)  OBVIOUS
 <2> QED  BY <1>3, <1>4, <2>1 DEF Streams
<1>6. conns' = [conns EXCEPT ![s] = r]  BY <1>1, <1>2, <1>3
<1>7. /\ conns' \in Seq(Streams) /\ DOMAIN conns' = DOMAIN conns /\ Len(conns') = Len(conns)
      /\ conns'[s] = r /\ \A d \in DOMAIN conns : d # s => conns'[d] = conns[d]
  BY <1>2, <1>5, <1>6, OneConnection
<1>8. s # sock  BY <1>1, <1>2 DEF FrameInv, Net, Ends
<1>9. \A d \in DOMAIN conns : conns'[d].bytes = conns[d].bytes  BY <1>1, <1>5, <1>7
<1>10. ConnTypes' /\ ShellTypes'
 <2>1. got' \in Seq(Places) /\ Len(got') < FrameParts  BY <1>1 DEF FrameSizes
 <2> QED  BY <1>1, <1>2, <1>7, <1>9, <2>1 DEF FrameInv, Net, ConnTypes, ShellTypes
<1>11. Ends'  BY <1>1, <1>5, <1>7 DEF FrameInv, Net, Ends
<1>12. Begun' /\ Chained'  BY <1>1, <1>7, <1>9 DEF FrameInv, Net, Begun, Chained
<1>13. FirstFits'  BY <1>1, <1>5, <1>7, <1>9 DEF FrameInv, Net, FirstFits, Reading
<1>14. LastFits'
 <2>1. sock # 0 => sock \in DOMAIN conns
  <3>1. sock = 0 \/ sock = Len(conns)  BY DEF FrameInv, GuestTypes
  <3> QED  BY <1>2, <3>1
 <2> QED  BY <1>1, <1>7, <1>8, <2>1 DEF FrameInv, Net, LastFits, Reading, Sending
<1>15. Rising'  BY <1>1, <1>7, <1>9 DEF FrameInv, Net, Rising
<1>16. \A n \in Nat : NoneBefore(n) => NoneBefore(n)'  BY <1>1, <1>7, <1>9 DEF NoneBefore
<1>17. Queued'  BY <1>1, <1>16, FramesAreNumbers DEF FrameInv, Net, Queued
<1>18. GuestTypes'  BY <1>1, <1>7 DEF FrameInv, GuestTypes
<1>19. Files'  BY <1>1 DEF FrameInv, Files, FileTypes, Written, Published, Frames!FileKept
<1> QED  BY <1>10, <1>11, <1>12, <1>13, <1>14, <1>15, <1>17, <1>18, <1>19 DEF FrameInv, Net

\* The frame that is shown was the first in the queue.
LEMMA ShowFrameKeeps == ASSUME FrameSizes, FrameInv, Frames!ShowFrame PROVE FrameInv'
<1>1. /\ queue # <<>> /\ shown' = queue[1][1].frame /\ queue' = Tail(queue)
      /\ UNCHANGED <<frame, caller, wpc, attempt, sent, sock, conns, serving, got, tmp, file, poll>>
  BY DEF Frames!ShowFrame, Frames!guest, FrameInv, Net, ShellTypes
<1>2. queue \in Seq([1 .. FrameParts -> Places])  BY DEF FrameInv, Net, ShellTypes
<1>3. /\ Len(queue) \in Nat /\ DOMAIN queue = 1 .. Len(queue) /\ 1 \in DOMAIN queue
      /\ queue' \in Seq([1 .. FrameParts -> Places]) /\ DOMAIN queue' = 1 .. Len(queue) - 1
      /\ \A i \in DOMAIN queue' : queue'[i] = queue[i + 1] /\ i + 1 \in DOMAIN queue /\ i \in Nat
  BY <1>1, <1>2
<1>4. \A i \in DOMAIN queue : queue[i][1].frame \in Nat  BY FramesAreNumbers DEF FrameInv, Net
<1>5. ConnTypes' /\ ShellTypes' /\ Ends' /\ Begun' /\ Chained' /\ FirstFits' /\ LastFits'
  BY <1>1, <1>3, <1>4 DEF FrameInv, Net, ConnTypes, ShellTypes, Ends, Begun, Chained, FirstFits,
     LastFits, Reading, Sending
<1>6. Rising'  BY <1>1 DEF FrameInv, Net, Rising
<1>7. \A n \in Nat : NoneBefore(n) => NoneBefore(n)'  BY <1>1 DEF NoneBefore
<1>8. Queued'
 <2>1. NoneBefore(shown)'  BY <1>1, <1>3, <1>4 DEF FrameInv, Net, Queued, NoneBefore
 <2>2. ASSUME NEW i \in DOMAIN queue', NEW n, n = queue'[i][1].frame
       PROVE  /\ queue'[i] = [p \in 1 .. FrameParts |-> Frames!Part(n, p)]
              /\ NoneBefore(n) /\ shown' <= n
  <3>1. PICK k \in DOMAIN queue : k = i + 1 /\ queue'[i] = queue[k] /\ 1 < k  BY <1>3
  <3>2. /\ queue[k] = [p \in 1 .. FrameParts |-> Frames!Part(queue[k][1].frame, p)]
        /\ NoneBefore(queue[k][1].frame) /\ queue[1][1].frame <= queue[k][1].frame
    BY <1>3, <3>1 DEF FrameInv, Net, Queued
  <3>3. n = queue[k][1].frame  BY <2>2, <3>1
  <3> QED  BY <1>1, <3>1, <3>2, <3>3
 <2>3. \A i, j \in DOMAIN queue' : i < j => queue'[i][1].frame <= queue'[j][1].frame
   BY <1>3 DEF FrameInv, Net, Queued
 <2>4. ASSUME NEW i \in DOMAIN queue'
       PROVE  /\ queue'[i] = [p \in 1 .. FrameParts |-> Frames!Part(queue'[i][1].frame, p)]
              /\ queue'[i][1].frame <= frame
              /\ \A c \in DOMAIN conns : \A k \in DOMAIN conns[c].bytes :
                   queue'[i][1].frame <= conns[c].bytes[k].frame
              /\ got # <<>> => queue'[i][1].frame <= got[1].frame
              /\ shown' <= queue'[i][1].frame
  <3>1. PICK n : n = queue'[i][1].frame  OBVIOUS
  <3> QED  BY <2>2, <3>1 DEF NoneBefore
 <2> QED  BY <1>1, <2>1, <2>3, <2>4 DEF Queued, NoneBefore
<1>9. GuestTypes'  BY <1>1 DEF FrameInv, GuestTypes
<1>10. Files'  BY <1>1 DEF FrameInv, Files, FileTypes, Written, Published, Frames!FileKept
<1> QED  BY <1>5, <1>6, <1>8, <1>9, <1>10 DEF FrameInv, Net

\* A part that is read goes on where the frame stands; the last one hands the
\* frame over.
LEMMA ReadPartKeeps == ASSUME FrameSizes, FrameInv, Frames!ReadPart PROVE FrameInv'
<1> DEFINE s == serving
           b == conns[s].bytes
<1>1. s # 0 /\ b # <<>>
      /\ UNCHANGED <<frame, caller, wpc, attempt, sent, sock, shown, tmp, file, poll>>
  BY DEF Frames!ReadPart, Frames!guest
<1>2. /\ conns \in Seq(Streams) /\ DOMAIN conns = 1 .. Len(conns) /\ s \in DOMAIN conns
      /\ Len(conns) \in Nat
  BY <1>1 DEF FrameInv, Net, ConnTypes, ShellTypes
<1>3. conns[s] \in Streams  BY <1>2
<1>4. /\ b \in Seq(Places) /\ Len(b) \in Nat /\ DOMAIN b = 1 .. Len(b) /\ 1 \in DOMAIN b /\ Len(b) > 0
 <2>1. b \in Seq(Places)  BY <1>3 DEF Streams
 <2> QED  BY <1>1, <2>1
<1>5. PICK p \in Places : p = b[1]  BY <1>4
<1>6. p.frame \in Nat /\ p.part \in 1 .. FrameParts /\ FrameParts \in Nat /\ got \in Seq(Places) /\ Len(got) < FrameParts
  BY DEF Places, FrameSizes, FrameInv, Net, ShellTypes
<1>7. PICK t : t = Tail(b)  OBVIOUS
<1>8. /\ t \in Seq(Places) /\ Len(t) = Len(b) - 1 /\ DOMAIN t = 1 .. Len(b) - 1
      /\ \A i \in DOMAIN t : t[i] = b[i + 1] /\ i + 1 \in DOMAIN b
      /\ t = <<>> <=> Len(b) = 1
 <2>1. t \in Seq(Places) /\ Len(t) = Len(b) - 1  BY <1>4, <1>7
 <2>2. DOMAIN t = 1 .. Len(b) - 1  BY <2>1
 <2>3. \A i \in 1 .. Len(b) - 1 : t[i] = b[i + 1] /\ i + 1 \in 1 .. Len(b)  BY <1>4, <1>7
 <2>4. t = <<>> <=> Len(t) = 0  BY <2>1, EmptySeq
 <2> QED  BY <1>4, <2>1, <2>2, <2>3, <2>4
<1>9. IF got = <<>> THEN p.part = 1 ELSE p = Frames!Part(got[1].frame, Len(got) + 1)
 <2>1. Reading(s) <=> got # <<>>  BY DEF Reading
 <2>2. IF Reading(s) THEN b[1] = Frames!Part(got[1].frame, Len(got) + 1) ELSE b[1].part = 1
   BY <1>1, <1>2 DEF FrameInv, Net, FirstFits
 <2> QED  BY <1>5, <2>1, <2>2
<1>10. PICK a : a = Append(got, p)  OBVIOUS
<1>11. /\ a \in Seq(Places) /\ Len(a) = Len(got) + 1 /\ DOMAIN a = 1 .. Len(got) + 1
       /\ a[Len(got) + 1] = p /\ \A i \in 1 .. Len(got) : a[i] = got[i] /\ Len(got) \in Nat
  BY <1>6, <1>10
<1>12. /\ a # <<>> /\ a[1].frame = p.frame /\ p.part = Len(got) + 1 /\ (got # <<>> => p.frame = got[1].frame)
       /\ \A i \in DOMAIN a : a[i] = Frames!Part(a[1].frame, i)
 <2>1. CASE got = <<>>
  <3>1. Len(got) = 0  BY <2>1
  <3>2. p = Frames!Part(p.frame, 1)  BY <1>5, <1>9, <2>1 DEF Places, Frames!Part
  <3> QED  BY <1>9, <1>11, <2>1, <3>1, <3>2
 <2>2. CASE got # <<>>
  <3>1. Len(got) > 0 /\ Len(got) \in Nat /\ DOMAIN got = 1 .. Len(got)  BY <1>6, <2>2
  <3>2. PICK f : f = got[1].frame  OBVIOUS
  <3>3. p = Frames!Part(f, Len(got) + 1) /\ p.frame = f /\ p.part = Len(got) + 1
    BY <1>9, <2>2, <3>2 DEF Frames!Part
  <3>4. \A i \in DOMAIN got : got[i] = Frames!Part(f, i)  BY <3>2 DEF FrameInv, Net, Begun
  <3>5. a[1] = got[1]  BY <1>11, <3>1
  <3>6. \A i \in 1 .. Len(got) + 1 : a[i] = Frames!Part(f, i)  BY <1>11, <3>1, <3>3, <3>4
  <3> QED  BY <1>11, <3>1, <3>2, <3>3, <3>5, <3>6
 <2> QED  BY <2>1, <2>2
<1>13. /\ conns' = [conns EXCEPT ![s].bytes = t] /\ serving' = s
       /\ got' = (IF Len(a) = FrameParts THEN <<>> ELSE a)
       /\ queue' = IF Len(a) = FrameParts THEN Append(queue, a) ELSE queue
 <2>1. ~(got = <<>> /\ ~Frames!IsHeader(p))  BY <1>9 DEF Frames!IsHeader
 <2>2. Head(b) = p  BY <1>4, <1>5
 <2> QED  BY <1>7, <1>10, <2>1, <2>2 DEF Frames!ReadPart
<1>14. PICK r : r = [conns[s] EXCEPT !.bytes = t]  OBVIOUS
<1>15. r \in Streams /\ r.bytes = t /\ r.reader = conns[s].reader /\ r.writer = conns[s].writer
  BY <1>3, <1>8, <1>14 DEF Streams
<1>16. conns' = [conns EXCEPT ![s] = r]  BY <1>13, <1>14
<1>17. /\ conns' \in Seq(Streams) /\ DOMAIN conns' = DOMAIN conns /\ Len(conns') = Len(conns)
       /\ conns'[s] = r /\ \A d \in DOMAIN conns : d # s => conns'[d] = conns[d]
  BY <1>2, <1>15, <1>16, OneConnection
<1>18. got' \in Seq(Places) /\ Len(got') < FrameParts /\ (got' = <<>> <=> Len(a) = FrameParts)
  BY <1>6, <1>11, <1>12, <1>13
<1>19. ConnTypes'
 <2>1. \A c \in DOMAIN conns : Len(conns[c].bytes) <= BufferParts
   BY DEF FrameInv, Net, ConnTypes
 <2>2. Len(t) <= BufferParts
  <3>1. Len(b) <= BufferParts /\ BufferParts \in Nat  BY <1>2, <2>1 DEF FrameSizes
  <3> QED  BY <1>4, <1>8, <3>1
 <2>3. \A c \in DOMAIN conns' : Len(conns'[c].bytes) <= BufferParts  BY <1>15, <1>17, <2>1, <2>2
 <2> QED  BY <1>17, <2>3 DEF FrameInv, Net, ConnTypes
<1>20. Ends'
 <2>1. conns[s].reader /\ \A d \in 1 .. s - 1 : ~conns[d].reader  BY <1>1 DEF FrameInv, Net, Ends
 <2>2. \A d \in DOMAIN conns : conns'[d].reader = conns[d].reader /\ conns'[d].writer = conns[d].writer
   BY <1>15, <1>17
 <2>3. \A d \in DOMAIN conns : ~conns[d].reader => conns'[d].bytes = <<>>
   BY <1>17, <2>1 DEF FrameInv, Net, Ends
 <2>4. \A d \in DOMAIN conns : conns[d].writer <=> d = sock  BY DEF FrameInv, Net, Ends
 <2>5. \A d \in 1 .. s - 1 : d \in DOMAIN conns  BY <1>2
 <2> QED  BY <1>1, <1>2, <1>13, <1>17, <2>1, <2>2, <2>3, <2>4, <2>5 DEF Ends
<1>21. Begun'  BY <1>12, <1>13 DEF Begun
<1>22. Chained'
 <2>1. \A i \in 1 .. Len(t) - 1 : Follows(t[i], t[i + 1])
  <3> SUFFICES ASSUME NEW i \in 1 .. Len(t) - 1 PROVE Follows(t[i], t[i + 1])  OBVIOUS
  <3>1. PICK k \in 1 .. Len(b) - 1 : k = i + 1 /\ t[i] = b[k] /\ t[i + 1] = b[k + 1]
   <4>1. i \in DOMAIN t /\ i + 1 \in DOMAIN t /\ i + 1 \in 1 .. Len(b) - 1  BY <1>4, <1>8
   <4> QED  BY <1>8, <4>1
  <3> QED  BY <1>2, <3>1 DEF FrameInv, Net, Chained
 <2> QED  BY <1>15, <1>17, <2>1 DEF FrameInv, Net, Chained
<1>23. Len(b) > 1 => Follows(p, t[1])
 <2> SUFFICES ASSUME Len(b) > 1 PROVE Follows(p, t[1])  OBVIOUS
 <2>1. 1 \in 1 .. Len(b) - 1 /\ t[1] = b[2]  BY <1>4, <1>8
 <2>2. Follows(b[1], b[1 + 1])  BY <1>2, <2>1 DEF FrameInv, Net, Chained
 <2> QED  BY <1>5, <2>1, <2>2
<1>24. FirstFits'
 <2>1. ASSUME t # <<>> PROVE IF got' # <<>> THEN t[1] = Frames!Part(a[1].frame, Len(a) + 1) ELSE t[1].part = 1
  <3>1. Follows(p, t[1])  BY <1>4, <1>8, <1>23, <2>1
  <3>2. CASE Len(a) = FrameParts  BY <1>11, <1>12, <1>18, <3>1, <3>2 DEF Follows
  <3>3. CASE Len(a) # FrameParts
   <4>1. p.part < FrameParts  BY <1>6, <1>11, <1>12, <3>3
   <4>2. t[1] = Frames!Part(p.frame, p.part + 1)  BY <3>1, <4>1 DEF Follows
   <4> QED  BY <1>11, <1>12, <1>18, <3>3, <4>2
  <3> QED  BY <3>2, <3>3
 <2>2. got' # <<>> => got' = a  BY <1>13
 <2>3. \A c \in DOMAIN conns : c # s => ~Reading(c) /\ ~Reading(c)'  BY <1>13 DEF Reading
 <2>4. ASSUME NEW c \in DOMAIN conns, conns'[c].bytes # <<>>
       PROVE  IF c = serving' /\ got' # <<>> THEN conns'[c].bytes[1] = Frames!Part(got'[1].frame, Len(got') + 1)
              ELSE conns'[c].bytes[1].part = 1
  <3>1. CASE c = s  BY <1>13, <1>15, <1>17, <2>1, <2>2, <2>4, <3>1
  <3>2. CASE c # s  BY <1>13, <1>17, <2>3, <2>4, <3>2 DEF FrameInv, Net, FirstFits
  <3> QED  BY <3>1, <3>2
 <2> QED  BY <1>17, <2>4 DEF FirstFits, Reading
<1>25. LastFits'
 <2>1. CASE sock # s
  <3>1. ~Reading(sock) /\ ~Reading(sock)'  BY <1>1, <1>13, <2>1 DEF Reading
  <3>2. sock # 0 => conns'[sock] = conns[sock]
   <4>1. sock = 0 \/ sock = Len(conns)  BY DEF FrameInv, GuestTypes
   <4> QED  BY <1>2, <1>17, <2>1, <4>1
  <3> QED  BY <1>1, <3>1, <3>2 DEF FrameInv, Net, LastFits, Sending
 <2>2. CASE sock = s
  <3>1. conns[sock].reader  BY <1>1, <2>2 DEF FrameInv, Net, Ends
  <3>2. /\ Sending => b[Len(b)] = Frames!Part(frame, sent)
        /\ ~Sending => b[Len(b)].part = FrameParts
    BY <1>1, <2>2, <3>1 DEF FrameInv, Net, LastFits
  <3>3. t # <<>> => t[Len(t)] = b[Len(b)]  BY <1>4, <1>8
  <3>4. t = <<>> => b[Len(b)] = p  BY <1>5, <1>8
  <3>5. Sending => sent < FrameParts /\ sent \in Nat  BY DEF Sending, FrameInv, GuestTypes
  <3>6. ASSUME t = <<>>, Sending PROVE got' = a /\ a[1].frame = frame /\ Len(a) = sent
   <4>1. p.frame = frame /\ p.part = sent  BY <3>2, <3>4, <3>6 DEF Frames!Part
   <4> QED  BY <1>11, <1>12, <1>13, <3>5, <3>6, <4>1
  <3>7. ASSUME t = <<>>, ~Sending PROVE got' = <<>>  BY <1>11, <1>12, <1>13, <3>2, <3>4, <3>7
  <3>8. (Sending' <=> Sending) /\ frame' = frame /\ sent' = sent /\ sock' = s /\ serving' = s
    BY <1>1, <1>13, <2>2 DEF Sending
  <3>9. conns'[s].bytes = t  BY <1>15, <1>17
  <3> QED  BY <1>12, <3>2, <3>3, <3>6, <3>7, <3>8, <3>9 DEF LastFits, Reading
 <2> QED  BY <2>1, <2>2
<1>26. \A c \in DOMAIN conns : \A i \in DOMAIN conns'[c].bytes :
         \E k \in DOMAIN conns[c].bytes :
            /\ conns'[c].bytes[i].frame = conns[c].bytes[k].frame
            /\ k = IF c = s THEN i + 1 ELSE i
  BY <1>8, <1>15, <1>17
<1>27. \A c \in DOMAIN conns : \A i \in DOMAIN conns[c].bytes : p.frame <= conns[c].bytes[i].frame
 <2> SUFFICES ASSUME NEW c \in DOMAIN conns, NEW i \in DOMAIN conns[c].bytes
              PROVE  p.frame <= conns[c].bytes[i].frame
   OBVIOUS
 <2>1. ~(c < s)
  <3> SUFFICES ASSUME c < s PROVE FALSE  OBVIOUS
  <3>1. ~conns[c].reader  BY <1>1, <1>2 DEF FrameInv, Net, Ends
  <3> QED  BY <3>1 DEF FrameInv, Net, Ends
 <2>2. s < c \/ (s = c /\ 1 <= i)  BY <1>2, <1>4, <2>1
 <2> QED  BY <1>2, <1>4, <1>5, <2>2 DEF FrameInv, Net, Rising
<1>28. p.frame <= frame /\ (got' # <<>> => got'[1].frame = p.frame)
  BY <1>2, <1>4, <1>5, <1>12, <1>13 DEF FrameInv, Net, Rising
<1>29. Rising'
 <2>1. ASSUME NEW c \in DOMAIN conns, NEW d \in DOMAIN conns, NEW i \in DOMAIN conns'[c].bytes,
              NEW j \in DOMAIN conns'[d].bytes, c < d \/ (c = d /\ i <= j)
       PROVE  conns'[c].bytes[i].frame <= conns'[d].bytes[j].frame
  <3>1. PICK k \in DOMAIN conns[c].bytes : /\ conns'[c].bytes[i].frame = conns[c].bytes[k].frame
                                           /\ k = IF c = s THEN i + 1 ELSE i
    BY <1>26
  <3>2. PICK m \in DOMAIN conns[d].bytes : /\ conns'[d].bytes[j].frame = conns[d].bytes[m].frame
                                           /\ m = IF d = s THEN j + 1 ELSE j
    BY <1>26
  <3>3. c = d => k <= m
   <4>1. c = d /\ c = s => i \in Nat /\ j \in Nat  BY <1>4, <1>8, <1>15, <1>17
   <4>2. c = d => i <= j  BY <1>2, <2>1
   <4> QED  BY <3>1, <3>2, <4>1, <4>2
  <3> QED  BY <2>1, <3>1, <3>2, <3>3 DEF FrameInv, Net, Rising
 <2>2. \A c \in DOMAIN conns, d \in DOMAIN conns :
         \A i \in DOMAIN conns'[c].bytes, j \in DOMAIN conns'[d].bytes :
             c < d \/ (c = d /\ i <= j) => conns'[c].bytes[i].frame <= conns'[d].bytes[j].frame
   BY <2>1
 <2>3. \A c \in DOMAIN conns : \A i \in DOMAIN conns'[c].bytes :
         conns'[c].bytes[i].frame <= frame /\ p.frame <= conns'[c].bytes[i].frame
   BY <1>26, <1>27 DEF FrameInv, Net, Rising
 <2>4. DOMAIN conns' = DOMAIN conns /\ frame' = frame  BY <1>1, <1>17
 <2> QED  BY <1>28, <2>2, <2>3, <2>4 DEF Rising
<1>30. ASSUME NEW n \in Nat, NoneBefore(n) PROVE NoneBefore(n)' /\ n <= p.frame
 <2>1. n <= p.frame  BY <1>2, <1>4, <1>5, <1>30 DEF NoneBefore
 <2>2. \A c \in DOMAIN conns : \A i \in DOMAIN conns'[c].bytes : n <= conns'[c].bytes[i].frame
   BY <1>26, <1>30 DEF NoneBefore
 <2> QED  BY <1>1, <1>17, <1>28, <1>30, <2>1, <2>2 DEF NoneBefore
<1>31. /\ shown \in Nat /\ \A i \in DOMAIN queue : queue[i][1].frame \in Nat
       /\ queue \in Seq([1 .. FrameParts -> Places])
  BY FramesAreNumbers DEF FrameInv, Net, ShellTypes
<1>32. Len(a) # FrameParts => Queued'
 <2> SUFFICES ASSUME Len(a) # FrameParts PROVE Queued'  OBVIOUS
 <2>1. queue' = queue /\ shown' = shown  BY <1>1, <1>13
 <2> QED  BY <1>30, <1>31, <2>1 DEF FrameInv, Net, Queued
<1>33. Len(a) = FrameParts => Queued' /\ queue' \in Seq([1 .. FrameParts -> Places])
 <2> SUFFICES ASSUME Len(a) = FrameParts PROVE Queued' /\ queue' \in Seq([1 .. FrameParts -> Places])
   OBVIOUS
 <2>1. queue' = Append(queue, a) /\ shown' = shown /\ got' = <<>>  BY <1>1, <1>13
 <2>2. DOMAIN a = 1 .. FrameParts /\ a \in [1 .. FrameParts -> Places] /\ a = [i \in 1 .. FrameParts |-> a[i]]
   BY <1>11
 <2>3. a = [i \in 1 .. FrameParts |-> Frames!Part(a[1].frame, i)]  BY <1>12, <2>2
 <2>4. /\ queue' \in Seq([1 .. FrameParts -> Places]) /\ DOMAIN queue' = 1 .. Len(queue) + 1
       /\ queue'[Len(queue) + 1] = a /\ \A i \in 1 .. Len(queue) : queue'[i] = queue[i]
       /\ DOMAIN queue = 1 .. Len(queue) /\ Len(queue) \in Nat
   BY <1>31, <2>1, <2>2
 <2>5. PICK f : f = a[1].frame  OBVIOUS
 <2>6. f = p.frame /\ f \in Nat  BY <1>6, <1>12, <2>5
 <2>7. \A c \in DOMAIN conns' : \A i \in DOMAIN conns'[c].bytes : f <= conns'[c].bytes[i].frame
   BY <1>17, <1>26, <1>27, <2>6
 <2>8. NoneBefore(f)'  BY <1>1, <1>28, <2>1, <2>6, <2>7 DEF NoneBefore
 <2>9. shown <= f /\ NoneBefore(shown) /\ \A i \in DOMAIN queue : queue[i][1].frame <= f
   BY <1>30, <1>31, <2>6 DEF FrameInv, Net, Queued
 <2>10. PICK m \in Nat : m = shown  BY <1>31
 <2>11. NoneBefore(m)'  BY <1>30, <2>9, <2>10
 <2>12. NoneBefore(shown)'  BY <2>1, <2>10, <2>11 DEF NoneBefore
 <2>13. ASSUME NEW i \in DOMAIN queue', NEW n, n = queue'[i][1].frame
        PROVE  queue'[i] = [q \in 1 .. FrameParts |-> Frames!Part(n, q)] /\ NoneBefore(n)' /\ shown' <= n
  <3>1. CASE i = Len(queue) + 1  BY <2>1, <2>3, <2>4, <2>5, <2>8, <2>9, <2>13, <3>1
  <3>2. CASE i # Len(queue) + 1
   <4>1. i \in DOMAIN queue /\ queue'[i] = queue[i]  BY <2>4, <3>2
   <4>2. n \in Nat /\ n = queue[i][1].frame  BY <1>31, <2>13, <4>1
   <4>3. /\ queue[i] = [q \in 1 .. FrameParts |-> Frames!Part(queue[i][1].frame, q)]
         /\ NoneBefore(queue[i][1].frame) /\ shown <= queue[i][1].frame
     BY <4>1 DEF FrameInv, Net, Queued
   <4>4. NoneBefore(n)  BY <4>2, <4>3
   <4> QED  BY <1>30, <2>1, <4>1, <4>2, <4>3, <4>4
  <3> QED  BY <3>1, <3>2
 <2>14. \A i, j \in DOMAIN queue' : i < j => queue'[i][1].frame <= queue'[j][1].frame
  <3> SUFFICES ASSUME NEW i \in DOMAIN queue', NEW j \in DOMAIN queue', i < j
               PROVE  queue'[i][1].frame <= queue'[j][1].frame
    OBVIOUS
  <3>1. i \in DOMAIN queue /\ queue'[i] = queue[i]  BY <2>4
  <3>2. CASE j = Len(queue) + 1  BY <2>4, <2>5, <2>9, <3>1, <3>2
  <3>3. CASE j # Len(queue) + 1
   <4>1. j \in DOMAIN queue /\ queue'[j] = queue[j]  BY <2>4, <3>3
   <4> QED  BY <3>1, <4>1 DEF FrameInv, Net, Queued
  <3> QED  BY <3>2, <3>3
 <2>15. \A i \in DOMAIN queue' :
          /\ queue'[i] = [q \in 1 .. FrameParts |-> Frames!Part(queue'[i][1].frame, q)]
          /\ queue'[i][1].frame <= frame'
          /\ \A c \in DOMAIN conns' : \A k \in DOMAIN conns'[c].bytes :
               queue'[i][1].frame <= conns'[c].bytes[k].frame
          /\ got' # <<>> => queue'[i][1].frame <= got'[1].frame
          /\ shown' <= queue'[i][1].frame
   BY <2>13 DEF NoneBefore
 <2> QED  BY <2>4, <2>12, <2>14, <2>15 DEF Queued, NoneBefore
<1>34. Queued' /\ queue' \in Seq([1 .. FrameParts -> Places])  BY <1>13, <1>31, <1>32, <1>33
<1>35. ShellTypes'  BY <1>1, <1>2, <1>13, <1>17, <1>18, <1>31, <1>34 DEF ShellTypes
<1>36. GuestTypes'  BY <1>1, <1>17 DEF FrameInv, GuestTypes
<1>37. Files'  BY <1>1 DEF FrameInv, Files, FileTypes, Written, Published, Frames!FileKept
<1> QED
  BY <1>19, <1>20, <1>21, <1>22, <1>24, <1>25, <1>29, <1>34, <1>35, <1>36, <1>37 DEF FrameInv, Net

\* A poll remembers the stamp it saw before it read, so what is newer stays new.
LEMMA PollKeeps == ASSUME FrameSizes, FrameInv, Frames!StatFile \/ Frames!ReadFile PROVE FrameInv'
<1>1. UNCHANGED <<frame, caller, wpc, attempt, sent, sock, conns, serving, got, queue, shown, tmp, file>>
  BY DEF Frames!StatFile, Frames!ReadFile, Frames!guest, Frames!shell
<1>2. GuestTypes'  BY <1>1 DEF FrameInv, GuestTypes
<1>3. ConnTypes' /\ ShellTypes' /\ Ends' /\ Begun' /\ Chained' /\ FirstFits' /\ LastFits'
  BY <1>1 DEF FrameInv, Net, ConnTypes, ShellTypes, Ends, Begun, Chained, FirstFits, LastFits,
     Reading, Sending
<1>4. Rising' /\ Queued'  BY <1>1 DEF FrameInv, Net, Rising, Queued, NoneBefore
<1>5. Written'  BY <1>1 DEF FrameInv, Files, Written
<1>6. /\ file \in [content : Seq(Places), stamp : Nat]
      /\ poll \in [at : {"idle", "stat"}, stat : Nat, seen : Nat, shown : Nat]
      /\ file.stamp = 0 <=> file = Frames!NoFile
      /\ poll.stat <= file.stamp /\ poll.seen <= file.stamp
      /\ poll.at = "stat" => poll.stat > 0
      /\ file # Frames!NoFile => file.content = [p \in 1 .. FrameParts |-> Frames!Part(file.content[1].frame, p)]
      /\ poll.seen = file.stamp /\ file # Frames!NoFile => poll.shown = file.content[1].frame
      /\ tmp \in Seq(Places) /\ Len(tmp) <= FrameParts
  BY DEF FrameInv, Files, FileTypes, Published, Frames!FileKept
<1>7. file.stamp \in Nat /\ poll.stat \in Nat /\ poll.seen \in Nat /\ poll.shown \in Nat  BY <1>6
<1>8. CASE Frames!StatFile
 <2>1. poll' = [poll EXCEPT !.at = "stat", !.stat = file.stamp] /\ file # Frames!NoFile
   BY <1>8 DEF Frames!StatFile
 <2>2. /\ poll' \in [at : {"idle", "stat"}, stat : Nat, seen : Nat, shown : Nat]
       /\ poll'.stat = file.stamp /\ poll'.seen = poll.seen /\ poll'.shown = poll.shown
   BY <1>6, <1>7, <2>1
 <2>3. Files'
   BY <1>1, <1>5, <1>6, <1>7, <2>1, <2>2 DEF Files, FileTypes, Published, Frames!FileKept
 <2> QED  BY <1>2, <1>3, <1>4, <2>3 DEF FrameInv, Net
<1>9. CASE Frames!ReadFile
 <2>1. CASE Len(file.content) = FrameParts
  <3>1. poll' = [at |-> "idle", stat |-> 0, seen |-> poll.stat, shown |-> file.content[1].frame]
    BY <1>9, <2>1 DEF Frames!ReadFile
  <3>2. PICK f : f = file.content[1].frame  OBVIOUS
  <3>3. f \in Nat
   <4>1. file.content \in Seq(Places)  BY <1>6
   <4>2. file.content[1] \in Places  BY <2>1, <4>1 DEF FrameSizes
   <4> QED  BY <3>2, <4>2 DEF Places, FrameSizes
  <3>4. /\ poll' \in [at : {"idle", "stat"}, stat : Nat, seen : Nat, shown : Nat]
        /\ poll'.stat = 0 /\ poll'.seen = poll.stat /\ poll'.shown = f /\ poll'.at = "idle"
    BY <1>7, <3>1, <3>2, <3>3
  <3>5. Files'
    BY <1>1, <1>5, <1>6, <1>7, <3>2, <3>4 DEF Files, FileTypes, Published, Frames!FileKept
  <3> QED  BY <1>2, <1>3, <1>4, <3>5 DEF FrameInv, Net
 <2>2. CASE Len(file.content) # FrameParts
  <3>1. poll' = [poll EXCEPT !.at = "idle"]  BY <1>9, <2>2 DEF Frames!ReadFile
  <3>2. /\ poll' \in [at : {"idle", "stat"}, stat : Nat, seen : Nat, shown : Nat]
        /\ poll'.stat = poll.stat /\ poll'.seen = poll.seen /\ poll'.shown = poll.shown
        /\ poll'.at = "idle"
    BY <1>6, <1>7, <3>1
  <3>3. Files'  BY <1>1, <1>5, <1>6, <1>7, <3>2 DEF Files, FileTypes, Published, Frames!FileKept
  <3> QED  BY <1>2, <1>3, <1>4, <3>3 DEF FrameInv, Net
 <2> QED  BY <2>1, <2>2
<1> QED  BY <1>8, <1>9

\* At first nothing is on its way.
LEMMA FrameStarts == ASSUME FrameSizes, Frames!Init PROVE FrameInv
<1>1. GuestTypes  BY DEF Frames!Init, GuestTypes, Steps, FrameSizes
<1>2. /\ conns = <<>> /\ got = <<>> /\ queue = <<>> /\ tmp = <<>> /\ file = Frames!NoFile
      /\ serving = 0 /\ sock = 0 /\ shown = 0 /\ frame = 0 /\ wpc = "idle"
      /\ poll = [at |-> "idle", stat |-> 0, seen |-> 0, shown |-> 0]
  BY DEF Frames!Init
<1>3. \A S : <<>> \in Seq(S)  OBVIOUS
<1>4. Len(<<>>) = 0 /\ DOMAIN <<>> = {}  OBVIOUS
<1>5. ConnTypes /\ ShellTypes /\ Ends /\ Begun /\ Chained /\ FirstFits /\ LastFits /\ Rising /\ Queued
  BY <1>2, <1>3, <1>4 DEF ConnTypes, ShellTypes, Ends, Begun, Chained, FirstFits, LastFits,
     Rising, Queued, NoneBefore, FrameSizes
<1>6. Files
 <2>1. file.stamp = 0 /\ file.content = <<>> /\ poll.stat = 0 /\ poll.seen = 0 /\ poll.at = "idle"
   BY <1>2 DEF Frames!NoFile
 <2>2. FileTypes  BY <1>2, <1>3, <1>4 DEF FileTypes, Frames!NoFile, FrameSizes
 <2> QED  BY <1>2, <2>1, <2>2 DEF Files, Written, Published, Frames!FileKept
<1> QED  BY <1>1, <1>5, <1>6 DEF FrameInv, Net

\* Every step keeps the invariant.
LEMMA FrameSteps == ASSUME FrameSizes, FrameInv, [Frames!Next]_(Frames!vars) PROVE FrameInv'
<1>1. CASE Frames!WriteBitmapNative \/ Frames!UnlockCanvasAndPost
  BY <1>1, DrawKeeps DEF Frames!WriteBitmapNative, Frames!UnlockCanvasAndPost
<1>2. ASSUME NEW c \in BOOLEAN, Frames!GetFrameSocket(c) PROVE FrameInv'
  BY <1>2, ConnectKeeps, NoSocketKeeps
<1>3. CASE Frames!SendPart \/ Frames!GiveUpSocket \/ Frames!GuestDies
  BY <1>3, SendPartKeeps, GiveUpSocketKeeps, GuestDiesKeeps
<1>4. ASSUME NEW ok \in BOOLEAN, Frames!OpenTmp(ok) \/ Frames!WriteTmp(ok) \/ Frames!RenameTmp(ok) PROVE FrameInv'
  BY <1>4, OpenTmpKeeps, WriteTmpKeeps, RenameTmpKeeps
<1>5. CASE Frames!Accept \/ Frames!ReadPart \/ Frames!ReadEnd \/ Frames!ShowFrame
  BY <1>5, AcceptKeeps, ReadPartKeeps, ReadEndKeeps, ShowFrameKeeps
<1>6. CASE Frames!StatFile \/ Frames!ReadFile  BY <1>6, PollKeeps
<1>7. CASE UNCHANGED Frames!vars
 <2>1. UNCHANGED <<frame, caller, wpc, attempt, sent, sock, conns, serving, got, queue, shown, tmp, file, poll>>
   BY <1>7 DEF Frames!vars
 <2>2. GuestTypes' /\ Files'
   BY <2>1 DEF FrameInv, GuestTypes, Files, FileTypes, Written, Published, Frames!FileKept
 <2>3. ConnTypes' /\ ShellTypes' /\ Ends' /\ Begun' /\ Chained' /\ FirstFits' /\ LastFits'
   BY <2>1 DEF FrameInv, Net, ConnTypes, ShellTypes, Ends, Begun, Chained, FirstFits, LastFits,
      Reading, Sending
 <2>4. Rising' /\ Queued'  BY <2>1 DEF FrameInv, Net, Rising, Queued, NoneBefore
 <2> QED  BY <2>2, <2>3, <2>4 DEF FrameInv, Net
<1> QED  BY <1>1, <1>2, <1>3, <1>4, <1>5, <1>6, <1>7 DEF Frames!Next

\* The shell shows whole frames in order, however sends fail, guests die and
\* connections are made again, and the window has seen the file that is there
\* once it rests (write_bitmap_frame, AndroidDeviceReadAll, the poll of the
\* host window); for any number of parts, frames and connections.
THEOREM FramesStaySound == ASSUME FrameSizes PROVE Frames!Spec => [](Frames!TypeOK /\ Frames!FramesSound)
<1>1. Frames!Init => FrameInv  BY FrameStarts
<1>2. FrameInv /\ [Frames!Next]_(Frames!vars) => FrameInv'  BY FrameSteps
<1>3. FrameInv => Frames!TypeOK /\ Frames!FramesSound
 <2> SUFFICES ASSUME FrameInv PROVE Frames!TypeOK /\ Frames!FramesSound  OBVIOUS
 <2>1. Frames!FramesWhole /\ Frames!FramesInOrder /\ Frames!FileKept
   BY DEF FrameInv, Net, Files, Queued, Frames!FramesWhole, Frames!FramesInOrder
 <2>2. sock \in 0 .. Len(conns)
  <3>1. Len(conns) \in Nat /\ sock \in {0, Len(conns)}
    BY DEF FrameInv, Net, ConnTypes, GuestTypes
  <3> QED  BY <3>1
 <2>3. /\ frame \in 0 .. MaxFrames /\ wpc \in Steps /\ serving \in 0 .. Len(conns)
       /\ Len(conns) <= MaxConns /\ \A c \in DOMAIN conns : Len(conns[c].bytes) <= BufferParts
       /\ Len(got) < FrameParts /\ Len(tmp) <= FrameParts
   BY DEF FrameInv, Net, Files, GuestTypes, ConnTypes, ShellTypes, FileTypes
 <2>4. poll.at \in {"idle", "stat"}  BY DEF FrameInv, Files, FileTypes
 <2> QED  BY <2>1, <2>2, <2>3, <2>4 DEF Frames!TypeOK, Steps, Frames!FramesSound
<1> QED  BY <1>1, <1>2, <1>3, PTL DEF Frames!Spec

----
(* Transactions: what onTransact and the client read is what the other wrote,*)
(* for any number of values and calls.                                     *)

CONSTANTS MaxValues, MaxCalls
VARIABLES phase, target, inp, out, inPtr, outPtr, put, served, answered, readBack, result, calls

Parcel == INSTANCE GuestParcel WITH sent <- put, got <- readBack

\* A value is a class header, what the guest writes, or a status.
Numbers == {<<n>> : n \in Int}
Plain == [k : {"i32", "arr"}, v : Numbers] \cup [k : {"str"}, v : Seq(Int)]
Vals == {Parcel!Token, Parcel!BareStatus} \cup Plain \cup {Parcel!StatusValue(s) : s \in Parcel!Statuses}
Parcels == [there : BOOLEAN, vals : Seq(Vals), cur : Nat]

\* The bound is a number.
TransactSizes == MaxCalls \in Nat

TransactTypes ==
    /\ phase \in {"client", "handler", "reply"} /\ target \in Parcel!Targets
    /\ inp \in Parcels /\ inp.cur <= Len(inp.vals)
    /\ out \in Parcels /\ out.cur <= Len(out.vals)
    /\ inPtr \in BOOLEAN /\ outPtr \in BOOLEAN /\ calls \in 0 .. MaxCalls
    /\ put \in Seq(Plain) /\ served \in Seq(Vals)
    /\ answered \in Seq(Vals) /\ readBack \in Seq(Vals)

\* A parcel exists while the guest has it, and who takes a call has it.
Owned ==
    /\ inp.there <=> inPtr
    /\ out.there <=> outPtr
    /\ phase = "client" => readBack = <<>>
    /\ phase = "handler" => inPtr /\ target.kind = "local" /\ readBack = <<>>
    /\ phase = "reply" => ~inPtr /\ outPtr
    /\ inPtr /\ target.kind \in {"local", "daemon", "echo"} => calls < MaxCalls

\* The input is a class header or none, and what the client wrote.
Header == Len(inp.vals) - Len(put)
InputIs ==
    inPtr => /\ Header \in 0 .. 1
             /\ Header = 1 => inp.vals[1].k = "token"
             /\ \A i \in 1 .. Len(put) : inp.vals[Header + i] = put[i]

\* What onTransact has read is what the client wrote up to the cursor.
Served ==
    phase = "handler" =>
        /\ inp.cur < Header => served = <<>>
        /\ inp.cur >= Header => Len(served) = inp.cur - Header
        /\ Len(served) <= Len(put)
        /\ \A i \in 1 .. Len(served) : served[i] = put[i]

\* What the client has read of the reply is its values up to the cursor.
Reply ==
    /\ out.vals = answered
    /\ phase = "reply" => /\ out.cur = Len(readBack)
                          /\ \A i \in 1 .. Len(readBack) : readBack[i] = Parcel!Seen(answered[i])

TransactInv == TransactTypes /\ Owned /\ InputIs /\ Served /\ Reply

----
\* Values have a kind, and what is not a class header or a status reads as it is.
LEMMA ValueKinds ==
    /\ \A v \in Vals : v.k \in Parcel!Kinds
    /\ \A v \in Plain : v \in Vals /\ v.k \in {"i32", "str", "arr"}
    /\ \A v \in Vals : v.k \in {"i32", "str", "arr"} => Parcel!Seen(v) = v
    /\ Parcel!Token \in Vals /\ Parcel!BareStatus \in Vals /\ Parcel!Inputs \subseteq Plain
    /\ \A n \in Int : Parcel!Int32(n) \in Plain /\ Parcel!Int32(n) \in Vals
    /\ \A n \in Int : [k |-> "arr", v |-> <<n>>] \in Plain
    /\ \A s \in Parcel!Statuses : Parcel!StatusValue(s) \in Vals
<1>1. \A v \in Plain : v \in Vals /\ v.k \in {"i32", "str", "arr"}  BY DEF Vals, Plain
<1>2. Parcel!Token.k = "token" /\ Parcel!BareStatus.k = "status" /\ \A s : Parcel!StatusValue(s).k = "status"
  BY DEF Parcel!Token, Parcel!BareStatus, Parcel!StatusValue
<1>3. \A v \in Vals : v.k \in Parcel!Kinds /\ (v.k \in {"i32", "str", "arr"} => Parcel!Seen(v) = v)
  BY <1>1, <1>2 DEF Vals, Parcel!Kinds, Parcel!Seen
<1>4. \A n \in Int : Parcel!Int32(n) \in Plain /\ [k |-> "arr", v |-> <<n>>] \in Plain
  BY DEF Parcel!Int32, Plain, Numbers
<1>5. Parcel!Inputs \subseteq Plain
 <2>1. \A n \in {-1, 0, 2} : Parcel!String(n) \in Plain
  <3>1. \A n \in {-1, 0, 2} : Parcel!String(n).v \in Seq(Int) /\ Parcel!String(n) = [k |-> "str", v |-> Parcel!String(n).v]
    BY DEF Parcel!String, Parcel!MaxString
  <3> QED  BY <3>1 DEF Plain
 <2>2. Parcel!Int32(1) \in Plain
  <3>1. 1 \in Int  OBVIOUS
  <3> QED  BY <1>4, <3>1, Zenon
 <2>3. Parcel!String(-1) \in Plain /\ Parcel!String(0) \in Plain /\ Parcel!String(2) \in Plain
   BY <2>1
 <2> QED  BY <2>2, <2>3, Zenon DEF Parcel!Inputs
<1>6. Parcel!Token \in Vals /\ Parcel!BareStatus \in Vals /\ \A s \in Parcel!Statuses : Parcel!StatusValue(s) \in Vals
  BY DEF Vals
<1> QED  BY <1>1, <1>3, <1>4, <1>5, <1>6

\* A status that is read back is the status that was written.
LEMMA StatusReadsBack ==
    ASSUME NEW v \in Vals, v.k = "status"
    PROVE  /\ Parcel!Seen(v) \in Vals
           /\ Parcel!StatusValue(IF Len(v.v) = 1 THEN Parcel!FromStatus(v.v[1])
                          ELSE [ex |-> v.v[2], err |-> v.v[3], low |-> v.v[1]]) = Parcel!Seen(v)
<1>1. CASE v = Parcel!BareStatus
 <2>1. Len(v.v) = 1 /\ v.v[1] = 0  BY <1>1 DEF Parcel!BareStatus
 <2>2. Parcel!Seen(v) = Parcel!StatusValue(Parcel!FromStatus(0))
   BY <1>1, <2>1 DEF Parcel!Seen, Parcel!BareStatus
 <2>3. Parcel!FromStatus(0) \in Parcel!Statuses  BY DEF Parcel!FromStatus, Parcel!Statuses
 <2> QED  BY <2>1, <2>2, <2>3, ValueKinds
<1>2. CASE v # Parcel!BareStatus
 <2>1. PICK s \in Parcel!Statuses : v = Parcel!StatusValue(s)
   BY <1>2, ValueKinds DEF Vals, Parcel!Token
 <2>2. Len(v.v) = 3 /\ v.v[1] = s.low /\ v.v[2] = s.ex /\ v.v[3] = s.err /\ v = Parcel!StatusValue(s)
   BY <2>1 DEF Parcel!StatusValue
 <2>3. Parcel!Seen(v) = v  BY <2>2 DEF Parcel!Seen
 <2>4. s = [ex |-> s.ex, err |-> s.err, low |-> s.low]  BY DEF Parcel!Statuses, Parcel!FromStatus
 <2> QED  BY <2>2, <2>3, <2>4
<1> QED  BY <1>1, <1>2

\* A set of numbers that is not empty has a least one.
LEMMA LeastNumber == ASSUME NEW T \in SUBSET Nat, T # {} PROVE \E x \in T : \A y \in T : x <= y
<1>1. PICK R : R = OpToRel(<, Nat)  OBVIOUS
<1>2. IsWellFoundedOn(R, Nat)  BY <1>1, NatLessThanWellFounded, Zenon
<1>3. PICK x \in T : \A y \in T : ~(<<y, x>> \in R)  BY <1>2, WFMin, Zenon
<1>4. \A y \in Nat : y < x => <<y, x>> \in R  BY <1>1 DEF OpToRel
<1>5. \A y \in T : ~(y < x)  BY <1>3, <1>4
<1>6. x \in Nat /\ T \subseteq Nat  OBVIOUS
<1>7. \A y \in T : x <= y  BY <1>5, <1>6
<1> QED  BY <1>7

\* The function through which the values without class headers are defined, up
\* to the n-th value.
IsKept(f, vals, n) ==
    f = [m \in 0 .. n |-> IF m = 0 THEN <<>>
                          ELSE IF vals[m].k = "token" THEN f[m - 1] ELSE Append(f[m - 1], vals[m])]
KeptUpTo(vals, n) == \E f : IsKept(f, vals, n) /\ \A m \in 0 .. n : f[m] \in Seq(Vals)

\* There is such a function, and its values are sequences.
LEMMA KeptExists ==
    ASSUME NEW vals \in Seq(Vals), NEW n \in Nat, n <= Len(vals)
    PROVE  KeptUpTo(vals, n)
<1> SUFFICES ASSUME ~KeptUpTo(vals, n) PROVE FALSE  OBVIOUS
<1>1. PICK T : T = {m \in Nat : m <= Len(vals) /\ ~KeptUpTo(vals, m)}  OBVIOUS
<1>2. T \in SUBSET Nat /\ T # {}  BY <1>1
<1>3. PICK x \in T : \A y \in T : x <= y  BY <1>2, LeastNumber
<1>4. x \in Nat /\ x <= Len(vals) /\ ~KeptUpTo(vals, x) /\ Len(vals) \in Nat  BY <1>1
<1>5. x # 0
 <2>1. PICK f : f = [m \in 0 .. 0 |-> <<>>]  OBVIOUS
 <2>2. \A m \in 0 .. 0 : m = 0 /\ f[m] \in Seq(Vals)  BY <2>1
 <2>3. f = [m \in 0 .. 0 |-> IF m = 0 THEN <<>>
               ELSE IF vals[m].k = "token" THEN f[m - 1] ELSE Append(f[m - 1], vals[m])]
   BY <2>1
 <2>4. KeptUpTo(vals, 0)  BY <2>2, <2>3 DEF KeptUpTo, IsKept
 <2> QED  BY <1>4, <2>4
<1>6. PICK m \in Nat : x = m + 1 /\ m <= Len(vals)
 <2>1. x - 1 \in Nat /\ x = (x - 1) + 1 /\ x - 1 <= Len(vals)  BY <1>4, <1>5
 <2> QED  BY <2>1
<1>7. KeptUpTo(vals, m)  BY <1>1, <1>3, <1>4, <1>6
<1>8. PICK f : IsKept(f, vals, m) /\ \A i \in 0 .. m : f[i] \in Seq(Vals)  BY <1>7 DEF KeptUpTo
<1>9. PICK h : h = [i \in 0 .. x |-> IF i = x THEN IF vals[x].k = "token" THEN f[m] ELSE Append(f[m], vals[x])
                                    ELSE f[i]]
  OBVIOUS
<1>10. \A i \in 0 .. m : i \in 0 .. x /\ i # x /\ h[i] = f[i]  BY <1>6, <1>9
<1>11. vals[x] \in Vals /\ f[m] \in Seq(Vals) /\ m \in 0 .. m  BY <1>4, <1>5, <1>6, <1>8
<1>12. h[x] = IF vals[x].k = "token" THEN h[x - 1] ELSE Append(h[x - 1], vals[x])
  BY <1>6, <1>9, <1>10, <1>11
<1>13. \A i \in 0 .. x : h[i] \in Seq(Vals)
 <2>1. \A i \in 0 .. x : i = x \/ i \in 0 .. m  BY <1>6
 <2>2. h[x] \in Seq(Vals)  BY <1>6, <1>10, <1>11, <1>12, AppendProperties
 <2> QED  BY <1>8, <1>10, <2>1, <2>2
<1>14. ASSUME NEW i \in 0 .. x
       PROVE  h[i] = IF i = 0 THEN <<>>
                     ELSE IF vals[i].k = "token" THEN h[i - 1] ELSE Append(h[i - 1], vals[i])
 <2>1. CASE i = x  BY <1>5, <1>12, <2>1
 <2>2. CASE i # x
  <3>1. i \in 0 .. m /\ (i # 0 => i - 1 \in 0 .. m)  BY <1>6, <2>2
  <3>2. h[i] = f[i] /\ (i # 0 => h[i - 1] = f[i - 1])  BY <1>10, <3>1
  <3>3. f[i] = IF i = 0 THEN <<>>
               ELSE IF vals[i].k = "token" THEN f[i - 1] ELSE Append(f[i - 1], vals[i])
    BY <1>8, <3>1 DEF IsKept
  <3> QED  BY <3>2, <3>3
 <2> QED  BY <2>1, <2>2
<1>15. IsKept(h, vals, x)
 <2>1. PICK g : g = [i \in 0 .. x |-> IF i = 0 THEN <<>>
                    ELSE IF vals[i].k = "token" THEN h[i - 1] ELSE Append(h[i - 1], vals[i])]
   OBVIOUS
 <2>2. \A i \in 0 .. x : h[i] = g[i]  BY <1>14, <2>1
 <2>3. h = g  BY <1>9, <2>1, <2>2
 <2> QED  BY <2>1, <2>3 DEF IsKept
<1> QED  BY <1>4, <1>13, <1>15 DEF KeptUpTo

\* There is one such function only.
LEMMA KeptUnique ==
    ASSUME NEW vals, NEW n \in Nat, NEW f, NEW g, IsKept(f, vals, n), IsKept(g, vals, n)
    PROVE  f = g
<1> SUFFICES ASSUME f # g PROVE FALSE  OBVIOUS
<1>1. PICK T : T = {m \in 0 .. n : f[m] # g[m]}  OBVIOUS
<1>2. T \in SUBSET Nat /\ T # {}
 <2>1. PICK h : h = [m \in 0 .. n |-> IF m = 0 THEN <<>>
                       ELSE IF vals[m].k = "token" THEN f[m - 1] ELSE Append(f[m - 1], vals[m])]
   OBVIOUS
 <2>2. PICK i : i = [m \in 0 .. n |-> IF m = 0 THEN <<>>
                       ELSE IF vals[m].k = "token" THEN g[m - 1] ELSE Append(g[m - 1], vals[m])]
   OBVIOUS
 <2>3. f = h /\ g = i  BY <2>1, <2>2 DEF IsKept
 <2>4. f = [m \in 0 .. n |-> f[m]] /\ g = [m \in 0 .. n |-> g[m]]  BY <2>1, <2>2, <2>3
 <2>5. PICK m \in 0 .. n : f[m] # g[m]  BY <2>4
 <2> QED  BY <1>1, <2>5
<1>3. PICK x \in T : \A y \in T : x <= y  BY <1>2, LeastNumber
<1>4. x \in 0 .. n /\ f[x] # g[x]  BY <1>1
<1>5. x # 0 => x - 1 \in 0 .. n /\ f[x - 1] = g[x - 1]  BY <1>1, <1>3, <1>4
<1>6. f[x] = (IF x = 0 THEN <<>>
              ELSE IF vals[x].k = "token" THEN f[x - 1] ELSE Append(f[x - 1], vals[x]))
  BY <1>4 DEF IsKept
<1>7. g[x] = (IF x = 0 THEN <<>>
              ELSE IF vals[x].k = "token" THEN g[x - 1] ELSE Append(g[x - 1], vals[x]))
  BY <1>4 DEF IsKept
<1> QED  BY <1>4, <1>5, <1>6, <1>7

\* Without its class headers a reply is a sequence of values.
LEMMA WithoutTokensTyped ==
    ASSUME NEW vals \in Seq(Vals)
    PROVE  Parcel!WithoutTokens(vals) \in Seq(Vals)
<1>1. Parcel!WithoutTokens(vals) = (CHOOSE f : IsKept(f, vals, Len(vals)))[Len(vals)]
  BY DEF Parcel!WithoutTokens, IsKept
<1>2. Len(vals) \in Nat  OBVIOUS
<1>3. PICK f : IsKept(f, vals, Len(vals)) /\ \A m \in 0 .. Len(vals) : f[m] \in Seq(Vals)
  BY <1>2, KeptExists DEF KeptUpTo
<1>4. PICK g : g = CHOOSE h : IsKept(h, vals, Len(vals))  OBVIOUS
<1>5. IsKept(g, vals, Len(vals))  BY <1>3, <1>4
<1>6. g = f  BY <1>2, <1>3, <1>5, KeptUnique
<1>7. Len(vals) \in 0 .. Len(vals)  BY <1>2
<1> QED  BY <1>1, <1>3, <1>4, <1>6, <1>7

----
\* A parcel with another value at its end.
LEMMA Appended ==
    ASSUME NEW p \in Parcels, NEW val \in Vals, NEW r, r = Parcel!Append1(p, val)
    PROVE  /\ r \in Parcels /\ r.there = p.there /\ r.cur = Len(r.vals)
           /\ r.vals = Append(p.vals, val) /\ Len(r.vals) = Len(p.vals) + 1
           /\ r.vals[Len(p.vals) + 1] = val
           /\ \A i \in 1 .. Len(p.vals) : r.vals[i] = p.vals[i]
<1>1. p.vals \in Seq(Vals) /\ p.there \in BOOLEAN /\ Len(p.vals) \in Nat  BY DEF Parcels
<1>2. PICK a : a = Append(p.vals, val)  OBVIOUS
<1>3. /\ a \in Seq(Vals) /\ Len(a) = Len(p.vals) + 1 /\ a[Len(p.vals) + 1] = val
      /\ \A i \in 1 .. Len(p.vals) : a[i] = p.vals[i]
  BY <1>1, <1>2, AppendProperties
<1>4. r = [there |-> p.there, vals |-> a, cur |-> Len(p.vals) + 1]
  BY <1>2 DEF Parcel!Append1, Parcels
<1> QED  BY <1>1, <1>2, <1>3, <1>4 DEF Parcels

\* A parcel with its cursor elsewhere.
LEMMA Moved ==
    ASSUME NEW p \in Parcels, NEW c \in Nat, NEW r, r = [p EXCEPT !.cur = c]
    PROVE  r \in Parcels /\ r.there = p.there /\ r.vals = p.vals /\ r.cur = c
BY DEF Parcels

\* A parcel that does not exist, and one without values.
LEMMA NoValues ==
    /\ Parcel!NoParcel \in Parcels /\ ~Parcel!NoParcel.there /\ Parcel!NoParcel.vals = <<>> /\ Parcel!NoParcel.cur = 0
    /\ Parcel!Empty \in Parcels /\ Parcel!Empty.there /\ Parcel!Empty.vals = <<>> /\ Parcel!Empty.cur = 0
    /\ <<>> \in Seq(Vals) /\ <<>> \in Seq(Plain) /\ Len(<<>>) = 0
<1>1. <<>> \in Seq(Vals) /\ <<>> \in Seq(Plain) /\ Len(<<>>) = 0  OBVIOUS
<1>2. PICK e \in Seq(Vals) : e = <<>>  BY <1>1
<1>3. /\ Parcel!NoParcel = [there |-> FALSE, vals |-> e, cur |-> 0]
      /\ Parcel!Empty = [there |-> TRUE, vals |-> e, cur |-> 0]
  BY <1>2 DEF Parcel!NoParcel, Parcel!Empty
<1> QED  BY <1>1, <1>2, <1>3 DEF Parcels

\* A parcel is prepared: empty, or with the class header.
LEMMA PrepareKeeps ==
    ASSUME TransactSizes, TransactInv, NEW t \in Parcel!Targets, Parcel!PrepareTransaction(t)
    PROVE  TransactInv'
<1>1. /\ phase = "client" /\ ~inPtr /\ calls < MaxCalls /\ target' = t /\ inPtr' = TRUE
      /\ put' = <<>> /\ served' = <<>>
      /\ inp' = (IF t.header THEN Parcel!Append1(Parcel!Empty, Parcel!Token) ELSE Parcel!Empty)
      /\ UNCHANGED <<phase, out, outPtr, answered, readBack, result, calls>>
  BY DEF Parcel!PrepareTransaction
<1>2. /\ inp' \in Parcels /\ inp'.there /\ inp'.cur <= Len(inp'.vals)
      /\ \/ Len(inp'.vals) = 0
         \/ Len(inp'.vals) = 1 /\ inp'.vals[1].k = "token"
 <2>1. CASE t.header
  <3>1. PICK head \in Vals : head = Parcel!Token  BY ValueKinds
  <3>2. PICK r : r = [there |-> TRUE, vals |-> <<head>>, cur |-> 1]  OBVIOUS
  <3>4. inp' = r
   <4>1. PICK q \in Seq(Vals) : q = <<>> /\ Len(q) = 0  BY NoValues
   <4>2. PICK e : e = Parcel!Empty  OBVIOUS
   <4>3. e = [there |-> TRUE, vals |-> q, cur |-> 0]  BY <4>1, <4>2 DEF Parcel!Empty
   <4>4. PICK w : w = Append(q, head)  OBVIOUS
   <4>5. w = <<head>>  BY <3>1, <4>1, <4>4
   <4>6. inp' = Parcel!Append1(e, head)  BY <1>1, <2>1, <3>1, <4>2
   <4>7. inp' = [there |-> TRUE, vals |-> w, cur |-> 1]
    <5>1. e.vals = q /\ e.there = TRUE /\ e.cur = 0 /\ e \in Parcels
      BY <4>1, <4>3 DEF Parcels
    <5>2. PICK a : a = Append(e.vals, head)  OBVIOUS
    <5>3. a = w /\ Len(e.vals) + 1 = 1  BY <4>1, <4>4, <5>1, <5>2
    <5>4. inp' = [there |-> e.there, vals |-> a, cur |-> Len(e.vals) + 1]
      BY <4>6, <5>1, <5>2 DEF Parcel!Append1, Parcels
    <5> QED  BY <5>1, <5>3, <5>4
   <4> QED  BY <3>2, <4>5, <4>7
  <3>5. r \in Parcels  BY <3>2 DEF Parcels
  <3>3. Parcel!Token.k = "token"  BY DEF Parcel!Token
  <3> QED  BY <3>1, <3>2, <3>3, <3>4, <3>5
 <2>2. CASE ~t.header  BY <1>1, <2>2, NoValues
 <2> QED  BY <2>1, <2>2
<1>3. TransactTypes'  BY <1>1, <1>2, NoValues DEF TransactInv, TransactTypes
<1>4. Owned'  BY <1>1, <1>2 DEF TransactInv, Owned
<1>5. InputIs'
 <2>1. Len(put') = 0  BY <1>1
 <2> QED  BY <1>1, <1>2, <2>1 DEF InputIs, Header
<1>6. Served' /\ Reply'  BY <1>1 DEF TransactInv, Served, Reply
<1> QED  BY <1>3, <1>4, <1>5, <1>6 DEF TransactInv

\* The client writes a value, or an array with as many elements as its callback
\* wrote: what it wrote stays what the parcel has.
LEMMA WritesKeep ==
    ASSUME TransactSizes, TransactInv, NEW vs \in Seq(Plain), NEW b, NEW r, phase = "client", inPtr,
           b = inp.vals \o vs, inp' = r, r \in Parcels, r.there = inp.there, r.vals = b,
           r.cur <= Len(b), put' = put \o vs,
           UNCHANGED <<phase, target, out, inPtr, outPtr, served, answered, readBack, result, calls>>
    PROVE  TransactInv'
<1>1. /\ inp.vals \in Seq(Vals) /\ put \in Seq(Plain) /\ Len(inp.vals) \in Nat
      /\ Len(put) \in Nat /\ Len(vs) \in Nat /\ vs \in Seq(Vals)
 <2>1. Plain \subseteq Vals  BY ValueKinds
 <2> QED  BY <2>1 DEF TransactInv, TransactTypes, Parcels
<1>2. PICK s : s = put \o vs  OBVIOUS
<1>3. /\ s \in Seq(Plain) /\ Len(s) = Len(put) + Len(vs)
      /\ \A i \in 1 .. Len(s) : s[i] = IF i <= Len(put) THEN put[i] ELSE vs[i - Len(put)]
  BY <1>1, <1>2, ConcatProperties
<1>4. /\ Len(b) = Len(inp.vals) + Len(vs)
      /\ \A i \in 1 .. Len(b) : b[i] = IF i <= Len(inp.vals) THEN inp.vals[i]
                                       ELSE vs[i - Len(inp.vals)]
  BY <1>1, ConcatProperties
<1>5. TransactTypes'  BY <1>2, <1>3 DEF TransactInv, TransactTypes
<1>6. Owned' /\ Served' /\ Reply'  BY DEF TransactInv, Owned, Served, Reply
<1>7. InputIs'
 <2>1. PICK h : h = Len(inp.vals) - Len(put)  OBVIOUS
 <2>2. /\ h \in 0 .. 1 /\ (h = 1 => inp.vals[1].k = "token")
       /\ \A i \in 1 .. Len(put) : inp.vals[h + i] = put[i]
   BY <2>1 DEF TransactInv, InputIs, Header
 <2>3. Len(b) - Len(s) = h /\ Len(inp.vals) = Len(put) + h  BY <1>1, <1>3, <1>4, <2>1, <2>2
 <2>4. ASSUME NEW i \in 1 .. Len(s) PROVE b[h + i] = s[i]
  <3>4. PICK k : k = h + i  OBVIOUS
  <3>5. /\ k \in 1 .. Len(b) /\ i \in Nat /\ Len(s) \in Nat
        /\ k <= Len(inp.vals) <=> i <= Len(put)
        /\ k - Len(inp.vals) = i - Len(put)
    BY <1>1, <1>3, <1>4, <2>2, <2>3, <3>4
  <3>1. CASE i <= Len(put)
   <4>1. b[k] = inp.vals[k] /\ s[i] = put[i] /\ i \in 1 .. Len(put)
     BY <1>1, <1>3, <1>4, <3>1, <3>5
   <4> QED  BY <2>2, <3>4, <4>1
  <3>2. CASE ~(i <= Len(put))
   <4>1. b[k] = vs[k - Len(inp.vals)] /\ s[i] = vs[i - Len(put)]  BY <1>3, <1>4, <3>2, <3>5
   <4> QED  BY <3>4, <3>5, <4>1
  <3> QED  BY <3>1, <3>2
 <2>5. h = 1 => b[1].k = "token"  BY <1>1, <1>4, <2>2, <2>3
 <2> QED  BY <1>2, <2>2, <2>3, <2>4, <2>5 DEF InputIs, Header
<1> QED  BY <1>5, <1>6, <1>7 DEF TransactInv

\* One value, of the scalar kinds.
LEMMA ClientWritesKeeps ==
    ASSUME TransactSizes, TransactInv, NEW x \in Parcel!Inputs, Parcel!ClientWrites(x)
    PROVE  TransactInv'
<1>1. /\ phase = "client" /\ inPtr /\ inp' = Parcel!Append1(inp, x) /\ put' = Append(put, x)
      /\ UNCHANGED <<phase, target, out, inPtr, outPtr, served, answered, readBack, result, calls>>
  BY DEF Parcel!ClientWrites
<1>2. x \in Plain /\ x \in Vals /\ inp \in Parcels /\ put \in Seq(Plain)
  BY ValueKinds DEF TransactInv, TransactTypes
<1>3. PICK r : r = Parcel!Append1(inp, x)  OBVIOUS
<1>4. r \in Parcels /\ r.there = inp.there /\ r.cur = Len(r.vals) /\ r.vals = Append(inp.vals, x)
  BY <1>2, <1>3, Appended
<1>5. <<x>> \in Seq(Plain) /\ inp.vals \in Seq(Vals)  BY <1>2 DEF Parcels
<1>6. Append(inp.vals, x) = inp.vals \o <<x>> /\ Append(put, x) = put \o <<x>>
  BY <1>2, <1>5, AppendIsConcat
<1>9. PICK vs : vs = <<x>>  OBVIOUS
<1>7. PICK b : b = inp.vals \o vs  OBVIOUS
<1>8. vs \in Seq(Plain) /\ r.vals = b /\ r.cur <= Len(b) /\ put' = put \o vs /\ inp' = r
 <2>1. Len(r.vals) \in Nat  BY <1>4 DEF Parcels
 <2> QED  BY <1>1, <1>3, <1>4, <1>5, <1>6, <1>7, <1>9, <2>1
<1> QED  BY <1>1, <1>4, <1>7, <1>8, WritesKeep

\* The mark of an array and the elements that were written.
LEMMA ClientWritesArrayKeeps ==
    ASSUME TransactSizes, TransactInv, NEW n \in Int, NEW done \in Nat, Parcel!ClientWritesArray(n, done)
    PROVE  TransactInv'
<1>1. PICK vs : vs = <<[k |-> "arr", v |-> <<n>>]>> \o [i \in 1 .. done |-> Parcel!Int32(1)]
  OBVIOUS
<1>2. PICK b : b = inp.vals \o vs  OBVIOUS
<1>3. /\ phase = "client" /\ inPtr /\ inp' = [inp EXCEPT !.vals = b, !.cur = Len(b)]
      /\ put' = put \o vs
      /\ UNCHANGED <<phase, target, out, inPtr, outPtr, served, answered, readBack, result, calls>>
  BY <1>1, <1>2 DEF Parcel!ClientWritesArray
<1>4. vs \in Seq(Plain)
 <2>1. PICK e : e = [k |-> "arr", v |-> <<n>>]  OBVIOUS
 <2>2. e \in Plain /\ Parcel!Int32(1) \in Plain
  <3>1. 1 \in Int  OBVIOUS
  <3>2. Parcel!Int32(1) \in Plain  BY <3>1, ValueKinds, Zenon
  <3> QED  BY <2>1, <3>2, ValueKinds
 <2>3. PICK f : f = [i \in 1 .. done |-> Parcel!Int32(1)]  OBVIOUS
 <2>4. f \in Seq(Plain) /\ <<e>> \in Seq(Plain)  BY <2>2, <2>3
 <2> QED  BY <1>1, <2>1, <2>3, <2>4, ConcatProperties
<1>5. inp.vals \in Seq(Vals) /\ inp \in Parcels /\ vs \in Seq(Vals)
  BY <1>4, ValueKinds DEF TransactInv, TransactTypes, Parcels
<1>6. b \in Seq(Vals) /\ Len(b) \in Nat  BY <1>2, <1>5, ConcatProperties
<1>7. PICK r : r = [inp EXCEPT !.vals = b, !.cur = Len(b)]  OBVIOUS
<1>8. r = [there |-> inp.there, vals |-> b, cur |-> Len(b)] /\ inp.there \in BOOLEAN
  BY <1>5, <1>7 DEF Parcels
<1>9. r \in Parcels /\ r.there = inp.there /\ r.vals = b /\ r.cur <= Len(b)
  BY <1>6, <1>8 DEF Parcels
<1> QED  BY <1>2, <1>3, <1>4, <1>7, <1>9, WritesKeep

\* The class changes, or the binder dies.
LEMMA TargetChanges ==
    ASSUME TransactSizes, TransactInv, Parcel!ClassChanges \/ Parcel!TargetDies
    PROVE  TransactInv'
<1>1. /\ phase = "client" /\ inPtr /\ target' \in Parcel!Targets
      /\ target'.kind \in {target.kind, "dead"}
      /\ UNCHANGED <<phase, inp, out, inPtr, outPtr, put, served, answered, readBack, result, calls>>
 <2>1. target \in Parcel!Targets  BY DEF TransactInv, TransactTypes
 <2> QED  BY <2>1 DEF Parcel!ClassChanges, Parcel!TargetDies, Parcel!Targets
<1>2. TransactTypes' /\ Owned'  BY <1>1 DEF TransactInv, TransactTypes, Owned
<1>3. InputIs' /\ Served' /\ Reply'  BY <1>1 DEF TransactInv, InputIs, Header, Served, Reply
<1> QED  BY <1>2, <1>3 DEF TransactInv

\* A transaction that takes its input: without an answer, or with one to read
\* from its start.
LEMMA TransactionEnds ==
    ASSUME TransactSizes, TransactInv, phase = "client", inPtr, calls < MaxCalls,
         Parcel!Consumed, target' \in Parcel!Targets,
           UNCHANGED <<put, served>>, NEW vs \in Seq(Vals), NEW s,
           \/ Parcel!NoAnswer /\ Parcel!Returns(s, FALSE)
           \/ Parcel!Answers(vs) /\ Parcel!Returns(s, TRUE)
    PROVE  TransactInv'
<1>1. inp' = Parcel!NoParcel /\ ~inPtr' /\ inPtr' \in BOOLEAN /\ calls' = calls + 1 /\ calls' \in 0 .. MaxCalls
 <2>1. calls' = calls + 1 /\ calls \in 0 .. MaxCalls
   BY DEF Parcel!Returns, TransactInv, TransactTypes
 <2>2. calls' \in 0 .. MaxCalls  BY <2>1 DEF TransactSizes
 <2> QED  BY <2>1, <2>2 DEF Parcel!Consumed
<1>2. /\ Parcel!NoParcel \in Parcels /\ ~Parcel!NoParcel.there /\ Parcel!NoParcel.vals = <<>> /\ Parcel!NoParcel.cur = 0
      /\ <<>> \in Seq(Vals) /\ Len(<<>>) = 0
  BY NoValues
<1>3. /\ phase' \in {"client", "reply"} /\ out' \in Parcels /\ out'.cur = 0 /\ readBack' = <<>>
      /\ out'.vals = answered' /\ answered' \in Seq(Vals) /\ outPtr' \in BOOLEAN
      /\ (out'.there <=> outPtr') /\ (phase' = "reply" => outPtr')
 <2>1. CASE Parcel!NoAnswer /\ Parcel!Returns(s, FALSE)
   BY <1>2, <2>1 DEF Parcel!NoAnswer, Parcel!Returns
 <2>2. CASE Parcel!Answers(vs) /\ Parcel!Returns(s, TRUE)
  <3>1. PICK r : r = [there |-> TRUE, vals |-> vs, cur |-> 0]  OBVIOUS
  <3>2. r \in Parcels /\ r.there /\ r.vals = vs /\ r.cur = 0  BY <3>1 DEF Parcels
  <3>3. out' = r /\ outPtr' = TRUE /\ answered' = vs /\ readBack' = <<>> /\ phase' = "reply"
    BY <2>2, <3>1 DEF Parcel!Answers, Parcel!Returns
  <3> QED  BY <3>2, <3>3
 <2> QED  BY <2>1, <2>2
<1>4. TransactTypes'
 <2>1. Len(out'.vals) \in Nat  BY <1>3
 <2> QED  BY <1>1, <1>2, <1>3, <2>1 DEF TransactInv, TransactTypes
<1>5. Owned' /\ InputIs' /\ Served'  BY <1>1, <1>2, <1>3 DEF Owned, InputIs, Served
<1>6. Reply'  BY <1>2, <1>3 DEF Reply
<1> QED  BY <1>4, <1>5, <1>6 DEF TransactInv

\* A dead binder takes the parcel; one without onTransact leaves it.
LEMMA TransactRefusedKeeps ==
    ASSUME TransactSizes, TransactInv, Parcel!TransactRefused
    PROVE  TransactInv'
<1>1. /\ phase = "client" /\ inPtr /\ target.kind \in {"dead", "broken"} /\ calls < MaxCalls
      /\ Parcel!NoAnswer /\ UNCHANGED <<target, put, served>> /\ target \in Parcel!Targets
  BY DEF Parcel!TransactRefused, TransactInv, TransactTypes
<1>2. CASE target.kind = "dead"
 <2>1. Parcel!Consumed /\ Parcel!Returns("DEAD_OBJECT", FALSE)
   BY <1>2 DEF Parcel!TransactRefused
 <2> QED  BY <1>1, <2>1, NoValues, TransactionEnds
<1>3. CASE target.kind # "dead"
 <2>1. UNCHANGED <<inp, inPtr>> /\ calls' = calls + 1 /\ phase' = "client"
   BY <1>3 DEF Parcel!TransactRefused, Parcel!Returns
 <2>2. /\ out' = Parcel!NoParcel /\ outPtr' = FALSE /\ answered' = <<>> /\ readBack' = <<>>
       /\ Parcel!NoParcel \in Parcels /\ ~Parcel!NoParcel.there /\ Parcel!NoParcel.vals = <<>> /\ Parcel!NoParcel.cur = 0
       /\ <<>> \in Seq(Vals) /\ Len(<<>>) = 0
   BY <1>1, NoValues DEF Parcel!NoAnswer
 <2>3. calls' \in 0 .. MaxCalls  BY <1>1, <2>1 DEF TransactInv, TransactTypes, TransactSizes
 <2>4. TransactTypes'
  <3>1. out' \in Parcels /\ out'.cur <= Len(out'.vals) /\ answered' \in Seq(Vals) /\ readBack' \in Seq(Vals)
    BY <2>2
  <3> QED  BY <1>1, <2>1, <2>2, <2>3, <3>1 DEF TransactInv, TransactTypes
 <2>5. Owned' /\ Reply'  BY <1>1, <1>3, <2>1, <2>2 DEF TransactInv, Owned, Reply
 <2>6. InputIs' /\ Served'  BY <1>1, <2>1 DEF TransactInv, InputIs, Header, Served
 <2> QED  BY <2>4, <2>5, <2>6 DEF TransactInv
<1> QED  BY <1>2, <1>3

\* A local binder: the header is there when one is expected, and the cursor is
\* behind it.
LEMMA TransactLocalKeeps ==
    ASSUME TransactSizes, TransactInv, NEW oneway \in BOOLEAN, Parcel!TransactLocal(oneway)
    PROVE  TransactInv'
<1>1. /\ phase = "client" /\ inPtr /\ target.kind = "local" /\ target \in Parcel!Targets /\ calls < MaxCalls
      /\ inp \in Parcels /\ put \in Seq(Plain) /\ inp.vals \in Seq(Vals)
  BY DEF Parcel!TransactLocal, TransactInv, TransactTypes, Owned, Parcels
<1>2. CASE ~Parcel!HeaderOk
 <2>1. Parcel!Consumed /\ Parcel!NoAnswer /\ Parcel!Returns("BAD_TYPE", FALSE) /\ UNCHANGED <<target, put, served>>
   BY <1>2 DEF Parcel!TransactLocal
 <2> QED  BY <1>1, <2>1, NoValues, TransactionEnds
<1>3. CASE Parcel!HeaderOk
 <2>1. /\ inp' = [inp EXCEPT !.cur = IF target.header THEN 1 ELSE 0]
       /\ out' = (IF oneway THEN Parcel!NoParcel ELSE Parcel!Empty) /\ outPtr' = ~oneway /\ phase' = "handler"
       /\ answered' = <<>> /\ readBack' = <<>> /\ served' = <<>>
       /\ UNCHANGED <<target, inPtr, put, result, calls>>
   BY <1>3 DEF Parcel!TransactLocal
 <2>2. PICK c \in Nat : c = IF target.header THEN 1 ELSE 0  OBVIOUS
 <2>3. inp' \in Parcels /\ inp'.there = inp.there /\ inp'.vals = inp.vals /\ inp'.cur = c
  <3>1. PICK r : r = [inp EXCEPT !.cur = c]  OBVIOUS
  <3>2. inp' = r  BY <2>1, <2>2, <3>1
  <3> QED  BY <1>1, <3>1, <3>2, Moved
 <2>4. /\ Header \in 0 .. 1 /\ (Header = 1 => inp.vals[1].k = "token")
       /\ \A i \in 1 .. Len(put) : inp.vals[Header + i] = put[i]
   BY <1>1 DEF TransactInv, InputIs
 <2>5. target.header => Len(inp.vals) > 0 /\ inp.vals[1].k = "token"
  <3>1. ASSUME target.header PROVE Parcel!Readable([inp EXCEPT !.cur = 0], "token")
    BY <1>3, <3>1 DEF Parcel!HeaderOk
  <3>2. PICK r : r = [inp EXCEPT !.cur = 0]  OBVIOUS
  <3>3. r.vals = inp.vals /\ r.cur = 0  BY <1>1, <3>2, Moved
  <3> QED  BY <3>1, <3>2, <3>3 DEF Parcel!Readable
 <2>6. /\ c <= Len(inp.vals) /\ Len(inp.vals) \in Nat /\ Len(put) \in Nat
       /\ c >= Header => c = Header
  <3>1. Len(inp.vals) \in Nat /\ Len(put) \in Nat  BY <1>1
  <3>2. CASE target.header
   <4>1. Header # 0
    <5>1. ASSUME Header = 0 PROVE FALSE
     <6>1. 1 \in 1 .. Len(put) /\ Header + 1 = 1  BY <2>5, <3>1, <3>2, <5>1 DEF Header
     <6>2. inp.vals[1] = put[1] /\ put[1] \in Plain  BY <1>1, <2>4, <6>1
     <6> QED  BY <2>5, <3>2, <6>2, ValueKinds
    <5> QED  BY <5>1
   <4> QED  BY <2>2, <2>4, <2>5, <3>1, <3>2, <4>1
  <3>3. CASE ~target.header  BY <2>2, <2>4, <3>1, <3>3
  <3> QED  BY <3>1, <3>2, <3>3
 <2>7. /\ out' \in Parcels /\ out'.vals = <<>> /\ out'.cur = 0 /\ (out'.there <=> outPtr')
       /\ outPtr' \in BOOLEAN /\ <<>> \in Seq(Vals) /\ Len(<<>>) = 0
   BY <2>1, NoValues
 <2>8. TransactTypes'  BY <2>1, <2>3, <2>6, <2>7 DEF TransactInv, TransactTypes
 <2>9. Owned' /\ Reply'  BY <1>1, <2>1, <2>3, <2>7 DEF TransactInv, Owned, Reply
 <2>10. Header' = Header  BY <2>1, <2>3 DEF Header
 <2>11. InputIs'  BY <2>1, <2>3, <2>4, <2>10 DEF InputIs
 <2>12. Served'
  <3>1. Len(served') = 0 /\ served' = <<>>  BY <2>1
  <3> QED  BY <2>1, <2>3, <2>4, <2>6, <2>10, <3>1 DEF Served
 <2> QED  BY <2>8, <2>9, <2>11, <2>12 DEF TransactInv
<1> QED  BY <1>2, <1>3

\* A binder of muplard.
LEMMA TransactDaemonKeeps ==
    ASSUME TransactSizes, TransactInv, NEW reply \in Parcel!Replies, Parcel!TransactDaemon(reply)
    PROVE  TransactInv'
<1>1. /\ phase = "client" /\ inPtr /\ target.kind = "daemon" /\ target \in Parcel!Targets /\ calls < MaxCalls
      /\ Parcel!Consumed /\ UNCHANGED <<put, served>>
  BY DEF Parcel!TransactDaemon, TransactInv, TransactTypes, Owned
<1>2. CASE reply.how = "lost"
 <2>1. target' = [target EXCEPT !.kind = "dead"] /\ Parcel!NoAnswer /\ Parcel!Returns("DEAD_OBJECT", FALSE)
   BY <1>2 DEF Parcel!TransactDaemon
 <2>2. target' \in Parcel!Targets  BY <1>1, <2>1 DEF Parcel!Targets
 <2> QED  BY <1>1, <2>1, <2>2, NoValues, TransactionEnds
<1>3. CASE reply.how \in {"malformed", "oneway"}
 <2>1. PICK s : s = IF reply.how = "malformed" THEN "BAD_VALUE" ELSE "OK"  OBVIOUS
 <2>2. Parcel!NoAnswer /\ Parcel!Returns(s, FALSE) /\ UNCHANGED target
   BY <1>3, <2>1 DEF Parcel!TransactDaemon
 <2> QED  BY <1>1, <2>2, NoValues, TransactionEnds
<1>4. CASE reply.how = "reply"
 <2>1. PICK w : w = Parcel!WithoutTokens(reply.vals)  OBVIOUS
 <2>2. PICK vs : vs = <<Parcel!BareStatus>> \o w  OBVIOUS
 <2>3. Parcel!Answers(vs) /\ Parcel!Returns("OK", TRUE) /\ UNCHANGED target
   BY <1>4, <2>1, <2>2 DEF Parcel!TransactDaemon
 <2>4. reply.vals \in Seq(Vals)
  <3>1. PICK one : one = Parcel!Int32(1)  OBVIOUS
  <3>2. Parcel!Token \in Vals /\ Parcel!BareStatus \in Vals /\ one \in Vals
   <4>1. 1 \in Int  OBVIOUS
   <4> QED  BY <3>1, <4>1, ValueKinds, Zenon
  <3>3. PICK t : t = Parcel!Token  OBVIOUS
  <3>4. <<t, one>> \in Seq(Vals) /\ reply.vals = <<t, one>>
   <4>1. reply.vals = <<t, one>>  BY <1>4, <3>1, <3>3 DEF Parcel!Replies
   <4> QED  BY <3>2, <3>3, <4>1
  <3> QED  BY <3>4
 <2>5. w \in Seq(Vals) /\ <<Parcel!BareStatus>> \in Seq(Vals)
   BY <2>1, <2>4, WithoutTokensTyped, ValueKinds
 <2>6. vs \in Seq(Vals)  BY <2>2, <2>5, ConcatProperties
 <2> QED  BY <1>1, <2>3, <2>6, TransactionEnds
<1> QED  BY <1>2, <1>3, <1>4 DEF Parcel!Replies

\* The binder without owner: the first number of the input, and one.
LEMMA TransactEchoKeeps ==
    ASSUME TransactSizes, TransactInv, NEW oneway \in BOOLEAN, Parcel!TransactEcho(oneway)
    PROVE  TransactInv'
<1>1. /\ phase = "client" /\ inPtr /\ target.kind = "echo" /\ target \in Parcel!Targets /\ calls < MaxCalls
      /\ Parcel!Consumed /\ UNCHANGED <<target, put, served>> /\ inp.vals \in Seq(Vals)
  BY DEF Parcel!TransactEcho, TransactInv, TransactTypes, Owned, Parcels
<1>2. PICK ints : ints = {i \in DOMAIN inp.vals : inp.vals[i].k = "i32"}  OBVIOUS
<1>3. PICK first : first = CHOOSE i \in ints : \A j \in ints : i <= j  OBVIOUS
<1>4. PICK reply : reply = IF ints = {} THEN 1 ELSE inp.vals[first].v[1] + 1  OBVIOUS
<1>5. PICK vs : vs = <<Parcel!BareStatus, Parcel!Int32(reply)>>  OBVIOUS
<1>6. (IF oneway THEN Parcel!NoAnswer ELSE Parcel!Answers(vs)) /\ Parcel!Returns("OK", ~oneway)
  BY <1>2, <1>3, <1>4, <1>5 DEF Parcel!TransactEcho
<1>7. reply \in Int
 <2>1. CASE ints = {}  BY <1>4, <2>1
 <2>2. CASE ints # {}
  <3>1. DOMAIN inp.vals \subseteq Nat  BY <1>1
  <3>2. ints \in SUBSET Nat  BY <1>2, <3>1
  <3>3. first \in ints  BY <1>3, <2>2, <3>2, LeastNumber
  <3>4. PICK v : v = inp.vals[first]  OBVIOUS
  <3>5. v \in Vals /\ v.k = "i32"  BY <1>1, <1>2, <3>3, <3>4
  <3>6. v \in [k : {"i32", "arr"}, v : Numbers]
    BY <3>5 DEF Vals, Plain, Parcel!Token, Parcel!BareStatus, Parcel!StatusValue
  <3>7. PICK n \in Int : v.v = <<n>>  BY <3>6 DEF Numbers
  <3> QED  BY <1>4, <2>2, <3>4, <3>7
 <2> QED  BY <2>1, <2>2
<1>8. vs \in Seq(Vals)
 <2>1. PICK a : a = Parcel!Int32(reply)  OBVIOUS
 <2>2. PICK b : b = Parcel!BareStatus  OBVIOUS
 <2>3. a \in Vals /\ b \in Vals  BY <1>7, <2>1, <2>2, ValueKinds
 <2> QED  BY <1>5, <2>1, <2>2, <2>3
<1>9. CASE oneway  BY <1>1, <1>6, <1>8, <1>9, TransactionEnds
<1>10. CASE ~oneway  BY <1>1, <1>6, <1>8, <1>10, TransactionEnds
<1> QED  BY <1>9, <1>10

\* onTransact reads on: the next value is the next one the client wrote.
LEMMA HandlerReadsKeeps ==
    ASSUME TransactSizes, TransactInv, Parcel!HandlerReads
    PROVE  TransactInv'
<1>1. /\ phase = "handler" /\ inPtr /\ inp \in Parcels /\ inp.vals \in Seq(Vals)
      /\ inp.cur \in Nat /\ put \in Seq(Plain) /\ served \in Seq(Vals)
      /\ UNCHANGED <<phase, target, out, inPtr, outPtr, put, answered, readBack, result, calls>>
  BY DEF Parcel!HandlerReads, TransactInv, TransactTypes, Owned, Parcels
<1>2. PICK c \in Nat : c = inp.cur  BY <1>1
<1>3. PICK x : x = inp.vals[c + 1]  OBVIOUS
<1>4. c < Len(inp.vals) /\ x.k \in {"i32", "str", "arr"} /\ inp.there
  BY <1>2, <1>3 DEF Parcel!HandlerReads, Parcel!Readable
<1>5. inp' = [inp EXCEPT !.cur = c + 1] /\ served' = Append(served, x)
 <2>1. inp' = Parcel!Advance(inp) /\ served' = Append(served, Parcel!Under(inp))
   BY DEF Parcel!HandlerReads
 <2> QED  BY <1>1, <1>2, <1>3, <2>1 DEF Parcel!Advance, Parcel!Under, Parcels
<1>6. inp' \in Parcels /\ inp'.there = inp.there /\ inp'.vals = inp.vals /\ inp'.cur = c + 1
 <2>1. PICK d \in Nat : d = c + 1  OBVIOUS
 <2>2. PICK r : r = [inp EXCEPT !.cur = d]  OBVIOUS
 <2>3. r \in Parcels /\ r.there = inp.there /\ r.vals = inp.vals /\ r.cur = d
   BY <1>1, <2>2, Moved
 <2> QED  BY <1>5, <2>1, <2>2, <2>3
<1>7. /\ Header \in 0 .. 1 /\ (Header = 1 => inp.vals[1].k = "token")
      /\ \A i \in 1 .. Len(put) : inp.vals[Header + i] = put[i]
  BY <1>1 DEF TransactInv, InputIs
<1>8. Len(inp.vals) \in Nat /\ Len(put) \in Nat /\ Len(served) \in Nat /\ c + 1 \in 1 .. Len(inp.vals)
  BY <1>1, <1>4
<1>9. c >= Header  BY <1>2, <1>3, <1>4, <1>7
<1>10. /\ Len(served) = c - Header /\ \A i \in 1 .. Len(served) : served[i] = put[i]
  BY <1>1, <1>2, <1>9 DEF TransactInv, Served
<1>20. Header' = Header /\ Header = Len(inp.vals) - Len(put)  BY <1>1, <1>6 DEF Header
<1>11. /\ Len(served) + 1 \in 1 .. Len(put) /\ Header + (Len(served) + 1) = c + 1
       /\ Header' = Header
 <2>1. PICK h \in 0 .. 1 : h = Header  BY <1>7
 <2>2. PICK n \in Nat : n = Len(put)  BY <1>8
 <2>3. PICK m \in Nat : m = Len(served)  BY <1>8
 <2>4. PICK l \in Nat : l = Len(inp.vals)  BY <1>8
 <2>5. h = l - n /\ c < l /\ c >= h /\ m = c - h
   BY <1>4, <1>9, <1>10, <1>20, <2>1, <2>2, <2>3, <2>4
 <2>6. m + 1 \in 1 .. n /\ h + (m + 1) = c + 1  BY <2>5
 <2> QED  BY <1>20, <2>1, <2>2, <2>3, <2>6
<1>12. x = put[Len(served) + 1] /\ x \in Vals  BY <1>1, <1>3, <1>7, <1>8, <1>11
<1>13. PICK a : a = Append(served, x)  OBVIOUS
<1>14. /\ a \in Seq(Vals) /\ Len(a) = Len(served) + 1 /\ a[Len(served) + 1] = x
       /\ \A i \in 1 .. Len(served) : a[i] = served[i]
  BY <1>1, <1>12, <1>13, AppendProperties
<1>15. \A i \in 1 .. Len(a) : a[i] = put[i]  BY <1>8, <1>10, <1>12, <1>14
<1>16. TransactTypes'  BY <1>1, <1>5, <1>6, <1>8, <1>13, <1>14 DEF TransactInv, TransactTypes
<1>17. Owned' /\ Reply'  BY <1>1, <1>6 DEF TransactInv, Owned, Reply
<1>18. InputIs'  BY <1>1, <1>6, <1>7, <1>11 DEF InputIs
<1>19. Served'
  BY <1>1, <1>5, <1>6, <1>7, <1>8, <1>9, <1>10, <1>11, <1>13, <1>14, <1>15 DEF Served
<1> QED  BY <1>16, <1>17, <1>18, <1>19 DEF TransactInv

\* onTransact goes back to the first value, or to the second.
LEMMA HandlerSeeksKeeps ==
    ASSUME TransactSizes, TransactInv, NEW place \in 0 .. 1, Parcel!HandlerSeeks(place)
    PROVE  TransactInv'
<1>1. /\ phase = "handler" /\ inPtr /\ inp \in Parcels /\ inp.vals \in Seq(Vals)
      /\ put \in Seq(Plain) /\ place \in Nat /\ place <= Len(inp.vals)
      /\ inp' = [inp EXCEPT !.cur = place]
      /\ UNCHANGED <<phase, target, out, inPtr, outPtr, put, answered, readBack, result, calls>>
  BY DEF Parcel!HandlerSeeks, TransactInv, TransactTypes, Owned, Parcels
<1>2. inp' \in Parcels /\ inp'.there = inp.there /\ inp'.vals = inp.vals /\ inp'.cur = place
  BY <1>1, Moved
<1>3. /\ Header \in 0 .. 1 /\ (Header = 1 => inp.vals[1].k = "token") /\ Header' = Header
      /\ \A i \in 1 .. Len(put) : inp.vals[Header + i] = put[i]
  BY <1>1, <1>2 DEF TransactInv, InputIs, Header
<1>4. PICK h \in 0 .. 1 : h = Header /\ Len(inp.vals) - Len(put) = h  BY <1>3 DEF Header
<1>5. PICK s : s = SubSeq(inp.vals, 1 + h, place)  OBVIOUS
<1>6. served' = s
 <2>1. served' = SubSeq(inp.vals, 1 + Len(inp.vals) - Len(put), place)
   BY DEF Parcel!HandlerSeeks
 <2>2. 1 + Len(inp.vals) - Len(put) = 1 + h  BY <1>1, <1>4
 <2> QED  BY <1>5, <2>1, <2>2
<1>7. /\ s \in Seq(Vals)
      /\ place <= h => s = <<>> /\ Len(s) = 0
      /\ place > h => place = 1 /\ h = 0 /\ Len(s) = 1 /\ s[1] = inp.vals[1]
 <2>1. CASE place <= h  BY <1>1, <1>5, <2>1, SubSeqEmpty
 <2>2. CASE place > h
  <3>1. place = 1 /\ h = 0  BY <1>4, <2>2
  <3>2. /\ s \in Seq(Vals) /\ Len(s) = 1 /\ s[1] = inp.vals[1]  BY <1>1, <1>5, <3>1
  <3> QED  BY <3>1, <3>2
 <2> QED  BY <1>4, <2>1, <2>2
<1>8. TransactTypes'  BY <1>1, <1>2, <1>6, <1>7 DEF TransactInv, TransactTypes
<1>9. Owned' /\ Reply'  BY <1>1, <1>2 DEF TransactInv, Owned, Reply
<1>10. InputIs'  BY <1>1, <1>2, <1>3 DEF InputIs
<1>11. Served'
 <2>1. Len(inp.vals) \in Nat /\ Len(put) \in Nat /\ Len(put) = Len(inp.vals) - h  BY <1>1, <1>4
 <2>2. CASE place <= h  BY <1>1, <1>2, <1>3, <1>4, <1>6, <1>7, <2>1, <2>2 DEF Served
 <2>3. CASE place > h
  <3>1. Len(put) >= 1 /\ s[1] = put[1]  BY <1>1, <1>3, <1>4, <1>7, <2>1, <2>3
  <3>2. \A i \in 1 .. 1 : s[i] = put[i]  BY <3>1
  <3>3. /\ served' = s /\ Len(s) = 1 /\ Header' = 0 /\ inp'.cur = 1 /\ put' = put
        /\ Len(s) <= Len(put)
    BY <1>1, <1>2, <1>3, <1>4, <1>6, <1>7, <2>3, <3>1
  <3>4. \A i \in 1 .. Len(s) : s[i] = put[i]  BY <3>2, <3>3
  <3> QED  BY <3>3, <3>4 DEF Served
 <2> QED  BY <1>4, <2>2, <2>3
<1> QED  BY <1>8, <1>9, <1>10, <1>11 DEF TransactInv

\* onTransact writes to the reply.
LEMMA HandlerWritesKeeps ==
    ASSUME TransactSizes, TransactInv, NEW val \in Vals, Parcel!HandlerWrites(val)
    PROVE  TransactInv'
<1>1. /\ phase = "handler" /\ out.there /\ out \in Parcels /\ answered \in Seq(Vals)
      /\ out.vals = answered
      /\ UNCHANGED <<phase, target, inp, inPtr, outPtr, put, served, readBack, result, calls>>
  BY DEF Parcel!HandlerWrites, TransactInv, TransactTypes, Reply
<1>2. PICK r : r = Parcel!Append1(out, val)  OBVIOUS
<1>3. PICK a : a = Append(answered, val)  OBVIOUS
<1>4. out' = r /\ answered' = a  BY <1>2, <1>3 DEF Parcel!HandlerWrites
<1>5. r \in Parcels /\ r.there /\ r.cur = Len(r.vals) /\ r.vals = a
 <2>1. r \in Parcels /\ r.there = out.there /\ r.cur = Len(r.vals) /\ r.vals = Append(out.vals, val)
  <3>1. out \in Parcels  BY <1>1
  <3> QED  BY <1>2, <3>1, Appended
 <2> QED  BY <1>1, <1>3, <2>1
<1>6. a \in Seq(Vals) /\ Len(a) \in Nat  BY <1>1, <1>3, AppendProperties
<1>7. TransactTypes' /\ Owned'  BY <1>1, <1>4, <1>5, <1>6 DEF TransactInv, TransactTypes, Owned
<1>8. InputIs' /\ Served'  BY <1>1 DEF TransactInv, InputIs, Header, Served
<1>9. Reply'  BY <1>1, <1>4, <1>5 DEF Reply
<1> QED  BY <1>7, <1>8, <1>9 DEF TransactInv

\* onTransact returns: the reply is wound back for the client.
LEMMA HandlerReturnsKeeps ==
    ASSUME TransactSizes, TransactInv, NEW s, Parcel!HandlerReturns(s)
    PROVE  TransactInv'
<1>1. /\ phase = "handler" /\ out \in Parcels /\ target.kind = "local" /\ inPtr /\ readBack = <<>>
      /\ target \in Parcel!Targets /\ calls < MaxCalls /\ outPtr \in BOOLEAN /\ (out.there <=> outPtr)
      /\ out.vals = answered /\ answered \in Seq(Vals)
  BY DEF Parcel!HandlerReturns, TransactInv, TransactTypes, Owned, Reply
<1>2. /\ out' = [out EXCEPT !.cur = 0] /\ inp' = Parcel!NoParcel /\ inPtr' = FALSE
      /\ calls' = calls + 1 /\ phase' = (IF outPtr THEN "reply" ELSE "client")
      /\ put' = <<>> /\ served' = <<>> /\ UNCHANGED <<target, outPtr, answered, readBack>>
  BY DEF Parcel!HandlerReturns, Parcel!Consumed, Parcel!Returns
<1>3. out' \in Parcels /\ out'.there = out.there /\ out'.vals = out.vals /\ out'.cur = 0
 <2>1. PICK c \in Nat : c = 0  OBVIOUS
 <2>2. PICK r : r = [out EXCEPT !.cur = c]  OBVIOUS
 <2>3. r \in Parcels /\ r.there = out.there /\ r.vals = out.vals /\ r.cur = c
   BY <1>1, <2>2, Moved
 <2> QED  BY <1>2, <2>1, <2>2, <2>3
<1>4. /\ Parcel!NoParcel \in Parcels /\ ~Parcel!NoParcel.there /\ Parcel!NoParcel.vals = <<>> /\ Parcel!NoParcel.cur = 0
      /\ <<>> \in Seq(Vals) /\ <<>> \in Seq(Plain) /\ Len(<<>>) = 0
  BY NoValues
<1>5. calls' \in 0 .. MaxCalls
 <2>1. calls \in 0 .. MaxCalls  BY DEF TransactInv, TransactTypes
 <2> QED  BY <1>1, <1>2, <2>1 DEF TransactSizes
<1>6. TransactTypes'
 <2>1. Len(out'.vals) \in Nat /\ readBack' \in Seq(Vals)  BY <1>1, <1>2, <1>3, <1>4
 <2> QED
  <3>1. /\ phase' \in {"client", "reply"} /\ target' \in Parcel!Targets /\ inPtr' \in BOOLEAN
        /\ outPtr' \in BOOLEAN /\ answered' \in Seq(Vals)
    BY <1>1, <1>2
  <3>2. inp' \in Parcels /\ inp'.cur <= Len(inp'.vals) /\ put' \in Seq(Plain) /\ served' \in Seq(Vals)
    BY <1>2, <1>4
  <3>3. out'.cur <= Len(out'.vals)  BY <1>3, <2>1
  <3> QED  BY <1>3, <1>5, <2>1, <3>1, <3>2, <3>3 DEF TransactTypes
<1>7. Owned'  BY <1>1, <1>2, <1>3, <1>4 DEF Owned
<1>8. InputIs' /\ Served'  BY <1>2 DEF InputIs, Served
<1>9. Reply'  BY <1>1, <1>2, <1>3, <1>4 DEF Reply
<1> QED  BY <1>6, <1>7, <1>8, <1>9 DEF TransactInv

\* The client reads the next value of the reply, as its reader sees it.
LEMMA ReplyRead ==
    ASSUME TransactSizes, TransactInv, phase = "reply", NEW x, out.cur < Len(out.vals),
           x = Parcel!Seen(out.vals[out.cur + 1]), NEW c \in Nat, c = out.cur + 1,
           out' = [out EXCEPT !.cur = c], readBack' = Append(readBack, x),
           UNCHANGED <<phase, target, inp, inPtr, outPtr, put, served, answered, result, calls>>
    PROVE  TransactInv'
<1>1. /\ out \in Parcels /\ readBack \in Seq(Vals) /\ out.vals = answered /\ answered \in Seq(Vals)
      /\ out.cur = Len(readBack) /\ \A i \in 1 .. Len(readBack) : readBack[i] = Parcel!Seen(answered[i])
      /\ out.cur \in Nat
  BY DEF TransactInv, TransactTypes, Reply, Parcels
<1>2. out' \in Parcels /\ out'.there = out.there /\ out'.vals = out.vals /\ out'.cur = c
  BY <1>1, Moved
<1>3. PICK v : v = answered[c]  OBVIOUS
<1>4. c \in 1 .. Len(answered) /\ v \in Vals /\ x = Parcel!Seen(v) /\ Len(answered) \in Nat /\ c = Len(readBack) + 1
  BY <1>1, <1>3
<1>5. x \in Vals
 <2>1. CASE v.k = "status"  BY <1>4, <2>1, StatusReadsBack
 <2>2. CASE v.k # "status"  BY <1>4, <2>2 DEF Parcel!Seen
 <2> QED  BY <2>1, <2>2
<1>6. PICK a : a = Append(readBack, x)  OBVIOUS
<1>7. /\ a \in Seq(Vals) /\ Len(a) = Len(readBack) + 1 /\ a[Len(readBack) + 1] = x
      /\ \A i \in 1 .. Len(readBack) : a[i] = readBack[i]
  BY <1>1, <1>5, <1>6, AppendProperties
<1>8. readBack' = a  BY <1>6
<1>9. TransactTypes' /\ Owned'
  BY <1>1, <1>2, <1>4, <1>7, <1>8 DEF TransactInv, TransactTypes, Owned
<1>10. InputIs' /\ Served'  BY DEF TransactInv, InputIs, Header, Served
<1>11. Reply'
 <2>1. \A i \in 1 .. Len(a) : a[i] = Parcel!Seen(answered[i])
  <3>1. \A i \in 1 .. Len(a) : i \in 1 .. Len(readBack) \/ i = c  BY <1>1, <1>4, <1>7
  <3> QED  BY <1>1, <1>3, <1>4, <1>7, <3>1
 <2> QED  BY <1>1, <1>2, <1>4, <1>7, <1>8, <2>1 DEF Reply
<1> QED  BY <1>9, <1>10, <1>11 DEF TransactInv

\* The status first, with its exception and its error.
LEMMA ClientReadsStatusKeeps ==
    ASSUME TransactSizes, TransactInv, Parcel!ClientReadsStatus
    PROVE  TransactInv'
<1>1. /\ phase = "reply" /\ out.there /\ readBack = <<>> /\ out \in Parcels /\ out.vals \in Seq(Vals)
      /\ out.cur \in Nat /\ Len(readBack) = 0 /\ out.cur = 0
      /\ UNCHANGED <<phase, target, inp, inPtr, outPtr, put, served, answered, result, calls>>
  BY DEF Parcel!ClientReadsStatus, TransactInv, TransactTypes, Reply, Parcels
<1>2. CASE Parcel!Readable(out, "status")
 <2>1. PICK v : v = out.vals[out.cur + 1]  OBVIOUS
 <2>2. out.cur < Len(out.vals) /\ v.k = "status" /\ v \in Vals
   BY <1>1, <1>2, <2>1 DEF Parcel!Readable
 <2>3. PICK x : x = Parcel!StatusValue(Parcel!ReadBack(out))  OBVIOUS
 <2>4. x = Parcel!Seen(v)
  <3>1. Parcel!ReadBack(out) = (IF Len(v.v) = 1 THEN Parcel!FromStatus(v.v[1])
                         ELSE [ex |-> v.v[2], err |-> v.v[3], low |-> v.v[1]])
    BY <1>2, <2>1 DEF Parcel!ReadBack, Parcel!Under
  <3> QED  BY <2>2, <2>3, <3>1, StatusReadsBack
 <2>5. PICK c \in Nat : c = out.cur + 1  BY <1>1
 <2>6. out' = [out EXCEPT !.cur = c]
   BY <1>1, <1>2, <2>5 DEF Parcel!ClientReadsStatus, Parcel!Advance
 <2>7. readBack' = Append(readBack, x)
  <3>1. readBack' = <<x>>  BY <1>2, <2>3 DEF Parcel!ClientReadsStatus
  <3> QED  BY <1>1, <3>1
 <2> QED  BY <1>1, <2>1, <2>2, <2>4, <2>5, <2>6, <2>7, ReplyRead
<1>3. CASE ~Parcel!Readable(out, "status")
 <2>1. UNCHANGED <<out, readBack>>  BY <1>3 DEF Parcel!ClientReadsStatus
 <2> QED  BY <1>1, <2>1 DEF TransactInv, TransactTypes, Owned, InputIs, Header, Served, Reply
<1> QED  BY <1>2, <1>3

\* Then the values.
LEMMA ClientReadsKeeps ==
    ASSUME TransactSizes, TransactInv, Parcel!ClientReads
    PROVE  TransactInv'
<1>1. /\ phase = "reply" /\ out \in Parcels /\ out.vals \in Seq(Vals) /\ out.cur \in Nat
      /\ UNCHANGED <<phase, target, inp, inPtr, outPtr, put, served, answered, result, calls>>
  BY DEF Parcel!ClientReads, TransactInv, TransactTypes, Parcels
<1>2. PICK v : v = out.vals[out.cur + 1]  OBVIOUS
<1>3. out.cur < Len(out.vals) /\ v.k \in {"i32", "str", "arr"} /\ v \in Vals
 <2>1. out.cur < Len(out.vals) /\ v.k \in {"i32", "str", "arr"}
   BY <1>2 DEF Parcel!ClientReads, Parcel!Readable
 <2> QED  BY <1>1, <1>2, <2>1
<1>4. v = Parcel!Seen(v)  BY <1>3, ValueKinds
<1>5. PICK c \in Nat : c = out.cur + 1  BY <1>1
<1>6. out' = [out EXCEPT !.cur = c] /\ readBack' = Append(readBack, v)
 <2>1. out' = Parcel!Advance(out) /\ readBack' = Append(readBack, Parcel!Under(out))
   BY DEF Parcel!ClientReads
 <2> QED  BY <1>1, <1>2, <1>5, <2>1 DEF Parcel!Advance, Parcel!Under
<1> QED  BY <1>1, <1>2, <1>3, <1>4, <1>5, <1>6, ReplyRead

\* The reply is freed.
LEMMA DeleteReplyKeeps ==
    ASSUME TransactSizes, TransactInv, Parcel!DeleteReply
    PROVE  TransactInv'
<1>1. /\ phase = "reply" /\ out' = Parcel!NoParcel /\ outPtr' = FALSE /\ phase' = "client"
      /\ answered' = <<>> /\ readBack' = <<>>
      /\ UNCHANGED <<target, inp, inPtr, put, served, result, calls>>
  BY DEF Parcel!DeleteReply
<1>2. /\ Parcel!NoParcel \in Parcels /\ ~Parcel!NoParcel.there /\ Parcel!NoParcel.vals = <<>> /\ Parcel!NoParcel.cur = 0
      /\ <<>> \in Seq(Vals) /\ Len(<<>>) = 0
  BY NoValues
<1>3. out' \in Parcels /\ out'.cur <= Len(out'.vals) /\ answered' \in Seq(Vals) /\ readBack' \in Seq(Vals)
  BY <1>1, <1>2
<1>4. TransactTypes' /\ Owned' /\ Reply'
  BY <1>1, <1>2, <1>3 DEF TransactInv, TransactTypes, Owned, Reply
<1>5. InputIs' /\ Served'  BY <1>1 DEF TransactInv, InputIs, Header, Served
<1> QED  BY <1>4, <1>5 DEF TransactInv

----
\* At the start nobody has a parcel.
LEMMA TransactStart == ASSUME TransactSizes, Parcel!Init PROVE TransactInv
<1>1. /\ Parcel!NoParcel \in Parcels /\ ~Parcel!NoParcel.there /\ Parcel!NoParcel.vals = <<>> /\ Parcel!NoParcel.cur = 0
      /\ <<>> \in Seq(Vals) /\ <<>> \in Seq(Plain) /\ Len(<<>>) = 0
  BY NoValues
<1>2. target \in Parcel!Targets /\ calls \in 0 .. MaxCalls
  BY DEF Parcel!Init, Parcel!Targets, TransactSizes
<1>3. TransactTypes
 <2>1. /\ inp = Parcel!NoParcel /\ out = Parcel!NoParcel /\ put = <<>> /\ served = <<>> /\ answered = <<>>
       /\ readBack = <<>> /\ inPtr = FALSE /\ outPtr = FALSE /\ phase = "client"
   BY DEF Parcel!Init
 <2>2. inp \in Parcels /\ inp.cur <= Len(inp.vals) /\ out \in Parcels /\ out.cur <= Len(out.vals)
   BY <1>1, <2>1
 <2>3. /\ put \in Seq(Plain) /\ served \in Seq(Vals) /\ answered \in Seq(Vals)
       /\ readBack \in Seq(Vals)
   BY <1>1, <2>1
 <2> QED  BY <1>2, <2>1, <2>2, <2>3 DEF TransactTypes
<1> QED  BY <1>1, <1>3 DEF Parcel!Init, TransactInv, Owned, InputIs, Served, Reply

\* Every step keeps the invariant.
LEMMA TransactSteps == ASSUME TransactSizes, TransactInv, [Parcel!Next]_(Parcel!vars) PROVE TransactInv'
<1>1. ASSUME NEW t \in Parcel!Targets, Parcel!PrepareTransaction(t) PROVE TransactInv'
  BY <1>1, PrepareKeeps
<1>2. ASSUME NEW x \in Parcel!Inputs, Parcel!ClientWrites(x) PROVE TransactInv'
  BY <1>2, ClientWritesKeeps
<1>3. ASSUME NEW n \in 1 .. 2, NEW done \in 0 .. 2, Parcel!ClientWritesArray(n, done) PROVE TransactInv'
  BY <1>3, ClientWritesArrayKeeps
<1>4. CASE Parcel!ClassChanges \/ Parcel!TargetDies  BY <1>4, TargetChanges
<1>5. CASE Parcel!TransactRefused  BY <1>5, TransactRefusedKeeps
<1>6. ASSUME NEW oneway \in BOOLEAN, Parcel!TransactLocal(oneway) PROVE TransactInv'
  BY <1>6, TransactLocalKeeps
<1>7. ASSUME NEW oneway \in BOOLEAN, Parcel!TransactEcho(oneway) PROVE TransactInv'
  BY <1>7, TransactEchoKeeps
<1>8. ASSUME NEW r \in Parcel!Replies, Parcel!TransactDaemon(r) PROVE TransactInv'
  BY <1>8, TransactDaemonKeeps
<1>9. CASE Parcel!HandlerReads  BY <1>9, HandlerReadsKeeps
<1>10. ASSUME NEW place \in 0 .. 1, Parcel!HandlerSeeks(place) PROVE TransactInv'
  BY <1>10, HandlerSeeksKeeps
<1>11. ASSUME NEW s \in Parcel!Statuses, Parcel!HandlerWrites(Parcel!StatusValue(s)) PROVE TransactInv'
 <2>1. PICK v \in Vals : v = Parcel!StatusValue(s)  BY ValueKinds
 <2> QED  BY <1>11, <2>1, HandlerWritesKeeps
<1>12. CASE Parcel!HandlerWrites(Parcel!Int32(1))
 <2>1. 1 \in Int  OBVIOUS
 <2>2. PICK v : v = Parcel!Int32(1)  OBVIOUS
 <2>3. v \in Vals  BY <2>1, <2>2, ValueKinds, Zenon
 <2> QED  BY <1>12, <2>2, <2>3, HandlerWritesKeeps
<1>13. ASSUME NEW s, Parcel!HandlerReturns(s) PROVE TransactInv'  BY <1>13, HandlerReturnsKeeps
<1>14. CASE Parcel!ClientReadsStatus  BY <1>14, ClientReadsStatusKeeps
<1>15. CASE Parcel!ClientReads  BY <1>15, ClientReadsKeeps
<1>16. CASE Parcel!DeleteReply  BY <1>16, DeleteReplyKeeps
<1>17. CASE UNCHANGED Parcel!vars
  BY <1>17 DEF Parcel!vars, TransactInv, TransactTypes, Owned, InputIs, Header, Served, Reply
<1> QED
  BY <1>1, <1>2, <1>3, <1>4, <1>5, <1>6, <1>7, <1>8, <1>9, <1>10, <1>11, <1>12, <1>13, <1>14, <1>15,
     <1>16, <1>17 DEF Parcel!Next

\* onTransact reads what the client wrote, in order and without the header, the
\* client reads the reply the same way, and every parcel the runtime keeps is
\* one the guest has.
THEOREM ParcelsStaySound == ASSUME TransactSizes PROVE Parcel!Spec => [](Parcel!TypeOK /\ Parcel!ParcelsSound)
<1>1. TransactInv => Parcel!TypeOK /\ Parcel!ParcelsSound
 <2> SUFFICES ASSUME TransactInv PROVE Parcel!TypeOK /\ Parcel!ParcelsSound  OBVIOUS
 <2>1. /\ inp.vals \in Seq(Vals) /\ out.vals \in Seq(Vals) /\ put \in Seq(Plain)
       /\ inp.there \in BOOLEAN /\ out.there \in BOOLEAN /\ inp.cur \in Nat /\ out.cur \in Nat
       /\ served \in Seq(Vals) /\ answered \in Seq(Vals) /\ readBack \in Seq(Vals)
       /\ inp.cur <= Len(inp.vals) /\ out.cur <= Len(out.vals)
   BY DEF TransactInv, TransactTypes, Parcels
 <2>2. Parcel!TypeOK
  <3>1. Parcel!ParcelOK(inp) /\ Parcel!ParcelOK(out)
   <4>1. \A s \in Seq(Vals) : \A i \in DOMAIN s : s[i].k \in Parcel!Kinds  BY ValueKinds
   <4> QED  BY <2>1, <4>1 DEF Parcel!ParcelOK
  <3> QED  BY <3>1 DEF TransactInv, TransactTypes, Parcel!TypeOK
 <2>3. ASSUME NEW a \in Seq(Vals), NEW b, Len(b) \in Nat, Len(a) <= Len(b),
              \A i \in 1 .. Len(a) : a[i] = b[i], NEW T, b \in Seq(T)
       PROVE  Parcel!IsPrefix(a, b)
  <3>1. PICK s : s = SubSeq(a, 1, Len(a))  OBVIOUS
  <3>2. PICK t : t = SubSeq(b, 1, Len(a))  OBVIOUS
  <3>3. s \in Seq(Vals) /\ Len(s) = Len(a) /\ \A i \in 1 .. Len(a) : s[i] = a[i]
    BY <3>1, SubSeqProperties
  <3>4. t \in Seq(T) /\ Len(t) = Len(a) /\ \A i \in 1 .. Len(a) : t[i] = b[i]
    BY <2>3, <3>2, SubSeqProperties
  <3>5. s = t  BY <2>3, <3>3, <3>4
  <3> QED  BY <2>3, <3>1, <3>2, <3>5 DEF Parcel!IsPrefix
 <2>4. phase = "handler" => Parcel!IsPrefix(served, put)
  <3>1. Len(put) \in Nat  BY <2>1
  <3> QED  BY <2>1, <2>3, <3>1 DEF TransactInv, Served
 <2>5. ASSUME phase = "reply"
       PROVE  /\ Parcel!IsPrefix(readBack, [i \in DOMAIN answered |-> Parcel!Seen(answered[i])])
              /\ out.cur = Len(readBack)
  <3>1. PICK seen : seen = [i \in DOMAIN answered |-> Parcel!Seen(answered[i])]  OBVIOUS
  <3>2. \A i \in DOMAIN answered : Parcel!Seen(answered[i]) \in {Parcel!Seen(v) : v \in Vals}
    BY <2>1
  <3>3. PICK T : T = {Parcel!Seen(v) : v \in Vals}  OBVIOUS
  <3>4. seen \in Seq(T) /\ Len(seen) = Len(answered) /\ Len(answered) \in Nat
    BY <2>1, <3>1, <3>2, <3>3
  <3>5. /\ out.cur = Len(readBack) /\ out.vals = answered
        /\ \A i \in 1 .. Len(readBack) : readBack[i] = Parcel!Seen(answered[i])
    BY <2>5 DEF TransactInv, Reply
  <3>6. Len(readBack) <= Len(seen) /\ \A i \in 1 .. Len(readBack) : readBack[i] = seen[i]
    BY <2>1, <3>1, <3>4, <3>5
  <3> QED  BY <2>1, <2>3, <3>1, <3>4, <3>5, <3>6
 <2> QED
   BY <2>2, <2>4, <2>5 DEF Parcel!ParcelsSound, Parcel!ReadsInOrder, Parcel!ParcelsAccounted,
      TransactInv, Owned
<1> QED  BY <1>1, TransactStart, TransactSteps, PTL DEF Parcel!Spec

----
(* Java arrays: while the scratch ring has not gone round, a pointer to the*)
(* elements of an array has its own, for any lengths and size of the ring. *)

CONSTANTS RingBlocks, Lengths, MaxArrays, MaxGets
VARIABLES arrays, ring, bump, elements, gets, last

Arrays == INSTANCE JniArrays WITH held <- elements

\* Lengths are numbers, and the longest of them is one.
ArraySizes == /\ RingBlocks \in Nat /\ Lengths \subseteq Nat
              /\ \E n \in Lengths : n > 0 /\ \A k \in Lengths : k <= n

Elements == [type : Arrays!Types, data : Seq(Arrays!Value)]
Pointers == [array : Nat, at : Nat, mine : Seq(Arrays!Value), spent : Nat, id : Nat]
ArrayTypes ==
    /\ arrays \in Seq(Elements) /\ ring \in [0 .. RingBlocks - 1 -> Arrays!Value]
    /\ \A h \in DOMAIN arrays : Len(arrays[h].data) \in Lengths
    /\ bump \in 0 .. RingBlocks /\ elements \subseteq Pointers /\ gets \in Nat
    /\ \A p \in elements : /\ p.array \in DOMAIN arrays
                           /\ Len(p.mine) = Len(arrays[p.array].data)
                           /\ p.at + Len(p.mine) <= RingBlocks /\ Len(p.mine) <= p.spent

\* What was handed out since p lies between p and the bump pointer, or the ring
\* has turned once and the bump pointer is still before p.
Since(p) ==
    \/ p.at + p.spent = bump
    \/ /\ bump <= p.at /\ p.at + p.spent <= bump + RingBlocks
       /\ bump + RingBlocks <= p.at + p.spent + Arrays!Longest - 1
Holds(p) == \A i \in 1 .. Len(p.mine) : ring[p.at + i - 1] = p.mine[i]
Apart(p, q) == p.at + Len(p.mine) <= q.at \/ q.at + Len(q.mine) <= p.at

\* Intact copies lie apart and hold what the guest put there.
Copies ==
    \A p \in elements : Arrays!Intact(p) =>
        /\ Since(p) /\ Holds(p)
        /\ \A q \in elements : Arrays!Intact(q) /\ p # q => Apart(p, q)

ArrayInv == ArrayTypes /\ Copies /\ Arrays!ReleaseStoresOwn

----
\* The longest array is a number.
LEMMA LongestIs ==
    ASSUME ArraySizes
    PROVE  Arrays!Longest \in Nat \ {0} /\ Arrays!Longest \in Lengths /\ \A k \in Lengths : k <= Arrays!Longest
<1>1. PICK n \in Lengths : n > 0 /\ \A k \in Lengths : k <= n  BY DEF ArraySizes
<1>2. Arrays!Longest \in Lengths /\ \A k \in Lengths : k <= Arrays!Longest
  BY <1>1 DEF Arrays!Longest
<1>3. n \in Nat /\ Arrays!Longest \in Nat /\ n <= Arrays!Longest  BY <1>1, <1>2 DEF ArraySizes
<1> QED  BY <1>1, <1>2, <1>3

\* An array is made.
LEMMA NewArrayKeeps ==
    ASSUME ArraySizes, ArrayInv, NEW type \in Arrays!Types, NEW n \in Lengths, Arrays!NewArray(type, n, 0)
    PROVE  ArrayInv'
<1>1. PICK d : d = [i \in 1 .. n |-> 0]  OBVIOUS
<1>2. n \in Nat /\ arrays \in Seq(Elements) /\ Len(arrays) \in Nat
  BY DEF ArraySizes, ArrayInv, ArrayTypes
<1>3. d \in Seq(Arrays!Value) /\ Len(d) = n
 <2>1. 0 \in Arrays!Value  BY DEF Arrays!Value
 <2> QED  BY <1>1, <1>2, <2>1
<1>4. PICK e : e = [type |-> type, data |-> d]  OBVIOUS
<1>5. e \in Elements /\ e.data = d  BY <1>3, <1>4 DEF Elements
<1>6. arrays' = Append(arrays, e) /\ last' = Arrays!Quiet /\ UNCHANGED <<ring, bump, elements, gets>>
  BY <1>1, <1>4 DEF Arrays!NewArray
<1>7. /\ arrays' \in Seq(Elements) /\ DOMAIN arrays' = 1 .. Len(arrays) + 1
      /\ arrays'[Len(arrays) + 1] = e /\ \A h \in DOMAIN arrays : h \in DOMAIN arrays' /\ arrays'[h] = arrays[h]
  BY <1>2, <1>5, <1>6, AppendProperties
<1>8. \A h \in DOMAIN arrays' : h = Len(arrays) + 1 \/ h \in DOMAIN arrays  BY <1>2, <1>7
<1>9. ArrayTypes'
 <2>1. \A h \in DOMAIN arrays' : Len(arrays'[h].data) \in Lengths
   BY <1>3, <1>5, <1>7, <1>8 DEF ArrayInv, ArrayTypes
 <2> QED  BY <1>6, <1>7, <2>1 DEF ArrayInv, ArrayTypes
<1>10. Copies'  BY <1>6 DEF ArrayInv, Copies, Arrays!Intact, Since, Holds, Apart
<1>11. Arrays!ReleaseStoresOwn'  BY <1>6 DEF Arrays!ReleaseStoresOwn, Arrays!Quiet
<1> QED  BY <1>9, <1>10, <1>11 DEF ArrayInv

\* What is handed out next lies apart from every copy that is intact then.
LEMMA NextIsApart ==
    ASSUME ArraySizes, NEW at \in Nat, NEW width \in Nat, NEW spent \in Nat, NEW b \in Nat,
           NEW count \in Nat, NEW next \in Nat, count \in 1 .. RingBlocks, count <= Arrays!Longest,
           width <= spent, at + width <= RingBlocks, b <= RingBlocks,
           \/ at + spent = b
           \/ /\ b <= at /\ at + spent <= b + RingBlocks
              /\ b + RingBlocks <= at + spent + Arrays!Longest - 1,
           spent + count + Arrays!Longest - 1 <= RingBlocks,
           next = IF b + count > RingBlocks THEN 0 ELSE b
    PROVE  /\ at + width <= next \/ next + count <= at
           /\ \/ at + spent + count = next + count
              \/ /\ next + count <= at /\ at + spent + count <= next + count + RingBlocks
                 /\ next + count + RingBlocks <= at + spent + count + Arrays!Longest - 1
<1>1. Arrays!Longest \in Nat /\ RingBlocks \in Nat /\ Arrays!Longest >= 1 /\ count >= 1
  BY LongestIs DEF ArraySizes
<1>2. CASE b + count > RingBlocks
 <2>1. CASE at + spent = b  BY <1>1, <1>2, <2>1
 <2>2. CASE b <= at /\ at + spent <= b + RingBlocks /\ b + RingBlocks <= at + spent + Arrays!Longest - 1
   BY <1>1, <1>2, <2>2
 <2> QED  BY <2>1, <2>2
<1>3. CASE b + count <= RingBlocks
 <2>1. CASE at + spent = b  BY <1>1, <1>3, <2>1
 <2>2. CASE b <= at /\ at + spent <= b + RingBlocks /\ b + RingBlocks <= at + spent + Arrays!Longest - 1
   BY <1>1, <1>3, <2>2
 <2> QED  BY <2>1, <2>2
<1> QED  BY <1>1, <1>2, <1>3

\* An element pointer is a record of five fields.
LEMMA PointerIs ==
    ASSUME NEW p, p \in Pointers
    PROVE  /\ p.array \in Nat /\ p.at \in Nat /\ p.mine \in Seq(Arrays!Value) /\ p.spent \in Nat
           /\ p.id \in Nat /\ Len(p.mine) \in Nat /\ DOMAIN p.mine = 1 .. Len(p.mine)
<1>1. p.array \in Nat /\ p.at \in Nat /\ p.mine \in Seq(Arrays!Value) /\ p.spent \in Nat /\ p.id \in Nat
  BY DEF Pointers
<1> QED  BY <1>1

\* Elements are copied into the ring.
LEMMA GetElementsKeeps ==
    ASSUME ArraySizes, ArrayInv, NEW type \in Arrays!ElementTypes, NEW h \in DOMAIN arrays,
           Arrays!GetElements(type, h)
    PROVE  ArrayInv'
<1>1. PICK data : data = arrays[h].data  OBVIOUS
<1>2. PICK count : count = Arrays!Blocks(data)  OBVIOUS
<1>3. PICK at : at = Arrays!Place(count)  OBVIOUS
<1>4. PICK new : new = [array |-> h, at |-> at, mine |-> data, spent |-> count, id |-> gets]
  OBVIOUS
<1> DEFINE Later(p) == [p EXCEPT !.spent = @ + count]
<1>5. /\ count <= RingBlocks /\ ring' = Arrays!CopyIn(data, at) /\ bump' = at + count
      /\ elements' = {Later(p) : p \in elements} \cup {new} /\ gets' = gets + 1 /\ last' = Arrays!Quiet
      /\ arrays' = arrays
  BY <1>1, <1>2, <1>3, <1>4 DEF Arrays!GetElements
<1> HIDE DEF Later
<1>6. /\ arrays \in Seq(Elements) /\ ring \in [0 .. RingBlocks - 1 -> Arrays!Value]
      /\ bump \in 0 .. RingBlocks /\ elements \subseteq Pointers /\ gets \in Nat /\ RingBlocks \in Nat
  BY DEF ArraySizes, ArrayInv, ArrayTypes
<1>7. Arrays!Longest \in Nat \ {0} /\ \A k \in Lengths : k <= Arrays!Longest  BY LongestIs
<1>8. data \in Seq(Arrays!Value) /\ Len(data) \in Lengths /\ Len(data) \in Nat /\ DOMAIN data = 1 .. Len(data)
 <2>1. arrays[h] \in Elements  BY <1>6
 <2>2. Len(arrays[h].data) \in Lengths  BY DEF ArrayInv, ArrayTypes
 <2>3. data \in Seq(Arrays!Value)  BY <2>1, <1>1 DEF Elements
 <2> QED  BY <2>2, <2>3, <1>1
<1>9. count \in 1 .. RingBlocks /\ Len(data) <= count /\ count <= Arrays!Longest
 <2>1. PICK k : k = Len(data)  OBVIOUS
 <2>2. k \in Nat /\ k <= Arrays!Longest  BY <2>1, <1>7, <1>8
 <2>3. count = IF k = 0 THEN 1 ELSE k  BY <2>1, <1>2 DEF Arrays!Blocks
 <2>4. count \in Nat /\ count >= 1 /\ k <= count /\ count <= Arrays!Longest  BY <2>2, <2>3, <1>7
 <2> QED  BY <2>1, <2>4, <1>5, <1>6
<1>10. at = (IF bump + count > RingBlocks THEN 0 ELSE bump)  BY <1>3 DEF Arrays!Place
<1>11. at \in Nat /\ at + count <= RingBlocks /\ at + Len(data) <= RingBlocks
  BY <1>6, <1>8, <1>9, <1>10
<1>12. h \in Nat  BY <1>6
<1>13. /\ new \in Pointers /\ new.array = h /\ new.at = at /\ new.mine = data /\ new.spent = count
  BY <1>4, <1>6, <1>8, <1>9, <1>11, <1>12 DEF Pointers
<1>14. \A p \in elements : /\ Later(p) \in Pointers /\ Later(p).array = p.array /\ Later(p).at = p.at
                           /\ Later(p).mine = p.mine /\ Later(p).spent = p.spent + count
 <2> SUFFICES ASSUME NEW p \in elements
              PROVE  /\ Later(p) \in Pointers /\ Later(p).array = p.array /\ Later(p).at = p.at
                     /\ Later(p).mine = p.mine /\ Later(p).spent = p.spent + count
   OBVIOUS
 <2>1. p \in Pointers /\ p.spent \in Nat  BY <1>6 DEF Pointers
 <2>2. PICK s : s = p.spent + count  OBVIOUS
 <2>3. s \in Nat  BY <2>1, <2>2, <1>9
 <2>4. Later(p) = [p EXCEPT !.spent = s]  BY <2>2 DEF Later
 <2> QED  BY <2>1, <2>2, <2>3, <2>4 DEF Pointers
<1>15. \A q \in elements' : q = new \/ \E p \in elements : q = Later(p)  BY <1>5
<1>16. ring' \in [0 .. RingBlocks - 1 -> Arrays!Value]
       /\ \A b \in 0 .. RingBlocks - 1 :
              ring'[b] = IF b - at + 1 \in DOMAIN data THEN data[b - at + 1] ELSE ring[b]
 <2>1. ring' = [b \in 0 .. RingBlocks - 1 |->
                   IF b - at + 1 \in DOMAIN data THEN data[b - at + 1] ELSE ring[b]]
   BY <1>5, <1>6 DEF Arrays!CopyIn
 <2>2. \A b \in 0 .. RingBlocks - 1 :
          (IF b - at + 1 \in DOMAIN data THEN data[b - at + 1] ELSE ring[b]) \in Arrays!Value
   BY <1>6, <1>8
 <2> QED  BY <2>1, <2>2
<1>17. ArrayTypes'
 <2>1. elements' \subseteq Pointers  BY <1>13, <1>14, <1>15
 <2>2. bump' \in 0 .. RingBlocks  BY <1>5, <1>6, <1>9, <1>11
 <2>3. gets' \in Nat  BY <1>5, <1>6
 <2>4. \A q \in elements' : /\ q.array \in DOMAIN arrays /\ Len(q.mine) = Len(arrays[q.array].data)
                            /\ q.at + Len(q.mine) <= RingBlocks /\ Len(q.mine) <= q.spent
  <3> SUFFICES ASSUME NEW q \in elements'
               PROVE  /\ q.array \in DOMAIN arrays /\ Len(q.mine) = Len(arrays[q.array].data)
                      /\ q.at + Len(q.mine) <= RingBlocks /\ Len(q.mine) <= q.spent
    OBVIOUS
  <3>1. CASE q = new  BY <3>1, <1>1, <1>9, <1>11, <1>13
  <3>2. CASE \E p \in elements : q = Later(p)
   <4>1. PICK p \in elements : q = Later(p)  BY <3>2
   <4>2. /\ p.array \in DOMAIN arrays /\ Len(p.mine) = Len(arrays[p.array].data)
         /\ p.at + Len(p.mine) <= RingBlocks /\ Len(p.mine) <= p.spent
     BY DEF ArrayInv, ArrayTypes
   <4>3. p.spent \in Nat /\ Len(p.mine) \in Nat  BY <1>6, PointerIs
   <4>4. Len(p.mine) <= p.spent + count  BY <4>2, <4>3, <1>9
   <4> QED  BY <4>1, <4>2, <4>4, <1>14
  <3> QED  BY <3>1, <3>2, <1>15
 <2> QED  BY <2>1, <2>2, <2>3, <2>4, <1>5, <1>6, <1>16 DEF ArrayInv, ArrayTypes
<1>18. \A p \in elements : Arrays!Intact(Later(p)) =>
          /\ Arrays!Intact(p) /\ Since(p) /\ Holds(p)
          /\ p.at + Len(p.mine) <= at \/ at + count <= p.at
          /\ \/ p.at + p.spent + count = at + count
             \/ /\ at + count <= p.at /\ p.at + p.spent + count <= at + count + RingBlocks
                /\ at + count + RingBlocks <= p.at + p.spent + count + Arrays!Longest - 1
 <2> SUFFICES ASSUME NEW p \in elements, Arrays!Intact(Later(p))
              PROVE  /\ Arrays!Intact(p) /\ Since(p) /\ Holds(p)
                     /\ p.at + Len(p.mine) <= at \/ at + count <= p.at
                     /\ \/ p.at + p.spent + count = at + count
                        \/ /\ at + count <= p.at /\ p.at + p.spent + count <= at + count + RingBlocks
                           /\ at + count + RingBlocks <= p.at + p.spent + count + Arrays!Longest - 1
   OBVIOUS
 <2>1. p.spent \in Nat /\ Len(p.mine) \in Nat /\ p.at \in Nat  BY <1>6, PointerIs
 <2>2. p.spent + count + Arrays!Longest - 1 <= RingBlocks  BY <1>14 DEF Arrays!Intact
 <2>3. Arrays!Intact(p)  BY <2>1, <2>2, <1>6, <1>7, <1>9 DEF Arrays!Intact
 <2>4. Since(p) /\ Holds(p)  BY <2>3 DEF ArrayInv, Copies
 <2>5. /\ p.at + Len(p.mine) <= RingBlocks /\ Len(p.mine) <= p.spent  BY DEF ArrayInv, ArrayTypes
 <2>6. \/ p.at + p.spent = bump
       \/ /\ bump <= p.at /\ p.at + p.spent <= bump + RingBlocks
          /\ bump + RingBlocks <= p.at + p.spent + Arrays!Longest - 1
   BY <2>4 DEF Since
 <2>7. bump \in Nat /\ bump <= RingBlocks /\ count \in Nat  BY <1>6, <1>9
 <2>8. /\ p.at + Len(p.mine) <= at \/ at + count <= p.at
       /\ \/ p.at + p.spent + count = at + count
          \/ /\ at + count <= p.at /\ p.at + p.spent + count <= at + count + RingBlocks
             /\ at + count + RingBlocks <= p.at + p.spent + count + Arrays!Longest - 1
   BY <2>1, <2>2, <2>5, <2>6, <2>7, <1>9, <1>10, <1>11, NextIsApart
 <2> QED  BY <2>3, <2>4, <2>8
<1>19. \A p \in elements : Arrays!Intact(Later(p)) => Holds(Later(p))'
 <2> SUFFICES ASSUME NEW p \in elements, Arrays!Intact(Later(p)), NEW i \in 1 .. Len(p.mine)
              PROVE  ring'[p.at + i - 1] = p.mine[i]
   BY <1>14 DEF Holds
 <2>1. Holds(p) /\ (p.at + Len(p.mine) <= at \/ at + count <= p.at)  BY <1>18
 <2>2. p.at \in Nat /\ Len(p.mine) \in Nat /\ p.at + Len(p.mine) <= RingBlocks
   BY <1>6, PointerIs DEF ArrayInv, ArrayTypes
 <2>3. PICK b : b = p.at + i - 1  OBVIOUS
 <2>4. b \in 0 .. RingBlocks - 1 /\ (b < at \/ at + count <= b)
  <3>1. PICK k : k = Len(p.mine)  OBVIOUS
  <3>2. k \in Nat /\ i \in Nat /\ 1 <= i /\ i <= k /\ p.at + k <= RingBlocks  BY <2>2, <3>1
  <3>3. b \in 0 .. RingBlocks - 1  BY <2>2, <2>3, <3>2, <1>6
  <3>4. p.at + k <= at \/ at + count <= p.at  BY <2>1, <3>1
  <3>5. CASE p.at + k <= at  BY <2>2, <2>3, <3>2, <3>3, <3>5, <1>11
  <3>6. CASE at + count <= p.at  BY <2>2, <2>3, <3>2, <3>3, <3>6, <1>9, <1>11
  <3> QED  BY <3>3, <3>4, <3>5, <3>6
 <2>5. b - at + 1 \notin 1 .. Len(data)  BY <2>4, <1>6, <1>8, <1>9, <1>11
 <2>6. ring'[b] = ring[b]  BY <2>4, <2>5, <1>8, <1>16
 <2>7. ring[b] = p.mine[i]  BY <2>1, <2>3 DEF Holds
 <2> QED  BY <2>3, <2>6, <2>7
<1>20. Holds(new)'
 <2> SUFFICES ASSUME NEW i \in 1 .. Len(data)
              PROVE  ring'[at + i - 1] = data[i]
   BY <1>13 DEF Holds
 <2>1. PICK b : b = at + i - 1  OBVIOUS
 <2>2. b \in 0 .. RingBlocks - 1 /\ b - at + 1 = i  BY <2>1, <1>6, <1>8, <1>11
 <2> QED  BY <2>1, <2>2, <1>8, <1>16
<1>21. Copies'
 <2>1. \A p \in elements : Arrays!Intact(Later(p)) => Since(Later(p))'
  <3> SUFFICES ASSUME NEW p \in elements, Arrays!Intact(Later(p))
               PROVE  \/ p.at + (p.spent + count) = at + count
                      \/ /\ at + count <= p.at /\ p.at + (p.spent + count) <= at + count + RingBlocks
                         /\ at + count + RingBlocks <= p.at + (p.spent + count) + Arrays!Longest - 1
    BY <1>5, <1>14 DEF Since
  <3>1. p.spent \in Nat /\ p.at \in Nat  BY <1>6, PointerIs
  <3>2. \/ p.at + p.spent + count = at + count
        \/ /\ at + count <= p.at /\ p.at + p.spent + count <= at + count + RingBlocks
           /\ at + count + RingBlocks <= p.at + p.spent + count + Arrays!Longest - 1
    BY <1>18
  <3> QED  BY <3>1, <3>2, <1>6, <1>7, <1>9, <1>11
 <2>2. Since(new)'  BY <1>5, <1>13 DEF Since
 <2>3. \A p \in elements : Arrays!Intact(Later(p)) => Apart(Later(p), new) /\ Apart(new, Later(p))
  <3> SUFFICES ASSUME NEW p \in elements, Arrays!Intact(Later(p))
               PROVE  p.at + Len(p.mine) <= at \/ at + Len(data) <= p.at
    BY <1>13, <1>14 DEF Apart
  <3>1. p.at + Len(p.mine) <= at \/ at + count <= p.at  BY <1>18
  <3>2. p.at \in Nat  BY <1>6, PointerIs
  <3> QED  BY <3>1, <3>2, <1>8, <1>9, <1>11
 <2>4. \A p, q \in elements : Arrays!Intact(Later(p)) /\ Arrays!Intact(Later(q)) /\ Later(p) # Later(q) =>
           Apart(Later(p), Later(q))
  <3> SUFFICES ASSUME NEW p \in elements, NEW q \in elements, Arrays!Intact(Later(p)), Arrays!Intact(Later(q)), Later(p) # Later(q)
               PROVE  Apart(Later(p), Later(q))
    OBVIOUS
  <3>1. p # q /\ Arrays!Intact(p) /\ Arrays!Intact(q)  BY <1>18
  <3>2. Apart(p, q)  BY <3>1 DEF ArrayInv, Copies
  <3> QED  BY <3>2, <1>14 DEF Apart
 <2> SUFFICES ASSUME NEW r \in elements', Arrays!Intact(r)
              PROVE  /\ Since(r)' /\ Holds(r)'
                     /\ \A q \in elements' : Arrays!Intact(q) /\ r # q => Apart(r, q)
   BY DEF Copies, Arrays!Intact, Apart
 <2>5. Since(r)' /\ Holds(r)'  BY <2>1, <2>2, <1>15, <1>19, <1>20
 <2>6. ASSUME NEW q \in elements', Arrays!Intact(q), r # q
       PROVE  Apart(r, q)
   BY <2>3, <2>4, <2>6, <1>15
 <2> QED  BY <2>5, <2>6
<1>22. Arrays!ReleaseStoresOwn'  BY <1>5 DEF Arrays!ReleaseStoresOwn, Arrays!Quiet
<1> QED  BY <1>17, <1>21, <1>22 DEF ArrayInv

\* Native code writes through an intact pointer.
LEMMA GuestWritesKeeps ==
    ASSUME ArraySizes, ArrayInv, NEW p \in elements, NEW i \in 1 .. Arrays!Longest,
         NEW v \in Arrays!Value,
           Arrays!GuestWrites(p, i, v)
    PROVE  ArrayInv'
<1> DEFINE new == [p EXCEPT !.mine[i] = v]
<1>1. /\ Arrays!Intact(p) /\ i \in DOMAIN p.mine /\ ring' = [ring EXCEPT ![p.at + i - 1] = v]
      /\ elements' = (elements \ {p}) \cup {new} /\ last' = Arrays!Quiet
      /\ UNCHANGED <<arrays, bump, gets>>
  BY DEF Arrays!GuestWrites
<1>2. PICK d : d = [p.mine EXCEPT ![i] = v]  OBVIOUS
<1>3. new = [p EXCEPT !.mine = d]  BY <1>2
<1> HIDE DEF new
<1>4. /\ ring \in [0 .. RingBlocks - 1 -> Arrays!Value] /\ elements \subseteq Pointers /\ RingBlocks \in Nat
      /\ p \in Pointers
  BY DEF ArraySizes, ArrayInv, ArrayTypes
<1>5. /\ p.array \in Nat /\ p.at \in Nat /\ p.mine \in Seq(Arrays!Value) /\ p.spent \in Nat
      /\ p.id \in Nat /\ Len(p.mine) \in Nat /\ DOMAIN p.mine = 1 .. Len(p.mine)
  BY <1>4, PointerIs
<1>6. d \in Seq(Arrays!Value) /\ Len(d) = Len(p.mine) /\ \A j \in 1 .. Len(d) : d[j] = IF j = i THEN v ELSE p.mine[j]
  BY <1>1, <1>2, <1>5
<1>7. /\ new \in Pointers /\ new.array = p.array /\ new.at = p.at /\ new.mine = d
      /\ new.spent = p.spent
  BY <1>3, <1>4, <1>6 DEF Pointers
<1>8. Since(p) /\ Holds(p) /\ \A q \in elements : Arrays!Intact(q) /\ p # q => Apart(p, q)
  BY <1>1 DEF ArrayInv, Copies
<1>9. p.at + Len(p.mine) <= RingBlocks  BY DEF ArrayInv, ArrayTypes
<1>10. PICK b : b = p.at + i - 1  OBVIOUS
<1>11. b \in 0 .. RingBlocks - 1 /\ i \in 1 .. Len(p.mine)  BY <1>1, <1>4, <1>5, <1>9, <1>10
<1>12. /\ ring' \in [0 .. RingBlocks - 1 -> Arrays!Value] /\ ring'[b] = v
       /\ \A c \in 0 .. RingBlocks - 1 : c # b => ring'[c] = ring[c]
 <2>1. ring' = [ring EXCEPT ![b] = v]  BY <1>1, <1>10
 <2> QED  BY <2>1, <1>4, <1>11
<1>13. \A q \in elements' : q = new \/ (q \in elements /\ q # p)  BY <1>1
<1>14. Arrays!Intact(new)  BY <1>1, <1>7 DEF Arrays!Intact
<1>15. \A q \in elements : q # p /\ Arrays!Intact(q) => Apart(new, q) /\ Apart(q, new)
 <2> SUFFICES ASSUME NEW q \in elements, q # p, Arrays!Intact(q)
              PROVE  Apart(new, q) /\ Apart(q, new)
   OBVIOUS
 <2>1. Apart(p, q)  BY <1>8
 <2> QED  BY <2>1, <1>6, <1>7 DEF Apart
<1>16. ArrayTypes'
 <2>1. elements' \subseteq Pointers  BY <1>4, <1>7, <1>13
 <2>2. \A q \in elements' : /\ q.array \in DOMAIN arrays /\ Len(q.mine) = Len(arrays[q.array].data)
                            /\ q.at + Len(q.mine) <= RingBlocks /\ Len(q.mine) <= q.spent
   BY <1>6, <1>7, <1>13 DEF ArrayInv, ArrayTypes
 <2> QED  BY <2>1, <2>2, <1>1, <1>12 DEF ArrayInv, ArrayTypes
<1>17. Holds(new)'
 <2> SUFFICES ASSUME NEW j \in 1 .. Len(d)
              PROVE  ring'[p.at + j - 1] = d[j]
   BY <1>7 DEF Holds
 <2>1. PICK c : c = p.at + j - 1  OBVIOUS
 <2>2. j \in Nat /\ c \in 0 .. RingBlocks - 1 /\ (c = b <=> j = i)
  <3>1. PICK k : k = Len(p.mine)  OBVIOUS
  <3>2. k \in Nat /\ p.at + k <= RingBlocks /\ j \in 1 .. k /\ i \in 1 .. k
    BY <3>1, <1>5, <1>6, <1>9, <1>11
  <3>3. c \in 0 .. RingBlocks - 1  BY <2>1, <3>2, <1>4, <1>5
  <3>4. c = b <=> j = i  BY <2>1, <3>2, <1>5, <1>10
  <3> QED  BY <3>2, <3>3, <3>4
 <2>3. ring[c] = p.mine[j]  BY <2>1, <1>6, <1>8 DEF Holds
 <2> QED  BY <2>1, <2>2, <2>3, <1>6, <1>12
<1>18. \A q \in elements : q # p /\ Arrays!Intact(q) => Holds(q)'
 <2> SUFFICES ASSUME NEW q \in elements, q # p, Arrays!Intact(q), NEW j \in 1 .. Len(q.mine)
              PROVE  ring'[q.at + j - 1] = q.mine[j]
   BY DEF Holds
 <2>1. Holds(q) /\ q.at + Len(q.mine) <= RingBlocks  BY DEF ArrayInv, ArrayTypes, Copies
 <2>2. q.at \in Nat /\ Len(q.mine) \in Nat  BY <1>4, PointerIs
 <2>3. PICK c : c = q.at + j - 1  OBVIOUS
 <2>4. c \in 0 .. RingBlocks - 1  BY <2>1, <2>2, <2>3, <1>4
 <2>5. p.at + Len(p.mine) <= q.at \/ q.at + Len(q.mine) <= p.at  BY <1>8 DEF Apart
 <2>6. c # b
  <3>1. CASE p.at + Len(p.mine) <= q.at  BY <2>2, <2>3, <3>1, <1>5, <1>10, <1>11
  <3>2. CASE q.at + Len(q.mine) <= p.at
   <4>1. PICK k : k = Len(q.mine)  OBVIOUS
   <4>2. k \in Nat /\ j \in 1 .. k /\ q.at + k <= p.at  BY <2>2, <3>2, <4>1
   <4>3. c < p.at  BY <2>2, <2>3, <4>2, <1>5
   <4>4. i \in Nat /\ 1 <= i  BY <1>5, <1>11
   <4>5. p.at <= b  BY <4>4, <1>5, <1>10
   <4> QED  BY <4>3, <4>5, <2>4, <1>5, <1>11
  <3> QED  BY <2>5, <3>1, <3>2
 <2>7. ring[c] = q.mine[j]  BY <2>1, <2>3 DEF Holds
 <2> QED  BY <2>3, <2>4, <2>6, <2>7, <1>12
<1>19. Copies'
 <2>1. Since(new)'  BY <1>1, <1>7, <1>8 DEF Since
 <2>2. \A q \in elements : q # p /\ Arrays!Intact(q) => Since(q)'
   BY <1>1 DEF ArrayInv, Copies, Since
 <2> SUFFICES ASSUME NEW r \in elements', Arrays!Intact(r)
              PROVE  /\ Since(r)' /\ Holds(r)'
                     /\ \A q \in elements' : Arrays!Intact(q) /\ r # q => Apart(r, q)
   BY DEF Copies, Arrays!Intact, Apart
 <2>3. Since(r)' /\ Holds(r)'  BY <2>1, <2>2, <1>13, <1>17, <1>18
 <2>4. ASSUME NEW q \in elements', Arrays!Intact(q), r # q
       PROVE  Apart(r, q)
  <3>1. CASE r \in elements /\ q \in elements  BY <2>4, <3>1 DEF ArrayInv, Copies
  <3>2. CASE r = new \/ q = new  BY <2>4, <3>2, <1>13, <1>15
  <3> QED  BY <3>1, <3>2, <1>13
 <2> QED  BY <2>3, <2>4
<1>20. Arrays!ReleaseStoresOwn'  BY <1>1 DEF Arrays!ReleaseStoresOwn, Arrays!Quiet
<1> QED  BY <1>16, <1>19, <1>20 DEF ArrayInv

\* What the guest finds under a pointer: values, as many as the array has, and
\* its own while the pointer is intact.
LEMMA UnderIs ==
    ASSUME ArraySizes, ArrayInv, NEW p \in elements
    PROVE  /\ Arrays!Under(p) \in Seq(Arrays!Value) /\ Len(Arrays!Under(p)) = Len(arrays[p.array].data)
           /\ Arrays!Intact(p) => Arrays!Under(p) = p.mine
<1>1. /\ arrays \in Seq(Elements) /\ ring \in [0 .. RingBlocks - 1 -> Arrays!Value]
      /\ p \in Pointers /\ RingBlocks \in Nat /\ p.array \in DOMAIN arrays
      /\ Len(p.mine) = Len(arrays[p.array].data) /\ p.at + Len(p.mine) <= RingBlocks
  BY DEF ArraySizes, ArrayInv, ArrayTypes
<1>2. p.at \in Nat /\ p.mine \in Seq(Arrays!Value) /\ Len(p.mine) \in Nat  BY <1>1, PointerIs
<1>3. PICK n : n = Len(p.mine)  OBVIOUS
<1>4. arrays[p.array].data \in Seq(Arrays!Value)
 <2>1. arrays[p.array] \in Elements  BY <1>1
 <2> QED  BY <2>1 DEF Elements
<1>5. DOMAIN arrays[p.array].data = 1 .. n  BY <1>1, <1>3, <1>4
<1>6. Arrays!Under(p) = [i \in 1 .. n |-> ring[p.at + i - 1]]  BY <1>5 DEF Arrays!Under
<1>7. n \in Nat /\ \A i \in 1 .. n : p.at + i - 1 \in 0 .. RingBlocks - 1  BY <1>1, <1>2, <1>3
<1>8. \A i \in 1 .. n : ring[p.at + i - 1] \in Arrays!Value  BY <1>1, <1>7
<1>9. Arrays!Under(p) \in Seq(Arrays!Value) /\ Len(Arrays!Under(p)) = n  BY <1>6, <1>7, <1>8
<1>10. ASSUME Arrays!Intact(p) PROVE Arrays!Under(p) = p.mine
 <2>1. Holds(p)  BY <1>10 DEF ArrayInv, Copies
 <2>2. \A i \in 1 .. n : ring[p.at + i - 1] = p.mine[i]  BY <2>1, <1>3 DEF Holds
 <2>3. p.mine = [i \in 1 .. n |-> p.mine[i]]  BY <1>2, <1>3
 <2> QED  BY <2>2, <2>3, <1>6
<1> QED  BY <1>1, <1>3, <1>9, <1>10

\* An array's elements are replaced by as many others.
LEMMA StoredKeeps ==
    ASSUME ArraySizes, ArrayInv, NEW h \in DOMAIN arrays, NEW d \in Seq(Arrays!Value),
           Len(d) = Len(arrays[h].data), arrays' = [arrays EXCEPT ![h].data = d],
           elements' \subseteq elements, UNCHANGED <<ring, bump, gets>>
    PROVE  ArrayTypes' /\ Copies' /\ arrays'[h].data = d
<1>1. arrays \in Seq(Elements) /\ arrays[h] \in Elements /\ elements \subseteq Pointers
  BY DEF ArrayInv, ArrayTypes
<1>2. PICK e : e = [arrays[h] EXCEPT !.data = d]  OBVIOUS
<1>3. e \in Elements /\ e.data = d  BY <1>1, <1>2 DEF Elements
<1>4. arrays' = [arrays EXCEPT ![h] = e]  BY <1>2
<1>9. arrays \in [1 .. Len(arrays) -> Elements] /\ Len(arrays) \in Nat /\ h \in 1 .. Len(arrays)
  BY <1>1
<1>10. arrays' \in [1 .. Len(arrays) -> Elements]  BY <1>3, <1>4, <1>9
<1>5. /\ arrays' \in Seq(Elements) /\ DOMAIN arrays' = DOMAIN arrays
      /\ \A k \in DOMAIN arrays : arrays'[k] = IF k = h THEN e ELSE arrays[k]
  BY <1>3, <1>4, <1>9, <1>10
<1>6. \A k \in DOMAIN arrays : Len(arrays'[k].data) = Len(arrays[k].data)  BY <1>3, <1>5
<1>7. ArrayTypes'
 <2>1. \A k \in DOMAIN arrays' : Len(arrays'[k].data) \in Lengths
   BY <1>5, <1>6 DEF ArrayInv, ArrayTypes
 <2>2. \A q \in elements' : /\ q.array \in DOMAIN arrays' /\ Len(q.mine) = Len(arrays'[q.array].data)
                            /\ q.at + Len(q.mine) <= RingBlocks /\ Len(q.mine) <= q.spent
   BY <1>5, <1>6 DEF ArrayInv, ArrayTypes
 <2>3. elements' \subseteq Pointers  BY <1>1
 <2> QED  BY <1>5, <2>1, <2>2, <2>3 DEF ArrayInv, ArrayTypes
<1>8. Copies'  BY DEF ArrayInv, Copies, Arrays!Intact, Since, Holds, Apart
<1> QED  BY <1>3, <1>5, <1>7, <1>8

\* Elements are released.
LEMMA ReleaseElementsKeeps ==
    ASSUME ArraySizes, ArrayInv, NEW p \in elements, NEW how, Arrays!ReleaseElements(p, how)
    PROVE  ArrayInv'
<1>1. PICK d : d = Arrays!Under(p)  OBVIOUS
<1>2. d \in Seq(Arrays!Value) /\ Len(d) = Len(arrays[p.array].data) /\ (Arrays!Intact(p) => d = p.mine)
  BY <1>1, UnderIs
<1>3. p.array \in DOMAIN arrays  BY DEF ArrayInv, ArrayTypes
<1>4. /\ arrays' = IF how = "abort" THEN arrays ELSE [arrays EXCEPT ![p.array].data = d]
      /\ elements' \subseteq elements /\ UNCHANGED <<ring, bump, gets>>
      /\ last'.array = p.array /\ last'.safe = Arrays!Intact(p)
      /\ last'.expect = IF how = "abort" THEN arrays[p.array].data ELSE p.mine
  BY <1>1 DEF Arrays!ReleaseElements
<1>5. CASE how = "abort"
 <2>1. arrays' = arrays  BY <1>4, <1>5
 <2>2. ArrayTypes'  BY <2>1, <1>4 DEF ArrayInv, ArrayTypes
 <2>3. Copies'  BY <2>1, <1>4 DEF ArrayInv, Copies, Arrays!Intact, Since, Holds, Apart
 <2>4. Arrays!ReleaseStoresOwn'  BY <2>1, <1>4, <1>5 DEF Arrays!ReleaseStoresOwn
 <2> QED  BY <2>2, <2>3, <2>4 DEF ArrayInv
<1>6. CASE how # "abort"
 <2>1. ArrayTypes' /\ Copies' /\ arrays'[p.array].data = d
  <3>1. arrays' = [arrays EXCEPT ![p.array].data = d]  BY <1>4, <1>6
  <3> QED  BY <3>1, <1>2, <1>3, <1>4, StoredKeeps
 <2>2. Arrays!ReleaseStoresOwn'  BY <2>1, <1>2, <1>4, <1>6 DEF Arrays!ReleaseStoresOwn
 <2> QED  BY <2>1, <2>2 DEF ArrayInv
<1> QED  BY <1>5, <1>6

\* A region of an array is set.
LEMMA SetRegionKeeps ==
    ASSUME ArraySizes, ArrayInv, NEW type \in Arrays!Types, NEW h \in DOMAIN arrays,
         NEW start \in Lengths,
           NEW v \in Arrays!Value, Arrays!SetRegion(type, h, start, 1, v)
    PROVE  ArrayInv'
<1>1. arrays \in Seq(Elements) /\ arrays[h] \in Elements  BY DEF ArrayInv, ArrayTypes
<1>2. arrays[h].data \in Seq(Arrays!Value)  BY <1>1 DEF Elements
<1>3. PICK d : d = [i \in DOMAIN arrays[h].data |->
                       IF i > start /\ i <= start + 1 THEN v ELSE arrays[h].data[i]]
  OBVIOUS
<1>4. arrays' = [arrays EXCEPT ![h].data = d] /\ last' = Arrays!Quiet /\ UNCHANGED <<ring, bump, elements, gets>>
  BY <1>3 DEF Arrays!SetRegion
<1>5. d \in Seq(Arrays!Value) /\ Len(d) = Len(arrays[h].data)
 <2>1. PICK c : c = arrays[h].data  OBVIOUS
 <2>2. c \in Seq(Arrays!Value) /\ DOMAIN c = 1 .. Len(c) /\ Len(c) \in Nat  BY <2>1, <1>2
 <2>3. d = [i \in 1 .. Len(c) |-> IF i > start /\ i <= start + 1 THEN v ELSE c[i]]
   BY <2>1, <2>2, <1>3
 <2>4. \A i \in 1 .. Len(c) : (IF i > start /\ i <= start + 1 THEN v ELSE c[i]) \in Arrays!Value
   BY <2>2
 <2>5. PICK F : F = [i \in 1 .. Len(c) |-> IF i > start /\ i <= start + 1 THEN v ELSE c[i]]
   OBVIOUS
 <2>6. F \in [1 .. Len(c) -> Arrays!Value]  BY <2>4, <2>5
 <2>7. F \in Seq(Arrays!Value) /\ Len(F) = Len(c)  BY <2>2, <2>6
 <2> QED  BY <2>1, <2>3, <2>5, <2>7
<1>6. ArrayTypes' /\ Copies'  BY <1>4, <1>5, StoredKeeps
<1>7. Arrays!ReleaseStoresOwn'  BY <1>4 DEF Arrays!ReleaseStoresOwn, Arrays!Quiet
<1> QED  BY <1>6, <1>7 DEF ArrayInv

\* The invariant of arrays implies what the run checks.
LEMMA ArrayInvHolds ==
    ASSUME ArraySizes, ArrayInv
    PROVE  Arrays!TypeOK /\ Arrays!ArraysSound
<1>1. \A h \in DOMAIN arrays : arrays[h].type \in Arrays!Types
 <2>1. \A h \in DOMAIN arrays : arrays[h] \in Elements  BY DEF ArrayInv, ArrayTypes
 <2> QED  BY <2>1 DEF Elements
<1>2. Arrays!TypeOK  BY <1>1 DEF ArrayInv, ArrayTypes, Arrays!TypeOK
<1>3. Arrays!ArraysSound  BY UnderIs DEF ArrayInv, Arrays!ArraysSound, Arrays!ElementsHold
<1> QED  BY <1>2, <1>3

\* A guest pointer that the ring has not come round to holds the array's own
\* bytes, and releasing it stores them back.
THEOREM ArraysStaySound ==
    ASSUME ArraySizes
    PROVE  Arrays!Spec => [](Arrays!TypeOK /\ Arrays!ArraysSound)
<1>1. ASSUME Arrays!Init PROVE ArrayInv
 <2>1. 0 \in Arrays!Value  BY DEF Arrays!Value
 <2>2. ArrayTypes  BY <1>1, <2>1 DEF Arrays!Init, ArrayTypes, ArraySizes
 <2>3. Copies /\ Arrays!ReleaseStoresOwn
   BY <1>1 DEF Arrays!Init, Copies, Arrays!ReleaseStoresOwn, Arrays!Quiet
 <2> QED  BY <2>2, <2>3 DEF ArrayInv
<1>2. ASSUME ArrayInv, Arrays!Next PROVE ArrayInv'
 <2>1. 1 \in Arrays!Value  BY DEF Arrays!Value
 <2>2. CASE \E type \in Arrays!Types, n \in Lengths : Arrays!NewArray(type, n, 0)
   BY <1>2, <2>2, NewArrayKeeps
 <2>3. CASE \E type \in Arrays!ElementTypes, h \in DOMAIN arrays : Arrays!GetElements(type, h)
   BY <1>2, <2>3, GetElementsKeeps
 <2>4. CASE \E p \in elements, i \in 1 .. Arrays!Longest : Arrays!GuestWrites(p, i, 1)
   BY <1>2, <2>1, <2>4, GuestWritesKeeps
 <2>5. CASE \E p \in elements, how \in {"store", "commit", "abort"} : Arrays!ReleaseElements(p, how)
   BY <1>2, <2>5, ReleaseElementsKeeps
 <2>6. CASE \E type \in Arrays!Types, h \in DOMAIN arrays, start \in Lengths : Arrays!SetRegion(type, h, start, 1, 1)
   BY <1>2, <2>1, <2>6, SetRegionKeeps
 <2> QED  BY <1>2, <2>2, <2>3, <2>4, <2>5, <2>6 DEF Arrays!Next
<1>3. ASSUME ArrayInv, UNCHANGED Arrays!vars PROVE ArrayInv'
  BY <1>3 DEF ArrayInv, ArrayTypes, Copies, Arrays!ReleaseStoresOwn, Arrays!Intact, Since, Holds,
     Apart, Arrays!vars
<1>4. ArrayInv => Arrays!TypeOK /\ Arrays!ArraysSound  BY ArrayInvHolds
<1> QED  BY <1>1, <1>2, <1>3, <1>4, PTL DEF Arrays!Spec

----
(* Java classes and calls: a handle stands for what was asked, a method for*)
(* the function registered last, and a call returns its own value.         *)

CONSTANTS Buffers, MethodNames, Functions, NativeExports, MaxJniHandles, MaxDepth
VARIABLES text, interned, jniHandles, natives, thrown, jniFrames, regs, retval, jniAnswer, bound,
          callDone

Jni == INSTANCE JniClasses WITH
    Names <- MethodNames, Exports <- NativeExports, MaxHandles <- MaxJniHandles,
    handles <- jniHandles, frames <- jniFrames, answer <- jniAnswer, done <- callDone

\* No function of the guest is the one that stands for none.
ClassSizes == Jni!Nobody \notin Functions

Members == {"class", "method", "field"}
Kinds == Members \cup {"string", "object"}
Labels == MethodNames \cup {"pkg", Jni!Nobody}
Entries == [kind : Kinds, of : Nat, name : Labels]
Natives == [name : MethodNames, fn : Functions]
Callees == Functions \cup {e[2] : e \in NativeExports}
Runs == [fn : Callees, saved : Callees \cup {"host"}, inner : 0 .. 2]

HandleTypes ==
    /\ jniHandles \in Seq(Entries) /\ natives \in Seq(Seq(Natives)) /\ Len(natives) = Len(jniHandles)
    /\ \A h \in DOMAIN jniHandles : jniHandles[h].of # 0 => jniHandles[h].of \in Jni!Classes
OtherTypes ==
    /\ text \in [Buffers -> MethodNames] /\ interned \in [Buffers -> MethodNames \cup {Jni!Nobody}]
    /\ thrown \in BOOLEAN
RunTypes ==
    /\ jniFrames \in Seq(Runs) /\ regs \in Callees \cup {"host"} /\ retval \in 0 .. 2

\* A class, method or field is entered once.
EnteredOnce ==
    \A g, h \in DOMAIN jniHandles : jniHandles[g].kind \in Members /\ jniHandles[g] = jniHandles[h] => g = h

\* The last answer is the entry that was asked for.
Answered ==
    jniAnswer # Jni!None => /\ jniAnswer.handle \in DOMAIN jniHandles
                            /\ jniHandles[jniAnswer.handle] = Jni!Entry(jniAnswer.kind, jniAnswer.of, jniAnswer.name)

\* What was registered is in the table of its class, and nothing else is under
\* its name.
Registered ==
    \A b \in bound :
        /\ b.class \in Jni!Classes /\ b.fn \in Functions /\ b.name \in MethodNames
        /\ \E i \in DOMAIN natives[b.class] : natives[b.class][i].name = b.name
        /\ \A i \in DOMAIN natives[b.class] :
               natives[b.class][i].name = b.name => natives[b.class][i].fn = b.fn

\* Outside and inside calls, the result is what the innermost call under way has
\* been given so far.
Results ==
    /\ jniFrames # <<>> => retval = jniFrames[Len(jniFrames)].inner
    /\ callDone.got = callDone.gave

ClassInv ==
    /\ HandleTypes /\ OtherTypes /\ RunTypes
    /\ EnteredOnce /\ Answered /\ Registered /\ Results

----
\* An entry of the handle table.
LEMMA EntryIs ==
    ASSUME NEW h \in DOMAIN jniHandles, HandleTypes
    PROVE  /\ jniHandles[h] \in Entries /\ natives[h] \in Seq(Natives) /\ h \in Nat
           /\ jniHandles[h] = Jni!Entry(jniHandles[h].kind, jniHandles[h].of, jniHandles[h].name)
<1>1. /\ jniHandles \in Seq(Entries) /\ natives \in Seq(Seq(Natives)) /\ Len(natives) = Len(jniHandles)
  BY DEF HandleTypes
<1>2. jniHandles[h] \in Entries /\ natives[h] \in Seq(Natives) /\ h \in Nat  BY <1>1
<1>3. jniHandles[h] = [kind |-> jniHandles[h].kind, of |-> jniHandles[h].of, name |-> jniHandles[h].name]
  BY <1>2 DEF Entries
<1> QED  BY <1>2, <1>3 DEF Jni!Entry

\* The function that find_native() answers is one of the table's.
LEMMA FindNativeIs ==
    ASSUME NEW h \in DOMAIN jniHandles, NEW n, HandleTypes
    PROVE  \/ Jni!Indexes(h, n) = {} /\ Jni!FindNative(h, n) = Jni!Nobody
           \/ \E i \in DOMAIN natives[h] : /\ natives[h][i].name = n
                                           /\ Jni!FindNative(h, n) = natives[h][i].fn
<1>1. natives[h] \in Seq(Natives)  BY EntryIs
<1>2. PICK T : T = Jni!Indexes(h, n)  OBVIOUS
<1>3. T \subseteq DOMAIN natives[h] /\ DOMAIN natives[h] \subseteq Nat
  BY <1>1, <1>2 DEF Jni!Indexes
<1>4. CASE T = {}  BY <1>2, <1>4 DEF Jni!FindNative
<1>5. CASE T # {}
 <2>1. \E x \in T : \A y \in T : x <= y
  <3>1. T \in SUBSET Nat  BY <1>3
  <3> QED  BY <3>1, <1>5, LeastNumber
 <2>2. PICK i : i = CHOOSE k \in T : \A j \in T : k <= j  OBVIOUS
 <2>3. i \in T  BY <2>1, <2>2
 <2>4. Jni!FindNative(h, n) = natives[h][i].fn  BY <2>2, <1>2, <1>5 DEF Jni!FindNative
 <2> QED  BY <2>3, <2>4, <1>2, <1>3 DEF Jni!Indexes
<1> QED  BY <1>4, <1>5

\* A handle is allocated.
LEMMA AllocKeeps ==
    ASSUME ClassInv, NEW e \in Entries, e.of = 0 \/ e.of \in Jni!Classes,
           e.kind \in Members => \A h \in DOMAIN jniHandles : jniHandles[h] # e,
           jniHandles' = Append(jniHandles, e), natives' = Append(natives, <<>>), bound' = bound
    PROVE  /\ HandleTypes' /\ EnteredOnce' /\ Registered'
           /\ Len(jniHandles) + 1 \in DOMAIN jniHandles' /\ jniHandles'[Len(jniHandles) + 1] = e
<1>1. /\ jniHandles \in Seq(Entries) /\ natives \in Seq(Seq(Natives)) /\ Len(natives) = Len(jniHandles)
      /\ Len(jniHandles) \in Nat
  BY DEF ClassInv, HandleTypes
<1>2. <<>> \in Seq(Natives)  OBVIOUS
<1>3. PICK n : n = Len(jniHandles)  OBVIOUS
<1>4. /\ jniHandles' \in Seq(Entries) /\ Len(jniHandles') = n + 1 /\ jniHandles'[n + 1] = e
      /\ \A h \in 1 .. n : jniHandles'[h] = jniHandles[h]
  BY <1>1, <1>3, AppendProperties
<1>5. /\ natives' \in Seq(Seq(Natives)) /\ Len(natives') = n + 1 /\ natives'[n + 1] = <<>>
      /\ \A h \in 1 .. n : natives'[h] = natives[h]
  BY <1>1, <1>2, <1>3, AppendProperties
<1>6. n \in Nat /\ DOMAIN jniHandles = 1 .. n /\ DOMAIN jniHandles' = 1 .. (n + 1)
  BY <1>1, <1>3, <1>4
<1>7. \A h \in DOMAIN jniHandles' : h = n + 1 \/ h \in DOMAIN jniHandles  BY <1>6
<1>8. Jni!Classes \subseteq Jni!Classes'  BY <1>4, <1>6 DEF Jni!Classes
<1>9. HandleTypes'
 <2>1. \A h \in DOMAIN jniHandles : jniHandles[h].of # 0 => jniHandles[h].of \in Jni!Classes
   BY DEF ClassInv, HandleTypes
 <2>2. \A h \in DOMAIN jniHandles' : jniHandles'[h].of # 0 => jniHandles'[h].of \in Jni!Classes'
   BY <2>1, <1>4, <1>6, <1>7, <1>8
 <2> QED  BY <2>2, <1>4, <1>5 DEF HandleTypes
<1>10. EnteredOnce'
 <2> SUFFICES ASSUME NEW g \in DOMAIN jniHandles', NEW h \in DOMAIN jniHandles',
                     jniHandles'[g].kind \in Members, jniHandles'[g] = jniHandles'[h]
              PROVE  g = h
   BY DEF EnteredOnce
 <2>1. CASE g \in DOMAIN jniHandles /\ h \in DOMAIN jniHandles
   BY <2>1, <1>4, <1>6 DEF ClassInv, EnteredOnce
 <2>2. CASE g = n + 1 /\ h \in DOMAIN jniHandles  BY <2>2, <1>4, <1>6
 <2>3. CASE h = n + 1 /\ g \in DOMAIN jniHandles  BY <2>3, <1>4, <1>6
 <2> QED  BY <2>1, <2>2, <2>3, <1>7
<1>11. Registered'
 <2> SUFFICES ASSUME NEW b \in bound
              PROVE  /\ b.class \in Jni!Classes' /\ b.fn \in Functions /\ b.name \in MethodNames
                     /\ \E i \in DOMAIN natives'[b.class] : natives'[b.class][i].name = b.name
                     /\ \A i \in DOMAIN natives'[b.class] :
                            natives'[b.class][i].name = b.name => natives'[b.class][i].fn = b.fn
   BY DEF Registered
 <2>1. /\ b.class \in Jni!Classes /\ b.fn \in Functions /\ b.name \in MethodNames
       /\ \E i \in DOMAIN natives[b.class] : natives[b.class][i].name = b.name
       /\ \A i \in DOMAIN natives[b.class] :
              natives[b.class][i].name = b.name => natives[b.class][i].fn = b.fn
   BY DEF ClassInv, Registered
 <2>2. natives'[b.class] = natives[b.class]  BY <2>1, <1>5, <1>6 DEF Jni!Classes
 <2> QED  BY <2>1, <2>2, <1>8
<1> QED  BY <1>3, <1>4, <1>6, <1>9, <1>10, <1>11

\* A char argument is read into the string table.
LEMMA InternKeeps ==
    ASSUME OtherTypes, NEW a \in Buffers
    PROVE  /\ Jni!InternCharArg(a) \in [Buffers -> MethodNames \cup {Jni!Nobody}]
           /\ Jni!InternCharArg(a)[a] = text[a] /\ text[a] \in MethodNames
  BY DEF OtherTypes, Jni!InternCharArg

\* The handle table and what is registered stay as they are.
LEMMA TableKept ==
    ASSUME ClassInv, UNCHANGED <<jniHandles, natives, bound>>
    PROVE  HandleTypes' /\ EnteredOnce' /\ Registered'
  BY DEF ClassInv, HandleTypes, EnteredOnce, Registered, Jni!Classes

\* A name is looked up, and entered when it is not there.
LEMMA AskKeeps ==
    ASSUME ClassInv, NEW kind \in Members, NEW of \in Nat, of = 0 \/ of \in Jni!Classes,
           NEW a \in Buffers, Jni!Ask(kind, of, a), bound' = bound,
           natives' = IF Len(jniHandles') > Len(jniHandles) THEN Append(natives, <<>>) ELSE natives
    PROVE  /\ HandleTypes' /\ EnteredOnce' /\ Registered' /\ Answered'
           /\ interned' \in [Buffers -> MethodNames \cup {Jni!Nobody}] /\ callDone' = Jni!Idle
<1>1. PICK name : name = text[a]  OBVIOUS
<1>2. PICK e : e = Jni!Entry(kind, of, name)  OBVIOUS
<1>3. /\ interned' \in [Buffers -> MethodNames \cup {Jni!Nobody}] /\ interned'[a] = name /\ name \in MethodNames
  BY <1>1, InternKeeps DEF ClassInv, Jni!Ask
<1>4. /\ jniHandles' = Jni!Made(kind, of, name) /\ callDone' = Jni!Idle
      /\ jniAnswer' = [handle |-> Jni!Found(kind, of, name), kind |-> kind, of |-> of, name |-> name]
  BY <1>1, <1>3 DEF Jni!Ask
<1>5. e \in Entries /\ e.kind = kind /\ e.of = of
  BY <1>2, <1>3 DEF Jni!Entry, Entries, Members, Kinds, Labels
<1>6. Jni!Known(kind, of, name) = {h \in DOMAIN jniHandles : jniHandles[h] = e}
  BY <1>2 DEF Jni!Known
<1>7. jniHandles \in Seq(Entries) /\ Len(jniHandles) \in Nat /\ DOMAIN jniHandles = 1 .. Len(jniHandles)
  BY DEF ClassInv, HandleTypes
<1>8. CASE Jni!Known(kind, of, name) = {}
 <2>1. jniHandles' = Append(jniHandles, e)  BY <1>2, <1>4, <1>8 DEF Jni!Made
 <2>2. Len(jniHandles') = Len(jniHandles) + 1  BY <2>1, <1>5, <1>7, AppendProperties
 <2>3. natives' = Append(natives, <<>>)  BY <2>2, <1>7
 <2>4. \A h \in DOMAIN jniHandles : jniHandles[h] # e  BY <1>6, <1>8
 <2>5. /\ HandleTypes' /\ EnteredOnce' /\ Registered'
       /\ Len(jniHandles) + 1 \in DOMAIN jniHandles' /\ jniHandles'[Len(jniHandles) + 1] = e
   BY <2>1, <2>3, <2>4, <1>5, AllocKeeps
 <2>6. Jni!Found(kind, of, name) = Len(jniHandles) + 1  BY <1>8 DEF Jni!Found
 <2>7. Answered'  BY <2>5, <2>6, <1>2, <1>4 DEF Answered
 <2> QED  BY <2>5, <2>7, <1>3, <1>4
<1>9. CASE Jni!Known(kind, of, name) # {}
 <2>1. jniHandles' = jniHandles  BY <1>4, <1>9 DEF Jni!Made
 <2>2. natives' = natives  BY <2>1, <1>7
 <2>3. HandleTypes' /\ EnteredOnce' /\ Registered'  BY <2>1, <2>2, TableKept
 <2>4. Jni!Found(kind, of, name) \in Jni!Known(kind, of, name)  BY <1>9 DEF Jni!Found
 <2>5. Jni!Found(kind, of, name) \in DOMAIN jniHandles /\ jniHandles[Jni!Found(kind, of, name)] = e
   BY <2>4, <1>6
 <2>6. Answered'  BY <2>1, <2>5, <1>2, <1>4 DEF Answered
 <2> QED  BY <2>3, <2>6, <1>3, <1>4
<1> QED  BY <1>8, <1>9

\* A fresh object takes a handle.
LEMMA ObjectKeeps ==
    ASSUME ClassInv, NEW limit, NEW kind \in {"string", "object"}, NEW name \in Labels,
           Jni!NewObjectUpTo(limit, kind, name), bound' = bound
    PROVE  HandleTypes' /\ EnteredOnce' /\ Registered' /\ Answered' /\ callDone' = Jni!Idle
<1>1. PICK e : e = Jni!Entry(kind, 0, name)  OBVIOUS
<1>2. e \in Entries /\ e.kind = kind /\ e.of = 0 /\ e.kind \notin Members
  BY <1>1 DEF Jni!Entry, Entries, Members, Kinds
<1>3. /\ jniHandles' = Append(jniHandles, e) /\ natives' = Append(natives, <<>>) /\ callDone' = Jni!Idle
      /\ jniAnswer' = [handle |-> Len(jniHandles) + 1, kind |-> kind, of |-> 0, name |-> name]
  BY <1>1 DEF Jni!NewObjectUpTo
<1>4. /\ HandleTypes' /\ EnteredOnce' /\ Registered'
      /\ Len(jniHandles) + 1 \in DOMAIN jniHandles' /\ jniHandles'[Len(jniHandles) + 1] = e
  BY <1>2, <1>3, AllocKeeps
<1>5. Answered'  BY <1>1, <1>3, <1>4 DEF Answered
<1> QED  BY <1>3, <1>4, <1>5

\* A step of the guest that is no call leaves the calls alone.
LEMMA ResultsKept ==
    ASSUME ClassInv, UNCHANGED <<jniFrames, regs, retval>>, callDone' = Jni!Idle
    PROVE  RunTypes' /\ Results'
  BY DEF ClassInv, RunTypes, Results, Jni!Idle

\* A native is registered.
LEMMA RegisterKeeps ==
    ASSUME ClassInv, NEW h \in DOMAIN jniHandles, NEW a \in Buffers, NEW f \in Functions,
           Jni!RegisterNatives(h, a, f)
    PROVE  ClassInv'
<1>1. PICK n : n = text[a]  OBVIOUS
<1>2. n \in MethodNames  BY <1>1 DEF ClassInv, OtherTypes
<1>3. PICK t : t = natives[h]  OBVIOUS
<1>4. PICK u : u = Jni!RegisterNative(t, n, f)  OBVIOUS
<1>5. PICK e : e = [name |-> n, fn |-> f]  OBVIOUS
<1>6. /\ h \in Jni!Classes /\ natives' = [natives EXCEPT ![h] = u]
      /\ bound' = {b \in bound : ~(b.class = h /\ b.name = n)}
                    \cup {[class |-> h, name |-> n, fn |-> f]}
      /\ jniAnswer' = Jni!None /\ callDone' = Jni!Idle
      /\ UNCHANGED <<text, interned, jniHandles, thrown, jniFrames, regs, retval>>
  BY <1>1, <1>3, <1>4 DEF Jni!RegisterNatives
<1>7. /\ jniHandles \in Seq(Entries) /\ natives \in Seq(Seq(Natives)) /\ Len(natives) = Len(jniHandles)
  BY DEF ClassInv, HandleTypes
<1>8. t \in Seq(Natives) /\ e \in Natives /\ e.name = n /\ e.fn = f
 <2>1. t \in Seq(Natives)  BY <1>3, <1>7
 <2> QED  BY <2>1, <1>2, <1>5 DEF Natives
<1>9. /\ u \in Seq(Natives)
      /\ \E i \in DOMAIN u : u[i].name = n
      /\ \A i \in DOMAIN u : u[i].name = n => u[i].fn = f
      /\ \A m \in MethodNames : m # n =>
             /\ \A i \in DOMAIN t : t[i].name = m => i \in DOMAIN u /\ u[i] = t[i]
             /\ \A i \in DOMAIN u : u[i].name = m => i \in DOMAIN t /\ u[i] = t[i]
 <2>1. CASE \E i \in DOMAIN t : t[i].name = n
  <3>1. u = [i \in DOMAIN t |-> IF t[i].name = n THEN e ELSE t[i]]
    BY <2>1, <1>4, <1>5 DEF Jni!RegisterNative
  <3>2. t \in [1 .. Len(t) -> Natives] /\ Len(t) \in Nat /\ DOMAIN t = 1 .. Len(t)  BY <1>8
  <3>3. u \in [1 .. Len(t) -> Natives]  BY <3>1, <3>2, <1>8
  <3>4. u \in Seq(Natives) /\ DOMAIN u = DOMAIN t  BY <3>2, <3>3
  <3>5. \A i \in DOMAIN u : u[i] = IF t[i].name = n THEN e ELSE t[i]  BY <3>1, <3>4
  <3> QED  BY <2>1, <3>4, <3>5, <1>8
 <2>2. CASE ~ \E i \in DOMAIN t : t[i].name = n
  <3>1. u = Append(t, e)  BY <2>2, <1>4, <1>5 DEF Jni!RegisterNative
  <3>2. PICK k : k = Len(t)  OBVIOUS
  <3>3. k \in Nat /\ DOMAIN t = 1 .. k  BY <3>2, <1>8
  <3>4. /\ u \in Seq(Natives) /\ Len(u) = k + 1 /\ u[k + 1] = e /\ \A i \in 1 .. k : u[i] = t[i]
    BY <3>1, <3>2, <1>8, AppendProperties
  <3>5. DOMAIN u = 1 .. (k + 1) /\ k + 1 \in DOMAIN u  BY <3>3, <3>4
  <3>6. \A i \in DOMAIN u : i = k + 1 \/ i \in DOMAIN t  BY <3>3, <3>5
  <3>7. \A i \in DOMAIN t : i \in DOMAIN u /\ u[i] = t[i]  BY <3>3, <3>4, <3>5
  <3> QED  BY <2>2, <3>4, <3>5, <3>6, <3>7, <1>8
 <2> QED  BY <2>1, <2>2
<1>10. /\ natives' \in Seq(Seq(Natives)) /\ Len(natives') = Len(natives)
       /\ \A k \in DOMAIN natives : natives'[k] = IF k = h THEN u ELSE natives[k]
 <2>1. natives \in [1 .. Len(natives) -> Seq(Natives)] /\ Len(natives) \in Nat  BY <1>7
 <2>2. natives' \in [1 .. Len(natives) -> Seq(Natives)]  BY <2>1, <1>6, <1>9
 <2>3. natives' \in Seq(Seq(Natives)) /\ Len(natives') = Len(natives)  BY <2>1, <2>2
 <2>4. \A k \in 1 .. Len(natives) : natives'[k] = IF k = h THEN u ELSE natives[k]  BY <2>1, <1>6
 <2> QED  BY <2>1, <2>3, <2>4
<1>11. HandleTypes' /\ EnteredOnce' /\ Answered'
 <2>1. HandleTypes'  BY <1>6, <1>7, <1>10 DEF ClassInv, HandleTypes, Jni!Classes
 <2>2. EnteredOnce'  BY <1>6 DEF ClassInv, EnteredOnce
 <2> QED  BY <2>1, <2>2, <1>6 DEF Answered
<1>12. Jni!Classes' = Jni!Classes /\ \A k \in Jni!Classes : k \in DOMAIN natives
  BY <1>6, <1>7 DEF Jni!Classes
<1>13. Registered'
 <2> SUFFICES ASSUME NEW b \in bound'
              PROVE  /\ b.class \in Jni!Classes /\ b.fn \in Functions /\ b.name \in MethodNames
                     /\ \E i \in DOMAIN natives'[b.class] : natives'[b.class][i].name = b.name
                     /\ \A i \in DOMAIN natives'[b.class] :
                            natives'[b.class][i].name = b.name => natives'[b.class][i].fn = b.fn
   BY <1>12 DEF Registered
 <2>1. CASE b = [class |-> h, name |-> n, fn |-> f]
  <3>1. b.class = h /\ b.name = n /\ b.fn = f  BY <2>1
  <3>2. natives'[h] = u  BY <1>6, <1>10, <1>12
  <3> QED  BY <3>1, <3>2, <1>2, <1>6, <1>9
 <2>2. CASE b \in bound /\ ~(b.class = h /\ b.name = n)
  <3>1. /\ b.class \in Jni!Classes /\ b.fn \in Functions /\ b.name \in MethodNames
        /\ \E i \in DOMAIN natives[b.class] : natives[b.class][i].name = b.name
        /\ \A i \in DOMAIN natives[b.class] :
               natives[b.class][i].name = b.name => natives[b.class][i].fn = b.fn
    BY <2>2 DEF ClassInv, Registered
  <3>2. CASE b.class # h
   <4>1. natives'[b.class] = natives[b.class]  BY <3>1, <3>2, <1>10, <1>12
   <4> QED  BY <3>1, <4>1
  <3>3. CASE b.class = h
   <4>1. natives'[b.class] = u /\ natives[b.class] = t /\ b.name # n
     BY <2>2, <3>3, <1>3, <1>6, <1>10, <1>12
   <4>2. PICK i \in DOMAIN t : t[i].name = b.name  BY <3>1, <4>1
   <4>3. i \in DOMAIN u /\ u[i].name = b.name  BY <3>1, <4>1, <4>2, <1>9
   <4>4. \A j \in DOMAIN u : u[j].name = b.name => u[j].fn = b.fn  BY <3>1, <4>1, <1>9
   <4> QED  BY <3>1, <4>1, <4>3, <4>4
  <3> QED  BY <3>2, <3>3
 <2> QED  BY <2>1, <2>2, <1>6
<1>14. OtherTypes' /\ RunTypes' /\ Results'  BY <1>6, ResultsKept DEF ClassInv, OtherTypes
<1> QED  BY <1>11, <1>13, <1>14 DEF ClassInv

\* A function of the guest is called.
LEMMA CallKeeps ==
    ASSUME ClassInv, NEW f \in Callees, Jni!CallGuestFunction(f)
    PROVE  ClassInv'
<1>1. PICK r : r = [fn |-> f, saved |-> regs, inner |-> 0]  OBVIOUS
<1>2. /\ jniFrames' = Append(jniFrames, r) /\ regs' = f /\ retval' = 0 /\ jniAnswer' = Jni!None /\ callDone' = Jni!Idle
      /\ UNCHANGED <<text, interned, jniHandles, natives, thrown, bound>>
  BY <1>1 DEF Jni!CallGuestFunction
<1>3. jniFrames \in Seq(Runs) /\ regs \in Callees \cup {"host"}  BY DEF ClassInv, RunTypes
<1>4. r \in Runs /\ r.inner = 0  BY <1>1, <1>3 DEF Runs
<1>5. jniFrames' \in Seq(Runs) /\ Len(jniFrames') = Len(jniFrames) + 1 /\ jniFrames'[Len(jniFrames) + 1] = r
  BY <1>2, <1>3, <1>4, AppendProperties
<1>6. RunTypes' /\ Results'  BY <1>2, <1>4, <1>5 DEF RunTypes, Results, Jni!Idle
<1>7. HandleTypes' /\ EnteredOnce' /\ Registered'  BY <1>2, TableKept
<1>8. OtherTypes' /\ Answered'  BY <1>2 DEF ClassInv, OtherTypes, Answered
<1> QED  BY <1>6, <1>7, <1>8 DEF ClassInv

\* A call comes back.
LEMMA BackKeeps ==
    ASSUME ClassInv, NEW value \in 0 .. 2, NEW gave \in 0 .. 2, Jni!GuestRuns, Jni!Back(value,
         gave),
           retval' = value, value = gave
    PROVE  ClassInv'
<1>1. jniFrames \in Seq(Runs) /\ Len(jniFrames) \in Nat \ {0}
  BY DEF ClassInv, RunTypes, Jni!GuestRuns
<1>2. PICK n : n = Len(jniFrames) - 1  OBVIOUS
<1>3. n \in Nat /\ Len(jniFrames) = n + 1 /\ \A i \in 1 .. n + 1 : jniFrames[i] \in Runs
  BY <1>1, <1>2
<1>4. DOMAIN Jni!Front(jniFrames) = 1 .. n
 <2>1. Jni!Front(jniFrames) = SubSeq(jniFrames, 1, n)  BY <1>2 DEF Jni!Front
 <2>2. SubSeq(jniFrames, 1, n) = [i \in 1 .. n |-> jniFrames[1 + i - 1]]
   BY <1>1, <1>3 DEF SubSeq
 <2> QED  BY <2>1, <2>2
<1>5. /\ jniFrames' = [i \in 1 .. n |-> IF i = n THEN [jniFrames[i] EXCEPT !.inner = gave] ELSE jniFrames[i]]
      /\ regs' = jniFrames[n + 1].saved /\ callDone' = [got |-> value, gave |-> gave]
      /\ jniAnswer' = Jni!None /\ UNCHANGED <<text, interned, jniHandles, natives, thrown, bound>>
  BY <1>2, <1>3, <1>4 DEF Jni!Back, Jni!Last
<1>6. \A i \in 1 .. n : [jniFrames[i] EXCEPT !.inner = gave] \in Runs  BY <1>3 DEF Runs
<1>7. jniFrames' \in [1 .. n -> Runs]  BY <1>3, <1>5, <1>6
<1>8. jniFrames' \in Seq(Runs) /\ Len(jniFrames') = n  BY <1>3, <1>7
<1>9. ASSUME n # 0 PROVE jniFrames'[n].inner = gave
 <2>1. n \in 1 .. n /\ jniFrames[n] \in Runs  BY <1>3, <1>9
 <2>2. jniFrames'[n] = [jniFrames[n] EXCEPT !.inner = gave]  BY <2>1, <1>5
 <2> QED  BY <2>1, <2>2 DEF Runs
<1>10. Results'
 <2>1. ASSUME jniFrames' # <<>> PROVE retval' = jniFrames'[Len(jniFrames')].inner
  <3>1. n # 0  BY <2>1, <1>8
  <3> QED  BY <3>1, <1>8, <1>9
 <2> QED  BY <2>1, <1>5 DEF Results
<1>11. RunTypes'
 <2>1. jniFrames[n + 1] \in Runs  BY <1>3
 <2> QED  BY <2>1, <1>5, <1>8 DEF RunTypes, Runs
<1>12. HandleTypes' /\ EnteredOnce' /\ Registered'  BY <1>5, TableKept
<1>13. OtherTypes' /\ Answered'  BY <1>5 DEF ClassInv, OtherTypes, Answered
<1> QED  BY <1>10, <1>11, <1>12, <1>13 DEF ClassInv

\* The guest writes its memory, asks for a name or makes an object.
LEMMA GuestStepKeeps ==
    ASSUME ClassInv,
           \/ \E a \in Buffers, n \in MethodNames : Jni!GuestWrites(a, n)
           \/ \E a \in Buffers : Jni!FindClass(a) \/ Jni!NewStringUTF(a)
           \/ Jni!NewBuffer \/ Jni!ExceptionOccurred \/ Jni!ExceptionClear
    PROVE  ClassInv'
<1>1. OtherTypes  BY DEF ClassInv
<1>2. ASSUME NEW a \in Buffers, NEW n \in MethodNames, Jni!GuestWrites(a, n) PROVE ClassInv'
 <2>1. /\ text' = [text EXCEPT ![a] = n] /\ jniAnswer' = Jni!None /\ callDone' = Jni!Idle
       /\ UNCHANGED <<interned, jniHandles, natives, thrown, jniFrames, regs, retval, bound>>
   BY <1>2 DEF Jni!GuestWrites
 <2>2. OtherTypes' /\ Answered'  BY <2>1, <1>1 DEF OtherTypes, Answered
 <2> QED  BY <2>1, <2>2, TableKept, ResultsKept DEF ClassInv
<1>3. ASSUME NEW a \in Buffers, Jni!FindClass(a) PROVE ClassInv'
 <2>1. /\ Jni!Ask("class", 0, a) /\ UNCHANGED <<text, thrown, jniFrames, regs, retval, bound>>
       /\ natives' = IF Len(jniHandles') > Len(jniHandles) THEN Append(natives, <<>>) ELSE natives
   BY <1>3 DEF Jni!FindClass
 <2>2. "class" \in Members /\ 0 \in Nat  BY DEF Members
 <2>3. /\ HandleTypes' /\ EnteredOnce' /\ Registered' /\ Answered'
       /\ interned' \in [Buffers -> MethodNames \cup {Jni!Nobody}] /\ callDone' = Jni!Idle
   BY <2>1, <2>2, AskKeeps
 <2>4. OtherTypes'  BY <2>1, <2>3, <1>1 DEF OtherTypes
 <2> QED  BY <2>1, <2>3, <2>4, ResultsKept DEF ClassInv
<1>4. ASSUME NEW a \in Buffers, Jni!NewStringUTF(a) PROVE ClassInv'
 <2>1. /\ interned' = Jni!InternCharArg(a) /\ UNCHANGED <<text, thrown, jniFrames, regs, retval, bound>>
       /\ Jni!NewObjectUpTo(MaxJniHandles, "string", interned'[a])
   BY <1>4 DEF Jni!NewStringUTF, Jni!NewObject
 <2>2. interned' \in [Buffers -> MethodNames \cup {Jni!Nobody}] /\ interned'[a] \in Labels
   BY <2>1, <1>1, InternKeeps DEF Labels
 <2>3. HandleTypes' /\ EnteredOnce' /\ Registered' /\ Answered' /\ callDone' = Jni!Idle
   BY <2>1, <2>2, ObjectKeeps
 <2>4. OtherTypes'  BY <2>1, <2>2, <1>1 DEF OtherTypes
 <2> QED  BY <2>1, <2>3, <2>4, ResultsKept DEF ClassInv
<1>5. ASSUME Jni!NewBuffer \/ Jni!ExceptionOccurred PROVE ClassInv'
 <2>1. /\ Jni!NewObjectUpTo(MaxJniHandles, "object", Jni!Nobody)
       /\ UNCHANGED <<text, interned, thrown, jniFrames, regs, retval, bound>>
   BY <1>5 DEF Jni!NewBuffer, Jni!ExceptionOccurred, Jni!NewObject
 <2>2. HandleTypes' /\ EnteredOnce' /\ Registered' /\ Answered' /\ callDone' = Jni!Idle
  <3>1. Jni!Nobody \in Labels  BY DEF Labels
  <3> QED  BY <2>1, <3>1, ObjectKeeps
 <2>3. OtherTypes'  BY <2>1, <1>1 DEF OtherTypes
 <2> QED  BY <2>1, <2>2, <2>3, ResultsKept DEF ClassInv
<1>6. ASSUME Jni!ExceptionClear PROVE ClassInv'
 <2>1. /\ thrown' = FALSE /\ jniAnswer' = Jni!None /\ callDone' = Jni!Idle
       /\ UNCHANGED <<text, interned, jniHandles, natives, jniFrames, regs, retval, bound>>
   BY <1>6 DEF Jni!ExceptionClear
 <2>2. OtherTypes' /\ Answered'  BY <2>1, <1>1 DEF OtherTypes, Answered
 <2> QED  BY <2>1, <2>2, TableKept, ResultsKept DEF ClassInv
<1> QED  BY <1>2, <1>3, <1>4, <1>5, <1>6

\* A method or field is asked for, or a method called.
LEMMA MemberStepKeeps ==
    ASSUME ClassInv, NEW h \in DOMAIN jniHandles,
           \/ \E kind \in {"method", "field"}, a \in Buffers : Jni!GetMemberID(kind, h, a)
           \/ Jni!CallMethod(h)
    PROVE  ClassInv'
<1>1. OtherTypes /\ h \in Nat  BY EntryIs DEF ClassInv
<1>2. ASSUME NEW kind \in {"method", "field"}, NEW a \in Buffers, Jni!GetMemberID(kind, h, a)
      PROVE  ClassInv'
 <2>1. UNCHANGED <<text, jniFrames, regs, retval, bound>>  BY <1>2 DEF Jni!GetMemberID
 <2>2. CASE /\ h \in Jni!Classes /\ Jni!Ask(kind, h, a) /\ UNCHANGED thrown
            /\ natives' = IF Len(jniHandles') > Len(jniHandles) THEN Append(natives, <<>>) ELSE natives
  <3>1. kind \in Members  BY DEF Members
  <3>2. /\ HandleTypes' /\ EnteredOnce' /\ Registered' /\ Answered'
        /\ interned' \in [Buffers -> MethodNames \cup {Jni!Nobody}] /\ callDone' = Jni!Idle
    BY <2>1, <2>2, <3>1, <1>1, AskKeeps
  <3>3. OtherTypes'  BY <2>1, <2>2, <3>2, <1>1 DEF OtherTypes
  <3> QED  BY <2>1, <3>2, <3>3, ResultsKept DEF ClassInv
 <2>3. CASE /\ interned' = Jni!InternCharArg(a) /\ thrown' = TRUE /\ jniAnswer' = Jni!None /\ callDone' = Jni!Idle
            /\ UNCHANGED <<jniHandles, natives>>
  <3>1. interned' \in [Buffers -> MethodNames \cup {Jni!Nobody}]  BY <2>3, <1>1, InternKeeps
  <3>2. OtherTypes' /\ Answered'  BY <2>1, <2>3, <3>1, <1>1 DEF OtherTypes, Answered
  <3> QED  BY <2>1, <2>3, <3>2, TableKept, ResultsKept DEF ClassInv
 <2> QED  BY <2>2, <2>3, <1>2 DEF Jni!GetMemberID
<1>3. ASSUME Jni!CallMethod(h) PROVE ClassInv'
 <2>1. UNCHANGED <<text, interned, jniFrames, regs, retval, bound>>  BY <1>3 DEF Jni!CallMethod
 <2>2. CASE Jni!NewObjectUpTo(MaxJniHandles + 1, "string", "pkg") /\ UNCHANGED thrown
  <3>1. HandleTypes' /\ EnteredOnce' /\ Registered' /\ Answered' /\ callDone' = Jni!Idle
   <4>1. "pkg" \in Labels  BY DEF Labels
   <4> QED  BY <2>1, <2>2, <4>1, ObjectKeeps
  <3>2. OtherTypes'  BY <2>1, <2>2, <1>1 DEF OtherTypes
  <3> QED  BY <2>1, <3>1, <3>2, ResultsKept DEF ClassInv
 <2>3. CASE thrown' = TRUE /\ jniAnswer' = Jni!None /\ callDone' = Jni!Idle /\ UNCHANGED <<jniHandles, natives>>
  <3>1. OtherTypes' /\ Answered'  BY <2>1, <2>3, <1>1 DEF OtherTypes, Answered
  <3> QED  BY <2>1, <2>3, <3>1, TableKept, ResultsKept DEF ClassInv
 <2> QED  BY <2>2, <2>3, <1>3 DEF Jni!CallMethod
<1> QED  BY <1>2, <1>3

\* A guest call starts or ends.
LEMMA CallStepKeeps ==
    ASSUME ClassInv,
           \/ \E f \in Functions : Jni!HostCalls(f)
           \/ \E h \in DOMAIN jniHandles, n \in MethodNames : Jni!HostCallsNative(h, n)
           \/ \E v \in {1, 2} : Jni!GuestReturns(v)
           \/ Jni!GuestStops
    PROVE  ClassInv'
<1>1. ASSUME NEW f \in Functions, Jni!HostCalls(f) PROVE ClassInv'
 <2>1. f \in Callees  BY DEF Callees
 <2> QED  BY <2>1, <1>1, CallKeeps DEF Jni!HostCalls
<1>2. ASSUME NEW h \in DOMAIN jniHandles, NEW n \in MethodNames, Jni!HostCallsNative(h, n) PROVE ClassInv'
 <2>1. PICK f \in Jni!Targets(h, n) : Jni!CallGuestFunction(f)  BY <1>2 DEF Jni!HostCallsNative
 <2>2. HandleTypes  BY DEF ClassInv
 <2>3. CASE f \in Jni!Exported(n)
  <3>1. f \in Callees  BY <2>3 DEF Jni!Exported, Callees
  <3> QED  BY <2>1, <3>1, CallKeeps
 <2>4. CASE f = Jni!FindNative(h, n) /\ Jni!FindNative(h, n) # Jni!Nobody
  <3>1. PICK i \in DOMAIN natives[h] : Jni!FindNative(h, n) = natives[h][i].fn
    BY <2>2, <2>4, FindNativeIs
  <3>2. natives[h][i] \in Natives
   <4>1. natives[h] \in Seq(Natives)  BY <2>2, EntryIs
   <4> QED  BY <4>1, <3>1
  <3>3. f \in Callees  BY <2>4, <3>1, <3>2 DEF Natives, Callees
  <3> QED  BY <2>1, <3>3, CallKeeps
 <2> QED  BY <2>1, <2>3, <2>4 DEF Jni!Targets
<1>3. ASSUME NEW v \in {1, 2}, Jni!GuestReturns(v) PROVE ClassInv'
 <2>1. v \in 0 .. 2  OBVIOUS
 <2> QED  BY <2>1, <1>3, BackKeeps DEF Jni!GuestReturns
<1>4. ASSUME Jni!GuestStops PROVE ClassInv'
 <2>1. PICK v : v = retval  OBVIOUS
 <2>2. v \in 0 .. 2  BY <2>1 DEF ClassInv, RunTypes
 <2>3. Jni!GuestRuns /\ retval' = v /\ Jni!Back(v, Jni!Last(jniFrames).inner)
   BY <2>1, <1>4 DEF Jni!GuestStops
 <2>4. Jni!Last(jniFrames).inner = v
   BY <2>1, <2>3 DEF ClassInv, Results, Jni!GuestRuns, Jni!Last
 <2>5. Jni!Back(v, v)  BY <2>3, <2>4
 <2> QED  BY <2>2, <2>3, <2>5, BackKeeps
<1> QED  BY <1>1, <1>2, <1>3, <1>4

\* The invariant of classes and calls implies what the run checks.
LEMMA ClassInvHolds ==
    ASSUME ClassSizes, ClassInv
    PROVE  Jni!TypeOK /\ Jni!ClassesSound
<1>1. Jni!TypeOK  BY DEF ClassInv, HandleTypes, OtherTypes, Jni!TypeOK
<1>2. Jni!HandlesNameWhatWasAsked
 <2> SUFFICES ASSUME jniAnswer # Jni!None
              PROVE  /\ jniHandles[jniAnswer.handle] = Jni!Entry(jniAnswer.kind, jniAnswer.of, jniAnswer.name)
                     /\ jniAnswer.kind \in Members =>
                            Cardinality(Jni!Known(jniAnswer.kind, jniAnswer.of,
                            jniAnswer.name)) = 1
  <3>1. Jni!Cardinality(Jni!Known(jniAnswer.kind, jniAnswer.of, jniAnswer.name))
          = Cardinality(Jni!Known(jniAnswer.kind, jniAnswer.of, jniAnswer.name))
    BY DEF Jni!Cardinality, Cardinality
  <3> QED  BY <3>1 DEF Jni!HandlesNameWhatWasAsked, Members
 <2>1. /\ jniAnswer.handle \in DOMAIN jniHandles
       /\ jniHandles[jniAnswer.handle] = Jni!Entry(jniAnswer.kind, jniAnswer.of, jniAnswer.name)
   BY DEF ClassInv, Answered
 <2>2. ASSUME jniAnswer.kind \in Members
       PROVE  Cardinality(Jni!Known(jniAnswer.kind, jniAnswer.of, jniAnswer.name)) = 1
  <3>1. jniHandles[jniAnswer.handle].kind = jniAnswer.kind  BY <2>1 DEF Jni!Entry
  <3>2. \A h \in DOMAIN jniHandles : jniHandles[h] = jniHandles[jniAnswer.handle] => h = jniAnswer.handle
    BY <2>1, <2>2, <3>1 DEF ClassInv, EnteredOnce
  <3>3. Jni!Known(jniAnswer.kind, jniAnswer.of, jniAnswer.name) = {jniAnswer.handle}
    BY <2>1, <3>2 DEF Jni!Known
  <3> QED  BY <3>3, FS_Singleton
 <2> QED  BY <2>1, <2>2
<1>3. Jni!NativesAreLatest
 <2> SUFFICES ASSUME NEW b \in bound
              PROVE  Jni!Targets(b.class, b.name) = {b.fn}
   BY DEF Jni!NativesAreLatest
 <2>1. /\ b.class \in Jni!Classes /\ b.fn \in Functions
       /\ \E i \in DOMAIN natives[b.class] : natives[b.class][i].name = b.name
       /\ \A i \in DOMAIN natives[b.class] :
              natives[b.class][i].name = b.name => natives[b.class][i].fn = b.fn
   BY DEF ClassInv, Registered
 <2>2. b.class \in DOMAIN jniHandles /\ HandleTypes  BY <2>1 DEF ClassInv, Jni!Classes
 <2>3. Jni!Indexes(b.class, b.name) # {}  BY <2>1 DEF Jni!Indexes
 <2>4. Jni!FindNative(b.class, b.name) = b.fn  BY <2>1, <2>2, <2>3, FindNativeIs
 <2>5. b.fn # Jni!Nobody  BY <2>1 DEF ClassSizes
 <2> QED  BY <2>1, <2>4, <2>5 DEF Jni!Targets
<1>4. Jni!CallsReturnTheirOwn  BY DEF ClassInv, Results, Jni!CallsReturnTheirOwn
<1> QED  BY <1>1, <1>2, <1>3, <1>4 DEF Jni!ClassesSound

\* A handle stands for what was asked and is the only one for it, a method for
\* the function registered last, and a guest call returns its own value.
THEOREM ClassesStaySound ==
    ASSUME ClassSizes
    PROVE  Jni!Spec => [](Jni!TypeOK /\ Jni!ClassesSound)
<1>1. ASSUME Jni!Init PROVE ClassInv
 <2>1. /\ text \in [Buffers -> MethodNames] /\ interned = [a \in Buffers |-> Jni!Nobody] /\ jniHandles = <<>>
       /\ natives = <<>> /\ thrown = FALSE /\ jniFrames = <<>> /\ regs = "host" /\ retval = 0
       /\ jniAnswer = Jni!None /\ bound = {} /\ callDone = Jni!Idle
   BY <1>1 DEF Jni!Init
 <2>2. DOMAIN jniHandles = {} /\ jniHandles \in Seq(Entries) /\ natives \in Seq(Seq(Natives))
       /\ jniFrames \in Seq(Runs)
   BY <2>1
 <2>3. HandleTypes  BY <2>1, <2>2 DEF HandleTypes
 <2>4. OtherTypes /\ RunTypes
  <3>1. interned \in [Buffers -> MethodNames \cup {Jni!Nobody}]  BY <2>1
  <3>2. OtherTypes  BY <2>1, <3>1 DEF OtherTypes
  <3>3. retval \in 0 .. 2 /\ regs \in Callees \cup {"host"}  BY <2>1
  <3> QED  BY <2>2, <3>2, <3>3 DEF RunTypes
 <2>5. EnteredOnce /\ Answered /\ Registered /\ Results
   BY <2>1, <2>2 DEF EnteredOnce, Answered, Registered, Results, Jni!Idle
 <2> QED  BY <2>3, <2>4, <2>5 DEF ClassInv
<1>2. ASSUME ClassInv, Jni!Next PROVE ClassInv'
 <2>1. CASE \/ \E a \in Buffers, n \in MethodNames : Jni!GuestWrites(a, n)
            \/ \E a \in Buffers : Jni!FindClass(a) \/ Jni!NewStringUTF(a)
            \/ Jni!NewBuffer \/ Jni!ExceptionOccurred \/ Jni!ExceptionClear
   BY <1>2, <2>1, GuestStepKeeps
 <2>2. CASE \E kind \in {"method", "field"}, h \in DOMAIN jniHandles, a \in Buffers :
                Jni!GetMemberID(kind, h, a)
   BY <1>2, <2>2, MemberStepKeeps
 <2>3. CASE \E h \in DOMAIN jniHandles : Jni!CallMethod(h)  BY <1>2, <2>3, MemberStepKeeps
 <2>4. CASE \E h \in DOMAIN jniHandles, a \in Buffers, f \in Functions : Jni!RegisterNatives(h, a, f)
   BY <1>2, <2>4, RegisterKeeps
 <2>5. CASE \/ \E f \in Functions : Jni!HostCalls(f)
            \/ \E h \in DOMAIN jniHandles, n \in MethodNames : Jni!HostCallsNative(h, n)
            \/ \E v \in {1, 2} : Jni!GuestReturns(v)
            \/ Jni!GuestStops
   BY <1>2, <2>5, CallStepKeeps
 <2> QED  BY <1>2, <2>1, <2>2, <2>3, <2>4, <2>5 DEF Jni!Next
<1>3. ASSUME ClassInv, UNCHANGED Jni!vars PROVE ClassInv'
  BY <1>3 DEF ClassInv, HandleTypes, OtherTypes, RunTypes, EnteredOnce, Answered, Registered,
     Results, Jni!Classes, Jni!vars
<1>4. ASSUME ClassSizes PROVE ClassInv => Jni!TypeOK /\ Jni!ClassesSound  BY <1>4, ClassInvHolds
<1> QED  BY <1>1, <1>2, <1>3, <1>4, PTL DEF Jni!Spec
=============================================================================
