-------------------------- MODULE GuestSystemProofs --------------------------
(***************************************************************************)
(* What RuntimeProofs shows of each component holds of the system that the *)
(* run guest_system checks.  A behaviour of MCGuestSystem stays with one   *)
(* component (PartStep), and in that part it is a behaviour of the module  *)
(* of that component.  H takes the theorems of RuntimeProofs to the        *)
(* variables of MCGuestSystem; the two instances of a component's module,  *)
(* the one of MCGuestSystem and the one in H, are the same formulas, which *)
(* takes no more than their definitions.                                   *)
(***************************************************************************)
EXTENDS MCGuestSystem, TLAPS

----
\* The part of a behaviour.
Is(p) == part = p

\* A step leaves the part as it is.
LEMMA PartStep == [Next]_vars => part' = part
<1>1. Next => part' = part
  BY DEF Next, Rest5, Rest6, Rest7, Rest8, Rest9, Rest10, Rest11, Rest12, Rest13, Rest14, Rest15
<1>2. UNCHANGED vars => part' = part  BY DEF vars
<1> QED  BY <1>1, <1>2

----
(* The C++ runtime.  Nothing is assumed of the constants: any number of    *)
(* threads, statics and blocks.                                            *)

\* With the byte clear nobody is inside and nothing is initialized.  (The
\* byte of every guard is v1, who is inside v2, the initializations v3.)
ByteTellsTheState ==
    \A g \in Guards : v1[g] = 0 => v2[g] = {} /\ v3[g] = 0

\* A block that was not made yet is all zero: its strong pointers v7, its weak
\* ones v8, and the two words v5 and v6.
UnmadeIsZero ==
    \A b \in ControlBlocks \ v4 :
        v7[b] = 0 /\ v8[b] = 0 /\ v5[b] = 0 /\ v6[b] = 0

GuardInv == ByteTellsTheState /\ Cxx!InitializedOnce
CountInv == UnmadeIsZero /\ Cxx!CountsMatch /\ Cxx!NoResurrection
CxxInv == Cxx!TypeOK /\ GuardInv /\ CountInv

\* The invariant holds at the start.
LEMMA CxxInit == Cxx!Init => CxxInv
<1>1. ASSUME Cxx!Init  PROVE Cxx!TypeOK
 <2>1. /\ v1 \in [Guards -> 0 .. 1] /\ v3 \in [Guards -> Nat]
       /\ v5 \in [ControlBlocks -> Int] /\ v6 \in [ControlBlocks -> Int]
       /\ v7 \in [ControlBlocks -> Nat] /\ v8 \in [ControlBlocks -> Nat]
   BY <1>1, SMT DEF Cxx!Init
 <2>2. /\ v2 \in [Guards -> SUBSET Threads] /\ v10 \in BOOLEAN
       /\ v4 \subseteq ControlBlocks /\ v9 \subseteq v4
   BY <1>1, Zenon DEF Cxx!Init
 <2>. QED  BY <2>1, <2>2 DEF Cxx!TypeOK
<1>2. Cxx!Init => GuardInv  BY DEF Cxx!Init, GuardInv, ByteTellsTheState, Cxx!InitializedOnce
<1>3. Cxx!Init => CountInv
  BY DEF Cxx!Init, CountInv, UnmadeIsZero, Cxx!CountsMatch, Cxx!NoResurrection
<1>. QED  BY <1>1, <1>2, <1>3 DEF CxxInv

\* A step on the guards keeps the invariant.
LEMMA GuardStep ==
  ASSUME CxxInv, NEW t \in Threads, NEW g \in Guards,
         Cxx!GuardAcquire(t, g) \/ Cxx!GuardRelease(t, g) \/ Cxx!GuardAbort(t, g)
  PROVE  CxxInv'
<1>1. Cxx!TypeOK' /\ UNCHANGED Cxx!counts
  BY DEF CxxInv, Cxx!TypeOK, Cxx!GuardAcquire, Cxx!GuardRelease, Cxx!GuardAbort, Cxx!counts
<1>2. CountInv'
  BY <1>1 DEF CxxInv, CountInv, UnmadeIsZero, Cxx!CountsMatch, Cxx!NoResurrection, Cxx!counts
<1>3. ByteTellsTheState'
  BY DEF CxxInv, Cxx!TypeOK, GuardInv, ByteTellsTheState, Cxx!InitializedOnce, Cxx!GuardAcquire,
     Cxx!GuardRelease, Cxx!GuardAbort
<1>4. Cxx!InitializedOnce'
  BY DEF CxxInv, Cxx!TypeOK, GuardInv, ByteTellsTheState, Cxx!InitializedOnce, Cxx!GuardAcquire,
     Cxx!GuardRelease, Cxx!GuardAbort
<1>. QED  BY <1>1, <1>2, <1>3, <1>4 DEF CxxInv, GuardInv

\* A step on the counters keeps the invariant.
LEMMA CountStep ==
  ASSUME CxxInv, NEW b \in ControlBlocks,
         \/ Cxx!MakeBlock(b) \/ Cxx!AddShared(b) \/ Cxx!ReleaseShared(b)
         \/ Cxx!AddWeak(b) \/ Cxx!ReleaseWeak(b) \/ Cxx!Lock(b)
  PROVE  CxxInv'
<1>. USE DEF Cxx!RefcountAdd, Cxx!RefcountRelease, Cxx!HasOwner
<1>1. UNCHANGED Cxx!guards
  BY DEF Cxx!MakeBlock, Cxx!AddShared, Cxx!ReleaseShared, Cxx!AddWeak, Cxx!ReleaseWeak, Cxx!Lock,
     Cxx!guards
<1>2. GuardInv'  BY <1>1 DEF CxxInv, GuardInv, ByteTellsTheState, Cxx!InitializedOnce, Cxx!guards
<1>3. ASSUME Cxx!MakeBlock(b)  PROVE Cxx!TypeOK' /\ CountInv'
  BY <1>3 DEF Cxx!MakeBlock, CxxInv, Cxx!TypeOK, CountInv, UnmadeIsZero, Cxx!CountsMatch,
     Cxx!NoResurrection, Cxx!guards
<1>4. ASSUME Cxx!AddShared(b)  PROVE Cxx!TypeOK' /\ CountInv'
  BY <1>4 DEF Cxx!AddShared, CxxInv, Cxx!TypeOK, CountInv, UnmadeIsZero, Cxx!CountsMatch,
     Cxx!NoResurrection, Cxx!guards
<1>5. ASSUME Cxx!ReleaseShared(b)  PROVE Cxx!TypeOK' /\ CountInv'
  BY <1>5 DEF Cxx!ReleaseShared, CxxInv, Cxx!TypeOK, CountInv, UnmadeIsZero, Cxx!CountsMatch,
     Cxx!NoResurrection, Cxx!guards
<1>6. ASSUME Cxx!AddWeak(b)  PROVE Cxx!TypeOK' /\ CountInv'
  BY <1>6 DEF Cxx!AddWeak, CxxInv, Cxx!TypeOK, CountInv, UnmadeIsZero, Cxx!CountsMatch,
     Cxx!NoResurrection, Cxx!guards
<1>7. ASSUME Cxx!ReleaseWeak(b)  PROVE Cxx!TypeOK' /\ CountInv'
  BY <1>7 DEF Cxx!ReleaseWeak, CxxInv, Cxx!TypeOK, CountInv, UnmadeIsZero, Cxx!CountsMatch,
     Cxx!NoResurrection, Cxx!guards
<1>8. ASSUME Cxx!Lock(b)  PROVE Cxx!TypeOK' /\ CountInv'
  BY <1>8 DEF Cxx!Lock, CxxInv, Cxx!TypeOK, CountInv, UnmadeIsZero, Cxx!CountsMatch,
     Cxx!NoResurrection, Cxx!guards
<1>. QED  BY <1>2, <1>3, <1>4, <1>5, <1>6, <1>7, <1>8 DEF CxxInv

\* Every step keeps the invariant.
LEMMA CxxStep == CxxInv /\ [Cxx!Next]_(Cxx!vars) => CxxInv'
<1>1. ASSUME CxxInv, Cxx!Abort  PROVE CxxInv'
  BY <1>1 DEF Cxx!Abort, Cxx!guards, Cxx!counts, CxxInv, Cxx!TypeOK, GuardInv, CountInv,
     ByteTellsTheState, Cxx!InitializedOnce, UnmadeIsZero, Cxx!CountsMatch, Cxx!NoResurrection
<1>2. ASSUME CxxInv, UNCHANGED Cxx!vars  PROVE CxxInv'
  BY <1>2 DEF Cxx!vars, CxxInv, Cxx!TypeOK, GuardInv, CountInv, ByteTellsTheState,
     Cxx!InitializedOnce, UnmadeIsZero, Cxx!CountsMatch, Cxx!NoResurrection
<1>. QED  BY <1>1, <1>2, GuardStep, CountStep
          DEF Cxx!Next, Cxx!Throw, Cxx!PureVirtual, Cxx!Terminate

\* A static is initialized by one thread at a time and to its end at most
\* once, the two words of every control block are the counts of the pointers
\* the guest holds, and lock() never revives an object, for any number of
\* threads, statics, blocks and pointers.
THEOREM CxxRuntimeSound == Cxx!Spec => [](Cxx!TypeOK /\ Cxx!CxxSound)
<1>1. CxxInv => Cxx!TypeOK /\ Cxx!CxxSound  BY DEF CxxInv, GuardInv, CountInv, Cxx!CxxSound
<1>. QED  BY <1>1, CxxInit, CxxStep, PTL DEF Cxx!Spec

\* The part "cxx" of the system is a behaviour of GuestCxx.
THEOREM CxxStaysSound == Spec => [](part = "cxx" => Cxx!TypeOK /\ Cxx!CxxSound)
<1>1. Is("cxx") /\ Init => Cxx!Init  BY DEF Init, Is
<1>2. Is("cxx") /\ [Next]_vars => [Cxx!Next]_(Cxx!vars)
  BY DEF Next, Is, vars, Cxx!vars, Cxx!guards, Cxx!counts
<1>3. /\ Is("cxx") /\ [Next]_vars => Is("cxx")'
      /\ ~Is("cxx") /\ [Next]_vars => ~Is("cxx")'
  BY PartStep DEF Is
<1>4. (Is("cxx") => Cxx!TypeOK /\ Cxx!CxxSound) => (part = "cxx" => Cxx!TypeOK /\ Cxx!CxxSound)
  BY DEF Is
<1>. QED  BY <1>1, <1>2, <1>3, <1>4, CxxRuntimeSound, PTL DEF Spec, Cxx!Spec

----
(* The components that RuntimeProofs is about. *)

H == INSTANCE RuntimeProofs WITH
    Width <- HeapWords,
    svc <- v1, byName <- v2, removed <- v3, weak <- v4, frames <- v5, held <- v6,
    destroyed <- v7, ends <- v8, loops <- v9, torn <- v10,
    procs <- v1, imported <- v2, arena <- v3, handlers <- v4, nextProc <- v5, nextImport <- v6,
    opened <- v7, nextHandle <- v8, mine <- v9, pointers <- v10,
    display <- v1, config <- v2, context <- v3, surface <- v4, handles <- v5, eglMade <- v6,
    current <- v7, orphans <- v8, window <- v9, mode <- v10, maps <- v11, heapTop <- v12,
    onRoot <- v1, assets <- v2, nextAsset <- v3, myAssets <- v4, answer <- v5, replaced <- v6,
    heapBump <- v1, cells <- v2, blocks <- v3, died <- v4,
    native <- v1, ptr <- v2, pooled <- v3, told <- v4, handle <- v5, waiting <- v6,
    posted <- v7,
    words <- v1, size <- v2, pos <- v3, cap <- v4, binders <- v5, intact <- v6,
    frame <- v1, caller <- v2, wpc <- v3, attempt <- v4, sent <- v5, sock <- v6, conns <- v7,
    serving <- v8, got <- v9, queue <- v10, shown <- v11, tmp <- v12, file <- v13, poll <- v14,
    phase <- v1, target <- v2, inp <- v3, out <- v4, inPtr <- v5, outPtr <- v6, put <- v7,
    served <- v8, answered <- v9, readBack <- v10, result <- v11, calls <- v12,
    arrays <- v1, ring <- v2, bump <- v3, elements <- v4, gets <- v5, last <- v6,
    text <- v1, interned <- v2, jniHandles <- v3, natives <- v4, thrown <- v5, jniFrames <- v6,
    regs <- v7, retval <- v8, jniAnswer <- v9, bound <- v10, callDone <- v11

\* The part "binder" of the system is a behaviour of GuestBinder, of which
\* H!BindersStaySound shows what the part needs.
THEOREM BinderStaysSound == Spec => [](part = "binder" => Binder!TypeOK /\ Binder!BindersSound)
<1>1. H!Init <=> Binder!Init
  BY DEF Binder!Handles, H!Handles, Binder!Absent, H!Absent, Binder!Init, H!Init
<1>11. H!MayHold <=> Binder!MayHold
  BY DEF Binder!MayHold, H!MayHold, Binder!MapThenSumSet, H!MapThenSumSet, Binder!MapThenFoldSet,
     H!MapThenFoldSet, Binder!Handles, H!Handles
<1>12. H!Fresh = Binder!Fresh
  BY DEF H!Fresh, Binder!Fresh, Binder!Handles, H!Handles, H!Cardinality, Binder!Cardinality
<1>2. H!Next <=> Binder!Next
 <2>1. ASSUME NEW n, NEW h
       PROVE  /\ H!OnDestroyReturns <=> Binder!OnDestroyReturns
              /\ H!New <=> Binder!New
              /\ H!Lookup(n) <=> Binder!Lookup(n)
              /\ H!AddService(n, h) <=> Binder!AddService(n, h)
   BY <1>11, <1>12 DEF Binder!walks, H!walks, Binder!Handles, H!Handles, Binder!Absent, H!Absent,
      Binder!Dying, H!Dying, Binder!Usable, H!Usable, Binder!DropLast, H!DropLast,
      Binder!Release, H!Release, Binder!ForgetNames, H!ForgetNames, Binder!OnDestroyReturns,
      H!OnDestroyReturns, Binder!Remote, H!Remote, Binder!Rehash, H!Rehash, Binder!Lookup,
      H!Lookup, Binder!AddService, H!AddService, Binder!New, H!New
 <2>2. ASSUME NEW h
       PROVE  /\ H!IncStrong(h) <=> Binder!IncStrong(h)
              /\ H!DecStrong(h) <=> Binder!DecStrong(h)
              /\ H!WeakNew(h) <=> Binder!WeakNew(h)
              /\ H!WeakDelete(h) <=> Binder!WeakDelete(h)
              /\ H!WeakPromote(h) <=> Binder!WeakPromote(h)
   BY <1>11, <1>12 DEF Binder!walks, H!walks, Binder!Handles, H!Handles, Binder!Dying, H!Dying,
      Binder!Usable, H!Usable, Binder!DropLast, H!DropLast, Binder!Release, H!Release,
      Binder!Grab, H!Grab, Binder!IncStrong, H!IncStrong, Binder!DecStrong, H!DecStrong,
      Binder!WeakNew, H!WeakNew, Binder!WeakDelete, H!WeakDelete, Binder!WeakPromote,
      H!WeakPromote
 <2>3. ASSUME NEW h, NEW e
       PROVE  /\ H!GetExtension(h) <=> Binder!GetExtension(h)
              /\ H!SetExtension(h, e) <=> Binder!SetExtension(h, e)
              /\ H!Kill(h) <=> Binder!Kill(h)
              /\ H!DeliveryFails(h) <=> Binder!DeliveryFails(h)
   BY <1>11, <1>12 DEF Binder!walks, H!walks, Binder!Handles, H!Handles, Binder!Dying, H!Dying,
      Binder!Usable, H!Usable, Binder!DropLast, H!DropLast, Binder!Release, H!Release,
      Binder!Grab, H!Grab, Binder!SetExtension, H!SetExtension, Binder!GetExtension,
      H!GetExtension, Binder!Waits, H!Waits, Binder!Kill, H!Kill, Binder!DeliveryFails,
      H!DeliveryFails
 <2>4. ASSUME NEW h, NEW r
       PROVE  /\ H!LinkToDeath(h, r) <=> Binder!LinkToDeath(h, r)
              /\ H!UnlinkToDeath(h, r) <=> Binder!UnlinkToDeath(h, r)
              /\ H!DeleteRecipient(r) <=> Binder!DeleteRecipient(r)
              /\ H!DeletionGoesOn(h) <=> Binder!DeletionGoesOn(h)
   BY <1>11, <1>12 DEF Binder!Handles, H!Handles, Binder!Dying, H!Dying, Binder!Usable, H!Usable,
      Binder!TornBy, H!TornBy, Binder!Owed, H!Owed, Binder!LinkToDeath, H!LinkToDeath,
      Binder!Unlink, H!Unlink, Binder!UnlinkToDeath, H!UnlinkToDeath, Binder!Waits, H!Waits,
      Binder!Back, H!Back, Binder!DeleteRecipient, H!DeleteRecipient, Binder!DeletionGoesOn,
      H!DeletionGoesOn
 <2>5. ASSUME NEW r
       PROVE  /\ H!DeletionEnds <=> Binder!DeletionEnds
              /\ H!DiedReturns <=> Binder!DiedReturns
              /\ H!NextDies(r) <=> Binder!NextDies(r)
              /\ H!Retired <=> Binder!Retired
   BY <1>11, <1>12 DEF Binder!TornBy, H!TornBy, Binder!Owed, H!Owed, Binder!Back, H!Back,
      Binder!DeletionEnds, H!DeletionEnds, Binder!DiedReturns, H!DiedReturns, Binder!NextDies,
      H!NextDies, Binder!Retired, H!Retired
 <2> QED  BY <2>1, <2>2, <2>3, <2>4, <2>5 DEF H!Next, Binder!Next, H!Handles, Binder!Handles
<1>3. UNCHANGED vars => UNCHANGED H!vars  BY DEF vars, H!walks, H!vars
<1>4. H!TypeOK /\ H!BindersSound => Binder!TypeOK /\ Binder!BindersSound
  BY DEF Binder!Handles, H!Handles, Binder!Dying, H!Dying, Binder!TypeOK, H!TypeOK,
     Binder!Extended, H!Extended, Binder!Pending, H!Pending, Binder!CountsExact, H!CountsExact,
     Binder!HeldIsLive, H!HeldIsLive, Binder!NamesResolve, H!NamesResolve, Binder!Untold,
     H!Untold, Binder!LinksEndOnce, H!LinksEndOnce, Binder!BindersSound, H!BindersSound,
     Binder!Cardinality, H!Cardinality
<1>5. Is("binder") /\ Init => H!Init  BY <1>1 DEF Init, Is
<1>6. Is("binder") /\ [Next]_vars => [H!Next]_(H!vars)  BY <1>2, <1>3 DEF Next, Is
<1>7. H!Bounds  BY GuestAssumption DEF H!Bounds
<1>8. H!Spec => [](H!TypeOK /\ H!BindersSound)  BY <1>7, H!BinderTypes, H!BindersStaySound, PTL
<1>9. /\ Is("binder") /\ [Next]_vars => Is("binder")'
      /\ ~Is("binder") /\ [Next]_vars => ~Is("binder")'
  BY PartStep DEF Is
<1>10. (Is("binder") => H!TypeOK /\ H!BindersSound) => (part = "binder" => Binder!TypeOK /\ Binder!BindersSound)
  BY <1>4 DEF Is
<1> QED  BY <1>5, <1>6, <1>8, <1>9, <1>10, PTL DEF Spec, H!Spec

\* The part "heap" of the system is a behaviour of GuestHeap, of which
\* H!BlocksStayKept shows what the part needs.
THEOREM HeapStaysSound == Spec => [](part = "heap" => Heap!TypeOK /\ Heap!BlocksKeepTheirContents)
<1>1. H!Heap!Init <=> Heap!Init  BY DEF Heap!End, H!Heap!End, Heap!Init, H!Heap!Init
<1>2. H!Heap!Next <=> Heap!Next
  BY DEF Heap!End, H!Heap!End, Heap!Any, H!Heap!Any, Heap!Values, H!Heap!Values, Heap!Zeros,
     H!Heap!Zeros, Heap!Anything, H!Heap!Anything, Heap!RoundUp, H!Heap!RoundUp, Heap!Fits,
     H!Heap!Fits, Heap!Written, H!Heap!Written, Heap!Give, H!Heap!Give, Heap!Sane, H!Heap!Sane,
     Heap!Expected, H!Heap!Expected, Heap!Malloc, H!Heap!Malloc, Heap!OperatorNew,
     H!Heap!OperatorNew, Heap!Calloc, H!Heap!Calloc, Heap!Realloc, H!Heap!Realloc,
     Heap!PosixMemalign, H!Heap!PosixMemalign, Heap!Mmap, H!Heap!Mmap, Heap!CopyText,
     H!Heap!CopyText, Heap!Vasprintf, H!Heap!Vasprintf, Heap!StatusGetMessage,
     H!Heap!StatusGetMessage, Heap!AllocGuest, H!Heap!AllocGuest, Heap!ThreadStack,
     H!Heap!ThreadStack, Heap!AllocPixels, H!Heap!AllocPixels, Heap!Memset, H!Heap!Memset,
     Heap!Memcpy, H!Heap!Memcpy, Heap!Next, H!Heap!Next
<1>3. UNCHANGED vars => UNCHANGED H!Heap!vars  BY DEF vars, H!Heap!vars
<1>4. H!Heap!TypeOK /\ H!Heap!BlocksKeepTheirContents => Heap!TypeOK /\ Heap!BlocksKeepTheirContents
  BY DEF Heap!End, H!Heap!End, Heap!Any, H!Heap!Any, Heap!Values, H!Heap!Values, Heap!TypeOK,
     H!Heap!TypeOK, Heap!BlocksKeepTheirContents, H!Heap!BlocksKeepTheirContents
<1>5. Is("heap") /\ Init => H!Heap!Init  BY <1>1 DEF Init, Is
<1>6. Is("heap") /\ [Next]_vars => [H!Heap!Next]_(H!Heap!vars)  BY <1>2, <1>3 DEF Next, Is
<1>7. H!ArenaFits  BY GuestAssumption DEF H!ArenaFits, H!Heap!End
<1>8. H!Heap!Spec => [](H!Heap!TypeOK /\ H!Heap!BlocksKeepTheirContents)
  BY <1>7, H!BlocksStayKept
<1>9. /\ Is("heap") /\ [Next]_vars => Is("heap")'
      /\ ~Is("heap") /\ [Next]_vars => ~Is("heap")'
  BY PartStep DEF Is
<1>10. (Is("heap") => H!Heap!TypeOK /\ H!Heap!BlocksKeepTheirContents) => (part = "heap" => Heap!TypeOK /\ Heap!BlocksKeepTheirContents)
  BY <1>4 DEF Is
<1> QED  BY <1>5, <1>6, <1>8, <1>9, <1>10, PTL DEF Spec, H!Heap!Spec

\* The part "assets" of the system is a behaviour of GuestAssets, of which
\* H!AssetsStaySnapshots shows what the part needs.
THEOREM AssetsStaySound == Spec => [](part = "assets" => Assets!TypeOK /\ Assets!AssetsAreSnapshots)
<1>1. H!Assets!Init <=> Assets!Init
  BY DEF Assets!NoFile, H!Assets!NoFile, Assets!File, H!Assets!File, Assets!Init, H!Assets!Init
<1>2. H!Assets!Next <=> Assets!Next
  BY DEF Assets!vars, H!Assets!vars, Assets!NoFile, H!Assets!NoFile, Assets!File, H!Assets!File,
     Assets!Bytes, H!Assets!Bytes, Assets!Without, H!Assets!Without, Assets!With, H!Assets!With,
     Assets!ReadAssetFile, H!Assets!ReadAssetFile, Assets!Open, H!Assets!Open, Assets!Read,
     H!Assets!Read, Assets!Seek, H!Assets!Seek, Assets!Close, H!Assets!Close, Assets!Replace,
     H!Assets!Replace, Assets!Next, H!Assets!Next
<1>3. UNCHANGED vars => UNCHANGED H!Assets!vars  BY DEF vars, H!Assets!vars
<1>4. H!Assets!TypeOK /\ H!Assets!AssetsAreSnapshots => Assets!TypeOK /\ Assets!AssetsAreSnapshots
  BY DEF Assets!TypeOK, H!Assets!TypeOK, Assets!Remaining, H!Assets!Remaining,
     Assets!AssetsAreSnapshots, H!Assets!AssetsAreSnapshots
<1>5. Is("assets") /\ Init => H!Assets!Init  BY <1>1 DEF Init, Is
<1>6. Is("assets") /\ [Next]_vars => [H!Assets!Next]_(H!Assets!vars)  BY <1>2, <1>3 DEF Next, Is
<1>7. H!AssetSizes  BY GuestAssumption DEF H!AssetSizes
<1>8. H!Assets!Spec => [](H!Assets!TypeOK /\ H!Assets!AssetsAreSnapshots)
  BY <1>7, H!AssetsStaySnapshots
<1>9. /\ Is("assets") /\ [Next]_vars => Is("assets")'
      /\ ~Is("assets") /\ [Next]_vars => ~Is("assets")'
  BY PartStep DEF Is
<1>10. (Is("assets") => H!Assets!TypeOK /\ H!Assets!AssetsAreSnapshots) => (part = "assets" => Assets!TypeOK /\ Assets!AssetsAreSnapshots)
  BY <1>4 DEF Is
<1> QED  BY <1>5, <1>6, <1>8, <1>9, <1>10, PTL DEF Spec, H!Assets!Spec

\* The part "egl" of the system is a behaviour of EglBridge, of which
\* H!EglStaysSound shows what the part needs.
THEOREM EglStaysSound == Spec => [](part = "egl" => Egl!TypeOK /\ Egl!EglSound)
<1>1. H!Egl!Init <=> Egl!Init  BY DEF Egl!Nothing, H!Egl!Nothing, Egl!Init, H!Egl!Init
<1>2. H!Egl!Next <=> Egl!Next
  BY DEF Egl!slots, H!Egl!slots, Egl!angle, H!Egl!angle, Egl!Nothing, H!Egl!Nothing,
     Egl!EglGetDisplay, H!Egl!EglGetDisplay, Egl!EglInitialize, H!Egl!EglInitialize,
     Egl!EglChooseConfig, H!Egl!EglChooseConfig, Egl!Made, H!Egl!Made, Egl!MakeHandle,
     H!Egl!MakeHandle, Egl!EglCreateContext, H!Egl!EglCreateContext, Egl!EglCreateWindowSurface,
     H!Egl!EglCreateWindowSurface, Egl!EglCreatePbufferSurface, H!Egl!EglCreatePbufferSurface,
     Egl!EglMakeCurrent, H!Egl!EglMakeCurrent, Egl!HostWindowActive, H!Egl!HostWindowActive,
     Egl!EnsureHostWindow, H!Egl!EnsureHostWindow, Egl!EglSwapBuffers, H!Egl!EglSwapBuffers,
     Egl!PresentNativeWindowBuffer, H!Egl!PresentNativeWindowBuffer, Egl!PumpHostAppEvents,
     H!Egl!PumpHostAppEvents, Egl!UserClosesWindow, H!Egl!UserClosesWindow, Egl!EglDestroyContext,
     H!Egl!EglDestroyContext, Egl!EglDestroySurface, H!Egl!EglDestroySurface, Egl!EglTerminate,
     H!Egl!EglTerminate, Egl!EglReleaseThread, H!Egl!EglReleaseThread, Egl!Smaller, H!Egl!Smaller,
     Egl!GlMapBufferRange, H!Egl!GlMapBufferRange, Egl!Next, H!Egl!Next
<1>3. UNCHANGED vars => UNCHANGED H!Egl!vars  BY DEF vars, H!Egl!vars
<1>4. H!Egl!TypeOK /\ H!Egl!EglSound => Egl!TypeOK /\ Egl!EglSound
  BY DEF Egl!TypeOK, H!Egl!TypeOK, Egl!SlotsLive, H!Egl!SlotsLive, Egl!MapsDisjoint,
     H!Egl!MapsDisjoint, Egl!EglSound, H!Egl!EglSound
<1>5. Is("egl") /\ Init => H!Egl!Init  BY <1>1 DEF Init, Is
<1>6. Is("egl") /\ [Next]_vars => [H!Egl!Next]_(H!Egl!vars)  BY <1>2, <1>3 DEF Next, Is
<1>7. H!EglSizes  BY GuestAssumption DEF H!EglSizes
<1>8. H!Egl!Spec => [](H!Egl!TypeOK /\ H!Egl!EglSound)  BY <1>7, H!EglStaysSound
<1>9. /\ Is("egl") /\ [Next]_vars => Is("egl")'
      /\ ~Is("egl") /\ [Next]_vars => ~Is("egl")'
  BY PartStep DEF Is
<1>10. (Is("egl") => H!Egl!TypeOK /\ H!Egl!EglSound) => (part = "egl" => Egl!TypeOK /\ Egl!EglSound)
  BY <1>4 DEF Is
<1> QED  BY <1>5, <1>6, <1>8, <1>9, <1>10, PTL DEF Spec, H!Egl!Spec

\* The part "stubs" of the system is a behaviour of StubTable, of which
\* H!StubTableSound shows what the part needs.
THEOREM StubsStaySound == Spec => [](part = "stubs" => Stubs!TypeOK /\ Stubs!StubsSound)
<1>1. H!Stubs!Init <=> Stubs!Init  BY DEF Stubs!Init, H!Stubs!Init
<1>2. H!Stubs!Next <=> Stubs!Next
  BY DEF Stubs!calls, H!Stubs!calls, Stubs!Registered, H!Stubs!Registered, Stubs!Written,
     H!Stubs!Written, Stubs!Proc, H!Stubs!Proc, Stubs!Import, H!Stubs!Import, Stubs!Holds,
     H!Stubs!Holds, Stubs!Anywhere, H!Stubs!Anywhere, Stubs!Stored, H!Stubs!Stored,
     Stubs!WriteStub, H!Stubs!WriteStub, Stubs!EglGetProcAddressAgain,
     H!Stubs!EglGetProcAddressAgain, Stubs!EglGetProcAddress, H!Stubs!EglGetProcAddress,
     Stubs!UnsupportedImportStub, H!Stubs!UnsupportedImportStub, Stubs!Dlopen, H!Stubs!Dlopen,
     Stubs!Dlclose, H!Stubs!Dlclose, Stubs!Tables, H!Stubs!Tables, Stubs!DlsymFinds,
     H!Stubs!DlsymFinds, Stubs!DlsymAngle, H!Stubs!DlsymAngle, Stubs!Dlsym, H!Stubs!Dlsym,
     Stubs!Next, H!Stubs!Next
<1>3. UNCHANGED vars => UNCHANGED H!Stubs!vars  BY DEF vars, H!Stubs!vars
<1>4. H!Stubs!TypeOK /\ H!Stubs!StubsSound => Stubs!TypeOK /\ Stubs!StubsSound
  BY DEF Stubs!Registered, H!Stubs!Registered, Stubs!Proc, H!Stubs!Proc, Stubs!Import,
     H!Stubs!Import, Stubs!TypeOK, H!Stubs!TypeOK, Stubs!PointersKeepTheirMeaning,
     H!Stubs!PointersKeepTheirMeaning, Stubs!ImportsAbort, H!Stubs!ImportsAbort,
     Stubs!HandlesKeepTheirLibrary, H!Stubs!HandlesKeepTheirLibrary, Stubs!StubsSound,
     H!Stubs!StubsSound
<1>5. Is("stubs") /\ Init => H!Stubs!Init  BY <1>1 DEF Init, Is
<1>6. Is("stubs") /\ [Next]_vars => [H!Stubs!Next]_(H!Stubs!vars)  BY <1>2, <1>3 DEF Next, Is
<1>7. H!Ranges  BY GuestAssumption DEF H!Ranges, Stubs!Anywhere, H!Stubs!Anywhere
<1>8. H!Stubs!Spec => [](H!Stubs!TypeOK /\ H!Stubs!StubsSound)  BY <1>7, H!StubTableSound
<1>9. /\ Is("stubs") /\ [Next]_vars => Is("stubs")'
      /\ ~Is("stubs") /\ [Next]_vars => ~Is("stubs")'
  BY PartStep DEF Is
<1>10. (Is("stubs") => H!Stubs!TypeOK /\ H!Stubs!StubsSound) => (part = "stubs" => Stubs!TypeOK /\ Stubs!StubsSound)
  BY <1>4 DEF Is
<1> QED  BY <1>5, <1>6, <1>8, <1>9, <1>10, PTL DEF Spec, H!Stubs!Spec

\* The part "events" of the system is a behaviour of ShimEvents, of which
\* H!EventsStaySound shows what the part needs.
THEOREM InputEventsStaySound == Spec => [](part = "events" => InputEvents!TypeOK /\ InputEvents!EventsSound)
<1>1. H!Input!Init <=> InputEvents!Init
  BY DEF InputEvents!Addresses, H!Input!Addresses, InputEvents!Free, H!Input!Free,
     InputEvents!Init, H!Input!Init, InputEvents!Cardinality, H!Input!Cardinality
<1>2. H!Input!Next <=> InputEvents!Next
  BY DEF InputEvents!motion, H!Input!motion, InputEvents!vsync, H!Input!vsync,
     InputEvents!Addresses, H!Input!Addresses, InputEvents!Free, H!Input!Free, InputEvents!Bit,
     H!Input!Bit, InputEvents!Address, H!Input!Address, InputEvents!ReadPointer0,
     H!Input!ReadPointer0, InputEvents!Pointers, H!Input!Pointers, InputEvents!Fresh,
     H!Input!Fresh, InputEvents!NativeInitialize, H!Input!NativeInitialize,
     InputEvents!NativeCopy, H!Input!NativeCopy, InputEvents!Write, H!Input!Write,
     InputEvents!NativeSetField, H!Input!NativeSetField, InputEvents!NativeSetActionButton,
     H!Input!NativeSetActionButton, InputEvents!NativeOffsetLocation,
     H!Input!NativeOffsetLocation, InputEvents!NativeScale, H!Input!NativeScale,
     InputEvents!NativeAddBatch, H!Input!NativeAddBatch, InputEvents!Recycle, H!Input!Recycle,
     InputEvents!NativeDispose, H!Input!NativeDispose, InputEvents!NativeInit, H!Input!NativeInit,
     InputEvents!NativeScheduleVsync, H!Input!NativeScheduleVsync, InputEvents!DispatchVsync,
     H!Input!DispatchVsync, InputEvents!FreeReceiver, H!Input!FreeReceiver, InputEvents!Next,
     H!Input!Next, InputEvents!Cardinality, H!Input!Cardinality
<1>3. UNCHANGED vars => UNCHANGED H!Input!vars  BY DEF vars, H!Input!vars
<1>4. H!Input!TypeOK /\ H!Input!EventsSound => InputEvents!TypeOK /\ InputEvents!EventsSound
  BY DEF InputEvents!Addresses, H!Input!Addresses, InputEvents!Free, H!Input!Free,
     InputEvents!Bit, H!Input!Bit, InputEvents!Motion, H!Input!Motion, InputEvents!TypeOK,
     H!Input!TypeOK, InputEvents!PointerId, H!Input!PointerId, InputEvents!FindPointerIndex,
     H!Input!FindPointerIndex, InputEvents!AxisValue, H!Input!AxisValue, InputEvents!Fields,
     H!Input!Fields, InputEvents!EventsAreTheirOwn, H!Input!EventsAreTheirOwn,
     InputEvents!WaitersArePosted, H!Input!WaitersArePosted, InputEvents!EventsSound,
     H!Input!EventsSound, InputEvents!Cardinality, H!Input!Cardinality
<1>5. Is("events") /\ Init => H!Input!Init  BY <1>1 DEF Init, Is
<1>6. Is("events") /\ [Next]_vars => [H!Input!Next]_(H!Input!vars)  BY <1>2, <1>3 DEF Next, Is
<1>7. H!EventSizes  BY GuestAssumption DEF H!EventSizes, H!IsFiniteSet, IsFiniteSet
<1>8. H!Input!Spec => [](H!Input!TypeOK /\ H!Input!EventsSound)  BY <1>7, H!EventsStaySound
<1>9. /\ Is("events") /\ [Next]_vars => Is("events")'
      /\ ~Is("events") /\ [Next]_vars => ~Is("events")'
  BY PartStep DEF Is
<1>10. (Is("events") => H!Input!TypeOK /\ H!Input!EventsSound) => (part = "events" => InputEvents!TypeOK /\ InputEvents!EventsSound)
  BY <1>4 DEF Is
<1> QED  BY <1>5, <1>6, <1>8, <1>9, <1>10, PTL DEF Spec, H!Input!Spec

\* The part "shimparcel" of the system is a behaviour of ShimParcel, of which
\* H!ParcelsReadBack shows what the part needs.
THEOREM ShimParcelsStaySound == Spec => [](part = "shimparcel" => ShimParcels!TypeOK /\ ShimParcels!ParcelReadsBack)
<1>1. H!Shim!Init <=> ShimParcels!Init  BY DEF ShimParcels!Init, H!Shim!Init
<1>2. H!Shim!Next <=> ShimParcels!Next
  BY DEF ShimParcels!Aligned, H!Shim!Aligned, ShimParcels!Doubled, H!Shim!Doubled,
     ShimParcels!Grown, H!Shim!Grown, ShimParcels!Zeroed, H!Shim!Zeroed, ShimParcels!Put,
     H!Shim!Put, ShimParcels!StringWords, H!Shim!StringWords, ShimParcels!Characters,
     H!Shim!Characters, ShimParcels!WriteInt, H!Shim!WriteInt, ShimParcels!WriteLong,
     H!Shim!WriteLong, ShimParcels!WriteString, H!Shim!WriteString, ShimParcels!WriteBinder,
     H!Shim!WriteBinder, ShimParcels!ReadInt, H!Shim!ReadInt, ShimParcels!ReadLong,
     H!Shim!ReadLong, ShimParcels!AtMost, H!Shim!AtMost, ShimParcels!ReadString,
     H!Shim!ReadString, ShimParcels!ReadBinder, H!Shim!ReadBinder, ShimParcels!ReadAs,
     H!Shim!ReadAs, ShimParcels!Read, H!Shim!Read, ShimParcels!SetDataPosition,
     H!Shim!SetDataPosition, ShimParcels!SetDataSize, H!Shim!SetDataSize,
     ShimParcels!SetDataCapacity, H!Shim!SetDataCapacity, ShimParcels!FreeBuffer,
     H!Shim!FreeBuffer, ShimParcels!Next, H!Shim!Next
<1>3. UNCHANGED vars => UNCHANGED H!Shim!vars  BY DEF vars, H!Shim!vars
<1>4. H!Shim!TypeOK /\ H!Shim!ParcelReadsBack => ShimParcels!TypeOK /\ ShimParcels!ParcelReadsBack
  BY DEF ShimParcels!Aligned, H!Shim!Aligned, ShimParcels!StringWords, H!Shim!StringWords,
     ShimParcels!ReadInt, H!Shim!ReadInt, ShimParcels!ReadLong, H!Shim!ReadLong,
     ShimParcels!AtMost, H!Shim!AtMost, ShimParcels!ReadString, H!Shim!ReadString,
     ShimParcels!ReadBinder, H!Shim!ReadBinder, ShimParcels!ReadAs, H!Shim!ReadAs,
     ShimParcels!TypeOK, H!Shim!TypeOK, ShimParcels!Shown, H!Shim!Shown,
     ShimParcels!ParcelReadsBack, H!Shim!ParcelReadsBack
<1>5. Is("shimparcel") /\ Init => H!Shim!Init  BY <1>1 DEF Init, Is
<1>6. Is("shimparcel") /\ [Next]_vars => [H!Shim!Next]_(H!Shim!vars)  BY <1>2, <1>3 DEF Next, Is
<1>7. H!ParcelSizes  BY GuestAssumption DEF H!ParcelSizes
<1>8. H!Shim!Spec => [](H!Shim!TypeOK /\ H!Shim!ParcelReadsBack)  BY <1>7, H!ParcelsReadBack
<1>9. /\ Is("shimparcel") /\ [Next]_vars => Is("shimparcel")'
      /\ ~Is("shimparcel") /\ [Next]_vars => ~Is("shimparcel")'
  BY PartStep DEF Is
<1>10. (Is("shimparcel") => H!Shim!TypeOK /\ H!Shim!ParcelReadsBack) => (part = "shimparcel" => ShimParcels!TypeOK /\ ShimParcels!ParcelReadsBack)
  BY <1>4 DEF Is
<1> QED  BY <1>5, <1>6, <1>8, <1>9, <1>10, PTL DEF Spec, H!Shim!Spec

\* The part "frames" of the system is a behaviour of FrameChannel, of which
\* H!FramesStaySound shows what the part needs.
THEOREM FramesStaySound == Spec => [](part = "frames" => Frames!TypeOK /\ Frames!FramesSound)
<1>1. H!Frames!Init <=> Frames!Init
  BY DEF Frames!NoFile, H!Frames!NoFile, Frames!Init, H!Frames!Init
<1>2. H!Frames!Next <=> Frames!Next
  BY DEF Frames!guest, H!Frames!guest, Frames!shell, H!Frames!shell, Frames!Part, H!Frames!Part,
     Frames!IsHeader, H!Frames!IsHeader, Frames!NoFile, H!Frames!NoFile, Frames!Draw,
     H!Frames!Draw, Frames!WriteBitmapNative, H!Frames!WriteBitmapNative,
     Frames!UnlockCanvasAndPost, H!Frames!UnlockCanvasAndPost, Frames!GetFrameSocket,
     H!Frames!GetFrameSocket, Frames!SendPart, H!Frames!SendPart, Frames!SendFailed,
     H!Frames!SendFailed, Frames!GiveUpSocket, H!Frames!GiveUpSocket, Frames!Finish,
     H!Frames!Finish, Frames!OpenTmp, H!Frames!OpenTmp, Frames!WriteTmp, H!Frames!WriteTmp,
     Frames!RenameTmp, H!Frames!RenameTmp, Frames!GuestDies, H!Frames!GuestDies, Frames!Accept,
     H!Frames!Accept, Frames!CloseClient, H!Frames!CloseClient, Frames!ReadPart,
     H!Frames!ReadPart, Frames!ReadEnd, H!Frames!ReadEnd, Frames!ShowFrame, H!Frames!ShowFrame,
     Frames!StatFile, H!Frames!StatFile, Frames!ReadFile, H!Frames!ReadFile, Frames!Next,
     H!Frames!Next
<1>3. UNCHANGED vars => UNCHANGED H!Frames!vars  BY DEF vars, H!Frames!vars
<1>4. H!Frames!TypeOK /\ H!Frames!FramesSound => Frames!TypeOK /\ Frames!FramesSound
  BY DEF Frames!Part, H!Frames!Part, Frames!NoFile, H!Frames!NoFile, Frames!TypeOK,
     H!Frames!TypeOK, Frames!FramesWhole, H!Frames!FramesWhole, Frames!FramesInOrder,
     H!Frames!FramesInOrder, Frames!FileKept, H!Frames!FileKept, Frames!FramesSound,
     H!Frames!FramesSound
<1>5. Is("frames") /\ Init => H!Frames!Init  BY <1>1 DEF Init, Is
<1>6. Is("frames") /\ [Next]_vars => [H!Frames!Next]_(H!Frames!vars)  BY <1>2, <1>3 DEF Next, Is
<1>7. H!FrameSizes  BY GuestAssumption DEF H!FrameSizes
<1>8. H!Frames!Spec => [](H!Frames!TypeOK /\ H!Frames!FramesSound)  BY <1>7, H!FramesStaySound
<1>9. /\ Is("frames") /\ [Next]_vars => Is("frames")'
      /\ ~Is("frames") /\ [Next]_vars => ~Is("frames")'
  BY PartStep DEF Is
<1>10. (Is("frames") => H!Frames!TypeOK /\ H!Frames!FramesSound) => (part = "frames" => Frames!TypeOK /\ Frames!FramesSound)
  BY <1>4 DEF Is
<1> QED  BY <1>5, <1>6, <1>8, <1>9, <1>10, PTL DEF Spec, H!Frames!Spec

\* The part "arrays" of the system is a behaviour of JniArrays, of which
\* H!ArraysStaySound shows what the part needs.
THEOREM ArraysStaySound == Spec => [](part = "arrays" => Arrays!TypeOK /\ Arrays!ArraysSound)
<1>1. H!Arrays!Init <=> Arrays!Init
  BY DEF Arrays!Quiet, H!Arrays!Quiet, Arrays!Init, H!Arrays!Init
<1>2. H!Arrays!Next <=> Arrays!Next
  BY DEF Arrays!ElementTypes, H!Arrays!ElementTypes, Arrays!Types, H!Arrays!Types, Arrays!Quiet,
     H!Arrays!Quiet, Arrays!NewArray, H!Arrays!NewArray, Arrays!Blocks, H!Arrays!Blocks,
     Arrays!Place, H!Arrays!Place, Arrays!CopyIn, H!Arrays!CopyIn, Arrays!GetElements,
     H!Arrays!GetElements, Arrays!Longest, H!Arrays!Longest, Arrays!Intact, H!Arrays!Intact,
     Arrays!GuestWrites, H!Arrays!GuestWrites, Arrays!Under, H!Arrays!Under,
     Arrays!ReleaseElements, H!Arrays!ReleaseElements, Arrays!InRegion, H!Arrays!InRegion,
     Arrays!SetRegion, H!Arrays!SetRegion, Arrays!Next, H!Arrays!Next
<1>3. UNCHANGED vars => UNCHANGED H!Arrays!vars  BY DEF vars, H!Arrays!vars
<1>4. H!Arrays!TypeOK /\ H!Arrays!ArraysSound => Arrays!TypeOK /\ Arrays!ArraysSound
  BY DEF Arrays!ElementTypes, H!Arrays!ElementTypes, Arrays!Types, H!Arrays!Types, Arrays!Value,
     H!Arrays!Value, Arrays!TypeOK, H!Arrays!TypeOK, Arrays!Longest, H!Arrays!Longest,
     Arrays!Intact, H!Arrays!Intact, Arrays!Under, H!Arrays!Under, Arrays!ElementsHold,
     H!Arrays!ElementsHold, Arrays!ReleaseStoresOwn, H!Arrays!ReleaseStoresOwn,
     Arrays!ArraysSound, H!Arrays!ArraysSound
<1>5. Is("arrays") /\ Init => H!Arrays!Init  BY <1>1 DEF Init, Is
<1>6. Is("arrays") /\ [Next]_vars => [H!Arrays!Next]_(H!Arrays!vars)  BY <1>2, <1>3 DEF Next, Is
<1>7. H!ArraySizes  BY GuestAssumption DEF H!ArraySizes
<1>8. H!Arrays!Spec => [](H!Arrays!TypeOK /\ H!Arrays!ArraysSound)  BY <1>7, H!ArraysStaySound
<1>9. /\ Is("arrays") /\ [Next]_vars => Is("arrays")'
      /\ ~Is("arrays") /\ [Next]_vars => ~Is("arrays")'
  BY PartStep DEF Is
<1>10. (Is("arrays") => H!Arrays!TypeOK /\ H!Arrays!ArraysSound) => (part = "arrays" => Arrays!TypeOK /\ Arrays!ArraysSound)
  BY <1>4 DEF Is
<1> QED  BY <1>5, <1>6, <1>8, <1>9, <1>10, PTL DEF Spec, H!Arrays!Spec

\* The part "classes" of the system is a behaviour of JniClasses, of which
\* H!ClassesStaySound shows what the part needs.
THEOREM ClassesStaySound == Spec => [](part = "classes" => Classes!TypeOK /\ Classes!ClassesSound)
<1>1. H!Jni!Init <=> Classes!Init
  BY DEF Classes!Nobody, H!Jni!Nobody, Classes!None, H!Jni!None, Classes!Idle, H!Jni!Idle,
     Classes!Init, H!Jni!Init
<1>2. H!Jni!Next <=> Classes!Next
  BY DEF Classes!Nobody, H!Jni!Nobody, Classes!None, H!Jni!None, Classes!Idle, H!Jni!Idle,
     Classes!Entry, H!Jni!Entry, Classes!Classes, H!Jni!Classes, Classes!GuestRuns,
     H!Jni!GuestRuns, Classes!GuestWrites, H!Jni!GuestWrites, Classes!InternCharArg,
     H!Jni!InternCharArg, Classes!Known, H!Jni!Known, Classes!Made, H!Jni!Made, Classes!Found,
     H!Jni!Found, Classes!Ask, H!Jni!Ask, Classes!FindClass, H!Jni!FindClass, Classes!GetMemberID,
     H!Jni!GetMemberID, Classes!NewObjectUpTo, H!Jni!NewObjectUpTo, Classes!NewObject,
     H!Jni!NewObject, Classes!NewStringUTF, H!Jni!NewStringUTF, Classes!NewBuffer,
     H!Jni!NewBuffer, Classes!ExceptionOccurred, H!Jni!ExceptionOccurred, Classes!CallMethod,
     H!Jni!CallMethod, Classes!ExceptionClear, H!Jni!ExceptionClear, Classes!Indexes,
     H!Jni!Indexes, Classes!FindNative, H!Jni!FindNative, Classes!RegisterNative,
     H!Jni!RegisterNative, Classes!RegisterNatives, H!Jni!RegisterNatives,
     Classes!CallGuestFunction, H!Jni!CallGuestFunction, Classes!Exported, H!Jni!Exported,
     Classes!Targets, H!Jni!Targets, Classes!HostCalls, H!Jni!HostCalls, Classes!HostCallsNative,
     H!Jni!HostCallsNative, Classes!Back, H!Jni!Back, Classes!GuestReturns, H!Jni!GuestReturns,
     Classes!GuestStops, H!Jni!GuestStops, Classes!Next, H!Jni!Next, Classes!Front, H!Jni!Front,
     Classes!Last, H!Jni!Last
<1>3. UNCHANGED vars => UNCHANGED H!Jni!vars  BY DEF vars, H!Jni!vars
<1>4. H!Jni!TypeOK /\ H!Jni!ClassesSound => Classes!TypeOK /\ Classes!ClassesSound
  BY DEF Classes!Nobody, H!Jni!Nobody, Classes!None, H!Jni!None, Classes!Entry, H!Jni!Entry,
     Classes!Classes, H!Jni!Classes, Classes!Known, H!Jni!Known, Classes!Indexes, H!Jni!Indexes,
     Classes!FindNative, H!Jni!FindNative, Classes!Exported, H!Jni!Exported, Classes!Targets,
     H!Jni!Targets, Classes!TypeOK, H!Jni!TypeOK, Classes!HandlesNameWhatWasAsked,
     H!Jni!HandlesNameWhatWasAsked, Classes!NativesAreLatest, H!Jni!NativesAreLatest,
     Classes!CallsReturnTheirOwn, H!Jni!CallsReturnTheirOwn, Classes!ClassesSound,
     H!Jni!ClassesSound, Classes!Cardinality, H!Jni!Cardinality
<1>5. Is("classes") /\ Init => H!Jni!Init  BY <1>1 DEF Init, Is
<1>6. Is("classes") /\ [Next]_vars => [H!Jni!Next]_(H!Jni!vars)  BY <1>2, <1>3 DEF Next, Is
<1>7. H!ClassSizes  BY GuestAssumption DEF H!ClassSizes, H!Jni!Nobody, Classes!Nobody
<1>8. H!Jni!Spec => [](H!Jni!TypeOK /\ H!Jni!ClassesSound)  BY <1>7, H!ClassesStaySound
<1>9. /\ Is("classes") /\ [Next]_vars => Is("classes")'
      /\ ~Is("classes") /\ [Next]_vars => ~Is("classes")'
  BY PartStep DEF Is
<1>10. (Is("classes") => H!Jni!TypeOK /\ H!Jni!ClassesSound) => (part = "classes" => Classes!TypeOK /\ Classes!ClassesSound)
  BY <1>4 DEF Is
<1> QED  BY <1>5, <1>6, <1>8, <1>9, <1>10, PTL DEF Spec, H!Jni!Spec

\* The part "parcel" of the system is a behaviour of GuestParcel, of which
\* H!ParcelsStaySound shows what the part needs.
THEOREM ParcelStaysSound == Spec => [](part = "parcel" => Parcel!TypeOK /\ Parcel!ParcelsSound)
<1>1. H!Parcel!Init <=> Parcel!Init
  BY DEF Parcel!NoParcel, H!Parcel!NoParcel, Parcel!Init, H!Parcel!Init
<1>2. H!Parcel!Next <=> Parcel!Next
  BY DEF Parcel!NoParcel, H!Parcel!NoParcel, Parcel!Empty, H!Parcel!Empty, Parcel!ExService,
     H!Parcel!ExService, Parcel!ExFailed, H!Parcel!ExFailed, Parcel!FromStatus,
     H!Parcel!FromStatus, Parcel!Statuses, H!Parcel!Statuses, Parcel!Token, H!Parcel!Token,
     Parcel!BareStatus, H!Parcel!BareStatus, Parcel!StatusValue, H!Parcel!StatusValue,
     Parcel!MaxString, H!Parcel!MaxString, Parcel!Int32, H!Parcel!Int32, Parcel!String,
     H!Parcel!String, Parcel!Inputs, H!Parcel!Inputs, Parcel!Append1, H!Parcel!Append1,
     Parcel!Readable, H!Parcel!Readable, Parcel!Under, H!Parcel!Under, Parcel!Advance,
     H!Parcel!Advance, Parcel!Targets, H!Parcel!Targets, Parcel!PrepareTransaction,
     H!Parcel!PrepareTransaction, Parcel!ClientWrites, H!Parcel!ClientWrites,
     Parcel!ClientWritesArray, H!Parcel!ClientWritesArray, Parcel!ClassChanges,
     H!Parcel!ClassChanges, Parcel!TargetDies, H!Parcel!TargetDies, Parcel!Consumed,
     H!Parcel!Consumed, Parcel!Answers, H!Parcel!Answers, Parcel!NoAnswer, H!Parcel!NoAnswer,
     Parcel!Returns, H!Parcel!Returns, Parcel!HeaderOk, H!Parcel!HeaderOk, Parcel!TransactRefused,
     H!Parcel!TransactRefused, Parcel!TransactLocal, H!Parcel!TransactLocal, Parcel!WithoutTokens,
     H!Parcel!WithoutTokens, Parcel!TransactDaemon, H!Parcel!TransactDaemon, Parcel!TransactEcho,
     H!Parcel!TransactEcho, Parcel!HandlerReads, H!Parcel!HandlerReads, Parcel!HandlerSeeks,
     H!Parcel!HandlerSeeks, Parcel!HandlerWrites, H!Parcel!HandlerWrites, Parcel!HandlerReturns,
     H!Parcel!HandlerReturns, Parcel!ReadBack, H!Parcel!ReadBack, Parcel!ClientReadsStatus,
     H!Parcel!ClientReadsStatus, Parcel!ClientReads, H!Parcel!ClientReads, Parcel!DeleteReply,
     H!Parcel!DeleteReply, Parcel!Replies, H!Parcel!Replies, Parcel!Next, H!Parcel!Next
<1>3. UNCHANGED vars => UNCHANGED H!Parcel!vars  BY DEF vars, H!Parcel!vars
<1>4. H!Parcel!TypeOK /\ H!Parcel!ParcelsSound => Parcel!TypeOK /\ Parcel!ParcelsSound
  BY DEF Parcel!ExFailed, H!Parcel!ExFailed, Parcel!FromStatus, H!Parcel!FromStatus,
     Parcel!StatusValue, H!Parcel!StatusValue, Parcel!Targets, H!Parcel!Targets, Parcel!Kinds,
     H!Parcel!Kinds, Parcel!ParcelOK, H!Parcel!ParcelOK, Parcel!TypeOK, H!Parcel!TypeOK,
     Parcel!Seen, H!Parcel!Seen, Parcel!ReadsInOrder, H!Parcel!ReadsInOrder,
     Parcel!ParcelsAccounted, H!Parcel!ParcelsAccounted, Parcel!ParcelsSound,
     H!Parcel!ParcelsSound, Parcel!IsPrefix, H!Parcel!IsPrefix
<1>5. Is("parcel") /\ Init => H!Parcel!Init  BY <1>1 DEF Init, Is
<1>6. Is("parcel") /\ [Next]_vars => [H!Parcel!Next]_(H!Parcel!vars)  BY <1>2, <1>3 DEF Next, Is
<1>7. H!TransactSizes  BY GuestAssumption DEF H!TransactSizes
<1>8. H!Parcel!Spec => [](H!Parcel!TypeOK /\ H!Parcel!ParcelsSound)  BY <1>7, H!ParcelsStaySound
<1>9. /\ Is("parcel") /\ [Next]_vars => Is("parcel")'
      /\ ~Is("parcel") /\ [Next]_vars => ~Is("parcel")'
  BY PartStep DEF Is
<1>10. (Is("parcel") => H!Parcel!TypeOK /\ H!Parcel!ParcelsSound) => (part = "parcel" => Parcel!TypeOK /\ Parcel!ParcelsSound)
  BY <1>4 DEF Is
<1> QED  BY <1>5, <1>6, <1>8, <1>9, <1>10, PTL DEF Spec, H!Parcel!Spec

----
(* The properties of the run. *)

\* The strong count of every binder is the number of references held on it,
\* a held binder is alive, names and death links end when it does; a
\* transaction reads what was written and accounts for its parcels.
THEOREM BindersAndParcelsHold == Spec => []BindersAndParcels
<1>1. (/\ part = "binder" => Binder!TypeOK /\ Binder!BindersSound
       /\ part = "parcel" => Parcel!TypeOK /\ Parcel!ParcelsSound)
        => BindersAndParcels
  BY DEF BindersAndParcels
<1> QED  BY <1>1, BinderStaysSound, ParcelStaysSound, PTL

\* Elements handed to native code stay its own until the scratch ring has gone
\* round, and a release stores them into their own array; a handle stands for
\* what was asked, a method for the function registered last, and a guest call
\* returns its own value.
THEOREM JniEnvironmentHolds == Spec => []JniEnvironment
<1>1. (/\ part = "arrays" => Arrays!TypeOK /\ Arrays!ArraysSound
       /\ part = "classes" => Classes!TypeOK /\ Classes!ClassesSound)
        => JniEnvironment
  BY DEF JniEnvironment
<1> QED  BY <1>1, ArraysStaySound, ClassesStaySound, PTL

\* Every allocator gives out memory of its own; an open asset is the file as
\* it was opened; EGL objects in use are live and mapped buffers do not
\* overlap; a function pointer stays the function that was asked for; a static
\* is initialized once and the counts of a control block are those of its
\* pointers.
THEOREM GuestResourcesHold == Spec => []GuestResources
<1>1. (/\ part = "heap" => Heap!TypeOK /\ Heap!BlocksKeepTheirContents
       /\ part = "assets" => Assets!TypeOK /\ Assets!AssetsAreSnapshots
       /\ part = "egl" => Egl!TypeOK /\ Egl!EglSound
       /\ part = "stubs" => Stubs!TypeOK /\ Stubs!StubsSound
       /\ part = "cxx" => Cxx!TypeOK /\ Cxx!CxxSound)
        => GuestResources
  BY DEF GuestResources
<1> QED
  BY <1>1, HeapStaysSound, AssetsStaySound, EglStaysSound, StubsStaySound, CxxStaysSound, PTL

\* A parcel of the shim reads back as it was written; a recycled motion event
\* has nothing of the one before it, and whoever waits for vsync has it posted;
\* the shell shows whole frames, in order, and a socket that was given up is
\* never written again.
THEOREM ShimChannelsHold == Spec => []ShimChannels
<1>1. (/\ part = "shimparcel" => ShimParcels!TypeOK /\ ShimParcels!ParcelReadsBack
       /\ part = "events" => InputEvents!TypeOK /\ InputEvents!EventsSound
       /\ part = "frames" => Frames!TypeOK /\ Frames!FramesSound)
        => ShimChannels
  BY DEF ShimChannels
<1> QED  BY <1>1, ShimParcelsStaySound, InputEventsStaySound, FramesStaySound, PTL

=============================================================================
