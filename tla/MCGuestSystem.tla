---------------------------- MODULE MCGuestSystem ----------------------------
(***************************************************************************)
(* The components of the guest side: binder objects and parcels, the JNI   *)
(* environment, the two loaders and the relocations they read, memory,     *)
(* assets, graphics, stubs and C++ support of the Android runtime, and the *)
(* drawing, parcels, events and frames of the ART shim.  A behaviour is    *)
(* one of one component (part).  The components share no state here, so    *)
(* each takes the variables it needs from v1, v2, ... and leaves the       *)
(* others at 0.  GuestSystem.cfg gives the constants.                      *)
(***************************************************************************)
EXTENDS Integers, Sequences, FiniteSets

CONSTANTS
    Parts,                                                \* the components to check
    \* GuestBinder
    ServiceNames, Recipients, MaxBinders, MaxHeld, MaxLoops,
    \* GuestParcel
    MaxValues, MaxCalls,
    \* JniArrays
    RingBlocks, Lengths, MaxArrays, MaxGets,
    \* JniClasses
    Buffers, MethodNames, Functions, NativeExports, MaxJniHandles, MaxDepth,
    \* DirectSo
    Main, Deps, Builtin, NeedsOf(_), Size(_), MemoryEnd,
    \* GuestLinker
    Exe, LinkedLibs, SystemLibs, LinksOf(_), TlsSize(_), TlsStart, MaxObjects,
    \* PackedRelocs
    WordBits, Digit, MemorySlots, RelrFiles, Groups,
    \* EglBridge
    MapHeapSize, MapLimit, MapLengths, MaxEglHandles, MaxMaps,
    \* StubTable
    Libraries, Names, Exports, HostProcs, Imports, ProcBase, ProcLimit, ImportLimit, MaxStubs,
    MaxHandles,
    \* GuestCxx
    Threads, Guards, ControlBlocks, MaxRefs,
    \* GuestHeap
    HeapWords, HeapBase, HeapSize, Unit, Page, StackSize, BitmapBytes, Requests, MaxBlocks,
    \* GuestAssets
    AssetNames, SafeNames, Sizes, ReadCounts, MaxAssets, MaxReplaced,
    \* ShimCanvas
    BitmapSlots, CanvasSlots, StackLimit, MaxBitmaps, MaxCanvases, MaxCanvasCalls,
    \* ShimPaint
    PaintSlots, FilterSlots, ShaderSlots, MaxPaints, MaxFilters, MaxShaders,
    \* ShimParcel
    MaxWords, MinCapacity, MaxParcelBinders,
    \* ShimEvents
    Events, Receivers, MaxX, MaxPosted,
    \* FrameChannel
    FrameParts, BufferParts, MaxFrames, MaxConns

VARIABLES part, v1, v2, v3, v4, v5, v6, v7, v8, v9, v10, v11, v12, v13, v14

\* JniClasses and StubTable: what the libraries export.
MCNativeExports == {<<"n1", "f2">>}
MCExports == {<<"gl", "f">>, <<"egl", "f">>}

\* DirectSo: libraries that need each other, in both orders and in circles.
MCNeedsOf(lib) ==
    [main |-> {<<>>, <<"a">>, <<"a", "b">>, <<"b", "a">>},
     a |-> {<<>>, <<"b">>, <<"c">>},
     b |-> {<<>>, <<"a">>, <<"c">>},
     c |-> {<<>>}][lib]
MCSize(lib) == IF lib = "a" THEN 2 ELSE 1

\* GuestLinker: the same for an executable and its libraries.
MCLinksOf(lib) ==
    [main |-> {<<>>, <<"a", "b">>}, a |-> {<<>>, <<"b", "c">>}, b |-> {<<>>, <<"a">>},
     c |-> {<<>>}, d |-> {<<>>}][lib]
MCTlsSize(lib) == IF lib = "a" THEN 3 ELSE 1

\* PackedRelocs: tables with a second window or a second address, and groups
\* of one or two relocations with every set of flags.
RelrAddress(s) == [bitmap |-> FALSE, slot |-> s, bits |-> {}]
MCWindows == [bitmap : {TRUE}, slot : {0}, bits : {{}, {0}, {1, 2}, {4}}]
MCRelrFiles ==
    {<<RelrAddress(a), w>> \o v : a \in {0, 2}, w \in MCWindows,
        v \in {<<>>} \cup {<<x>> : x \in MCWindows} \cup {<<RelrAddress(9), x>> : x \in MCWindows}}
Reloc(offset, info, addend) == [offset |-> offset, info |-> info, addend |-> addend]
MCGroups ==
    [relocs : {<<Reloc(o, 40, a)>> : o \in {9, 60}, a \in {0, 63}}
              \cup {<<Reloc(8, 1, a), Reloc(16, 1, a)>> : a \in {0, 33}},
     flags : SUBSET {"GROUPED_BY_INFO", "GROUPED_BY_OFFSET_DELTA", "GROUPED_BY_ADDEND", "GROUP_HAS_ADDEND"}]

----
(* The components. *)

Binder == INSTANCE GuestBinder WITH
    svc <- v1, byName <- v2, removed <- v3, weak <- v4, frames <- v5, held <- v6,
    destroyed <- v7, ends <- v8, loops <- v9, torn <- v10

Parcel == INSTANCE GuestParcel WITH
    phase <- v1, target <- v2, inp <- v3, out <- v4, inPtr <- v5, outPtr <- v6, sent <- v7,
    served <- v8, answered <- v9, got <- v10, result <- v11, calls <- v12

Arrays == INSTANCE JniArrays WITH
    arrays <- v1, ring <- v2, bump <- v3, held <- v4, gets <- v5, last <- v6

Classes == INSTANCE JniClasses WITH
    Names <- MethodNames, Exports <- NativeExports, MaxHandles <- MaxJniHandles, text <- v1,
    interned <- v2, handles <- v3, natives <- v4, thrown <- v5, frames <- v6, regs <- v7,
    retval <- v8, answer <- v9, bound <- v10, done <- v11

Direct == INSTANCE DirectSo WITH
    needs <- v1, onDisk <- v2, defines <- v3, symbol <- v4, objects <- v5, at <- v6,
    nextBase <- v7, cursor <- v8, phase <- v9, turn <- v10, bound <- v11, ready <- v12,
    inited <- v13

Linker == INSTANCE GuestLinker WITH
    Libraries <- LinkedLibs, links <- v1, found <- v2, exports <- v3, objs <- v4, stack <- v5,
    stage <- v6, tls <- v7, slots <- v8, linkTurn <- v9, opening <- v10, handle <- v11

Relocs == INSTANCE PackedRelocs WITH
    Width <- WordBits, loader <- v1, file <- v2, pos <- v3, slot <- v4, info <- v5, addend <- v6,
    group <- v7, applied <- v8, wanted <- v9, at <- v10

Egl == INSTANCE EglBridge WITH
    HeapSize <- MapHeapSize, MaxHandles <- MaxEglHandles, display <- v1, config <- v2,
    context <- v3, surface <- v4, handles <- v5, made <- v6, current <- v7, orphans <- v8,
    window <- v9, mode <- v10, maps <- v11, heapTop <- v12

Stubs == INSTANCE StubTable WITH
    procs <- v1, imported <- v2, arena <- v3, handlers <- v4, nextProc <- v5, nextImport <- v6,
    opened <- v7, nextHandle <- v8, mine <- v9, held <- v10

Cxx == INSTANCE GuestCxx WITH
    Blocks <- ControlBlocks, flag <- v1, within <- v2, completed <- v3, made <- v4, owners <- v5,
    weakOwners <- v6, strong <- v7, weak <- v8, dead <- v9, aborted <- v10

Heap == INSTANCE GuestHeap WITH
    Width <- HeapWords, heapBump <- v1, cells <- v2, blocks <- v3, died <- v4

Assets == INSTANCE GuestAssets WITH
    Counts <- ReadCounts, onRoot <- v1, assets <- v2, nextAsset <- v3, mine <- v4, answer <- v5,
    replaced <- v6

Canvas == INSTANCE ShimCanvas WITH
    MaxCalls <- MaxCanvasCalls, bmp <- v1, cvs <- v2, wrapIdx <- v3, bmpToken <- v4,
    cvsToken <- v5, surface <- v6, probe <- v7, calls <- v8

Paint == INSTANCE ShimPaint WITH
    paints <- v1, filters <- v2, shaders <- v3, paintToken <- v4, filterToken <- v5,
    shaderToken <- v6, wish <- v7, source <- v8

ShimParcels == INSTANCE ShimParcel WITH
    MaxBinders <- MaxParcelBinders, words <- v1, size <- v2, pos <- v3, cap <- v4, binders <- v5,
    intact <- v6

InputEvents == INSTANCE ShimEvents WITH
    native <- v1, ptr <- v2, pooled <- v3, told <- v4, handle <- v5, waiting <- v6, posted <- v7

Frames == INSTANCE FrameChannel WITH
    Parts <- FrameParts, frame <- v1, caller <- v2, wpc <- v3, attempt <- v4, sent <- v5,
    sock <- v6, conns <- v7, serving <- v8, got <- v9, queue <- v10, shown <- v11, tmp <- v12,
    file <- v13, poll <- v14

----
\* Sizes and bounds are numbers, the arena is small beside what a machine word
\* can count, the ranges of stub numbers follow each other, no library has the
\* name that stands for a search of all of them, the Java objects are finitely
\* many, the buffer of a parcel is a small multiple of its first allocation, a
\* frame has a part, arrays have a longest length, and no function is the one
\* that stands for none.
ASSUME GuestAssumption ==
    /\ MaxBinders \in Nat /\ MaxCalls \in Nat
    /\ HeapBase \in Nat /\ HeapSize \in Nat /\ Unit \in Nat \ {0} /\ Page \in Nat \ {0}
    /\ StackSize \in Nat /\ BitmapBytes \in Nat /\ HeapWords \in Nat /\ Requests \subseteq Nat
    /\ HeapBase + 2 * HeapSize + Page + Unit <= HeapWords
    /\ Sizes \subseteq Nat /\ ReadCounts \subseteq Nat /\ MaxAssets \in Nat
    /\ MapHeapSize \in Nat /\ MapLimit \in Nat /\ MapLengths \subseteq Nat /\ MaxEglHandles \in Nat
    /\ ProcBase \in Nat /\ ProcLimit \in Nat /\ ImportLimit \in Nat
    /\ ProcBase <= ProcLimit /\ ProcLimit <= ImportLimit
    /\ \A n \in Names : <<Stubs!Anywhere, n>> \notin Exports
    /\ IsFiniteSet(Events) /\ MaxX \in Nat \ {0} /\ MaxPosted \in Nat
    /\ MaxWords \in Nat /\ MinCapacity \in Nat \ {0} /\ MaxParcelBinders \in Nat
    /\ MaxWords <= 256 * MinCapacity
    /\ RingBlocks \in Nat /\ Lengths \subseteq Nat
    /\ \E n \in Lengths : n > 0 /\ \A k \in Lengths : k <= n
    /\ Classes!Nobody \notin Functions
    /\ FrameParts \in Nat \ {0} /\ BufferParts \in Nat /\ MaxFrames \in Nat /\ MaxConns \in Nat

----
\* The variables from the n-th on, for a component that has fewer.
Rest15 == part
Rest14 == <<v14, Rest15>>
Rest13 == <<v13, Rest14>>
Rest12 == <<v12, Rest13>>
Rest11 == <<v11, Rest12>>
Rest10 == <<v10, Rest11>>
Rest9 == <<v9, Rest10>>
Rest8 == <<v8, Rest9>>
Rest7 == <<v7, Rest8>>
Rest6 == <<v6, Rest7>>
Rest5 == <<v5, Rest6>>

Idle15 == TRUE
Idle14 == v14 = 0 /\ Idle15
Idle13 == v13 = 0 /\ Idle14
Idle12 == v12 = 0 /\ Idle13
Idle11 == v11 = 0 /\ Idle12
Idle10 == v10 = 0 /\ Idle11
Idle9 == v9 = 0 /\ Idle10
Idle8 == v8 = 0 /\ Idle9
Idle7 == v7 = 0 /\ Idle8
Idle6 == v6 = 0 /\ Idle7
Idle5 == v5 = 0 /\ Idle6

Init ==
    /\ part \in Parts
    /\ \/ part = "binder" /\ Binder!Init /\ Idle11
       \/ part = "parcel" /\ Parcel!Init /\ Idle13
       \/ part = "arrays" /\ Arrays!Init /\ Idle7
       \/ part = "classes" /\ Classes!Init /\ Idle12
       \/ part = "direct" /\ Direct!Init /\ Idle14
       \/ part = "linker" /\ Linker!Init /\ Idle12
       \/ part = "relocs" /\ Relocs!Init /\ Idle11
       \/ part = "egl" /\ Egl!Init /\ Idle13
       \/ part = "stubs" /\ Stubs!Init /\ Idle11
       \/ part = "cxx" /\ Cxx!Init /\ Idle11
       \/ part = "heap" /\ Heap!Init /\ Idle5
       \/ part = "assets" /\ Assets!Init /\ Idle7
       \/ part = "canvas" /\ Canvas!Init /\ Idle9
       \/ part = "paint" /\ Paint!Init /\ Idle9
       \/ part = "shimparcel" /\ ShimParcels!Init /\ Idle7
       \/ part = "events" /\ InputEvents!Init /\ Idle8
       \/ part = "frames" /\ Frames!Init /\ Idle15

Next ==
    \/ part = "binder" /\ Binder!Next /\ UNCHANGED Rest11
    \/ part = "parcel" /\ Parcel!Next /\ UNCHANGED Rest13
    \/ part = "arrays" /\ Arrays!Next /\ UNCHANGED Rest7
    \/ part = "classes" /\ Classes!Next /\ UNCHANGED Rest12
    \/ part = "direct" /\ Direct!Next /\ UNCHANGED Rest14
    \/ part = "linker" /\ Linker!Next /\ UNCHANGED Rest12
    \/ part = "relocs" /\ Relocs!Next /\ UNCHANGED Rest11
    \/ part = "egl" /\ Egl!Next /\ UNCHANGED Rest13
    \/ part = "stubs" /\ Stubs!Next /\ UNCHANGED Rest11
    \/ part = "cxx" /\ Cxx!Next /\ UNCHANGED Rest11
    \/ part = "heap" /\ Heap!Next /\ UNCHANGED Rest5
    \/ part = "assets" /\ Assets!Next /\ UNCHANGED Rest7
    \/ part = "canvas" /\ Canvas!Next /\ UNCHANGED Rest9
    \/ part = "paint" /\ Paint!Next /\ UNCHANGED Rest9
    \/ part = "shimparcel" /\ ShimParcels!Next /\ UNCHANGED Rest7
    \/ part = "events" /\ InputEvents!Next /\ UNCHANGED Rest8
    \/ part = "frames" /\ Frames!Next /\ UNCHANGED Rest15

vars == <<part, v1, v2, v3, v4, v5, v6, v7, v8, v9, v10, v11, v12, v13, v14>>
Spec == Init /\ [][Next]_vars

----
(* Properties. *)

\* The strong count of every binder is the number of references held on it,
\* a held binder is alive, names and death links end when it does
\* (GuestBinder); a transaction reads what was written and accounts for its
\* parcels on every path (GuestParcel).
BindersAndParcels ==
    /\ part = "binder" => Binder!TypeOK /\ Binder!BindersSound
    /\ part = "parcel" => Parcel!TypeOK /\ Parcel!ParcelsSound

\* Elements handed to native code stay its own until they are released or the
\* scratch ring has gone round, and a release stores them into their own array
\* (JniArrays); a handle stands for what was asked, a method for the function
\* registered last, and a guest call returns its own value (JniClasses).
JniEnvironment ==
    /\ part = "arrays" => Arrays!TypeOK /\ Arrays!ArraysSound
    /\ part = "classes" => Classes!TypeOK /\ Classes!ClassesSound

\* Images do not overlap, all importers of a symbol get the same definition,
\* and what is started is whole (DirectSo); the guest's linker binds alike,
\* hands out handles of relocated objects only, and keeps thread-local blocks
\* apart (GuestLinker); packed relocations are applied as they were packed
\* (PackedRelocs).
Loaders ==
    /\ part = "direct" => Direct!TypeOK /\ Direct!DirectSoSound
    /\ part = "linker" => Linker!TypeOK /\ Linker!LinkerSound
    /\ part = "relocs" => Relocs!TypeOK /\ Relocs!RelocsSound

\* Every allocator gives out memory of its own (GuestHeap); an open asset is
\* the file as it was opened (GuestAssets); EGL objects in use are live and
\* mapped buffers do not overlap (EglBridge); a function pointer stays the
\* function that was asked for (StubTable); a static is initialized once and
\* the counts of a control block are those of its pointers (GuestCxx).
GuestResources ==
    /\ part = "heap" => Heap!TypeOK /\ Heap!BlocksKeepTheirContents
    /\ part = "assets" => Assets!TypeOK /\ Assets!AssetsAreSnapshots
    /\ part = "egl" => Egl!TypeOK /\ Egl!EglSound
    /\ part = "stubs" => Stubs!TypeOK /\ Stubs!StubsSound
    /\ part = "cxx" => Cxx!TypeOK /\ Cxx!CxxSound

\* Drawing stays inside the clip, a restore brings back what was saved, the
\* newest canvases are found (ShimCanvas); a paint has the attributes its
\* owner gave it although slots are used again (ShimPaint).
Drawing ==
    /\ part = "canvas" => Canvas!TypeOK /\ Canvas!CanvasSound
    /\ part = "paint" => Paint!TypeOK /\ Paint!PaintSound

\* A parcel of the shim reads back as it was written (ShimParcel); a recycled
\* motion event has nothing of the one before it, and whoever waits for vsync
\* has it posted (ShimEvents); the shell shows whole frames, in order, and a
\* socket that was given up is never written again (FrameChannel).
ShimChannels ==
    /\ part = "shimparcel" => ShimParcels!TypeOK /\ ShimParcels!ParcelReadsBack
    /\ part = "events" => InputEvents!TypeOK /\ InputEvents!EventsSound
    /\ part = "frames" => Frames!TypeOK /\ Frames!FramesSound

=============================================================================
