----------------------------- MODULE EglBridge -----------------------------
(***************************************************************************)
(* GpuBridge: the guest's EGL calls, the guest heap behind                 *)
(* glMapBufferRange and the host window (StubTable has its stubs).  It     *)
(* keeps one host display, config, context and surface, and the guest sees *)
(* constants (GUEST_EGL_...) that stand for what is in those slots.        *)
(* ANGLE is external: a handle it gave is live until it is destroyed or    *)
(* its display is terminated, and eglMakeCurrent and eglSwapBuffers refuse *)
(* a handle that is not.  The GL calls that are only forwarded are left    *)
(* out.                                                                    *)
(***************************************************************************)
EXTENDS Integers, Sequences, FiniteSets

CONSTANTS HeapSize,       \* HEAP_SIZE in 16 byte blocks
          MapLimit,       \* the megabyte glMapBufferRange grants at most
          MapLengths,     \* lengths asked for
          MaxHandles,     \* bound: host handles made
          MaxMaps         \* bound: mappings

VARIABLES display,     \* egl_display_: "none", "open" or "initialized"
          config,      \* egl_config_ was chosen
          context,     \* egl_context_, 0 for EGL_NO_CONTEXT
          surface,     \* egl_surface_, 0 for EGL_NO_SURFACE
          handles,     \* ANGLE: the live handles
          made,        \* ANGLE: handles made so far
          current,     \* ANGLE: what is current on the guest's thread
          orphans,     \* slots' handles that a terminate took away
          window,      \* host_window_: "none", "open" or "closed"
          mode,        \* host_window_enabled_ and software frames
          maps,        \* guest buffer mappings
          heapTop      \* heap_bump_

slots == <<config, context, surface>>
angle == <<handles, made, current, orphans>>
vars == <<display, config, context, surface, handles, made, current, orphans, window, mode,
          maps, heapTop>>

Nothing == [surface |-> 0, context |-> 0]

TypeOK ==
    /\ display \in {"none", "open", "initialized"}
    /\ {context, surface} \subseteq 0 .. MaxHandles
    /\ handles \subseteq 1 .. made
    /\ window \in {"none", "open", "closed"}
    /\ heapTop \in 0 .. HeapSize

Init ==
    /\ display = "none" /\ config = FALSE /\ context = 0 /\ surface = 0
    /\ handles = {} /\ made = 0 /\ current = Nothing /\ orphans = {}
    /\ mode \in [windowed : BOOLEAN, software : BOOLEAN]
    /\ window = "none"
    /\ maps = <<>> /\ heapTop = 0

----
(* The display and its two slots. *)

\* eglGetDisplay, eglGetPlatformDisplay: the one display is opened once.
EglGetDisplay ==
    /\ display = "none"
    /\ display' = "open"
    /\ UNCHANGED <<slots, angle, window, mode, maps, heapTop>>

EglInitialize ==
    /\ display = "open"
    /\ display' = "initialized"
    /\ UNCHANGED <<slots, angle, window, mode, maps, heapTop>>

\* eglChooseConfig: every surface is a pbuffer, so its bit is added to the
\* wanted types; a request that nothing matches leaves the slot alone.
EglChooseConfig ==
    /\ display = "initialized"
    /\ config' = TRUE
    /\ UNCHANGED <<display, context, surface, angle, window, mode, maps, heapTop>>

\* ANGLE makes a handle on an initialized display with a chosen config, and
\* gives EGL_NO_* otherwise.
Made == IF display = "initialized" /\ config THEN made + 1 ELSE 0
MakeHandle ==
    /\ made' = IF Made = 0 THEN made ELSE Made
    /\ handles' = handles \cup ({Made} \ {0})
    /\ UNCHANGED <<current, orphans>>

\* eglCreateContext: the slot is overwritten, the old context leaks.
EglCreateContext ==
    /\ display # "none" /\ made < MaxHandles
    /\ MakeHandle
    /\ context' = Made
    /\ UNCHANGED <<display, config, surface, window, mode, maps, heapTop>>

\* eglCreateWindowSurface: a surface the slot holds is used again.
EglCreateWindowSurface ==
    /\ display # "none" /\ made < MaxHandles /\ surface = 0
    /\ MakeHandle
    /\ surface' = Made
    /\ UNCHANGED <<display, config, context, window, mode, maps, heapTop>>

\* eglCreatePbufferSurface: always a new one.
EglCreatePbufferSurface ==
    /\ display # "none" /\ made < MaxHandles
    /\ MakeHandle
    /\ surface' = Made
    /\ UNCHANGED <<display, config, context, window, mode, maps, heapTop>>

\* eglMakeCurrent: the guest's constants become the slots' handles, anything
\* else EGL_NO_*.  ANGLE wants both or neither, and live ones.
EglMakeCurrent(wanted) ==
    LET bind == [surface |-> IF wanted THEN surface ELSE 0,
                 context |-> IF wanted THEN context ELSE 0]
    IN  /\ display = "initialized"
        /\ bind = Nothing \/ {bind.surface, bind.context} \subseteq handles
        /\ current' = bind
        /\ UNCHANGED <<display, slots, handles, made, orphans, window, mode, maps, heapTop>>

----
(* The host window. *)

HostWindowActive == window = "open"

\* ensure_host_window(): a window that was closed is opened again.
EnsureHostWindow == IF mode.windowed /\ ~HostWindowActive THEN {"open", "none"} ELSE {window}

\* eglSwapBuffers then present_egl_surface(): ANGLE swaps only the current
\* surface, whose pixels are then read.
EglSwapBuffers ==
    /\ display = "initialized" /\ surface # 0
    /\ surface \in handles /\ current.surface = surface
    /\ IF mode.windowed /\ ~mode.software
       THEN window' \in EnsureHostWindow
       ELSE UNCHANGED window
    /\ UNCHANGED <<display, slots, angle, mode, maps, heapTop>>

\* present_native_window_buffer(): the buffer the guest drew in software.
PresentNativeWindowBuffer ==
    /\ mode.windowed /\ ~mode.software
    /\ window' \in EnsureHostWindow
    /\ UNCHANGED <<display, slots, angle, mode, maps, heapTop>>

\* pump_host_app_events() and collect_host_input_events().
PumpHostAppEvents ==
    /\ mode.windowed
    /\ window' \in EnsureHostWindow
    /\ UNCHANGED <<display, slots, angle, mode, maps, heapTop>>

UserClosesWindow ==
    /\ HostWindowActive
    /\ window' = "closed"
    /\ UNCHANGED <<display, slots, angle, mode, maps, heapTop>>

----
(* Giving handles back. *)

\* eglDestroyContext and eglDestroySurface of the guest's constants.
EglDestroyContext ==
    /\ display # "none" /\ context # 0
    /\ handles' = handles \ {context}
    /\ context' = 0
    /\ UNCHANGED <<display, config, surface, made, current, orphans, window, mode, maps, heapTop>>

\* Mutant: the surface is destroyed and its slot kept.
EglDestroySurfaceKeepingSlot ==
    /\ display # "none" /\ surface # 0
    /\ handles' = handles \ {surface}
    /\ UNCHANGED <<display, slots, made, current, orphans, window, mode, maps, heapTop>>
EglDestroySurface ==
    /\ display # "none" /\ surface # 0
    /\ handles' = handles \ {surface}
    /\ surface' = 0
    /\ UNCHANGED <<display, config, context, made, current, orphans, window, mode, maps, heapTop>>

\* eglTerminate: ANGLE drops every handle of the display; the slots keep
\* theirs, and the constants go on standing for them.
EglTerminate ==
    /\ display # "none"
    /\ display' = "none"
    /\ orphans' = orphans \cup ({context, surface} \ {0})
    /\ handles' = {}
    /\ UNCHANGED <<slots, made, current, window, mode, maps, heapTop>>

\* eglReleaseThread.
EglReleaseThread ==
    /\ current' = Nothing
    /\ UNCHANGED <<display, slots, handles, made, orphans, window, mode, maps, heapTop>>

----
(* Guest memory for mapped buffers. *)

Smaller(a, b) == IF a < b THEN a ELSE b

\* glMapBufferRange: at most MapLimit, zeroed, from a heap nothing returns
\* to; glUnmapBuffer only answers GL_TRUE.
GlMapBufferRange(length) ==
    LET granted == Smaller(length, MapLimit)
    IN  /\ Len(maps) < MaxMaps /\ granted > 0
        /\ heapTop + granted <= HeapSize
        /\ maps' = Append(maps, [at |-> heapTop, asked |-> length, granted |-> granted])
        /\ heapTop' = heapTop + granted
        /\ UNCHANGED <<display, slots, angle, window, mode>>

Next ==
    \/ EglGetDisplay \/ EglInitialize \/ EglChooseConfig
    \/ EglCreateContext \/ EglCreateWindowSurface \/ EglCreatePbufferSurface
    \/ \E wanted \in BOOLEAN : EglMakeCurrent(wanted)
    \/ EglSwapBuffers \/ PresentNativeWindowBuffer \/ PumpHostAppEvents \/ UserClosesWindow
    \/ EglDestroyContext \/ EglDestroySurface \/ EglTerminate \/ EglReleaseThread
    \/ \E length \in MapLengths : GlMapBufferRange(length)

Spec == Init /\ [][Next]_vars

----
(* Properties. *)

\* A constant the guest holds stands for a live host handle, whatever was
\* created, overwritten or destroyed before, except a handle that an
\* eglTerminate took while it was in a slot (eglTerminate keeps the slots).
SlotsLive ==
    \A h \in {context, surface} \ {0} : h \in handles \/ h \in orphans

\* The blocks glMapBufferRange hands out never overlap and stay inside the
\* heap install() mapped, however often buffers are mapped.
MapsDisjoint ==
    \A i, j \in DOMAIN maps :
        /\ maps[i].at + maps[i].granted <= HeapSize
        /\ i < j => maps[i].at + maps[i].granted <= maps[j].at

\* The bridge's slots and mappings stay consistent.
EglSound == SlotsLive /\ MapsDisjoint
=============================================================================
