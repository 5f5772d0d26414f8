----------------------------- MODULE JniClasses -----------------------------
(***************************************************************************)
(* Names, handles and calls of the guest's JNI environment.  Handles come  *)
(* from one counter and are never freed.  A char argument is a guest       *)
(* address whose bytes the bridge reads at each call into the string table *)
(* under that address; FindClass, GetMethodID and GetFieldID answer from   *)
(* the table.  RegisterNatives binds methods to guest functions, and the   *)
(* host calls them on the guest's vCPU: such calls nest, every call ends   *)
(* at the same sentinel stub and leaves its result in one variable.        *)
(***************************************************************************)
EXTENDS Integers, Sequences, SequencesExt, FiniteSets

CONSTANTS Buffers,       \* guest addresses of character data
          Names,         \* what those may hold: class and method names
          Functions,     \* guest functions
          Exports,       \* <<name, function>>: Java_... symbols of the library
          MaxHandles,    \* bound: handles allocated
          MaxDepth       \* bound: nested guest calls

VARIABLES text,      \* Buffers -> Names: guest memory, as the guest writes it
          interned,  \* strings_ under guest addresses
          handles,   \* handle -> [kind, of, name]
          natives,   \* class handle -> JClass::methods
          thrown,    \* pending_exception_
          frames,    \* guest calls under way, innermost last, each with what
                     \* the last call nested in it gave
          regs,      \* the vCPU: the function its registers belong to
          retval,    \* onload_retval_
          answer,    \* the last handle returned, and what it was asked for
          bound,     \* the last function registered for a method
          done       \* the last guest call finished

vars == <<text, interned, handles, natives, thrown, frames, regs, retval, answer, bound, done>>

Nobody == "none"
None == [handle |-> 0, kind |-> Nobody, of |-> 0, name |-> Nobody]
Idle == [got |-> 0, gave |-> 0]
Entry(kind, of, name) == [kind |-> kind, of |-> of, name |-> name]
Classes == {h \in DOMAIN handles : handles[h].kind = "class"}

Init ==
    /\ text \in [Buffers -> Names]
    /\ interned = [a \in Buffers |-> Nobody]
    /\ handles = <<>>
    /\ natives = <<>>
    /\ thrown = FALSE
    /\ frames = <<>>
    /\ regs = "host"
    /\ retval = 0
    /\ answer = None
    /\ bound = {}
    /\ done = Idle

Calls == <<frames, regs, retval, done>>

\* The guest runs: before the first call (JNI_OnLoad's caller) or inside one.
GuestRuns == frames # <<>>

GuestWrites(a, n) ==
    /\ GuestRuns
    /\ text[a] # n
    /\ text' = [text EXCEPT ![a] = n]
    /\ answer' = None
    /\ done' = Idle
    /\ UNCHANGED <<interned, handles, natives, thrown, frames, regs, retval, bound>>

\* intern_char_arg(): what is at the address now replaces what was there.
InternCharArg(a) == [interned EXCEPT ![a] = text[a]]

\* Search by contents before allocating: FindClass, GetMethodID, GetFieldID.
Known(kind, of, name) == {h \in DOMAIN handles : handles[h] = Entry(kind, of, name)}
Made(kind, of, name) ==
    IF Known(kind, of, name) # {} THEN handles ELSE Append(handles, Entry(kind, of, name))
Found(kind, of, name) ==
    IF Known(kind, of, name) # {} THEN CHOOSE h \in Known(kind, of, name) : TRUE
    ELSE Len(handles) + 1

Ask(kind, of, a) ==
    /\ interned' = InternCharArg(a)
    /\ handles' = Made(kind, of, interned'[a])
    /\ Len(handles') <= MaxHandles
    /\ answer' = [handle |-> Found(kind, of, interned'[a]), kind |-> kind,
                  of |-> of, name |-> text[a]]
    /\ done' = Idle

\* jni_FindClass: an unknown class is made up so that natives can be bound.
FindClass(a) ==
    /\ GuestRuns
    /\ Ask("class", 0, a)
    /\ natives' = IF Len(handles') > Len(handles) THEN Append(natives, <<>>) ELSE natives
    /\ UNCHANGED <<text, thrown, frames, regs, retval, bound>>

\* jni_GetMethodID, jni_GetFieldID: a handle that is no class throws.
GetMemberID(kind, h, a) ==
    /\ GuestRuns
    /\ \/ /\ h \in Classes
          /\ Ask(kind, h, a)
          /\ natives' = IF Len(handles') > Len(handles) THEN Append(natives, <<>>) ELSE natives
          /\ UNCHANGED thrown
       \/ /\ h \notin Classes
          /\ interned' = InternCharArg(a)
          /\ thrown' = TRUE
          /\ answer' = None
          /\ done' = Idle
          /\ UNCHANGED <<handles, natives>>
    /\ UNCHANGED <<text, frames, regs, retval, bound>>

\* make_string(), make_<type>_array(), make_direct_buffer(), register_object():
\* a fresh handle each; NewStringUTF takes its text from the address, and
\* getPackageName its own ("pkg").
NewObjectUpTo(limit, kind, name) ==
    /\ Len(handles) < limit
    /\ handles' = Append(handles, Entry(kind, 0, name))
    /\ natives' = Append(natives, <<>>)
    /\ answer' = [handle |-> Len(handles) + 1, kind |-> kind, of |-> 0, name |-> name]
    /\ done' = Idle
NewObject(kind, name) == NewObjectUpTo(MaxHandles, kind, name)
NewStringUTF(a) ==
    /\ GuestRuns
    /\ interned' = InternCharArg(a)
    /\ NewObject("string", interned'[a])
    /\ UNCHANGED <<text, thrown, frames, regs, retval, bound>>
NewBuffer ==
    /\ GuestRuns
    /\ NewObject("object", Nobody)
    /\ UNCHANGED <<text, interned, thrown, frames, regs, retval, bound>>

\* ExceptionOccurred makes a Throwable each time it is asked.
ExceptionOccurred ==
    /\ GuestRuns
    /\ thrown
    /\ NewObject("object", Nobody)
    /\ UNCHANGED <<text, interned, thrown, frames, regs, retval, bound>>

\* Call<Type>Method, GetObjectClass, Get/Set<Type>ArrayRegion, array elements:
\* an argument that is no such thing throws; the answers themselves change
\* nothing.  CallObjectMethod knows the package getters only (whose string may
\* be one more than MaxHandles).
CallMethod(h) ==
    /\ GuestRuns
    /\ \/ /\ handles[h].kind = "method"
          /\ NewObjectUpTo(MaxHandles + 1, "string", "pkg")
          /\ UNCHANGED thrown
       \/ /\ thrown' = TRUE
          /\ answer' = None
          /\ done' = Idle
          /\ UNCHANGED <<handles, natives>>
    /\ UNCHANGED <<text, interned, frames, regs, retval, bound>>

ExceptionClear ==
    /\ GuestRuns
    /\ thrown
    /\ thrown' = FALSE
    /\ answer' = None
    /\ done' = Idle
    /\ UNCHANGED <<text, interned, handles, natives, frames, regs, retval, bound>>

\* find_native(): the first entry with the name.
Indexes(h, n) == {i \in DOMAIN natives[h] : natives[h][i].name = n}
FindNative(h, n) ==
    IF Indexes(h, n) = {} THEN Nobody
    ELSE natives[h][CHOOSE i \in Indexes(h, n) : \A j \in Indexes(h, n) : i <= j].fn

\* register_native(): replace the entry of that name, or add one.
RegisterNative(table, n, f) ==
    IF \E i \in DOMAIN table : table[i].name = n
    THEN [i \in DOMAIN table |-> IF table[i].name = n THEN [name |-> n, fn |-> f] ELSE table[i]]
    ELSE Append(table, [name |-> n, fn |-> f])

\* RegisterNatives: answers JNI_OK whatever the class is; the names are read
\* where they lie and do not enter the string table.
RegisterNatives(h, a, f) ==
    /\ GuestRuns
    /\ h \in Classes
    /\ natives' = [natives EXCEPT ![h] = RegisterNative(@, text[a], f)]
    /\ bound' = {b \in bound : ~(b.class = h /\ b.name = text[a])}
                  \cup {[class |-> h, name |-> text[a], fn |-> f]}
    /\ answer' = None
    /\ done' = Idle
    /\ UNCHANGED <<text, interned, handles, thrown, frames, regs, retval>>

\* Mutant: the result of the last guest call is not cleared before the next.
CallGuestFunctionUncleared(f) ==
    /\ Len(frames) < MaxDepth
    /\ frames' = Append(frames, [fn |-> f, saved |-> regs, inner |-> 0])
    /\ regs' = f
    /\ UNCHANGED retval
    /\ answer' = None
    /\ done' = Idle
    /\ UNCHANGED <<text, interned, handles, natives, thrown, bound>>

\* call_jni_onload(), call_guest_function(), call_native(): registers saved, the
\* sentinel put in LR, the result cleared, and the run loop entered again.
CallGuestFunction(f) ==
    /\ Len(frames) < MaxDepth
    /\ frames' = Append(frames, [fn |-> f, saved |-> regs, inner |-> 0])
    /\ regs' = f
    /\ retval' = 0
    /\ answer' = None
    /\ done' = Idle
    /\ UNCHANGED <<text, interned, handles, natives, thrown, bound>>

\* find_symbol(): the library's dynamic symbols, read from its file.
Exported(n) == {e[2] : e \in {e \in Exports : e[1] = n}}

\* resolve_jni_call_target(): a registered native wins over an export.
Targets(h, n) ==
    IF h \in Classes /\ FindNative(h, n) # Nobody THEN {FindNative(h, n)} ELSE Exported(n)

\* The host calls JNI_OnLoad or a callback, or the native of a Java method.
HostCalls(f) == CallGuestFunction(f)
HostCallsNative(h, n) == \E f \in Targets(h, n) : CallGuestFunction(f)

\* The call under way comes back with `value` and its caller's registers; its
\* function gave `gave`.
Back(value, gave) ==
    /\ frames' = [i \in DOMAIN Front(frames) |->
                    IF i = Len(frames) - 1 THEN [frames[i] EXCEPT !.inner = gave] ELSE frames[i]]
    /\ regs' = Last(frames).saved
    /\ done' = [got |-> value, gave |-> gave]
    /\ answer' = None
    /\ UNCHANGED <<text, interned, handles, natives, thrown, bound>>

\* try_intercept(HVC_JNI_ONLOAD_RETURN): the sentinel stub reports X0, then
\* leaves the run loop.
GuestReturns(v) ==
    /\ GuestRuns
    /\ retval' = v
    /\ Back(v, v)

\* The run loop ends with the guest still inside the function (exit, fault):
\* the result is whatever the variable holds.
GuestStops ==
    /\ GuestRuns
    /\ UNCHANGED retval
    /\ Back(retval, Last(frames).inner)

Next ==
    \/ \E a \in Buffers, n \in Names : GuestWrites(a, n)
    \/ \E a \in Buffers : FindClass(a) \/ NewStringUTF(a)
    \/ \E kind \in {"method", "field"}, h \in DOMAIN handles, a \in Buffers : GetMemberID(kind, h, a)
    \/ NewBuffer \/ ExceptionOccurred \/ ExceptionClear
    \/ \E h \in DOMAIN handles : CallMethod(h)
    \/ \E h \in DOMAIN handles, a \in Buffers, f \in Functions : RegisterNatives(h, a, f)
    \/ \E f \in Functions : HostCalls(f)
    \/ \E h \in DOMAIN handles, n \in Names : HostCallsNative(h, n)
    \/ \E v \in {1, 2} : GuestReturns(v)
    \/ GuestStops

Spec == Init /\ [][Next]_vars

TypeOK ==
    /\ interned \in [Buffers -> Names \cup {Nobody}]
    /\ Len(natives) = Len(handles)
    /\ \A h \in DOMAIN handles : handles[h].of # 0 => handles[h].of \in Classes
    /\ thrown \in BOOLEAN

\* A handle stands for what the caller's bytes said when it asked, although the
\* table behind it is keyed by address and the guest reuses its buffers, and a
\* class, method or field has one handle only.
HandlesNameWhatWasAsked ==
    answer # None =>
        /\ handles[answer.handle] = Entry(answer.kind, answer.of, answer.name)
        /\ answer.kind \in {"class", "method", "field"} =>
               Cardinality(Known(answer.kind, answer.of, answer.name)) = 1

\* The host calls the function registered last for a method, also after a
\* library loaded later bound it again, and never an export of that name.
NativesAreLatest == \A b \in bound : Targets(b.class, b.name) = {b.fn}

\* A guest call gives its caller the value its own function returned.  When the
\* guest stopped inside the function it gives zero, or what the last call nested
\* inside it gave: never the result of a call that ended before it began.
CallsReturnTheirOwn == done.got = done.gave

\* Handles, registered natives and nested guest calls keep to their own.
ClassesSound == HandlesNameWhatWasAsked /\ NativesAreLatest /\ CallsReturnTheirOwn
=============================================================================
