------------------------------ MODULE GuestCxx ------------------------------
(***************************************************************************)
(* The C++ runtime that AndroidRuntime implements for the guest            *)
(* (register_libcxx_stubs): the guards of function-local statics, the      *)
(* counts behind shared_ptr and weak_ptr, and the entry points that end    *)
(* the process because there is no unwinder.  Every entry point is one     *)
(* call into the host, so it is one step; guest threads are switched       *)
(* between calls.  Guards and control blocks are words of guest memory     *)
(* that the guest's own code sets to zero before it uses them.             *)
(*                                                                         *)
(* A control block counts from zero: owners is the shared_ptrs less one,   *)
(* weakOwners the weak_ptrs less one, with one more as long as there is a  *)
(* shared_ptr.  strong and weak are what the guest really holds.           *)
(***************************************************************************)
EXTENDS Integers, FiniteSets

CONSTANTS Threads,    \* guest threads
          Guards,     \* guarded statics
          Blocks,     \* control blocks
          MaxRefs     \* bound: pointers of a kind to one block

VARIABLES flag,        \* Guards -> byte 0 of the guard
          within,      \* Guards -> the threads inside its initializer
          completed,   \* Guards -> initializers that ran to their end
          made,        \* blocks the guest has made
          owners,      \* Blocks -> the word at kSharedOwnersOffset
          weakOwners,  \* Blocks -> the word at kWeakOwnersOffset
          strong,      \* Blocks -> shared_ptrs the guest holds
          weak,        \* Blocks -> weak_ptrs the guest holds
          dead,        \* blocks whose last shared_ptr is gone
          aborted      \* the host process has called abort()

guards == <<flag, within, completed>>
counts == <<made, owners, weakOwners, strong, weak, dead>>
vars == <<flag, within, completed, made, owners, weakOwners, strong, weak, dead, aborted>>

Init ==
    /\ flag = [g \in Guards |-> 0]
    /\ within = [g \in Guards |-> {}]
    /\ completed = [g \in Guards |-> 0]
    /\ made = {} /\ dead = {}
    /\ owners = [b \in Blocks |-> 0] /\ weakOwners = [b \in Blocks |-> 0]
    /\ strong = [b \in Blocks |-> 0] /\ weak = [b \in Blocks |-> 0]
    /\ aborted = FALSE

----
(* Guards. *)

\* Mutant: the mark that the initializer is running is not stored.
GuardAcquireUnmarked(t, g) ==
    /\ ~aborted /\ flag[g] = 0
    /\ within' = [within EXCEPT ![g] = @ \cup {t}]
    /\ UNCHANGED <<flag, completed, counts, aborted>>

\* __cxa_guard_acquire() returns 1: the caller runs the initializer.  With the
\* byte set it returns 0 and changes nothing, also while the initializer is
\* still running.
GuardAcquire(t, g) ==
    /\ ~aborted /\ flag[g] = 0
    /\ flag' = [flag EXCEPT ![g] = 1]
    /\ within' = [within EXCEPT ![g] = @ \cup {t}]
    /\ UNCHANGED <<completed, counts, aborted>>

GuardRelease(t, g) ==
    /\ ~aborted /\ t \in within[g]
    /\ flag' = [flag EXCEPT ![g] = 1]
    /\ within' = [within EXCEPT ![g] = @ \ {t}]
    /\ completed' = [completed EXCEPT ![g] = @ + 1]
    /\ UNCHANGED <<counts, aborted>>

GuardAbort(t, g) ==
    /\ ~aborted /\ t \in within[g]
    /\ flag' = [flag EXCEPT ![g] = 0]
    /\ within' = [within EXCEPT ![g] = @ \ {t}]
    /\ UNCHANGED <<completed, counts, aborted>>

----
(* Counts. *)

\* refcount_add() and refcount_release() of block b's word.
RefcountAdd(words, b) == [words EXCEPT ![b] = @ + 1]
RefcountRelease(words, b) == [words EXCEPT ![b] = @ - 1]

\* The guest makes the block together with its first shared_ptr.
MakeBlock(b) ==
    /\ ~aborted /\ b \notin made
    /\ made' = made \cup {b}
    /\ strong' = [strong EXCEPT ![b] = 1]
    /\ UNCHANGED <<guards, owners, weakOwners, weak, dead, aborted>>

\* __shared_count::__add_shared() and __shared_weak_count::__add_shared(): a
\* shared_ptr is copied.
AddShared(b) ==
    /\ ~aborted /\ strong[b] \in 1 .. MaxRefs - 1
    /\ owners' = RefcountAdd(owners, b)
    /\ strong' = [strong EXCEPT ![b] = @ + 1]
    /\ UNCHANGED <<guards, made, weakOwners, weak, dead, aborted>>

\* refcount_release() of the shared owners.  The last one gives up the weak
\* owner that stood for all of them; nobody destroys the object.
\* __shared_count::__release_shared() does the first half, and tells.
\* Mutant: the weak owner is kept.
ReleaseSharedKeepingWeak(b) ==
    /\ ~aborted /\ strong[b] > 0
    /\ owners' = RefcountRelease(owners, b)
    /\ strong' = [strong EXCEPT ![b] = @ - 1]
    /\ dead' = IF strong[b] = 1 THEN dead \cup {b} ELSE dead
    /\ UNCHANGED <<guards, made, weakOwners, weak, aborted>>
ReleaseShared(b) ==
    /\ ~aborted /\ strong[b] > 0
    /\ owners' = RefcountRelease(owners, b)
    /\ weakOwners' = IF owners[b] - 1 = -1 THEN RefcountRelease(weakOwners, b) ELSE weakOwners
    /\ strong' = [strong EXCEPT ![b] = @ - 1]
    /\ dead' = IF strong[b] = 1 THEN dead \cup {b} ELSE dead
    /\ UNCHANGED <<guards, made, weak, aborted>>

\* __add_weak(): a weak_ptr is made from a pointer of either kind.
AddWeak(b) ==
    /\ ~aborted /\ strong[b] + weak[b] > 0 /\ weak[b] < MaxRefs
    /\ weakOwners' = RefcountAdd(weakOwners, b)
    /\ weak' = [weak EXCEPT ![b] = @ + 1]
    /\ UNCHANGED <<guards, made, owners, strong, dead, aborted>>

ReleaseWeak(b) ==
    /\ ~aborted /\ weak[b] > 0
    /\ weakOwners' = RefcountRelease(weakOwners, b)
    /\ weak' = [weak EXCEPT ![b] = @ - 1]
    /\ UNCHANGED <<guards, made, owners, strong, dead, aborted>>

\* Whether lock() finds an owner.  Mutant: a count of -1 passes.
HasOwnerAlways(b) == owners[b] >= -1
HasOwner(b) == owners[b] >= 0

\* __shared_weak_count::lock() of a weak_ptr; without an owner it returns null.
Lock(b) ==
    /\ ~aborted /\ weak[b] > 0 /\ strong[b] < MaxRefs
    /\ HasOwner(b)
    /\ owners' = RefcountAdd(owners, b)
    /\ strong' = [strong EXCEPT ![b] = @ + 1]
    /\ UNCHANGED <<guards, made, weakOwners, weak, dead, aborted>>

----
(* Ends of the process. *)

Abort ==
    /\ ~aborted /\ aborted' = TRUE
    /\ UNCHANGED <<guards, counts>>

\* __cxa_throw, __cxa_rethrow, __gxx_personality_v0, _Unwind_Resume.
Throw == Abort

\* __cxa_pure_virtual, __cxa_deleted_virtual.
PureVirtual == Abort

\* std::terminate; a failed __dynamic_cast is null, and __cxa_bad_cast ends.
Terminate == Abort

Next ==
    \/ \E t \in Threads, g \in Guards :
          GuardAcquire(t, g) \/ GuardRelease(t, g) \/ GuardAbort(t, g)
    \/ \E b \in Blocks :
          \/ MakeBlock(b) \/ AddShared(b) \/ ReleaseShared(b)
          \/ AddWeak(b) \/ ReleaseWeak(b) \/ Lock(b)
    \/ Throw \/ PureVirtual \/ Terminate

Spec == Init /\ [][Next]_vars

----
(* Properties. *)

TypeOK ==
    /\ flag \in [Guards -> 0 .. 1]
    /\ within \in [Guards -> SUBSET Threads]
    /\ completed \in [Guards -> Nat]
    /\ made \subseteq Blocks /\ dead \subseteq made
    /\ owners \in [Blocks -> Int] /\ weakOwners \in [Blocks -> Int]
    /\ strong \in [Blocks -> Nat] /\ weak \in [Blocks -> Nat]
    /\ aborted \in BOOLEAN

\* A static's initializer runs in one thread at a time and to its end at most
\* once, however many threads meet in __cxa_guard_acquire and however often
\* the initializer was given up before.
InitializedOnce ==
    \A g \in Guards :
        /\ \A t, u \in within[g] : t = u
        /\ completed[g] <= 1
        /\ completed[g] = 1 => within[g] = {}

\* The words in guest memory agree with the pointers the guest holds, across
\* the hand-over of the last shared_ptr's weak owner.
CountsMatch ==
    \A b \in made :
        /\ owners[b] = strong[b] - 1
        /\ weakOwners[b] = weak[b] + (IF strong[b] > 0 THEN 1 ELSE 0) - 1

\* lock() never brings an object back whose last shared_ptr is gone.
NoResurrection == \A b \in dead : strong[b] = 0

CxxSound == InitializedOnce /\ CountsMatch /\ NoResurrection
=============================================================================
