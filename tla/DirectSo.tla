------------------------------ MODULE DirectSo ------------------------------
(***************************************************************************)
(* How the guest runner starts a shared library of an APK: it maps the     *)
(* library's dependencies, relocates every object, and calls their         *)
(* initializers on the vCPU.  Libraries are named; their contents are the  *)
(* libraries they need, in order, and whether they define or import the    *)
(* one symbol followed here.  Addresses count 2 MiB blocks.                *)
(***************************************************************************)
EXTENDS Integers, Sequences, SequencesExt, Functions, FiniteSets, TLC

CONSTANTS Main,       \* the APK's library, mapped when the guest was made
          Deps,       \* other libraries
          Builtin,    \* subset of Deps: names the runtime implements itself
          NeedsOf(_), \* the DT_NEEDED lists a library may have
          Size(_),    \* blocks a library takes
          MemoryEnd   \* guest_size in blocks

Libs == {Main} \cup Deps

VARIABLES needs,     \* Libs -> the library's DT_NEEDED list
          onDisk,    \* dependencies found in the search directories
          defines,   \* libraries that define the symbol; the others import it
          symbol,    \* [builtin, weak, strict]
          objects,   \* direct_objects: the load order
          at,        \* object -> first block
          nextBase,  \* next_base
          cursor,    \* the object, and the position in its list, looked at next
          phase,     \* "load", "relocate", "init", "run" or "failed"
          turn,      \* the object relocated or initialized next
          bound,     \* object -> where its import points
          ready,     \* direct_so_ready
          inited     \* initializers called, in order

vars == <<needs, onDisk, defines, symbol, objects, at, nextBase, cursor, phase, turn,
          bound, ready, inited>>
image == <<needs, onDisk, defines, symbol>>

Init ==
    /\ needs \in {n \in [Libs -> UNION {NeedsOf(l) : l \in Libs}] : \A l \in Libs : n[l] \in NeedsOf(l)}
    /\ onDisk \in SUBSET Deps
    /\ defines \in SUBSET Libs
    /\ symbol \in [builtin : BOOLEAN, weak : BOOLEAN, strict : BOOLEAN]
    /\ objects = <<Main>>
    /\ at = (Main :> 0)
    /\ nextBase = Size(Main)
    /\ cursor = <<1, 1>>
    /\ phase = "load"
    /\ turn = 0
    /\ bound = [l \in {} |-> Main]
    /\ ready = TRUE
    /\ inited = <<>>

Looking == objects[cursor[1]]
Needed == needs[Looking][cursor[2]]
More == cursor[1] <= Len(objects)
InList == cursor[2] <= Len(needs[Looking])

Fail ==
    /\ phase' = "failed"
    /\ ready' = FALSE
    /\ UNCHANGED <<objects, at, nextBase, cursor, turn, bound, inited>>

\* direct_so_already_loaded(): by soname or file name.
AlreadyLoaded(l) == l \in Range(objects)

\* The dependency is loaded, or only the runtime has it: go on.
SkipNeeded ==
    /\ phase = "load" /\ More /\ InList
    /\ \/ AlreadyLoaded(Needed)
       \/ Needed \notin onDisk /\ Needed \in Builtin
    /\ cursor' = <<cursor[1], cursor[2] + 1>>
    /\ UNCHANGED <<image, objects, at, nextBase, phase, turn, bound, ready, inited>>

\* Mutant: the next image starts where this one did.
MapDependencyInPlace ==
    /\ phase = "load" /\ More /\ InList
    /\ ~AlreadyLoaded(Needed)
    /\ Needed \in onDisk
    /\ nextBase + Size(Needed) <= MemoryEnd
    /\ objects' = Append(objects, Needed)
    /\ at' = at @@ (Needed :> nextBase)
    /\ nextBase' = nextBase
    /\ cursor' = <<cursor[1], cursor[2] + 1>>
    /\ UNCHANGED <<image, phase, turn, bound, ready, inited>>

\* parse_direct_so_metadata(), map_direct_so_object(): a library found on disk
\* is mapped even when the runtime implements that name.
MapDependency ==
    /\ phase = "load" /\ More /\ InList
    /\ ~AlreadyLoaded(Needed)
    /\ Needed \in onDisk
    /\ nextBase + Size(Needed) <= MemoryEnd
    /\ objects' = Append(objects, Needed)
    /\ at' = at @@ (Needed :> nextBase)
    /\ nextBase' = nextBase + Size(Needed)
    /\ cursor' = <<cursor[1], cursor[2] + 1>>
    /\ UNCHANGED <<image, phase, turn, bound, ready, inited>>

\* Not found, not readable, or no room left in guest memory.
DependencyFails ==
    /\ phase = "load" /\ More /\ InList
    /\ ~AlreadyLoaded(Needed)
    /\ \/ Needed \notin onDisk /\ Needed \notin Builtin
       \/ Needed \in onDisk /\ nextBase + Size(Needed) > MemoryEnd
    /\ Fail
    /\ UNCHANGED image

NextObject ==
    /\ phase = "load" /\ More /\ ~InList
    /\ cursor' = <<cursor[1] + 1, 1>>
    /\ UNCHANGED <<image, objects, at, nextBase, phase, turn, bound, ready, inited>>

AllLoaded ==
    /\ phase = "load" /\ ~More
    /\ phase' = "relocate"
    /\ turn' = Len(objects)
    /\ UNCHANGED <<image, objects, at, nextBase, cursor, bound, ready, inited>>

\* lookup_direct_symbol(): the first object, in load order, that defines it.
LookupDirectSymbol(l) ==
    LET found == {j \in DOMAIN objects : objects[j] \in defines}
    IN  IF found = {} THEN "zero" ELSE objects[CHOOSE j \in found : \A k \in found : j <= k]

\* apply_direct_so_rela(): an object's own definition, then the runtime's
\* symbols, then the loaded objects, then zero or a trap stub.
Resolved(l) ==
    IF l \in defines THEN l
    ELSE IF symbol.builtin THEN "builtin"
    ELSE IF LookupDirectSymbol(l) # "zero" THEN LookupDirectSymbol(l)
    ELSE IF symbol.weak THEN "zero" ELSE "trap"

\* apply_direct_so_relocations(), last object first.  In strict mode a trap
\* fails the start, but the other objects are still relocated.
Relocate ==
    /\ phase = "relocate" /\ turn > 0
    /\ bound' = bound @@ (objects[turn] :> Resolved(objects[turn]))
    /\ ready' = (ready /\ ~(symbol.strict /\ Resolved(objects[turn]) = "trap"))
    /\ turn' = turn - 1
    /\ UNCHANGED <<image, objects, at, nextBase, cursor, phase, inited>>

AllRelocated ==
    /\ phase = "relocate" /\ turn = 0
    /\ phase' = IF ready THEN "init" ELSE "failed"
    /\ turn' = IF ready THEN Len(objects) ELSE 0
    /\ UNCHANGED <<image, objects, at, nextBase, cursor, bound, ready, inited>>

\* run_direct_so_initializers(): same order; a name the runtime implements is
\* skipped unless it is the APK's library itself.
Initialize ==
    /\ phase = "init" /\ turn > 0
    /\ inited' = IF turn > 1 /\ objects[turn] \in Builtin THEN inited
                 ELSE Append(inited, objects[turn])
    /\ turn' = turn - 1
    /\ UNCHANGED <<image, objects, at, nextBase, cursor, phase, bound, ready>>
AllInitialized ==
    /\ phase = "init" /\ turn = 0
    /\ phase' = "run"
    /\ UNCHANGED <<image, objects, at, nextBase, cursor, turn, bound, ready, inited>>

Next == \/ SkipNeeded \/ MapDependency \/ DependencyFails \/ NextObject \/ AllLoaded
        \/ Relocate \/ AllRelocated \/ Initialize \/ AllInitialized

Spec == Init /\ [][Next]_vars

TypeOK ==
    /\ Range(objects) \subseteq Libs
    /\ DOMAIN at = Range(objects)
    /\ phase \in {"load", "relocate", "init", "run", "failed"}
    /\ turn \in 0 .. Len(objects)
    /\ ready \in BOOLEAN

\* No two images overlap and none leaves guest memory, whatever the graph of
\* dependencies, cycles included (each library is mapped once).
ImagesDisjoint ==
    /\ IsInjective(objects)
    /\ \A l \in DOMAIN at : at[l] + Size(l) <= MemoryEnd
    /\ \A l, m \in DOMAIN at : l # m => at[l] + Size(l) <= at[m] \/ at[m] + Size(m) <= at[l]

\* Objects that import the symbol agree on whose definition they call, so that
\* they share its state; relocations are applied one object at a time.
ImportsAgree == \A l, m \in DOMAIN bound \ defines : bound[l] = bound[m]

\* No initializer runs before every object is relocated, and once the app runs
\* everything it needs is mapped or implemented by the runtime and, unless the
\* runtime has it, initialized exactly once.
StartedWhole ==
    /\ inited # <<>> => DOMAIN bound = Range(objects)
    /\ phase = "run" =>
         /\ \A l \in Range(objects), i \in 1 .. 2 :
                i \in DOMAIN needs[l] => needs[l][i] \in Range(objects) \cup Builtin
         /\ IsInjective(inited)
         /\ Range(objects) \ Builtin \subseteq Range(inited)

\* "reverse dependency order: deps first, then dependents"
\* (guest_runner.cpp:1710-1711): when a library is relocated, the libraries it
\* needs have been relocated already, cyclic dependencies aside.
Reaches(l, m) == \/ m \in Range(needs[l])
                 \/ \E k \in Range(needs[l]) : m \in Range(needs[k])
DepsFirst ==
    \A l \in DOMAIN bound : \A m \in Range(needs[l]) :
        (m \in Range(objects) /\ m # l /\ ~Reaches(m, l)) => m \in DOMAIN bound

DirectSoSound == ImagesDisjoint /\ ImportsAgree /\ StartedWhole
=============================================================================
