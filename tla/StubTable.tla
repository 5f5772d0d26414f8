----------------------------- MODULE StubTable -----------------------------
(***************************************************************************)
(* The stubs GpuBridge and AndroidRuntime hand out by name while the guest *)
(* runs: eglGetProcAddress, dlopen, dlsym and dlclose, and the stubs that  *)
(* imports nobody provides are bound to.  A stub is a few instructions of  *)
(* guest memory with an HVC number; a call of it runs the handler that the *)
(* number has at that time.  The stubs that install() registered have      *)
(* numbers of their own; the others get theirs from two counters, and the  *)
(* two ranges lie next to each other.                                      *)
(***************************************************************************)
EXTENDS Integers, Sequences, FiniteSets

CONSTANTS Libraries,    \* what the guest opens
          Names,        \* functions it asks for
          Exports,      \* <<library, name>> of the registered stubs
          HostProcs,    \* names ANGLE knows
          Imports,      \* imports nobody provides
          ProcBase,     \* HVC_GL_PROC_BASE
          ProcLimit,    \* HVC_GL_PROC_LIMIT = HVC_UNSUPPORTED_IMPORT_BASE
          ImportLimit,  \* HVC_UNSUPPORTED_IMPORT_LIMIT
          MaxStubs,     \* bound: stubs written
          MaxHandles    \* bound: libraries opened

VARIABLES procs,       \* sym_tables_["__procaddr__"]
          imported,    \* unsupported_import_stubs_
          arena,       \* the stubs written: place -> HVC number
          handlers,    \* handlers_ of the numbers from ProcBase on
          nextProc,    \* next_proc_hvc_
          nextImport,  \* next_unsupported_import_hvc_
          opened,      \* dl_handles_
          nextHandle,  \* next_dl_handle_
          mine,        \* the guest: the handles it has open, and for what
          held         \* the guest: the function pointers it was given

calls == <<opened, nextHandle, mine>>
vars == <<procs, imported, arena, handlers, nextProc, nextImport, opened, nextHandle, mine, held>>

Init ==
    /\ procs = <<>> /\ imported = <<>> /\ arena = <<>> /\ handlers = <<>>
    /\ nextProc = ProcBase /\ nextImport = ProcLimit
    /\ opened = <<>> /\ nextHandle = 1
    /\ mine = {} /\ held = {}

\* A pointer: a registered stub, or the place of one that was written since.
Registered(lib, name) == [table |-> lib, entry |-> name, at |-> 0]
Written(i) == [table |-> "none", entry |-> "none", at |-> i]
Proc(name) == [kind |-> "proc", name |-> name]
Import(name) == [kind |-> "import", name |-> name]

\* The guest asked lib (or every library) for name and got place.
Holds(lib, name, place) == held' = held \cup {[lib |-> lib, name |-> name, place |-> place]}
Anywhere == "any"

\* f with f[x] = y.
Stored(f, x, y) == [z \in DOMAIN f \cup {x} |-> IF z = x THEN y ELSE f[z]]

\* write_stub() of a number with its handler, at place Len(arena) + 1.
WriteStub(nr, meaning) ==
    /\ Len(arena) < MaxStubs
    /\ arena' = Append(arena, nr)
    /\ handlers' = Stored(handlers, nr, meaning)

----
\* eglGetProcAddress of a name that has its stub already.
EglGetProcAddressAgain(name) ==
    /\ name \in DOMAIN procs
    /\ Holds(Anywhere, name, Written(procs[name]))
    /\ UNCHANGED <<procs, imported, arena, handlers, nextProc, nextImport, calls>>

\* eglGetProcAddress of a function the host has, while a number is free.
\* Mutant: the counter is not advanced.
EglGetProcAddressSameNumber(name) ==
    /\ name \notin DOMAIN procs /\ name \in HostProcs /\ nextProc < ProcLimit
    /\ WriteStub(nextProc, Proc(name))
    /\ procs' = Stored(procs, name, Len(arena) + 1)
    /\ Holds(Anywhere, name, Written(Len(arena) + 1))
    /\ UNCHANGED <<imported, nextProc, nextImport, calls>>
EglGetProcAddress(name) ==
    /\ name \notin DOMAIN procs /\ name \in HostProcs /\ nextProc < ProcLimit
    /\ WriteStub(nextProc, Proc(name))
    /\ nextProc' = nextProc + 1
    /\ procs' = Stored(procs, name, Len(arena) + 1)
    /\ Holds(Anywhere, name, Written(Len(arena) + 1))
    /\ UNCHANGED <<imported, nextImport, calls>>

\* unsupported_import_stub(), which GuestRunner binds an import to.
UnsupportedImportStub(name) ==
    /\ name \notin DOMAIN imported /\ nextImport < ImportLimit
    /\ WriteStub(nextImport, Import(name))
    /\ nextImport' = nextImport + 1
    /\ imported' = Stored(imported, name, Len(arena) + 1)
    /\ UNCHANGED <<procs, nextProc, calls, held>>

----
\* dlopen and NativeBridgeLoadLibraryExt: any path gets a handle.
Dlopen(lib) ==
    /\ nextHandle <= MaxHandles
    /\ opened' = Stored(opened, nextHandle, lib)
    /\ mine' = mine \cup {<<nextHandle, lib>>}
    /\ nextHandle' = nextHandle + 1
    /\ UNCHANGED <<procs, imported, arena, handlers, nextProc, nextImport, held>>

Dlclose(h) ==
    /\ h \in DOMAIN opened
    /\ opened' = [i \in DOMAIN opened \ {h} |-> opened[i]]
    /\ mine' = {m \in mine : m[1] # h}
    /\ UNCHANGED <<procs, imported, arena, handlers, nextProc, nextImport, nextHandle, held>>

\* The stubs a search of all tables may meet first; theirs is a hash order.
Tables(name) ==
    {Registered(e[1], name) : e \in {e \in Exports : e[2] = name}}
        \cup {Written(procs[n]) : n \in {n \in DOMAIN procs : n = name}}

\* dlsym of a handle the guest has open for lib, or of RTLD_DEFAULT: the
\* table of the handle's library, then every table.
\* Mutant: every table at once.
DlsymUnscoped(lib, from, name) ==
    /\ \E place \in Tables(name) : Holds(lib, name, place)
    /\ UNCHANGED <<procs, imported, arena, handlers, nextProc, nextImport, calls>>
DlsymFinds(lib, from, name) ==
    /\ \E place \in IF <<from, name>> \in Exports THEN {Registered(from, name)} ELSE Tables(name) :
          Holds(lib, name, place)
    /\ UNCHANGED <<procs, imported, arena, handlers, nextProc, nextImport, calls>>

\* No table has it and ANGLE does: a new stub on every call, whether a number
\* of the range is left or not.
DlsymAngle(lib, name) ==
    /\ Tables(name) = {} /\ name \in HostProcs
    /\ WriteStub(nextProc, Proc(name))
    /\ nextProc' = nextProc + 1
    /\ Holds(lib, name, Written(Len(arena) + 1))
    /\ UNCHANGED <<procs, imported, nextImport, calls>>

Dlsym(name) ==
    \/ DlsymFinds(Anywhere, Anywhere, name)
    \/ DlsymAngle(Anywhere, name)
    \/ \E m \in mine : DlsymFinds(m[2], opened[m[1]], name) \/ DlsymAngle(m[2], name)

Next ==
    \/ \E name \in Names :
          EglGetProcAddressAgain(name) \/ EglGetProcAddress(name) \/ Dlsym(name)
    \/ \E name \in Imports : UnsupportedImportStub(name)
    \/ \E lib \in Libraries : Dlopen(lib)
    \/ \E h \in DOMAIN opened : Dlclose(h)

Spec == Init /\ [][Next]_vars

----
(* Properties. *)

TypeOK ==
    /\ DOMAIN procs \subseteq Names /\ DOMAIN imported \subseteq Imports
    /\ arena \in Seq(Nat)
    /\ \A n \in DOMAIN procs : procs[n] \in DOMAIN arena
    /\ \A n \in DOMAIN imported : imported[n] \in DOMAIN arena
    /\ \A i \in DOMAIN arena : arena[i] \in DOMAIN handlers
    /\ nextProc \in Nat /\ nextImport \in ProcLimit .. ImportLimit
    /\ nextHandle \in Nat \ {0}
    /\ DOMAIN opened \subseteq 1 .. nextHandle - 1

\* A function pointer the guest was given stays the function it asked for,
\* whatever is allocated afterwards: a registered stub is the one of the
\* library that was asked, if that library has the name, and the number of a
\* stub of eglGetProcAddress or dlsym never gets another handler as long as it
\* was taken from its range (dlsym goes on past ProcLimit).
PointersKeepTheirMeaning ==
    \A p \in held :
        /\ <<p.lib, p.name>> \in Exports => p.place = Registered(p.lib, p.name)
        /\ p.place.at = 0 => p.place.entry = p.name
        /\ p.place.at > 0 /\ arena[p.place.at] < ProcLimit
             => handlers[arena[p.place.at]] = Proc(p.name)

\* The stub of an import nobody provides ends the guest with the name of that
\* import, for as long as dlsym has not run past the end of its range.
ImportsAbort ==
    nextProc <= ProcLimit =>
        \A n \in DOMAIN imported : handlers[arena[imported[n]]] = Import(n)

\* A handle is the library it was opened for: dlclose and later dlopens do
\* not change what another handle stands for.
HandlesKeepTheirLibrary ==
    \A m \in mine : m[1] \in DOMAIN opened /\ opened[m[1]] = m[2]

StubsSound == PointersKeepTheirMeaning /\ ImportsAbort /\ HandlesKeepTheirLibrary
=============================================================================
