---------------------------- MODULE GuestLinker ----------------------------
(***************************************************************************)
(* linker64, the dynamic linker that starts an Android executable inside   *)
(* the guest: it loads the libraries depth first, lays out static TLS,     *)
(* relocates the executable and then the libraries in load order, and      *)
(* serves dlopen and dlsym afterwards.  One imported symbol is followed.   *)
(***************************************************************************)
EXTENDS Integers, Sequences, SequencesExt, Functions, FiniteSets, TLC

CONSTANTS Exe,            \* the executable, object 0
          Libraries,      \* sonames
          SystemLibs,     \* subset of Libraries: is_system_lib()
          LinksOf(_),     \* the DT_NEEDED lists an object may have
          TlsSize(_),     \* p_memsz of an object's PT_TLS segment
          TlsStart,       \* the TCB and Bionic's slots come first
          MaxObjects      \* MAX_OBJECTS

VARIABLES links,      \* object -> its DT_NEEDED list
          found,      \* libraries some search directory has
          exports,    \* objects that define the symbol; the others import it
          objs,       \* g_objects: the load order
          stack,      \* load_needed_so() calls under way: <<object, position>>
          stage,      \* "load", "relocate", "main", "dlopen" or "fatal"
          tls,        \* object -> tls_offset
          slots,      \* object -> where its import points after relocation
          linkTurn,   \* the object relocated next
          opening,    \* the name dlopen() was asked for
          handle      \* what the last dlopen() returned

vars == <<links, found, exports, objs, stack, stage, tls, slots, linkTurn, opening, handle>>
files == <<links, found, exports>>

Nothing == "null"
Objects == {Exe} \cup Libraries
Phantom(l) == l # Exe /\ (l \in SystemLibs \/ l \notin found)

Init ==
    /\ links \in {n \in [Objects -> UNION {LinksOf(l) : l \in Objects}] : \A l \in Objects : n[l] \in LinksOf(l)}
    /\ found \in SUBSET Libraries
    /\ exports \in SUBSET Objects
    /\ objs = <<Exe>>
    /\ stack = <<<<Exe, 1>>>>
    /\ stage = "load"
    /\ tls = [l \in {} |-> 0]
    /\ slots = [l \in {} |-> Exe]
    /\ linkTurn = 1
    /\ opening = Nothing
    /\ handle = Nothing

Top == Last(stack)
Wanted == links[Top[1]][Top[2]]
Pending == stage \in {"load", "dlopen"} /\ stack # <<>>
Bump(s) == [s EXCEPT ![Len(s)] = <<@[1], @[2] + 1>>]

\* load_needed_so(): known by its soname already.
Known == Pending /\ Top[2] <= Len(links[Top[1]]) /\ Wanted \in Range(objs)
SkipKnown ==
    /\ Known
    /\ stack' = Bump(stack)
    /\ UNCHANGED <<files, objs, stage, tls, slots, linkTurn, opening, handle>>

\* A system library, or one no directory has, is registered without segments;
\* any other is mapped, registered, and its own list comes before the rest of
\* this one.
LoadNeeded ==
    /\ Pending /\ Top[2] <= Len(links[Top[1]]) /\ ~Known
    /\ Len(objs) < MaxObjects
    /\ objs' = Append(objs, Wanted)
    /\ stack' = IF Phantom(Wanted) THEN Bump(stack) ELSE Append(Bump(stack), <<Wanted, 1>>)
    /\ UNCHANGED <<files, stage, tls, slots, linkTurn, opening, handle>>
TooManyObjects ==
    /\ Pending /\ Top[2] <= Len(links[Top[1]]) /\ ~Known
    /\ Len(objs) >= MaxObjects
    /\ stage' = "fatal"
    /\ UNCHANGED <<files, objs, stack, tls, slots, linkTurn, opening, handle>>

ListDone ==
    /\ Pending /\ Top[2] > Len(links[Top[1]])
    /\ stack' = Front(stack)
    /\ UNCHANGED <<files, objs, stage, tls, slots, linkTurn, opening, handle>>

Even(n) == IF n % 2 = 0 THEN n ELSE n + 1
HasTls(l) == ~Phantom(l) /\ TlsSize(l) > 0

\* The running end of the TLS block before each object, in load order.
TlsEnd[i \in 0 .. MaxObjects] ==
    IF i = 0 THEN TlsStart
    ELSE IF i > Len(objs) THEN TlsEnd[i - 1]
    ELSE IF HasTls(objs[i]) THEN Even(TlsEnd[i - 1]) + TlsSize(objs[i]) ELSE TlsEnd[i - 1]

\* linker_main(), after the load: offsets for the objects present then.
LayOutTls ==
    /\ stage = "load" /\ stack = <<>>
    /\ tls' = [l \in {l \in Range(objs) : HasTls(l)} |->
                  Even(TlsEnd[(CHOOSE i \in DOMAIN objs : objs[i] = l) - 1])]
    /\ stage' = "relocate"
    /\ UNCHANGED <<files, objs, stack, slots, linkTurn, opening, handle>>

\* Mutant: the object loaded last that defines the symbol is taken.
LookupSymbolNewest ==
    LET hits == {i \in DOMAIN objs : objs[i] \in exports /\ ~Phantom(objs[i])}
    IN  IF hits = {} THEN Nothing ELSE objs[CHOOSE i \in hits : \A j \in hits : j <= i]

\* lookup_symbol(): the first object in load order; phantoms have no symbols.
LookupSymbol ==
    LET hits == {i \in DOMAIN objs : objs[i] \in exports /\ ~Phantom(objs[i])}
    IN  IF hits = {} THEN Nothing ELSE objs[CHOOSE i \in hits : \A j \in hits : i <= j]

\* relocate_object(), apply_rela(): an undefined import nobody has stays zero.
RelocateNext ==
    /\ stage \in {"relocate", "dlopen"} /\ stack = <<>>
    /\ linkTurn <= Len(objs)
    /\ LET l == objs[linkTurn] IN
       slots' = IF Phantom(l) THEN slots
                ELSE slots @@ (l :> IF l \in exports THEN l ELSE LookupSymbol)
    /\ linkTurn' = linkTurn + 1
    /\ UNCHANGED <<files, objs, stack, stage, tls, opening, handle>>

StartMain ==
    /\ stage = "relocate" /\ linkTurn > Len(objs)
    /\ stage' = "main"
    /\ UNCHANGED <<files, objs, stack, tls, slots, linkTurn, opening, handle>>

\* lnk_dlopen(): an object known by that name is returned, a phantom as well.
DlopenKnown(l) ==
    /\ stage = "main"
    /\ l \in Range(objs)
    /\ handle' = l
    /\ UNCHANGED <<files, objs, stack, stage, tls, slots, linkTurn, opening>>
DlopenNew(l) ==
    /\ stage = "main"
    /\ l \notin Range(objs)
    /\ IF Len(objs) >= MaxObjects THEN stage' = "fatal" /\ UNCHANGED <<objs, stack, opening>>
       ELSE /\ stage' = "dlopen"
            /\ objs' = Append(objs, l)
            /\ stack' = IF Phantom(l) THEN <<>> ELSE <<<<l, 1>>>>
            /\ opening' = l
    /\ UNCHANGED <<files, tls, slots, linkTurn, handle>>
DlopenReturns ==
    /\ stage = "dlopen" /\ stack = <<>> /\ linkTurn > Len(objs)
    /\ stage' = "main"
    /\ handle' = opening
    /\ opening' = Nothing
    /\ UNCHANGED <<files, objs, stack, tls, slots, linkTurn>>

\* lnk_dlsym(): the handle's own definition, else the global lookup.
Dlsym(h) == IF h # Nothing /\ h \in exports /\ ~Phantom(h) THEN h ELSE LookupSymbol

Next == \/ SkipKnown \/ LoadNeeded \/ TooManyObjects \/ ListDone \/ LayOutTls
        \/ RelocateNext \/ StartMain \/ DlopenReturns
        \/ \E l \in Libraries : DlopenKnown(l) \/ DlopenNew(l)

Spec == Init /\ [][Next]_vars

TypeOK ==
    /\ Range(objs) \subseteq Objects /\ Len(objs) <= MaxObjects
    /\ stage \in {"load", "relocate", "main", "dlopen", "fatal"}
    /\ handle \in Libraries \cup {Nothing}

\* Every importer that found a definition found the same one, those opened
\* later included, and a library is in the table once however many need it.
ImportersAgree ==
    /\ IsInjective(objs)
    /\ \A l, m \in DOMAIN slots \ exports :
           slots[l] # Nothing /\ slots[m] # Nothing => slots[l] = slots[m]

\* What dlopen hands out, what dlsym finds and what main starts with is
\* relocated, with everything it needs, directly or not.
HandlesRelocated ==
    stage = "main" =>
        /\ Dlsym(handle) # Nothing => Dlsym(handle) \in DOMAIN slots
        /\ \A i \in DOMAIN objs : ~Phantom(objs[i]) =>
              /\ objs[i] \in DOMAIN slots
              /\ Range(links[objs[i]]) \subseteq Range(objs)

\* The static TLS blocks laid out at start neither overlap nor reach the TCB.
TlsDisjoint ==
    /\ \A l \in DOMAIN tls : tls[l] >= TlsStart
    /\ \A l, m \in DOMAIN tls : l # m =>
           tls[l] + TlsSize(l) <= tls[m] \/ tls[m] + TlsSize(m) <= tls[l]

LinkerSound == ImportersAgree /\ HandlesRelocated /\ TlsDisjoint
=============================================================================
