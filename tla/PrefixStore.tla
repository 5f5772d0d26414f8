---------------------------- MODULE PrefixStore ----------------------------
(***************************************************************************)
(* The prefixes of a user and the instance registry (prefix.cpp), used by  *)
(* several `mup` processes and the instance manager at once without a      *)
(* lock.  A prefix is a directory with a prefix.toml; the registry file    *)
(* maps names to roots and is rewritten as a whole: read, truncated,       *)
(* written.  One operation of a process is a sequence of the file system   *)
(* steps it makes; a process may die between any two.                      *)
(*                                                                         *)
(* A root is an absolute path as it is written; a component of it may be a *)
(* symbolic link, and Real[r] is then the path of the directory it leads   *)
(* to.  The registry compares what is written, the file system knows the   *)
(* directories.                                                            *)
(***************************************************************************)
EXTENDS Naturals, Sequences, FiniteSets, SequencesExt

CONSTANTS Procs,      \* processes using the store
          Roots,      \* paths, of directories and through links
          Real,       \* Real[r]: the directory r leads to, r where no link is in it
          StoreNames, \* instance names
          DefaultRoot,\* DefaultRoot[n]: prefixes/<n>
          Within,     \* pairs <<r, s>>: r lies inside s
          MaxOps      \* bound: operations begun

NoRoot == "no root"
NoName == "no name"
Idle == [kind |-> "idle", at |-> "", next |-> "", root |-> NoRoot, name |-> NoName, src |-> NoRoot,
         replace |-> FALSE, read |-> <<>>, alone |-> TRUE]

VARIABLES dir,     \* dir[r] of a directory: "none", "dir" (no prefix.toml), "prefix"
          named,   \* named[r]: the name in its prefix.toml
          data,    \* data[r]: the root whose contents it holds
          registry,\* "absent", "torn" (truncated, being written) or the entries
          entries,
          legacy,  \* the registry was made by migration, not by registering
          op,      \* op[p]: the operation process p is in
          ops,     \* operations begun
          last     \* the operation that just succeeded undisturbed

vars == <<dir, named, data, registry, entries, legacy, op, ops, last>>

Entry == [name : StoreNames, root : Roots]

TypeOK == /\ dir \in [Roots -> {"none", "dir", "prefix"}]
          /\ named \in [Roots -> StoreNames \cup {NoName}]
          /\ data \in [Roots -> Roots \cup {NoRoot}]
          /\ registry \in {"absent", "torn", "whole"} /\ entries \in Seq(Entry)
          /\ legacy \in BOOLEAN /\ ops \in 0..MaxOps
          /\ \A p \in Procs : op[p].kind \in {"idle", "open", "clone", "delete"}

\* One prefix: registered, wherever it lies, or of a version that had no
\* registry and kept its prefixes in prefixes/.
Legacy == CHOOSE n \in StoreNames : TRUE
Init == /\ legacy \in BOOLEAN
        /\ \E home \in IF legacy THEN {DefaultRoot[Legacy]} ELSE Roots :
              /\ dir = [r \in Roots |-> IF r = Real[home] THEN "prefix"
                                     ELSE IF <<Real[home], r>> \in Within THEN "dir" ELSE "none"]
              /\ named = [r \in Roots |-> IF r = Real[home] THEN Legacy ELSE NoName]
              /\ data = [r \in Roots |-> IF r = Real[home] THEN r ELSE NoRoot]
              /\ registry = IF legacy THEN "absent" ELSE "whole"
              /\ entries = IF legacy THEN <<>> ELSE <<[name |-> Legacy, root |-> home]>>
        /\ op = [p \in Procs |-> Idle] /\ ops = 0 /\ last = Idle

----
\* path_is_same_or_inside(): by the components as they are written.
Inside(r, s) == r = s \/ <<r, s>> \in Within
Parents(r) == {s \in Roots : <<r, s>> \in Within}

\* Mutant: only the same path counts as overlapping.
OverlapIsSame(src, dest) == Real[src] = dest
\* The source is compared without its links, the destination as it is written.
Overlap(src, dest) == Inside(Real[src], dest) \/ Inside(dest, Real[src])

\* migrate_legacy_prefixes(): every prefix in prefixes/ under its stored name.
Migrated == SetToSeq({[name |-> named[Real[r]], root |-> r] :
                        r \in {q \in Roots : dir[Real[q]] = "prefix" /\ \E n \in StoreNames : DefaultRoot[n] = q}})
\* read_instance_registry(): a missing registry is made from what is there,
\* and written before the caller goes on; a truncated one does not parse and
\* the operation fails.
Readable == registry # "torn"
Registered == IF registry = "absent" THEN Migrated ELSE entries
\* The record o of an operation that has read the registry, and then does step.
Having(o, step) == [o EXCEPT !.at = IF registry = "absent" THEN "migrate" ELSE step,
                             !.next = step, !.read = Registered]

\* find_registered_instance() and resolve_prefix_root().
Found(name) == {e \in Range(Registered) : e.name = name}
Resolve(name) == IF Found(name) = {} THEN DefaultRoot[name]
                 ELSE (CHOOSE e \in Found(name) : TRUE).root

\* The entries of other names and roots, in their order.
Without(es, name, root) ==
    LET kept[n \in 0..Len(es)] ==
            IF n = 0 THEN <<>>
            ELSE IF es[n].name # name /\ es[n].root # root THEN Append(kept[n - 1], es[n])
            ELSE kept[n - 1]
    IN  kept[Len(es)]

\* Processes in the middle of an operation.
Busy == {p \in Procs : op[p].kind # "idle"}
\* p's operation moves on; the others that are busy were disturbed by it.
Moves(p, o) == /\ op' = [q \in Procs |-> IF q = p THEN o
                                         ELSE [op[q] EXCEPT !.alone = (op[q].kind = "idle")]]
               /\ last' = Idle
\* It ends, well or with an exception.
Succeeds(p) == /\ op' = [op EXCEPT ![p] = Idle]
               /\ last' = IF op[p].alone THEN op[p] ELSE Idle
Fails(p) == op' = [op EXCEPT ![p] = Idle] /\ last' = Idle

At(p, step) == op[p].at = step
Goto(p, step) == Moves(p, [op[p] EXCEPT !.at = step])

----
(* Beginning: the name or path is resolved. *)

\* open_prefix(create), clone_prefix and delete_prefix by name; the name of an
\* operation on a path is the one load_prefix_at_root finds or makes up.
Begin(p, kind, name, root, src, replace, byPath) ==
    /\ op[p].kind = "idle" /\ ops < MaxOps /\ ops' = ops + 1
    /\ LET o == [kind |-> kind, at |-> kind, next |-> "", root |-> root, name |-> name,
                 src |-> src, replace |-> replace, read |-> <<>>, alone |-> Busy = {}]
       IN  Moves(p, IF byPath THEN o ELSE Having(o, kind))
    /\ UNCHANGED <<dir, named, data, registry, entries>>

OpenPrefix(p, name) == Readable /\ Begin(p, "open", name, Resolve(name), NoRoot, FALSE, FALSE)
OpenPrefixAtRoot(p, name, root) == Begin(p, "open", name, root, NoRoot, FALSE, TRUE)
ClonePrefix(p, from, to, replace) ==
    Readable /\ Begin(p, "clone", to, Resolve(to), Resolve(from), replace, FALSE)
ClonePrefixToRoot(p, from, to, root, replace) ==
    Readable /\ Begin(p, "clone", to, root, Resolve(from), replace, FALSE)
DeletePrefix(p, name) == Readable /\ Begin(p, "delete", name, Resolve(name), NoRoot, FALSE, FALSE)

\* A registry made from what was there is written like any other.
MigrateTruncate(p) ==
    /\ At(p, "migrate") /\ Goto(p, "migrated") /\ registry' = "torn"
    /\ UNCHANGED <<dir, named, data, entries, ops>>
MigrateWrite(p) ==
    /\ At(p, "migrated") /\ Goto(p, op[p].next) /\ registry' = "whole" /\ entries' = op[p].read
    /\ UNCHANGED <<dir, named, data, ops>>

----
(* load_prefix_at_root with create_if_missing. *)

\* ensure_layout_dirs(): the directory and its parents.
EnsureLayout(p) ==
    /\ At(p, "open") /\ Goto(p, "toml")
    /\ LET home == Real[op[p].root] IN
       /\ dir' = [r \in Roots |-> IF dir[r] = "none" /\ (r = home \/ r \in Parents(home))
                                  THEN "dir" ELSE dir[r]]
       /\ data' = [data EXCEPT ![home] = IF dir[home] = "none" THEN home ELSE @]
    /\ UNCHANGED <<named, registry, entries, ops>>

\* write_prefix_toml(): written unless it exists, a clone's always; the file
\* needs its directory.
WriteToml(p) ==
    /\ At(p, "toml")
    /\ LET home == Real[op[p].root] IN
       IF dir[home] = "none" THEN Fails(p) /\ UNCHANGED <<dir, named>>
       ELSE /\ Goto(p, "register")
            /\ dir' = [dir EXCEPT ![home] = "prefix"]
            /\ named' = [named EXCEPT ![home] =
                            IF dir[home] = "prefix" /\ op[p].kind = "open" THEN @ ELSE op[p].name]
    /\ UNCHANGED <<data, registry, entries, ops>>

----
(* register_instance and unregister_instance_root_or_name. *)

ReadForUpdate(p) ==
    /\ At(p, "register")
    /\ IF Readable THEN Moves(p, Having(op[p], "truncate")) ELSE Fails(p)
    /\ UNCHANGED <<dir, named, data, registry, entries, ops>>
Truncate(p) ==
    /\ At(p, "truncate") /\ Goto(p, "write") /\ registry' = "torn"
    /\ UNCHANGED <<dir, named, data, entries, ops>>
\* Mutant: only the entry of the same name is replaced.
UpdatedByName(o) ==
    IF o.kind = "delete" THEN Without(o.read, o.name, o.root)
    ELSE Append(Without(o.read, o.name, NoRoot), [name |-> o.name, root |-> o.root])
\* The entries of the same name or root give way to the new one.
Updated(o) == LET kept == Without(o.read, o.name, o.root) IN
              IF o.kind = "delete" THEN kept
              ELSE Append(kept, [name |-> o.name, root |-> o.root])
WriteEntries(p) ==
    /\ At(p, "write") /\ Succeeds(p) /\ registry' = "whole" /\ entries' = Updated(op[p])
    /\ UNCHANGED <<dir, named, data, ops>>

----
(* clone_prefix_into and delete_prefix. *)

\* The directory that a path leads to goes, with all that lies in it.
RemoveAll(root) ==
    LET gone == {r \in Roots : Inside(r, Real[root])} IN
    /\ dir' = [r \in Roots |-> IF r \in gone THEN "none" ELSE dir[r]]
    /\ named' = [r \in Roots |-> IF r \in gone THEN NoName ELSE named[r]]
    /\ data' = [r \in Roots |-> IF r \in gone THEN NoRoot ELSE data[r]]

\* The checks, then an existing destination is removed: the source with it,
\* when a link leads from the destination to where the source is.
ClearDestination(p) ==
    LET o == op[p] IN
    /\ At(p, "clone")
    /\ IF \/ dir[Real[o.src]] # "prefix" \/ Overlap(o.src, o.root)
          \/ dir[Real[o.root]] # "none" /\ ~o.replace
       THEN Fails(p) /\ UNCHANGED <<dir, named, data>>
       ELSE Goto(p, "copy") /\ RemoveAll(o.root)
    /\ UNCHANGED <<registry, entries, ops>>

\* The directory of root is there with what the copy brought, and its parents.
Brought(home, what, name, contents) ==
    /\ dir' = [r \in Roots |-> IF r = home THEN what
                               ELSE IF r \in Parents(home) /\ dir[r] = "none" THEN "dir" ELSE dir[r]]
    /\ named' = [named EXCEPT ![home] = name]
    /\ data' = [data EXCEPT ![home] = contents]

\* filesystem::copy fails when the source went away; prefix.toml comes along.
CopyTree(p) ==
    LET src == Real[op[p].src]  home == Real[op[p].root] IN
    /\ At(p, "copy")
    /\ IF dir[src] = "none" THEN Fails(p) /\ UNCHANGED <<dir, named, data>>
       ELSE /\ ~Inside(home, src)
            /\ Goto(p, "toml")
            /\ Brought(home, dir[src], named[src], data[src])
    /\ UNCHANGED <<registry, entries, ops>>
\* A copy stops half way: the disk is full, or the tree is copied into itself.
CopyStops(p) ==
    LET src == Real[op[p].src]  home == Real[op[p].root] IN
    /\ At(p, "copy") /\ dir[src] # "none" /\ Fails(p)
    /\ \/ Brought(home, "dir", NoName, NoRoot)
       \/ dir[src] = "prefix" /\ Brought(home, "prefix", named[src], NoRoot)
    /\ UNCHANGED <<registry, entries, ops>>

\* A root in the store, registered or with a prefix.toml is removed.
RemoveTree(p) ==
    /\ At(p, "delete")
    /\ IF /\ Readable
          /\ \/ dir[Real[op[p].root]] = "prefix"
             \/ \E e \in Range(Registered) : e.name = op[p].name \/ e.root = op[p].root
             \/ \E n \in StoreNames : DefaultRoot[n] = op[p].root
       THEN Goto(p, "register") /\ RemoveAll(op[p].root)
       ELSE Fails(p) /\ UNCHANGED <<dir, named, data>>
    /\ UNCHANGED <<registry, entries, ops>>

Dies(p) == op[p].kind # "idle" /\ Fails(p) /\ UNCHANGED <<dir, named, data, registry, entries, ops>>

Next == UNCHANGED legacy /\ \E p \in Procs :
    \/ \E n \in StoreNames :
          \/ OpenPrefix(p, n) \/ DeletePrefix(p, n)
          \/ \E r \in Roots : OpenPrefixAtRoot(p, n, r)
          \/ \E m \in StoreNames, replace \in BOOLEAN :
                \/ ClonePrefix(p, m, n, replace)
                \/ \E r \in Roots : ClonePrefixToRoot(p, m, n, r, replace)
    \/ EnsureLayout(p) \/ WriteToml(p) \/ ReadForUpdate(p) \/ Truncate(p) \/ WriteEntries(p)
    \/ MigrateTruncate(p) \/ MigrateWrite(p)
    \/ ClearDestination(p) \/ CopyTree(p) \/ CopyStops(p) \/ RemoveTree(p) \/ Dies(p)

Spec == Init /\ [][Next]_vars

----
\* However the rewrites of several processes interleave, no name and no root
\* is in the registry twice: register_instance() drops both before it adds.
\* (A migrated registry may hold one stored name for two roots.)
EntriesUnique ==
    \A i, j \in DOMAIN entries : i # j => /\ legacy \/ entries[i].name # entries[j].name
                                          /\ entries[i].root # entries[j].root

\* An operation no other process came between leaves directories and registry
\* agreeing, whatever earlier crashes left behind: what was opened or cloned is
\* a prefix found under its name, what was deleted is neither.
OperationsComplete ==
    /\ last.kind \in {"open", "clone"} =>
          /\ dir[Real[last.root]] = "prefix"
          /\ [name |-> last.name, root |-> last.root] \in Range(entries)
    /\ last.kind = "delete" =>
          /\ dir[Real[last.root]] = "none"
          /\ \A e \in Range(entries) : e.name # last.name /\ e.root # last.root

\* A clone that succeeds holds the source's data, and the source is still
\* there.  What a clone removes to make room never reaches into the prefix it
\* copies, whether it succeeds or not, unless the path of the destination has a
\* link in it: then the comparison with the source may miss that the two
\* overlap (clone_prefix_into()), and the source is deleted.
CloneKeepsSource ==
    /\ last.kind = "clone" =>
          dir[Real[last.src]] = "prefix" /\ data[Real[last.root]] = data[Real[last.src]]
    /\ \A p \in Procs : LET o == op[p] IN
          o.kind = "clone" /\ o.alone /\ Real[o.root] = o.root /\ At(p, "copy")
             => dir[Real[o.src]] = "prefix"

StoreSound == EntriesUnique /\ OperationsComplete /\ CloneKeepsSource
=============================================================================
