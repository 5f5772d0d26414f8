---------------------------- MODULE MuplardState ----------------------------
(***************************************************************************)
(* muplard's settings file and surface table.  PutSetting and              *)
(* SetPermission change the map in memory, write all of it to a temporary  *)
(* file and rename that over the settings file; when the rename fails the  *)
(* old file is removed and the rename tried again.  The daemon may end     *)
(* between any two of these steps and loads the file when it starts.       *)
(* ApplySurfaceTransaction applies the lines of a payload to a copy of the *)
(* surfaces and keeps the copy when every line was valid.  Requests are    *)
(* served one at a time by the daemon's only thread.                       *)
(***************************************************************************)
EXTENDS Integers, Sequences, SequencesExt

CONSTANTS Keys,         \* settings, permission overrides among them
          SurfaceIds,   \* ids a transaction names, 0 among them
          Layers,       \* layers a transaction sets
          MaxLines,     \* bound: lines of a transaction
          MaxPuts,      \* bound: settings changed
          MaxChanges    \* bound: surface transactions applied

VARIABLES memory,     \* settings
          save,       \* where save_settings() is, and for which key
          tmp,        \* the temporary file
          disk,       \* the settings file
          running,
          puts,
          acked,      \* value of each key that a reply "1" confirmed
          refused,    \* values of each key that were written but not confirmed
          lost,       \* the file was removed and not replaced
          surfaces,   \* surfaces: id -> state
          generation, \* surface_generation
          history     \* the surfaces each generation stands for

settings == <<memory, save, tmp, disk, running, puts, acked, refused, lost>>
table == <<surfaces, generation, history>>
vars == <<memory, save, tmp, disk, running, puts, acked, refused, lost, surfaces, generation, history>>

Unset == "unset"
Values == {"grant", "deny"}
None == [file |-> "none"]
Whole(map) == [file |-> "whole", map |-> map]
Idle == [at |-> "idle", key |-> Unset]
Empty == [k \in Keys |-> Unset]

TypeOK ==
    /\ memory \in [Keys -> Values \cup {Unset}]
    /\ save.at \in {"idle", "write", "rename", "remove", "again"}
    /\ generation \in 0 .. MaxChanges
    /\ DOMAIN surfaces \subseteq SurfaceIds \ {0}

Init ==
    /\ memory = Empty /\ save = Idle /\ tmp = None /\ disk = None
    /\ running = TRUE /\ puts = 0
    /\ acked = Empty /\ refused = [k \in Keys |-> {}] /\ lost = FALSE
    /\ surfaces = <<>> /\ generation = 0 /\ history = <<surfaces>>

----
(* Settings. *)

\* PutSetting, SetPermission: memory first.
PutSetting(key, value) ==
    /\ running /\ save = Idle /\ puts < MaxPuts
    /\ memory' = [memory EXCEPT ![key] = value]
    /\ save' = [at |-> "write", key |-> key]
    /\ puts' = puts + 1
    /\ refused' = [refused EXCEPT ![key] = @ \cup {value}]
    /\ UNCHANGED <<tmp, disk, running, acked, lost, table>>

\* The reply: "1" confirms the value in memory, "0" leaves it there.
Reply(ok) ==
    LET key == save.key
    IN  /\ save' = Idle
        /\ acked' = IF ok THEN [acked EXCEPT ![key] = memory[key]] ELSE acked
        /\ refused' = IF ok THEN [refused EXCEPT ![key] = {}] ELSE refused

\* The temporary file, in one step of the model: nobody reads it.
\* Mutant: the settings file itself is written.
WriteTemporaryInPlace(ok) ==
    /\ running /\ save.at = "write"
    /\ IF ok THEN /\ disk' = Whole(memory)
                  /\ Reply(TRUE)
       ELSE /\ disk' = [file |-> "torn"]
            /\ Reply(FALSE)
    /\ UNCHANGED <<memory, tmp, running, puts, lost, table>>
WriteTemporary(ok) ==
    /\ running /\ save.at = "write"
    /\ IF ok THEN /\ tmp' = Whole(memory)
                  /\ save' = [save EXCEPT !.at = "rename"]
                  /\ UNCHANGED <<acked, refused>>
       ELSE tmp' = tmp /\ Reply(FALSE)
    /\ UNCHANGED <<memory, disk, running, puts, lost, table>>

Renamed ==
    /\ disk' = tmp /\ tmp' = None /\ lost' = FALSE

\* rename() over the file.
RenameTemporary(ok) ==
    /\ running /\ save.at = "rename"
    /\ IF ok THEN Renamed /\ Reply(TRUE)
       ELSE /\ save' = [save EXCEPT !.at = "remove"]
            /\ UNCHANGED <<disk, tmp, lost, acked, refused>>
    /\ UNCHANGED <<memory, running, puts, table>>

\* remove() of the file that was in the way, which may fail too.
RemoveOld(ok) ==
    /\ running /\ save.at = "remove"
    /\ disk' = IF ok THEN None ELSE disk
    /\ lost' = (lost \/ (ok /\ disk # None))
    /\ save' = [save EXCEPT !.at = "again"]
    /\ UNCHANGED <<memory, tmp, running, puts, acked, refused, table>>

RenameAgain(ok) ==
    /\ running /\ save.at = "again"
    /\ IF ok THEN Renamed ELSE UNCHANGED <<disk, tmp, lost>>
    /\ Reply(ok)
    /\ UNCHANGED <<memory, running, puts, table>>

\* The daemon ends anywhere; a daemon with another pid starts, so an old
\* temporary file is never used again.
Crash ==
    /\ running
    /\ running' = FALSE /\ save' = Idle /\ tmp' = None
    /\ UNCHANGED <<memory, disk, puts, acked, refused, lost, table>>

\* load_settings(); the surfaces begin empty again.  Where the file was lost,
\* so is what had been confirmed, and the count begins anew.
Restart ==
    /\ ~running
    /\ running' = TRUE
    /\ memory' = IF disk.file = "whole" THEN disk.map ELSE Empty
    /\ surfaces' = <<>> /\ generation' = 0 /\ history' = <<surfaces'>>
    /\ acked' = IF lost THEN Empty ELSE acked
    /\ refused' = IF lost THEN [k \in Keys |-> {}] ELSE refused
    /\ lost' = FALSE
    /\ UNCHANGED <<save, tmp, disk, puts>>

\* permission_granted() for a permission that is dangerous: an override.
PermissionGranted(map, key) == map[key] = "grant"

----
(* Surfaces. *)

Line == [op : {"create", "remove", "show", "hide"}, id : SurfaceIds, layer : {0}]
        \cup [op : {"layer"}, id : SurfaceIds, layer : Layers]
        \cup [op : {"unknown"}, id : {0}, layer : {0}]

Surface == [layer |-> 0, visible |-> FALSE]
Bad == [valid |-> FALSE, map |-> <<>>]
Good(map) == [valid |-> TRUE, map |-> map]
With(map, id, state) == [i \in DOMAIN map \cup {id} |-> IF i = id THEN state ELSE map[i]]

\* One line of a transaction on the copy.  A remove needs no surface.
ApplyLine(done, line) ==
    LET map == done.map
        there == line.id \in DOMAIN map
    IN  IF ~done.valid THEN Bad
        ELSE CASE line.op = "remove" -> Good([i \in DOMAIN map \ {line.id} |-> map[i]])
               [] line.op = "create" ->
                      IF line.id # 0 /\ ~there THEN Good(With(map, line.id, Surface)) ELSE Bad
               [] line.op \in {"show", "hide"} /\ there ->
                      Good(With(map, line.id, [map[line.id] EXCEPT !.visible = (line.op = "show")]))
               [] line.op = "layer" /\ there ->
                      Good(With(map, line.id, [map[line.id] EXCEPT !.layer = line.layer]))
               [] OTHER -> Bad

Transactions == UNION {[1 .. n -> Line] : n \in 1 .. MaxLines}

\* Mutant: the lines are applied to the table itself.
ApplySurfaceTransactionInPlace(lines) ==
    LET prefix(n) == FoldLeft(ApplyLine, Good(surfaces), SubSeq(lines, 1, n))
        n == CHOOSE k \in 0 .. Len(lines) : prefix(k).valid /\ (k = Len(lines) \/ ~prefix(k + 1).valid)
    IN  /\ running /\ save = Idle /\ generation < MaxChanges
        /\ surfaces' = prefix(n).map
        /\ generation' = IF n = Len(lines) THEN generation + 1 ELSE generation
        /\ history' = IF n = Len(lines) THEN Append(history, surfaces') ELSE history
        /\ UNCHANGED settings
\* apply_surface_transaction(): all lines or none, and a new generation.
ApplySurfaceTransaction(lines) ==
    LET done == FoldLeft(ApplyLine, Good(surfaces), lines)
    IN  /\ running /\ save = Idle /\ generation < MaxChanges
        /\ IF done.valid
           THEN /\ surfaces' = done.map
                /\ generation' = generation + 1
                /\ history' = Append(history, surfaces')
           ELSE UNCHANGED table
        /\ UNCHANGED settings

Next ==
    \/ \E key \in Keys, value \in Values : PutSetting(key, value)
    \/ \E ok \in BOOLEAN : \/ WriteTemporary(ok) \/ RenameTemporary(ok)
                           \/ RemoveOld(ok) \/ RenameAgain(ok)
    \/ Crash \/ Restart
    \/ \E lines \in Transactions : ApplySurfaceTransaction(lines)

Spec == Init /\ [][Next]_vars

----
(* Properties. *)

\* A value that PutSetting or SetPermission confirmed is in the settings
\* file, whatever step the daemon ends in but one, unless a later value of
\* that key was taken and not confirmed.  The one step is in the fallback of
\* save_settings(): once a first rename failed and the old file was removed,
\* an end of the daemon, or a second failure, leaves no settings at all.  The
\* file is never torn.
ConfirmedIsDurable ==
    /\ disk.file # "torn"
    /\ \A k \in Keys :
        acked[k] # Unset /\ ~lost =>
            /\ disk.file = "whole"
            /\ disk.map[k] \in {acked[k]} \cup refused[k]

\* A permission override that was confirmed as "deny", with nothing taken
\* for it since, is not granted by the running daemon, also after it was
\* started again.  A daemon that finds the file removed and not replaced knows
\* nothing of what was confirmed before: it is held to what it confirms.
DeniedStaysDenied ==
    \A k \in Keys :
        acked[k] = "deny" /\ refused[k] = {} /\ running => ~PermissionGranted(memory, k)

\* The number QuerySurfaces reports stands for one content of the surface
\* table while the daemon runs: a transaction that is refused in its last
\* line leaves nothing of the lines before (apply_surface_transaction).
GenerationNamesSurfaces == surfaces = history[generation + 1]

\* Settings are durable and surfaces change as a whole.
StateSound == ConfirmedIsDurable /\ DeniedStaysDenied /\ GenerationNamesSurfaces
=============================================================================
