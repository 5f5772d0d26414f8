---------------------------- MODULE LinuxSession ----------------------------
(***************************************************************************)
(* `mup linux-session-exec`: clients on the host hand a command to the     *)
(* session launcher of a Linux guest through files in the prefix.          *)
(*                                                                         *)
(* A client writes a request file, writes its name to a FIFO and polls for *)
(* a status file.  The launcher reads names from the FIFO and runs each    *)
(* request as a background job: source the file, start the command, write  *)
(* its pid, wait, write the status.  A cancelled client reads the pid,     *)
(* finds the host process of that guest pid and terminates it.             *)
(* The launcher may be stopped (its trap runs; jobs go on) or the whole    *)
(* instance may die (everything in the guest is gone, the files stay).     *)
(***************************************************************************)
EXTENDS Naturals, Sequences, FiniteSets, SequencesExt

CONSTANTS SessionClients, \* clients, one request each
          Codes,          \* exit codes of commands, not 0 and not 143
          MaxStarts       \* bound: launcher starts

Launcher == "launcher"    \* the guest pid of the launcher shell

VARIABLES launcher,  \* "down", "starting" or "serving"
          starts,
          ready,     \* the file ready exists
          fifo,      \* the FIFO exists under its name
          linked,    \* the launcher's open FIFO is the one under that name
          lines,     \* names written to the FIFO and not yet read
          files,     \* files[c]: the request files that exist
          pidText,   \* pidText[c]: the guest pid in the pid file, "" when empty
          job,       \* job[c]: how far the launcher's job for c is
          outcome,   \* outcome[c]: the exit code of the command
          client,    \* client[c]: where linux-session-exec is
          result,    \* result[c]: what it returned
          cancelled, \* clients that were sent SIGTERM or SIGINT
          killed,    \* killed[c]: guest processes c terminated
          lost       \* clients whose request a launcher's end or start took away

vars == <<launcher, starts, ready, fifo, linked, lines, files, pidText, job,
          outcome, client, result, cancelled, killed, lost>>
guest == <<launcher, starts, ready, fifo, linked, lines>>

Names == {"request", "pid", "status.tmp", "status"}
Jobs == {"none", "forked", "running", "pidfile", "waiting", "exited", "reporting", "over"}
Stages == {"start", "request", "submit", "refused", "waiting", "cancelling", "done"}

TypeOK == /\ launcher \in {"down", "starting", "serving"} /\ starts \in 0..MaxStarts
          /\ ready \in BOOLEAN /\ fifo \in BOOLEAN /\ linked \in BOOLEAN
          /\ lines \in Seq(SessionClients)
          /\ files \in [SessionClients -> SUBSET Names]
          /\ pidText \in [SessionClients -> SessionClients \cup {"", Launcher}]
          /\ job \in [SessionClients -> Jobs]
          /\ outcome \in [SessionClients -> Codes \cup {0, 143}]
          /\ client \in [SessionClients -> Stages]
          /\ result \in [SessionClients -> Codes \cup {0, 1, 143}]
          /\ cancelled \subseteq SessionClients /\ lost \subseteq SessionClients
          /\ killed \in [SessionClients -> SUBSET (SessionClients \cup {Launcher})]

Init == /\ launcher = "down" /\ starts = 0 /\ ready = FALSE /\ fifo = FALSE /\ linked = FALSE
        /\ lines = <<>>
        /\ files = [c \in SessionClients |-> {}] /\ pidText = [c \in SessionClients |-> ""]
        /\ job = [c \in SessionClients |-> "none"] /\ outcome = [c \in SessionClients |-> 0]
        /\ client = [c \in SessionClients |-> "start"] /\ result = [c \in SessionClients |-> 0]
        /\ cancelled = {} /\ lost = {} /\ killed = [c \in SessionClients |-> {}]

----
(* The launcher script. *)

\* Clients whose request file is, or may be, in the session directory.
Pending == {c \in SessionClients : client[c] \in {"submit", "waiting", "cancelling"}}

\* rm -rf of the session directory, the FIFO made and held open for both ends.
LauncherStart ==
    /\ launcher = "down" /\ starts < MaxStarts
    /\ launcher' = "starting" /\ starts' = starts + 1
    /\ ready' = FALSE /\ fifo' = TRUE /\ linked' = TRUE
    /\ files' = [c \in SessionClients |-> {}] /\ pidText' = [c \in SessionClients |-> ""]
    /\ lost' = lost \cup Pending
    /\ UNCHANGED <<lines, job, outcome, client, result, cancelled, killed>>

LauncherReady ==
    /\ launcher = "starting" /\ launcher' = "serving" /\ ready' = TRUE
    /\ UNCHANGED <<starts, fifo, linked, lines, files, pidText, job, outcome, client, result,
                   cancelled, killed, lost>>

\* One line is read; a request whose file is gone is skipped.
TakeRequest ==
    /\ launcher = "serving" /\ lines # <<>>
    /\ lines' = Tail(lines)
    /\ LET c == Head(lines) IN
       job' = IF "request" \in files[c] THEN [job EXCEPT ![c] = "forked"] ELSE job
    /\ UNCHANGED <<launcher, starts, ready, fifo, linked, files, pidText, outcome, client,
                   result, cancelled, killed, lost>>

\* The trap: ready and the FIFO are removed, unread lines are lost with it.
LauncherStops ==
    /\ launcher # "down" /\ launcher' = "down"
    /\ ready' = FALSE /\ fifo' = FALSE /\ linked' = FALSE /\ lines' = <<>>
    /\ lost' = lost \cup Pending
    /\ UNCHANGED <<starts, files, pidText, job, outcome, client, result, cancelled, killed>>

\* The instance dies: no guest process is left, the files stay as they are.
InstanceDies ==
    /\ launcher # "down" /\ launcher' = "down"
    /\ linked' = FALSE /\ lines' = <<>>
    /\ job' = [c \in SessionClients |-> IF job[c] = "none" THEN "none" ELSE "over"]
    /\ lost' = lost \cup Pending
    /\ UNCHANGED <<starts, ready, fifo, files, pidText, outcome, client, result, cancelled, killed>>

----
(* run_request, one job per request. *)

Step(c, from, to) == job[c] = from /\ job' = [job EXCEPT ![c] = to]
\* A file of the job, in the session directory of the time (a restarted
\* launcher made it again).
Write(c, f) == files' = [files EXCEPT ![c] = @ \cup f]

\* . "$request" ends the job when the file is gone.
StartCommand(c) ==
    /\ Step(c, "forked", IF "request" \in files[c] THEN "running" ELSE "over")
    /\ UNCHANGED <<guest, files, pidText, outcome, client, result, cancelled, killed, lost>>
\* The pid file exists before it holds the pid.
OpenPidFile(c) ==
    /\ Step(c, "running", "pidfile") /\ Write(c, {"pid"})
    /\ UNCHANGED <<guest, pidText, outcome, client, result, cancelled, killed, lost>>
\* Mutant: $$ names the launcher's shell instead of the command.
PublishPidOfShell(c) ==
    /\ Step(c, "pidfile", "waiting")
    /\ pidText' = [pidText EXCEPT ![c] = IF "pid" \in files[c] THEN Launcher ELSE ""]
    /\ UNCHANGED <<guest, files, outcome, client, result, cancelled, killed, lost>>
PublishPid(c) ==
    /\ Step(c, "pidfile", "waiting")
    /\ pidText' = [pidText EXCEPT ![c] = IF "pid" \in files[c] THEN c ELSE ""]
    /\ UNCHANGED <<guest, files, outcome, client, result, cancelled, killed, lost>>
\* The command ends by itself, or was terminated.
CommandEnds(c) ==
    /\ Step(c, "waiting", "exited")
    /\ \E code \in IF \E k \in SessionClients : c \in killed[k] THEN {143} ELSE Codes \cup {0} :
          outcome' = [outcome EXCEPT ![c] = code]
    /\ UNCHANGED <<guest, files, pidText, client, result, cancelled, killed, lost>>
\* The status appears under its name only when it is written.
WriteStatus(c) ==
    /\ Step(c, "exited", "reporting") /\ Write(c, {"status.tmp"})
    /\ UNCHANGED <<guest, pidText, outcome, client, result, cancelled, killed, lost>>
MoveStatus(c) ==
    /\ Step(c, "reporting", "over")
    /\ files' = [files EXCEPT ![c] = IF "status.tmp" \in @ THEN (@ \ {"status.tmp"}) \cup {"status"} ELSE @]
    /\ UNCHANGED <<guest, pidText, outcome, client, result, cancelled, killed, lost>>

----
(* handle_linux_session_exec. *)

Goes(c, from, to) == client[c] = from /\ client' = [client EXCEPT ![c] = to]
Returns(c, from, code) == Goes(c, from, "done") /\ result' = [result EXCEPT ![c] = code]

SeeReady(c) ==
    /\ ready /\ fifo /\ Goes(c, "start", "request")
    /\ UNCHANGED <<guest, files, pidText, job, outcome, result, cancelled, killed, lost>>
\* Ten seconds without a launcher.
NotReady(c) ==
    /\ ~(ready /\ fifo) /\ Returns(c, "start", 1)
    /\ UNCHANGED <<guest, files, pidText, job, outcome, cancelled, killed, lost>>
\* Written beside and renamed; or the directory went away, or the disk is full.
WriteRequest(c) ==
    /\ Goes(c, "request", "submit") /\ Write(c, {"request"})
    /\ UNCHANGED <<guest, pidText, job, outcome, result, cancelled, killed, lost>>
RequestFails(c) ==
    /\ Returns(c, "request", 1)
    /\ UNCHANGED <<guest, files, pidText, job, outcome, cancelled, killed, lost>>
Submit(c) ==
    /\ fifo /\ linked /\ launcher # "down" /\ Goes(c, "submit", "waiting")
    /\ lines' = Append(lines, c)
    /\ UNCHANGED <<launcher, starts, ready, fifo, linked, files, pidText, job, outcome, result,
                   cancelled, killed, lost>>
\* The last attempt finds no reader (ENXIO) or no FIFO (ENOENT).
Refused(c) ==
    /\ ~(fifo /\ linked) /\ Goes(c, "submit", "refused")
    /\ UNCHANGED <<guest, files, pidText, job, outcome, result, cancelled, killed, lost>>
\* Then the names are removed, whoever owns them by now.
RemoveEndpoint(c) ==
    /\ Returns(c, "refused", 1) /\ ready' = FALSE /\ fifo' = FALSE /\ linked' = FALSE
    /\ UNCHANGED <<launcher, starts, lines, files, pidText, job, outcome, cancelled, killed, lost>>

Cancel(c) ==
    /\ client[c] = "waiting" /\ c \notin cancelled /\ cancelled' = cancelled \cup {c}
    /\ UNCHANGED <<guest, files, pidText, job, outcome, client, result, killed, lost>>

\* The host pid of that guest pid, when the runtime still maps it.
Mapped(p) == p = Launcher \/ (p \in SessionClients /\ job[p] \in {"running", "pidfile", "waiting"})

\* terminate_host_process_tree(); an empty pid file reads as 0, which no map has.
\* The two files are read and the signal sent in one step: a host pid that is
\* used again between them is left out.
CancelCommand(c) ==
    /\ c \in cancelled /\ "status" \notin files[c] /\ "pid" \in files[c]
    /\ Goes(c, "waiting", "cancelling")
    /\ killed' = [killed EXCEPT ![c] = IF pidText[c] # "" /\ Mapped(pidText[c])
                                       THEN @ \cup {pidText[c]} ELSE @]
    /\ UNCHANGED <<guest, files, pidText, job, outcome, result, cancelled, lost>>
\* After the status, or half a second.
FinishCancel(c) ==
    /\ Returns(c, "cancelling", 143)
    /\ files' = [files EXCEPT ![c] = @ \ {"request", "status", "pid"}]
    /\ pidText' = [pidText EXCEPT ![c] = ""]
    /\ UNCHANGED <<guest, job, outcome, cancelled, killed, lost>>

\* What the status file says: the code, or 0 where nothing was written.
StatusText(c) == IF job[c] = "over" THEN outcome[c] ELSE 0
Collect(c) ==
    /\ "status" \in files[c] /\ Returns(c, "waiting", StatusText(c))
    /\ files' = [files EXCEPT ![c] = @ \ {"request", "status", "pid"}]
    /\ pidText' = [pidText EXCEPT ![c] = ""]
    /\ UNCHANGED <<guest, job, outcome, cancelled, killed, lost>>

----
Next == \/ LauncherStart \/ LauncherReady \/ TakeRequest \/ LauncherStops \/ InstanceDies
        \/ \E c \in SessionClients :
              \/ StartCommand(c) \/ OpenPidFile(c) \/ PublishPid(c) \/ CommandEnds(c)
              \/ WriteStatus(c) \/ MoveStatus(c)
              \/ SeeReady(c) \/ NotReady(c) \/ WriteRequest(c) \/ RequestFails(c) \/ Submit(c)
              \/ Refused(c) \/ RemoveEndpoint(c) \/ Cancel(c) \/ CancelCommand(c) \/ FinishCancel(c) \/ Collect(c)

Spec == Init /\ [][Next]_vars

----
\* What linux-session-exec returns for a command that was not cancelled is the
\* exit code of that client's own command, after it ended.
ExitCodeIsMine ==
    \A c \in SessionClients : client[c] = "done" /\ result[c] \notin {1, 143} =>
        job[c] = "over" /\ outcome[c] = result[c]

\* A cancelled client terminates the process of its own request and no other,
\* and only a cancelled client terminates anything.
CancelHitsOwnCommand ==
    \A c \in SessionClients : killed[c] \subseteq {c} /\ (killed[c] # {} => c \in cancelled)

\* A request is never dropped while the launcher it was written for lives: it is in the
\* FIFO, its job is at work, or the status is there for the client.
RequestsAccounted ==
    \A c \in SessionClients : client[c] = "waiting" /\ c \notin lost =>
        \/ c \in Range(lines)
        \/ job[c] \notin {"none", "over"}
        \/ "status" \in files[c]

SessionSound == ExitCodeIsMine /\ CancelHitsOwnCommand /\ RequestsAccounted
=============================================================================
