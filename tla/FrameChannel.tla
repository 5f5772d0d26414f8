---------------------------- MODULE FrameChannel ----------------------------
(***************************************************************************)
(* How a frame drawn in the ART guest reaches the host.  The shim writes   *)
(* each frame, a header and then its pixels, to the device shell's stream  *)
(* socket and to a file next to it: a temporary file that is renamed over  *)
(* the published one.  A send that times out has already delivered a part  *)
(* of the frame.  The device shell serves one connection at a time and     *)
(* hands whole frames to its main queue; the host window polls the file by *)
(* its time stamp.  Frames are numbers and a frame travels in parts, the   *)
(* first of them its header.  All frames of the guest come from its main   *)
(* looper, one after the other.                                            *)
(***************************************************************************)
EXTENDS Integers, Sequences

CONSTANTS Parts,          \* parts of a frame: the header and the pixels
          BufferParts,    \* room in the socket's buffer
          MaxFrames,      \* bound: frames drawn
          MaxConns        \* bound: connections made

VARIABLES frame,      \* the frame drawn last
          caller,     \* who writes it: "present" or "post"
          wpc,        \* writer: "idle", "socket", "open", "write", "rename"
          attempt,    \* 1: write_bitmap_frame, 2: write_raw_frame
          sent,       \* parts written to the socket or the file
          sock,       \* muplar_frame_socket_fd, 0 for -1
          conns,      \* connections: unread parts, and which ends are open
          serving,    \* the shell's client, 0 while it accepts
          got,        \* parts of the frame being read
          queue,      \* frames dispatched to the shell's main queue
          shown,      \* frame in the shell's view
          tmp,        \* parts in the temporary file
          file,       \* the published file
          poll        \* the host window's poll of the file

guest == <<frame, caller, wpc, attempt, sent, sock>>
shell == <<serving, got, queue, shown>>
vars == <<frame, caller, wpc, attempt, sent, sock, conns, serving, got, queue, shown, tmp, file, poll>>

Part(f, i) == [frame |-> f, part |-> i]
IsHeader(p) == p.part = 1
NoFile == [content |-> <<>>, stamp |-> 0]

TypeOK ==
    /\ frame \in 0 .. MaxFrames
    /\ wpc \in {"idle", "socket", "open", "write", "rename"}
    /\ sock \in 0 .. Len(conns) /\ serving \in 0 .. Len(conns)
    /\ Len(conns) <= MaxConns
    /\ \A c \in DOMAIN conns : Len(conns[c].bytes) <= BufferParts
    /\ Len(got) < Parts /\ Len(tmp) <= Parts
    /\ poll.at \in {"idle", "stat"}

Init ==
    /\ frame = 0 /\ caller = "present" /\ wpc = "idle" /\ attempt = 1 /\ sent = 0 /\ sock = 0
    /\ conns = <<>> /\ serving = 0 /\ got = <<>> /\ queue = <<>> /\ shown = 0
    /\ tmp = <<>> /\ file = NoFile
    /\ poll = [at |-> "idle", stat |-> 0, seen |-> 0, shown |-> 0]

----
(* The guest's writer. *)

Draw(who) ==
    /\ wpc = "idle" /\ frame < MaxFrames
    /\ frame' = frame + 1 /\ caller' = who
    /\ wpc' = "socket" /\ attempt' = 1 /\ sent' = 0
    /\ UNCHANGED <<sock, conns, shell, tmp, file, poll>>

\* MuplarFramePresenter.writeBitmapNative and Surface.unlockCanvasAndPost.
WriteBitmapNative == Draw("present")
UnlockCanvasAndPost == Draw("post")

\* muplar_get_frame_socket(): connect, or do without the socket.
GetFrameSocket(connected) ==
    /\ wpc = "socket" /\ sock = 0
    /\ IF connected
       THEN /\ Len(conns) < MaxConns
            /\ conns' = Append(conns, [bytes |-> <<>>, writer |-> TRUE, reader |-> TRUE])
            /\ sock' = Len(conns) + 1
            /\ wpc' = wpc
       ELSE wpc' = "open" /\ UNCHANGED <<conns, sock>>
    /\ UNCHANGED <<frame, caller, attempt, sent, shell, tmp, file, poll>>

\* muplar_write_all() on the socket, a part at a time.
SendPart ==
    /\ wpc = "socket" /\ sock # 0
    /\ conns[sock].reader /\ Len(conns[sock].bytes) < BufferParts
    /\ conns' = [conns EXCEPT ![sock].bytes = Append(@, Part(frame, sent + 1))]
    /\ sent' = IF sent + 1 = Parts THEN 0 ELSE sent + 1
    /\ wpc' = IF sent + 1 = Parts THEN "open" ELSE wpc
    /\ UNCHANGED <<frame, caller, attempt, sock, shell, tmp, file, poll>>

\* A send that timed out or met a closed socket: the connection is given up,
\* with whatever part of the frame it already carries.
SendFailed == conns[sock].reader => Len(conns[sock].bytes) = BufferParts
\* Mutant: the socket is kept for the next frame.
GiveUpSocketKept ==
    /\ wpc = "socket" /\ sock # 0 /\ SendFailed
    /\ sent' = 0 /\ wpc' = "open"
    /\ UNCHANGED <<frame, caller, attempt, sock, conns, shell, tmp, file, poll>>
GiveUpSocket ==
    /\ wpc = "socket" /\ sock # 0 /\ SendFailed
    /\ conns' = [conns EXCEPT ![sock].writer = FALSE]
    /\ sock' = 0
    /\ sent' = 0 /\ wpc' = "open"
    /\ UNCHANGED <<frame, caller, attempt, shell, tmp, file, poll>>

\* writeBitmapNative writes a frame that failed once more, from its pixels.
Finish(ok) ==
    LET again == ~ok /\ caller = "present" /\ attempt = 1
    IN  /\ wpc' = IF again THEN "socket" ELSE "idle"
        /\ attempt' = IF again THEN 2 ELSE 1
        /\ sent' = 0

\* open() of the temporary file truncates it.
OpenTmp(ok) ==
    /\ wpc = "open"
    /\ IF ok THEN tmp' = <<>> /\ wpc' = "write" /\ UNCHANGED <<attempt, sent>>
       ELSE UNCHANGED tmp /\ Finish(FALSE)
    /\ UNCHANGED <<frame, caller, sock, conns, shell, file, poll>>

\* The parts of the file; a failed write removes it.
WriteTmp(ok) ==
    /\ wpc = "write"
    /\ IF ok
       THEN /\ tmp' = Append(tmp, Part(frame, sent + 1))
            /\ sent' = sent + 1
            /\ wpc' = IF sent + 1 = Parts THEN "rename" ELSE wpc
            /\ UNCHANGED attempt
       ELSE tmp' = <<>> /\ Finish(FALSE)
    /\ UNCHANGED <<frame, caller, sock, conns, shell, file, poll>>

RenameTmp(ok) ==
    /\ wpc = "rename"
    /\ IF ok THEN /\ file' = [content |-> tmp, stamp |-> file.stamp + 1]
                  /\ tmp' = <<>>
       ELSE UNCHANGED <<file, tmp>>
    /\ Finish(ok)
    /\ UNCHANGED <<frame, caller, sock, conns, shell, poll>>

\* The guest process ends in any step and is started again.
GuestDies ==
    /\ wpc # "idle"
    /\ conns' = [c \in DOMAIN conns |->
                    IF c = sock THEN [conns[c] EXCEPT !.writer = FALSE] ELSE conns[c]]
    /\ sock' = 0 /\ wpc' = "idle" /\ attempt' = 1 /\ sent' = 0
    /\ UNCHANGED <<frame, caller, shell, tmp, file, poll>>

----
(* The device shell's frame server: a thread that accepts and reads, and   *)
(* the main queue.                                                         *)

\* Connections are accepted in the order they were made; the ones served
\* before are closed at this end.
Accept ==
    /\ serving = 0
    /\ \E c \in DOMAIN conns :
            /\ conns[c].reader
            /\ \A b \in 1 .. c - 1 : ~conns[b].reader
            /\ serving' = c
    /\ UNCHANGED <<guest, conns, got, queue, shown, tmp, file, poll>>

CloseClient == conns' = [conns EXCEPT ![serving].reader = FALSE, ![serving].bytes = <<>>]

\* AndroidDeviceReadAll(): the header first, which must be one, then the
\* pixels it announces.
ReadPart ==
    /\ serving # 0 /\ conns[serving].bytes # <<>>
    /\ LET p == Head(conns[serving].bytes)
           all == Append(got, p)
       IN  IF got = <<>> /\ ~IsHeader(p)
           THEN CloseClient /\ serving' = 0 /\ UNCHANGED <<got, queue>>
           ELSE /\ conns' = [conns EXCEPT ![serving].bytes = Tail(@)]
                /\ got' = IF Len(all) = Parts THEN <<>> ELSE all
                /\ queue' = IF Len(all) = Parts THEN Append(queue, all) ELSE queue
                /\ UNCHANGED serving
    /\ UNCHANGED <<guest, shown, tmp, file, poll>>

\* The end of the stream, in the middle of a frame too.
ReadEnd ==
    /\ serving # 0 /\ conns[serving].bytes = <<>> /\ ~conns[serving].writer
    /\ CloseClient
    /\ serving' = 0 /\ got' = <<>>
    /\ UNCHANGED <<guest, queue, shown, tmp, file, poll>>

\* The main queue shows the next frame.
ShowFrame ==
    /\ queue # <<>>
    /\ shown' = Head(queue)[1].frame
    /\ queue' = Tail(queue)
    /\ UNCHANGED <<guest, conns, serving, got, tmp, file, poll>>

----
(* The host window's poll of the published file. *)

\* stat(): nothing to do for the stamp that was shown last.
StatFile ==
    /\ poll.at = "idle" /\ file # NoFile /\ file.stamp # poll.seen
    /\ poll' = [poll EXCEPT !.at = "stat", !.stat = file.stamp]
    /\ UNCHANGED <<guest, conns, shell, tmp, file>>

\* open() and read: another file may have been renamed there since; what is
\* remembered is the stamp of the stat before.
ReadFile ==
    /\ poll.at = "stat"
    /\ poll' = IF Len(file.content) = Parts
               THEN [at |-> "idle", stat |-> 0, seen |-> poll.stat, shown |-> file.content[1].frame]
               ELSE [poll EXCEPT !.at = "idle"]
    /\ UNCHANGED <<guest, conns, shell, tmp, file>>

Next ==
    \/ WriteBitmapNative \/ UnlockCanvasAndPost
    \/ \E connected \in BOOLEAN : GetFrameSocket(connected)
    \/ SendPart \/ GiveUpSocket
    \/ \E ok \in BOOLEAN : OpenTmp(ok) \/ WriteTmp(ok) \/ RenameTmp(ok)
    \/ GuestDies
    \/ Accept \/ ReadPart \/ ReadEnd \/ ShowFrame
    \/ StatFile \/ ReadFile

Spec == Init /\ [][Next]_vars

----
(* Properties. *)

\* A frame the device shell shows is whole: its header and all its pixels
\* belong to one frame, although a timed out send leaves a connection in the
\* middle of a frame and the shim goes on with the next one.
FramesWhole ==
    \A i \in DOMAIN queue : queue[i] = [p \in 1 .. Parts |-> Part(queue[i][1].frame, p)]

\* The shell never shows a frame after a later one, across failed sends,
\* new connections, repeated writes and restarts of the guest.
FramesInOrder ==
    /\ \A i \in DOMAIN queue : shown <= queue[i][1].frame
    /\ \A i, j \in DOMAIN queue : i < j => queue[i][1].frame <= queue[j][1].frame

\* The published file is whole at every moment, also when the guest ends
\* while it writes, and the host window does not stop polling before it has
\* shown the file that is there, though its stat and its open may meet two
\* different files.
FileKept ==
    /\ file # NoFile => file.content = [p \in 1 .. Parts |-> Part(file.content[1].frame, p)]
    /\ poll.seen = file.stamp /\ file # NoFile => poll.shown = file.content[1].frame

\* Frames arrive whole and in order on both ways to the host.
FramesSound == FramesWhole /\ FramesInOrder /\ FileKept
=============================================================================
