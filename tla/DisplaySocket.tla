--------------------------- MODULE DisplaySocket ---------------------------
(***************************************************************************)
(* publish_display_socket(): every launch of a Linux program makes the     *)
(* compositor's socket reachable in the prefix with a hard link.  Launches *)
(* into one prefix run side by side in processes of their own, and the     *)
(* compositor may bind a new socket or end between any two of their system *)
(* calls.  Sockets are inode numbers, 0 is none; a link that names an      *)
(* inode keeps its number from being used again.                           *)
(***************************************************************************)
EXTENDS Integers, Sequences, FiniteSets

CONSTANTS Publishers,   \* launches
          Paths,        \* host paths a socket may be at
          OtherVolume,  \* the ones on another volume than the prefix
          MaxInodes     \* bound: sockets bound

Symlink == -1

VARIABLES host,   \* Paths -> the socket at the path
          made,   \* sockets bound so far
          link,   \* Paths -> what the prefix has at the same path
          at,     \* Publishers -> the next system call
          left,   \* Publishers -> the paths still to publish
          saw,    \* Publishers -> what stat() saw at the first of them
          fresh   \* Paths: the last launch to finish saw the socket there is

vars == <<host, made, link, at, left, saw, fresh>>

\* publish_display_socket_impl(): what WAYLAND_DISPLAY and XDG_RUNTIME_DIR
\* come to: one path (unset, absolute, or the two directories the same), or
\* the default directory and then the host's own.
PathLists == {<<p>> : p \in Paths} \cup {l \in Paths \X Paths : l[1] # l[2]}

\* A prefix of an earlier version has a symbolic link.
Init ==
    /\ host = [p \in Paths |-> 0] /\ made = 0
    /\ link \in [Paths -> {0, Symlink}]
    /\ at = [u \in Publishers |-> "idle"]
    /\ left \in [Publishers -> PathLists]
    /\ saw = [u \in Publishers |-> 0]
    /\ fresh = [p \in Paths |-> FALSE]

----
(* The compositor. *)

Bind(p) ==
    /\ made < MaxInodes
    /\ made' = made + 1
    /\ host' = [host EXCEPT ![p] = made + 1]
    /\ fresh' = [fresh EXCEPT ![p] = FALSE]
    /\ UNCHANGED <<link, at, left, saw>>

Unbind(p) ==
    /\ host[p] # 0
    /\ host' = [host EXCEPT ![p] = 0]
    /\ fresh' = [fresh EXCEPT ![p] = FALSE]
    /\ UNCHANGED <<made, link, at, left, saw>>

----
(* link_host_socket_into_rootfs(), for the first path of left. *)

Path(u) == Head(left[u])
Goes(u, where) == at' = [at EXCEPT ![u] = where]

\* The function returns; the next path is published, if there is one.
Returns(u) ==
    /\ left' = [left EXCEPT ![u] = Tail(@)]
    /\ Goes(u, IF Tail(left[u]) = <<>> THEN "done" ELSE "stat")
    /\ fresh' = [fresh EXCEPT ![Path(u)] = saw[u] = host[Path(u)]]
    /\ UNCHANGED saw

Start(u) ==
    /\ at[u] = "idle" /\ Goes(u, "stat")
    /\ UNCHANGED <<host, made, link, left, saw, fresh>>

StatSocket(u) ==
    /\ at[u] = "stat"
    /\ saw' = [saw EXCEPT ![u] = host[Path(u)]]
    /\ Goes(u, IF host[Path(u)] = 0 THEN "unlink" ELSE "lstat")
    /\ UNCHANGED <<host, made, link, left, fresh>>

\* No socket: whatever the prefix has there is dropped.
UnlinkStale(u) ==
    /\ at[u] = "unlink"
    /\ link' = [link EXCEPT ![Path(u)] = 0]
    /\ Returns(u)
    /\ UNCHANGED <<host, made>>

\* Whether the entry is the socket itself.  Mutant: stat() follows the link.
SameInodeFollowing(u) == link[Path(u)] = saw[u] \/ (link[Path(u)] = Symlink /\ host[Path(u)] = saw[u])
SameInode(u) == link[Path(u)] = saw[u]

LstatLink(u) ==
    /\ at[u] = "lstat"
    /\ IF SameInode(u)
       THEN Returns(u)
       ELSE Goes(u, "remove") /\ UNCHANGED <<left, saw, fresh>>
    /\ UNCHANGED <<host, made, link>>

RemoveLink(u) ==
    /\ at[u] = "remove"
    /\ link' = [link EXCEPT ![Path(u)] = 0]
    /\ Goes(u, "link")
    /\ UNCHANGED <<host, made, left, saw, fresh>>

\* link() names the path, so it links the socket that is there by now.  It
\* fails if there is none, if another launch was faster, and across volumes.
HardLink(u) ==
    /\ at[u] = "link"
    /\ link' = IF link[Path(u)] = 0 /\ Path(u) \notin OtherVolume
               THEN [link EXCEPT ![Path(u)] = host[Path(u)]] ELSE link
    /\ Returns(u)
    /\ UNCHANGED <<host, made>>

\* The launch is killed between two calls.
Killed(u) ==
    /\ at[u] \notin {"idle", "done"}
    /\ fresh' = [fresh EXCEPT ![Path(u)] = FALSE]
    /\ Goes(u, "done") /\ left' = [left EXCEPT ![u] = <<>>]
    /\ UNCHANGED <<host, made, link, saw>>

Next ==
    \/ \E p \in Paths : Bind(p) \/ Unbind(p)
    \/ \E u \in Publishers :
          \/ Start(u) \/ StatSocket(u) \/ UnlinkStale(u) \/ LstatLink(u)
          \/ RemoveLink(u) \/ HardLink(u) \/ Killed(u)

Spec == Init /\ [][Next]_vars

----
(* Properties. *)

TypeOK ==
    /\ host \in [Paths -> 0 .. made] /\ made \in 0 .. MaxInodes
    /\ link \in [Paths -> Symlink .. made]
    /\ at \in [Publishers -> {"idle", "stat", "unlink", "lstat", "remove", "link", "done"}]
    /\ saw \in [Publishers -> 0 .. made]
    /\ \A u \in Publishers : at[u] # "done" => left[u] # <<>>

InTheMiddle(p) == {u \in Publishers : at[u] \notin {"idle", "stat", "done"} /\ Path(u) = p}

\* Once every launch that had begun to publish a path is through with it, and
\* the compositor has not changed its socket since the last one of them
\* looked, a client in the prefix reaches the socket there is: the entry is a
\* link to it, or is missing because there is none or the volumes differ.  It
\* is never a symbolic link or a dead socket, in whatever order the launches
\* removed and linked.
SocketReachable ==
    \A p \in Paths :
        fresh[p] /\ InTheMiddle(p) = {}
            => link[p] = IF p \in OtherVolume THEN 0 ELSE host[p]
=============================================================================
