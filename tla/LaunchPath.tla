----------------------------- MODULE LaunchPath -----------------------------
(***************************************************************************)
(* What a launch runs: AndroidAarch64Runtime::run and LinuxAarch64Runtime  *)
(* ::run find the file of the input on the host, its name in the guest,    *)
(* and follow #! lines, five at most, before the runner gets the program   *)
(* and its arguments.                                                      *)
(*                                                                         *)
(* A host path is a pair: "root" and a guest path for the files below the  *)
(* sysroot; "sibling" for a directory whose name begins with the sysroot's *)
(* (rootfs2 beside rootfs); "host" for all others.                         *)
(***************************************************************************)
EXTENDS Naturals, Sequences, SequencesExt

CONSTANTS GuestFiles,  \* paths below the sysroot
          SiblingFiles, HostFiles, \* other files
          PathOf,      \* PathOf[k]: the search path of a prefix of kind k
          InDir,       \* InDir[d][c]: the path of command c in directory d
          LaunchInputs, \* what a user, or a #! line, may name
          Scripts,     \* contents of scripts: the interpreter and its argument, "" for none
          LoopLimit    \* 5 in the code

Files == ({"root"} \X GuestFiles) \cup ({"sibling"} \X SiblingFiles) \cup ({"host"} \X HostFiles)
NoGuest == ""

VARIABLES content, \* content[f]: a record of Plain or Scripts
          prefixKind, wanted, \* the prefix's kind and the input
          elf, guest,         \* guest_cfg.elf_path and guest_elf_path
          argv, loops, phase,
          trail               \* the scripts that were followed, first one first

vars == <<content, prefixKind, wanted, elf, guest, argv, loops, phase, trail>>

Plain == [is : {"none", "elf", "data"}, interp : {[form |-> "none"]}, arg : {""}]
Is(f, what) == content[f].is = what
IsScript(f) == Is(f, "script")

TypeOK == /\ content \in [Files -> Plain \cup Scripts] /\ loops \in 0..LoopLimit
          /\ phase \in {"resolve", "follow", "ready"} /\ elf \in Files

----
\* `rfind(sysroot, 0) == 0` and substr: a sibling's file gets a name too, one
\* that means nothing in the guest.
GuestName(f) == CASE f[1] = "root" -> f[2] [] f[1] = "sibling" -> "/2" [] OTHER -> NoGuest

\* resolve_path(): an absolute path in the sysroot before the host's; a bare
\* name along the prefix's path; a path with directories from the prefix's
\* working directory.  What is not found is left to the host.
ResolvePath(in) ==
    CASE in.form = "abs" -> IF in.at[1] = "host" /\ in.at[2] \in GuestFiles /\ ~Is(<<"root", in.at[2]>>, "none")
                            THEN [host |-> <<"root", in.at[2]>>, guest |-> in.at[2]]
                            ELSE [host |-> in.at, guest |-> NoGuest]
      [] in.form = "bare" ->
            LET found == SelectInSeq(PathOf[prefixKind], LAMBDA d : ~Is(<<"root", InDir[d][in.at]>>, "none"))
            IN IF found = 0 THEN [host |-> <<"host", in.at>>, guest |-> NoGuest]
               ELSE LET g == InDir[PathOf[prefixKind][found]][in.at] IN [host |-> <<"root", g>>, guest |-> g]
      [] in.form = "rel" -> IF ~Is(in.at, "none") THEN [host |-> in.at, guest |-> GuestName(in.at)]
                            ELSE [host |-> <<"host", "nowhere">>, guest |-> NoGuest]
Resolved(in) == LET r == ResolvePath(in) IN IF r.guest # NoGuest THEN r ELSE [r EXCEPT !.guest = GuestName(r.host)]

\* The host's own files do not matter beyond being there.
Init == /\ \E below \in [GuestFiles -> Plain \cup Scripts], beside \in [SiblingFiles -> Scripts],
              others \in [HostFiles -> {c \in Plain : c.is # "data"}] :
              /\ others["nowhere"].is = "none"
              /\ content = [f \in Files |-> CASE f[1] = "root" -> below[f[2]] [] f[1] = "sibling" -> beside[f[2]]
                                               [] OTHER -> others[f[2]]]
        /\ prefixKind \in DOMAIN PathOf /\ wanted \in LaunchInputs
        /\ elf = <<"host", "nowhere">> /\ guest = NoGuest /\ argv = <<>> /\ loops = 0
        /\ phase = "resolve" /\ trail = <<>>

Resolve == /\ phase = "resolve" /\ phase' = "follow"
           /\ elf' = Resolved(wanted).host /\ guest' = Resolved(wanted).guest
           /\ UNCHANGED <<content, prefixKind, wanted, argv, loops, trail>>

\* The name a script is given to its interpreter by.
NameOf(f, g) == IF g = NoGuest THEN f ELSE <<"guest", g>>
\* Mutant: an interpreter outside the sysroot keeps the script's guest name.
FollowKeepingName ==
          /\ phase = "follow" /\ loops < LoopLimit /\ IsScript(elf)
          /\ LET s == content[elf] IN
             /\ argv' = (IF s.arg = "" THEN <<>> ELSE <<<<"arg", s.arg>>>>) \o <<NameOf(elf, guest)>> \o argv
             /\ elf' = Resolved(s.interp).host
             /\ guest' = IF Resolved(s.interp).guest = NoGuest THEN guest ELSE Resolved(s.interp).guest
          /\ trail' = Append(trail, elf) /\ loops' = loops + 1
          /\ UNCHANGED <<content, prefixKind, wanted, phase>>
\* One round of the loop: the script and the interpreter's argument go in front.
Follow == /\ phase = "follow" /\ loops < LoopLimit /\ IsScript(elf)
          /\ LET s == content[elf] IN
             /\ argv' = (IF s.arg = "" THEN <<>> ELSE <<<<"arg", s.arg>>>>) \o <<NameOf(elf, guest)>> \o argv
             /\ elf' = Resolved(s.interp).host /\ guest' = Resolved(s.interp).guest
          /\ trail' = Append(trail, elf) /\ loops' = loops + 1
          /\ UNCHANGED <<content, prefixKind, wanted, phase>>
Ready == /\ phase = "follow" /\ (loops = LoopLimit \/ ~IsScript(elf)) /\ phase' = "ready"
         /\ argv' = <<NameOf(elf, guest)>> \o argv
         /\ UNCHANGED <<content, prefixKind, wanted, elf, guest, loops, trail>>

Next == Resolve \/ Follow \/ Ready
Spec == Init /\ [][Next]_vars

----
\* The file a guest process opens by a name of argv.
Opens(n) == IF n[1] = "guest" THEN <<"root", n[2]>> ELSE n
\* What execve passes for a chain of scripts: each script's argument before it,
\* the last script first.
ExecArgv == <<elf>> \o FoldLeft(LAMBDA acc, f : (IF content[f].arg = "" THEN <<>> ELSE <<<<"arg", content[f].arg>>>>)
                                                \o <<f>> \o acc, <<>>, trail)
Beside(f) == f[1] = "sibling"

\* The runner's argv, as the guest reads it, is what execve would have passed,
\* and each name in it opens the file the host read under it; only paths in a
\* sibling of the sysroot are an exception.  The runner gets a script only when
\* the chain reaches the limit.
LaunchNamed ==
    phase = "ready" =>
        /\ ~Beside(elf) /\ (\A i \in DOMAIN trail : ~Beside(trail[i])) =>
              [i \in DOMAIN argv |-> Opens(argv[i])] = ExecArgv
        /\ loops < LoopLimit => ~IsScript(elf)
=============================================================================
