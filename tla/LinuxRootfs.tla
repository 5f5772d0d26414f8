---------------------------- MODULE LinuxRootfs ----------------------------
(***************************************************************************)
(* Provisioning the root file system of a Linux prefix: every open with    *)
(* create_if_missing runs ensure_layout_dirs() again on whatever is there: *)
(* a new directory, the remains of a run that died, or a system its user   *)
(* has changed.  Also the bootstrap archive in the cache.                  *)
(*                                                                         *)
(* A file is what is known of its content: who wrote it last and, where    *)
(* the code edits it, the part it edits.                                   *)
(***************************************************************************)
EXTENDS Integers, Sequences, FiniteSets, SequencesExt

CONSTANTS MaxRuns,  \* bound: provisioning runs
          MaxEdits, \* bound: changes the user makes
          Distro    \* what the archive holds, and where it may be cut off

VARIABLES text,    \* text[f]: "none", "muplar", "distro" or "user", per kept file
          elfuse,  \* etc/hosts names elfuse
          resolv,  \* etc/resolv.conf: also "empty", "symlink" and a "dangling" one
          foot,    \* the pool size in foot.ini: "none" (no file), "4", "16" or "user"
          machine, \* etc/machine-id: 0 none, 1 shorter than 32 bytes, else an id
          patches, \* guards inserted into a maintainer script, -1 without the script
          passwd, group, shadow, \* the account files
          shell,   \* bin/sh: "none", "stub" or "distro"
          cache,   \* the archive in the cache: "none", "partial" or "whole"
          desktop, \* home/muplar/Desktop: "none", "link", "other" link, "dir"
          pc, runs, edits, ids, \* where a run is, and counters
          extracted, \* this run unpacked the archive
          settled    \* the files after the last run that did not, while no one edited

files == <<text, elfuse, resolv, foot, machine, patches, passwd, group, shadow, shell, desktop>>
vars == <<files, cache, pc, runs, edits, ids, extracted, settled>>

\* "profile" stands for os-release, hostname and profile, "sudoers" for the sudo
\* and bwrap scripts too.
Kept == {"profile", "hosts", "sudoers"}
\* What the archive brings: "shell" is bin/sh with bin/bash, "script" a
\* maintainer script of dpkg's.
Archive == {"profile", "hosts", "resolv", "passwd", "group", "shadow", "shell", "script"}

\* Strings, the names of this module among them.
Words == STRING \cup {"none", "root", "muplar", "user", "bob", "sh", "bash"}
\* Entries of passwd and group (whose id is uid), and of shadow.
Entry == [name : Words, uid : {0, 1000, 1001}, gid : {0, 1000, 1001}, sh : Words]
Secret == [name : Words, pw : {"", "set"}]

Account(name, uid, gid, sh) == [name |-> name, uid |-> uid, gid |-> gid, sh |-> sh]

\* What an archive holds: accounts, none of the name muplar, with the group 1000
\* for the user 1000 only; cuts are the sets of files that are there when tar
\* stops early.
OwnGroups(as) == \A i \in DOMAIN as : as[i].gid = 1000 => as[i].uid = 1000
Knows(ss, name) == \E i \in DOMAIN ss : ss[i].name = name
OwnIds(as) == {i \in DOMAIN as : as[i].uid = 1000}
DistroFits ==
    /\ MaxRuns \in Nat /\ MaxEdits \in Nat
    /\ Distro.passwd \in Seq(Entry) /\ Distro.group \in Seq(Entry) /\ Distro.shadow \in Seq(Secret)
    /\ Distro.resolv \in {"none", "distro", "empty", "symlink", "dangling"} /\ Distro.patches \in -1..1
    /\ Distro.cuts \subseteq SUBSET Archive
    /\ OwnGroups(Distro.passwd) /\ OwnGroups(Distro.group)
    /\ \A i \in DOMAIN Distro.passwd : Distro.passwd[i].name # "muplar"
    /\ ~Knows(Distro.shadow, "muplar")

TypeOK == /\ text \in [Kept -> {"none", "muplar", "distro", "user"}]
          /\ elfuse \in BOOLEAN
          /\ resolv \in {"none", "muplar", "distro", "user", "empty", "symlink", "dangling"}
          /\ foot \in {"none", "4", "16", "user"} /\ machine \in 0..(ids + 1)
          /\ patches \in -1..1 /\ shell \in {"none", "stub", "distro"}
          /\ \A a \in Range(passwd) : a.uid \in {0, 1000, 1001}
          /\ cache \in {"none", "partial", "whole"} /\ desktop \in {"none", "link", "other", "dir"}
          /\ runs \in 0..MaxRuns /\ edits \in 0..MaxEdits /\ extracted \in BOOLEAN

Init == /\ text = [f \in Kept |-> "none"] /\ elfuse = FALSE /\ resolv = "none" /\ foot = "none"
        /\ machine = 0 /\ patches = -1 /\ passwd = <<>> /\ group = <<>> /\ shadow = <<>> /\ shell = "none"
        /\ desktop = "none" /\ cache \in {"none", "whole"}
        /\ pc = "idle" /\ runs = 0 /\ edits = 0 /\ ids = 1 /\ extracted = FALSE
        /\ settled = <<>>

----
(* The helpers. *)

\* write_text_file_if_missing().
IfMissing(old) == IF old = "none" THEN "muplar" ELSE old
\* write_text_file_if_missing_or_empty(): a symlink gives way too, but not one
\* into a directory that is not there: it counts as missing, is kept, and cannot
\* be written through.
IfMissingOrEmpty(old) == IF old \in {"none", "empty", "symlink"} THEN "muplar" ELSE old
\* migrate_generated_setting() after the file was made.
\* Mutant: the pool size is set whatever it is.
MigratedAlways(old) == "4"
Migrated(old) == IF old \in {"none", "16"} THEN "4" ELSE old
\* ensure_relative_symlink(): another link is replaced, anything else stays.
Linked(old) == IF old \in {"none", "other"} THEN "link" ELSE old
\* ensure_deb_noninteractive_compat(): the guard once, found by its marker.
Guarded(old) == IF old = 0 THEN 1 ELSE old

\* rename_linux_account_entry(): every entry of the id; the shell of passwd is
\* lifted from the distribution's default only.  A group has none.
LoginShell == IF shell = "none" THEN "sh" ELSE "bash"
Renamed(as) == [i \in DOMAIN as |-> LET a == as[i] IN
    IF a.uid # 1000 THEN a
    ELSE Account("muplar", a.uid, a.gid, IF a.sh = "sh" THEN LoginShell ELSE a.sh)]
\* rename_linux_account_by_name(): the entry of the old name, its password cleared.
\* Mutant: the password stays.
RenamedShadowOnly(ss, old) == [i \in DOMAIN ss |->
    IF ss[i].name = old THEN [ss[i] EXCEPT !.name = "muplar"] ELSE ss[i]]
RenamedShadow(ss, old) == [i \in DOMAIN ss |->
    IF ss[i].name = old THEN [name |-> "muplar", pw |-> ""] ELSE ss[i]]
\* The first account with uid 1000, else "user".
FirstName(as) == IF OwnIds(as) = {} THEN "user" ELSE as[Min(OwnIds(as))].name
OldName == FirstName(passwd)
\* has_id(): the id in any field but the last.
HasId(as) == \E a \in Range(as) : a.uid = 1000 \/ a.gid = 1000

----
(* One run of ensure_layout_dirs(), step by step. *)

Go(from, to) == pc = from /\ pc' = to
Rest == <<runs, edits, ids>>

BeginRun == /\ runs < MaxRuns /\ runs' = runs + 1 /\ Go("idle", "texts") /\ extracted' = FALSE
            /\ UNCHANGED <<files, cache, edits, ids, settled>>

WriteTexts ==
    /\ Go("texts", "bootstrap")
    /\ text' = [f \in Kept |-> IF f = "sudoers" THEN text[f] ELSE IfMissing(text[f])]
    /\ elfuse' = (elfuse \/ text["hosts"] = "none")
    /\ resolv' = IfMissingOrEmpty(resolv) /\ foot' = Migrated(foot) /\ desktop' = Linked(desktop)
    /\ UNCHANGED <<machine, patches, passwd, group, shadow, shell, cache, Rest, extracted, settled>>

\* A rootfs with a shell is left alone; else find_linux_distro_bootstrap()
\* takes a cached archive, whole or not.
HasUserland ==
    /\ Go("bootstrap", "identity") /\ shell # "none"
    /\ UNCHANGED <<files, cache, Rest, extracted, settled>>
UseCached ==
    /\ Go("bootstrap", "extract") /\ shell = "none" /\ cache # "none"
    /\ UNCHANGED <<files, cache, Rest, extracted, settled>>
\* auto_download_bootstrap() writes to the cached name itself; a failure leaves
\* what arrived and the run copies a stand-alone shell instead.
Download ==
    /\ pc = "bootstrap" /\ shell = "none" /\ cache = "none"
    /\ \/ pc' = "extract" /\ cache' = "whole" /\ UNCHANGED shell
       \/ pc' = "identity" /\ cache' \in {"none", "partial"} /\ shell' \in {"stub", "none"}
    /\ UNCHANGED <<text, elfuse, resolv, foot, machine, patches, passwd, group, shadow, desktop, Rest, extracted, settled>>
\* tar writes into the rootfs itself, one file after the other, and what it has
\* unpacked when the archive ends early, it fails or it is killed stays there:
\* some of the files, the last of them up to some line.  The run does not look
\* at its result, and the next one only at the shell.
Lines(U, acs) == IF U = Archive THEN {acs} ELSE {SubSeq(acs, 1, k) : k \in 0..Len(acs)}
Unpack(U) ==
    /\ text' = [f \in Kept |-> IF f \in U THEN "distro" ELSE text[f]]
    /\ elfuse' = (elfuse /\ "hosts" \notin U)
    /\ resolv' = (IF "resolv" \in U THEN Distro.resolv ELSE resolv)
    /\ passwd' \in (IF "passwd" \in U THEN Lines(U, Distro.passwd) ELSE {passwd})
    /\ group' \in (IF "group" \in U THEN Lines(U, Distro.group) ELSE {group})
    /\ shadow' \in (IF "shadow" \in U THEN Lines(U, Distro.shadow) ELSE {shadow})
    /\ shell' = (IF "shell" \in U THEN "distro" ELSE shell)
    /\ patches' = (IF "script" \in U THEN Distro.patches ELSE patches)
Unpacks == \/ cache = "whole" /\ Unpack(Archive)
           \/ \E U \in Distro.cuts : Unpack(U)
Extract == /\ Go("extract", "identity") /\ extracted' = TRUE /\ Unpacks
           /\ UNCHANGED <<foot, machine, desktop, cache, Rest, settled>>
\* The run dies while tar is at work; tar may go on to the archive's end.
ExtractDies == /\ Go("extract", "idle") /\ settled' = <<>> /\ Unpacks
               /\ UNCHANGED <<foot, machine, desktop, cache, Rest, extracted>>

Identity ==
    /\ Go("identity", "passwd") /\ patches' = Guarded(patches)
    /\ IF machine <= 1 THEN machine' = ids + 1 /\ ids' = ids + 1 ELSE UNCHANGED <<machine, ids>>
    /\ UNCHANGED <<text, elfuse, resolv, foot, passwd, group, shadow, shell, desktop, cache,
                   runs, edits, extracted, settled>>
\* The renames, then what is missing is appended.  The old name is read first.
RenameAccounts ==
    /\ Go("passwd", "shadow") /\ passwd' = Renamed(passwd) /\ group' = Renamed(group)
    /\ shadow' = RenamedShadow(shadow, OldName)
    /\ UNCHANGED <<text, elfuse, resolv, foot, machine, patches, shell, desktop, cache, Rest, extracted, settled>>
\* A run that dies between the files: passwd is renamed, shadow is not.
RenameStopsShort ==
    /\ Go("passwd", "idle") /\ passwd' = Renamed(passwd) /\ settled' = <<>>
    /\ UNCHANGED <<text, elfuse, resolv, foot, machine, patches, group, shadow, shell, desktop, cache, Rest, extracted>>
AppendAccounts ==
    /\ Go("shadow", "scripts")
    /\ passwd' = IF HasId(passwd) THEN passwd ELSE Append(passwd, Account("muplar", 1000, 1000, LoginShell))
    /\ group' = IF HasId(group) THEN group ELSE Append(group, Account("muplar", 1000, 1000, "none"))
    /\ shadow' = IF shadow = <<>> \/ \E s \in Range(shadow) : s.name = "muplar" THEN shadow
                 ELSE Append(shadow, [name |-> "muplar", pw |-> ""])
    /\ UNCHANGED <<text, elfuse, resolv, foot, machine, patches, shell, desktop, cache, Rest, extracted, settled>>
\* etc/hosts gets a line for elfuse at its end if there is none.
WriteScripts ==
    /\ Go("scripts", "idle") /\ text' = [text EXCEPT !["sudoers"] = IfMissing(@)]
    /\ elfuse' = TRUE
    /\ UNCHANGED <<resolv, foot, machine, patches, passwd, group, shadow, shell, desktop, cache, Rest, extracted>>
    /\ settled' = IF extracted \/ shell = "none" THEN <<>> ELSE files'

\* The process dies; a download that was under way leaves what arrived.
RunDies ==
    /\ pc \notin {"idle", "extract"} /\ pc' = "idle" /\ settled' = <<>>
    /\ cache' = IF pc = "bootstrap" /\ cache = "none" /\ shell = "none" THEN "partial" ELSE cache
    /\ UNCHANGED <<files, Rest, extracted>>

----
(* Between runs. *)

Edit == /\ pc = "idle" /\ edits < MaxEdits /\ edits' = edits + 1 /\ settled' = <<>>
        /\ UNCHANGED <<patches, group, shell, cache, pc, runs, ids, extracted>>
UserWrites ==
    /\ Edit /\ UNCHANGED <<machine, passwd, shadow>>
    /\ \/ /\ \E f \in Kept : /\ text' = [text EXCEPT ![f] = "user"]
                              /\ elfuse' \in (IF f = "hosts" THEN BOOLEAN ELSE {elfuse})
          /\ UNCHANGED <<resolv, foot, desktop>>
       \/ resolv' \in {"user", "empty"} /\ UNCHANGED <<text, elfuse, foot, desktop>>
       \/ foot' \in {"user", "16"} /\ UNCHANGED <<text, elfuse, resolv, desktop>>
       \/ desktop' \in {"dir", "other"} /\ UNCHANGED <<text, elfuse, resolv, foot>>
\* useradd, passwd, a truncated machine-id: programs of the guest, which need its
\* shell, and passwd an account of the name.
UserChangesAccounts ==
    /\ Edit /\ passwd # <<>> /\ shell # "none" /\ UNCHANGED <<text, elfuse, resolv, foot, desktop>>
    /\ \/ /\ passwd' = Append(passwd, Account("bob", 1001, 1001, "sh"))
          /\ shadow' = Append(shadow, [name |-> "bob", pw |-> "set"]) /\ UNCHANGED machine
       \/ /\ shadow' = [i \in DOMAIN shadow |->
                IF Knows(passwd, shadow[i].name) THEN [shadow[i] EXCEPT !.pw = "set"] ELSE shadow[i]]
          /\ UNCHANGED <<passwd, machine>>
       \/ machine' = 1 /\ UNCHANGED <<passwd, shadow>>

Next == \/ BeginRun \/ WriteTexts \/ HasUserland \/ UseCached \/ Download \/ Extract \/ ExtractDies
        \/ Identity \/ RenameAccounts \/ RenameStopsShort \/ AppendAccounts \/ WriteScripts \/ RunDies
        \/ UserWrites \/ UserChangesAccounts

Spec == Init /\ [][Next]_vars

----
\* A run never replaces what the user wrote, but for unpacking the archive into
\* a rootfs without a shell: texts, of which etc/hosts may get a line more, the
\* name servers, the pool size chosen for foot, a directory in place of a link,
\* the identity of the machine, and the accounts and passwords of others.  The
\* guest's own account (the first of its id, else "user") is renamed, and its
\* password is cleared, by every run.
KeepsUserFiles ==
    pc # "extract" /\ edits' = edits =>
        /\ \A f \in Kept : text[f] \in {"user", "distro"} => text'[f] = text[f]
        /\ elfuse => elfuse'
        /\ resolv \in {"user", "distro"} => resolv' = resolv
        /\ foot = "user" => foot' = foot
        /\ desktop = "dir" => desktop' = desktop
        /\ machine > 1 => machine' = machine
        /\ \A i \in DOMAIN passwd : passwd[i].uid # 1000 => passwd'[i] = passwd[i]
        /\ \A i \in DOMAIN shadow : shadow[i].name # OldName => shadow'[i] = shadow[i]

\* After a complete run the account the guest is run as exists in passwd and
\* group, can log in where there is a shadow file, and no other account has its
\* name, also when an earlier run died between the files or while tar was at
\* work, and when the archive was cut off.
AccountsReady ==
    pc = "scripts" =>
        /\ \E a \in Range(passwd) : a.name = "muplar" /\ a.uid = 1000
        /\ \E g \in Range(group) : g.name = "muplar" /\ g.uid = 1000
        /\ shadow # <<>> => \E s \in Range(shadow) : s.name = "muplar" /\ s.pw = ""
        /\ \A a \in Range(passwd) : a.uid # 1000 => a.name # "muplar"

\* Provisioning settles: a complete run after one that had a shell, without a
\* change by the user in between, leaves exactly the same files.
SettledStays ==
    pc = "scripts" /\ pc' = "idle" /\ settled # <<>> /\ ~extracted => files' = settled

\* Both hold of every step.
FilesKept == [][KeepsUserFiles /\ SettledStays]_vars

=============================================================================
