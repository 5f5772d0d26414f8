---------------------------- MODULE MCHostSystem ----------------------------
(***************************************************************************)
(* The components of the host side: the prefix store, the instances in it, *)
(* the Linux session, its root file system and display socket, the set-up  *)
(* of Wine, the ways from a command line to a program, the state muplard   *)
(* keeps, the channel of device actions, and the instance manager's        *)
(* Android sessions and app tasks.  A behaviour is one of one component    *)
(* (part); AppTasks has two instances, to keep both small.  The components *)
(* share no state here, so each takes the variables it needs from v1, v2,  *)
(* ... and leaves the others at 0.  HostSystem.cfg gives the constants;    *)
(* those of the two instances of AppTasks that differ are given here.      *)
(***************************************************************************)
EXTENDS Integers, Sequences, FiniteSets, TLC

CONSTANTS
    Parts,                                                \* the components to check
    \* PrefixStore
    Procs, Roots, Real, StoreNames, DefaultRoot, Within, MaxOps,
    \* InstanceLife
    Apps, Daemons,
    \* LinuxSession
    SessionClients, Codes, MaxStarts,
    \* DisplaySocket
    Publishers, Paths, OtherVolume, MaxInodes,
    \* LinuxRootfs
    MaxRuns, MaxEdits, Distro,
    \* WineSetup
    Setups,
    \* LaunchPath
    GuestFiles, SiblingFiles, HostFiles, PathOf, InDir, LaunchInputs, Scripts, LoopLimit,
    \* ApkManifest
    Components, MainLike, Bases, MaxChunks, MaxTypes,
    \* ApkLaunch
    Launches, Shapes, MaxVersions, Jars,
    \* MuplardState
    Keys, SurfaceIds, Layers, MaxLines, MaxPuts, MaxChanges,
    \* DeviceChannel
    MaxActions, MaxLaunches, MaxCrashes, MaxTries,
    \* AndroidSession
    SessionTasks, SessionApps, Shells, MaxClicks,
    \* AppTasks, the two instances
    AppTaskIds, MaxAttempts, MaxActs

\* Launches and daemons are processes of their own, tasks, launchers and windows
\* are numbered from 1, there are finitely many paths, each leads to a
\* directory, every instance has its default one, and the bounds are numbers.
ASSUME HostAssumption ==
    /\ IsFiniteSet(Roots) /\ Real \in [Roots -> Roots]
    /\ StoreNames # {} /\ DefaultRoot \in [StoreNames -> Roots]
    /\ AppTaskIds \subseteq Nat \ {0}
    /\ MaxOps \in Nat /\ MaxAttempts \in Nat /\ MaxActs \in Nat
    /\ 0 \notin Apps \cup Daemons /\ Apps \cap Daemons = {}
    /\ SessionTasks \subseteq Nat \ {0} /\ Shells \subseteq Nat \ {0} /\ MaxClicks \in Nat
    /\ MaxStarts \in Nat /\ MaxInodes \in Nat /\ MaxLines \in Nat /\ MaxChanges \in Nat

VARIABLES part, v1, v2, v3, v4, v5, v6, v7, v8, v9, v10, v11, v12, v13, v14, v15, v16, v17,
          v18, v19, v20, v21, v22, v23

\* PrefixStore: the two default directories, a root inside the first, and a
\* link to it.
MCReal == [r \in Roots |-> IF r = "la" THEN "ra" ELSE r]
MCDefaultRoot == "n1" :> "ra" @@ "n2" :> "rb"
MCWithin == {<<"rin", "ra">>}

\* LinuxRootfs: the accounts a distribution comes with, and how much of its
\* archive may be there, in either of two orders, when tar stops early.
RootfsAccount(name, uid, gid, sh) == [name |-> name, uid |-> uid, gid |-> gid, sh |-> sh]
MCOrders == <<<<"hosts", "group", "passwd", "shadow", "profile", "resolv", "script", "shell">>,
              <<"shell", "shadow", "passwd">>>>
MCCuts == {{MCOrders[1][j] : j \in 1..k} : k \in {0, 1, 3, 4, 7}} \cup {{MCOrders[2][j] : j \in 1..k} : k \in 1..3}
MCDistro ==
    [resolv |-> "empty", patches |-> 0, cuts |-> MCCuts,
     passwd |-> <<RootfsAccount("root", 0, 0, "bash"), RootfsAccount("ubuntu", 1000, 1000, "sh")>>,
     group |-> <<RootfsAccount("ubuntu", 1000, 1000, "none")>>,
     shadow |-> <<[name |-> "root", pw |-> "set"], [name |-> "ubuntu", pw |-> "set"]>>]

\* LaunchPath: what may be launched, and the scripts on the way.
Absolute(area, path) == [form |-> "abs", at |-> <<area, path>>]
Relative(area, path) == [form |-> "rel", at |-> <<area, path>>]
Bare(name) == [form |-> "bare", at |-> name]
Script(interp, arg) == [is |-> "script", interp |-> interp, arg |-> arg]
MCPathOf == [Android |-> <<"sys", "bin">>, Linux |-> <<"bin">>]
MCInDir == [sys |-> [sh |-> "/system/bin/sh"], bin |-> [sh |-> "/bin/sh"]]
MCInputs ==
    {Absolute("host", "/bin/sh"), Absolute("root", "/bin/sh"), Absolute("sibling", "x"),
     Relative("root", "/home/x"), Relative("sibling", "x"), Bare("sh")}
MCScripts ==
    {Script(Absolute("host", "/bin/sh"), ""), Script(Bare("sh"), ""), Script(Bare("sh"), "-x"),
     Script(Relative("root", "/home/x"), "")}

\* ApkManifest: components of a manifest and the intents they declare.
MCBases == <<"game", "tool">>
MCComponents ==
    {<<"activity", "home">>, <<"activity", "main">>, <<"activity", "none">>,
     <<"activity-alias", "home">>, <<"receiver", "home">>, <<"receiver", "none">>}

\* ApkLaunch: shapes of an application, and the jars of the boot class path.
Shape(libs, dex, asked, declared, names) ==
    [libs |-> libs, dex |-> dex, asked |-> asked, declared |-> declared,
     package |-> names[1], activity |-> names[2], application |-> names[3]]
MCShapes ==
    {Shape(<<<<"", "game">>, <<"", "main">>>>, FALSE, "", "", <<"p", "a", "c">>),
     Shape(<<<<"", "game">>, <<"sub", "game">>>>, TRUE, "game", "", <<"p", "", "c">>),
     Shape(<<<<"", "game">>, <<"", "tool">>>>, TRUE, "", "tool", <<"p", "a", "">>),
     Shape(<<<<"", "a">>, <<"", "b">>>>, FALSE, "", "", <<"", "", "">>),
     Shape(<<>>, TRUE, "", "", <<"", "a", "">>)}
Jar(name, required) == [jar |-> name, required |-> required]
MCJars == <<Jar("core.jar", TRUE), Jar("okhttp.jar", FALSE), Jar("framework.jar", TRUE), Jar("services.jar", FALSE)>>

----
(* The components. *)

Store == INSTANCE PrefixStore WITH
    dir <- v1, named <- v2, data <- v3, registry <- v4, entries <- v5, legacy <- v6, op <- v7,
    ops <- v8, last <- v9

Instance == INSTANCE InstanceLife WITH
    kind <- v1, pidf <- v2, app <- v3, served <- v4, daemon <- v5, sock <- v6, stop <- v7,
    calm <- v8

Session == INSTANCE LinuxSession WITH
    launcher <- v1, starts <- v2, ready <- v3, fifo <- v4, linked <- v5, lines <- v6,
    files <- v7, pidText <- v8, job <- v9, outcome <- v10, client <- v11, result <- v12,
    cancelled <- v13, killed <- v14, lost <- v15

Display == INSTANCE DisplaySocket WITH
    host <- v1, made <- v2, link <- v3, at <- v4, left <- v5, saw <- v6, fresh <- v7

Rootfs == INSTANCE LinuxRootfs WITH
    text <- v1, elfuse <- v2, resolv <- v3, foot <- v4, machine <- v5, patches <- v6,
    passwd <- v7, group <- v8, shadow <- v9, shell <- v10, cache <- v11, desktop <- v12,
    pc <- v13, runs <- v14, edits <- v15, ids <- v16, extracted <- v17, settled <- v18

\* The archive is one of a distribution that Muplar bootstraps from.
ASSUME DistroAssumption == Rootfs!DistroFits

Wine == INSTANCE WineSetup WITH
    at <- v1, msi <- v2, tmp <- v3, fetched <- v4, installed <- v5, single <- v6

Path == INSTANCE LaunchPath WITH
    content <- v1, prefixKind <- v2, wanted <- v3, elf <- v4, guest <- v5, argv <- v6,
    loops <- v7, phase <- v8, trail <- v9

Manifest == INSTANCE ApkManifest WITH chunks <- v1, label <- v2, table <- v3

Apk == INSTANCE ApkLaunch WITH
    apkShape <- v1, nativeActivity <- v2, version <- v3, stage <- v4, seen <- v5, got <- v6,
    into <- v7, index <- v8, extracted <- v9, stagedApk <- v10, loaded <- v11, quiet <- v12

State == INSTANCE MuplardState WITH
    memory <- v1, save <- v2, tmp <- v3, disk <- v4, running <- v5, puts <- v6, acked <- v7,
    refused <- v8, lost <- v9, surfaces <- v10, generation <- v11, history <- v12

Device == INSTANCE DeviceChannel WITH
    up <- v1, serverGen <- v2, conn <- v3, pipe <- v4, localGen <- v5, focusGen <- v6,
    subscriber <- v7, connecting <- v8, connector <- v9, tries <- v10, reader <- v11,
    taken <- v12, mainq <- v13, pendingActions <- v14, flushing <- v15, mainReady <- v16,
    tabs <- v17, activeTab <- v18, focused <- v19, launching <- v20, skewed <- v21,
    gaveUp <- v22, budget <- v23

Android == INSTANCE AndroidSession WITH
    task <- v1, ui <- v2, screen <- v3, main <- v4, preparing <- v5, term <- v6, kills <- v7,
    clicks <- v8, raced <- v9, stale <- v10

\* Two apps of a prefix beside each other.
TwoApps == INSTANCE AppTasks WITH
    AppKeys <- {"a", "b"}, Sessions <- 1..1,
    kind <- v1, task <- v2, running <- v3, launching <- v4, token <- v5, wait <- v6,
    timers <- v7, windows <- v8, busy <- v9, main <- v10, pidf <- v11, sess <- v12,
    held <- v13, dbus <- v14, prestart <- v15, told <- v16, quit <- v17, acts <- v18,
    odd <- v19

\* One app, started twice, and two session launchers.
TwoSessions == INSTANCE AppTasks WITH
    AppKeys <- {"a"}, Sessions <- 1..2,
    kind <- v1, task <- v2, running <- v3, launching <- v4, token <- v5, wait <- v6,
    timers <- v7, windows <- v8, busy <- v9, main <- v10, pidf <- v11, sess <- v12,
    held <- v13, dbus <- v14, prestart <- v15, told <- v16, quit <- v17, acts <- v18,
    odd <- v19

----
\* The variables from the n-th on, for a component that has fewer.
Rest24 == part
Rest23 == <<v23, Rest24>>
Rest22 == <<v22, Rest23>>
Rest21 == <<v21, Rest22>>
Rest20 == <<v20, Rest21>>
Rest19 == <<v19, Rest20>>
Rest18 == <<v18, Rest19>>
Rest17 == <<v17, Rest18>>
Rest16 == <<v16, Rest17>>
Rest15 == <<v15, Rest16>>
Rest14 == <<v14, Rest15>>
Rest13 == <<v13, Rest14>>
Rest12 == <<v12, Rest13>>
Rest11 == <<v11, Rest12>>
Rest10 == <<v10, Rest11>>
Rest9 == <<v9, Rest10>>
Rest8 == <<v8, Rest9>>
Rest7 == <<v7, Rest8>>
Rest6 == <<v6, Rest7>>
Rest5 == <<v5, Rest6>>
Rest4 == <<v4, Rest5>>

Idle24 == TRUE
Idle23 == v23 = 0 /\ Idle24
Idle22 == v22 = 0 /\ Idle23
Idle21 == v21 = 0 /\ Idle22
Idle20 == v20 = 0 /\ Idle21
Idle19 == v19 = 0 /\ Idle20
Idle18 == v18 = 0 /\ Idle19
Idle17 == v17 = 0 /\ Idle18
Idle16 == v16 = 0 /\ Idle17
Idle15 == v15 = 0 /\ Idle16
Idle14 == v14 = 0 /\ Idle15
Idle13 == v13 = 0 /\ Idle14
Idle12 == v12 = 0 /\ Idle13
Idle11 == v11 = 0 /\ Idle12
Idle10 == v10 = 0 /\ Idle11
Idle9 == v9 = 0 /\ Idle10
Idle8 == v8 = 0 /\ Idle9
Idle7 == v7 = 0 /\ Idle8
Idle6 == v6 = 0 /\ Idle7
Idle5 == v5 = 0 /\ Idle6
Idle4 == v4 = 0 /\ Idle5

Init ==
    /\ part \in Parts
    /\ \/ part = "store" /\ Store!Init /\ Idle10
       \/ part = "instance" /\ Instance!Init /\ Idle9
       \/ part = "session" /\ Session!Init /\ Idle16
       \/ part = "display" /\ Display!Init /\ Idle8
       \/ part = "rootfs" /\ Rootfs!Init /\ Idle19
       \/ part = "wine" /\ Wine!Init /\ Idle7
       \/ part = "path" /\ Path!Init /\ Idle10
       \/ part = "manifest" /\ Manifest!Init /\ Idle4
       \/ part = "apk" /\ Apk!Init /\ Idle13
       \/ part = "state" /\ State!Init /\ Idle13
       \/ part = "device" /\ Device!Init /\ Idle24
       \/ part = "android" /\ Android!Init /\ Idle11
       \/ part = "apps" /\ TwoApps!Init /\ Idle20
       \/ part = "launcher" /\ TwoSessions!Init /\ Idle20

Next ==
    \/ part = "store" /\ Store!Next /\ UNCHANGED Rest10
    \/ part = "instance" /\ Instance!Next /\ UNCHANGED Rest9
    \/ part = "session" /\ Session!Next /\ UNCHANGED Rest16
    \/ part = "display" /\ Display!Next /\ UNCHANGED Rest8
    \/ part = "rootfs" /\ Rootfs!Next /\ UNCHANGED Rest19
    \/ part = "wine" /\ Wine!Next /\ UNCHANGED Rest7
    \/ part = "path" /\ Path!Next /\ UNCHANGED Rest10
    \/ part = "manifest" /\ Manifest!Next /\ UNCHANGED Rest4
    \/ part = "apk" /\ Apk!Next /\ UNCHANGED Rest13
    \/ part = "state" /\ State!Next /\ UNCHANGED Rest13
    \/ part = "device" /\ Device!Next /\ UNCHANGED Rest24
    \/ part = "android" /\ Android!Next /\ UNCHANGED Rest11
    \/ part = "apps" /\ TwoApps!Next /\ UNCHANGED Rest20
    \/ part = "launcher" /\ TwoSessions!Next /\ UNCHANGED Rest20

vars == <<part, v1, v2, v3, v4, v5, v6, v7, v8, v9, v10, v11, v12, v13, v14, v15, v16, v17,
          v18, v19, v20, v21, v22, v23>>
Spec == Init /\ [][Next]_vars

----
(* Properties. *)

\* The registry lists each prefix once and under its own name, an operation
\* that answered is done, a copy leaves its source alone unless its destination
\* is named through a link (PrefixStore); a
\* status answer is true of the processes, a muplard is not started beside a
\* live one, and what a stop reported is gone (InstanceLife); the manager can
\* stop every app and session launcher it has started (AppTasks).
StoreAndInstances ==
    /\ part = "store" => Store!TypeOK /\ Store!StoreSound
    /\ part = "instance" => Instance!TypeOK /\ Instance!InstanceSound
    /\ part = "apps" => TwoApps!TypeOK /\ TwoApps!TasksSound
    /\ part = "launcher" => TwoSessions!TypeOK /\ TwoSessions!TasksSound

\* A command run in the Linux session gives its client its own exit code, a
\* cancel ends that command and no other, and no request is lost while the
\* launcher lives.
SessionCommands == part = "session" => Session!TypeOK /\ Session!SessionSound

\* When a Linux prefix opens, also one whose extraction was cut off before, its
\* accounts are ones the session can log in with (LinuxRootfs); once the
\* launches are through with it its display socket is the compositor's
\* (DisplaySocket); and a Wine package in the cache is whole, whatever download
\* failed or died, as long as no two of them overlapped (WineSetup).
PrefixesReady ==
    /\ part = "rootfs" => Rootfs!TypeOK /\ Rootfs!AccountsReady
    /\ part = "display" => Display!TypeOK /\ Display!SocketReachable
    /\ part = "wine" => Wine!TypeOK /\ Wine!PackagesWhole

\* No step of an opening takes back what the user of a Linux prefix wrote in
\* the files that are the user's to change (LinuxRootfs!KeepsUserFiles names
\* them, the passwords among what is not kept), and a second opening without an
\* edit in between changes nothing.
PrefixFilesKept ==
    [][part = "rootfs" => Rootfs!KeepsUserFiles /\ Rootfs!SettledStays]_vars

\* A program is started under the name the guest asked for, through every
\* shebang (LaunchPath); the scanners find the activity that the manifest
\* launches (ApkManifest); and a launch runs the application, the libraries
\* and the class path it classified (ApkLaunch).
LaunchesRunWhatWasAsked ==
    /\ part = "path" => Path!TypeOK /\ Path!LaunchNamed
    /\ part = "manifest" => Manifest!TypeOK /\ Manifest!ManifestUnderstood
    /\ part = "apk" => Apk!TypeOK /\ Apk!LaunchSound

\* A setting that was confirmed is there after a crash and a permission that
\* was denied stays denied, unless the crash came between the removal of the
\* settings file and the second renaming; and a surface generation names one
\* set of surfaces.
DaemonState == part = "state" => State!TypeOK /\ State!StateSound

\* Device actions are taken once, by one reader, and when all is quiet the tab
\* of the newest focus is in front, unless what came after it moved another
\* there (DeviceChannel).  The manager knows the session process of a device, at
\* most one it has not told to end, as long as no window was closed nor the
\* application quit before a task had been started; its window tells the truth
\* when all has settled, unless moreover a launch was given to a session that
\* was ending; and its tables do, without such conditions (AndroidSession).
DeviceActions ==
    /\ part = "device" => Device!TypeOK /\ Device!DeviceSound
    /\ part = "android" => Android!TypeOK /\ Android!SessionTablesSound

=============================================================================
