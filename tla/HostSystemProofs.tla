-------------------------- MODULE HostSystemProofs --------------------------
(***************************************************************************)
(* What HostProofs shows of each component holds of the system that the    *)
(* run host_system checks.  A behaviour of MCHostSystem stays with one     *)
(* component (PartStep), and in that part it is a behaviour of the module *)
(* of that component.  H takes the theorems of HostProofs to the variables *)
(* of MCHostSystem; a lemma per component shows that the two instances of  *)
(* its module, the one of MCHostSystem and the one in H, are the same      *)
(* formulas, which takes no more than their definitions.                   *)
(***************************************************************************)
EXTENDS MCHostSystem, TLAPS

H == INSTANCE HostProofs WITH
    task <- v1, ui <- v2, screen <- v3, main <- v4, preparing <- v5, term <- v6, kills <- v7,
    clicks <- v8, raced <- v9, stale <- v10,
    sessionLauncher <- v1, starts <- v2, ready <- v3, fifo <- v4, linked <- v5, fifoLines <- v6,
    files <- v7, pidText <- v8, job <- v9, outcome <- v10, client <- v11, result <- v12,
    cancelled <- v13, killed <- v14, lostRequests <- v15,
    kind <- v1, pidf <- v2, app <- v3, served <- v4, daemon <- v5, sock <- v6, stop <- v7,
    calm <- v8,
    setupAt <- v1, msi <- v2, download <- v3, fetched <- v4, installed <- v5, single <- v6,
    host <- v1, bound <- v2, link <- v3, at <- v4, left <- v5, saw <- v6, fresh <- v7,
    memory <- v1, save <- v2, tmp <- v3, disk <- v4, alive <- v5, puts <- v6, acked <- v7,
    refused <- v8, lost <- v9, surfaces <- v10, surfaceGeneration <- v11, history <- v12,
    up <- v1, serverGen <- v2, conn <- v3, pipe <- v4, localGen <- v5, focusGen <- v6,
    subscriber <- v7, connecting <- v8, connector <- v9, tries <- v10, reader <- v11,
    taken <- v12, mainq <- v13, pendingActions <- v14, flushing <- v15, mainReady <- v16,
    tabs <- v17, activeTab <- v18, focused <- v19, launching <- v20, skewed <- v21, gaveUp <- v22,
    budget <- v23,
    text <- v1, elfuse <- v2, resolv <- v3, foot <- v4, machine <- v5, patches <- v6, passwd <- v7,
    group <- v8, shadow <- v9, shell <- v10, cache <- v11, desktop <- v12, pc <- v13, runs <- v14,
    edits <- v15, ids <- v16, extracted <- v17, settled <- v18

----
\* The part of a behaviour; a step leaves it as it is.
Is(p) == part = p
LEMMA PartStep == [Next]_vars => part' = part
<1>1. Next => part' = part
  BY DEF Next, Rest4, Rest5, Rest6, Rest7, Rest8, Rest9, Rest10, Rest11, Rest12, Rest13, Rest14,
     Rest15, Rest16, Rest17, Rest18, Rest19, Rest20, Rest21, Rest22, Rest23, Rest24
<1>2. UNCHANGED vars => part' = part  BY DEF vars
<1> QED  BY <1>1, <1>2

\* MuplardState folds a transaction with ApplyLine.  The two instances of the
\* fold are one function, which HostProofs defines as IsFold.
LEMMA FoldsAlike ==
    ASSUME NEW b, NEW l
    PROVE  H!State!FoldLeft(H!State!ApplyLine, b, l) = State!FoldLeft(State!ApplyLine, b, l)
<1>1. H!State!FoldLeft(H!State!ApplyLine, b, l) = (CHOOSE g : H!IsFold(g, b, l, DOMAIN l))[DOMAIN l]
  BY H!FoldIs
<1>2. State!FoldLeft(State!ApplyLine, b, l) = (CHOOSE g : H!IsFold(g, b, l, DOMAIN l))[DOMAIN l]
  BY DEF State!FoldLeft, State!MapThenFoldSet, H!IsFold, State!ApplyLine, H!State!ApplyLine,
     State!With, H!State!With, State!Good, H!State!Good, State!Bad, H!State!Bad, State!Surface,
     H!State!Surface, State!Max, H!State!Max
<1> QED  BY <1>1, <1>2

\* So is the operation on them.
LEMMA TransactionsAlike ==
    ASSUME NEW l
    PROVE  H!State!ApplySurfaceTransaction(l) <=> State!ApplySurfaceTransaction(l)
<1>1. PICK r : r = State!FoldLeft(State!ApplyLine, State!Good(v10), l)  OBVIOUS
<1>2. State!Good(v10) = H!State!Good(v10)  BY DEF State!Good, H!State!Good
<1>3. PICK b : b = State!Good(v10)  OBVIOUS
<1>4. r = H!State!FoldLeft(H!State!ApplyLine, H!State!Good(v10), l)
 <2>1. H!State!FoldLeft(H!State!ApplyLine, b, l) = State!FoldLeft(State!ApplyLine, b, l)
   BY FoldsAlike
 <2>2. b = State!Good(v10) /\ b = H!State!Good(v10)  BY <1>2, <1>3
 <2> QED  BY <1>1, <2>1, <2>2
<1> QED  BY <1>1, <1>4 DEF State!ApplySurfaceTransaction, H!State!ApplySurfaceTransaction,
            State!settings, H!State!settings, State!table, H!State!table, State!Idle,
            H!State!Idle, State!Unset, H!State!Unset

\* The part "session" of the system is a behaviour of LinuxSession, of which
\* H!SessionStaysSound shows what the part needs.
THEOREM SessionStaysSound == Spec => [](part = "session" => Session!TypeOK /\ Session!SessionSound)
<1>1. H!Linux!Init <=> Session!Init  BY DEF Session!Init, H!Linux!Init
<1>2. H!Linux!Next <=> Session!Next
  BY DEF Session!Launcher, H!Linux!Launcher, Session!guest, H!Linux!guest, Session!Pending,
     H!Linux!Pending, Session!LauncherStart, H!Linux!LauncherStart, Session!LauncherReady,
     H!Linux!LauncherReady, Session!TakeRequest, H!Linux!TakeRequest, Session!LauncherStops,
     H!Linux!LauncherStops, Session!InstanceDies, H!Linux!InstanceDies, Session!Step,
     H!Linux!Step, Session!Write, H!Linux!Write, Session!StartCommand, H!Linux!StartCommand,
     Session!OpenPidFile, H!Linux!OpenPidFile, Session!PublishPid, H!Linux!PublishPid,
     Session!CommandEnds, H!Linux!CommandEnds, Session!WriteStatus, H!Linux!WriteStatus,
     Session!MoveStatus, H!Linux!MoveStatus, Session!Goes, H!Linux!Goes, Session!Returns,
     H!Linux!Returns, Session!SeeReady, H!Linux!SeeReady, Session!NotReady, H!Linux!NotReady,
     Session!WriteRequest, H!Linux!WriteRequest, Session!RequestFails, H!Linux!RequestFails,
     Session!Submit, H!Linux!Submit, Session!Refused, H!Linux!Refused, Session!RemoveEndpoint,
     H!Linux!RemoveEndpoint, Session!Cancel, H!Linux!Cancel, Session!Mapped, H!Linux!Mapped,
     Session!CancelCommand, H!Linux!CancelCommand, Session!FinishCancel, H!Linux!FinishCancel,
     Session!StatusText, H!Linux!StatusText, Session!Collect, H!Linux!Collect, Session!Next,
     H!Linux!Next
<1>3. UNCHANGED vars => UNCHANGED H!Linux!vars  BY DEF vars, H!Linux!vars
<1>4. H!Linux!TypeOK /\ H!Linux!SessionSound => Session!TypeOK /\ Session!SessionSound
  BY DEF Session!Launcher, H!Linux!Launcher, Session!Names, H!Linux!Names, Session!Jobs,
     H!Linux!Jobs, Session!Stages, H!Linux!Stages, Session!TypeOK, H!Linux!TypeOK,
     Session!ExitCodeIsMine, H!Linux!ExitCodeIsMine, Session!CancelHitsOwnCommand,
     H!Linux!CancelHitsOwnCommand, Session!RequestsAccounted, H!Linux!RequestsAccounted,
     Session!SessionSound, H!Linux!SessionSound, Session!Range, H!Linux!Range
<1>5. Is("session") /\ Init => H!Linux!Init  BY <1>1 DEF Init, Is
<1>6. Is("session") /\ [Next]_vars => [H!Linux!Next]_(H!Linux!vars)  BY <1>2, <1>3 DEF Next, Is
<1>7. H!StartsCounted  BY HostAssumption DEF H!StartsCounted
<1>8. H!Linux!Spec => [](H!Linux!TypeOK /\ H!Linux!SessionSound)  BY <1>7, H!SessionStaysSound
<1>9. /\ Is("session") /\ [Next]_vars => Is("session")'
      /\ ~Is("session") /\ [Next]_vars => ~Is("session")'
  BY PartStep DEF Is
<1>10. (Is("session") => H!Linux!TypeOK /\ H!Linux!SessionSound) => (part = "session" => Session!TypeOK /\ Session!SessionSound)
  BY <1>4 DEF Is
<1> QED  BY <1>5, <1>6, <1>8, <1>9, <1>10, PTL DEF Spec, H!Linux!Spec

\* The part "display" of the system is a behaviour of DisplaySocket, of which
\* H!SocketsReachable shows what the part needs.
THEOREM DisplayStaysSound == Spec => [](part = "display" => Display!TypeOK /\ Display!SocketReachable)
<1>1. H!Display!Init <=> Display!Init
  BY DEF Display!Symlink, H!Display!Symlink, Display!PathLists, H!Display!PathLists, Display!Init,
     H!Display!Init
<1>2. H!Display!Next <=> Display!Next
  BY DEF Display!Bind, H!Display!Bind, Display!Unbind, H!Display!Unbind, Display!Path,
     H!Display!Path, Display!Goes, H!Display!Goes, Display!Returns, H!Display!Returns,
     Display!Start, H!Display!Start, Display!StatSocket, H!Display!StatSocket,
     Display!UnlinkStale, H!Display!UnlinkStale, Display!SameInode, H!Display!SameInode,
     Display!LstatLink, H!Display!LstatLink, Display!RemoveLink, H!Display!RemoveLink,
     Display!HardLink, H!Display!HardLink, Display!Killed, H!Display!Killed, Display!Next,
     H!Display!Next
<1>3. UNCHANGED vars => UNCHANGED H!Display!vars  BY DEF vars, H!Display!vars
<1>4. H!Display!TypeOK /\ H!Display!SocketReachable => Display!TypeOK /\ Display!SocketReachable
  BY DEF Display!Symlink, H!Display!Symlink, Display!Path, H!Display!Path, Display!TypeOK,
     H!Display!TypeOK, Display!InTheMiddle, H!Display!InTheMiddle, Display!SocketReachable,
     H!Display!SocketReachable
<1>5. Is("display") /\ Init => H!Display!Init  BY <1>1 DEF Init, Is
<1>6. Is("display") /\ [Next]_vars => [H!Display!Next]_(H!Display!vars)
  BY <1>2, <1>3 DEF Next, Is
<1>7. H!Bounded  BY HostAssumption DEF H!Bounded
<1>8. H!Display!Spec => [](H!Display!TypeOK /\ H!Display!SocketReachable)
  BY <1>7, H!SocketsReachable
<1>9. /\ Is("display") /\ [Next]_vars => Is("display")'
      /\ ~Is("display") /\ [Next]_vars => ~Is("display")'
  BY PartStep DEF Is
<1>10. (Is("display") => H!Display!TypeOK /\ H!Display!SocketReachable) => (part = "display" => Display!TypeOK /\ Display!SocketReachable)
  BY <1>4 DEF Is
<1> QED  BY <1>5, <1>6, <1>8, <1>9, <1>10, PTL DEF Spec, H!Display!Spec

\* The part "rootfs" of the system is a behaviour of LinuxRootfs, of which
\* H!RootfsReady shows what the part needs.
THEOREM RootfsStaysSound == Spec => [](part = "rootfs" => Rootfs!TypeOK /\ Rootfs!AccountsReady)
<1>1. H!Rootfs!Init <=> Rootfs!Init  BY DEF Rootfs!Kept, H!Rootfs!Kept, Rootfs!Init, H!Rootfs!Init
<1>2. H!Rootfs!Next <=> Rootfs!Next
  BY DEF Rootfs!files, H!Rootfs!files, Rootfs!Kept, H!Rootfs!Kept, Rootfs!Archive,
     H!Rootfs!Archive, Rootfs!Account, H!Rootfs!Account, Rootfs!Knows, H!Rootfs!Knows,
     Rootfs!OwnIds, H!Rootfs!OwnIds, Rootfs!IfMissing, H!Rootfs!IfMissing,
     Rootfs!IfMissingOrEmpty, H!Rootfs!IfMissingOrEmpty, Rootfs!Migrated, H!Rootfs!Migrated,
     Rootfs!Linked, H!Rootfs!Linked, Rootfs!Guarded, H!Rootfs!Guarded, Rootfs!LoginShell,
     H!Rootfs!LoginShell, Rootfs!Renamed, H!Rootfs!Renamed, Rootfs!RenamedShadow,
     H!Rootfs!RenamedShadow, Rootfs!FirstName, H!Rootfs!FirstName, Rootfs!OldName,
     H!Rootfs!OldName, Rootfs!HasId, H!Rootfs!HasId, Rootfs!Go, H!Rootfs!Go, Rootfs!Rest,
     H!Rootfs!Rest, Rootfs!BeginRun, H!Rootfs!BeginRun, Rootfs!WriteTexts, H!Rootfs!WriteTexts,
     Rootfs!HasUserland, H!Rootfs!HasUserland, Rootfs!UseCached, H!Rootfs!UseCached,
     Rootfs!Download, H!Rootfs!Download, Rootfs!Lines, H!Rootfs!Lines, Rootfs!Unpack,
     H!Rootfs!Unpack, Rootfs!Unpacks, H!Rootfs!Unpacks, Rootfs!Extract, H!Rootfs!Extract,
     Rootfs!ExtractDies, H!Rootfs!ExtractDies, Rootfs!Identity, H!Rootfs!Identity,
     Rootfs!RenameAccounts, H!Rootfs!RenameAccounts, Rootfs!RenameStopsShort,
     H!Rootfs!RenameStopsShort, Rootfs!AppendAccounts, H!Rootfs!AppendAccounts,
     Rootfs!WriteScripts, H!Rootfs!WriteScripts, Rootfs!RunDies, H!Rootfs!RunDies, Rootfs!Edit,
     H!Rootfs!Edit, Rootfs!UserWrites, H!Rootfs!UserWrites, Rootfs!UserChangesAccounts,
     H!Rootfs!UserChangesAccounts, Rootfs!Next, H!Rootfs!Next, Rootfs!Min, H!Rootfs!Min,
     Rootfs!Range, H!Rootfs!Range
<1>3. UNCHANGED vars => UNCHANGED H!Rootfs!vars  BY DEF vars, H!Rootfs!files, H!Rootfs!vars
<1>4. H!Rootfs!TypeOK /\ H!Rootfs!AccountsReady => Rootfs!TypeOK /\ Rootfs!AccountsReady
  BY DEF Rootfs!Kept, H!Rootfs!Kept, Rootfs!TypeOK, H!Rootfs!TypeOK, Rootfs!AccountsReady,
     H!Rootfs!AccountsReady, Rootfs!Range, H!Rootfs!Range
<1>5. Is("rootfs") /\ Init => H!Rootfs!Init  BY <1>1 DEF Init, Is
<1>6. Is("rootfs") /\ [Next]_vars => [H!Rootfs!Next]_(H!Rootfs!vars)  BY <1>2, <1>3 DEF Next, Is
<1>7. H!Rootfs!DistroFits
  BY DistroAssumption DEF H!Rootfs!DistroFits, Rootfs!Archive, H!Rootfs!Archive, Rootfs!Words,
     H!Rootfs!Words, Rootfs!Entry, H!Rootfs!Entry, Rootfs!Secret, H!Rootfs!Secret,
     Rootfs!OwnGroups, H!Rootfs!OwnGroups, Rootfs!Knows, H!Rootfs!Knows, Rootfs!DistroFits
<1>8. H!Rootfs!Spec => [](H!Rootfs!TypeOK /\ H!Rootfs!AccountsReady)  BY <1>7, H!RootfsReady
<1>9. /\ Is("rootfs") /\ [Next]_vars => Is("rootfs")'
      /\ ~Is("rootfs") /\ [Next]_vars => ~Is("rootfs")'
  BY PartStep DEF Is
<1>10. (Is("rootfs") => H!Rootfs!TypeOK /\ H!Rootfs!AccountsReady) => (part = "rootfs" => Rootfs!TypeOK /\ Rootfs!AccountsReady)
  BY <1>4 DEF Is
<1> QED  BY <1>5, <1>6, <1>8, <1>9, <1>10, PTL DEF Spec, H!Rootfs!Spec

\* The part "wine" of the system is a behaviour of WineSetup, of which
\* H!PackagesStayWhole shows what the part needs.
THEOREM WineStaysSound == Spec => [](part = "wine" => Wine!TypeOK /\ Wine!PackagesWhole)
<1>1. H!Wine!Init <=> Wine!Init  BY DEF Wine!Init, H!Wine!Init
<1>2. H!Wine!Next <=> Wine!Next
  BY DEF Wine!Goto, H!Wine!Goto, Wine!FindWineboot, H!Wine!FindWineboot, Wine!Wineboot,
     H!Wine!Wineboot, Wine!ImportFonts, H!Wine!ImportFonts, Wine!UseCached, H!Wine!UseCached,
     Wine!NoCurl, H!Wine!NoCurl, Wine!Fetching, H!Wine!Fetching, Wine!BeginFetch,
     H!Wine!BeginFetch, Wine!FetchDone, H!Wine!FetchDone, Wine!FetchFails, H!Wine!FetchFails,
     Wine!Rename, H!Wine!Rename, Wine!Install, H!Wine!Install, Wine!Dies, H!Wine!Dies,
     Wine!OrphanEnds, H!Wine!OrphanEnds, Wine!Next, H!Wine!Next
<1>3. UNCHANGED vars => UNCHANGED H!Wine!vars  BY DEF vars, H!Wine!vars
<1>4. H!Wine!TypeOK /\ H!Wine!PackagesWhole => Wine!TypeOK /\ Wine!PackagesWhole
  BY DEF Wine!Steps, H!Wine!Steps, Wine!Package, H!Wine!Package, Wine!TypeOK, H!Wine!TypeOK,
     Wine!PackagesWhole, H!Wine!PackagesWhole
<1>5. Is("wine") /\ Init => H!Wine!Init  BY <1>1 DEF Init, Is
<1>6. Is("wine") /\ [Next]_vars => [H!Wine!Next]_(H!Wine!vars)  BY <1>2, <1>3 DEF Next, Is
<1>8. H!Wine!Spec => [](H!Wine!TypeOK /\ H!Wine!PackagesWhole)  BY H!PackagesStayWhole
<1>9. /\ Is("wine") /\ [Next]_vars => Is("wine")'
      /\ ~Is("wine") /\ [Next]_vars => ~Is("wine")'
  BY PartStep DEF Is
<1>10. (Is("wine") => H!Wine!TypeOK /\ H!Wine!PackagesWhole) => (part = "wine" => Wine!TypeOK /\ Wine!PackagesWhole)
  BY <1>4 DEF Is
<1> QED  BY <1>5, <1>6, <1>8, <1>9, <1>10, PTL DEF Spec, H!Wine!Spec

\* The part "instance" of the system is a behaviour of InstanceLife, of which
\* H!InstancesStaySound shows what the part needs.
THEOREM InstanceStaysSound == Spec => [](part = "instance" => Instance!TypeOK /\ Instance!InstanceSound)
<1>1. H!Life!Init <=> Instance!Init  BY DEF Instance!None, H!Life!None, Instance!Init, H!Life!Init
<1>2. H!Life!Next <=> Instance!Next
  BY DEF Instance!None, H!Life!None, Instance!Active, H!Life!Active, Instance!Alive, H!Life!Alive,
     Instance!Crowded, H!Life!Crowded, Instance!Step, H!Life!Step, Instance!QueryState,
     H!Life!QueryState, Instance!RemoveStale, H!Life!RemoveStale, Instance!RunDirectly,
     H!Life!RunDirectly, Instance!Register, H!Life!Register, Instance!SocketIsLive,
     H!Life!SocketIsLive, Instance!EnsureMuplard, H!Life!EnsureMuplard, Instance!AwaitMuplard,
     H!Life!AwaitMuplard, Instance!DaemonBinds, H!Life!DaemonBinds, Instance!DaemonWritesPid,
     H!Life!DaemonWritesPid, Instance!DaemonExits, H!Life!DaemonExits, Instance!DaemonCrashes,
     H!Life!DaemonCrashes, Instance!Leave, H!Life!Leave, Instance!RemoveOwn, H!Life!RemoveOwn,
     Instance!Killed, H!Life!Killed, Instance!Signal, H!Life!Signal, Instance!StopBegins,
     H!Life!StopBegins, Instance!StopForced, H!Life!StopForced, Instance!StopEscalates,
     H!Life!StopEscalates, Instance!StopEnds, H!Life!StopEnds, Instance!StopMuplard,
     H!Life!StopMuplard, Instance!Next, H!Life!Next
<1>3. UNCHANGED vars => UNCHANGED H!Life!vars  BY DEF vars, H!Life!vars
<1>4. H!Life!TypeOK /\ H!Life!InstanceSound => Instance!TypeOK /\ Instance!InstanceSound
  BY DEF Instance!None, H!Life!None, Instance!Stages, H!Life!Stages, Instance!TypeOK,
     H!Life!TypeOK, Instance!Alive, H!Life!Alive, Instance!StatusTruthful, H!Life!StatusTruthful,
     Instance!OneMuplard, H!Life!OneMuplard, Instance!StoppedIsGone, H!Life!StoppedIsGone,
     Instance!InstanceSound, H!Life!InstanceSound, Instance!Cardinality, H!Life!Cardinality
<1>5. Is("instance") /\ Init => H!Life!Init  BY <1>1 DEF Init, Is
<1>6. Is("instance") /\ [Next]_vars => [H!Life!Next]_(H!Life!vars)  BY <1>2, <1>3 DEF Next, Is
<1>7. H!Pids  BY HostAssumption DEF H!Pids, H!Life!None
<1>8. H!Life!Spec => [](H!Life!TypeOK /\ H!Life!InstanceSound)  BY <1>7, H!InstancesStaySound
<1>9. /\ Is("instance") /\ [Next]_vars => Is("instance")'
      /\ ~Is("instance") /\ [Next]_vars => ~Is("instance")'
  BY PartStep DEF Is
<1>10. (Is("instance") => H!Life!TypeOK /\ H!Life!InstanceSound) => (part = "instance" => Instance!TypeOK /\ Instance!InstanceSound)
  BY <1>4 DEF Is
<1> QED  BY <1>5, <1>6, <1>8, <1>9, <1>10, PTL DEF Spec, H!Life!Spec

\* The part "state" of the system is a behaviour of MuplardState, of which
\* H!StateStaysSound shows what the part needs.
THEOREM StateStaysSound == Spec => [](part = "state" => State!TypeOK /\ State!StateSound)
<1>1. H!State!Init <=> State!Init
  BY DEF State!Unset, H!State!Unset, State!None, H!State!None, State!Idle, H!State!Idle,
     State!Empty, H!State!Empty, State!Init, H!State!Init
<1>2. H!State!Next <=> State!Next
  BY TransactionsAlike DEF State!settings, H!State!settings, State!table, H!State!table,
     State!Unset, H!State!Unset, State!Values, H!State!Values, State!None, H!State!None,
     State!Whole, H!State!Whole, State!Idle, H!State!Idle, State!Empty, H!State!Empty,
     State!PutSetting, H!State!PutSetting, State!Reply, H!State!Reply, State!WriteTemporary,
     H!State!WriteTemporary, State!Renamed, H!State!Renamed, State!RenameTemporary,
     H!State!RenameTemporary, State!RemoveOld, H!State!RemoveOld, State!RenameAgain,
     H!State!RenameAgain, State!Crash, H!State!Crash, State!Restart, H!State!Restart, State!Line,
     H!State!Line, State!Transactions, H!State!Transactions, State!Next, H!State!Next
<1>3. UNCHANGED vars => UNCHANGED H!State!vars  BY DEF vars, H!State!vars
<1>4. H!State!TypeOK /\ H!State!StateSound => State!TypeOK /\ State!StateSound
  BY DEF State!Unset, H!State!Unset, State!Values, H!State!Values, State!TypeOK, H!State!TypeOK,
     State!PermissionGranted, H!State!PermissionGranted, State!ConfirmedIsDurable,
     H!State!ConfirmedIsDurable, State!DeniedStaysDenied, H!State!DeniedStaysDenied,
     State!GenerationNamesSurfaces, H!State!GenerationNamesSurfaces, State!StateSound,
     H!State!StateSound
<1>5. Is("state") /\ Init => H!State!Init  BY <1>1 DEF Init, Is
<1>6. Is("state") /\ [Next]_vars => [H!State!Next]_(H!State!vars)  BY <1>2, <1>3 DEF Next, Is
<1>7. H!StateSizes  BY HostAssumption DEF H!StateSizes
<1>8. H!State!Spec => [](H!State!TypeOK /\ H!State!StateSound)  BY <1>7, H!StateStaysSound
<1>9. /\ Is("state") /\ [Next]_vars => Is("state")'
      /\ ~Is("state") /\ [Next]_vars => ~Is("state")'
  BY PartStep DEF Is
<1>10. (Is("state") => H!State!TypeOK /\ H!State!StateSound) => (part = "state" => State!TypeOK /\ State!StateSound)
  BY <1>4 DEF Is
<1> QED  BY <1>5, <1>6, <1>8, <1>9, <1>10, PTL DEF Spec, H!State!Spec

\* The part "device" of the system is a behaviour of DeviceChannel, of which
\* H!DeviceStaysSound shows what the part needs.
THEOREM DeviceStaysSound == Spec => [](part = "device" => Device!TypeOK /\ Device!DeviceSound)
<1>1. H!Device!Init <=> Device!Init  BY DEF Device!Init, H!Device!Init
<1>2. H!Device!Next <=> Device!Next
  BY DEF Device!server, H!Device!server, Device!stream, H!Device!stream, Device!counters,
     H!Device!counters, Device!launch, H!Device!launch, Device!threads, H!Device!threads,
     Device!screen, H!Device!screen, Device!looper, H!Device!looper, Device!Tabs, H!Device!Tabs,
     Device!Actions, H!Device!Actions, Device!Numbered, H!Device!Numbered, Device!Flush,
     H!Device!Flush, Device!Accepted, H!Device!Accepted, Device!DeviceAction,
     H!Device!DeviceAction, Device!Crash, H!Device!Crash, Device!Restart, H!Device!Restart,
     Device!Start, H!Device!Start, Device!InitSubscriber, H!Device!InitSubscriber,
     Device!TryFails, H!Device!TryFails, Device!ConnectorReturns, H!Device!ConnectorReturns,
     Device!Post, H!Device!Post, Device!ReaderTakes, H!Device!ReaderTakes, Device!ReaderPosts,
     H!Device!ReaderPosts, Device!ReaderEnds, H!Device!ReaderEnds, Device!ReaderReconnects,
     H!Device!ReaderReconnects, Device!LaunchApp, H!Device!LaunchApp, Device!LaunchDispatch,
     H!Device!LaunchDispatch, Device!Registered, H!Device!Registered, Device!RegisterActivity,
     H!Device!RegisterActivity, Device!StartActivity, H!Device!StartActivity, Device!IsReadyFor,
     H!Device!IsReadyFor, Device!IsStale, H!Device!IsStale, Device!Focuses, H!Device!Focuses,
     Device!LaunchesApp, H!Device!LaunchesApp, Device!Ends, H!Device!Ends, Device!TabAfter,
     H!Device!TabAfter, Device!Apply, H!Device!Apply, Device!RunAction, H!Device!RunAction,
     Device!RunFlush, H!Device!RunFlush, Device!ApplyFlushed, H!Device!ApplyFlushed, Device!Next,
     H!Device!Next
<1>3. UNCHANGED vars => UNCHANGED H!Device!vars  BY DEF vars, H!Device!vars
<1>4. H!Device!TypeOK /\ H!Device!DeviceSound => Device!TypeOK /\ Device!DeviceSound
  BY DEF Device!Tabs, H!Device!Tabs, Device!TypeOK, H!Device!TypeOK, Device!FocusSettles,
     H!Device!FocusSettles, Device!FrontIsThere, H!Device!FrontIsThere, Device!PushesAreNew,
     H!Device!PushesAreNew, Device!OneReader, H!Device!OneReader, Device!DeviceSound,
     H!Device!DeviceSound
<1>5. Is("device") /\ Init => H!Device!Init  BY <1>1 DEF Init, Is
<1>6. Is("device") /\ [Next]_vars => [H!Device!Next]_(H!Device!vars)  BY <1>2, <1>3 DEF Next, Is
<1>8. H!Device!Spec => [](H!Device!TypeOK /\ H!Device!DeviceSound)  BY H!DeviceStaysSound
<1>9. /\ Is("device") /\ [Next]_vars => Is("device")'
      /\ ~Is("device") /\ [Next]_vars => ~Is("device")'
  BY PartStep DEF Is
<1>10. (Is("device") => H!Device!TypeOK /\ H!Device!DeviceSound) => (part = "device" => Device!TypeOK /\ Device!DeviceSound)
  BY <1>4 DEF Is
<1> QED  BY <1>5, <1>6, <1>8, <1>9, <1>10, PTL DEF Spec, H!Device!Spec

\* The part "android" of the system is a behaviour of AndroidSession, of which
\* H!SessionTablesStaySound shows what the part needs.
THEOREM AndroidStaysSound == Spec => [](part = "android" => Android!TypeOK /\ Android!SessionTablesSound)
<1>1. H!Init <=> Android!Init
  BY DEF Android!None, H!None, Android!NoApp, H!NoApp, Android!Init, H!Init
<1>2. H!Next <=> Android!Next
  BY DEF Android!None, H!None, Android!NoApp, H!NoApp, Android!IsRunning, H!IsRunning,
     Android!Waiting, H!Waiting, Android!Unused, H!Unused, Android!Click, H!Click, Android!Post,
     H!Post, Android!StatusForApp, H!StatusForApp, Android!ShellFor, H!ShellFor, Android!Refocus,
     H!Refocus, Android!Refuse, H!Refuse, Android!NewSession, H!NewSession, Android!LaunchApp,
     H!LaunchApp, Android!Cleared, H!Cleared, Android!CloseHandler, H!CloseHandler,
     Android!Closed, H!Closed, Android!CloseWindow, H!CloseWindow, Android!StopApp, H!StopApp,
     Android!DeletePrefix, H!DeletePrefix, Android!Quit, H!Quit, Android!Goes, H!Goes,
     Android!AskCancelled, H!AskCancelled, Android!GivesUp, H!GivesUp, Android!CancelBeforeLaunch,
     H!CancelBeforeLaunch, Android!LaunchFails, H!LaunchFails, Android!LaunchTask, H!LaunchTask,
     Android!PostStarted, H!PostStarted, Android!TaskEnds, H!TaskEnds, Android!KillTimer,
     H!KillTimer, Android!TerminationHandler, H!TerminationHandler, Android!PostPrepared,
     H!PostPrepared, Android!Runs, H!Runs, Android!Subject, H!Subject, Android!Unpended,
     H!Unpended, Android!Unlaunched, H!Unlaunched, Android!RunAsk, H!RunAsk, Android!RunCancelled,
     H!RunCancelled, Android!RunFailed, H!RunFailed, Android!RunStarted, H!RunStarted,
     Android!AfterEnd, H!AfterEnd, Android!RunEnded, H!RunEnded, Android!RunPrepared,
     H!RunPrepared, Android!Next, H!Next
<1>3. UNCHANGED vars => UNCHANGED H!vars  BY DEF vars, H!vars
<1>4. H!TypeOK /\ H!SessionTablesSound => Android!TypeOK /\ Android!SessionTablesSound
  BY DEF Android!None, H!None, Android!NoApp, H!NoApp, Android!Block, H!Block, Android!TypeOK,
     H!TypeOK, Android!IsRunning, H!IsRunning, Android!Waiting, H!Waiting, Android!Cleared,
     H!Cleared, Android!Quiet, H!Quiet, Android!SessionsKnown, H!SessionsKnown,
     Android!TablesSettle, H!TablesSettle, Android!WindowTrue, H!WindowTrue,
     Android!SessionTablesSound, H!SessionTablesSound
<1>5. Is("android") /\ Init => H!Init  BY <1>1 DEF Init, Is
<1>6. Is("android") /\ [Next]_vars => [H!Next]_(H!vars)  BY <1>2, <1>3 DEF Next, Is
<1>7. H!Bounds  BY HostAssumption DEF H!Bounds
<1>8. H!Spec => [](H!TypeOK /\ H!SessionTablesSound)  BY <1>7, H!SessionTablesStaySound
<1>9. /\ Is("android") /\ [Next]_vars => Is("android")'
      /\ ~Is("android") /\ [Next]_vars => ~Is("android")'
  BY PartStep DEF Is
<1>10. (Is("android") => H!TypeOK /\ H!SessionTablesSound) => (part = "android" => Android!TypeOK /\ Android!SessionTablesSound)
  BY <1>4 DEF Is
<1> QED  BY <1>5, <1>6, <1>8, <1>9, <1>10, PTL DEF Spec, H!Spec

----
(* The properties of the run that these show. *)

\* A command run in the Linux session gives its client its own exit code, a
\* cancel ends that command and no other, and no request is lost while the
\* launcher lives.
THEOREM SessionCommandsHold == Spec => []SessionCommands
<1>1. (part = "session" => Session!TypeOK /\ Session!SessionSound) => SessionCommands
  BY DEF SessionCommands
<1> QED  BY <1>1, SessionStaysSound, PTL

\* The accounts of a Linux prefix are ones its session can log in with, also
\* after an extraction that was cut off; the display socket is the compositor's;
\* and a Wine package in the cache is whole, as long as no two downloads
\* overlapped.
THEOREM PrefixesReadyHold == Spec => []PrefixesReady
<1>1. (part = "rootfs" => Rootfs!TypeOK /\ Rootfs!AccountsReady)
      /\ (part = "display" => Display!TypeOK /\ Display!SocketReachable)
      /\ (part = "wine" => Wine!TypeOK /\ Wine!PackagesWhole) => PrefixesReady
  BY DEF PrefixesReady
<1> QED  BY <1>1, RootfsStaysSound, DisplayStaysSound, WineStaysSound, PTL

\* No step of an opening takes back what KeepsUserFiles counts as the user's,
\* and an opening after a settled one changes nothing.
THEOREM PrefixFilesKeptHold == Spec => PrefixFilesKept
<1>1. H!Rootfs!Init <=> Rootfs!Init  BY DEF Rootfs!Kept, H!Rootfs!Kept, Rootfs!Init, H!Rootfs!Init
<1>2. H!Rootfs!Next <=> Rootfs!Next
  BY DEF Rootfs!files, H!Rootfs!files, Rootfs!Kept, H!Rootfs!Kept, Rootfs!Archive,
     H!Rootfs!Archive, Rootfs!Account, H!Rootfs!Account, Rootfs!Knows, H!Rootfs!Knows,
     Rootfs!OwnIds, H!Rootfs!OwnIds, Rootfs!IfMissing, H!Rootfs!IfMissing,
     Rootfs!IfMissingOrEmpty, H!Rootfs!IfMissingOrEmpty, Rootfs!Migrated, H!Rootfs!Migrated,
     Rootfs!Linked, H!Rootfs!Linked, Rootfs!Guarded, H!Rootfs!Guarded, Rootfs!LoginShell,
     H!Rootfs!LoginShell, Rootfs!Renamed, H!Rootfs!Renamed, Rootfs!RenamedShadow,
     H!Rootfs!RenamedShadow, Rootfs!FirstName, H!Rootfs!FirstName, Rootfs!OldName,
     H!Rootfs!OldName, Rootfs!HasId, H!Rootfs!HasId, Rootfs!Go, H!Rootfs!Go, Rootfs!Rest,
     H!Rootfs!Rest, Rootfs!BeginRun, H!Rootfs!BeginRun, Rootfs!WriteTexts, H!Rootfs!WriteTexts,
     Rootfs!HasUserland, H!Rootfs!HasUserland, Rootfs!UseCached, H!Rootfs!UseCached,
     Rootfs!Download, H!Rootfs!Download, Rootfs!Lines, H!Rootfs!Lines, Rootfs!Unpack,
     H!Rootfs!Unpack, Rootfs!Unpacks, H!Rootfs!Unpacks, Rootfs!Extract, H!Rootfs!Extract,
     Rootfs!ExtractDies, H!Rootfs!ExtractDies, Rootfs!Identity, H!Rootfs!Identity,
     Rootfs!RenameAccounts, H!Rootfs!RenameAccounts, Rootfs!RenameStopsShort,
     H!Rootfs!RenameStopsShort, Rootfs!AppendAccounts, H!Rootfs!AppendAccounts,
     Rootfs!WriteScripts, H!Rootfs!WriteScripts, Rootfs!RunDies, H!Rootfs!RunDies, Rootfs!Edit,
     H!Rootfs!Edit, Rootfs!UserWrites, H!Rootfs!UserWrites, Rootfs!UserChangesAccounts,
     H!Rootfs!UserChangesAccounts, Rootfs!Next, H!Rootfs!Next, Rootfs!Min, H!Rootfs!Min,
     Rootfs!Range, H!Rootfs!Range
<1>3. UNCHANGED vars => UNCHANGED H!Rootfs!vars  BY DEF vars, H!Rootfs!files, H!Rootfs!vars
<1>4. H!Rootfs!KeepsUserFiles /\ H!Rootfs!SettledStays
      => Rootfs!KeepsUserFiles /\ Rootfs!SettledStays
  BY DEF Rootfs!files, H!Rootfs!files, Rootfs!Kept, H!Rootfs!Kept, Rootfs!OwnIds, H!Rootfs!OwnIds,
     Rootfs!FirstName, H!Rootfs!FirstName, Rootfs!OldName, H!Rootfs!OldName,
     Rootfs!KeepsUserFiles, H!Rootfs!KeepsUserFiles, Rootfs!SettledStays, H!Rootfs!SettledStays,
     Rootfs!Min, H!Rootfs!Min
<1>5. Is("rootfs") /\ Init => H!Rootfs!Init  BY <1>1 DEF Init, Is
<1>6. Is("rootfs") /\ [Next]_vars => [H!Rootfs!Next]_(H!Rootfs!vars)  BY <1>2, <1>3 DEF Next, Is
<1>7. H!Rootfs!DistroFits
  BY DistroAssumption DEF Rootfs!Archive, H!Rootfs!Archive, Rootfs!Words, H!Rootfs!Words,
     Rootfs!Entry, H!Rootfs!Entry, Rootfs!Secret, H!Rootfs!Secret, Rootfs!OwnGroups,
     H!Rootfs!OwnGroups, Rootfs!Knows, H!Rootfs!Knows, Rootfs!DistroFits, H!Rootfs!DistroFits
<1>8. H!Rootfs!Spec => H!Rootfs!FilesKept  BY <1>7, H!RootfsKeepsFiles
<1>9. /\ Is("rootfs") /\ [Next]_vars => Is("rootfs")'
      /\ ~Is("rootfs") /\ [Next]_vars => ~Is("rootfs")'
  BY PartStep DEF Is
<1>10. ASSUME Is("rootfs"), [Next]_vars,
              [H!Rootfs!KeepsUserFiles /\ H!Rootfs!SettledStays]_(H!Rootfs!vars)
       PROVE  [part = "rootfs" => Rootfs!KeepsUserFiles /\ Rootfs!SettledStays]_vars
 <2>1. CASE UNCHANGED H!Rootfs!vars
  <3>1. UNCHANGED Rest19 \/ UNCHANGED vars  BY <1>10 DEF Next, Is
  <3>2. UNCHANGED <<v1, v2, v3, v4, v5, v6, v7, v8, v9, v10, v11, v12, v13, v14, v15, v16, v17, v18>>
    BY <2>1 DEF H!Rootfs!files, H!Rootfs!vars
  <3>3. UNCHANGED Rest19 => UNCHANGED <<v19, v20, v21, v22, v23, part>>
    BY DEF Rest19, Rest20, Rest21, Rest22, Rest23, Rest24
  <3> QED  BY <3>1, <3>2, <3>3 DEF vars
 <2> QED  BY <1>4, <1>10, <2>1
<1>11. ~Is("rootfs") => [part = "rootfs" => Rootfs!KeepsUserFiles /\ Rootfs!SettledStays]_vars
  BY DEF Is
<1> QED  BY <1>5, <1>6, <1>8, <1>9, <1>10, <1>11, PTL
     DEF Spec, H!Rootfs!Spec, H!Rootfs!FilesKept, PrefixFilesKept

\* A setting that was confirmed is there after a crash and a permission that
\* was denied stays denied, unless the crash came between the removal of the
\* settings file and the second renaming; and a surface generation names one
\* set of surfaces.
THEOREM DaemonStateHolds == Spec => []DaemonState
<1>1. (part = "state" => State!TypeOK /\ State!StateSound) => DaemonState  BY DEF DaemonState
<1> QED  BY <1>1, StateStaysSound, PTL

\* Device actions are taken once, by one reader, and when all is quiet the tab
\* of the newest focus is in front unless what came after it moved another
\* there; the session process of a device is known and its window tells the
\* truth, but for the closes, the ends of the application and the launches that
\* DeviceActions excepts, and its tables are right once all has settled.
THEOREM DeviceActionsHold == Spec => []DeviceActions
<1>1. (part = "device" => Device!TypeOK /\ Device!DeviceSound)
      /\ (part = "android" => Android!TypeOK /\ Android!SessionTablesSound) => DeviceActions
  BY DEF DeviceActions
<1> QED  BY <1>1, DeviceStaysSound, AndroidStaysSound, PTL


----
\* PrefixManagerProofs shows the store and the apps of a prefix; once for two
\* apps and once for two session launchers, as MCHostSystem has them.
Apps2 == INSTANCE PrefixManagerProofs WITH
    AppKeys <- {"a", "b"}, Sessions <- 1..1,
    kind <- v1, task <- v2, running <- v3, launching <- v4, token <- v5, wait <- v6,
    timers <- v7, windows <- v8, busy <- v9, main <- v10, pidf <- v11, sess <- v12,
    held <- v13, dbus <- v14, prestart <- v15, told <- v16, quit <- v17, acts <- v18,
    odd <- v19,
    dir <- v1, named <- v2, data <- v3, registry <- v4, entries <- v5, legacy <- v6, op <- v7,
    ops <- v8, last <- v9

\* The part "store" of the system is a behaviour of PrefixStore, of which
\* Apps2!StoreStaysSound shows what the part needs.
THEOREM StoreStaysSound == Spec => [](part = "store" => Store!TypeOK /\ Store!StoreSound)
<1>1. Apps2!Store!Init <=> Store!Init
  BY DEF Store!NoRoot, Apps2!Store!NoRoot, Store!NoName, Apps2!Store!NoName, Store!Idle,
     Apps2!Store!Idle, Store!Legacy, Apps2!Store!Legacy, Store!Init, Apps2!Store!Init
<1>2. Apps2!Store!Next <=> Store!Next
  BY DEF Store!NoRoot, Apps2!Store!NoRoot, Store!NoName, Apps2!Store!NoName, Store!Idle,
     Apps2!Store!Idle, Store!Inside, Apps2!Store!Inside, Store!Parents, Apps2!Store!Parents,
     Store!Overlap, Apps2!Store!Overlap, Store!Migrated, Apps2!Store!Migrated, Store!Readable,
     Apps2!Store!Readable, Store!Registered, Apps2!Store!Registered, Store!Having,
     Apps2!Store!Having, Store!Found, Apps2!Store!Found, Store!Resolve, Apps2!Store!Resolve,
     Store!Without, Apps2!Store!Without, Store!Busy, Apps2!Store!Busy, Store!Moves,
     Apps2!Store!Moves, Store!Succeeds, Apps2!Store!Succeeds, Store!Fails, Apps2!Store!Fails,
     Store!At, Apps2!Store!At, Store!Goto, Apps2!Store!Goto, Store!Begin, Apps2!Store!Begin,
     Store!OpenPrefix, Apps2!Store!OpenPrefix, Store!OpenPrefixAtRoot,
     Apps2!Store!OpenPrefixAtRoot, Store!ClonePrefix, Apps2!Store!ClonePrefix,
     Store!ClonePrefixToRoot, Apps2!Store!ClonePrefixToRoot, Store!DeletePrefix,
     Apps2!Store!DeletePrefix, Store!MigrateTruncate, Apps2!Store!MigrateTruncate,
     Store!MigrateWrite, Apps2!Store!MigrateWrite, Store!EnsureLayout, Apps2!Store!EnsureLayout,
     Store!WriteToml, Apps2!Store!WriteToml, Store!ReadForUpdate, Apps2!Store!ReadForUpdate,
     Store!Truncate, Apps2!Store!Truncate, Store!Updated, Apps2!Store!Updated, Store!WriteEntries,
     Apps2!Store!WriteEntries, Store!RemoveAll, Apps2!Store!RemoveAll, Store!ClearDestination,
     Apps2!Store!ClearDestination, Store!Brought, Apps2!Store!Brought, Store!CopyTree,
     Apps2!Store!CopyTree, Store!CopyStops, Apps2!Store!CopyStops, Store!RemoveTree,
     Apps2!Store!RemoveTree, Store!Dies, Apps2!Store!Dies, Store!Next, Apps2!Store!Next,
     Store!Cardinality, Apps2!Store!Cardinality, Store!IsInjective, Apps2!Store!IsInjective,
     Store!Range, Apps2!Store!Range, Store!SetToSeq, Apps2!Store!SetToSeq
<1>3. UNCHANGED vars => UNCHANGED Apps2!Store!vars  BY DEF vars, Apps2!Store!vars
<1>4. Apps2!Store!TypeOK /\ Apps2!Store!StoreSound => Store!TypeOK /\ Store!StoreSound
  BY DEF Store!NoRoot, Apps2!Store!NoRoot, Store!NoName, Apps2!Store!NoName, Store!Entry,
     Apps2!Store!Entry, Store!TypeOK, Apps2!Store!TypeOK, Store!At, Apps2!Store!At,
     Store!EntriesUnique, Apps2!Store!EntriesUnique, Store!OperationsComplete,
     Apps2!Store!OperationsComplete, Store!CloneKeepsSource, Apps2!Store!CloneKeepsSource,
     Store!StoreSound, Apps2!Store!StoreSound, Store!Range, Apps2!Store!Range
<1>5. Is("store") /\ Init => Apps2!Store!Init  BY <1>1 DEF Init, Is
<1>6. Is("store") /\ [Next]_vars => [Apps2!Store!Next]_(Apps2!Store!vars)
  BY <1>2, <1>3 DEF Next, Is
<1>7. Apps2!StoreSizes  BY HostAssumption DEF Apps2!StoreSizes, Apps2!IsFiniteSet, IsFiniteSet
<1>8. Apps2!Store!Spec => [](Apps2!Store!TypeOK /\ Apps2!Store!StoreSound)
  BY <1>7, Apps2!StoreStaysSound
<1>9. /\ Is("store") /\ [Next]_vars => Is("store")'
      /\ ~Is("store") /\ [Next]_vars => ~Is("store")'
  BY PartStep DEF Is
<1>10. (Is("store") => Apps2!Store!TypeOK /\ Apps2!Store!StoreSound) => (part = "store" => Store!TypeOK /\ Store!StoreSound)
  BY <1>4 DEF Is
<1> QED  BY <1>5, <1>6, <1>8, <1>9, <1>10, PTL DEF Spec, Apps2!Store!Spec

\* The part "apps" of the system is a behaviour of AppTasks, of which
\* Apps2!TasksStaySound shows what the part needs.
THEOREM TwoAppsStaysSound == Spec => [](part = "apps" => TwoApps!TypeOK /\ TwoApps!TasksSound)
<1>1. Apps2!Init <=> TwoApps!Init
  BY DEF TwoApps!None, Apps2!None, TwoApps!session, Apps2!session, TwoApps!Idle, Apps2!Idle,
     TwoApps!Init, Apps2!Init
<1>2. Apps2!Next <=> TwoApps!Next
  BY DEF TwoApps!None, Apps2!None, TwoApps!tables, Apps2!tables, TwoApps!waiting, Apps2!waiting,
     TwoApps!session, Apps2!session, TwoApps!Idle, Apps2!Idle, TwoApps!IsLive, Apps2!IsLive,
     TwoApps!SessionLive, Apps2!SessionLive, TwoApps!Lowest, Apps2!Lowest, TwoApps!Free,
     Apps2!Free, TwoApps!Act, Apps2!Act, TwoApps!App, Apps2!App, TwoApps!Session, Apps2!Session,
     TwoApps!Status, Apps2!Status, TwoApps!Keeps, Apps2!Keeps, TwoApps!NewSessions,
     Apps2!NewSessions, TwoApps!EnsureLinuxSession, Apps2!EnsureLinuxSession, TwoApps!Prestart,
     Apps2!Prestart, TwoApps!CompositorReady, Apps2!CompositorReady, TwoApps!RunPrestart,
     Apps2!RunPrestart, TwoApps!PackagesInstalled, Apps2!PackagesInstalled, TwoApps!DbusReady,
     Apps2!DbusReady, TwoApps!SessionEnds, Apps2!SessionEnds, TwoApps!SessionHandler,
     Apps2!SessionHandler, TwoApps!WithoutSession, Apps2!WithoutSession, TwoApps!RunSessionEnded,
     Apps2!RunSessionEnded, TwoApps!OpenApp, Apps2!OpenApp, TwoApps!LaunchFails,
     Apps2!LaunchFails, TwoApps!GetSession, Apps2!GetSession, TwoApps!Unfinished,
     Apps2!Unfinished, TwoApps!Unstarted, Apps2!Unstarted, TwoApps!Started, Apps2!Started,
     TwoApps!StartLinuxTask, Apps2!StartLinuxTask, TwoApps!StartWineTask, Apps2!StartWineTask,
     TwoApps!WritePid, Apps2!WritePid, TwoApps!ShowsWindow, Apps2!ShowsWindow,
     TwoApps!WaitForWindow, Apps2!WaitForWindow, TwoApps!WineTimer, Apps2!WineTimer,
     TwoApps!AppEnds, Apps2!AppEnds, TwoApps!TerminationHandler, Apps2!TerminationHandler,
     TwoApps!MarksWithout, Apps2!MarksWithout, TwoApps!RunEnded, Apps2!RunEnded, TwoApps!StopApp,
     Apps2!StopApp, TwoApps!DeletePrefix, Apps2!DeletePrefix, TwoApps!Quit, Apps2!Quit,
     TwoApps!QuitSessions, Apps2!QuitSessions, TwoApps!QuitEnds, Apps2!QuitEnds, TwoApps!Next,
     Apps2!Next
<1>3. UNCHANGED vars => UNCHANGED Apps2!vars  BY DEF vars, Apps2!vars
<1>4. Apps2!TypeOK /\ Apps2!TasksSound => TwoApps!TypeOK /\ TwoApps!TasksSound
  BY DEF TwoApps!None, Apps2!None, TwoApps!waiting, Apps2!waiting, TwoApps!session, Apps2!session,
     TwoApps!Idle, Apps2!Idle, TwoApps!TypeOK, Apps2!TypeOK, TwoApps!IsLive, Apps2!IsLive,
     TwoApps!SessionLive, Apps2!SessionLive, TwoApps!App, Apps2!App, TwoApps!Session,
     Apps2!Session, TwoApps!AppsKnown, Apps2!AppsKnown, TwoApps!SessionsKnown,
     Apps2!SessionsKnown, TwoApps!LaunchingEnds, Apps2!LaunchingEnds, TwoApps!PidFileCleared,
     Apps2!PidFileCleared, TwoApps!TasksSound, Apps2!TasksSound
<1>5. Is("apps") /\ Init => Apps2!Init  BY <1>1 DEF Init, Is
<1>6. Is("apps") /\ [Next]_vars => [Apps2!Next]_(Apps2!vars)  BY <1>2, <1>3 DEF Next, Is
<1>7. Apps2!TaskSizes  BY HostAssumption DEF Apps2!TaskSizes
<1>8. Apps2!Spec => [](Apps2!TypeOK /\ Apps2!TasksSound)  BY <1>7, Apps2!TasksStaySound
<1>9. /\ Is("apps") /\ [Next]_vars => Is("apps")'
      /\ ~Is("apps") /\ [Next]_vars => ~Is("apps")'
  BY PartStep DEF Is
<1>10. (Is("apps") => Apps2!TypeOK /\ Apps2!TasksSound) => (part = "apps" => TwoApps!TypeOK /\ TwoApps!TasksSound)
  BY <1>4 DEF Is
<1> QED  BY <1>5, <1>6, <1>8, <1>9, <1>10, PTL DEF Spec, Apps2!Spec

Launchers2 == INSTANCE PrefixManagerProofs WITH
    AppKeys <- {"a"}, Sessions <- 1..2,
    kind <- v1, task <- v2, running <- v3, launching <- v4, token <- v5, wait <- v6,
    timers <- v7, windows <- v8, busy <- v9, main <- v10, pidf <- v11, sess <- v12,
    held <- v13, dbus <- v14, prestart <- v15, told <- v16, quit <- v17, acts <- v18,
    odd <- v19,
    dir <- v1, named <- v2, data <- v3, registry <- v4, entries <- v5, legacy <- v6, op <- v7,
    ops <- v8, last <- v9

\* The part "launcher" of the system is a behaviour of AppTasks, of which
\* Launchers2!TasksStaySound shows what the part needs.
THEOREM TwoSessionsStaysSound == Spec => [](part = "launcher" => TwoSessions!TypeOK /\ TwoSessions!TasksSound)
<1>1. Launchers2!Init <=> TwoSessions!Init
  BY DEF TwoSessions!None, Launchers2!None, TwoSessions!session, Launchers2!session,
     TwoSessions!Idle, Launchers2!Idle, TwoSessions!Init, Launchers2!Init
<1>2. Launchers2!Next <=> TwoSessions!Next
  BY DEF TwoSessions!None, Launchers2!None, TwoSessions!tables, Launchers2!tables,
     TwoSessions!waiting, Launchers2!waiting, TwoSessions!session, Launchers2!session,
     TwoSessions!Idle, Launchers2!Idle, TwoSessions!IsLive, Launchers2!IsLive,
     TwoSessions!SessionLive, Launchers2!SessionLive, TwoSessions!Lowest, Launchers2!Lowest,
     TwoSessions!Free, Launchers2!Free, TwoSessions!Act, Launchers2!Act, TwoSessions!App,
     Launchers2!App, TwoSessions!Session, Launchers2!Session, TwoSessions!Status,
     Launchers2!Status, TwoSessions!Keeps, Launchers2!Keeps, TwoSessions!NewSessions,
     Launchers2!NewSessions, TwoSessions!EnsureLinuxSession, Launchers2!EnsureLinuxSession,
     TwoSessions!Prestart, Launchers2!Prestart, TwoSessions!CompositorReady,
     Launchers2!CompositorReady, TwoSessions!RunPrestart, Launchers2!RunPrestart,
     TwoSessions!PackagesInstalled, Launchers2!PackagesInstalled, TwoSessions!DbusReady,
     Launchers2!DbusReady, TwoSessions!SessionEnds, Launchers2!SessionEnds,
     TwoSessions!SessionHandler, Launchers2!SessionHandler, TwoSessions!WithoutSession,
     Launchers2!WithoutSession, TwoSessions!RunSessionEnded, Launchers2!RunSessionEnded,
     TwoSessions!OpenApp, Launchers2!OpenApp, TwoSessions!LaunchFails, Launchers2!LaunchFails,
     TwoSessions!GetSession, Launchers2!GetSession, TwoSessions!Unfinished, Launchers2!Unfinished,
     TwoSessions!Unstarted, Launchers2!Unstarted, TwoSessions!Started, Launchers2!Started,
     TwoSessions!StartLinuxTask, Launchers2!StartLinuxTask, TwoSessions!StartWineTask,
     Launchers2!StartWineTask, TwoSessions!WritePid, Launchers2!WritePid, TwoSessions!ShowsWindow,
     Launchers2!ShowsWindow, TwoSessions!WaitForWindow, Launchers2!WaitForWindow,
     TwoSessions!WineTimer, Launchers2!WineTimer, TwoSessions!AppEnds, Launchers2!AppEnds,
     TwoSessions!TerminationHandler, Launchers2!TerminationHandler, TwoSessions!MarksWithout,
     Launchers2!MarksWithout, TwoSessions!RunEnded, Launchers2!RunEnded, TwoSessions!StopApp,
     Launchers2!StopApp, TwoSessions!DeletePrefix, Launchers2!DeletePrefix, TwoSessions!Quit,
     Launchers2!Quit, TwoSessions!QuitSessions, Launchers2!QuitSessions, TwoSessions!QuitEnds,
     Launchers2!QuitEnds, TwoSessions!Next, Launchers2!Next
<1>3. UNCHANGED vars => UNCHANGED Launchers2!vars  BY DEF vars, Launchers2!vars
<1>4. Launchers2!TypeOK /\ Launchers2!TasksSound => TwoSessions!TypeOK /\ TwoSessions!TasksSound
  BY DEF TwoSessions!None, Launchers2!None, TwoSessions!waiting, Launchers2!waiting,
     TwoSessions!session, Launchers2!session, TwoSessions!Idle, Launchers2!Idle,
     TwoSessions!TypeOK, Launchers2!TypeOK, TwoSessions!IsLive, Launchers2!IsLive,
     TwoSessions!SessionLive, Launchers2!SessionLive, TwoSessions!App, Launchers2!App,
     TwoSessions!Session, Launchers2!Session, TwoSessions!AppsKnown, Launchers2!AppsKnown,
     TwoSessions!SessionsKnown, Launchers2!SessionsKnown, TwoSessions!LaunchingEnds,
     Launchers2!LaunchingEnds, TwoSessions!PidFileCleared, Launchers2!PidFileCleared,
     TwoSessions!TasksSound, Launchers2!TasksSound
<1>5. Is("launcher") /\ Init => Launchers2!Init  BY <1>1 DEF Init, Is
<1>6. Is("launcher") /\ [Next]_vars => [Launchers2!Next]_(Launchers2!vars)
  BY <1>2, <1>3 DEF Next, Is
<1>7. Launchers2!TaskSizes  BY HostAssumption DEF Launchers2!TaskSizes
<1>8. Launchers2!Spec => [](Launchers2!TypeOK /\ Launchers2!TasksSound)
  BY <1>7, Launchers2!TasksStaySound
<1>9. /\ Is("launcher") /\ [Next]_vars => Is("launcher")'
      /\ ~Is("launcher") /\ [Next]_vars => ~Is("launcher")'
  BY PartStep DEF Is
<1>10. (Is("launcher") => Launchers2!TypeOK /\ Launchers2!TasksSound) => (part = "launcher" => TwoSessions!TypeOK /\ TwoSessions!TasksSound)
  BY <1>4 DEF Is
<1> QED  BY <1>5, <1>6, <1>8, <1>9, <1>10, PTL DEF Spec, Launchers2!Spec

\* The registry lists each prefix once and under its own name, an operation that
\* answered is done and a copy leaves its source alone unless its destination is
\* named through a link; a status answer is true of the processes, and what a
\* stop reported is gone; the manager can stop every app and session launcher it
\* has started.
THEOREM StoreAndInstancesHold == Spec => []StoreAndInstances
<1>1. (part = "store" => Store!TypeOK /\ Store!StoreSound)
      /\ (part = "instance" => Instance!TypeOK /\ Instance!InstanceSound)
      /\ (part = "apps" => TwoApps!TypeOK /\ TwoApps!TasksSound)
      /\ (part = "launcher" => TwoSessions!TypeOK /\ TwoSessions!TasksSound) => StoreAndInstances
  BY DEF StoreAndInstances
<1> QED
  BY <1>1, StoreStaysSound, InstanceStaysSound, TwoAppsStaysSound, TwoSessionsStaysSound, PTL

=============================================================================
