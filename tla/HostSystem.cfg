SPECIFICATION Spec
CONSTANTS
  Parts = {"store", "instance", "session", "display", "rootfs", "wine", "path", "manifest", "apk", "state", "device", "android",
           "apps", "launcher"}
  \* PrefixStore: two processes at the store, three directories, one in another,
  \* and a link.
  Procs = {"p1", "p2"}
  Roots = {"ra", "rb", "rin", "la"}
  Real <- MCReal
  StoreNames = {"n1", "n2"}
  DefaultRoot <- MCDefaultRoot
  Within <- MCWithin
  MaxOps = 2
  \* InstanceLife: two launches and two daemons of one prefix.
  Apps = {1, 2}
  Daemons = {4, 5}
  \* LinuxSession: two commands, a launcher that is started twice.
  SessionClients = {"c1", "c2"}
  Codes = {3}
  MaxStarts = 2
  \* DisplaySocket: two launches, two paths, one of them on another volume.
  Publishers = {"u1", "u2"}
  Paths = {"default", "xdg"}
  OtherVolume = {"xdg"}
  MaxInodes = 2
  \* LinuxRootfs: three openings of a prefix, with edits by its user in between.
  MaxRuns = 3
  MaxEdits = 2
  Distro <- MCDistro
  \* WineSetup: three set-ups at once.
  Setups = {"s1", "s2", "s3"}
  \* LaunchPath: files of the guest, beside it and of the host.
  GuestFiles = {"/bin/sh", "/system/bin/sh", "/home/x"}
  SiblingFiles = {"x"}
  HostFiles = {"/bin/sh", "sh", "nowhere"}
  PathOf <- MCPathOf
  InDir <- MCInDir
  LaunchInputs <- MCInputs
  Scripts <- MCScripts
  LoopLimit = 3
  \* ApkManifest: manifests of up to six chunks.
  Components <- MCComponents
  MainLike = {"main"}
  Bases <- MCBases
  MaxChunks = 6
  MaxTypes = 3
  \* ApkLaunch: two launches of an application that is replaced once.
  Launches = {"l1", "l2"}
  Shapes <- MCShapes
  MaxVersions = 2
  Jars <- MCJars
  \* MuplardState: two settings and two surfaces.
  Keys = {"k1", "k2"}
  SurfaceIds = {0, 1, 2}
  Layers = {1}
  MaxLines = 2
  MaxPuts = 3
  MaxChanges = 1
  \* DeviceChannel: two actions, one launch of the guest's, one restart of muplard.
  MaxActions = 2
  MaxLaunches = 1
  MaxCrashes = 1
  MaxTries = 2
  \* AndroidSession: four actions of the user on two apps; two of the tasks may overlap.
  SessionTasks = {1, 2}
  SessionApps = {"a", "b"}
  Shells = {1, 2}
  MaxClicks = 4
  \* AppTasks: two processes of the apps, one look for a window.
  AppTaskIds = {1, 2}
  MaxAttempts = 1
  MaxActs = 2
INVARIANTS
  StoreAndInstances
  SessionCommands
  PrefixesReady
  LaunchesRunWhatWasAsked
  DaemonState
  DeviceActions
PROPERTY
  PrefixFilesKept
CHECK_DEADLOCK FALSE
