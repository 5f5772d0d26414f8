# TLA+ models of Muplar

Muplar runs Windows, Android and Linux programs on a Mac, each in a *prefix* (an
instance directory). This directory holds TLA+ specifications of its components, TLC
configurations that check them on small instances, and TLAPS proofs of what matters most
for instances of every size. `PROJECT.json` ties every
definition to the lines it models, every run to its properties, every property
to a mutation of the code that breaks it, and every hazard to the property that
watches it.

    tlc -workers 2 -config WineGuard.cfg ServiceGuard      # a run
    tlapm ServiceGuardProofs.tla                           # the proofs

## 1. Inventory

### The parts and how they interact

| part | state it keeps | operations | talks to |
|---|---|---|---|
| **Service guards** `platform/commons/supervisor` | `pid_`, `stop_requested_`, monitor thread, crash timestamps, restart delay | `start`, `stop`, the monitor thread | the kernel (fork, kqueue, waitpid, kill), the Wayland socket |
| **SupervisorService** (same files) | `running_`, two mutexes, `poll_thread_`, the guard of each prefix, the compositor | `start`, `stop`, `restart_compositor`, `on_prefix_created`, `on_prefix_deleted`, the polling thread | guards; `dispatch_sync` to the main queue; the prefix store |
| **muplard** `android-aarch64/services` | clients, registry of binder services, pending transactions, package generation, device action and input queues, settings, surfaces | one `poll` loop, one handler per opcode | client processes over a Unix socket; the package registry and settings files |
| **muplard clients** `muplard_client.cpp`, `FrameworkServiceClient.java` | one socket | one-shot request, `binder-serve`, `subscribe-*` | muplard |
| **Device channel** `PrefixManagerApp.mm`, `FrameworkDeviceController.java` | action generation, reader thread, `connecting` flag | post an action, subscribe, apply, reconnect | muplard |
| **Instance manager** `apps/macos` | Android sessions and their tasks | launch, stop, cancel a session; create and delete prefixes | SupervisorService, muplard, the prefix store |
| **Prefix store** `commons/prefix` | prefix trees, the instance registry file | create, delete, list, register | files |
| **Guest runtime** `android_runtime.cpp`, `guest_runner.cpp` | guest threads, loopers, pipes, input queue, binder objects and their counts | the NDK and libc calls of a guest, on a scheduler of its own | the ARM64 emulator, JNI |
| **Guest linkers** `guest_runner.cpp`, `linker64` | loaded objects, their symbols, TLS, addresses | load, relocate, initialize, `dlopen`, `dlsym` | guest runtime |
| **JNI environment** `jni_bridge.cpp`, `jni_onload.cpp` | handles, names, arrays and the scratch rings for them, results of guest calls | the JNI calls of a guest, guest calls of the host | guest runtime |
| **GPU bridge, host window** `gpu_bridge.cpp`, `host_window_mac.mm` | one slot each for display, config, context, surface; stubs; the window | the EGL calls of a guest, buffer mapping | ANGLE, AppKit |
| **ART shim** `muplar_android_art_shim.c` | fixed tables of canvases, bitmaps, paints, filters, shaders; parcels; motion events; display receivers | the native halves of the framework's classes | guest ART, the frame socket and file |
| **Linux and Windows prefixes** `prefix.cpp`, the runtimes | root file system, session FIFO and files, Wine packages in a cache | open, provision, run a command in the session, set up Wine | files, guest processes |
| **Launching** `apk_envelope.cpp`, the runtimes, `cli` | an APK, what is inferred from its manifest, extracted libraries | classify, extract, stage, resolve a path, follow `#!` | prefix store, muplard |
| **Java framework shims** | class and method stubs | straight-line translation between interfaces | everything above |

The build scripts, compatibility programs, Android headers, prebuilt binaries
and vendored code are no part of the program's own logic.

### What is hard

* A guard's `stop()` runs beside its monitor thread. Both wait for the same
  child, `pid_` is published after the fork and cleared after the reap, and the
  kernel gives a reaped pid to somebody else.
* `SupervisorService` drops its lock in the middle of `start()` and of `stop()`;
  `stop()` goes through the main queue while the main thread may be waiting for
  one of the locks; lists of prefixes are read before the lock that uses them.
* muplard knows its clients by file descriptor, and descriptors are reused. A
  caller or a server may die at every point of a transaction. It has one thread
  and its `send` blocks.
* The device channel counts generations on both sides and neither persists them.
* Registry and settings files are rewritten without a lock.
* Callbacks into the guest re-enter the runtime in the middle of its operations,
  and one host thread runs all guest threads: a wake-up that is lost is lost for good.
* Handles and addresses that the guest keeps are found in tables that are full, and
  in rings that start again.
* Frames travel in parts over a socket that may time out between two of them.
* The user closes, stops and launches while the background queue starts a process.

The list, with the line where each bites, is `hazards` in `PROJECT.json`.

### What makes each part correct

| part | correct when |
|---|---|
| guard | there is at most one service, none after `stop()`; a crashing service is not restarted more often than its policy says; a crash is noticed; `stop()` returns; only the service is ever signalled |
| supervisor | a stopped supervisor has nothing running; no `std::thread` is assigned while joinable; no call hangs; guards follow the prefixes on disk |
| muplard | an answer reaches the caller that asked and no other; every transaction ends once, whoever dies; a name has one owner; subscribers miss nothing |
| device channel | every action posted to a connected controller is applied once, in order, also after a restart of muplard |
| prefix store | two concurrent changes of the registry are both there afterwards; a crash leaves a registry that can be read |
| Android session | the manager knows the process of a device; what it shows is so once all has settled |
| Linux session | a command's exit code reaches its own client; a cancel ends that command and no other |
| prefixes, launching | opening a prefix again keeps what its user changed; what runs is what was classified and asked for, also when files are replaced meanwhile |
| loaders, JNI | a reference is bound to the definition the search order gives, after the definition is relocated; a result belongs to the call that returned it |
| shim | a stored handle means what its owner stored; a reader sees whole frames and the values that were written |
| guest runtime | a binder object is destroyed once, and not while somebody holds it; no lost wake-up between guest threads and loopers |

## 2. Plan

In this order, the most important behaviour first; 1 to 10 are done.

1. `ServiceGuard`, `AbstractGuard`, their proofs.
2. `SupervisorService`, which composes guards (through what `AbstractGuard`
   promises of them, and the one thing it does not: that `stop()` returns) with the locks,
   the main queue and the prefixes on disk, and its proofs.
3. `Muplard`: connections, service registry, binder routing, package pushes; and
   `MuplardState`: settings and surfaces.
4. `GuestScheduler`: guest threads, joins, looper, pipe, frames and input of a
   NativeActivity, with liveness.
5. `DeviceChannel`, `AndroidSession`, `AppTasks`, `FrameChannel`: what connects the instance
   manager with the guest.
6. The guest's runtime: `GuestBinder`, `GuestParcel`, `GuestHeap`, `GuestAssets`,
   `JniArrays`, `JniClasses`, `DirectSo`, `GuestLinker`, `EglBridge`.
7. The ART shim: `ShimCanvas`, `ShimPaint`, `ShimParcel`, `ShimEvents`.
8. The host: `PrefixStore`, `InstanceLife`, `LinuxSession`, `LinuxRootfs`,
   `WineSetup`, `LaunchPath`, `ApkManifest`, `ApkLaunch`.
9. Proofs of the two protocols at the centre, `MuplardProofs` and `GuestSchedulerProofs`.
10. Proofs of the components of the two composed systems (`RuntimeProofs`, `HostProofs`,
   `PrefixManagerProofs`), and of the systems from them (`GuestSystemProofs`,
   `HostSystemProofs`).
11. To come. Models: the input stream of the device channel, the metadata of the device
   window's tabs, surface transactions of the shim, the order of initializers in the
   linkers. Proofs: canvases and paints.

The parts of the guest process share one run and those of the host another; what
belongs together there is checked together (section 4).

## 3. The modules

### `ServiceGuard` -- one guard and its monitor thread

`supervisor_service.cpp` 140-237, 381-521 and 594-745. The module has two kinds, as the code has two
classes: `"wine"` (`WineServerGuard`) and `"wayland"` (the process-based
`WaylandGuard`, which also waits until the socket is free, and for the socket to
come up).

State: `proc` is the kernel's process table (free, a running service, a zombie, a
foreign process), `pid`, `stopRequested` and `joinable` (of `monitor_thread_`)
are the fields, `mpc` and `mpid` the monitor's position and its local `pid`, `knote`
what kqueue has pending, `crashAges` the ages in ticks of `crash_times_`, `delay` the
restart delay, `sleepLeft` the rest of a sleep, `spc` and `spid` the position and the local `pid` of the caller in
`stop()`, `sockOwner` who listens on the Wayland socket. `spawnAges` is a history
variable: how long ago services were started.

One action per step between two points where another thread can be seen:
`MonitorTop` (the loop's test and the eviction of old crashes) to `MonitorNoteCrash`,
`Start`, `StopRequest`, and `StopLoad` to `StopJoin`. The environment's are the
service's exit and its binding of the socket, another compositor taking the socket, foreign
processes getting a free pid, and `Tick`.

What the kernel may do is a constant. `PidReuse` lets a foreign process have a
reaped pid. `AttachToExited` says what `EV_ADD` of `NOTE_EXIT` does for a child
that is already a zombie: `"delivered"` or `"lost"`. On macOS the registration fails for a
zombie and the code does not look at the result, so every run has `"lost"`; the proofs
are for both. Other failures of `kevent()` are left out.

Times are ages that stop growing one beyond the window, so the state space is
finite and no clock is bounded.

### `AbstractGuard` -- what a guard promises

Between `start()` and the return of `stop()` at most one service; none outside.
`ServiceGuard` instantiates it as `Promise` with the set of running services and
a phase computed from `joinable` and `spc`; `ImplementsAbstractGuard` is
`Promise!Spec`. `SupervisorService` takes a guard to be what this promises. That a call of
its `stop()` returns is not promised, and is not taken for granted there either.

### `SupervisorService` -- the supervisor and the threads that call it

`supervisor_service.cpp` 282-319 (the in-process compositor) and 759-943, and its
callers in `PrefixManagerApp.mm`. State: `running_`, `lifecycle_mu_`, `guards_mu_`
(their holders), `poll_thread_` and the position of its body, the set of guards,
the compositor (`off`, `on`, or `deaf`: it runs and no longer answers), position,
argument and list read of each calling thread, the prefixes on disk, and `terminated`
(`std::terminate` was called). `stuck` are the guards whose monitor waits for an exit it will
not see (`GuardSticks`, at any time): `stop_guards()`, the removal of a
guard and a polling round that meet one hold `guards_mu_` for ever (`StopsReturn`, `Hung`).
`late` and `relit` are history: which guards `on_prefix_created()` has brought up since the
last `stop_guards()`, and whether the application restarted a deaf compositor
since it was stopped.

Which thread makes which calls is the constant `Calls`; the run gives all the
calls of the application (`AppCalls`): its main thread starts, tells of created and deleted
prefixes and restarts the compositor, the block that quits stops. A step that does
`dispatch_sync` to the main queue needs the main thread to be out of every call (`OnMainQueue`).

### `Muplard` -- the Android session daemon and its clients

`muplard.cpp` 56-81, 727-814 and 910-1284, `muplard_client.cpp` 19-172. State of the kernel: the
client's end of a connection (`peer`), the two socket buffers (`up`, `down`), the
backlog and the descriptor numbers, of which `accept` takes the lowest free one.
State of the daemon: `clients` in the order of its vector, `revents` (what `poll` said
of them, looked at from the last client to the first), `services`,
`owned_services`, `pending_transactions`, `next_transaction_id`, the package
generation and the registry stamps, and `outbox`: the sends that the current handler has
still to make. A handler changes the daemon's memory in one step, since nobody
shares it, and its sends are steps of their own, since each may block or find its
peer gone. Each client is the program that the repository has for it, including its
death at any point, in the middle of a message too (`Truncated`).

A handler that answers a client and then tells others (`Broadcast`) makes its sends in the
order of the vector. One program has one connection (`MuplardAssumption`: the sets of
callers, servers and watchers are disjoint), as each of the repository's client programs
opens one socket for one purpose.

A client end never learns its descriptor and requests carry their connection's
name as payload, so an answer shows whose request it answers.

### `GuestScheduler` -- the threads of a NativeActivity

`guest_runner.cpp` (the activity's callbacks, `drain_guest_events`,
`run_host_app_loop`) and the pthread, looper, pipe, choreographer and input functions
of `android_runtime.cpp`. `ConsumeEvent` is a pair of getEvent and finishEvent, which nothing
can come between that the other actions would show. One host thread runs everything on one vCPU: `cur` is the
guest code that runs, `hpc` where the host is in a drain or in the window's loop,
`batch` what it has taken and still has to run. The guest is a `native_app_glue`
program whose choices are open: registers its pipe by ident or callback, starts a
worker or not, joins it before or after it ended, asks for frames. The script of
activity callbacks and the callbacks that are null come from `CallbackSets`; `onCreate`
is in each of them, since without `ANativeActivity_onCreate` no activity is started
(`SchedulerAssumption`). `Selected` is what is left of a vector after `remove_if` or after
a loop that skips.

### The guest process

| module | code | subject |
|---|---|---|
| `GuestBinder` | `android_runtime.cpp` | Strong and weak references, extensions, names and death links, with guest callbacks making any other call: `onDestroy` in the middle of a release (`frames` is the stack of releases), `onBinderDied` and `onUnlinked` in the middle of the loops of `retire_service()` and of the deletion of a recipient (`loops`, what each has yet to tell). A binder whose vector a callback changes while a loop walks over it is `torn`: undefined behaviour, after which its links may end in any way. |
| `GuestParcel` | `android_runtime.cpp` | Parcels as sequences of tagged values with a cursor; a transaction to a local binder (handlers nest), to muplard or to the echo. |
| `GuestHeap` | `android_runtime.cpp` | Every allocator of the bump heap, with sums that wrap at the machine's width. |
| `GuestAssets` | `android_runtime.cpp` | Assets that are open while their file is replaced. |
| `JniArrays` | `jni_bridge.cpp`, `jni_env.cpp` | Arrays, the ring their elements are copied to, commit, abort and copy-back. |
| `JniClasses` | `jni_bridge.cpp`, `jni_env.cpp`, `jni_onload.cpp` | Handles, names by guest address, natives, nested guest calls with their one result variable and pending exceptions. |
| `DirectSo` | `guest_runner.cpp` | Mapping, relocation and initializers of an APK's libraries, strict mode included. |
| `GuestLinker` | `linker64` | Depth-first loading, static TLS, relocation, `dlopen`, `dlsym`, a table that fills up. |
| `PackedRelocs` | `linker64`, `guest_runner.cpp` | The decoders of packed relocations, RELR and Android's groups, against what the packer meant. |
| `StubTable` | `gpu_bridge.cpp`, `android_runtime.cpp` | Numbers and stubs of procedures and missing imports, `dlopen`, `dlsym`, `dlclose`. |
| `GuestCxx` | `android_runtime.cpp` | The guards of static variables and the counters of shared pointers, used by several threads. |
| `EglBridge` | `gpu_bridge.cpp` | The slots behind the EGL constants, the stubs given out by name, mapped buffers, the host window. |
| `ShimCanvas` | `muplar_android_art_shim.c` | Tables of bitmaps and canvases with eviction, save stack, matrix, clip and what the drawing calls store. |
| `ShimPaint` | the same | Paints in reused slots, filters, the ring of shaders. |
| `ShimParcel` | the same | The buffer of a `Parcel`: alignment, growth, position, size, binders by index. |
| `ShimEvents` | the same | Recycled motion events; a display receiver and its vsync. |
| `FrameChannel` | the same, `AndroidDeviceShell.mm`, `host_window_mac.mm` | Frames in parts over socket and file, time-outs in the middle, reconnection, the two readers. |

### The host

| module | code | subject |
|---|---|---|
| `PrefixStore` | `prefix.cpp` | Open, clone, delete and migrate as sequences of file system steps of several processes; the registry file is read, truncated, written, that of the migration too. `Real` leads from a path to its directory, through links that the comparison in `clone_prefix_into()` resolves on one side only. |
| `InstanceLife` | `prefix.cpp`, `main.cpp`, `android_aarch64_runtime.cpp` | The PID file, status, start and stop of instances, and the muplard a launch starts. |
| `LinuxSession` | `main.cpp`, `prefix.cpp` with the launcher script it generates | Commands through the FIFO, pid, status and cancel files; launcher and instance may end. |
| `LinuxRootfs` | `prefix.cpp` | Provisioning again and again of a system its user edits; accounts, passwords, hosts, patches; the bootstrap archive, which may be cut off anywhere and which `tar` unpacks in place, one file after the other, until the run dies or the archive ends. |
| `DisplaySocket` | `prefix.cpp` | Launches that link the compositor's socket into a prefix at the same time, step by step, while the compositor comes and goes. |
| `WineSetup` | `prefix.cpp` | Wineboot, fonts, and a package cache shared by set-ups that fail and die. |
| `LaunchPath` | both ARM64 runtimes | From an argument to a host file, a guest name, and through `#!` lines. |
| `ApkManifest` | `apk_envelope.cpp` | Two scanners of the manifest against what a manifest means. |
| `ApkLaunch` | `apk_envelope.cpp`, `art_bootstrap.cpp` | Classification, extraction, staging and class path of a file that may be replaced meanwhile. |
| `MuplardState` | `muplard.cpp` | Settings with the steps of their save and a crash between any two; surface transactions. |
| `DeviceChannel` | `muplard.cpp`, `FrameworkDeviceController.java` | Generations, subscription, reader and connect thread, pending actions, a restart of muplard, and the tab in front, which actions and the guest's own activities change. |
| `AndroidSession` | `PrefixManagerApp.mm` | The tables of a device's session, changed by the user's clicks and by the blocks of the background queue and of termination handlers, in the order of the main queue. |
| `AppTasks` | `PrefixManagerApp.mm` | Linux and Windows apps of a prefix: their tasks, the wait for a window, the PID file, the session launcher that is started early and replaced, delete and quit. |

`MCGuestSystem` and `MCHostSystem` put the components of a side into one
specification. `part` says whose behaviour it is; the components do not share state, so the
variables `v1`, `v2`, ... are bound to those of the component by its `INSTANCE`.
`AppTasks` has two instances there, one about its apps and one about the session launcher.
Both modules are parametric: `GuestSystem.cfg` and `HostSystem.cfg` give the sizes, and
`GuestAssumption`, `HostAssumption` and `DistroAssumption` say what the proofs need of them,
which TLC checks of the sizes it runs.
Where components interact, the interface is inside the module that needs it:
`InstanceLife` has the daemon that launches start, `DeviceChannel` has muplard's
half of its protocol, `FrameChannel` both of its readers.

## 4. The runs

| run | specification | what it shows |
|---|---|---|
| `wine_guard` | `ServiceGuard`, fair | `NoOrphanService`: a service that runs has a monitor that owns it. `SpawnRateBounded`: never more than `max_crashes_in_window` services are started within a window. `ImplementsAbstractGuard`. `ExitIsHandled`: an exit that the monitor was watching for is noticed and answered. `StopReturnsWhenWatched`: `stop()` returns if the monitor is watching the child that `stop()` signals. |
| `wayland_guard` | `ServiceGuard` | `ImplementsAbstractGuard` with the socket, an external compositor and reused pids. |
| `guard_exit_lost` | fair, refuted | `EveryExitIsHandled`. A service that exits before the monitor has registered for its exit is not restarted: the registration fails, and the monitor waits for ever. |
| `guard_stop_hangs` | fair, refuted | `StopAlwaysReturns`. A `stop()` between the fork and `pid_.store` sees no pid, signals nobody, and joins a monitor that nothing wakes. |
| `supervisor` | `SupervisorService`, fair | With the application's threads and all their calls: `poll_thread_` is not overwritten; a stopped supervisor is clean but for what `on_prefix_created()` and `restart_compositor()` brought up in or after the stop (`late`, `relit`); every call completes, and the guards converge to the prefixes on disk in spite of stale lists, unless a guard that cannot be stopped is being stopped (`Hung`). |
| `muplard_binder` | `Muplard` | `NoStaleDescriptor`, `AnswersAreMine`, `RegistrationHolds`, `TransactionConserved` with everybody dying at any point. |
| `muplard_live` | `Muplard`, fair | `PushesAreContiguous`, `RequestsEnd`, `WatchersCatchUp`. |
| `guest_scheduler` | `GuestScheduler`, fair | `NoLostWakeup`: a parked thread has nothing to wake for. `JoinDelivers`. `DeliveredInOrder`: no event is skipped or offered twice, frame times grow. `DestroySeen`: the app thread reads every command. `InputServed`, `AppEnds`: input is offered in the end, and a bounded app comes to its end. |
| `guest_close_window` | fair, refuted | `CloseEndsApp`: a closed window is opened again by the next collection of input or frame. |
| `guest_system` | `MCGuestSystem` | `BindersAndParcels`, `JniEnvironment`, `Loaders` (packed relocations too), `GuestResources` (heap, assets, EGL, stubs, C++ runtime), `Drawing` (canvases, paints), `ShimChannels` (parcels, events, frames). |
| `host_system` | `MCHostSystem` | `StoreAndInstances` (store, instances, the manager's apps), `SessionCommands`, `PrefixesReady` (root file system, display socket, Wine), `PrefixFilesKept` (an action property), `LaunchesRunWhatWasAsked`, `DaemonState`, `DeviceActions` (channel and session). |
| `device_reconnect` | `DeviceChannel`, fair, refuted | `Reconnects`: a stream that ends while the flag of the connect thread is set is not opened again. |

In the two composed runs a property is a conjunction over the components of a
group; each conjunct is the `...Sound` formula (and `TypeOK`) of one module, stated and
explained there. `PROJECT.json` lists a mutant for nearly every one of these components,
not only one per property.

Many of the properties of the host hold *unless* something happened: two
processes at the store at once, a window closed before its task had started. Such a
history variable marks exactly the overlap that the code does not handle. The property says
nothing of what happens then, the model still does it, and section 6 tells it:

| variable | module | set by |
|---|---|---|
| `alone` | `PrefixStore` | another operation was under way at the same time |
| `calm` | `InstanceLife` | two launches, or a launch and a stop, overlapped |
| `single` | `WineSetup` | two downloads into one temporary name overlapped |
| `lost` | `MuplardState` | the daemon ended between `remove()` and the second `rename()` of a save, or that rename failed |
| `raced` | `AndroidSession` | a window was closed, or the application quit, while a task waited to be started |
| `stale` | `AndroidSession` | a launch was given to a session that was told to end |
| `odd` | `AppTasks` | an app was started again before it ran, ended before its PID file was written, or a session started during quitting |
| `skewed`, `focused.kept` | `DeviceChannel` | `launchApp()` or a restart of muplard made both sides number differently; an activity that registered, was started or ended changed the tab in front |
| `torn` | `GuestBinder` | a callback changed the vector its loop walks over |
| `lost` | `LinuxSession` | the launcher was started anew or stopped with a request in the FIFO |
| `late`, `relit` | `SupervisorService` | see section 3 |

### Bounds

* *Guards.* Two pids: one child and one process that takes or keeps the other number;
  a guard has at most one child (proved), so a third pid adds only foreign
  processes. `MaxCrashes = 2` and `Window = 3` let the limit be reached, run out,
  and be reached again; delays of 0 to 2 ticks are on both sides of a crash's
  ageing. The safety part is proved for all values.
* *Supervisor.* Two prefixes (one can stay while the other changes), the
  application's two threads. `MaxEdits = 1` bounds the changes of the disk: one between a
  list and its use, which any of the initial sets of prefixes lets be a creation or a
  deletion. The safety part is proved for every number of threads and prefixes.
* *muplard, safety.* Two callers and two servers that compete for one name: a
  descriptor freed by any of them is taken by another while the first one's
  transaction is pending. One-message buffers make every send block that can. The
  name is a builtin one, so the three values of a registry entry occur. The safety part is
  proved for every number of programs, names and rewrites and every buffer.
* *muplard, liveness.* One of each, without symmetry. One change of the registry
  during every phase of a subscription; with two changes (`MaxStamp = 2`, 855,211
  states, three minutes) the same properties hold.
* *Guest scheduler.* `MaxDrainRounds = 3` instead of the code's budget: enough for a
  drain that starts threads, one that resumes them and one that finds the budget used up.
  `QueueLimit = 2` lets the queue be cleared with and without events left; three events
  and two frames. Two sets of callbacks, the full set of a glue program and a sparse one. The
  safety part is proved for every budget of two rounds or more, queue limit and number of
  events and frames.
* *Composed runs.* The sizes of each component are in `GuestSystem.cfg` and
  `HostSystem.cfg`, with a comment. The rule was two of everything that can be confused
  (two processes, two transactions, two tasks, two paints in as many slots as make one be
  reused), one more than a table or ring holds, and one crash or restart where another
  repeats the first. Most sequences of calls are bounded by a counter
  (`MaxOps`, `MaxClicks`, ...), chosen so that every action of the component fires and
  every mutant is found with a step to spare.

Deadlock is checked in the runs of the guards, the supervisor and the scheduler. It is
not in the others: once every program has ended, or the bound on calls is reached,
nothing is left to happen.

### Fairness

* `ServiceGuard`: weak fairness of the monitor thread, of the thread in `stop()`,
  of time, and of the death of a process that got SIGKILL. Nothing makes a service
  exit by itself or obey SIGTERM, and nobody has to call `stop()`.
* `SupervisorService`: weak fairness of the polling thread's steps, strong where it
  takes `guards_mu_`. Strong fairness of each calling thread's steps, because a mutex and the main queue are
  free again and again and the waiter gets its turn (the queue is first-in
  first-out). Strong fairness of the application's callback for a prefix it has
  created. No fairness of calls.
* `Muplard`: weak fairness of the daemon's loop, which has no other thread to wait
  for, and of each client program's next step. Nobody has to connect or to die, and
  a program that was killed does nothing more.
* `GuestScheduler`: weak fairness of the one host thread (host code or the guest code
  it runs) and of the deadline of a bounded loop. Nothing is
  expected of the user. Guest routines return: one that computes for ever stops its
  own application, and nothing else runs on its thread.
* `DeviceChannel` (for the refuted run): weak fairness of each thread's next step, of
  the main looper, and of muplard being started again.

## 5. The proofs

Fifty-two theorems are listed in `PROJECT.json`. Their hypotheses are assumptions on the
constants and nothing else: sizes and bounds are natural numbers, sets that must differ
do (`GuardAssumption`, `SupervisorAssumption`, `MuplardAssumption`, `SchedulerAssumption`
and, for the composed systems, `GuestAssumption`, `HostAssumption`, `DistroAssumption`,
stated in the modules that declare the constants and evaluated by TLC in every run). In
`RuntimeProofs`, `HostProofs` and `PrefixManagerProofs`, where many components share one
module, each has the part it needs under a name of its own (`Bounds`, `Ranges`, `EglSizes`,
`ArenaFits`, `DistroFits`, ...). No property in the cfgs is inductive; each theorem has
its invariant, and a lemma per action that the action keeps it.

**`ServiceGuardProofs`, the guard.** `NoOrphanService` and the mapping to `AbstractGuard` do
not say where the monitor is. `IInv` adds
`ChildIsHeld` (a running service is the monitor's current `mpid`, and the monitor is
between the fork and the reap) and `ThreadsOK` (a thread that is not joinable
does not run; threads that use a pid have one).

* `TypeCorrect`, `NoOrphans`: from `IInv`, one case per action.
* `SpawnRate`: `RateInv` says that the crash ages are sorted, that every spawn in
  the window but the one of the current child has a crash counted no later than it
  (`SpawnsAreCounted`), and that the monitor passes its test only below the limit
  (`BelowLimit`). The eviction of old crashes removes a suffix of a sorted
  sequence, so what remains in the window is what the test counts. It holds across
  `stop()` and `start()`.
* `Implementation`: `Spec => Promise!Spec`. Every action is a step of the abstract guard
  or leaves its two variables alone (`QuietStep`, `SignalKeepsServices`,
  `WaitKeepsServices`); the return of `stop()` is `Stopped` because of `ChildIsHeld`.

**`ServiceGuardProofs`, the supervisor.**

* `SupervisorTypeCorrect`: with `ArgIsPrefix`.
* `PollThreadSafe`: if one thread makes all the `start()` calls (`OneStarter`, as in the
  application), however many stop, `poll_thread_` is never assigned while joinable.
  Inductive with `NoPollWhileStarting`. Without the assumption it is false (section 6).
* `StopLeavesNothing`: `StoppedIsClean`, for any number of threads and whatever they call,
  `on_prefix_created()` and `restart_compositor()` included. Inductive with
  `SomebodyCleans`: whatever is left when `running_` is false was brought up by one of these
  two since it was stopped, or has a call under way that will take it down.

**`MuplardProofs`.** All six safety properties, for any number of programs, names and
rewrites and any socket buffer (`MuplardAssumption`). None of them is inductive. That no
table names a descriptor of a dead connection says nothing of the message that is about to
put one there, and that an answer is the caller's own depends on every hop before it.
The inductive invariant has two layers:

* `Base`: types (`Carried`, `Shape`); the vector of clients lists exactly the connections
  with a descriptor, each once (`Accepted`); the daemon's memory is gone when it has ended
  (`Stopped`); each client program is at a stage that agrees with its connection, and what
  it has sent is what such a program sends (`Peers`); the registry and the pending
  transactions name live connections (`Registered`). From it: `DescriptorsAreCurrent`,
  `TypeCorrect`.
* `Conversations`, on top of it: what is still to be sent fits the program at its receiver
  (`Addressed`); a server's acknowledgement comes before its first forward
  (`ServersInOrder`), and "1" means the name is its own (`Confirmed`); a pending entry, a
  forward and an answer carry the transaction of the caller whose descriptor they name
  (`Routed`); a caller's transaction is in one place (`CallersInOrder`); a watcher has been
  told the generations up to the one that is on its way (`WatchersInOrder`, `Pushed`).
  From it: `CallersGetTheirAnswers`, `ConfirmedNamesHold`, `TransactionsAreConserved`,
  `PushesCountUp`.

The descriptor numbers are `1..Cardinality(Conns)`, and the proof that `accept` finds a free
one is a counting argument (as many clients as descriptors would be all of them).

**`GuestSchedulerProofs`.** All five safety properties, for any callbacks, any budget of
two rounds or more (the code has 64), and any number of events and frames
(`SchedulerAssumption`). The invariant `IInv` is a conjunction of

* `Shape`: types, and for every position of the host what it can have taken and whose code
  can be on the vCPU;
* `Joins`, `Offers`, `FramesAscend`: nearly the properties `JoinDelivers` and
  `DeliveredInOrder` themselves; frame times ascend from what was shown through the batch
  being run to the queue and to the time of the next one;
* `AppLife`: where the app thread can be -- created by `onCreate`, started in the first
  round of its drain, the worker in the second, in `guest_threads` whenever it is parked;
* `Armed`: what has something to read is armed, has its callback queued, or is in the hands
  of the app thread. `NoLostWakeup` speaks of a parked thread only; between the poll that
  returns a descriptor and the read, the thread itself is the one that holds the wakeup;
* `LastCommand`: nothing is written after destroy, and the thread ends only after it has
  read it;
* `Ending`: in the drain of `onDestroy` a guest that reads by ident has ended, or is still to
  be resumed, or is being resumed. Once resumed it cannot park again: `Armed` and a pipe that
  is not empty leave something to deliver. The one resume of the drain is enough because no
  thread is new at that stage (`AppLife`), which is what would skip it.

**`RuntimeProofs`: the guest process.** For each component its `TypeOK` and its `...Sound`
formula, the conjunct of the composed run.

* `BindersStaySound` (and `BinderTypes`), for any handles, names and recipients and any
  nesting of callbacks. Between giving up a reference and the count going down there is a
  release; `Sound` is therefore stated of any table, stack of releases and handles, with one
  reference that is still *owed*: `decStrong`, `setExtension` and the return of `onDestroy`
  each lead to a table that owes one (`DecOwes`, `SetExtensionOwes`, `EraseOwes`), and
  `release_binder_strong()` settles it (`ReleaseSettles`). That the binders on their way
  out are as many as the releases pending on the stack is a counting argument
  (`PendingCount`). `LoopsSound` and `EndsFit` are about the loops over death links: what a
  loop has yet to tell is still linked, unless the binder is torn, and a binder is retired
  by one loop at a time.
* `StubTableSound`: numbers are those their counter gave out (`NumbersCounted`).
  `EglStaysSound`: the slots hold handles that were made, no handle twice (`SlotsInv`);
  mappings lie one behind the other below the top (`MapsInv`). `AssetsStaySnapshots`: what
  the runtime has of an open asset is what the guest knows of it. `BlocksStayKept`: blocks in
  order below the bump pointer, each with what its owner expects (`BlockInv`); the sums that
  wrap are refused because the arena and its roundings are below the width (`ArenaFits`).
* `EventsStaySound`: two events never share a record, a waiting receiver has its callback
  posted. `ParcelsReadBack`: a value whose bytes were not touched since is whole where it
  begins (`Whole`), a sum over 4-byte words.
* `FramesStaySound`: what the reader has and what travels on its connection continue one
  another, up to the part the writer is at (`FirstFits`, `LastFits` of `FrameInv`).
* `ParcelsStaySound`, `ArraysStaySound`, `ClassesStaySound`: the cursor of each side against
  what the other has put (`TransactInv`); every pointer to the ring with the distance to
  the place the ring is at, so that one block is never behind two pointers that are intact
  (`ArrayInv`); the stack of guest calls with what the last call nested in each gave (`ClassInv`).

**`HostProofs`, `PrefixManagerProofs`: the host.**

* `SessionTablesStaySound`: every process of the Android session is in hand -- in the
  tables, told to end, or subject of a block of the main queue that will do either
  (`TablesOwed`, `InHand`, `OfWindow`); each block finds the task it is about where it was
  when it was posted (`Blocks`).
* `SessionStaysSound`: one invariant per client of the Linux session, its files, its line and
  its job (`ClientInv`), with `LinesOnce`.
* `InstancesStaySound`, `PackagesStayWhole`: the invariants under `calm` and `single`, which
  say that only one process is at work. `SocketsReachable`: what a launch saw is older than
  the link it makes (`SawBeforeLink`).
* `StateStaysSound`: the temporary file is the memory of a save under way, and every
  generation of surfaces is in a history (`HistoryComplete`). That a transaction adds all
  its lines or none is an induction along the fold over its lines, made with the least line
  at which it fails to hold, since there is always a least number.
* `DeviceStaysSound`: `ThreadsInv` for reader and subscriber, `StreamInv` for the numbers on
  the stream while both sides count alike, `FocusInv`: the newest focus is applied or is
  on its way through the queues (`OnItsWay`), and none of them has a newer one; `FrontInv`
  for the tabs.
* `RootfsReady`, `RootfsKeepsFiles`: `RootfsInv` says what each stage of a run has done by
  the time a later one works (`StagesDone`), where the guest's own account is in the
  account files through the renaming and the lines appended (`Entries`), and what is
  true of files that the last run left (`SettledInv`). `DistroFits` is what is assumed of
  the archive: it has no account `muplar`, and its group 1000 is that of the user 1000; cut
  off, it leaves any of the sets of files that `cuts` lists.
* `StoreStaysSound`: each operation of the store is at a step that fits its kind (`Step`),
  what it has read of the registry is a registry (`Known`), and one that nobody disturbed
  finds the files as its steps so far left them (`Fits`). `TasksStaySound`: `AppInv`, task by
  task and mark by mark, with `odd`.

**`GuestSystemProofs`, `HostSystemProofs`: the systems.** A behaviour of the composed
system stays with one component (`PartStep`), and in that part it is a behaviour of the
component's module over `v1`, `v2`, .... The proof module above is instantiated with those
variables (`H == INSTANCE RuntimeProofs WITH ...`), and for each component a lemma shows that its
formulas and those of the instance are the same definitions. From these:
`BindersAndParcels`, `JniEnvironment`, `GuestResources`, `ShimChannels`, `StoreAndInstances`,
`SessionCommands`, `PrefixesReady`, `PrefixFilesKept`, `DaemonState` and `DeviceActions`, each as
the run checks it. `CxxRuntimeSound` is proved of the system directly.

**Only model-checked.** All liveness properties (the prover has no rule for fairness
that it can apply here, and none for `ENABLED`): `ExitIsHandled`,
`StopReturnsWhenWatched`, `CallsComplete`, `GuardsFollowPrefixes`, `RequestsEnd`,
`WatchersCatchUp`, `InputServed`, `AppEnds`. Of the composed runs, `Loaders`
(`DirectSo`, `GuestLinker`, `PackedRelocs`) and `LaunchesRunWhatWasAsked` (`LaunchPath`,
`ApkManifest`, `ApkLaunch`), which rest on folds and recursive functions over sequences, whose
value for every input needs an induction with an operator as parameter; and `Drawing`
(`ShimCanvas`, `ShimPaint`).

## 6. Observations

What the refuted runs show is under `findings` in `PROJECT.json`. Modelling the code
showed more. Where a property has a history variable, this is what it excludes.

**Guards and supervisor.**

* `stop()` keeps the pid it loaded for three seconds (`supervisor_service.cpp:663`); with
  `PidReuse` it may signal a stranger who got the number of a reaped child.
* Two threads that start overwrite a joinable `poll_thread_` (cpp:811), which ends the
  process; the header (line 19) says "safe to call from any thread".
* `on_prefix_created()` in or after `stop()` starts a guard nobody stops (cpp:867), and the
  application calls it so when it quits while a prefix is being created (`late`); a
  `start()` in the unlocked half of `stop()` leaves a running supervisor without a
  compositor (cpp:843). `restart_compositor()` of one that is deaf brings it up whether
  the supervisor runs or not (`relit`).
* The `stop()` of a guard that hangs (`guard_stop_hangs`) holds `guards_mu_` (cpp:850, 882,
  928): from then on the polling thread, `stop()` of the supervisor, and with it the main
  thread may wait for ever. `CallsComplete` and `GuardsFollowPrefixes` except this (`Hung`).
* With the default policy the compositor's restart delay starts at zero and
  `apply_backoff` multiplies it (cpp:414), so it never grows. `poll_for_socket()`
  (cpp:469) accepts any compositor on the path.
* The main thread may block in `start()` at its second lock of `lifecycle_mu_`
  (cpp:806); the header (240-242) says it does not. It always gets it in the end
  (`CallsComplete`).

**muplard and the device channel.**

* A builtin service name whose registered owner leaves becomes unknown instead of
  declared (`muplard.cpp:1258`).
* With more transactions in flight to one server than two socket buffers hold, the
  daemon blocks in its send to the server and the server in its answer to the
  daemon (`muplard.cpp:75`). `RequestsEnd` holds in `muplard_live` because one
  caller cannot fill the buffers.
* `POLLHUP` is looked at before `POLLIN`: the answer of a server that answers and
  exits at once is discarded and the caller gets `DEAD_OBJECT`. `TransactionConserved`
  counts this as an answer.
* A setting whose save failed stays in memory and is persisted by the next save
  (`muplard.cpp:1060`). When the first rename fails, the old file is removed before the
  second (273): a crash between the two, or a second failure, loses all settings (`lost`),
  confirmed ones and denied permissions too.
* `launchApp()`'s own numbering, or a restart of muplard, makes later pushes look seen:
  they are dropped. The state in the subscription's acknowledgement is ignored.
  Actions other than a focus may be applied out of order after a flush. An activity that
  registers brings its tab to the front (`FrameworkDeviceController.java:228`), so the tab in
  front need not be that of the newest focus.

**Instance manager.**

* Closing the device window while its task waits on the background queue clears the
  cancel mark that the same handler has just set (`PrefixManagerApp.mm:5178`): the
  task starts without a window, and with the next launch two sessions run. The check of
  that mark before the launch is only ever true when two tasks exist.
* A launch given to a session that was told to stop is taken as a refocus of it; the
  new window says "Android is running." for good when the session ends, since the
  termination handler tells only the window of the task (line 5024).
* The block of an ended Linux or Windows app clears the entries of its key without a
  look at whose they are (lines 4697-4699, 5616-5617; the Android path compares): an app that was
  started again before it ran is lost to the table, to Stop and to quitting.
* A task that ends before its PID file is written leaves the file behind (line 4708). The
  handler of one app removes the file of another.
* A session that was started with D-Bus and has not written its address yet is replaced
  by the next launch (line 3587), with the commands in it.
* `prestartLinuxSessionIfNeeded()` keeps a pointer into `_prefixes` over up to five seconds;
  a reload of the list in between leaves it dangling (line 3558; not modelled). Its session may
  start after quitting has set the others aside.
* A sender that ends its socket and the reader of frames may both close the client's
  descriptor (`AndroidDeviceShell.mm`); pointer events are sent by concurrent blocks.

**Guest scheduler.**

* With a host window and a pipe registered by ident, the app thread is resumed only by
  a tick that found input or callbacks. A pipe registered with a callback gives one
  command per drain, so commands may be left at destroy; `DestroySeen` is about ident.

**Guest runtime.**

* A service lookup returns a local binder's handle without counting a reference. A
  failed delivery by muplard marks a binder dead and tells no recipient. `retire_service()`
  calls `onBinderDied` and `onUnlinked` while it walks over a vector and clears it
  afterwards (`android_runtime.cpp:3354`); an `unlinkToDeath` or `linkToDeath` of that binder
  in a callback changes the vector under the loop (`torn`), gives `onUnlinked` twice or loses
  a link. A weak promotion during `onDestroy` revives the binder.
* `AndroidRuntime` shadows `heap_base_` and `heap_bump_` of the bridge, so the heap
  begins at address 0. Products and roundings of sizes wrap. `realloc(NULL, n)` copies from 0.
* Scratch rings of JNI wrap over outstanding pointers. A guest call that stops without
  reaching its sentinel returns the result of the last nested one. Handles are never freed.
* `linker64` gives a library that is opened late TLS offset 0, does not check the size of
  its TLS block, and opens an unknown library as an empty object. `DirectSo` relocates
  and initializes in reverse breadth-first order; a comment (`guest_runner.cpp:1710`)
  says dependencies first.
* `__cxa_guard_acquire` answers 0, "already done", while another thread's initializer still
  runs (`android_runtime.cpp:5079`). The last release of a shared pointer never runs the
  destructor.
* `dlsym` of an ANGLE function takes a new number at each call and never looks at the limit
  (`android_runtime.cpp:3203`); past it, its numbers are those of missing imports, which
  `gpu_bridge.h:278` keeps apart. `StubsSound` is about the numbers before.
* EGL: a context or pbuffer that is created again leaks the old handle; `eglTerminate`
  leaves the slots as they are; writes to a buffer that was unmapped are lost.

**ART shim.**

* A full table evicts its oldest canvas; `lockCanvas` of an evicted one makes a new
  bitmap each time. `nSave` on a full stack returns a count without pushing. `nReset` of a
  paint keeps text size, stroke and style.
* `setDataSize` after a truncation shows the old bytes. A motion event keeps one pointer,
  so the second pointer of an event has the id of the first. A display receiver whose weak
  reference is cleared at `nativeInit` gets no vsync.
* A frame whose file cannot be written is sent on the socket a second time; two guest
  threads presenting at once would mix their frames, which the main looper prevents.

**Prefixes and launching.**

* Two processes that change the registry lose an update, and a crash between truncate
  and write leaves a file that no later command can parse (`prefix.cpp:2664`, 2740); so does
  a crash in the migration of old prefixes, which any first reader makes (2715).
* A clone compares the source, with its links resolved, with the destination as it is
  written (`prefix.cpp:2905`). When the destination's path leads through a link to the
  source or around it, `remove_all` deletes the source (2922).
* Two launches at once may start two daemons of a prefix; a stopping daemon removes the
  socket and PID file of its successor; a status query may remove the PID file of a
  process that has just registered.
* A client of the Linux session waits for ever if the launcher ends after its request was
  written; a cancel before the pid is written leaves the command running.
* The bootstrap archive is downloaded under its final name. `tar` unpacks it in place: one
  cut off or killed leaves part of a system, which counts as whole once it has a shell, and a
  rootfs that has lost its shell is unpacked over what its user wrote. Two downloads of Wine
  Mono share one temporary file, and one of them may put half a package into the cache.
* The password of the guest's own account is cleared at each opening (`prefix.cpp:956`), and
  `etc/hosts` gets a line for `elfuse` whenever it has none (1032).
* A path is taken for one below the sysroot when it only begins with its name; a guest path
  that is missing in the sysroot is looked up on the host.
* The plain-text scanner gives a self-closed `<activity/>` all that follows up to the next
  end tag. MAIN and LAUNCHER in different intent filters count together. A chunk of
  size 0 is scanned for ever. An APK is stamped after it was read, and extraction truncates
  libraries that a running launch has mapped.

## 7. Not modelled

* *Inside the modelled parts.* In the guard: the program and arguments that are
  executed, log files, failures of `kevent()` other than the registration for a zombie. In
  the supervisor: the compositor's own protocol. In muplard: descriptors passed
  along with messages, payload sizes and partial reads other than one cut off by a death.
  In the device channel: the input stream, which is subscribed and read like the actions;
  the reader numbers an action and posts it in two steps, the reading is one with the first.
  In the manager: reloads of the list of prefixes, metadata of the tabs, installation from
  the window. In the Linux session: a cancel reads the pid files and kills in one step, so a
  host pid is not reused in between. In the root file system: an account file cut off within a
  line; a death between truncating such a file and writing it again, which loses it; a `tar`
  that outlives the run that started it; a dangling link whose directory exists, which is written through; changes
  of the account files from the host. In the manifest: a library whose name is a base of
  another string in the pool. In the shim: glyphs and blending, wide bitmap formats,
  regions and paths (which do nothing or forward), surface controls (counters and no-ops),
  `muplar_adopt_canvas`, failed look-ups of Java classes. In the linkers: relocation types
  other than by their effect on one symbol, and that initializers run dependencies first. In
  the parcels: array and object readers that repeat the scalar ones.
* *Not at all.* Virtual memory and the ARM64 emulator: the interface of the host's
  hypervisor. The Java framework shims: constant answers and forwarding, without state of
  their own beyond what the device channel models. Font rasterization. The parsing of the
  command line. Android headers and stubs, build scripts, compatibility programs and
  vendored code are not logic of this program.
