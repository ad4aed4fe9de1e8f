# A TLA+ verification of relaunchd

relaunchd is a launchd for Linux and BSD: one process, `launchd`, that supervises
jobs described by manifests. It is single-threaded. An event loop hands process
exits, timers, signals and client requests to callbacks, one at a time, and the
callbacks drive two kinds of finite state machine: one in the manager, one in
each job. What is hard is not the callbacks but the order they come in, and what
the kernel does between two lines of one of them.

All paths below are relative to the root of the repository.

## The parts of the system

| Part | State | Operations | Hard behaviour |
|---|---|---|---|
| Job (`src/job.cc`, `job.h`) | FSM state, `pid`, `pgid`, `timer_id`, `started_at`, `unload_requested` | triggers Bootstrap, StartRequested, StopRequested, ProcessExited, UnloadRequested; `unloadJob`, `forceUnloadJob`, `killJob` | exits, timers and requests in any order; the clock is read several times by one callback; failing system calls |
| Manager (`src/manager.cc`) | FSM state, `jobs`, `pending_jobs` | load, start, unload, override, kill; graceful and forced shutdown | a job is deleted later, by label; one job of several throws |
| Event loop (`src/event.h`) | `pending_events`, `child_status`, callback maps, kernel queues | `waitForEvent`, add and delete of processes, timers and signals | batches of events on Linux, single events on BSD; exits before the watch |
| RPC server (`src/rpc_server.cc`) | none | load, unload, submit, remove, enable, disable, kill, list, version | exceptions are caught here and the manager goes on |
| State file (`src/state_file.cc`) | the `Overrides` object | `getValue`, `setValue`, `clear` | crash between write and rename |
| Process launch (`Job::run`, `src/exec_monitor.h`) | a close-on-exec pipe | report a failed exec to the parent | the child dies at any step |
| Channel (`src/channel.cc`) | a socket and one connection | accept, read, write | blocking reads |
| Manifest (`src/manifest.cc`) | - | parse, validate | optional keys and defaults |
| launchd, launchctl, domains, log | - | start-up, command line | - |

The manager owns the jobs and calls their methods; a job registers callbacks
with the event loop and asks for its own deletion by queueing the IPC event
`delete_job` with its label. RPC handlers run as callbacks of the event loop.

What makes the parts correct:

* a job has at most one process, knows it, and is told of its exit exactly once;
* it has a timer only while it waits without a process;
* a KeepAlive job comes back, not before its throttle interval, and never after
  its unload was accepted;
* a queued deletion removes the job that queued it, and no Unloaded job stays;
* a shutdown reaches every job and ends;
* `run()` tells the truth about the child, returns, and the program runs only
  with everything its manifest asks for;
* an exit is attributed to the process it belongs to although pids are reused;
* an override that was acknowledged survives a crash of launchd;
* no client waits for ever, and no request of the form that launchctl sends and no
  failing system call brings launchd down except in the cases named below.

## Modules

| Module | What it models |
|---|---|
| `Job.tla` | One job as a record, with one operator per method and per trigger of its FSM. An operator returns the new record, whether `delete_job` was queued, and whether an exception was thrown. |
| `Manager.tla` | The specification: the manager, the requests, the event loop with both backends, and the environment (clock, processes, signals), composed with `Job`. |
| `Supervisor.tla` | The abstract specification that `Manager` implements: which labels are loaded, which have a live process, and what may happen to them before and after a shutdown begins. |
| `Manifest.tla` | `from_json`, `rectify` and `validate` as functions of a document. |
| `Launch.tla` | Parent and child around `fork`, the exec pipe and `execve`, for one document. Uses `Manifest`, and relates its outcomes to those of `Job`. |
| `EventLoop.tla` | The event loop below the abstraction of `Manager`: pids, zombies, SIGCHLD, knotes, timer ids and the callback maps. |
| `Overrides.tla` | launchctl, the socket, `rpc_dispatch` and the state file, with launchd ending and starting again. |
| `MCLaunch.tla`, `MCOverrides.tla` | The documents and the overrides for TLC. |
| `MCManager.tla` | Manifests for TLC and the symmetry of labels. |
| `JobProofs.tla` | Lemmas: every operator of `Job` keeps the type and the invariant of a job and says what it does to the state, the process and the deletion. |
| `ManagerProofs.tla` | Lemmas about the queue, one lemma per action, and the theorems about the invariants of `Manager`. |
| `SupervisorProofs.tla` | What each method of a job and each action may change, the action properties of `Manager` and its refinement of `Supervisor`. |
| `LaunchProofs.tla`, `EventLoopProofs.tla`, `OverridesProofs.tla` | Inductive invariants of `Launch`, `EventLoop` and `Overrides`, and the theorems about them. |

### How state and actions correspond to the code

`jobs`, `pending_jobs`, `pending_events`, `state` and `overrides` are the C++
members of these names; `state = "Terminated"` stands for the end of the program
by an uncaught exception, `std::terminate` or a failed assertion (the default
build keeps assertions: `CMakeLists.txt` sets no build type). A pending job whose
`unique_ptr` was moved out has `moved = TRUE`. `signals` are those pending in the
kernel, and `orphans` are erased jobs whose process is still watched, by a
callback that holds a pointer to the destroyed `Job`.

A job's record has its C++ members and five ghost fields: `proc` and `group` are
the kernel's view of its process (alive, a zombie, its exit in the queue, its
exit in `child_status`, dead and not watched) and of the rest of its process
group; `asked_to_exit`, `stopping` and `lost` record a signal sent, an accepted
unload, and a process started over another. No guard of the code reads a ghost
except through the kernel.

One step is one callback from start to end: the loop is single-threaded, so
nothing of launchd interleaves with it. What may happen during a callback is in
its argument, a member of `Answers`: how `fork`, `exec`, `pipe`, `getpgid`, `kevent`,
`waitpid` and the creation of a timer end, and how many seconds pass between the
clock readings. Between callbacks, `Environs` lets time pass, processes exit and
leave members in their group, and signals arrive.

* `StartRunning` - `startRunning()` of `launchd_main`: default manifests, then
  `startAllJobs()`.
* `Load`, `Unload`, `OverrideJobEnabled`, `Kill` - the RPC handlers, `submit` and
  `remove` included. A request names any set of files, because a directory does;
  an `unload` that ends early at a failure is one for a smaller set.
* `GetSignalEvents` - Linux drains all signals and then all zombies into the queue.
  `KeventSignal`, `KeventExit`, `KeventOrphan` - BSD takes one event at a time.
* `TimerFires` - the throttle or the periodic timer.
* `DispatchDelete`, `DispatchExit`, `DispatchEarlyExit`, `DispatchOrphan`,
  `DispatchFirstSignal`, `DispatchSecondSignal` - one event of the queue, and the
  exits of `child_status`, which come first.
* `AllJobsExited` - `handleEvent()` finds no job left during the shutdown.

An exception in a callback ends the program, except in an RPC handler
(`rpc_dispatch()` catches it) and in `unloadAllJobs()` (which ignores it). An
action of the FSM that throws leaves the state, because `Fsm::execute` assigns it
after the action.

Time is counted in seconds. `elapsed` is the time since the last start and stops
at `throttle_interval`, because the code only compares it with that; each job's
clock ticks on its own, because no property compares two jobs' clocks. A
`start_interval` is in milliseconds, as `schedulePeriodicJob()` passes it on.

### The refinement of Supervisor

`Sup` in `Manager` maps the state of the manager to a phase, a job to its mode
(`kept`, `asked` if an unload was requested, `stopping` if it was accepted), and
the process to `live`. Jobs with `StartInterval` are mapped without their process,
because the code removes them while it runs (see below). The mode `asked` is
there because of `unload_disabled`: such a job is neither stopped nor told to
stop by the shutdown (`manager.cc:288`), so the promise that a shutdown stops
every job holds only for jobs of mode `kept`.

### Launch

`pc` follows `loadManifest()` and `run()`, `child.todo` the calls of
`start_child_process()` that can fail. The child and the parent take turns in
any order; a step of the child may fail if it is in `Faults`, and `"killed"` lets a
signal end the child at any point before `execve`; `"write"` is a report of a failed
step that is lost, so that the child ends silently. `child.uid` and `child.gid` are the
ids that `setuid` and `setgid` give the child. `Ctx` has them as `run()` passes them on,
exchanged (`job.cc:296` against `job.h:37-41`); `PreparedBeforeExec` therefore speaks of
the two ids together, and `launch_user` shows what the exchange does. `child.fate` keeps
how the preparations ended, also of a child that is dead by then. A path that is a
FIFO may block the child, as stdin, stdout or stderr. `EndOfFile` is the kernel's
rule for a pipe, `ReadEndOfFile` is what `readStatus()` makes of it. `Reap` is the
exit callback up to `killpg`. `setlogin` only exists on BSD; `getpgid` of a zombie
works on Linux and fails on BSD; the model has both. `AgreesWithJob` evaluates
`StartJob` of module `Job` for each of its outcomes and asks that one of them leaves
`pid`, `pgid`, the process and the exception as `Launch` does. The one launch that
`Job` does not have, a child that dies in launchd's own group, is the subject of
`launch_killed`.

### EventLoop

A process has an index that is never reused and a pid that is, as soon as its
owner was reaped. The members are those of the two `Implementation` classes and of
`EventManager`; `Insert` is `unordered_map::insert`, which keeps an old entry. Jobs
are reduced to what they do with the loop: their callback may start the next
process or set a timer. Reaping on Linux is taken apart into the read of the
signals, one `waitpid` at a time and the end, and processes exit in between.
With kqueue a process may exit before `getpgid()`, which then fails (`grouped` is
FALSE) although `kevent()` still attaches to the zombie; before `kevent()`, which then
fails and leaves the status to `waitForProcess()`; or later. `missed` marks a process
whose status `waitForProcess()` could not read, `reused` one whose pid was still in
`process_callbacks`; the properties say that nothing else goes wrong. `LeavesGroup` has
the two early returns of `killProcessGroup()`, after which nobody reaps a process on BSD. `terminated` is an exception of `at()`.

### Overrides

A client connects, sends or not, and hangs up or waits. `backlog` and `peer` are
its connection on the side of launchd. `accept()` may fail for a client that hung up
(`AcceptFails`). `readMessage()` of a client that hung up
without a word parses an uninitialised buffer: that is a choice between garbage
and `residue`, the message read before. `setValue()` is three steps (write, rename,
answer), the constructor of `StateFile` two if there is no file. `End` is a crash
or a shutdown at any moment; `Start` reads the file again, or is impossible
because the file does not parse. `allowed` and `damage` are history variables.

## Runs

Deadlock is not checked where the program may stop: launchd ends, a launch is
over, and a launchd that cannot parse its file does not start.

| Run | Module | Instance | Shows |
|---|---|---|---|
| `one_epoll` | `MCManager` | 1 label, 10 manifests, 11 requests, all faults of Linux, up to 3 s between clock readings; 31,619 states | deletion, process, timer, unload and restart on Linux |
| `one_kqueue` | `MCManager` | the same, early exits included, up to 2 s; 37,029 states | the inductive invariant, which implies the safety invariants; no group left behind but of a process gone before `getpgid()`; no restart after a stop; the refinement of `Supervisor` |
| `two` | `MCManager` | 2 symmetric labels, periodic (with and without RunAtLoad) and KeepAlive, 2 signals, failing starts; 0.9 million states | deletion, exit, shutdown and refinement when events of two jobs and two signals share the queue; the assertion of `startAllJobs()` fails only after a start that threw |
| `live_kqueue` | `MCManager` | 1 label, 10 manifests, 6 requests, 2 signals, no faults; 13,423 states | KeepAlive jobs restart; unloads and shutdowns end unless a stranded job holds them up; launchd crashes only in the callback of a destroyed job |
| `launch` | `MCLaunch` | 540 documents, 18 faults; 14,104 states | `run()` answers truly and returns, no program without its ids and directory, the causes of a crash, agreement with `Job` |
| `events` | `EventLoop` | both backends, 2 jobs, 2 pids, 3 processes, 2 timers; 75,150 states | exits reach the right job once, no lost wake-up, what pid reuse can and cannot break |
| `overrides` | `MCOverrides` | 2 clients, 2 labels, all faults, 1 restart; 1.0 million states | acknowledged overrides survive, causes of a damaged file, every client ends |

Bounds. One label is enough for what concerns a single job, because jobs share
only the queue and the manager's state; two labels and two signals give every
order of two exits, two deletions and two signals in one queue. `two` leaves out the
override "enabled" (`NoneIsEnabled`), which for its manifests is the same as none. The queue needs
no bound: an event enters it once per process, unload or pending signal. The
throttle intervals 0, 1 and 2 with clock steps up to 3 put every clock reading
before, at and after the interval. The manifests are one of every kind that the
guards tell apart, with the boundary `StartInterval` 0 and with `StartInterval`
combined with `RunAtLoad` and with `KeepAlive`. The documents of `launch` are every
subset of the nine keys that change what the child does, and a plain document with
one other value for each key that `from_json` looks at. Three processes on two
pids are the fewest with which a pid comes back while another process is watched;
the pids, the processes and the timers are the bounds of `events`. In `overrides` one
label is switched on and off and one is switched on, so that a write for one can
lose the other; clients come back any number of times, and only the restarts
are bounded.

Runs that end in a violation each confirm a disagreement between the code and
what the repository says of it:

| Run | Property | What happens |
|---|---|---|
| `shutdown_epoll` | `ShutdownCompletes` | Linux: cancelling a throttle timer asks the wrong epoll instance and throws, the job stays in `jobs`, the shutdown never ends |
| `unload_disabled` | `UnloadCompletes` | `unload -w` disables the job and then refuses to unload a disabled job, for ever |
| `clock_race` | `KeepAliveRestarts` | two guards read the clock; neither holds |
| `launch_killed` | `KillsOnlyTheJob` | a child killed before `setsid()` counts as started, in launchd's own process group, which its exit callback then kills (not for a launchd that is process 1) |
| `launch_user` | `RunsAsUser` | uid and gid are exchanged: with a group of gid 0 the program of another user runs as root |

More are visible in the model without a run of their own:

* a RunAtLoad job with `StartInterval` stays Running when its process exits, because no
  row of `job.cc:431-477` matches: it can be unloaded no more and a shutdown does not end,
  on either backend and without a fault (`man/launchctl.1:89-90` and `CHANGELOG.md:49` say
  otherwise). `Stranded` is this job, `UnloadEnds` and `ShutdownEnds` except it and no
  other, and `UnloadCompletes` and `ShutdownCompletes` fail on it;
* a periodic job is Waiting while its process runs, so an unload erases it and leaves the
  process running (`job.cc:417-428`), against `man/launchctl.1:90`;
* with kqueue and `Faults = {"waitpid"}` the status -1 of a process that is just
  exiting looks like a stop, and `KeepAliveRestarts` fails (`event.h:150`);
* with kqueue a process gone before `getpgid()` leaves its group alone, which is why
  `NoSurvivors` excepts `pgid = -1` (`job.cc:519`);
* a start that throws leaves entries in `pending_jobs`, and the next load fails an
  assertion; `AssertionExplained` says that nothing else does (`manager.cc:347`);
* the exit callback of a job that was erased while its process ran uses the destroyed
  job (`DispatchOrphan`); such jobs are why `UnloadedIsDown` and the refinement except
  `StartInterval`, and `OnlyOrphansCrash` says that without a failing call nothing else
  ends launchd;
* nothing arms a periodic timer a second time (`OnTimer`);
* the exception of `cancelTimer()` ends launchd when a second signal reaches
  `forceUnloadJob()`, which is `noexcept` (`ForceUnloadThrows`);
* `load -w` stores the override and still refuses a manifest with `Disabled`
  (`Accepted`);
* a plain number as `Umask` in a JSON file is refused, because it is read as
  unsigned (`FromJsonThrows`);
* an expired timer keeps its descriptor and its callback (`TimerFires` of `EventLoop`);
* with kqueue every exit of a job with `AbandonProcessGroup`, and every exit before
  `getpgid()`, leaves a zombie (`ReportedIsReaped` excepts the two);
* a child whose report of a failed step cannot be written counts as started
  (`AnswerIsRight` allows for it);
* a request that failed may be executed later, for a client that sent nothing
  (`Settled` of `Overrides` allows for it).

`live_kqueue` avoids these cases: a clock step within a callback, an early exit,
`unload -w` and `disable`, and Linux, where the shutdown fails. A RunAtLoad job with
StartInterval is not avoided but excepted: `UnloadEnds` and `ShutdownEnds` let exactly
the stranded job (`Stranded`: Running, no process, `StartInterval`, no KeepAlive) hold up
an unload or a shutdown. All three liveness properties let launchd crash in the callback
of a destroyed periodic job, which `OnlyOrphansCrash` delimits. The run has one job; what
several jobs do to each other in one queue is checked by `two`, for safety only.

### Fairness

`FairSpec` assumes that the loop goes on (weak fairness of dispatching and of the
end of the shutdown), that an event which the kernel keeps ready is handed out
even if clients keep sending requests (strong fairness per event, because a
request in between disables it for the moment; the kernel queues are FIFO), that
time passes, and that a process which was sent SIGTERM exits. The last one is an
assumption about the jobs: nothing in the code enforces it, as `ExitTimeOut` is
parsed and never used.

`Launch` assumes that parent and child are scheduled and that a child which decided
to exit does; a program need not exit, a read need not fail, and the open of a
FIFO need not return. `EventLoop` assumes that the loop goes on and that a ready
exit is handed out although timers and requests come in between (strong, as
above). `Overrides` assumes that a launchd which runs goes on and that a client
which has connected sends or hangs up. Nobody has to connect, launchd does not have
to end, and nobody restarts it. The assumption about clients is needed: the code
has no timeout, and a client that stays silent stops launchd.

## Proofs

TLAPS proves every invariant that the passing runs check, every action property but
`OnlyOrphansCrash`, and the refinement, for every value of the constants: any labels,
manifests, signals, documents, clients, jobs and pids, any faults, both backends,
any clock, and any bound on processes, timers and restarts.

| Module | Theorem | States |
|---|---|---|
| `ManagerProofs` | `InvHolds` | `Spec => []Inv` |
| | `TypeCorrect` | `Spec => []TypeOK` |
| | `DeletionIsExact` | `Spec => []DeletionExact` |
| | `ExitIsDeliveredOnce` | `Spec => []ExitDeliveredOnce` |
| | `ProcessesAreKnown` | `Spec => []NoLostProcess` |
| | `TimersAreExclusive` | `Spec => []TimerExclusive` |
| | `GroupsDoNotSurvive` | `Spec => []NoSurvivors` |
| | `UnloadedJobsAreDown` | `Spec => []UnloadedIsDown` |
| | `ShutdownReachesAllJobs` | `Spec => []ShutdownReachesAll` |
| `SupervisorProofs` | `StoppedJobsStayDown` | `Spec => StoppedStaysDown` |
| | `ThrottleIsHonoured` | `Spec => ThrottleHonoured` |
| | `AssertionIsExplained` | `Spec => AssertionExplained` |
| | `Refinement` | `Spec => ImplementsSupervisor` |
| `LaunchProofs` | `TypeCorrect` | `Spec => []TypeOK` |
| | `AnswersAreRight` | `Spec => []AnswerIsRight` |
| | `ProgramsArePrepared` | `Spec => []PreparedBeforeExec` |
| | `RightUserIfSameIds` | `Spec => [](Uid = Gid => RunsAsUser)`; `launch_user` shows that it fails otherwise |
| | `ChildIsNeverLaunchd` | `Spec => []NoSecondLaunchd` |
| | `CrashesAreExplained` | `Spec => []CrashExplained` |
| | `LaunchAgreesWithJob` | `Spec => []AgreesWithJob` |
| | `KillsOnlyTheJobUnlessSilent` | `Spec => []KillsOnlyTheJob` if no child is killed and no report is lost; `launch_killed` shows that it fails otherwise |
| `EventLoopProofs` | `TypeCorrect` | `Spec => []TypeOK` |
| | `LostByReuseOnly` | `Spec => []LostOnlyByReuse` |
| | `LookupsDoNotThrow` | `Spec => []LookupsSucceed` |
| | `WakeupsAreNotLost` | `Spec => []NoLostWakeup` |
| | `ReportedAreReaped` | `Spec => []ReportedIsReaped` |
| | `TimersAreKnown` | `Spec => []TimersKnown` |
| | `RightProcessReported` | `Spec => RightProcess` |
| `OverridesProofs` | `TypeCorrect` | `Spec => []TypeOK` |
| | `OverridesAreDurable` | `Spec => []Durable` |
| | `MemoryIsFile` | `Spec => []MemoryMatchesFile` |
| | `DamageIsExplained` | `Spec => []DamageExplained` |

Assumptions on the constants.

* `Manager`: `Backend` is one of the two, `Manifests` have the type of a manifest,
  `Faults` name known system calls, `MaxClockStep` is a natural number, labels and
  signals are finite sets, requests are known commands.
* `Launch` (`DocumentsAssumption`): the values of a document have the types that
  `json::get_to()` asks for, since other values make it throw before anything is
  started, and no path or argument is the string "none", which stands for
  `std::nullopt`; the ids of users (`PasswdAssumption`) and groups (`GroupAssumption`)
  are natural numbers.
* `EventLoop` (`LoopAssumption`) and `Overrides` (`OverridesAssumption`): backends,
  settings and faults are known ones and the bounds are natural numbers.

### Manager

None of the invariants is inductive by itself. A deletion finds its
job Unloaded only if a job in that state is never started again; that needs the
timers to be exclusive to Waiting jobs, and that needs the link between `pid` and
the process, which a start would break if the exit of the old process could still
be in the queue. `Inv` therefore joins the type, six named facts about each job
(`JobInv`: `KnowsItsProcess`, `TimerIsExclusive`, `GroupIsOwned`, `StateFitsProcess`,
`ThrottleIsKept`, `UnloadIsMarked`) and the link between queue and jobs.
`ManagerProofs` restates that link with two operators on sequences: `Once(q, e, c)`
(e occurs exactly once in q if c holds, and else not at all) and
`Before(q, d, e)`. Lemmas say how these behave under `Tail`, concatenation and
the enumeration of a set, and `JobProofs` says of each operator of `Job` that
its result is `Sound`: the invariant of the job holds, a deletion is queued
exactly when the job becomes Unloaded, and no exit appears as reported. Each
action then has one lemma that puts the two together.

### Supervisor

`Legal(j, k)` says what one callback or request may do to a job: it does not start a
process while the job is stopping, nor, for KeepAlive, within the throttle
interval; and what was asked of the job changes only once, to an unload, in a
step that leaves its process alone.
Each operator of `Job` is shown to be legal, from the invariant of the job. Each
action of `Manager` is then `Lawful`: jobs change legally (`JobsStep`), the manager
goes from one phase to the next only as the shutdown allows (`PhaseStep`), and
`PendingMoved` is kept, the one fact that `Inv` lacks: an entry of `pending_jobs` whose
label is in the table was moved there. A lawful step is a step of `Supervisor` or
leaves its variables alone, and the action properties are parts of it.

### Launch

`IInv` is `ParentOK`, `ChildOK`, `PipeOK` and `CrashExplained`. The part that carries the
argument is `Preparing`: the steps a child in its setup has done and those it still
has to do are together the steps of its manifest, whatever subset of keys the
document has, `execve` is the last of them, and the ids are those of the steps done;
and `PipeOK`: a failed step that was reported waits in the pipe and nothing else does,
so that end of file means `execve`, or a death without a report. The lemmas about `Manifest` say what
`Parse(d) = "accepted"` guarantees of the manifest: program and arguments
are there, and the members have their types.

### EventLoop

`Sound(s, q, h)` describes the tables `s`, the queue `q` and the processes `h` whose exit
has been taken out of a table and is being dispatched. A job's current process is
the one not yet reported; processes that are there have different pids; a queued
exit, a watched pid, a knote or a status belongs to a process not yet reported,
whose entry in `process_callbacks` leads to its job; every entry is held by one of
these tables; and every process is in one of them unless it was reported, its pid
was reused while registered, or its status was missed. Between two steps `h` is empty. A dispatch is followed in the order of the code: the exit is taken
(`TakeQueued`, `TakeKnote`, `TakeStatus`), the callback reaps (`ReapSound`), starts the next
process or not (`StartSound`), which may get the pid just freed, and the entry of
the old pid is erased (`DeleteSound`). `ReapingOK` is what the epoll backend needs
in addition: during the reaping no queued exit is of a watched pid. `TimersOK` with
`TimersKnown` is inductive by itself once a job with a process is known to have no
timer.

### Overrides

`IInv` is `WireOK` (connections, backlog and the one peer), `BufferOK` (the receive buffer
that a later request may be read from), `FileOK` and `MemoryOK` with the two properties
`Durable` and `DamageExplained`. Durability needs the buffer: a replayed request is
one that was allowed, or in doubt, when it was first read. It also needs the
temporary file: what `rename` moves is either damaged or the new document.

### What is only model-checked

Liveness (`UnloadEnds`, `ShutdownEnds`, `KeepAliveRestarts`, `RunReturns`, `ExitReported`,
`EveryClientEnds`), which is out of the prover's reach, and `OnlyOrphansCrash`, which
holds only for runs without failing calls. The inductive
invariants were checked with TLC before they were proved: `Inv` by the run
`one_kqueue`, the others on the instances of `launch`, `events` and `overrides`, and that
of `EventLoop` also with 3 pids and 4 processes.

## Not modelled

* Errors of `kevent(2)` other than ESRCH after the fork; errors of `read(2)` on the
  signal and timer descriptors, which end launchd; the exception of the epoll
  `monitorChildProcess()` when `kill(pid, 0)` fails (`event.h:302-309`).
* Requests that launchctl does not send: a missing key or argument is an exception
  that `rpc_dispatch()` answers with an error, but `rpc_server.cc:33-57` reads some of
  them with the `operator[]` of a constant document, which asserts or is undefined.
* `accept(2)` failing for another reason than an aborted connection: it changes nothing.
* The supplementary groups of `initgroups()`, whose base group is exchanged as well.
* Stopped processes: the exit callback ignores them.
* What `kill(-1, ...)` does to other processes after a failed fork.
* The content of answers, `list`, `version`, the exit status of launchctl, logging,
  the text of manifests and the vendored XML parser.
* The environment and the umask of a job: nothing else depends on them.
* Daemonizing, boot scripts and the search for directories.
* A loss of power (nothing is synced), and two launchds on one state directory.
* `stopRunning()`, `Manager::startJob()` and `clearStateFile()`, which launchd does not call.
* The socket activation shim, which is a library of its own.

## Plan

1. Two launchds, of the User and the GUI domain, on one state directory.
2. Lemmas about `Manifest`: what `rectify` and `validate` guarantee of every accepted
   document, as theorems of their own.
