-------------------------------- MODULE Job --------------------------------
(***************************************************************************)
(* One supervised job (src/src/job.cc, job.h): its finite state machine,   *)
(* its child process and its timer.  Every method that changes a job is an *)
(* operator that takes the job's record and returns a result: the new      *)
(* record, whether the method queued the "delete_job" callback, and        *)
(* whether it left by an exception.  The manager decides what an exception *)
(* means, because that depends on who called the method.                   *)
(*                                                                         *)
(* What the kernel decides during a call is an argument: the outcome of    *)
(* fork and exec, whether a timer can be created, and how many seconds     *)
(* pass between two readings of the clock.                                 *)
(***************************************************************************)
EXTENDS Integers

CONSTANTS
    Backend,       \* "epoll" (EpollImplementation) or "kqueue" (KqueueImplementation)
    Manifests,     \* the manifests that may be loaded
    Faults,        \* the system calls that may fail
    MaxClockStep   \* seconds that may pass between two clock readings of one callback

NoInterval == -1   \* std::optional<uint32_t> start_interval without a value
Never      == -1   \* the timer is not armed

ManifestType == [run_at_load           : BOOLEAN,
                 keep_alive            : BOOLEAN,
                 start_interval        : {NoInterval} \cup Nat,   \* milliseconds, see MonitorTimer
                 throttle_interval     : Nat,                     \* seconds
                 disabled              : BOOLEAN,
                 abandon_process_group : BOOLEAN]

ASSUME BackendAssumption   == Backend \in {"epoll", "kqueue"}
ASSUME ManifestsAssumption == Manifests \subseteq ManifestType
ASSUME FaultsAssumption    ==
    Faults \subseteq {"exec", "fork", "pipe", "timer", "getpgid", "zombie", "kevent", "waitpid"}
ASSUME ClockAssumption     == MaxClockStep \in Nat

JobStates == {"Loaded", "Waiting", "Running", "Exited", "Unloaded"}

(***************************************************************************)
(* pid is 1 for the job's process, 0 for none and -1 after a failed fork.  *)
(* elapsed is current_time() - started_at, saturated at throttle_interval: *)
(* beyond it the code makes no distinction.  alarm is the number of        *)
(* seconds until the timer expires.  The last five fields are not in the   *)
(* C++ object: proc and group are the kernel's view (the last process:     *)
(* alive, a zombie, its exit in the event queue, its exit in child_status, *)
(* or dead and not watched; other live members of its process group),      *)
(* asked_to_exit says that SIGTERM or another fatal signal was sent,       *)
(* stopping that unloadJob() accepted an unload, and lost that a process   *)
(* was started over one that still existed.                                *)
(***************************************************************************)
JobType == [manifest         : Manifests,
            state            : JobStates,
            pid              : {-1, 0, 1},
            pgid             : {-1, 1},
            timer_id         : {"none", "throttle", "periodic"},
            alarm            : {Never} \cup Nat,
            elapsed          : Nat,
            unload_requested : BOOLEAN,
            proc             : {"none", "alive", "zombie", "reported", "early", "unwatched"},
            group            : BOOLEAN,
            asked_to_exit    : BOOLEAN,
            stopping         : BOOLEAN,
            lost             : BOOLEAN]

NewJob(m) == [manifest         |-> m,
              state            |-> "Loaded",
              pid              |-> 0,
              pgid             |-> -1,
              timer_id         |-> "none",
              alarm            |-> Never,
              elapsed          |-> 0,
              unload_requested |-> FALSE,
              proc             |-> "none",
              group            |-> FALSE,
              asked_to_exit    |-> FALSE,
              stopping         |-> FALSE,
              lost             |-> FALSE]

\* With kqueue the process may exit before getpgid(2), and kevent(2) may then
\* find it gone ("getpgid") or watch the zombie ("zombie"); or it exits after
\* getpgid(2) but before kevent(2), and waitpid(2) may not find its status yet.
\* With epoll monitorChildProcess() could only throw for a child that changed
\* all its user ids at once: kill(2) finds every child that was not reaped.
RunOutcomes   == {"ok"} \cup (Faults \cap {"exec", "fork", "pipe"})
                   \cup IF Backend = "kqueue" THEN Faults \cap {"getpgid", "zombie", "kevent", "waitpid"}
                        ELSE {}
TimerOutcomes == {"ok"} \cup (Faults \cap {"timer"})
ClockSteps    == 0 .. MaxClockStep

(***************************************************************************)
(* What the kernel answers during one callback: run is the outcome of      *)
(* starting a process, timer that of creating a timer, and t2 and t3 are   *)
(* the seconds that pass before the second and the third clock reading.    *)
(***************************************************************************)
Answers == [run : RunOutcomes, timer : TimerOutcomes,
            t2 : ClockSteps, t3 : ClockSteps]

\* Starting a job does not compare two clock readings.
StartAnswers == {a \in Answers : a.t2 = 0 /\ a.t3 = 0}

Done(j)    == [job |-> j, delete_job |-> FALSE, threw |-> FALSE]
Threw(j)   == [job |-> j, delete_job |-> FALSE, threw |-> TRUE]

\* Mutant: the state changes but no deletion is queued.
DeletedSilently(j) == Done([j EXCEPT !.state = "Unloaded"])

Deleted(j) == [job |-> [j EXCEPT !.state = "Unloaded"], delete_job |-> TRUE, threw |-> FALSE]

Goto(r, s) == IF r.threw THEN r ELSE [r EXCEPT !.job.state = s]

Cap(n, max) == IF n < max THEN n ELSE max

-----------------------------------------------------------------------------
(* Processes *)

\* Where the exit of a new process will be found.  KqueueImplementation's
\* monitorChildProcess() puts the status of a process that is gone into
\* child_status; a status that is not there yet becomes -1, which the
\* callback takes for a stopped process and ignores, once and for all.
Watched(run) == CASE run = "ok"                    -> "alive"
                  [] run = "zombie"                -> "zombie"
                  [] run \in {"getpgid", "kevent"} -> "early"
                  [] OTHER                         -> "unwatched"

\* Job::startJob and Job::run.  A fork that fails leaves pid = -1; a child
\* that reports an exec failure is killed and reaped at once; a pipe that
\* cannot be created throws before the fork.
StartJob(j, a) ==
    LET k == [j EXCEPT !.elapsed = 0,
                       !.lost = @ \/ (j.proc # "none" /\ a.run # "pipe")]
    IN CASE a.run = "exec" -> Done([k EXCEPT !.pid = 0])
         [] a.run = "fork" -> Done([k EXCEPT !.pid = -1])
         [] a.run = "pipe" -> Threw(k)
         [] OTHER          -> Done([k EXCEPT !.pid = 1,
                                             !.pgid = IF a.run \in {"getpgid", "zombie"} THEN -1 ELSE 1,
                                             !.proc = Watched(a.run),
                                             !.group = FALSE,
                                             !.asked_to_exit = FALSE])

\* kill(2) of the job's process.  With pid = -1 the signal goes to every
\* process launchd may signal, which may exit at any time in any case.
KillJob(j) == IF j.pid = 1 THEN [j EXCEPT !.asked_to_exit = TRUE] ELSE j

\* Mutant: the rest of the group is left alone.
SpareProcessGroup(j) == j

\* SIGKILL to the process group until waitpid() finds no member left.
KillProcessGroup(j) ==
    IF j.pgid < 0 \/ j.manifest.abandon_process_group THEN j ELSE [j EXCEPT !.group = FALSE]

ReapChildProcess(j) ==
    KillProcessGroup([j EXCEPT !.pid = 0, !.proc = "none", !.asked_to_exit = FALSE])

-----------------------------------------------------------------------------
(* Timers *)

\* Mutant: the sign of the time is not looked at.
MonitorAnyTimer(j, id, milliseconds, a) ==
    IF a.timer # "ok" THEN Threw(j)
    ELSE Done([j EXCEPT !.timer_id = id, !.alarm = milliseconds \div 1000])

\* EventManager::addTimer.  A timerfd set to 0 is disarmed; a negative time
\* becomes one decades away.  kevent(2) accepts 0 and rejects a negative time.
MonitorTimer(j, id, milliseconds, a) ==
    IF a.timer # "ok" \/ (Backend = "kqueue" /\ milliseconds < 0)
    THEN Threw(j)
    ELSE Done([j EXCEPT !.timer_id = id,
                        !.alarm = IF milliseconds > 0 THEN milliseconds \div 1000
                                  ELSE IF Backend = "kqueue" THEN 0 ELSE Never])

\* Mutant: cancelling fails on every backend.
CancelTimerFails(j) == Threw([j EXCEPT !.alarm = Never])

\* Job::cancelTimer.  EpollImplementation::ignoreTimer() asks the wrong epoll
\* instance to forget the timer, so it closes the timer and then throws;
\* timer_id keeps its value.
CancelTimer(j) ==
    IF Backend = "epoll" THEN Threw([j EXCEPT !.alarm = Never])
    ELSE Done([j EXCEPT !.alarm = Never, !.timer_id = "none"])

CancelTimerIfSet(j) == IF j.timer_id = "none" THEN Done(j) ELSE CancelTimer(j)

SchedulePeriodicJob(j, a) == MonitorTimer(j, "periodic", j.manifest.start_interval, a)

\* Mutant: off by one second.
StartTooEarly(j, elapsed, a) ==
    MonitorTimer([j EXCEPT !.elapsed = Cap(elapsed, j.manifest.throttle_interval)],
                 "throttle", 1000 * (j.manifest.throttle_interval - elapsed - 1), a)

\* elapsed is the third clock reading of the callback.
StartAfterThrottleInterval(j, elapsed, a) ==
    MonitorTimer([j EXCEPT !.elapsed = Cap(elapsed, j.manifest.throttle_interval)],
                 "throttle", 1000 * (j.manifest.throttle_interval - elapsed), a)

-----------------------------------------------------------------------------
(* The finite state machine: one operator per trigger; the rows of a state *)
(* are tried in the order initFSM() lists them, and the first whose guard  *)
(* holds is taken.  A trigger without a row changes nothing.               *)

StartRequested(j, a) ==
    CASE j.state = "Loaded"  -> Goto(StartJob(j, a), "Running")
      [] j.state = "Waiting" ->
            LET c == CancelTimerIfSet(j)
            IN IF c.threw THEN c ELSE Goto(StartJob(c.job, a), "Running")
      [] OTHER -> Done(j)

Bootstrap(j, disabled, a) ==
    LET m == j.manifest
    IN IF disabled \/ j.state # "Loaded" THEN Done(j)
       ELSE IF m.run_at_load \/ m.keep_alive THEN Goto(StartRequested(j, a), "Running")
       ELSE IF m.start_interval # NoInterval
       THEN Goto(SchedulePeriodicJob(j, a), "Waiting")
       ELSE Done(j)

\* Two rows ask shouldThrottle(), each with a reading of its own, and the
\* action of the second reads the clock again.
ProcessExited(j, a) ==
    LET m  == j.manifest
        e1 == j.elapsed
        e2 == e1 + a.t2
        e3 == e2 + a.t3
        restart == m.keep_alive /\ ~j.unload_requested
    IN IF j.state # "Running" THEN Done(j)
       ELSE IF ~m.keep_alive /\ m.start_interval = NoInterval /\ ~j.unload_requested
       THEN Done([j EXCEPT !.state = "Exited"])
       ELSE IF restart /\ e1 >= m.throttle_interval
       THEN Goto(StartJob(j, a), "Running")
       ELSE IF restart /\ e2 < m.throttle_interval
       THEN Goto(StartAfterThrottleInterval(j, e3, a), "Waiting")
       ELSE IF j.unload_requested THEN Deleted(j)
       ELSE Done(j)

\* Mutant: no signal is sent.
StopIgnored(j) == j

StopRequested(j) == IF j.state = "Running" THEN KillJob(j) ELSE j

\* Mutant: a Running job is deleted without waiting for its process.
UnloadAtOnce(j) ==
    CASE j.state \in {"Loaded", "Exited", "Running"} -> Deleted(j)
      [] j.state = "Waiting" ->
            LET c == CancelTimerIfSet(j) IN IF c.threw THEN c ELSE Deleted(c.job)
      [] OTHER -> Done(j)

UnloadRequested(j) ==
    CASE j.state \in {"Loaded", "Exited"} -> Deleted(j)
      [] j.state = "Waiting" ->
            LET c == CancelTimerIfSet(j) IN IF c.threw THEN c ELSE Deleted(c.job)
      [] OTHER -> Done(j)

-----------------------------------------------------------------------------
(* What the manager and the event loop call *)

\* Mutant: the state machine runs before the process is reaped.
ReapLast(j, a) ==
    LET r == ProcessExited(j, a) IN [r EXCEPT !.job = ReapChildProcess(@)]

\* The callback startJob() registers for the exit of the process.
OnExit(j, a) == ProcessExited(ReapChildProcess(j), a)

\* Mutant: timer_id is not reset.
OnTimerKept(j, a) ==
    LET k == [j EXCEPT !.alarm = Never]
    IN IF j.timer_id = "periodic" THEN StartJob(k, a) ELSE StartRequested(k, a)

\* Mutant: the timer does not trigger the state machine.
OnTimerIgnored(j, a) == Done([j EXCEPT !.timer_id = "none", !.alarm = Never])

\* The callbacks of the two timers.
OnTimer(j, a) ==
    LET k == [j EXCEPT !.timer_id = "none", !.alarm = Never]
    IN IF j.timer_id = "periodic" THEN StartJob(k, a) ELSE StartRequested(k, a)

\* Mutant: unload_requested is not set.
UnloadUnmarked(j, disabled, force) ==
    IF j.state = "Unloaded" \/ j.unload_requested \/ (disabled /\ ~force) THEN Done(j)
    ELSE UnloadRequested(StopRequested([j EXCEPT !.stopping = TRUE]))

\* Job::unloadJob.  unload_requested is set before the disabled check.
UnloadJob(j, disabled, force) ==
    IF j.state = "Unloaded" \/ j.unload_requested THEN Done(j)
    ELSE IF disabled /\ ~force THEN Done([j EXCEPT !.unload_requested = TRUE])
    ELSE UnloadRequested(StopRequested([j EXCEPT !.unload_requested = TRUE,
                                                 !.stopping = TRUE]))

\* Job::forceUnloadJob is noexcept: an exception ends the program.
ForceUnloadThrows(j) == CancelTimerIfSet(j).threw

\* A second passes for the job: the environment.
Later(j) == [j EXCEPT !.elapsed = Cap(@ + 1, j.manifest.throttle_interval),
                      !.alarm = IF @ > 0 THEN @ - 1 ELSE @]

-----------------------------------------------------------------------------
(* What holds of a job between two callbacks, as named parts *)

\* pid is that of the process as long as there is one, and no process was
\* started over another.
KnowsItsProcess(j) == ~j.lost /\ (j.pid = 1 <=> j.proc # "none")

\* Only a Waiting job without a process has a timer.
TimerIsExclusive(j) ==
    /\ j.timer_id # "none" => j.state = "Waiting" /\ j.proc = "none"
    /\ j.alarm # Never => j.timer_id # "none"

\* Nobody of the process group outlives the handling of the exit, unless the
\* group is to be abandoned or is not known; with epoll it is always known.
GroupIsOwned(j) ==
    /\ j.group => \/ j.proc # "none"
                  \/ j.manifest.abandon_process_group
                  \/ Backend = "kqueue" /\ j.pgid = -1
    /\ Backend = "epoll" /\ j.proc # "none" => j.pgid = 1

\* Where a job without a process can be; a periodic job keeps its process
\* while Waiting and takes it along when it is unloaded.
StateFitsProcess(j) ==
    /\ j.state \in {"Loaded", "Exited"} => j.proc = "none"
    /\ j.state \in {"Waiting", "Unloaded"} /\ j.manifest.start_interval = NoInterval
          => j.proc = "none"
    /\ j.timer_id = "periodic" => ~j.manifest.keep_alive /\ j.manifest.start_interval # NoInterval

\* An armed throttle timer does not expire before the throttle interval ends.
ThrottleIsKept(j) ==
    j.timer_id = "throttle" /\ j.alarm # Never
        => j.elapsed + j.alarm >= j.manifest.throttle_interval

UnloadIsMarked(j) ==
    /\ j.stopping => j.unload_requested /\ j.alarm = Never
    /\ j.state = "Unloaded" => j.unload_requested

JobInv(j) == /\ KnowsItsProcess(j)
             /\ TimerIsExclusive(j)
             /\ GroupIsOwned(j)
             /\ StateFitsProcess(j)
             /\ ThrottleIsKept(j)
             /\ UnloadIsMarked(j)
=============================================================================
