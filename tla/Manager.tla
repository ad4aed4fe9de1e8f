------------------------------ MODULE Manager ------------------------------
(***************************************************************************)
(* launchd's manager (src/src/manager.cc), the requests it serves          *)
(* (rpc_server.cc) and its single-threaded event loop (event.h), composed  *)
(* with the jobs of module Job.                                            *)
(*                                                                         *)
(* One step of the manager is one callback of the event loop, or the move  *)
(* of kernel events into the loop's queue.  Processes, the clock and       *)
(* signals are the environment and interleave with the callbacks.          *)
(***************************************************************************)
EXTENDS Job, Sequences, FiniteSets

CONSTANTS
    Labels,          \* job labels
    Requests,        \* the launchctl commands that clients send
    ShutdownSignals  \* SIGINT, SIGUSR1, SIGUSR2, SIGTERM: all reach handleShutdownSignal()

LoadCommands   == {"load", "load -w", "load -F", "load -wF"}
UnloadCommands == {"unload", "unload -w", "unload -F", "unload -wF"}

ASSUME LabelsAssumption   == IsFiniteSet(Labels)
ASSUME SignalsAssumption  == IsFiniteSet(ShutdownSignals)
ASSUME RequestsAssumption ==
    Requests \subseteq LoadCommands \cup UnloadCommands \cup {"enable", "disable", "kill"}

VARIABLES
    state,           \* the state of the manager's FSM; "Terminated" after std::terminate or abort
    jobs,            \* std::unordered_map from labels to jobs
    pending_jobs,    \* jobs loaded and not yet started; moved: the unique_ptr was moved out
    pending_events,  \* the event loop's FIFO queue
    signals,         \* signals pending in the kernel
    overrides,       \* the "Overrides" object of the state file
    orphans          \* labels of erased jobs whose process still runs

vars == <<state, jobs, pending_jobs, pending_events, signals, overrides, orphans>>

States == {"Unconfigured", "Running", "GracefulShutdown", "Finished", "Terminated"}

DeleteJob(l) == [type |-> "delete_job", arg |-> l]   \* ipc_event
Exited(l)    == [type |-> "proc",       arg |-> l]   \* proc_event of a job
Orphaned(l)  == [type |-> "orphan",     arg |-> l]   \* proc_event whose callback holds a dangling Job
Caught(s)    == [type |-> "signal",     arg |-> s]   \* signal_event

Events == {DeleteJob(l) : l \in Labels} \cup {Exited(l) : l \in Labels}
            \cup {Orphaned(l) : l \in Labels} \cup {Caught(s) : s \in ShutdownSignals}

\* Every order in which the members of a finite set can be visited.
Orders(S) ==
    UNION {{s \in [1 .. n -> S] : /\ \A i, k \in 1 .. n : s[i] = s[k] => i = k
                                  /\ \A x \in S : \E i \in 1 .. n : s[i] = x}
           : n \in 0 .. Cardinality(S)}

Empty == [l \in {} |-> l]

-----------------------------------------------------------------------------
Init == /\ state = "Unconfigured"
        /\ jobs = Empty
        /\ pending_jobs = Empty
        /\ pending_events = <<>>
        /\ signals = {}
        /\ overrides \in [Labels -> {"none", "enabled", "disabled"}]
        /\ orphans = {}

\* handleEvent() reaches waitForEvent().
Looping == \/ state = "Running"
           \/ state = "GracefulShutdown" /\ DOMAIN jobs # {}

\* child_status: the jobs whose process exited before it could be watched.
EarlyExits == {l \in DOMAIN jobs : jobs[l].proc = "early"}

\* Both queues are empty: waitForEvent() asks the kernel.
Polling == Looping /\ EarlyExits = {} /\ pending_events = <<>>

\* Job::isDisabled with the overrides o.
IsDisabled(l, m, o) == o[l] = "disabled" \/ (o[l] = "none" /\ m.disabled)

-----------------------------------------------------------------------------
(* Loading and starting *)

\* Mutant: duplicates are not refused.
AnyLabel(f) == DOMAIN f

\* Manager::loadManifest for the manifests f, a function from some labels.
\* A duplicate is refused before its override is stored.
Fresh(f) == {l \in DOMAIN f : l \notin DOMAIN jobs /\ l \notin DOMAIN pending_jobs}

OverridesAfterLoad(f, override) ==
    [l \in Labels |-> IF override /\ l \in Fresh(f) THEN "enabled" ELSE overrides[l]]

Accepted(f, override, force) ==
    {l \in Fresh(f) : force \/ ( /\ ~f[l].disabled
                                 /\ OverridesAfterLoad(f, override)[l] # "disabled" )}

PendingAfterLoad(f, override, force) ==
    LET new == Accepted(f, override, force)
    IN [l \in DOMAIN pending_jobs \cup new |->
            IF l \in new THEN [moved |-> FALSE, manifest |-> f[l]] ELSE pending_jobs[l]]

\* Manager::startAllJobs over the pending jobs p, in the order of an
\* unordered_map: the jobs in done are started, and then the loop ends, or
\* stops at a job whose Bootstrap throws (leaving pending_jobs as it is), or
\* meets an entry it has already moved and aborts: assert(false), which the
\* default build keeps, or the use of a null unique_ptr.
StartAllJobs(p, next, onThrow) ==
    \E a \in [DOMAIN p -> StartAnswers] :
      LET Started(l)  == Bootstrap(NewJob(p[l].manifest), IsDisabled(l, p[l].manifest, overrides'), a[l])
          collides    == {l \in DOMAIN p : p[l].moved \/ l \in DOMAIN jobs}
          throws      == {l \in DOMAIN p \ collides : Started(l).threw}
          JobsWith(S) == [l \in DOMAIN jobs \cup S |->
                            IF l \in S THEN Started(l).job ELSE jobs[l]]
      IN \/ /\ collides \cup throws = {}
            /\ jobs' = JobsWith(DOMAIN p)
            /\ pending_jobs' = Empty
            /\ state' = next
         \/ \E done \in SUBSET (DOMAIN p \ (collides \cup throws)) :
              \/ \E l \in throws :
                   /\ jobs' = JobsWith(done \cup {l})
                   /\ pending_jobs' = [k \in DOMAIN p |->
                                         [p[k] EXCEPT !.moved = @ \/ k \in done \cup {l}]]
                   /\ state' = onThrow
              \/ /\ collides # {}
                 /\ jobs' = JobsWith(done)
                 /\ pending_jobs' = p
                 /\ state' = "Terminated"

\* The manifests of some labels: the files of one directory or request.
ManifestFiles == UNION {[S -> Manifests] : S \in SUBSET Labels}

\* launchd_main: startRunning() loads the default manifests and starts them.
\* An exception is not caught by anyone.
StartRunning ==
    /\ state = "Unconfigured"
    /\ \E f \in ManifestFiles :
         /\ overrides' = overrides
         /\ StartAllJobs(PendingAfterLoad(f, FALSE, FALSE), "Running", "Terminated")
    /\ UNCHANGED <<pending_events, signals, orphans>>

\* The socket is closed when the shutdown begins.
Serving == state = "Running" /\ Polling

\* _rpc_op_load, and _rpc_op_submit without options.  rpc_dispatch() catches
\* the exception of a failed start.
Load(override, force) ==
    /\ Serving
    /\ \E f \in ManifestFiles :
         /\ overrides' = OverridesAfterLoad(f, override)
         /\ StartAllJobs(PendingAfterLoad(f, override, force), "Running", "Running")
    /\ UNCHANGED <<pending_events, signals, orphans>>

-----------------------------------------------------------------------------
(* Unloading *)

\* unloadJob() of every job in S; tail is the queue the deletions go to.
UnloadJobs(S, force, tail) ==
    LET Unloaded(l) == UnloadJob(jobs[l], IsDisabled(l, jobs[l].manifest, overrides'), force)
    IN /\ jobs' = [l \in DOMAIN jobs |-> IF l \in S THEN Unloaded(l).job ELSE jobs[l]]
       /\ \E order \in Orders({l \in S : Unloaded(l).delete_job}) :
            pending_events' = tail \o [i \in DOMAIN order |-> DeleteJob(order[i])]

\* _rpc_op_unload for the files of the jobs in S, and _rpc_op_remove for one
\* label without options.  rpc_dispatch() catches exceptions.
Unload(S, override, force) ==
    /\ Serving
    /\ overrides' = [l \in Labels |-> IF override /\ l \in S THEN "disabled" ELSE overrides[l]]
    /\ UnloadJobs(S, force, pending_events)
    /\ UNCHANGED <<state, pending_jobs, signals, orphans>>

\* _rpc_op_enable, _rpc_op_disable
OverrideJobEnabled(l, value) ==
    /\ Serving
    /\ overrides' = [overrides EXCEPT ![l] = value]
    /\ UNCHANGED <<state, jobs, pending_jobs, pending_events, signals, orphans>>

\* _rpc_op_kill with a signal that asks the process to exit
Kill(l) ==
    /\ Serving
    /\ l \in DOMAIN jobs
    /\ jobs' = [jobs EXCEPT ![l] = KillJob(@)]
    /\ UNCHANGED <<state, pending_jobs, pending_events, signals, overrides, orphans>>

-----------------------------------------------------------------------------
(* The event loop *)

\* The callback of job l returned r; an exception ends the program.
Apply(l, r, tail) ==
    /\ jobs' = [jobs EXCEPT ![l] = r.job]
    /\ pending_events' = IF r.delete_job THEN Append(tail, DeleteJob(l)) ELSE tail
    /\ state' = IF r.threw THEN "Terminated" ELSE state

\* EpollImplementation::getSignalEvents: every pending signal, then every
\* zombie, goes to the queue.  gone are the orphans that have exited.
GetSignalEvents ==
    /\ Backend = "epoll"
    /\ Polling
    /\ \E gone \in SUBSET orphans :
         LET zombies == {l \in DOMAIN jobs : jobs[l].proc = "zombie"}
             caught  == {Caught(s) : s \in signals}
             exits   == {Exited(l) : l \in zombies} \cup {Orphaned(l) : l \in gone}
         IN /\ caught \cup exits # {}
            /\ \E s \in Orders(caught), e \in Orders(exits) : pending_events' = s \o e
            /\ jobs' = [l \in DOMAIN jobs |-> IF l \in zombies
                          THEN [jobs[l] EXCEPT !.proc = "reported"] ELSE jobs[l]]
            /\ signals' = {}
            /\ orphans' = orphans \ gone
    /\ UNCHANGED <<state, pending_jobs, overrides>>

\* KqueueImplementation::waitForEvent: kevent(2) returns one event.
KeventSignal(s) ==
    /\ Backend = "kqueue"
    /\ Polling
    /\ s \in signals
    /\ pending_events' = <<Caught(s)>>
    /\ signals' = signals \ {s}
    /\ UNCHANGED <<state, jobs, pending_jobs, overrides, orphans>>

KeventExit(l) ==
    /\ Backend = "kqueue"
    /\ Polling
    /\ l \in DOMAIN jobs
    /\ jobs[l].proc = "zombie"
    /\ pending_events' = <<Exited(l)>>
    /\ jobs' = [jobs EXCEPT ![l].proc = "reported"]
    /\ UNCHANGED <<state, pending_jobs, signals, overrides, orphans>>

KeventOrphan(l) ==
    /\ Backend = "kqueue"
    /\ Polling
    /\ l \in orphans
    /\ pending_events' = <<Orphaned(l)>>
    /\ orphans' = orphans \ {l}
    /\ UNCHANGED <<state, jobs, pending_jobs, signals, overrides>>

Next1 == pending_events[1]

\* getPendingEvent() empties child_status before it looks at pending_events.
Dispatching(type) ==
    Looping /\ EarlyExits = {} /\ pending_events # <<>> /\ Next1.type = type

\* The "delete_job" callback erases the job, and with it the object that the
\* callback of a process that is still watched refers to.
DispatchDelete ==
    LET l == Next1.arg
    IN /\ Dispatching("delete_job")
       /\ pending_events' = Tail(pending_events)
       /\ jobs' = [k \in DOMAIN jobs \ {l} |-> jobs[k]]
       /\ orphans' = IF l \in DOMAIN jobs /\ jobs[l].proc \notin {"none", "unwatched"}
                     THEN orphans \cup {l} ELSE orphans
       /\ UNCHANGED <<state, pending_jobs, signals, overrides>>

\* Mutant: the event stays in the queue.
DispatchExitAgain(a) ==
    LET l == Next1.arg
    IN /\ Dispatching("proc")
       /\ l \in DOMAIN jobs
       /\ Apply(l, OnExit(jobs[l], a), pending_events)
       /\ UNCHANGED <<pending_jobs, signals, overrides, orphans>>

\* The process of job l exited: the callback of startJob().
DispatchExit(a) ==
    LET l == Next1.arg
    IN /\ Dispatching("proc")
       /\ l \in DOMAIN jobs
       /\ Apply(l, OnExit(jobs[l], a), Tail(pending_events))
       /\ UNCHANGED <<pending_jobs, signals, overrides, orphans>>

\* The same callback, from child_status.
DispatchEarlyExit(l, a) ==
    /\ Looping
    /\ l \in EarlyExits
    /\ Apply(l, OnExit(jobs[l], a), pending_events)
    /\ UNCHANGED <<pending_jobs, signals, overrides, orphans>>

\* The callback runs on a destroyed Job: undefined, so it crashes or is harmless.
DispatchOrphan ==
    /\ Dispatching("orphan")
    /\ pending_events' = Tail(pending_events)
    /\ state' \in {state, "Terminated"}
    /\ UNCHANGED <<jobs, pending_jobs, signals, overrides, orphans>>

\* handleShutdownSignal() while Running: StopRequested, unloadAllJobs().
DispatchFirstSignal ==
    /\ Dispatching("signal")
    /\ state = "Running"
    /\ state' = "GracefulShutdown"
    /\ overrides' = overrides
    /\ UnloadJobs({l \in DOMAIN jobs : jobs[l].state # "Unloaded" /\ ~jobs[l].unload_requested},
                  TRUE, Tail(pending_events))
    /\ UNCHANGED <<pending_jobs, signals, orphans>>

\* handleShutdownSignal() while shutting down: forceUnloadAllJobs() kills and
\* reaps every process and its group, and clears jobs; AllJobsExited.
DispatchSecondSignal ==
    /\ Dispatching("signal")
    /\ state = "GracefulShutdown"
    /\ pending_events' = Tail(pending_events)
    /\ IF \E l \in DOMAIN jobs : ForceUnloadThrows(jobs[l])
       THEN state' = "Terminated" /\ UNCHANGED jobs
       ELSE state' = "Finished" /\ jobs' = Empty
    /\ UNCHANGED <<pending_jobs, signals, overrides, orphans>>

TimerFires(l, a) ==
    /\ Polling
    /\ l \in DOMAIN jobs
    /\ jobs[l].alarm = 0
    /\ Apply(l, OnTimer(jobs[l], a), pending_events)
    /\ UNCHANGED <<pending_jobs, signals, overrides, orphans>>

\* handleEvent() during the shutdown, once no job is left.
AllJobsExited ==
    /\ state = "GracefulShutdown"
    /\ jobs = Empty
    /\ state' = "Finished"
    /\ UNCHANGED <<jobs, pending_jobs, pending_events, signals, overrides, orphans>>

-----------------------------------------------------------------------------
(* The environment, while launchd runs *)

Alive == state \in {"Running", "GracefulShutdown"}

Environment(l, j) ==
    /\ Alive
    /\ jobs[l] # j
    /\ jobs' = [jobs EXCEPT ![l] = j]
    /\ UNCHANGED <<state, pending_jobs, pending_events, signals, overrides, orphans>>

\* A second passes for job l.  No property compares the clocks of two jobs.
Tick(l) == l \in DOMAIN jobs /\ Environment(l, Later(jobs[l]))

ProcessExits(l) ==
    /\ l \in DOMAIN jobs
    /\ jobs[l].proc = "alive"
    /\ Environment(l, [jobs[l] EXCEPT !.proc = "zombie"])

\* The process leaves other members in its group, or the last of them exits.
GroupChanges(l) ==
    /\ l \in DOMAIN jobs
    /\ jobs[l].group \/ jobs[l].proc \in {"alive", "early", "zombie"}
    /\ Environment(l, [jobs[l] EXCEPT !.group = ~@])

SignalArrives(s) ==
    /\ Alive
    /\ signals' = signals \cup {s}
    /\ UNCHANGED <<state, jobs, pending_jobs, pending_events, overrides, orphans>>

-----------------------------------------------------------------------------
Request ==
    \/ \E r \in Requests \cap LoadCommands :
         Load(r \in {"load -w", "load -wF"}, r \in {"load -F", "load -wF"})
    \/ \E r \in Requests \cap UnloadCommands, S \in SUBSET DOMAIN jobs :
         Unload(S, r \in {"unload -w", "unload -wF"}, r \in {"unload -F", "unload -wF"})
    \/ \E l \in Labels : \/ "enable" \in Requests /\ OverrideJobEnabled(l, "enabled")
                         \/ "disable" \in Requests /\ OverrideJobEnabled(l, "disabled")
                         \/ "kill" \in Requests /\ Kill(l)

Poll == \/ GetSignalEvents
        \/ \E s \in ShutdownSignals : KeventSignal(s)
        \/ \E l \in Labels : KeventExit(l) \/ KeventOrphan(l)
        \/ \E l \in Labels, a \in Answers : TimerFires(l, a)

Dispatch ==
    \/ DispatchDelete
    \/ \E a \in Answers : DispatchExit(a)
    \/ \E l \in Labels, a \in Answers : DispatchEarlyExit(l, a)
    \/ DispatchOrphan
    \/ DispatchFirstSignal
    \/ DispatchSecondSignal

Environs == \/ \E l \in Labels : Tick(l) \/ ProcessExits(l) \/ GroupChanges(l)
            \/ \E s \in ShutdownSignals : SignalArrives(s)

Next == StartRunning \/ Request \/ Poll \/ Dispatch \/ AllJobsExited \/ Environs

Spec == Init /\ [][Next]_vars

(***************************************************************************)
(* Fairness.  The loop always returns to waitForEvent(), and the kernel    *)
(* hands out ready events in turn, so an event that stays ready is         *)
(* delivered even if requests keep coming (strong fairness per event).     *)
(* Time passes.  A process that was asked to exit does so: nothing in the  *)
(* code enforces it (ExitTimeOut is never read), so it is an assumption on *)
(* the jobs.                                                               *)
(***************************************************************************)
Fairness ==
    /\ WF_vars(StartRunning) /\ WF_vars(Dispatch) /\ WF_vars(AllJobsExited)
    /\ SF_vars(GetSignalEvents)
    /\ \A s \in ShutdownSignals : SF_vars(KeventSignal(s))
    /\ \A l \in Labels : /\ SF_vars(KeventExit(l))
                         /\ SF_vars(\E a \in Answers : TimerFires(l, a))
                         /\ WF_vars(Tick(l))
                         /\ WF_vars(ProcessExits(l) /\ jobs[l].asked_to_exit)

FairSpec == Spec /\ Fairness

-----------------------------------------------------------------------------
(* Properties *)

EventsOf(e) == {i \in DOMAIN pending_events : pending_events[i] = e}

\* Every variable has its type: jobs are job records, the queue holds events.
TypeOK ==
    /\ state \in States
    /\ DOMAIN jobs \subseteq Labels /\ jobs \in [DOMAIN jobs -> JobType]
    /\ DOMAIN pending_jobs \subseteq Labels
    /\ pending_jobs \in [DOMAIN pending_jobs -> [moved : BOOLEAN, manifest : Manifests]]
    /\ pending_events \in Seq(Events)
    /\ signals \subseteq ShutdownSignals
    /\ overrides \in [Labels -> {"none", "enabled", "disabled"}]
    /\ orphans \subseteq Labels

\* A queued "delete_job" callback finds its job by label only, when it runs.
\* It always finds the job that queued it, in the Unloaded state; no job
\* queues two; and no job is Unloaded without one, which would keep it in
\* jobs for ever.
DeletionExact == Alive =>
    /\ \A l \in Labels : \A i \in EventsOf(DeleteJob(l)) :
          /\ l \in DOMAIN jobs
          /\ jobs[l].state = "Unloaded"
          /\ EventsOf(DeleteJob(l)) = {i}
    /\ \A l \in DOMAIN jobs :
          jobs[l].state = "Unloaded" => EventsOf(DeleteJob(l)) # {}

\* The exit of a process reaches its job exactly once: the queue holds one
\* exit event for every job whose process was reported dead, none for
\* others, and none behind the deletion of the job.
ExitDeliveredOnce == Alive =>
    /\ \A l \in Labels : \A i \in EventsOf(Exited(l)) :
          /\ l \in DOMAIN jobs
          /\ jobs[l].proc = "reported"
          /\ EventsOf(Exited(l)) = {i}
          /\ \A k \in EventsOf(DeleteJob(l)) : i < k
    /\ \A l \in DOMAIN jobs :
          jobs[l].proc = "reported" => EventsOf(Exited(l)) # {}

\* startJob() is never called while the job's process exists, whichever of
\* load, exit, throttle timer and periodic timer calls it: pid is that of
\* the process as long as there is one.
NoLostProcess ==
    \A l \in DOMAIN jobs : /\ ~jobs[l].lost
                           /\ jobs[l].pid = 1 <=> jobs[l].proc # "none"

\* A job with a timer is Waiting and has no process, so a timer never starts
\* a second process and no timer outlives its purpose.
TimerExclusive ==
    \A l \in DOMAIN jobs :
        /\ jobs[l].timer_id # "none" => jobs[l].state = "Waiting" /\ jobs[l].proc = "none"
        /\ jobs[l].alarm # Never => jobs[l].timer_id # "none"

\* Once the exit of a process was handled nobody of its process group is
\* left, unless AbandonProcessGroup is set or, with kqueue, the process exited
\* before getpgid(2) and left pgid = -1: on no other path is a group forgotten.
NoSurvivors ==
    \A l \in DOMAIN jobs :
        jobs[l].group => \/ jobs[l].proc # "none"
                         \/ jobs[l].manifest.abandon_process_group
                         \/ Backend = "kqueue" /\ jobs[l].pgid = -1

\* A job without StartInterval has no process when it is Unloaded: deleting
\* it leaves no process behind and no callback on a destroyed Job.
UnloadedIsDown ==
    \A l \in DOMAIN jobs :
        jobs[l].state = "Unloaded" /\ jobs[l].manifest.start_interval = NoInterval
            => jobs[l].proc = "none"

\* During the shutdown every job left was told to unload.
ShutdownReachesAll ==
    state = "GracefulShutdown" => \A l \in DOMAIN jobs : jobs[l].unload_requested

\* A process was started between two states of a job.  (A process that exits
\* early and is followed by another that exits early is not told apart.)
Starts(j, k) == /\ k.proc # j.proc
                /\ \/ k.proc \in {"alive", "early", "unwatched"}
                   \/ k.proc = "zombie" /\ j.proc # "alive"

\* A job whose unload was accepted never gets a process again: neither the
\* restart of a KeepAlive job nor a timer revives it.
StoppedStaysDown ==
    [][\A l \in DOMAIN jobs \cap DOMAIN jobs' :
          jobs[l].stopping => ~Starts(jobs[l], jobs'[l])]_vars

\* A KeepAlive job is not started again before throttle_interval seconds have
\* passed since its last start, on whichever path it restarts.
ThrottleHonoured ==
    [][\A l \in DOMAIN jobs \cap DOMAIN jobs' :
          jobs[l].manifest.keep_alive /\ Starts(jobs[l], jobs'[l])
              => jobs[l].elapsed >= jobs[l].manifest.throttle_interval]_vars

\* A job whose unloadJob() was called is eventually erased from jobs: by
\* "delete_job" at once, or once its process has answered SIGTERM.
UnloadCompletes ==
    \A l \in Labels :
        (l \in DOMAIN jobs /\ jobs[l].unload_requested) ~> (l \notin DOMAIN jobs)

\* After a shutdown signal handleEvent() eventually finds no job left and the
\* main loop ends.
ShutdownCompletes == (state = "GracefulShutdown") ~> (state = "Finished")

\* A KeepAlive job whose process exited gets one again, from the exit callback
\* or from the throttle timer, unless it is unloaded or launchd has crashed.
KeepAliveRestarts ==
    \A l \in Labels :
        ( /\ l \in DOMAIN jobs
          /\ jobs[l].manifest.keep_alive
          /\ jobs[l].state \in {"Running", "Waiting"} ) ~>
        (l \in DOMAIN jobs => \/ jobs[l].proc \in {"alive", "early"}
                              \/ jobs[l].unload_requested
                              \/ state = "Terminated")

\* A RunAtLoad job with StartInterval whose process has exited: ProcessExited
\* has no row for it, so it stays Running, and no row unloads a Running job
\* without an exit.
Stranded(j) == /\ j.state = "Running" /\ j.proc = "none"
               /\ j.manifest.start_interval # NoInterval /\ ~j.manifest.keep_alive

\* An unload comes to its end for every kind of job except a stranded one, as
\* long as no callback of a destroyed job ends launchd.
UnloadEnds ==
    \A l \in Labels :
        (l \in DOMAIN jobs /\ jobs[l].unload_requested) ~>
        (l \in DOMAIN jobs => Stranded(jobs[l]) \/ state = "Terminated")

\* A shutdown comes to its end, or all that is left are stranded jobs: nobody
\* else holds it up, in whatever order exits, timers and deletions come.
ShutdownEnds ==
    (state = "GracefulShutdown") ~>
        \/ state \in {"Finished", "Terminated"}
        \/ DOMAIN jobs # {} /\ \A l \in DOMAIN jobs : Stranded(jobs[l])

\* Without a failing call launchd crashes only in the callback of a destroyed
\* job: no order of loads, unloads and signals meets an assertion or throws
\* where nobody catches.
OnlyOrphansCrash == [][state' = "Terminated" => Dispatching("orphan")]_vars

\* A request ends launchd, by the assertion of startAllJobs(), only if an
\* earlier start threw and left pending_jobs with an entry already moved to
\* jobs.  No other request meets a job that is both pending and loaded.
AssertionExplained ==
    [][state' = "Terminated" /\ Request
          => \E l \in DOMAIN pending_jobs : pending_jobs[l].moved]_vars

\* The refinement mapping: what a user of launchd sees of its state.
Sup == INSTANCE Supervisor WITH
    phase <- CASE state = "Unconfigured"     -> "starting"
               [] state = "Running"          -> "running"
               [] state = "GracefulShutdown" -> "stopping"
               [] state = "Finished"         -> "over"
               [] OTHER                      -> "crashed",
    mode  <- [l \in Labels |-> IF l \notin DOMAIN jobs THEN "absent"
                              ELSE IF jobs[l].stopping THEN "stopping"
                              ELSE IF jobs[l].unload_requested THEN "asked" ELSE "kept"],
    live  <- {l \in DOMAIN jobs : /\ jobs[l].proc = "alive"
                                  /\ jobs[l].manifest.start_interval = NoInterval}

\* The manager, its jobs and its queue implement the abstract supervisor, for
\* jobs without StartInterval: no interleaving of exits, timers, requests and
\* signals starts a process for a stopping job, removes a job before its
\* process is gone, or loads one after the shutdown began.
ImplementsSupervisor == Sup!Spec

-----------------------------------------------------------------------------
\* The inductive invariant of ManagerProofs: the safety invariants above
\* follow from it.
Inv == /\ TypeOK
       /\ \A l \in DOMAIN jobs : JobInv(jobs[l])
       /\ state = "Unconfigured" => pending_events = <<>> /\ DOMAIN jobs = {}
       /\ DeletionExact
       /\ ExitDeliveredOnce
       /\ ShutdownReachesAll
=============================================================================
