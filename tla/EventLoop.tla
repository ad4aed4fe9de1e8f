----------------------------- MODULE EventLoop -----------------------------
(***************************************************************************)
(* The event loop of src/src/event.h below the abstraction of Manager: the *)
(* callback maps keyed by pid and by timer id, the sets of watched pids    *)
(* and timer descriptors, and the kernel that gives out pids, raises       *)
(* SIGCHLD and keeps zombies.  A pid may be given out again as soon as its *)
(* last owner was reaped.                                                  *)
(*                                                                         *)
(* The clients are jobs reduced to what they do with the loop: a callback  *)
(* of a job may start its next process, set a timer, or do nothing.        *)
(***************************************************************************)
EXTENDS Integers, Sequences, FiniteSets

CONSTANTS
    Backends,     \* "epoll" and "kqueue": the build has one of them
    Jobs,
    Abandoning,   \* jobs with AbandonProcessGroup
    Pids,         \* the pids the kernel gives out
    MaxProcesses, \* bound: processes started in a behaviour
    MaxTimers     \* bound: timers set in a behaviour

ASSUME LoopAssumption == /\ Backends \subseteq {"epoll", "kqueue"}
                         /\ Abandoning \subseteq Jobs
                         /\ MaxProcesses \in Nat /\ MaxTimers \in Nat

VARIABLES
    backend,
    procs,              \* every process ever started, in order
    current,            \* of each job: the index of its process in procs, or 0
    sigchld,            \* SIGCHLD is pending in the kernel (epoll)
    reaping,            \* getSignalEvents() is between read(2) and the end of waitpid(2)
    watch_pids,         \* watched pids (epoll)
    knotes,             \* indices of the processes that kevent(2) watches (kqueue)
    child_status,       \* from pids to the status that waitForProcess() found (kqueue)
    pending_events,     \* indices of the processes whose proc_event is queued
    process_callbacks,  \* from pids to jobs
    terminated,         \* an exception has left the loop
    timer_id,           \* of each job: the id of its timer, or 0
    timer_id_max,
    timer_callbacks,    \* from timer ids to jobs
    timerfd_map,        \* timer ids that own an open descriptor (epoll)
    armed               \* timer ids that the kernel will still fire

procVars  == <<procs, current, sigchld, reaping, watch_pids, knotes, child_status,
               pending_events, process_callbacks, terminated>>
timerVars == <<timer_id, timer_id_max, timer_callbacks, timerfd_map, armed>>
vars      == <<backend, procVars, timerVars>>

Empty == [x \in {} |-> x]
Remove(f, x) == [y \in DOMAIN f \ {x} |-> f[y]]

\* Mutant: an entry that is there is replaced.
Assign(f, x, v) == [y \in DOMAIN f \cup {x} |-> IF y = x THEN v ELSE f[y]]

\* unordered_map::insert and emplace: an entry that is there stays as it is.
Insert(f, x, v) == [y \in DOMAIN f \cup {x} |-> IF y \in DOMAIN f THEN f[y] ELSE v]

Init == /\ backend \in Backends
        /\ procs = <<>> /\ current = [j \in Jobs |-> 0]
        /\ sigchld = FALSE /\ reaping = FALSE
        /\ watch_pids = {} /\ knotes = {} /\ child_status = Empty
        /\ pending_events = <<>> /\ process_callbacks = Empty
        /\ terminated = FALSE
        /\ timer_id = [j \in Jobs |-> 0] /\ timer_id_max = 0
        /\ timer_callbacks = Empty /\ timerfd_map = {} /\ armed = {}

\* waitForEvent() with nothing queued asks the kernel.
Polling == ~terminated /\ ~reaping /\ DOMAIN child_status = {} /\ pending_events = <<>>

InUse(ps) == {ps[i].pid : i \in {k \in DOMAIN ps : ps[k].state \in {"alive", "zombie"}}}

-----------------------------------------------------------------------------
(* Processes.  The part of the state that one callback changes is passed   *)
(* along as a record, because a callback makes several calls.              *)

Loop == [procs |-> procs, current |-> current, watch_pids |-> watch_pids, knotes |-> knotes,
         child_status |-> child_status, process_callbacks |-> process_callbacks]

Return(s) == /\ procs' = s.procs /\ current' = s.current
             /\ watch_pids' = s.watch_pids /\ knotes' = s.knotes
             /\ child_status' = s.child_status
             /\ process_callbacks' = s.process_callbacks

\* fork(2) for job j: the new process.  grouped: getpgid(2) finds its group;
\* reused: an older entry of process_callbacks still has its pid.
Forked(s, j, pid) ==
    [s EXCEPT !.procs = Append(@, [job |-> j, pid |-> pid, state |-> "alive",
                                   grouped |-> TRUE, reported |-> FALSE, missed |-> FALSE,
                                   reused |-> pid \in DOMAIN s.process_callbacks]),
              !.current[j] = Len(s.procs) + 1]

\* How run() and addProcess() can end: epoll relies on SIGCHLD.
Fates == IF backend = "epoll" THEN {"signal"} ELSE {"watched", "zombie", "reaped", "missed"}

\* Mutant: the callback is not registered for a process that is gone.
AddProcessIfWatched(s, fate) ==
    LET i   == Len(s.procs)
        pid == s.procs[i].pid
        t   == [s EXCEPT !.process_callbacks = Insert(@, pid, s.procs[i].job)]
    IN CASE fate = "signal"    -> [t EXCEPT !.watch_pids = @ \cup {pid}]
         [] fate = "watched"   -> [t EXCEPT !.knotes = @ \cup {i}]
         [] fate = "zombie"    -> [t EXCEPT !.knotes = @ \cup {i},
                                            !.procs[i].state = "zombie",
                                            !.procs[i].grouped = FALSE]
         [] OTHER              -> [s EXCEPT !.child_status = Insert(@, pid, i),
                                            !.procs[i].state = "gone"]

\* addProcess() for the newest process.  With kqueue it may have exited already:
\* before getpgid(2), while kevent(2) still attaches to the zombie; or kevent(2)
\* fails, and its status goes to child_status, or -1 if waitpid(2) has none yet.
AddProcess(s, fate) ==
    LET i   == Len(s.procs)
        pid == s.procs[i].pid
        t   == [s EXCEPT !.process_callbacks = Insert(@, pid, s.procs[i].job)]
    IN CASE fate = "signal"    -> [t EXCEPT !.watch_pids = @ \cup {pid}]
         [] fate = "watched"   -> [t EXCEPT !.knotes = @ \cup {i}]
         [] fate = "zombie"    -> [t EXCEPT !.knotes = @ \cup {i},
                                            !.procs[i].state = "zombie",
                                            !.procs[i].grouped = FALSE]
         [] fate = "reaped"    -> [t EXCEPT !.child_status = Insert(@, pid, i),
                                            !.procs[i].state = "gone"]
         [] OTHER              -> [t EXCEPT !.child_status = Insert(@, pid, -1),
                                            !.procs[i].state = "zombie",
                                            !.procs[i].missed = TRUE]

\* deleteProcess()
DeleteProcess(s, pid) ==
    [s EXCEPT !.process_callbacks = Remove(@, pid),
              !.watch_pids = @ \ {pid},
              !.knotes = IF pid \in DOMAIN s.child_status THEN @
                         ELSE {i \in @ : s.procs[i].pid # pid}]

\* startJob() of a job without a process.
StartedWith(s, j, pid, fate) == AddProcess(Forked(s, j, pid), fate)

Startable(s, j) == /\ s.current[j] = 0
                   /\ Len(s.procs) < MaxProcesses

\* Mutant: no waitpid(2).
ReapNobody(s, j, i) == [s EXCEPT !.current[j] = 0, !.procs[i].reported = TRUE]

\* Mutant: the job's process becomes -1.
ReapToMinusOne(s, j, i) == [s EXCEPT !.current[j] = -1, !.procs[i].state = "gone"]

\* killProcessGroup() returns early, for an unknown and for an abandoned group.
LeavesGroup(s, j, i) == ~s.procs[i].grouped \/ j \in Abandoning

\* The job's callback for the exit of process i: reapChildProcess().  The
\* waitpid(2) of killProcessGroup() is the only one that reaps with kqueue.
ReapChild(s, j, i) ==
    [s EXCEPT !.current[j] = 0,
              !.procs[i].reported = TRUE,
              !.procs[i].state = IF LeavesGroup(s, j, i) THEN @ ELSE "gone"]

\* waitForEvent() for a proc_event: the callback, which may start the job
\* again, and then deleteProcess().
Dispatched(s, i) ==
    LET pid == procs[i].pid
        job == process_callbacks[pid]
        r   == ReapChild(s, job, i)
        new == IF Startable(r, job)
               THEN {StartedWith(r, job, p, fate) : p \in Pids \ InUse(r.procs), fate \in Fates}
               ELSE {}
    IN {DeleteProcess(t, pid) : t \in {r} \cup new}

\* process_callbacks.at() throws for a pid that is not there.
Dispatch(s, i) ==
    IF procs[i].pid \in DOMAIN process_callbacks
    THEN (\E t \in Dispatched(s, i) : Return(t)) /\ UNCHANGED terminated
    ELSE terminated' = TRUE /\ Return(s)

-----------------------------------------------------------------------------
(* The steps of the loop *)

\* A request starts a job.
Start(j) ==
    /\ Polling
    /\ Startable(Loop, j) /\ timer_id[j] = 0
    /\ \E pid \in Pids \ InUse(procs), fate \in Fates :
         Return(StartedWith(Loop, j, pid, fate))
    /\ UNCHANGED <<backend, sigchld, reaping, pending_events, terminated, timerVars>>

\* getSignalEvents() empties the signalfd ...
ReadSignals ==
    /\ backend = "epoll"
    /\ Polling
    /\ sigchld
    /\ sigchld' = FALSE
    /\ reaping' = TRUE
    /\ UNCHANGED <<backend, procs, current, watch_pids, knotes, child_status, pending_events,
                   process_callbacks, terminated, timerVars>>

\* ... and reaps every zombie, watched or not ...
ReapZombie(i) ==
    /\ reaping
    /\ i \in DOMAIN procs /\ procs[i].state = "zombie"
    /\ procs' = [procs EXCEPT ![i].state = "gone"]
    /\ IF procs[i].pid \in watch_pids
       THEN /\ pending_events' = Append(pending_events, i)
            /\ watch_pids' = watch_pids \ {procs[i].pid}
       ELSE UNCHANGED <<pending_events, watch_pids>>
    /\ UNCHANGED <<backend, current, sigchld, reaping, knotes, child_status, process_callbacks,
                   terminated, timerVars>>

NoZombie == \A i \in DOMAIN procs : procs[i].state # "zombie"

\* Mutant: the signals are read after the zombies were reaped.
ReadSignalsLast ==
    /\ reaping
    /\ NoZombie \/ sigchld
    /\ reaping' = FALSE
    /\ sigchld' = FALSE
    /\ UNCHANGED <<backend, procs, current, watch_pids, knotes, child_status, pending_events,
                   process_callbacks, terminated, timerVars>>

\* ... until waitpid(2) finds none.
ReapingEnds ==
    /\ reaping
    /\ NoZombie
    /\ reaping' = FALSE
    /\ UNCHANGED <<backend, procs, current, sigchld, watch_pids, knotes, child_status,
                   pending_events, process_callbacks, terminated, timerVars>>

DispatchPending ==
    /\ ~terminated /\ ~reaping
    /\ pending_events # <<>>
    /\ pending_events' = Tail(pending_events)
    /\ Dispatch(Loop, Head(pending_events))
    /\ UNCHANGED <<backend, sigchld, reaping, timerVars>>

\* kevent(2) returns an exit; the knote is one-shot.
Kevent(i) ==
    /\ backend = "kqueue"
    /\ Polling
    /\ i \in knotes /\ procs[i].state = "zombie"
    /\ Dispatch([Loop EXCEPT !.knotes = @ \ {i}], i)
    /\ UNCHANGED <<backend, sigchld, reaping, pending_events, timerVars>>

\* getPendingEvent() takes a status from child_status.  The status -1 looks
\* like that of a stopped process, so the callback does nothing.
DispatchEarly(pid) ==
    /\ ~terminated
    /\ pid \in DOMAIN child_status
    /\ LET s == [Loop EXCEPT !.child_status = Remove(@, pid)]
       IN IF child_status[pid] # -1 THEN Dispatch(s, child_status[pid])
          ELSE /\ terminated' = (pid \notin DOMAIN process_callbacks)
               /\ Return(IF terminated' THEN s ELSE DeleteProcess(s, pid))
    /\ UNCHANGED <<backend, sigchld, reaping, pending_events, timerVars>>

-----------------------------------------------------------------------------
(* Timers *)

\* Between two steps of the loop a callback of a job is at work.
InCallback == ~terminated /\ ~reaping

\* A job without a process waits: addTimer().
AddTimer(j) ==
    /\ InCallback
    /\ current[j] = 0 /\ timer_id[j] = 0
    /\ timer_id_max < MaxTimers
    /\ LET id == timer_id_max + 1
       IN /\ timer_id_max' = id
          /\ timer_id' = [timer_id EXCEPT ![j] = id]
          /\ timer_callbacks' = Insert(timer_callbacks, id, j)
          /\ timerfd_map' = IF backend = "epoll" THEN timerfd_map \cup {id} ELSE timerfd_map
          /\ armed' = armed \cup {id}
    /\ UNCHANGED <<backend, procVars>>

\* The timer expires: the callback clears the job's timer_id and starts the
\* job.  Neither the callback nor the descriptor is released.
TimerFires(id) ==
    /\ Polling
    /\ id \in armed
    /\ armed' = armed \ {id}
    /\ LET j == timer_callbacks[id]
       IN /\ timer_id' = [timer_id EXCEPT ![j] = 0]
          /\ \/ /\ Startable(Loop, j)
                /\ \E pid \in Pids \ InUse(procs), fate \in Fates :
                     Return(StartedWith(Loop, j, pid, fate))
             \/ Return(Loop)   \* the start failed
    /\ UNCHANGED <<backend, sigchld, reaping, pending_events, terminated, timer_id_max,
                   timer_callbacks, timerfd_map>>

\* Mutant: the timer is forgotten and not stopped.
ForgetTimer(j) ==
    /\ InCallback
    /\ timer_id[j] # 0
    /\ timer_id' = [timer_id EXCEPT ![j] = 0]
    /\ timer_callbacks' = Remove(timer_callbacks, timer_id[j])
    /\ UNCHANGED <<backend, procVars, timer_id_max, timerfd_map, armed>>

\* cancelTimer(), deleteTimer(), ignoreTimer().  With epoll the descriptor is
\* closed and then an exception skips what is left: the callback and timer_id
\* stay.  A second attempt throws before it changes anything.
CancelTimer(j) ==
    /\ InCallback
    /\ timer_id[j] # 0
    /\ armed' = armed \ {timer_id[j]}
    /\ timerfd_map' = timerfd_map \ {timer_id[j]}
    /\ IF backend = "epoll" THEN UNCHANGED <<timer_id, timer_callbacks>>
       ELSE /\ timer_id' = [timer_id EXCEPT ![j] = 0]
            /\ timer_callbacks' = Remove(timer_callbacks, timer_id[j])
    /\ UNCHANGED <<backend, procVars, timer_id_max>>

-----------------------------------------------------------------------------
(* The environment *)

ProcessExits(i) ==
    /\ ~terminated
    /\ i \in DOMAIN procs /\ procs[i].state = "alive"
    /\ procs' = [procs EXCEPT ![i].state = "zombie"]
    /\ sigchld' = (backend = "epoll")
    /\ UNCHANGED <<backend, current, reaping, watch_pids, knotes, child_status, pending_events,
                   process_callbacks, terminated, timerVars>>

Indices == 1 .. MaxProcesses

LoopStep == \/ ReadSignals \/ ReapingEnds \/ DispatchPending
            \/ \E i \in Indices : ReapZombie(i) \/ Kevent(i)
            \/ \E pid \in Pids : DispatchEarly(pid)

Next == \/ LoopStep
        \/ \E j \in Jobs : Start(j) \/ AddTimer(j) \/ CancelTimer(j)
        \/ \E id \in 1 .. MaxTimers : TimerFires(id)
        \/ \E i \in Indices : ProcessExits(i)

Spec == Init /\ [][Next]_vars

(***************************************************************************)
(* The loop goes on and kevent(2) hands out every exit in turn; requests   *)
(* and timers may always come in between.                                  *)
(***************************************************************************)
FairSpec == /\ Spec
            /\ SF_vars(ReadSignals) /\ WF_vars(ReapingEnds) /\ WF_vars(DispatchPending)
            /\ \A i \in Indices : WF_vars(ReapZombie(i)) /\ SF_vars(Kevent(i))
            /\ \A pid \in Pids : WF_vars(DispatchEarly(pid))

-----------------------------------------------------------------------------
(* Properties *)

Statuses == DOMAIN procs \cup {-1}

\* The loop's tables have their types.
TypeOK ==
    /\ \A i \in DOMAIN procs : procs[i].job \in Jobs /\ procs[i].pid \in Pids
                                  /\ procs[i].state \in {"alive", "zombie", "gone"}
    /\ current \in [Jobs -> {0} \cup DOMAIN procs]
    /\ watch_pids \subseteq Pids /\ knotes \subseteq DOMAIN procs
    /\ child_status \in [DOMAIN child_status -> Statuses] /\ DOMAIN child_status \subseteq Pids
    /\ process_callbacks \in [DOMAIN process_callbacks -> Jobs]
    /\ DOMAIN process_callbacks \subseteq Pids
    /\ armed \subseteq 1 .. MaxTimers /\ timerfd_map \subseteq 1 .. MaxTimers

\* An exit is attributed by pid alone, after the pid may have been given to
\* another process.  Still the callback that runs for a process is that of the
\* job it belongs to, while it is that job's current one, and it runs once.
RightProcess ==
    [][\A i \in DOMAIN procs : procs'[i].reported # procs[i].reported
          => /\ ~procs[i].reported
             /\ current[procs[i].job] = i
             /\ current'[procs[i].job] # i]_vars

\* The loop knows of process i: its exit will reach its job.
Known(i) ==
    /\ procs[i].pid \in DOMAIN process_callbacks
    /\ process_callbacks[procs[i].pid] = procs[i].job
    /\ \/ procs[i].pid \in watch_pids
       \/ i \in knotes
       \/ \E k \in DOMAIN pending_events : pending_events[k] = i
       \/ procs[i].pid \in DOMAIN child_status

\* A process is lost to the loop only if its pid was still registered for a
\* process before it, or if its status could not be read (missed).
LostOnlyByReuse ==
    terminated \/ \A i \in DOMAIN procs :
        procs[i].reported \/ procs[i].reused \/ procs[i].missed \/ Known(i)

\* No lookup by pid throws unless a pid was reused while registered.
LookupsSucceed == terminated => \E i \in DOMAIN procs : procs[i].reused

\* A zombie that getSignalEvents() is not about to reap is announced by a
\* pending SIGCHLD, however exits and the draining of signals interleave.
NoLostWakeup ==
    backend = "epoll" /\ ~reaping /\ ~NoZombie => sigchld

\* Whoever is reported is reaped, except, with kqueue, the process of a job with
\* AbandonProcessGroup and one that exited before getpgid(2):
\* killProcessGroup() returns before its waitpid(2).
ReportedIsReaped ==
    \A i \in DOMAIN procs : procs[i].reported /\ procs[i].state = "zombie"
        => backend = "kqueue" /\ (procs[i].job \in Abandoning \/ ~procs[i].grouped)

\* An armed timer is the one its job knows, so it can be cancelled and never
\* fires for a job that has moved on; ids are never given out twice; and every
\* descriptor is found in timerfd_map as long as its timer is armed.
TimersKnown ==
    /\ \A id \in armed : /\ id \in DOMAIN timer_callbacks
                         /\ timer_id[timer_callbacks[id]] = id
                         /\ current[timer_callbacks[id]] = 0
                         /\ backend = "epoll" => id \in timerfd_map
    /\ \A id \in DOMAIN timer_callbacks : id <= timer_id_max

\* Every exit reaches its job in the end, unless the pid was reused while
\* registered or the status was missed.
ExitReported ==
    \A i \in Indices :
        ( /\ i \in DOMAIN procs
          /\ procs[i].state # "alive" /\ ~procs[i].reused /\ ~procs[i].missed )
            ~> (terminated \/ (i \in DOMAIN procs /\ procs[i].reported))
=============================================================================
