-------------------------- MODULE SupervisorProofs --------------------------
(***************************************************************************)
(* What a step of launchd may do to its jobs, for every instance: a job    *)
(* that is stopping never gets a process again, a KeepAlive job is not     *)
(* restarted before its throttle interval is over, a request aborts        *)
(* launchd only after a start that threw, and the manager implements the   *)
(* abstract Supervisor.                                                    *)
(*                                                                         *)
(* The argument: every method of a job makes a change that Legal allows    *)
(* (first part), every action of the manager applies methods to some jobs, *)
(* adds new ones or removes Unloaded ones (second part), and such a step   *)
(* of the manager is a step of Supervisor (last part).                     *)
(***************************************************************************)
EXTENDS ManagerProofs

HIDE DEF Done, Threw, Deleted, NoInterval, Never, JobInv, KnowsItsProcess, TimerIsExclusive,
         GroupIsOwned, StateFitsProcess, ThrottleIsKept, UnloadIsMarked

-----------------------------------------------------------------------------
(* The methods of a job *)

\* A callback or request may turn job j into k: it starts a process only for a
\* job that is not stopping, and for a KeepAlive job not too early; and it
\* changes what the job was asked only once, without touching its process.
Legal(j, k) ==
    /\ k.manifest = j.manifest
    /\ Starts(j, k) => /\ ~j.stopping
                       /\ j.manifest.keep_alive => j.elapsed >= j.manifest.throttle_interval
    /\ \/ k.stopping = j.stopping /\ k.unload_requested = j.unload_requested
       \/ /\ ~j.stopping /\ ~j.unload_requested
          /\ k.unload_requested /\ k.proc = j.proc

\* What was asked of the job stays.
SameRequest(j, k) == /\ k.manifest = j.manifest
                     /\ k.stopping = j.stopping /\ k.unload_requested = j.unload_requested

\* A transition of the state machine changes the state only.
LEMMA GotoKeeps ==
    ASSUME NEW r \in ResultType, NEW s \in JobStates
    PROVE  SameRequest(r.job, Goto(r, s).job) /\ Goto(r, s).job.proc = r.job.proc
<1>1. /\ r.threw => Goto(r, s) = r
      /\ ~r.threw => Goto(r, s).job = [r.job EXCEPT !.state = s]
      /\ r.job \in JobType
  BY GotoResult DEF ResultType
<1> QED  BY <1>1 DEF JobType, SameRequest

\* Job::startJob and its transition.
LEMMA StartKeeps ==
    ASSUME NEW j \in JobType, NEW a \in Answers
    PROVE  /\ SameRequest(j, StartJob(j, a).job)
           /\ SameRequest(j, Goto(StartJob(j, a), "Running").job)
<1> DEFINE r == StartJob(j, a)
<1>1. r \in ResultType /\ SameRequest(j, r.job)
  BY StartJobResult DEF SameRequest
<1> HIDE DEF r
<1>2. SameRequest(r.job, Goto(r, "Running").job)
  BY <1>1, GotoKeeps DEF JobStates
<1> QED  BY <1>1, <1>2 DEF r, SameRequest

\* Setting a timer and its transition.
LEMMA TimerKeeps ==
    ASSUME NEW j \in JobType, NEW a \in Answers, NEW ms \in Int,
           NEW id \in {"throttle", "periodic"}
    PROVE  LET k == Goto(MonitorTimer(j, id, ms, a), "Waiting").job
           IN SameRequest(j, k) /\ k.proc = j.proc
<1> DEFINE r == MonitorTimer(j, id, ms, a)
<1>1. TimerSet(j, id, ms, r)
  BY MonitorTimerResult
<1> HIDE DEF r
<1>2. r \in ResultType /\ SameRequest(j, r.job) /\ r.job.proc = j.proc
  <2>1. CASE r.threw
    BY <1>1, <2>1 DEF TimerSet, SameRequest
  <2>2. CASE ~r.threw
    <3>1. r.job = [j EXCEPT !.timer_id = id, !.alarm = r.job.alarm]
      BY <1>1, <2>2 DEF TimerSet
    <3>2. /\ [j EXCEPT !.timer_id = id, !.alarm = r.job.alarm].manifest = j.manifest
          /\ [j EXCEPT !.timer_id = id, !.alarm = r.job.alarm].stopping = j.stopping
          /\ [j EXCEPT !.timer_id = id, !.alarm = r.job.alarm].proc = j.proc
          /\ [j EXCEPT !.timer_id = id, !.alarm = r.job.alarm].unload_requested
                = j.unload_requested
      BY DEF JobType
    <3>3. r \in ResultType
      BY <1>1 DEF TimerSet
    <3> QED  BY <3>1, <3>2, <3>3 DEF SameRequest
  <2> QED  BY <2>1, <2>2
<1>3. SameRequest(r.job, Goto(r, "Waiting").job) /\ Goto(r, "Waiting").job.proc = r.job.proc
  BY <1>2, GotoKeeps DEF JobStates
<1>4. SameRequest(j, Goto(r, "Waiting").job) /\ Goto(r, "Waiting").job.proc = j.proc
  BY <1>2, <1>3 DEF SameRequest
<1> QED  BY <1>4 DEF r

\* The ProcessExited trigger starts a process only for a KeepAlive job that
\* nobody asked to unload and whose throttle interval is over.
LEMMA ProcessExitedStarts ==
    ASSUME NEW j \in JobType, NEW a \in Answers, JobInv(j), j.proc = "none"
    PROVE  LET k == ProcessExited(j, a).job
           IN /\ SameRequest(j, k)
              /\ k.proc # "none" => /\ j.manifest.keep_alive /\ ~j.unload_requested
                                    /\ j.elapsed >= j.manifest.throttle_interval
<1> DEFINE m  == j.manifest
           ti == m.throttle_interval
           e1 == j.elapsed
           e2 == e1 + a.t2
           e3 == e2 + a.t3
           restart == m.keep_alive /\ ~j.unload_requested
           p  == ProcessExited(j, a)
<1>1. p = IF j.state # "Running" THEN Done(j)
          ELSE IF ~m.keep_alive /\ m.start_interval = NoInterval /\ ~j.unload_requested
          THEN Done([j EXCEPT !.state = "Exited"])
          ELSE IF restart /\ e1 >= ti THEN Goto(StartJob(j, a), "Running")
          ELSE IF restart /\ e2 < ti THEN Goto(StartAfterThrottleInterval(j, e3, a), "Waiting")
          ELSE IF j.unload_requested THEN Deleted(j)
          ELSE Done(j)
  BY DEF ProcessExited
<1>2. /\ e1 \in Nat /\ e3 \in Nat /\ ti \in Nat
  <2>1. m \in Manifests /\ e1 \in Nat
    BY DEF JobType
  <2>2. a.t2 \in Nat /\ a.t3 \in Nat
    BY ClockAssumption DEF Answers, ClockSteps
  <2>3. ti \in Nat
    BY <2>1, ManifestFields
  <2> QED  BY <2>1, <2>2, <2>3
<1> HIDE DEF p
<1> SUFFICES /\ SameRequest(j, p.job)
             /\ p.job.proc # "none" => restart /\ e1 >= ti
  BY DEF p
<1>3. \/ p = Done(j)
      \/ p = Done([j EXCEPT !.state = "Exited"])
      \/ restart /\ e1 >= ti /\ p = Goto(StartJob(j, a), "Running")
      \/ p = Goto(StartAfterThrottleInterval(j, e3, a), "Waiting")
      \/ p = Deleted(j)
  <2> HIDE DEF m, ti, e1, e2, e3
  <2> QED  BY <1>1
<1>4. CASE p = Done(j)
  BY <1>4 DEF Done, SameRequest
<1>5. CASE p = Done([j EXCEPT !.state = "Exited"]) \/ p = Deleted(j)
  BY <1>5 DEF Done, Deleted, SameRequest, JobType
<1>6. CASE restart /\ e1 >= ti /\ p = Goto(StartJob(j, a), "Running")
  BY <1>6, StartKeeps
<1>7. CASE p = Goto(StartAfterThrottleInterval(j, e3, a), "Waiting")
  <2> DEFINE k  == [j EXCEPT !.elapsed = Cap(e3, ti)]
             ms == 1000 * (ti - e3)
  <2>1. Cap(e3, ti) \in Nat
    BY <1>2, CapType
  <2>2. k \in JobType /\ SameRequest(j, k) /\ k.proc = "none"
    BY <2>1 DEF JobType, SameRequest
  <2>3. StartAfterThrottleInterval(j, e3, a) = MonitorTimer(k, "throttle", ms, a)
    BY DEF StartAfterThrottleInterval
  <2>4. ms \in Int
    BY <1>2
  <2> HIDE DEF k, ms
  <2>5. SameRequest(k, p.job) /\ p.job.proc = k.proc
    BY <1>7, <2>2, <2>3, <2>4, TimerKeeps
  <2> QED  BY <2>2, <2>5 DEF SameRequest
<1> QED  BY <1>3, <1>4, <1>5, <1>6, <1>7

\* The callback of an exit.
LEMMA OnExitLegal ==
    ASSUME NEW j \in JobType, NEW a \in Answers, JobInv(j), j.proc # "none"
    PROVE  Legal(j, OnExit(j, a).job)
<1> DEFINE k == ReapChildProcess(j)
<1>1. /\ k \in JobType /\ JobInv(k) /\ k.proc = "none"
      /\ SameRequest(j, k) /\ k.elapsed = j.elapsed
  BY ReapInv DEF SameRequest
<1>2. OnExit(j, a) = ProcessExited(k, a)
  BY DEF OnExit
<1> HIDE DEF k
<1> DEFINE q == ProcessExited(k, a).job
<1>3. /\ SameRequest(k, q)
      /\ q.proc # "none" => /\ k.manifest.keep_alive /\ ~k.unload_requested
                            /\ k.elapsed >= k.manifest.throttle_interval
  BY <1>1, ProcessExitedStarts
<1> HIDE DEF q
<1>4. j.stopping => j.unload_requested
  BY DEF JobInv, UnloadIsMarked
<1>5. Legal(j, q)
  BY <1>1, <1>3, <1>4 DEF Legal, SameRequest, Starts
<1> QED  BY <1>2, <1>5 DEF q

\* The callback of a timer: a job that is stopping has no armed timer, and an
\* armed throttle timer does not expire too early.
LEMMA OnTimerLegal ==
    ASSUME NEW j \in JobType, NEW a \in Answers, JobInv(j), j.alarm = 0
    PROVE  Legal(j, OnTimer(j, a).job)
<1> DEFINE k == [j EXCEPT !.timer_id = "none", !.alarm = Never]
<1>1. /\ k \in JobType /\ SameRequest(j, k) /\ k.state = j.state /\ k.timer_id = "none"
  BY DEF JobType, SameRequest, Never
<1>2. OnTimer(j, a) = IF j.timer_id = "periodic" THEN StartJob(k, a) ELSE StartRequested(k, a)
  BY DEF OnTimer
<1> HIDE DEF k
<1>3. ~j.stopping /\ j.timer_id \in {"periodic", "throttle"} /\ j.state = "Waiting"
  BY DEF JobInv, UnloadIsMarked, TimerIsExclusive, Never, JobType
<1>4. j.manifest.keep_alive => j.elapsed >= j.manifest.throttle_interval
  <2>1. j.timer_id = "periodic" => ~j.manifest.keep_alive
    BY DEF JobInv, StateFitsProcess
  <2>2. j.timer_id = "throttle" => j.elapsed + 0 >= j.manifest.throttle_interval
    BY DEF JobInv, ThrottleIsKept, Never
  <2>3. j.elapsed \in Nat
    BY DEF JobType
  <2> QED  BY <1>3, <2>1, <2>2, <2>3
<1>5. SameRequest(k, OnTimer(j, a).job)
  <2>1. CASE j.timer_id = "periodic"
    BY <1>1, <1>2, <2>1, StartKeeps
  <2>2. CASE j.timer_id # "periodic"
    <3>1. CancelTimerIfSet(k) = Done(k)
      BY <1>1 DEF CancelTimerIfSet
    <3>2. StartRequested(k, a) = Goto(StartJob(k, a), "Running")
      BY <1>1, <1>3, <3>1 DEF StartRequested, Done
    <3> QED  BY <1>1, <1>2, <2>2, <3>2, StartKeeps
  <2> QED  BY <2>1, <2>2
<1> QED  BY <1>1, <1>3, <1>4, <1>5 DEF Legal, SameRequest

\* Job::unloadJob marks the job and leaves its process to the event loop.
LEMMA UnloadLegal ==
    ASSUME NEW j \in JobType, JobInv(j), NEW disabled, NEW force
    PROVE  Legal(j, UnloadJob(j, disabled, force).job)
<1> DEFINE r == UnloadJob(j, disabled, force)
<1>1. Sound(j, r) /\ r.job.proc = j.proc /\ r.job.unload_requested
  BY UnloadSound
<1>2. CASE j.state = "Unloaded" \/ j.unload_requested
  BY <1>2 DEF UnloadJob, Done, Legal, Starts
<1>3. CASE ~(j.state = "Unloaded" \/ j.unload_requested)
  <2>1. ~j.stopping /\ r.job.manifest = j.manifest
    BY <1>1, <1>3 DEF JobInv, UnloadIsMarked, Sound
  <2> HIDE DEF r
  <2>2. Legal(j, r.job)
    BY <1>1, <1>3, <2>1 DEF Legal, Starts
  <2> QED  BY <2>2 DEF r
<1> QED  BY <1>2, <1>3

\* A forced unload is never ignored: unloadAllJobs() stops every job that was
\* not asked to unload before, even if its timer cannot be cancelled.
LEMMA ForcedUnloadStops ==
    ASSUME NEW j \in JobType, JobInv(j), NEW disabled, ~j.unload_requested
    PROVE  UnloadJob(j, disabled, TRUE).job.stopping
<1> DEFINE k == [j EXCEPT !.unload_requested = TRUE, !.stopping = TRUE]
           i == StopRequested(k)
           c == CancelTimerIfSet(i)
<1>1. j.state # "Unloaded"
  BY DEF JobInv, UnloadIsMarked
<1>2. UnloadJob(j, disabled, TRUE) = UnloadRequested(i)
  BY <1>1 DEF UnloadJob
<1>3. k \in JobType /\ k.stopping
  BY DEF JobType
<1>4. i \in JobType /\ i.stopping
  <2> HIDE DEF k
  <2>1. i \in {k, [k EXCEPT !.asked_to_exit = TRUE]}
    BY DEF StopRequested, KillJob
  <2>2. /\ [k EXCEPT !.asked_to_exit = TRUE] \in JobType
        /\ [k EXCEPT !.asked_to_exit = TRUE].stopping
    BY <1>3 DEF JobType
  <2> HIDE DEF i
  <2> QED  BY <1>3, <2>1, <2>2
<1> HIDE DEF i, k
<1>5. c.job.stopping /\ c.job \in JobType
  <2> DEFINE x == [i EXCEPT !.alarm = Never]
             y == [i EXCEPT !.alarm = Never, !.timer_id = "none"]
  <2>1. c.job \in {i, x, y}
    <3> HIDE DEF x, y
    <3> QED  BY DEF CancelTimerIfSet, CancelTimer, Done, Threw, x, y
  <2>2. x.stopping /\ x \in JobType
    BY <1>4 DEF JobType, Never
  <2>3. y.stopping /\ y \in JobType
    BY <1>4 DEF JobType, Never
  <2> HIDE DEF c, x, y
  <2> QED  BY <1>4, <2>1, <2>2, <2>3
<1>6. Deleted(i).job.stopping /\ Done(i).job.stopping /\ Deleted(c.job).job.stopping
  BY <1>4, <1>5 DEF Deleted, Done, JobType
<1>7. UnloadRequested(i) \in {Deleted(i), Done(i), Deleted(c.job), c}
  BY <1>4 DEF UnloadRequested
<1> QED  BY <1>2, <1>5, <1>6, <1>7

\* A new job is not asked anything yet.
LEMMA BootstrapKeeps ==
    ASSUME NEW m \in Manifests, NEW a \in Answers, NEW disabled
    PROVE  LET k == Bootstrap(NewJob(m), disabled, a).job
           IN ~k.stopping /\ ~k.unload_requested
<1> DEFINE j == NewJob(m)
           r == Bootstrap(j, disabled, a)
           g == Goto(StartJob(j, a), "Running")
           t == Goto(SchedulePeriodicJob(j, a), "Waiting")
<1>1. /\ j \in JobType /\ j.state = "Loaded" /\ j.manifest = m
      /\ ~j.stopping /\ ~j.unload_requested
  BY NewJobInv DEF NewJob
<1>2. SameRequest(j, g.job) /\ g \in ResultType
  <2>1. StartJob(j, a) \in ResultType
    BY <1>1, StartJobResult
  <2> QED  BY <1>1, <2>1, StartKeeps, GotoResult DEF JobStates
<1>3. SameRequest(j, Goto(g, "Running").job)
  <2>1. SameRequest(g.job, Goto(g, "Running").job)
    BY <1>2, GotoKeeps DEF JobStates
  <2> QED  BY <1>2, <2>1 DEF SameRequest
<1>4. m.start_interval \in Int
  BY ManifestFields DEF NoInterval
<1>5. SameRequest(j, t.job)
  BY <1>1, <1>4, TimerKeeps DEF SchedulePeriodicJob
<1>6. StartRequested(j, a) = g
  BY <1>1 DEF StartRequested
<1>7. r \in {Done(j), Goto(g, "Running"), t}
  <2> HIDE DEF j, g, t
  <2> QED  BY <1>6 DEF r, Bootstrap, t
<1>8. ~r.job.stopping /\ ~r.job.unload_requested
  <2> HIDE DEF j, g, t, r
  <2> QED  BY <1>1, <1>3, <1>5, <1>7 DEF SameRequest, Done
<1> QED  BY <1>8 DEF r, j

\* kill(2), the environment and the move of an exit to the queue.
LEMMA UndisturbedLegal ==
    ASSUME NEW j \in JobType
    PROVE  /\ Legal(j, j) /\ Legal(j, KillJob(j)) /\ Legal(j, Later(j))
           /\ Legal(j, [j EXCEPT !.proc = "reported"])
           /\ j.proc = "alive" => Legal(j, [j EXCEPT !.proc = "zombie"])
           /\ Legal(j, [j EXCEPT !.group = ~@])
<1>1. Legal(j, j)
  BY DEF Legal, Starts
<1>2. Legal(j, KillJob(j))
  <2>1. CASE j.pid = 1
    BY <2>1 DEF KillJob, Legal, Starts, JobType
  <2>2. CASE j.pid # 1
    BY <1>1, <2>2 DEF KillJob
  <2> QED  BY <2>1, <2>2
<1>3. Legal(j, Later(j))
  BY DEF Later, Legal, Starts, JobType
<1>4. /\ Legal(j, [j EXCEPT !.proc = "reported"])
      /\ j.proc = "alive" => Legal(j, [j EXCEPT !.proc = "zombie"])
  BY DEF Legal, Starts, JobType
<1>5. Legal(j, [j EXCEPT !.group = ~@])
  BY DEF Legal, Starts, JobType
<1> QED  BY <1>1, <1>2, <1>3, <1>4, <1>5

-----------------------------------------------------------------------------
(* The steps of the manager *)

\* A job that a user of launchd sees as having a live process.
HasProcess(j) == j.proc = "alive" /\ j.manifest.start_interval = NoInterval

\* What a step may do to the job table: change a job as Legal allows, add a
\* job that is not asked anything, and remove a job that was asked to unload
\* and whose process is gone, or all jobs at the end.
JobsStep ==
    /\ \A l \in DOMAIN jobs \cap DOMAIN jobs' : Legal(jobs[l], jobs'[l])
    /\ \A l \in DOMAIN jobs' \ DOMAIN jobs :
          /\ state \in {"Unconfigured", "Running"}
          /\ ~jobs'[l].stopping /\ ~jobs'[l].unload_requested
    /\ \A l \in DOMAIN jobs \ DOMAIN jobs' :
          \/ state' = "Finished"
          \/ jobs[l].unload_requested /\ ~HasProcess(jobs[l])

\* The shutdown reaches every job that was not asked before, and no other.
ShutdownStep ==
    /\ state = "Running" /\ state' = "GracefulShutdown"
    /\ DOMAIN jobs' = DOMAIN jobs
    /\ \A l \in DOMAIN jobs : IF jobs[l].unload_requested THEN jobs'[l] = jobs[l]
                              ELSE jobs'[l].stopping /\ jobs'[l].proc = jobs[l].proc

PhaseStep ==
    \/ state = "Unconfigured" /\ DOMAIN jobs = {} /\ state' \in {"Running", "Terminated"}
    \/ Alive /\ state' \in {state, "Terminated"}
    \/ ShutdownStep
    \/ state = "GracefulShutdown" /\ state' = "Finished" /\ DOMAIN jobs' = {}

\* A job that is pending and loaded at once was moved to the table by a start
\* that threw.
PendingMoved ==
    state # "Terminated" =>
        \A l \in DOMAIN pending_jobs \cap DOMAIN jobs : pending_jobs[l].moved

Lawful == JobsStep /\ PhaseStep /\ PendingMoved'

\* A step that changes one job.
LEMMA OneJobLawful ==
    ASSUME IInv, PendingMoved, Alive, NEW l \in DOMAIN jobs, NEW k,
           jobs' = [jobs EXCEPT ![l] = k], Legal(jobs[l], k),
           state' \in {state, "Terminated"}, pending_jobs' = pending_jobs
    PROVE  Lawful
<1>1. \A i \in DOMAIN jobs : Legal(jobs[i], jobs[i])
  BY UndisturbedLegal DEF IInv, JobsOK
<1>2. DOMAIN jobs' = DOMAIN jobs /\ \A i \in DOMAIN jobs : jobs'[i] = IF i = l THEN k ELSE jobs[i]
  BY DEF IInv, JobsOK
<1>3. JobsStep
  BY <1>1, <1>2 DEF JobsStep
<1>4. PendingMoved'
  BY <1>2 DEF PendingMoved, Alive
<1> QED  BY <1>3, <1>4 DEF Lawful, PhaseStep

\* A step that changes no job.
LEMMA NoJobLawful ==
    ASSUME IInv, PendingMoved, Alive, jobs' = jobs,
           state' \in {state, "Terminated"}, pending_jobs' = pending_jobs
    PROVE  Lawful
<1>1. \A i \in DOMAIN jobs : Legal(jobs[i], jobs[i])
  BY UndisturbedLegal DEF IInv, JobsOK
<1>2. JobsStep
  BY <1>1 DEF JobsStep
<1>3. PendingMoved'
  BY DEF PendingMoved, Alive
<1> QED  BY <1>2, <1>3 DEF Lawful, PhaseStep

\* The environment.
LEMMA EnvironsLawful ==
    ASSUME IInv, PendingMoved, Environs
    PROVE  Lawful
<1>0. \A l \in DOMAIN jobs : jobs[l] \in JobType
  BY DEF IInv, JobsOK
<1>1. ASSUME NEW l \in Labels, Tick(l) PROVE Lawful
  <2>1. l \in DOMAIN jobs /\ Environment(l, Later(jobs[l])) /\ Legal(jobs[l], Later(jobs[l]))
    BY <1>0, <1>1, UndisturbedLegal DEF Tick
  <2> QED  BY <2>1, OneJobLawful DEF Environment
<1>2. ASSUME NEW l \in Labels, ProcessExits(l) PROVE Lawful
  <2> DEFINE k == [jobs[l] EXCEPT !.proc = "zombie"]
  <2>1. l \in DOMAIN jobs /\ Environment(l, k) /\ Legal(jobs[l], k)
    BY <1>0, <1>2, UndisturbedLegal DEF ProcessExits
  <2> HIDE DEF k
  <2> QED  BY <2>1, OneJobLawful DEF Environment
<1>3. ASSUME NEW l \in Labels, GroupChanges(l) PROVE Lawful
  <2> DEFINE k == [jobs[l] EXCEPT !.group = ~@]
  <2>1. l \in DOMAIN jobs /\ Environment(l, k) /\ Legal(jobs[l], k)
    BY <1>0, <1>3, UndisturbedLegal DEF GroupChanges
  <2> HIDE DEF k
  <2> QED  BY <2>1, OneJobLawful DEF Environment
<1>4. ASSUME NEW s \in ShutdownSignals, SignalArrives(s) PROVE Lawful
  BY <1>4, NoJobLawful DEF SignalArrives
<1> QED  BY <1>1, <1>2, <1>3, <1>4 DEF Environs

\* The moves of kernel events to the queue, and the timers.
LEMMA PollLawful ==
    ASSUME IInv, PendingMoved, Poll
    PROVE  Lawful
<1>0. /\ \A l \in DOMAIN jobs : jobs[l] \in JobType /\ JobInv(jobs[l])
      /\ Polling => Alive
  BY DEF IInv, JobsOK, Polling, Looping, Alive
<1>1. ASSUME GetSignalEvents PROVE Lawful
  <2> DEFINE zombies == {l \in DOMAIN jobs : jobs[l].proc = "zombie"}
  <2>1. /\ jobs' = [l \in DOMAIN jobs |-> IF l \in zombies
                         THEN [jobs[l] EXCEPT !.proc = "reported"] ELSE jobs[l]]
        /\ Alive /\ UNCHANGED <<state, pending_jobs>>
    BY <1>0, <1>1 DEF GetSignalEvents
  <2> HIDE DEF zombies
  <2>2. \A l \in DOMAIN jobs : Legal(jobs[l], jobs'[l])
    BY <1>0, <2>1, UndisturbedLegal
  <2>3. DOMAIN jobs' = DOMAIN jobs
    BY <2>1
  <2>4. JobsStep /\ PendingMoved'
    BY <2>1, <2>2, <2>3 DEF JobsStep, PendingMoved
  <2> QED  BY <2>1, <2>4 DEF Lawful, PhaseStep
<1>2. ASSUME NEW s \in ShutdownSignals, KeventSignal(s) PROVE Lawful
  BY <1>0, <1>2, NoJobLawful DEF KeventSignal
<1>3. ASSUME NEW l \in Labels, KeventExit(l) PROVE Lawful
  <2> DEFINE k == [jobs[l] EXCEPT !.proc = "reported"]
  <2>1. /\ l \in DOMAIN jobs /\ jobs' = [jobs EXCEPT ![l] = k] /\ Alive
        /\ UNCHANGED <<state, pending_jobs>>
    BY <1>0, <1>3 DEF KeventExit
  <2>2. Legal(jobs[l], k)
    BY <1>0, <2>1, UndisturbedLegal
  <2> HIDE DEF k
  <2> QED  BY <2>1, <2>2, OneJobLawful
<1>4. ASSUME NEW l \in Labels, KeventOrphan(l) PROVE Lawful
  BY <1>0, <1>4, NoJobLawful DEF KeventOrphan
<1>5. ASSUME NEW l \in Labels, NEW a \in Answers, TimerFires(l, a) PROVE Lawful
  <2> DEFINE r == OnTimer(jobs[l], a)
  <2>1. /\ l \in DOMAIN jobs /\ jobs' = [jobs EXCEPT ![l] = r.job] /\ Alive
        /\ state' \in {state, "Terminated"} /\ pending_jobs' = pending_jobs
        /\ jobs[l].alarm = 0
    BY <1>0, <1>5 DEF TimerFires, Apply
  <2>2. Legal(jobs[l], r.job)
    BY <1>0, <2>1, OnTimerLegal
  <2> HIDE DEF r
  <2> QED  BY <2>1, <2>2, OneJobLawful
<1> QED  BY <1>1, <1>2, <1>3, <1>4, <1>5 DEF Poll

\* A job leaves the table only when it is Unloaded, and then it was asked to
\* unload and has no process.
LEMMA DispatchDeleteLawful ==
    ASSUME IInv, PendingMoved, DispatchDelete
    PROVE  Lawful
<1> DEFINE l == Next1.arg
<1>1. /\ Looping /\ pending_events # <<>> /\ Next1.type = "delete_job"
      /\ jobs' = [k \in DOMAIN jobs \ {l} |-> jobs[k]]
      /\ UNCHANGED <<state, pending_jobs>> /\ Alive
  BY DEF DispatchDelete, Dispatching, Looping, Alive
<1>2. l \in Labels /\ Next1 = DeleteJob(l)
  BY <1>1, HeadTaken, HeadEvent
<1> HIDE DEF l
<1>3. IsUnloaded(jobs, l)
  BY <1>1, <1>2, HeadTaken
<1>4. \A k \in DOMAIN jobs : jobs[k] \in JobType /\ JobInv(jobs[k])
  BY DEF IInv, JobsOK
<1>5. jobs[l].unload_requested /\ ~HasProcess(jobs[l])
  BY <1>3, <1>4 DEF IsUnloaded, JobInv, UnloadIsMarked, StateFitsProcess, HasProcess
<1>6. \A k \in DOMAIN jobs : Legal(jobs[k], jobs[k])
  BY <1>4, UndisturbedLegal
<1>7. JobsStep /\ PendingMoved'
  BY <1>1, <1>5, <1>6 DEF JobsStep, PendingMoved
<1> QED  BY <1>1, <1>7 DEF Lawful, PhaseStep

\* unloadJob() of several jobs changes each as Legal allows.
LEMMA UnloadJobsLegal ==
    ASSUME JobsOK(jobs), NEW S \in SUBSET DOMAIN jobs, NEW force, NEW tail,
           UnloadJobs(S, force, tail)
    PROVE  /\ DOMAIN jobs' = DOMAIN jobs
           /\ \A l \in DOMAIN jobs : Legal(jobs[l], jobs'[l])
           /\ \A l \in DOMAIN jobs \ S : jobs'[l] = jobs[l]
           /\ \A l \in S : /\ jobs'[l].proc = jobs[l].proc
                           /\ force = TRUE /\ ~jobs[l].unload_requested => jobs'[l].stopping
<1> DEFINE R(l) == UnloadJob(jobs[l], IsDisabled(l, jobs[l].manifest, overrides'), force)
<1>1. jobs' = [l \in DOMAIN jobs |-> IF l \in S THEN R(l).job ELSE jobs[l]]
  BY DEF UnloadJobs
<1>2. \A l \in DOMAIN jobs : jobs[l] \in JobType /\ JobInv(jobs[l])
  BY DEF JobsOK
<1>3. \A l \in DOMAIN jobs : Legal(jobs[l], R(l).job) /\ R(l).job.proc = jobs[l].proc
  BY <1>2, UnloadLegal, UnloadSound
<1>4. \A l \in DOMAIN jobs : force = TRUE /\ ~jobs[l].unload_requested => R(l).job.stopping
  BY <1>2, ForcedUnloadStops
<1>5. \A l \in DOMAIN jobs : Legal(jobs[l], jobs[l])
  BY <1>2, UndisturbedLegal
<1> HIDE DEF R
<1> QED  BY <1>1, <1>3, <1>4, <1>5

\* The other callbacks.
LEMMA DispatchLawful ==
    ASSUME IInv, PendingMoved, Dispatch
    PROVE  Lawful
<1>0. /\ JobsOK(jobs) /\ \A l \in DOMAIN jobs : jobs[l] \in JobType /\ JobInv(jobs[l])
      /\ Looping => Alive
  BY DEF IInv, JobsOK, Looping, Alive
<1>1. ASSUME NEW l \in DOMAIN jobs, NEW a \in Answers, jobs[l].proc # "none", Looping,
             NEW t, Apply(l, OnExit(jobs[l], a), t), pending_jobs' = pending_jobs
      PROVE  Lawful
  <2> DEFINE k == OnExit(jobs[l], a).job
  <2>1. Legal(jobs[l], k)
    BY <1>0, <1>1, OnExitLegal
  <2>2. jobs' = [jobs EXCEPT ![l] = k] /\ state' \in {state, "Terminated"} /\ Alive
    BY <1>0, <1>1 DEF Apply
  <2> HIDE DEF k
  <2> QED  BY <1>1, <2>1, <2>2, OneJobLawful
<1>2. ASSUME NEW a \in Answers, DispatchExit(a) PROVE Lawful
  <2> DEFINE l == Next1.arg
  <2>1. /\ Looping /\ pending_events # <<>> /\ Next1.type = "proc" /\ l \in DOMAIN jobs
        /\ Apply(l, OnExit(jobs[l], a), Tail(pending_events)) /\ pending_jobs' = pending_jobs
    BY <1>2 DEF DispatchExit, Dispatching
  <2>2. l \in Labels /\ Next1 = Exited(l)
    BY <2>1, HeadTaken, HeadEvent
  <2> HIDE DEF l
  <2>3. jobs[l].proc # "none"
    BY <2>1, <2>2, HeadTaken DEF IsReported
  <2> QED  BY <1>1, <2>1, <2>3
<1>3. ASSUME NEW l \in Labels, NEW a \in Answers, DispatchEarlyExit(l, a) PROVE Lawful
  <2>1. /\ Looping /\ l \in DOMAIN jobs /\ jobs[l].proc # "none"
        /\ Apply(l, OnExit(jobs[l], a), pending_events) /\ pending_jobs' = pending_jobs
    BY <1>3 DEF DispatchEarlyExit, EarlyExits
  <2> QED  BY <1>1, <2>1
<1>4. ASSUME DispatchOrphan PROVE Lawful
  BY <1>0, <1>4, NoJobLawful DEF DispatchOrphan, Dispatching
<1>5. ASSUME DispatchFirstSignal PROVE Lawful
  <2> DEFINE S == {l \in DOMAIN jobs : jobs[l].state # "Unloaded" /\ ~jobs[l].unload_requested}
             t == Tail(pending_events)
  <2>1. /\ state = "Running" /\ state' = "GracefulShutdown" /\ UnloadJobs(S, TRUE, t)
        /\ pending_jobs' = pending_jobs
    BY <1>5 DEF DispatchFirstSignal
  <2>2. S \in SUBSET DOMAIN jobs /\ \A l \in S : ~jobs[l].unload_requested
    OBVIOUS
  <2>3. \A l \in DOMAIN jobs \ S : jobs[l].unload_requested
    BY <1>0 DEF JobInv, UnloadIsMarked
  <2> HIDE DEF S, t
  <2>4. /\ DOMAIN jobs' = DOMAIN jobs
        /\ \A l \in DOMAIN jobs : Legal(jobs[l], jobs'[l])
        /\ \A l \in DOMAIN jobs \ S : jobs'[l] = jobs[l]
        /\ \A l \in S : jobs'[l].proc = jobs[l].proc /\ jobs'[l].stopping
    BY <1>0, <2>1, <2>2, UnloadJobsLegal
  <2>5. ShutdownStep
    BY <2>1, <2>2, <2>3, <2>4 DEF ShutdownStep
  <2>6. JobsStep /\ PendingMoved'
    BY <2>1, <2>4 DEF JobsStep, PendingMoved
  <2> QED  BY <2>5, <2>6 DEF Lawful, PhaseStep
<1>6. ASSUME DispatchSecondSignal PROVE Lawful
  <2>1. /\ state = "GracefulShutdown" /\ pending_jobs' = pending_jobs /\ Alive
        /\ \/ state' = "Terminated" /\ jobs' = jobs
           \/ state' = "Finished" /\ jobs' = Empty
    BY <1>6 DEF DispatchSecondSignal, Alive
  <2>2. CASE state' = "Terminated" /\ jobs' = jobs
    BY <2>1, <2>2, NoJobLawful
  <2>3. CASE state' = "Finished" /\ jobs' = Empty
    <3>1. DOMAIN jobs' = {}
      BY <2>3 DEF Empty
    <3> QED  BY <2>1, <2>3, <3>1 DEF Lawful, JobsStep, PhaseStep, PendingMoved
  <2> QED  BY <2>1, <2>2, <2>3
<1> QED  BY <1>2, <1>3, <1>4, <1>5, <1>6, DispatchDeleteLawful DEF Dispatch

\* loadManifest() refuses a label that is pending or loaded, so what it adds
\* to pending_jobs cannot collide with anything.
LEMMA PendingCollisions ==
    ASSUME RestOK, NEW f \in ManifestFiles, NEW override, NEW force
    PROVE  LET p == PendingAfterLoad(f, override, force)
           IN \A l \in DOMAIN p :
                 \/ l \in DOMAIN pending_jobs /\ p[l] = pending_jobs[l]
                 \/ l \notin DOMAIN jobs /\ ~p[l].moved
<1> DEFINE new == Accepted(f, override, force)
<1>1. \A l \in new : l \notin DOMAIN jobs
  BY DEF Accepted, Fresh
<1> HIDE DEF new
<1> QED  BY <1>1 DEF PendingAfterLoad, new

\* startAllJobs() adds jobs that are not asked anything; if it stops at a job
\* that throws, the jobs it added stay pending as moved; and it meets a moved
\* or loaded entry only if there was one before.
LEMMA StartAllJobsLawful ==
    ASSUME IInv, PendingMoved, state \in {"Unconfigured", "Running"},
           NEW f \in ManifestFiles, NEW override, NEW force,
           NEW onThrow \in {"Running", "Terminated"},
           StartAllJobs(PendingAfterLoad(f, override, force), "Running", onThrow)
    PROVE  /\ Lawful
           /\ state' = "Terminated" /\ onThrow = "Running"
                 => \E l \in DOMAIN pending_jobs : pending_jobs[l].moved
<1> DEFINE p == PendingAfterLoad(f, override, force)
<1>1. DOMAIN p \subseteq Labels /\ p \in [DOMAIN p -> [moved : BOOLEAN, manifest : Manifests]]
  BY PendingType DEF IInv
<1>2. \A l \in DOMAIN p : \/ l \in DOMAIN pending_jobs /\ p[l] = pending_jobs[l]
                          \/ l \notin DOMAIN jobs /\ ~p[l].moved
  BY PendingCollisions DEF IInv
<1>3. StartAllJobs(p, "Running", onThrow)
  OBVIOUS
<1> HIDE DEF p
<1>4. PICK a \in [DOMAIN p -> StartAnswers] :
      LET Started(l)  == Bootstrap(NewJob(p[l].manifest), IsDisabled(l, p[l].manifest, overrides'), a[l])
          collides    == {l \in DOMAIN p : p[l].moved \/ l \in DOMAIN jobs}
          throws      == {l \in DOMAIN p \ collides : Started(l).threw}
          JobsWith(S) == [l \in DOMAIN jobs \cup S |->
                            IF l \in S THEN Started(l).job ELSE jobs[l]]
      IN \/ /\ collides \cup throws = {}
            /\ jobs' = JobsWith(DOMAIN p)
            /\ pending_jobs' = Empty
            /\ state' = "Running"
         \/ \E done \in SUBSET (DOMAIN p \ (collides \cup throws)) :
              \/ \E l \in throws :
                   /\ jobs' = JobsWith(done \cup {l})
                   /\ pending_jobs' = [k \in DOMAIN p |->
                                         [p[k] EXCEPT !.moved = @ \/ k \in done \cup {l}]]
                   /\ state' = onThrow
              \/ /\ collides # {}
                 /\ jobs' = JobsWith(done)
                 /\ pending_jobs' = p
                 /\ state' = "Terminated"
  BY <1>3 DEF StartAllJobs
<1> DEFINE Started(l)  == Bootstrap(NewJob(p[l].manifest), IsDisabled(l, p[l].manifest, overrides'), a[l])
           collides    == {l \in DOMAIN p : p[l].moved \/ l \in DOMAIN jobs}
           throws      == {l \in DOMAIN p \ collides : Started(l).threw}
           JobsWith(S) == [l \in DOMAIN jobs \cup S |->
                             IF l \in S THEN Started(l).job ELSE jobs[l]]
           Marked(S)   == [k \in DOMAIN p |-> [p[k] EXCEPT !.moved = @ \/ k \in S]]
<1>5. PICK S \in SUBSET {l \in DOMAIN p : l \notin DOMAIN jobs} :
        /\ jobs' = JobsWith(S)
        /\ \/ pending_jobs' = Empty /\ state' = "Running"
           \/ pending_jobs' = Marked(S) /\ state' = onThrow
           \/ collides # {} /\ state' = "Terminated"
  <2>1. \/ /\ collides \cup throws = {} /\ jobs' = JobsWith(DOMAIN p)
           /\ pending_jobs' = Empty /\ state' = "Running"
        \/ \E done \in SUBSET (DOMAIN p \ (collides \cup throws)) :
             \/ \E l \in throws : /\ jobs' = JobsWith(done \cup {l})
                                  /\ pending_jobs' = Marked(done \cup {l})
                                  /\ state' = onThrow
             \/ collides # {} /\ jobs' = JobsWith(done) /\ state' = "Terminated"
    BY <1>4
  <2> HIDE DEF Started, JobsWith, Marked
  <2>2. throws \subseteq DOMAIN p \ collides
    OBVIOUS
  <2>3. collides = {} => DOMAIN p \in SUBSET {l \in DOMAIN p : l \notin DOMAIN jobs}
    OBVIOUS
  <2>4. \A T \in SUBSET (DOMAIN p \ collides) : T \in SUBSET {l \in DOMAIN p : l \notin DOMAIN jobs}
    OBVIOUS
  <2> HIDE DEF throws, collides
  <2>5. CASE \E done \in SUBSET (DOMAIN p \ (collides \cup throws)), l \in throws :
               /\ jobs' = JobsWith(done \cup {l}) /\ pending_jobs' = Marked(done \cup {l})
               /\ state' = onThrow
    <3>1. PICK done \in SUBSET (DOMAIN p \ (collides \cup throws)), l \in throws :
            /\ jobs' = JobsWith(done \cup {l}) /\ pending_jobs' = Marked(done \cup {l})
            /\ state' = onThrow
      BY <2>5
    <3>2. done \cup {l} \in SUBSET (DOMAIN p \ collides)
      BY <2>2
    <3> QED  BY <2>4, <3>1, <3>2
  <2>6. CASE \E done \in SUBSET (DOMAIN p \ (collides \cup throws)) :
               collides # {} /\ jobs' = JobsWith(done) /\ state' = "Terminated"
    <3>1. PICK done \in SUBSET (DOMAIN p \ (collides \cup throws)) :
            collides # {} /\ jobs' = JobsWith(done) /\ state' = "Terminated"
      BY <2>6
    <3>2. done \in SUBSET (DOMAIN p \ collides)
      OBVIOUS
    <3> QED  BY <2>4, <3>1, <3>2
  <2>7. CASE /\ collides \cup throws = {} /\ jobs' = JobsWith(DOMAIN p)
             /\ pending_jobs' = Empty /\ state' = "Running"
    <3>1. DOMAIN p \in SUBSET {l \in DOMAIN p : l \notin DOMAIN jobs}
      BY <2>3, <2>7
    <3> QED  BY <2>7, <3>1
  <2> QED  BY <2>1, <2>5, <2>6, <2>7
<1>6. \A l \in S : ~Started(l).job.stopping /\ ~Started(l).job.unload_requested
  <2>1. \A l \in S : p[l].manifest \in Manifests /\ a[l] \in Answers
    BY <1>1 DEF StartAnswers
  <2> QED  BY <2>1, BootstrapKeeps
<1> HIDE DEF Started
<1>7. /\ DOMAIN jobs' = DOMAIN jobs \cup S
      /\ \A l \in DOMAIN jobs : jobs'[l] = jobs[l]
      /\ \A l \in S : jobs'[l] = Started(l).job
  BY <1>5
<1>8. \A l \in DOMAIN jobs : Legal(jobs[l], jobs[l])
  BY UndisturbedLegal DEF IInv, JobsOK
<1>9. JobsStep
  BY <1>6, <1>7, <1>8 DEF JobsStep
<1>10. PhaseStep
  BY <1>5 DEF PhaseStep, IInv, Alive
<1>11. PendingMoved'
  <2>1. CASE pending_jobs' = Empty
    BY <2>1 DEF PendingMoved, Empty
  <2>2. CASE pending_jobs' = Marked(S)
    <3>1. \A l \in DOMAIN p : l \in S => Marked(S)[l].moved
      BY <1>1
    <3>2. \A l \in DOMAIN p : p[l].moved => Marked(S)[l].moved
      BY <1>1
    <3>3. DOMAIN Marked(S) = DOMAIN p
      OBVIOUS
    <3>4. \A l \in DOMAIN p \cap DOMAIN jobs : p[l].moved
      BY <1>2 DEF PendingMoved
    <3> HIDE DEF Marked
    <3> QED  BY <1>7, <2>2, <3>1, <3>2, <3>3, <3>4 DEF PendingMoved
  <2>3. CASE state' = "Terminated"
    BY <2>3 DEF PendingMoved
  <2> QED  BY <1>5, <2>1, <2>2, <2>3
<1>12. ASSUME collides # {} PROVE \E l \in DOMAIN pending_jobs : pending_jobs[l].moved
  <2>1. PICK l \in DOMAIN p : p[l].moved \/ l \in DOMAIN jobs
    BY <1>12
  <2> QED  BY <1>2, <2>1 DEF PendingMoved
<1> HIDE DEF collides, Marked, JobsWith
<1> QED  BY <1>5, <1>9, <1>10, <1>11, <1>12 DEF Lawful

\* Every request, and the one way in which it can end launchd.
LEMMA RequestLawful ==
    ASSUME IInv, PendingMoved, Request
    PROVE  /\ Lawful
           /\ state' = "Terminated" => \E l \in DOMAIN pending_jobs : pending_jobs[l].moved
<1> DEFINE Explained ==
             /\ Lawful
             /\ state' = "Terminated" => \E l \in DOMAIN pending_jobs : pending_jobs[l].moved
<1>0. /\ JobsOK(jobs) /\ \A l \in DOMAIN jobs : jobs[l] \in JobType
      /\ Serving => Alive /\ state = "Running"
  BY DEF IInv, JobsOK, Serving, Alive
<1>1. ASSUME NEW override, NEW force, Load(override, force) PROVE Explained
  <2>1. PICK f \in ManifestFiles :
          StartAllJobs(PendingAfterLoad(f, override, force), "Running", "Running")
    BY <1>1 DEF Load
  <2>2. state \in {"Unconfigured", "Running"}
    BY <1>0, <1>1 DEF Load
  <2> QED  BY <2>1, <2>2, StartAllJobsLawful
<1>2. ASSUME NEW S \in SUBSET DOMAIN jobs, NEW override, NEW force, Unload(S, override, force)
      PROVE  Explained
  <2>1. /\ state' = state /\ pending_jobs' = pending_jobs /\ Alive /\ state = "Running"
        /\ UnloadJobs(S, force, pending_events)
    BY <1>0, <1>2 DEF Unload
  <2>2. /\ DOMAIN jobs' = DOMAIN jobs
        /\ \A l \in DOMAIN jobs : Legal(jobs[l], jobs'[l])
    BY <1>0, <2>1, UnloadJobsLegal
  <2>3. JobsStep /\ PendingMoved'
    BY <2>1, <2>2 DEF JobsStep, PendingMoved
  <2> QED  BY <2>1, <2>3 DEF Lawful, PhaseStep
<1>3. ASSUME NEW l, NEW v, OverrideJobEnabled(l, v) PROVE Explained
  BY <1>0, <1>3, NoJobLawful DEF OverrideJobEnabled
<1>4. ASSUME NEW l \in Labels, Kill(l) PROVE Explained
  <2> DEFINE k == KillJob(jobs[l])
  <2>1. /\ l \in DOMAIN jobs /\ jobs' = [jobs EXCEPT ![l] = k] /\ Alive /\ state = "Running"
        /\ UNCHANGED <<state, pending_jobs>>
    BY <1>0, <1>4 DEF Kill
  <2>2. Legal(jobs[l], k)
    BY <1>0, <2>1, UndisturbedLegal
  <2> HIDE DEF k
  <2> QED  BY <2>1, <2>2, OneJobLawful
<1> HIDE DEF Explained
<1>5. Explained
  BY <1>1, <1>2, <1>3, <1>4 DEF Request
<1> QED  BY <1>5 DEF Explained

\* Every step of launchd is lawful.
LEMMA NextLawful ==
    ASSUME IInv, PendingMoved, Next
    PROVE  Lawful
<1>1. CASE StartRunning
  <2>1. PICK f \in ManifestFiles :
          StartAllJobs(PendingAfterLoad(f, FALSE, FALSE), "Running", "Terminated")
    BY <1>1 DEF StartRunning
  <2>2. state \in {"Unconfigured", "Running"}
    BY <1>1 DEF StartRunning
  <2> QED  BY <2>1, <2>2, StartAllJobsLawful
<1>2. CASE AllJobsExited
  <2>1. /\ state = "GracefulShutdown" /\ state' = "Finished" /\ jobs' = jobs /\ DOMAIN jobs = {}
    BY <1>2 DEF AllJobsExited, Empty
  <2> QED  BY <2>1 DEF Lawful, JobsStep, PhaseStep, PendingMoved
<1> QED  BY <1>1, <1>2, RequestLawful, PollLawful, DispatchLawful, EnvironsLawful DEF Next

\* The invariant that lawful steps need.
LInv == IInv /\ PendingMoved

\* The invariant of the manager, with that of the pending jobs, is inductive.
LEMMA LawfulInductive == (Init => LInv) /\ (LInv /\ [Next]_vars => LInv')
<1>1. Init => PendingMoved
  BY DEF Init, PendingMoved, Empty
<1>2. ASSUME LInv, [Next]_vars PROVE PendingMoved'
  <2>1. CASE Next
    BY <1>2, <2>1, NextLawful DEF LInv, Lawful
  <2>2. CASE UNCHANGED vars
    BY <1>2, <2>2 DEF LInv, PendingMoved, vars
  <2> QED  BY <1>2, <2>1, <2>2
<1> QED  BY <1>1, <1>2, Inductive DEF LInv

-----------------------------------------------------------------------------
(* The theorems *)

\* A job whose unload was accepted never gets a process again, neither from a
\* restart nor from a timer.
THEOREM StoppedJobsStayDown == Spec => StoppedStaysDown
<1> DEFINE A == \A l \in DOMAIN jobs \cap DOMAIN jobs' :
                   jobs[l].stopping => ~Starts(jobs[l], jobs'[l])
<1>1. LInv /\ [Next]_vars => [A]_vars
  BY NextLawful DEF LInv, Lawful, JobsStep, Legal
<1>2. StoppedStaysDown <=> [][A]_vars
  BY DEF StoppedStaysDown
<1> HIDE DEF A
<1> QED  BY <1>1, <1>2, LawfulInductive, PTL DEF Spec

\* A KeepAlive job is never started again before its throttle interval is
\* over, however the clock moves between the readings of one callback.
THEOREM ThrottleIsHonoured == Spec => ThrottleHonoured
<1> DEFINE A == \A l \in DOMAIN jobs \cap DOMAIN jobs' :
                   jobs[l].manifest.keep_alive /\ Starts(jobs[l], jobs'[l])
                       => jobs[l].elapsed >= jobs[l].manifest.throttle_interval
<1>1. LInv /\ [Next]_vars => [A]_vars
  BY NextLawful DEF LInv, Lawful, JobsStep, Legal
<1>2. ThrottleHonoured <=> [][A]_vars
  BY DEF ThrottleHonoured
<1> HIDE DEF A
<1> QED  BY <1>1, <1>2, LawfulInductive, PTL DEF Spec

\* A request ends launchd only if an earlier start threw and left an entry of
\* pending_jobs that is already in the table.
THEOREM AssertionIsExplained == Spec => AssertionExplained
<1> DEFINE A == state' = "Terminated" /\ Request
                   => \E l \in DOMAIN pending_jobs : pending_jobs[l].moved
<1>1. LInv /\ [Next]_vars => [A]_vars
  BY RequestLawful DEF LInv
<1>2. AssertionExplained <=> [][A]_vars
  BY DEF AssertionExplained
<1> HIDE DEF A
<1> QED  BY <1>1, <1>2, LawfulInductive, PTL DEF Spec

-----------------------------------------------------------------------------
(* The refinement *)

\* The initial state is one of Supervisor.
LEMMA RefinesInit == Init => Sup!Init
<1> SUFFICES ASSUME Init PROVE Sup!Init
  OBVIOUS
<1>1. DOMAIN jobs = {} /\ state = "Unconfigured"
  BY DEF Init, Empty
<1> QED  BY <1>1 DEF Sup!Init

\* In a lawful step every label makes a move of Supervisor.
LEMMA RefinesMove ==
    ASSUME IInv, IInv', JobsStep, state' # "Finished", NEW l \in Labels
    PROVE  Sup!Move(l)
<1>1. CASE l \in DOMAIN jobs /\ l \in DOMAIN jobs'
  <2>1. Legal(jobs[l], jobs'[l]) /\ (jobs[l].stopping => jobs[l].unload_requested)
    BY <1>1 DEF JobsStep, IInv, JobsOK, JobInv, UnloadIsMarked
  <2>2. CASE SameRequest(jobs[l], jobs'[l])
    BY <1>1, <2>1, <2>2 DEF Legal, SameRequest, Starts, Sup!Move, Sup!Start, Sup!Exit, Sup!Stutter,
                            Sup!Keeps, Sup!LivesOn
  <2>3. CASE ~SameRequest(jobs[l], jobs'[l])
    BY <1>1, <2>1, <2>3 DEF Legal, SameRequest, Sup!Move, Sup!Unload, Sup!LivesOn
  <2> QED  BY <2>2, <2>3
<1>2. CASE l \notin DOMAIN jobs /\ l \in DOMAIN jobs'
  BY <1>2 DEF JobsStep, Sup!Move, Sup!Load
<1>3. CASE l \in DOMAIN jobs /\ l \notin DOMAIN jobs'
  BY <1>3 DEF JobsStep, HasProcess, Sup!Move, Sup!Remove
<1>4. CASE l \notin DOMAIN jobs /\ l \notin DOMAIN jobs'
  BY <1>4 DEF Sup!Move, Sup!Stutter, Sup!Keeps, Sup!LivesOn
<1> QED  BY <1>1, <1>2, <1>3, <1>4

\* The mapped variables have the types Supervisor asks for.
LEMMA RefinesTyped ==
    ASSUME IInv'
    PROVE  Sup!Typed
<1>1. DOMAIN jobs' \subseteq Labels
  BY DEF IInv, JobsOK
<1> QED  BY <1>1 DEF Sup!Typed

\* Every step of launchd is a step of Supervisor.
LEMMA RefinesNext ==
    ASSUME LInv, LInv', Next
    PROVE  Sup!Next
<1>1. IInv /\ IInv' /\ JobsStep /\ PhaseStep
  BY NextLawful DEF LInv, Lawful
<1>2. Sup!Typed
  BY <1>1, RefinesTyped
<1>3. CASE state = "Unconfigured" /\ DOMAIN jobs = {} /\ state' = "Running"
  <2>1. \A l \in Labels : Sup!Load(l) \/ Sup!Stutter(l)
    BY <1>1, <1>3 DEF JobsStep, Sup!Load, Sup!Stutter, Sup!Keeps, Sup!LivesOn
  <2> QED  BY <1>2, <1>3, <2>1 DEF Sup!Next, Sup!StartUp
<1>4. CASE state' = "Terminated" /\ state \in {"Unconfigured", "Running", "GracefulShutdown"}
  <2>1. \A l \in Labels : Sup!Move(l)
    BY <1>1, <1>4, RefinesMove
  <2> QED  BY <1>2, <1>4, <2>1 DEF Sup!Next, Sup!Crash
<1>5. CASE Alive /\ state' = state
  <2>1. \A l \in Labels : Sup!Move(l)
    BY <1>1, <1>5, RefinesMove DEF Alive
  <2> QED  BY <1>2, <1>5, <2>1 DEF Sup!Next, Sup!Supervise, Alive
<1>6. CASE ShutdownStep
  <2>1. \A l \in DOMAIN jobs :
          /\ jobs'[l].manifest = jobs[l].manifest
          /\ jobs[l].stopping => jobs[l].unload_requested
    BY <1>1, <1>6 DEF ShutdownStep, JobsStep, Legal, IInv, JobsOK, JobInv, UnloadIsMarked
  <2> QED  BY <1>2, <1>6, <2>1 DEF ShutdownStep, Sup!Next, Sup!ShutDown, Sup!LivesOn
<1>7. CASE state = "GracefulShutdown" /\ state' = "Finished" /\ DOMAIN jobs' = {}
  BY <1>7 DEF Sup!Next, Sup!Finish
<1> QED  BY <1>1, <1>3, <1>4, <1>5, <1>6, <1>7 DEF PhaseStep, Alive

\* The manager, its event loop and its jobs implement the abstract supervisor:
\* no interleaving of exits, timers, requests and signals starts a process for
\* a stopping job, removes a job before its process is gone, loads one after
\* the shutdown began, or leaves one out of it.
THEOREM Refinement == Spec => ImplementsSupervisor
<1>1. LInv /\ LInv' /\ [Next]_vars => [Sup!Next]_(Sup!vars)
  <2>1. CASE Next
    BY <2>1, RefinesNext
  <2>2. CASE UNCHANGED vars
    BY <2>2 DEF vars, Sup!vars
  <2> QED  BY <2>1, <2>2
<1> QED  BY <1>1, RefinesInit, LawfulInductive, PTL DEF Spec, ImplementsSupervisor, Sup!Spec
=============================================================================
