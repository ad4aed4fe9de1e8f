----------------------------- MODULE JobProofs -----------------------------
(***************************************************************************)
(* Every operation of a job keeps its type and its invariant.  Each lemma  *)
(* is about one method of src/src/job.cc and holds for every manifest,     *)
(* every fault and every delay between clock readings.                     *)
(***************************************************************************)
EXTENDS Job, TLAPS

ResultType == [job : JobType, delete_job : BOOLEAN, threw : BOOLEAN]

\* A result that keeps the invariant and queues the deletion of the job
\* exactly when it makes the job Unloaded.
Sound(j, r) == /\ r \in ResultType
               /\ JobInv(r.job)
               /\ r.job.manifest = j.manifest
               /\ j.unload_requested => r.job.unload_requested
               /\ r.delete_job <=> (j.state # "Unloaded" /\ r.job.state = "Unloaded")
               /\ j.state = "Unloaded" => r.job.state = "Unloaded"
               /\ r.job.proc = j.proc \/ r.job.proc # "reported"

USE DEF Done, Threw, Deleted, Goto, ResultType, NoInterval, Never

\* The helper that saturates the elapsed time returns the smaller number.
LEMMA CapType ==
    ASSUME NEW n \in Nat, NEW max \in Nat
    PROVE  /\ Cap(n, max) \in Nat
           /\ Cap(n, max) <= n /\ Cap(n, max) <= max
           /\ Cap(n, max) = n \/ Cap(n, max) = max
    BY DEF Cap

\* Manifests have their type, so their fields do.
LEMMA ManifestFields ==
    ASSUME NEW m \in Manifests
    PROVE  /\ m.throttle_interval \in Nat
           /\ m.start_interval \in {NoInterval} \cup Nat
           /\ m.keep_alive \in BOOLEAN /\ m.run_at_load \in BOOLEAN
           /\ m.disabled \in BOOLEAN /\ m.abandon_process_group \in BOOLEAN
    BY ManifestsAssumption DEF ManifestType

\* Job::Job: a job that was just loaded satisfies the invariant.
LEMMA NewJobInv ==
    ASSUME NEW m \in Manifests
    PROVE  /\ NewJob(m) \in JobType
           /\ JobInv(NewJob(m))
           /\ NewJob(m).state = "Loaded" /\ NewJob(m).timer_id = "none"
           /\ NewJob(m).manifest = m
    BY DEF NewJob, JobType, JobStates, JobInv, KnowsItsProcess, TimerIsExclusive,
           GroupIsOwned, StateFitsProcess, ThrottleIsKept, UnloadIsMarked

\* Job::startJob changes the process fields only, whatever fork and exec do.
LEMMA StartJobResult ==
    ASSUME NEW j \in JobType, NEW a \in Answers
    PROVE  /\ StartJob(j, a) \in ResultType
           /\ ~StartJob(j, a).delete_job
           /\ LET k == StartJob(j, a).job
              IN /\ k.manifest = j.manifest /\ k.state = j.state /\ k.timer_id = j.timer_id
                 /\ k.alarm = j.alarm /\ k.unload_requested = j.unload_requested
                 /\ k.stopping = j.stopping /\ (k.group => j.group /\ k.pgid = j.pgid)
                 /\ j.proc = "none" =>
                      /\ k.lost = j.lost
                      /\ k.proc # "reported"
                      /\ StartJob(j, a).threw => k.proc = "none" /\ k.pid = j.pid
                      /\ ~StartJob(j, a).threw => (k.pid = 1 <=> k.proc # "none")
                      /\ k.proc # "none" /\ Backend = "epoll" => k.pgid = 1
<1> DEFINE k == [j EXCEPT !.elapsed = 0, !.lost = @ \/ (j.proc # "none" /\ a.run # "pipe")]
<1>1. /\ a.run \in {"ok", "exec", "fork", "pipe", "getpgid", "zombie", "kevent", "waitpid"}
      /\ a.run \in {"getpgid", "zombie"} => Backend # "epoll"
  BY DEF Answers, RunOutcomes
<1>2. /\ k \in JobType
      /\ k.manifest = j.manifest /\ k.state = j.state /\ k.timer_id = j.timer_id
      /\ k.alarm = j.alarm /\ k.unload_requested = j.unload_requested /\ k.pid = j.pid
      /\ k.pgid = j.pgid /\ k.stopping = j.stopping /\ k.group = j.group /\ k.proc = j.proc
      /\ j.proc = "none" => k.lost = j.lost
  BY DEF JobType
<1> DEFINE g == IF a.run \in {"getpgid", "zombie"} THEN -1 ELSE 1
           r == [k EXCEPT !.pid = 1, !.pgid = g, !.proc = Watched(a.run), !.group = FALSE,
                          !.asked_to_exit = FALSE]
<1>3. StartJob(j, a) = CASE a.run = "exec" -> Done([k EXCEPT !.pid = 0])
                         [] a.run = "fork" -> Done([k EXCEPT !.pid = -1])
                         [] a.run = "pipe" -> Threw(k)
                         [] OTHER          -> Done(r)
  BY DEF StartJob
<1> HIDE DEF k
<1>4. CASE a.run \in {"ok", "getpgid", "zombie", "kevent", "waitpid"}
  <2>0. /\ Watched(a.run) \in {"alive", "zombie", "early", "unwatched"}
        /\ g \in {-1, 1} /\ (Backend = "epoll" => g = 1)
    BY <1>1 DEF Watched
  <2>1. StartJob(j, a) = Done(r)
    BY <1>3, <1>4
  <2> HIDE DEF g
  <2>2. /\ r \in JobType
        /\ r.manifest = k.manifest /\ r.state = k.state /\ r.timer_id = k.timer_id
        /\ r.alarm = k.alarm /\ r.unload_requested = k.unload_requested
        /\ r.stopping = k.stopping /\ r.group = FALSE /\ r.lost = k.lost
        /\ r.proc = Watched(a.run) /\ r.pid = 1 /\ r.pgid = g
    BY <1>2, <2>0 DEF JobType
  <2> HIDE DEF r
  <2> QED  BY <1>2, <2>0, <2>1, <2>2
<1>5. CASE a.run = "exec"
  <2>1. StartJob(j, a) = Done([k EXCEPT !.pid = 0])
    BY <1>3, <1>5
  <2> QED  BY <1>2, <2>1 DEF JobType
<1>6. CASE a.run = "fork"
  <2>1. StartJob(j, a) = Done([k EXCEPT !.pid = -1])
    BY <1>3, <1>6
  <2> QED  BY <1>2, <2>1 DEF JobType
<1>7. CASE a.run = "pipe"
  <2>1. StartJob(j, a) = Threw(k)
    BY <1>3, <1>7
  <2> QED  BY <1>2, <2>1 DEF JobType
<1> QED  BY <1>1, <1>4, <1>5, <1>6, <1>7

\* Fsm::execute sets the state after the action, unless the action threw.
LEMMA GotoResult ==
    ASSUME NEW r \in ResultType, NEW s \in JobStates
    PROVE  /\ Goto(r, s) \in ResultType
           /\ Goto(r, s).threw = r.threw /\ Goto(r, s).delete_job = r.delete_job
           /\ r.threw => Goto(r, s) = r
           /\ ~r.threw => Goto(r, s).job = [r.job EXCEPT !.state = s]
    BY DEF JobType, Goto

USE DEF JobInv, KnowsItsProcess, TimerIsExclusive, GroupIsOwned, StateFitsProcess,
        ThrottleIsKept, UnloadIsMarked
HIDE DEF Goto, ResultType

\* Starting a job that has neither a process nor a timer, on the way to the
\* Running state: the rows of StartRequested and ProcessExited.
LEMMA StartToRunning ==
    ASSUME NEW j \in JobType, NEW a \in Answers, JobInv(j),
           j.proc = "none", j.timer_id = "none", j.state # "Unloaded"
    PROVE  Sound(j, Goto(StartJob(j, a), "Running"))
<1> DEFINE r == StartJob(j, a)
           g == Goto(r, "Running")
<1>1. /\ r \in ResultType /\ ~r.delete_job
      /\ r.job \in JobType
      /\ r.job.manifest = j.manifest /\ r.job.state = j.state /\ r.job.timer_id = "none"
      /\ r.job.alarm = j.alarm /\ r.job.unload_requested = j.unload_requested
      /\ r.job.stopping = j.stopping /\ (r.job.group => j.group /\ r.job.pgid = j.pgid)
      /\ r.job.lost = j.lost /\ r.job.proc # "reported"
      /\ r.threw => r.job.proc = "none" /\ r.job.pid = j.pid
      /\ ~r.threw => (r.job.pid = 1 <=> r.job.proc # "none")
      /\ r.job.proc # "none" /\ Backend = "epoll" => r.job.pgid = 1
  BY StartJobResult DEF ResultType
<1>2. /\ g \in ResultType /\ g.delete_job = r.delete_job
      /\ r.threw => g = r
      /\ ~r.threw => g.job = [r.job EXCEPT !.state = "Running"]
  BY <1>1, GotoResult DEF JobStates
<1> SUFFICES Sound(j, g)
  OBVIOUS
<1> HIDE DEF r, g
<1>3. CASE r.threw
  BY <1>1, <1>2, <1>3 DEF Sound
<1>4. CASE ~r.threw
  <2>1. /\ g.job.state = "Running"
        /\ g.job.manifest = j.manifest /\ g.job.timer_id = "none"
        /\ g.job.alarm = j.alarm /\ g.job.unload_requested = j.unload_requested
        /\ g.job.stopping = j.stopping /\ (g.job.group => j.group /\ g.job.pgid = j.pgid)
        /\ g.job.lost = j.lost /\ g.job.proc # "reported"
        /\ g.job.pid = 1 <=> g.job.proc # "none"
        /\ g.job.proc # "none" /\ Backend = "epoll" => g.job.pgid = 1
    BY <1>1, <1>2, <1>4 DEF JobType
  <2> QED  BY <1>1, <1>2, <2>1 DEF Sound
<1> QED  BY <1>3, <1>4

\* Milliseconds are truncated to whole seconds.
LEMMA Seconds ==
    ASSUME NEW ms \in Nat
    PROVE  /\ ms \div 1000 \in Nat
           /\ ms < 1000 * (ms \div 1000) + 1000
    BY Z3

\* A timer was set on job j, or the call threw: timer_id and alarm change
\* together, and the alarm is not early by a whole second.
TimerSet(j, id, ms, r) ==
    /\ r \in ResultType /\ ~r.delete_job
    /\ r.threw => r.job = j
    /\ ~r.threw => /\ r.job = [j EXCEPT !.timer_id = id, !.alarm = r.job.alarm]
                   /\ r.job.alarm # Never => ms < 1000 * r.job.alarm + 1000

\* EventManager::addTimer does what TimerSet says, on either backend.
LEMMA MonitorTimerResult ==
    ASSUME NEW j \in JobType, NEW a \in Answers, NEW ms \in Int,
           NEW id \in {"throttle", "periodic"}
    PROVE  TimerSet(j, id, ms, MonitorTimer(j, id, ms, a))
<1>1. CASE a.timer # "ok" \/ (Backend = "kqueue" /\ ms < 0)
  BY <1>1 DEF MonitorTimer, ResultType, TimerSet
<1>2. CASE ~(a.timer # "ok" \/ (Backend = "kqueue" /\ ms < 0))
  <2> DEFINE n == IF ms > 0 THEN ms \div 1000 ELSE IF Backend = "kqueue" THEN 0 ELSE Never
             k == [j EXCEPT !.timer_id = id, !.alarm = n]
  <2>0. n \in {Never} \cup Nat
    <3>1. CASE ms > 0  BY <3>1, Seconds
    <3>2. CASE ms <= 0  BY <3>2
    <3> QED  BY <3>1, <3>2
  <2>1. n # Never => ms < 1000 * n + 1000
    <3>1. CASE ms > 0  BY <3>1, Seconds
    <3>2. CASE ms <= 0  BY <3>2
    <3> QED  BY <3>1, <3>2
  <2>2. MonitorTimer(j, id, ms, a) = Done(k)
    BY <1>2 DEF MonitorTimer
  <2> HIDE DEF n
  <2>3. k \in JobType
    BY <2>0 DEF JobType
  <2>4. Done(k) \in ResultType
    BY <2>3 DEF ResultType
  <2>5. Done(k).job = k /\ ~Done(k).delete_job /\ ~Done(k).threw
    OBVIOUS
  <2>6. k.alarm = n
    BY DEF JobType
  <2>7. k = [j EXCEPT !.timer_id = id, !.alarm = k.alarm] /\ (k.alarm # Never => ms < 1000 * k.alarm + 1000)
    BY <2>1, <2>6
  <2> HIDE DEF Done, k
  <2> QED  BY <2>2, <2>4, <2>5, <2>7 DEF TimerSet
<1> QED  BY <1>1, <1>2

\* Arming a timer on the way to the Waiting state: the rows of Bootstrap and
\* ProcessExited that call schedulePeriodicJob or startAfterThrottleInterval.
LEMMA TimerToWaiting ==
    ASSUME NEW j \in JobType, NEW a \in Answers, NEW ms \in Int,
           NEW id \in {"throttle", "periodic"},
           JobInv(j), j.proc = "none", j.timer_id = "none", ~j.stopping, j.state # "Unloaded",
           id = "periodic" => ~j.manifest.keep_alive /\ j.manifest.start_interval # NoInterval,
           id = "throttle" => \A n \in Nat : ms < 1000 * n + 1000
                                => j.elapsed + n >= j.manifest.throttle_interval
    PROVE  Sound(j, Goto(MonitorTimer(j, id, ms, a), "Waiting"))
<1> DEFINE r == MonitorTimer(j, id, ms, a)
           g == Goto(r, "Waiting")
<1>0. TimerSet(j, id, ms, r)
  BY MonitorTimerResult
<1> HIDE DEF r
<1>1. /\ r \in ResultType /\ ~r.delete_job
      /\ r.threw => r.job = j
      /\ ~r.threw => /\ r.job = [j EXCEPT !.timer_id = id, !.alarm = r.job.alarm]
                     /\ r.job.alarm # Never => ms < 1000 * r.job.alarm + 1000
  BY <1>0, Zenon DEF TimerSet
<1>2. /\ g \in ResultType /\ g.delete_job = r.delete_job
      /\ r.threw => g = r
      /\ ~r.threw => g.job = [r.job EXCEPT !.state = "Waiting"]
  <2>1. "Waiting" \in JobStates
    BY DEF JobStates
  <2> QED  BY <1>1, <2>1, GotoResult
<1> SUFFICES Sound(j, g)
  BY DEF r
<1>3. g.job \in JobType /\ r.job \in JobType
  BY <1>1, <1>2 DEF ResultType
<1> HIDE DEF g
<1>4. CASE r.threw
  BY <1>1, <1>2, <1>4 DEF Sound
<1>5. CASE ~r.threw
  <2>1. /\ r.job.manifest = j.manifest /\ r.job.timer_id = id /\ r.job.elapsed = j.elapsed
        /\ r.job.unload_requested = j.unload_requested /\ r.job.stopping = j.stopping
        /\ r.job.group = j.group /\ r.job.lost = j.lost /\ r.job.proc = j.proc
        /\ r.job.pid = j.pid /\ r.job.pgid = j.pgid
    <3> HIDE DEF JobInv
    <3>1. r.job = [j EXCEPT !.timer_id = id, !.alarm = r.job.alarm]
      BY <1>1, <1>5, Zenon
    <3> QED  BY <3>1 DEF JobType
  <2>2. /\ g.job.state = "Waiting" /\ g.job.alarm = r.job.alarm
        /\ g.job.manifest = j.manifest /\ g.job.timer_id = id /\ g.job.elapsed = j.elapsed
        /\ g.job.unload_requested = j.unload_requested /\ g.job.stopping = j.stopping
        /\ g.job.group = j.group /\ g.job.lost = j.lost /\ g.job.proc = j.proc
        /\ g.job.pid = j.pid /\ g.job.pgid = j.pgid
    <3> HIDE DEF JobInv
    <3>1. g.job = [r.job EXCEPT !.state = "Waiting"]
      BY <1>2, <1>5, Zenon
    <3> QED  BY <1>3, <2>1, <3>1 DEF JobType
  <2>3. r.job.alarm \in {Never} \cup Nat
    BY <1>3 DEF JobType
  <2>4. id = "throttle" /\ g.job.alarm # Never
          => g.job.elapsed + g.job.alarm >= g.job.manifest.throttle_interval
    BY <1>1, <1>5, <2>2, <2>3
  <2> QED  BY <1>1, <1>2, <2>2, <2>4 DEF Sound
<1> QED  BY <1>4, <1>5

\* The timer of job j was disarmed, or its cancellation threw.
TimerCancelled(j, c) ==
    /\ c \in ResultType /\ ~c.delete_job
    /\ JobInv(c.job)
    /\ ~c.threw => c.job.timer_id = "none"
    /\ c.job.alarm = Never
    /\ c.job.manifest = j.manifest /\ c.job.state = j.state
    /\ c.job.unload_requested = j.unload_requested /\ c.job.stopping = j.stopping
    /\ c.job.proc = j.proc

\* The invariant of a job whose unload was accepted while its timer is armed.
InvBeforeCancel(j) ==
    /\ KnowsItsProcess(j) /\ TimerIsExclusive(j) /\ GroupIsOwned(j)
    /\ StateFitsProcess(j) /\ ThrottleIsKept(j)
    /\ j.stopping => j.unload_requested
    /\ j.state = "Unloaded" => j.unload_requested

\* Job::cancelTimer disarms the timer on either backend.
LEMMA CancelTimerResult ==
    ASSUME NEW j \in JobType, InvBeforeCancel(j)
    PROVE  TimerCancelled(j, CancelTimerIfSet(j))
<1>1. CASE j.timer_id = "none"
  BY <1>1 DEF InvBeforeCancel, CancelTimerIfSet, ResultType, JobType, TimerCancelled
<1>2. CASE j.timer_id # "none"
  <2> DEFINE k == [j EXCEPT !.alarm = Never]
             i == [j EXCEPT !.alarm = Never, !.timer_id = "none"]
  <2>1. CancelTimerIfSet(j) = IF Backend = "epoll" THEN Threw(k) ELSE Done(i)
    BY <1>2 DEF CancelTimerIfSet, CancelTimer
  <2>2. k \in JobType /\ i \in JobType
    BY DEF JobType
  <2>3. /\ JobInv(k) /\ k.alarm = Never
        /\ k.manifest = j.manifest /\ k.state = j.state /\ k.proc = j.proc
        /\ k.unload_requested = j.unload_requested /\ k.stopping = j.stopping
    BY DEF JobType, InvBeforeCancel
  <2>4. /\ JobInv(i) /\ i.alarm = Never /\ i.timer_id = "none"
        /\ i.manifest = j.manifest /\ i.state = j.state /\ i.proc = j.proc
        /\ i.unload_requested = j.unload_requested /\ i.stopping = j.stopping
    BY DEF JobType, InvBeforeCancel
  <2> HIDE DEF k, i, JobInv
  <2> QED  BY <2>1, <2>2, <2>3, <2>4 DEF ResultType, TimerCancelled
<1> QED  BY <1>1, <1>2

\* A trigger without a row in the job's state changes nothing.
LEMMA NoRowSound ==
    ASSUME NEW j \in JobType, JobInv(j)
    PROVE  Sound(j, Done(j))
    BY DEF Sound, ResultType

\* A cancellation that throws, and nothing after it.
LEMMA CancelSound ==
    ASSUME NEW j \in JobType, NEW c, TimerCancelled(j, c)
    PROVE  Sound(j, c)
<1> HIDE DEF JobInv
<1> QED  BY DEF Sound, TimerCancelled

\* What is sound for a job is sound for one that differs in its timer,
\* clocks or kernel state only.
LEMMA SoundFrom ==
    ASSUME NEW j, NEW k, NEW r, Sound(k, r),
           k.manifest = j.manifest, j.unload_requested => k.unload_requested,
           k.state = j.state, k.proc \in {j.proc, "none"}
    PROVE  Sound(j, r)
<1> HIDE DEF JobInv
<1> QED  BY DEF Sound

\* The StartRequested trigger.
LEMMA StartRequestedSound ==
    ASSUME NEW j \in JobType, NEW a \in Answers, JobInv(j), j.proc = "none"
    PROVE  Sound(j, StartRequested(j, a))
<1>1. CASE j.state = "Loaded"
  <2>1. j.timer_id = "none"
    BY <1>1
  <2>2. StartRequested(j, a) = Goto(StartJob(j, a), "Running")
    BY <1>1 DEF StartRequested
  <2> QED  BY <1>1, <2>1, <2>2, StartToRunning
<1>2. CASE j.state = "Waiting"
  <2> DEFINE c == CancelTimerIfSet(j)
  <2>0. InvBeforeCancel(j)
    BY DEF InvBeforeCancel
  <2>1. TimerCancelled(j, c)
    BY <2>0, CancelTimerResult
  <2>2. StartRequested(j, a) = IF c.threw THEN c ELSE Goto(StartJob(c.job, a), "Running")
    BY <1>2 DEF StartRequested
  <2> HIDE DEF c
  <2>3. CASE c.threw
    BY <2>1, <2>2, <2>3, CancelSound
  <2>4. CASE ~c.threw
    <3> HIDE DEF JobInv
    <3> DEFINE k == c.job
    <3>1. /\ k \in JobType /\ JobInv(k) /\ k.proc = "none" /\ k.timer_id = "none"
          /\ k.state = j.state /\ k.manifest = j.manifest
          /\ k.unload_requested = j.unload_requested
      BY <2>1, <2>4 DEF TimerCancelled, ResultType
    <3> HIDE DEF k
    <3>2. Sound(k, Goto(StartJob(k, a), "Running"))
      BY <1>2, <3>1, StartToRunning
    <3>3. Sound(j, Goto(StartJob(k, a), "Running"))
      BY <3>1, <3>2, SoundFrom
    <3> QED  BY <2>2, <2>4, <3>3 DEF k
  <2> QED  BY <2>3, <2>4
<1>3. CASE j.state \notin {"Loaded", "Waiting"}
  <2>1. StartRequested(j, a) = Done(j)
    BY <1>3 DEF StartRequested
  <2> QED  BY <2>1, NoRowSound
<1> QED  BY <1>1, <1>2, <1>3

\* The Bootstrap trigger, which startAllJobs() sends to a new job.
LEMMA BootstrapSound ==
    ASSUME NEW m \in Manifests, NEW a \in Answers, NEW disabled
    PROVE  /\ Sound(NewJob(m), Bootstrap(NewJob(m), disabled, a))
           /\ ~Bootstrap(NewJob(m), disabled, a).delete_job
           /\ Bootstrap(NewJob(m), disabled, a).job.state # "Unloaded"
           /\ Bootstrap(NewJob(m), disabled, a).job.proc # "reported"
<1> DEFINE j == NewJob(m)
           r == Bootstrap(j, disabled, a)
<1>1. /\ j \in JobType /\ JobInv(j) /\ j.state = "Loaded" /\ j.timer_id = "none"
      /\ j.manifest = m
  BY NewJobInv
<1>2. j.proc = "none" /\ ~j.stopping
  BY DEF NewJob
<1> SUFFICES /\ Sound(j, r)
             /\ ~r.delete_job /\ r.job.state # "Unloaded" /\ r.job.proc # "reported"
  OBVIOUS
<1> HIDE DEF j
<1>3. CASE disabled \/ (~m.run_at_load /\ ~m.keep_alive /\ m.start_interval = NoInterval)
  <2>1. r = Done(j)
    BY <1>1, <1>3 DEF Bootstrap
  <2> QED  BY <1>1, <1>2, <2>1, NoRowSound
<1>4. CASE ~disabled /\ (m.run_at_load \/ m.keep_alive)
  <2> DEFINE q == StartRequested(j, a)
  <2>1. q = Goto(StartJob(j, a), "Running")
    BY <1>1 DEF StartRequested
  <2>2. Sound(j, q)
    BY <1>1, <1>2, StartRequestedSound
  <2>3. r = Goto(q, "Running")
    BY <1>1, <1>4 DEF Bootstrap
  <2>4. q.threw \/ q.job.state = "Running"
    <3>1. StartJob(j, a) \in ResultType
      BY <1>1, StartJobResult
    <3> DEFINE z == StartJob(j, a)
    <3>2. /\ q.threw = z.threw
          /\ ~z.threw => q.job = [z.job EXCEPT !.state = "Running"]
          /\ z.job \in JobType
      BY <2>1, <3>1, GotoResult DEF JobStates, ResultType
    <3> HIDE DEF z, q
    <3> QED  BY <3>2 DEF JobType
  <2> HIDE DEF q
  <2>5. r = q
    <3> HIDE DEF JobInv
    <3>1. q \in ResultType
      BY <2>2 DEF Sound
    <3>2. CASE q.threw  BY <2>3, <3>2 DEF Goto
    <3>3. CASE ~q.threw
      <4> DEFINE k == q.job
      <4>1. k \in JobType /\ k.state = "Running"
        BY <2>4, <3>1, <3>3 DEF ResultType
      <4>2. [k EXCEPT !.state = "Running"] = k
        BY <4>1 DEF JobType
      <4>3. r = [q EXCEPT !.job = [k EXCEPT !.state = "Running"]]
        BY <2>3, <3>3 DEF Goto
      <4> QED  BY <3>1, <4>2, <4>3 DEF ResultType
    <3> QED  BY <3>2, <3>3
  <2>6. q.job.state \in {"Loaded", "Running"}
    <3>1. CASE q.threw
      <4>1. q = StartJob(j, a)
        <5>1. StartJob(j, a) \in ResultType
          BY <1>1, StartJobResult
        <5> QED  BY <2>1, <3>1, <5>1, GotoResult DEF JobStates
      <4> QED  BY <1>1, <4>1, StartJobResult
    <3> QED  BY <2>4, <3>1
  <2> HIDE DEF JobInv
  <2> QED  BY <1>1, <1>2, <2>2, <2>5, <2>6 DEF Sound
<1>5. CASE ~disabled /\ ~(m.run_at_load \/ m.keep_alive) /\ m.start_interval # NoInterval
  <2> DEFINE q == MonitorTimer(j, "periodic", m.start_interval, a)
  <2>0. m.start_interval \in Int
    BY ManifestFields
  <2>1. r = Goto(q, "Waiting")
    BY <1>1, <1>5 DEF Bootstrap, SchedulePeriodicJob
  <2>2. Sound(j, r)
    BY <1>1, <1>2, <1>5, <2>0, <2>1, TimerToWaiting
  <2>3. r.job.state \in {"Loaded", "Waiting"}
    <3>1. TimerSet(j, "periodic", m.start_interval, q)
      BY <1>1, <2>0, MonitorTimerResult
    <3> HIDE DEF q, r
    <3>2. q \in ResultType /\ (q.threw => q.job = j)
      BY <3>1 DEF TimerSet
    <3>3. /\ q.threw => r = q
          /\ ~q.threw => r.job = [q.job EXCEPT !.state = "Waiting"]
          /\ q.job \in JobType
      BY <2>1, <3>2, GotoResult DEF JobStates, ResultType
    <3> QED  BY <1>1, <3>2, <3>3 DEF JobType
  <2> HIDE DEF JobInv, r
  <2> QED  BY <1>1, <1>2, <2>2, <2>3 DEF Sound
<1> QED  BY <1>3, <1>4, <1>5

\* Job::reapChildProcess: the process and its group are gone.
LEMMA ReapInv ==
    ASSUME NEW j \in JobType, JobInv(j), j.proc # "none"
    PROVE  LET k == ReapChildProcess(j)
           IN /\ k \in JobType /\ JobInv(k) /\ k.proc = "none"
              /\ k.manifest = j.manifest /\ k.state = j.state
              /\ k.unload_requested = j.unload_requested
              /\ k.elapsed = j.elapsed /\ k.stopping = j.stopping
<1> DEFINE i == [j EXCEPT !.pid = 0, !.proc = "none", !.asked_to_exit = FALSE]
           k == ReapChildProcess(j)
<1>1. /\ i \in JobType /\ i.proc = "none" /\ i.pid = 0 /\ i.pgid = j.pgid /\ i.lost = j.lost
      /\ i.manifest = j.manifest /\ i.state = j.state /\ i.timer_id = j.timer_id
      /\ i.alarm = j.alarm /\ i.elapsed = j.elapsed
      /\ i.unload_requested = j.unload_requested /\ i.stopping = j.stopping
      /\ i.group = j.group
  BY DEF JobType
<1>2. k = IF i.pgid < 0 \/ i.manifest.abandon_process_group THEN i ELSE [i EXCEPT !.group = FALSE]
  BY DEF ReapChildProcess, KillProcessGroup
<1> HIDE DEF i
<1>3. i.pgid < 0 => Backend = "kqueue" /\ i.pgid = -1
  <2>1. j.pgid \in {-1, 1} /\ (Backend = "epoll" => j.pgid = 1)
    BY DEF JobType
  <2> QED  BY <1>1, <2>1, BackendAssumption
<1>4. /\ k \in JobType /\ k.proc = "none" /\ k.pid = 0 /\ k.pgid = j.pgid /\ k.lost = j.lost
      /\ k.manifest = j.manifest /\ k.state = j.state /\ k.timer_id = j.timer_id
      /\ k.alarm = j.alarm /\ k.elapsed = j.elapsed
      /\ k.unload_requested = j.unload_requested /\ k.stopping = j.stopping
      /\ k.group => k.manifest.abandon_process_group \/ (Backend = "kqueue" /\ k.pgid = -1)
  <2>1. CASE i.pgid < 0 \/ i.manifest.abandon_process_group
    BY <1>1, <1>2, <1>3, <2>1
  <2>2. CASE ~(i.pgid < 0 \/ i.manifest.abandon_process_group)
    <3>1. k = [i EXCEPT !.group = FALSE]
      BY <1>2, <2>2
    <3> HIDE DEF k
    <3> QED  BY <1>1, <3>1 DEF JobType
  <2> QED  BY <2>1, <2>2
<1> HIDE DEF k
<1> SUFFICES /\ k \in JobType /\ JobInv(k) /\ k.proc = "none"
             /\ k.manifest = j.manifest /\ k.state = j.state
             /\ k.unload_requested = j.unload_requested
             /\ k.elapsed = j.elapsed /\ k.stopping = j.stopping
  BY DEF k
<1>5. JobInv(k)
  BY <1>4
<1> QED  BY <1>4, <1>5

\* A transition without an action, to Exited or to Unloaded.
LEMMA StateChange ==
    ASSUME NEW j \in JobType, JobInv(j), NEW s \in {"Exited", "Unloaded"},
           j.proc = "none" \/ (s = "Unloaded" /\ j.manifest.start_interval # NoInterval),
           j.timer_id = "none",
           s = "Unloaded" => j.unload_requested
    PROVE  LET k == [j EXCEPT !.state = s]
           IN /\ k \in JobType /\ JobInv(k)
              /\ k.manifest = j.manifest /\ k.unload_requested = j.unload_requested
              /\ k.state = s /\ k.proc = j.proc
<1> DEFINE k == [j EXCEPT !.state = s]
<1>1. /\ k \in JobType /\ k.state = s /\ k.proc = j.proc /\ k.pid = j.pid /\ k.pgid = j.pgid
      /\ k.manifest = j.manifest /\ k.timer_id = j.timer_id /\ k.lost = j.lost
      /\ k.alarm = j.alarm /\ k.elapsed = j.elapsed
      /\ k.unload_requested = j.unload_requested /\ k.stopping = j.stopping
      /\ k.group = j.group
  BY DEF JobType, JobStates
<1> HIDE DEF k
<1> SUFFICES /\ k \in JobType /\ JobInv(k)
             /\ k.manifest = j.manifest /\ k.unload_requested = j.unload_requested
             /\ k.state = s /\ k.proc = j.proc
  BY DEF k
<1> QED  BY <1>1

\* A transition to Unloaded queues the deletion of the job.
LEMMA DeletedSound ==
    ASSUME NEW j \in JobType, JobInv(j), j.unload_requested, j.timer_id = "none",
           j.state # "Unloaded",
           j.proc = "none" \/ j.manifest.start_interval # NoInterval
    PROVE  Sound(j, Deleted(j)) /\ Deleted(j).job.proc = j.proc
                /\ Deleted(j).job.unload_requested
<1> DEFINE k == [j EXCEPT !.state = "Unloaded"]
<1>1. /\ k \in JobType /\ JobInv(k)
      /\ k.manifest = j.manifest /\ k.unload_requested = j.unload_requested
      /\ k.state = "Unloaded" /\ k.proc = j.proc
  BY StateChange
<1>2. Deleted(j) = [job |-> k, delete_job |-> TRUE, threw |-> FALSE]
  OBVIOUS
<1>3. /\ Deleted(j).job = k /\ Deleted(j).delete_job = TRUE
      /\ Deleted(j) \in ResultType
  <2> HIDE DEF k, Deleted
  <2> QED  BY <1>1, <1>2 DEF ResultType
<1> HIDE DEF k, JobInv, Deleted
<1> QED  BY <1>1, <1>3 DEF Sound

\* The ProcessExited trigger, after the process was reaped.
LEMMA ProcessExitedSound ==
    ASSUME NEW j \in JobType, NEW a \in Answers, JobInv(j), j.proc = "none"
    PROVE  Sound(j, ProcessExited(j, a))
<1> DEFINE m  == j.manifest
           ti == m.throttle_interval
           e1 == j.elapsed
           e2 == e1 + a.t2
           e3 == e2 + a.t3
           restart == m.keep_alive /\ ~j.unload_requested
           p  == ProcessExited(j, a)
<1>0. /\ e1 \in Nat /\ e2 \in Nat /\ e3 \in Nat /\ ti \in Nat
      /\ m \in Manifests
  <2>1. m \in Manifests /\ e1 \in Nat
    BY DEF JobType
  <2>2. a.t2 \in Nat /\ a.t3 \in Nat
    BY ClockAssumption DEF Answers, ClockSteps
  <2>3. ti \in Nat
    BY <2>1, ManifestFields
  <2> QED  BY <2>1, <2>2, <2>3
<1>1. p = IF j.state # "Running" THEN Done(j)
          ELSE IF ~m.keep_alive /\ m.start_interval = NoInterval /\ ~j.unload_requested
          THEN Done([j EXCEPT !.state = "Exited"])
          ELSE IF restart /\ e1 >= ti THEN Goto(StartJob(j, a), "Running")
          ELSE IF restart /\ e2 < ti THEN Goto(StartAfterThrottleInterval(j, e3, a), "Waiting")
          ELSE IF j.unload_requested THEN Deleted(j)
          ELSE Done(j)
  BY DEF ProcessExited
<1> HIDE DEF p
<1> SUFFICES Sound(j, p)
  BY DEF p
<1>2. CASE p = Done(j)
  BY <1>2, NoRowSound
<1>3. CASE j.state = "Running" /\ p = Done([j EXCEPT !.state = "Exited"])
  <2> DEFINE k == [j EXCEPT !.state = "Exited"]
  <2>1. j.timer_id = "none"
    BY <1>3
  <2>2. /\ k \in JobType /\ JobInv(k)
        /\ k.manifest = j.manifest /\ k.unload_requested = j.unload_requested
        /\ k.state = "Exited" /\ k.proc = j.proc
    BY <2>1, StateChange
  <2> HIDE DEF k, JobInv
  <2>3. p.job = k /\ p.delete_job = FALSE /\ p \in ResultType
    BY <1>3, <2>2 DEF ResultType, k
  <2> QED  BY <1>3, <2>2, <2>3 DEF Sound
<1>4. CASE j.state = "Running" /\ p = Goto(StartJob(j, a), "Running")
  <2>1. j.timer_id = "none"
    BY <1>4
  <2> QED  BY <1>4, <2>1, StartToRunning
<1>5. CASE j.state = "Running" /\ restart /\ p = Goto(StartAfterThrottleInterval(j, e3, a), "Waiting")
  <2> DEFINE k  == [j EXCEPT !.elapsed = Cap(e3, ti)]
             ms == 1000 * (ti - e3)
  <2>1. Cap(e3, ti) \in Nat /\ (Cap(e3, ti) = e3 \/ Cap(e3, ti) = ti)
    BY <1>0, CapType
  <2>2. /\ k \in JobType /\ k.state = j.state /\ k.proc = j.proc /\ k.pid = j.pid
        /\ k.pgid = j.pgid /\ k.manifest = j.manifest /\ k.timer_id = j.timer_id
        /\ k.lost = j.lost /\ k.alarm = j.alarm /\ k.elapsed = Cap(e3, ti)
        /\ k.unload_requested = j.unload_requested /\ k.stopping = j.stopping
        /\ k.group = j.group
    BY <2>1 DEF JobType
  <2>3. StartAfterThrottleInterval(j, e3, a) = MonitorTimer(k, "throttle", ms, a)
    BY DEF StartAfterThrottleInterval
  <2>4. ms \in Int /\ \A n \in Nat : ms < 1000 * n + 1000 => Cap(e3, ti) + n >= ti
    <3> HIDE DEF m, ti, e1, e2, e3
    <3> QED  BY <1>0, <2>1
  <2>5. j.timer_id = "none" /\ ~j.stopping
    BY <1>5
  <2> HIDE DEF k
  <2>6. JobInv(k)
    BY <1>5, <2>2, <2>5
  <2>7. \A n \in Nat : ms < 1000 * n + 1000 => k.elapsed + n >= k.manifest.throttle_interval
    BY <2>2, <2>4
  <2>8. ms \in Int
    BY <2>4
  <2>9. k \in JobType /\ k.proc = "none" /\ k.timer_id = "none" /\ ~k.stopping
             /\ k.state # "Unloaded"
    BY <1>5, <2>2, <2>5
  <2> HIDE DEF ms, JobInv
  <2>10. Sound(k, Goto(MonitorTimer(k, "throttle", ms, a), "Waiting"))
    BY <2>6, <2>7, <2>8, <2>9, TimerToWaiting
  <2>11. Sound(k, p)
    BY <1>5, <2>3, <2>10
  <2> QED  BY <2>2, <2>11, SoundFrom
<1>6. CASE j.state = "Running" /\ j.unload_requested /\ p = Deleted(j)
  <2>1. j.timer_id = "none" /\ j.state # "Unloaded"
    BY <1>6
  <2> QED  BY <1>6, <2>1, DeletedSound
<1>7. \/ p = Done(j)
      \/ j.state = "Running" /\ p = Done([j EXCEPT !.state = "Exited"])
      \/ j.state = "Running" /\ p = Goto(StartJob(j, a), "Running")
      \/ j.state = "Running" /\ restart /\ p = Goto(StartAfterThrottleInterval(j, e3, a), "Waiting")
      \/ j.state = "Running" /\ j.unload_requested /\ p = Deleted(j)
  <2> HIDE DEF Done, Deleted, JobInv, m, ti, e1, e2, e3
  <2> QED  BY <1>1
<1> QED  BY <1>2, <1>3, <1>4, <1>5, <1>6, <1>7

\* The callback of an exit: the process is reaped before the state machine
\* runs, so its exit is not pending any more.
LEMMA OnExitSound ==
    ASSUME NEW j \in JobType, NEW a \in Answers, JobInv(j), j.proc # "none"
    PROVE  Sound(j, OnExit(j, a)) /\ OnExit(j, a).job.proc # "reported"
<1> DEFINE k == ReapChildProcess(j)
<1>1. /\ k \in JobType /\ JobInv(k) /\ k.proc = "none"
      /\ k.manifest = j.manifest /\ k.state = j.state
      /\ k.unload_requested = j.unload_requested
  BY ReapInv
<1>2. OnExit(j, a) = ProcessExited(k, a)
  BY DEF OnExit
<1> HIDE DEF k, JobInv
<1>3. Sound(k, ProcessExited(k, a))
  BY <1>1, ProcessExitedSound
<1>4. ProcessExited(k, a).job.proc # "reported"
  BY <1>1, <1>3 DEF Sound
<1>5. Sound(j, ProcessExited(k, a))
  BY <1>1, <1>3, SoundFrom
<1> QED  BY <1>2, <1>4, <1>5

\* The callback of a timer.  A periodic timer starts the process and leaves
\* the job Waiting; a throttle timer goes through the state machine.
LEMMA OnTimerSound ==
    ASSUME NEW j \in JobType, NEW a \in Answers, JobInv(j), j.alarm = 0
    PROVE  Sound(j, OnTimer(j, a)) /\ OnTimer(j, a).job.proc # "reported"
<1> DEFINE k == [j EXCEPT !.timer_id = "none", !.alarm = Never]
<1>1. /\ k \in JobType /\ k.state = j.state /\ k.proc = j.proc /\ k.pid = j.pid
      /\ k.pgid = j.pgid /\ k.manifest = j.manifest /\ k.timer_id = "none"
      /\ k.lost = j.lost /\ k.alarm = Never /\ k.elapsed = j.elapsed
      /\ k.unload_requested = j.unload_requested /\ k.stopping = j.stopping
      /\ k.group = j.group
  BY DEF JobType
<1>2. OnTimer(j, a) = IF j.timer_id = "periodic" THEN StartJob(k, a) ELSE StartRequested(k, a)
  BY DEF OnTimer
<1> HIDE DEF k
<1>3. /\ k.proc = "none" /\ k.state = "Waiting" /\ ~k.stopping
      /\ j.timer_id = "periodic" => k.manifest.start_interval # NoInterval
  BY <1>1
<1>4. JobInv(k)
  BY <1>1, <1>3
<1>5. Sound(k, OnTimer(j, a))
  <2>1. CASE j.timer_id # "periodic"
    <3>1. OnTimer(j, a) = StartRequested(k, a)
      BY <1>2, <2>1
    <3>2. Sound(k, StartRequested(k, a))
      BY <1>1, <1>3, <1>4, StartRequestedSound
    <3> QED  BY <3>1, <3>2
  <2>2. CASE j.timer_id = "periodic"
    <3> DEFINE r == StartJob(k, a)
    <3>1. OnTimer(j, a) = r
      BY <1>2, <2>2
    <3>2. /\ r \in ResultType /\ ~r.delete_job
          /\ r.job.manifest = k.manifest /\ r.job.state = k.state /\ r.job.timer_id = "none"
          /\ r.job.alarm = k.alarm /\ r.job.unload_requested = k.unload_requested
          /\ r.job.stopping = k.stopping /\ (r.job.group => k.group /\ r.job.pgid = k.pgid)
          /\ r.job.lost = k.lost /\ r.job.proc # "reported"
          /\ r.threw => r.job.proc = "none" /\ r.job.pid = k.pid
          /\ ~r.threw => (r.job.pid = 1 <=> r.job.proc # "none")
          /\ r.job.proc # "none" /\ Backend = "epoll" => r.job.pgid = 1
      BY <1>1, <1>3, StartJobResult
    <3> HIDE DEF r
    <3>3. JobInv(r.job)
      BY <1>1, <1>3, <1>4, <2>2, <3>2
    <3> HIDE DEF JobInv
    <3>4. Sound(k, r)
      BY <1>3, <3>2, <3>3 DEF Sound
    <3> QED  BY <3>1, <3>4
  <2> QED  BY <2>1, <2>2
<1> DEFINE q == OnTimer(j, a)
<1>6. Sound(k, q)
  BY <1>5
<1> HIDE DEF q, JobInv
<1>7. Sound(j, q)
  BY <1>1, <1>6, SoundFrom
<1>8. q.job.proc # "reported"
  BY <1>3, <1>6 DEF Sound
<1> QED  BY <1>7, <1>8 DEF q

\* Sending a signal to the process changes no field the invariant is about.
LEMMA KillJobInv ==
    ASSUME NEW j \in JobType, JobInv(j)
    PROVE  LET k == KillJob(j)
           IN /\ k \in JobType /\ JobInv(k)
              /\ k.manifest = j.manifest /\ k.state = j.state /\ k.proc = j.proc
              /\ k.unload_requested = j.unload_requested
<1>1. CASE j.pid = 1
  <2> DEFINE k == [j EXCEPT !.asked_to_exit = TRUE]
  <2>1. KillJob(j) = k
    BY <1>1 DEF KillJob
  <2>2. /\ k \in JobType /\ k.state = j.state /\ k.proc = j.proc /\ k.pid = j.pid
        /\ k.pgid = j.pgid /\ k.manifest = j.manifest /\ k.timer_id = j.timer_id
        /\ k.lost = j.lost /\ k.alarm = j.alarm /\ k.elapsed = j.elapsed
        /\ k.unload_requested = j.unload_requested /\ k.stopping = j.stopping
        /\ k.group = j.group
    BY DEF JobType
  <2> HIDE DEF k
  <2>3. JobInv(k)
    BY <2>2
  <2> HIDE DEF JobInv
  <2> QED  BY <2>1, <2>2, <2>3
<1>2. CASE j.pid # 1
  BY <1>2 DEF KillJob
<1> QED  BY <1>1, <1>2

\* Job::unloadJob: whatever the overrides say, the job is marked, and its
\* process is still there.  A Waiting job whose timer cannot be cancelled
\* stays in jobs; any other job without a process is Unloaded.
LEMMA UnloadSound ==
    ASSUME NEW j \in JobType, JobInv(j), NEW disabled, NEW force
    PROVE  LET r == UnloadJob(j, disabled, force)
           IN Sound(j, r) /\ r.job.proc = j.proc /\ r.job.unload_requested
<1> DEFINE q == UnloadJob(j, disabled, force)
           Good(r) == Sound(j, r) /\ r.job.proc = j.proc /\ r.job.unload_requested
<1> SUFFICES Good(q)
  OBVIOUS
<1>1. CASE j.state = "Unloaded" \/ j.unload_requested
  <2>1. q = Done(j)
    BY <1>1 DEF UnloadJob
  <2>2. j.unload_requested
    BY <1>1
  <2> QED  BY <2>1, <2>2, NoRowSound
<1>2. CASE ~(j.state = "Unloaded" \/ j.unload_requested) /\ disabled /\ ~force
  <2> DEFINE k == [j EXCEPT !.unload_requested = TRUE]
  <2>1. q = Done(k)
    BY <1>2 DEF UnloadJob
  <2>2. /\ k \in JobType /\ k.state = j.state /\ k.proc = j.proc /\ k.pid = j.pid
        /\ k.pgid = j.pgid /\ k.manifest = j.manifest /\ k.timer_id = j.timer_id
        /\ k.lost = j.lost /\ k.alarm = j.alarm /\ k.elapsed = j.elapsed
        /\ k.unload_requested = TRUE /\ k.stopping = j.stopping
        /\ k.group = j.group
    BY DEF JobType
  <2> HIDE DEF k, q
  <2>3. JobInv(k)
    BY <2>2
  <2>4. q.job = k /\ q.delete_job = FALSE /\ q \in ResultType
    BY <2>1, <2>2 DEF ResultType
  <2> HIDE DEF JobInv
  <2> QED  BY <1>2, <2>2, <2>3, <2>4 DEF Sound
<1>3. CASE ~(j.state = "Unloaded" \/ j.unload_requested) /\ ~(disabled /\ ~force)
  <2> DEFINE k == [j EXCEPT !.unload_requested = TRUE, !.stopping = TRUE]
  <2>1. q = UnloadRequested(StopRequested(k))
    BY <1>3 DEF UnloadJob
  <2>2. /\ k \in JobType /\ k.state = j.state /\ k.proc = j.proc /\ k.pid = j.pid
        /\ k.pgid = j.pgid /\ k.manifest = j.manifest /\ k.timer_id = j.timer_id
        /\ k.lost = j.lost /\ k.alarm = j.alarm /\ k.elapsed = j.elapsed
        /\ k.unload_requested = TRUE /\ k.stopping = TRUE
        /\ k.group = j.group
    BY DEF JobType
  <2> HIDE DEF k, q
  <2>3. k.state \in {"Loaded", "Waiting", "Running", "Exited"}
    BY <1>3, <2>2 DEF JobType, JobStates
  <2>4. k.state # "Waiting" => JobInv(k) /\ k.timer_id = "none"
    BY <2>2
  <2>5. InvBeforeCancel(k)
    BY <2>2 DEF InvBeforeCancel
  <2>6. k.state \in {"Loaded", "Exited"} => k.proc = "none"
    BY <2>5 DEF InvBeforeCancel
  <2> SUFFICES Sound(k, q) /\ q.job.proc = k.proc /\ q.job.unload_requested
    <3> HIDE DEF JobInv
    <3> QED  BY <1>3, <2>2, SoundFrom
  <2> HIDE DEF JobInv
  <2>7. CASE k.state \in {"Loaded", "Exited"}
    <3>1. q = Deleted(k)
      BY <2>1, <2>7 DEF StopRequested, UnloadRequested
    <3> HIDE DEF Deleted
    <3> QED  BY <2>2, <2>4, <2>6, <2>7, <3>1, DeletedSound
  <2>8. CASE k.state = "Running"
    <3> DEFINE i == KillJob(k)
    <3>1. /\ i \in JobType /\ JobInv(i)
          /\ i.manifest = k.manifest /\ i.state = k.state /\ i.proc = k.proc
          /\ i.unload_requested = k.unload_requested
      BY <2>2, <2>4, <2>8, KillJobInv
    <3>2. StopRequested(k) = i
      BY <2>8 DEF StopRequested
    <3> HIDE DEF i
    <3>3. q = Done(i)
      BY <2>1, <2>8, <3>1, <3>2 DEF UnloadRequested
    <3>4. Sound(i, q)
      BY <3>1, <3>3, NoRowSound
    <3>5. Sound(k, q)
      BY <3>1, <3>4, SoundFrom
    <3> QED  BY <2>2, <3>1, <3>3, <3>5
  <2>9. CASE k.state = "Waiting"
    <3> DEFINE c == CancelTimerIfSet(k)
    <3>1. TimerCancelled(k, c)
      BY <2>2, <2>5, CancelTimerResult
    <3>2. q = IF c.threw THEN c ELSE Deleted(c.job)
      BY <2>1, <2>9 DEF StopRequested, UnloadRequested
    <3> DEFINE i == c.job
    <3> HIDE DEF c, Deleted
    <3>3. /\ i \in JobType /\ JobInv(i) /\ i.proc = k.proc /\ i.state = k.state
          /\ i.manifest = k.manifest /\ i.unload_requested = TRUE
          /\ ~c.threw => i.timer_id = "none"
      BY <2>2, <3>1 DEF TimerCancelled, ResultType
    <3>4. CASE c.threw
      BY <2>2, <3>1, <3>2, <3>3, <3>4, CancelSound
    <3>5. CASE ~c.threw
      <4> HIDE DEF i
      <4>1. i.proc = "none" \/ i.manifest.start_interval # NoInterval
        BY <2>5, <2>9, <3>3 DEF InvBeforeCancel
      <4>2. Sound(i, Deleted(i)) /\ Deleted(i).job.proc = i.proc /\ Deleted(i).job.unload_requested
        BY <2>9, <3>3, <3>5, <4>1, DeletedSound
      <4>3. Sound(k, Deleted(i))
        BY <2>2, <3>3, <4>2, SoundFrom
      <4> QED  BY <3>2, <3>3, <3>5, <4>2, <4>3 DEF i
    <3> QED  BY <3>4, <3>5
  <2> QED  BY <2>3, <2>7, <2>8, <2>9
<1> QED  BY <1>1, <1>2, <1>3

\* A step of the environment keeps the job's invariant and its control state.
Undisturbed(j, k) == /\ k \in JobType /\ JobInv(k)
                     /\ k.manifest = j.manifest /\ k.state = j.state
                     /\ k.unload_requested = j.unload_requested

\* Time passes for a job.
LEMMA LaterInv ==
    ASSUME NEW j \in JobType, JobInv(j)
    PROVE  Undisturbed(j, Later(j)) /\ Later(j).proc = j.proc
<1> DEFINE ti == j.manifest.throttle_interval
           e == Cap(j.elapsed + 1, ti)
           n == IF j.alarm > 0 THEN j.alarm - 1 ELSE j.alarm
           k == [j EXCEPT !.elapsed = e, !.alarm = n]
<1>1. /\ ti \in Nat /\ j.elapsed \in Nat /\ j.alarm \in {Never} \cup Nat
  BY ManifestFields DEF JobType
<1>2. e \in Nat /\ (e = j.elapsed + 1 \/ e = ti)
  <2>1. j.elapsed + 1 \in Nat
    BY <1>1
  <2> HIDE DEF ti, JobInv
  <2> QED  BY <1>1, <2>1, CapType
<1>3. /\ n \in {Never} \cup Nat
      /\ n # Never => j.alarm # Never
      /\ j.alarm = Never => n = Never
      /\ n = j.alarm - 1 \/ (n = j.alarm /\ (n # Never => n = 0))
  BY <1>1
<1>4. Later(j) = k
  BY DEF Later
<1> HIDE DEF ti, e, n
<1>5. /\ k \in JobType /\ k.state = j.state /\ k.proc = j.proc /\ k.pid = j.pid
      /\ k.pgid = j.pgid /\ k.manifest = j.manifest /\ k.timer_id = j.timer_id
      /\ k.lost = j.lost /\ k.alarm = n /\ k.elapsed = e
      /\ k.unload_requested = j.unload_requested /\ k.stopping = j.stopping
      /\ k.group = j.group
  BY <1>2, <1>3 DEF JobType
<1> HIDE DEF k
<1>6. j.timer_id = "throttle" /\ n # Never => e + n >= ti
  <2>1. j.timer_id = "throttle" /\ j.alarm # Never => j.elapsed + j.alarm >= ti
    BY DEF ti
  <2> QED  BY <1>1, <1>2, <1>3, <2>1
<1>7. JobInv(k)
  BY <1>3, <1>5, <1>6 DEF ti
<1> HIDE DEF JobInv
<1> QED  BY <1>4, <1>5, <1>7 DEF Undisturbed

\* The process becomes a zombie, or its exit goes to the event queue.
LEMMA ProcessChangeInv ==
    ASSUME NEW j \in JobType, JobInv(j), j.proc # "none", NEW p \in {"zombie", "reported"}
    PROVE  Undisturbed(j, [j EXCEPT !.proc = p]) /\ [j EXCEPT !.proc = p].proc = p
<1> DEFINE k == [j EXCEPT !.proc = p]
<1>1. /\ k \in JobType /\ k.state = j.state /\ k.proc = p /\ k.pid = j.pid
      /\ k.pgid = j.pgid /\ k.manifest = j.manifest /\ k.timer_id = j.timer_id
      /\ k.lost = j.lost /\ k.alarm = j.alarm /\ k.elapsed = j.elapsed
      /\ k.unload_requested = j.unload_requested /\ k.stopping = j.stopping
      /\ k.group = j.group
  BY DEF JobType
<1> HIDE DEF k
<1>2. JobInv(k)
  BY <1>1
<1> HIDE DEF JobInv
<1>3. Undisturbed(j, k) /\ k.proc = p
  BY <1>1, <1>2 DEF Undisturbed
<1> QED  BY <1>3 DEF k

\* The process group of the job gains its first other member or loses its last.
LEMMA GroupChangeInv ==
    ASSUME NEW j \in JobType, JobInv(j), j.group \/ j.proc \in {"alive", "early", "zombie"}
    PROVE  Undisturbed(j, [j EXCEPT !.group = ~@]) /\ [j EXCEPT !.group = ~@].proc = j.proc
<1> DEFINE k == [j EXCEPT !.group = ~@]
<1>1. /\ k \in JobType /\ k.state = j.state /\ k.proc = j.proc /\ k.pid = j.pid
      /\ k.pgid = j.pgid /\ k.manifest = j.manifest /\ k.timer_id = j.timer_id
      /\ k.lost = j.lost /\ k.alarm = j.alarm /\ k.elapsed = j.elapsed
      /\ k.unload_requested = j.unload_requested /\ k.stopping = j.stopping
      /\ k.group = ~j.group
  BY DEF JobType
<1> HIDE DEF k
<1>2. JobInv(k)
  BY <1>1
<1> HIDE DEF JobInv
<1>3. Undisturbed(j, k) /\ k.proc = j.proc
  BY <1>1, <1>2 DEF Undisturbed
<1> QED  BY <1>3 DEF k
=============================================================================
