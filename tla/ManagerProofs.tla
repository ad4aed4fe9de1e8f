--------------------------- MODULE ManagerProofs ---------------------------
(***************************************************************************)
(* Inv is an invariant of the manager, for every number of jobs, every set *)
(* of manifests, faults, requests and signals, and on both event backends. *)
(* The safety invariants that TLC checks on small instances follow.        *)
(*                                                                         *)
(* The argument: the event queue and the jobs determine each other.  Every *)
(* callback takes its event from the head of the queue and leaves the job  *)
(* it belongs to without it, and a job adds a deletion exactly when it     *)
(* becomes Unloaded (JobProofs).  So the queue holds one deletion for      *)
(* every Unloaded job, one exit for every job whose process was reported   *)
(* dead, and no exit behind a deletion of the same job.                    *)
(***************************************************************************)
EXTENDS Manager, JobProofs

-----------------------------------------------------------------------------
(* Events in a queue *)

\* Event e is in the queue q once if b holds, and not at all otherwise.
Once(q, e, b) ==
    IF b THEN \E i \in 1 .. Len(q) : q[i] = e /\ \A k \in 1 .. Len(q) : q[k] = e => k = i
    ELSE \A k \in 1 .. Len(q) : q[k] # e

\* No e is behind an f.
Before(q, e, f) == \A i, k \in 1 .. Len(q) : q[i] = e /\ q[k] = f => i < k

\* Only the truth of the condition matters.
LEMMA OnceIff ==
    ASSUME NEW q, NEW e, NEW b, NEW c, Once(q, e, b), b <=> c
    PROVE  Once(q, e, c)
    BY DEF Once

\* Taking the head of the queue takes that event and no other.
LEMMA TailOnce ==
    ASSUME NEW T, NEW q \in Seq(T), q # <<>>, NEW e, NEW b \in BOOLEAN, Once(q, e, b)
    PROVE  /\ Tail(q) \in Seq(T)
           /\ q[1] # e => Once(Tail(q), e, b)
           /\ q[1] = e => Once(Tail(q), e, FALSE)
<1>1. /\ Tail(q) \in Seq(T) /\ Len(q) \in Nat /\ Len(q) >= 1
      /\ Len(Tail(q)) = Len(q) - 1
      /\ \A i \in 1 .. Len(q) - 1 : Tail(q)[i] = q[i + 1]
  OBVIOUS
<1>2. ASSUME q[1] # e PROVE Once(Tail(q), e, b)
  <2>1. CASE b
    <3>1. PICK i \in 1 .. Len(q) : q[i] = e /\ \A k \in 1 .. Len(q) : q[k] = e => k = i
      BY <2>1 DEF Once
    <3>2. i - 1 \in 1 .. Len(Tail(q)) /\ Tail(q)[i - 1] = e
      BY <1>1, <1>2, <3>1
    <3>3. \A k \in 1 .. Len(Tail(q)) : Tail(q)[k] = e => k = i - 1
      BY <1>1, <3>1
    <3> QED  BY <2>1, <3>2, <3>3 DEF Once
  <2>2. CASE ~b
    BY <1>1, <2>2 DEF Once
  <2> QED  BY <2>1, <2>2
<1>3. ASSUME q[1] = e PROVE Once(Tail(q), e, FALSE)
  BY <1>1, <1>3 DEF Once
<1> QED  BY <1>1, <1>2, <1>3

\* The order of the events left is the same.
LEMMA TailBefore ==
    ASSUME NEW T, NEW q \in Seq(T), q # <<>>, NEW e, NEW f, Before(q, e, f)
    PROVE  /\ Before(Tail(q), e, f)
           /\ e # f /\ q[1] = f => Once(Tail(q), e, FALSE)
<1>1. /\ Len(q) \in Nat /\ Len(q) >= 1
      /\ Len(Tail(q)) = Len(q) - 1
      /\ \A i \in 1 .. Len(q) - 1 : Tail(q)[i] = q[i + 1]
  OBVIOUS
<1>2. Before(Tail(q), e, f)
  BY <1>1 DEF Before
<1>3. e # f /\ q[1] = f => Once(Tail(q), e, FALSE)
  BY <1>1 DEF Before, Once
<1> QED  BY <1>2, <1>3

\* Adding events at the end of the queue.
LEMMA ConcatOnce ==
    ASSUME NEW T, NEW q \in Seq(T), NEW s \in Seq(T), NEW e,
           NEW b \in BOOLEAN, NEW c \in BOOLEAN,
           Once(q, e, b), Once(s, e, c), ~(b /\ c)
    PROVE  q \o s \in Seq(T) /\ Once(q \o s, e, b \/ c)
<1> DEFINE w == q \o s
<1>1. /\ w \in Seq(T) /\ Len(q) \in Nat /\ Len(s) \in Nat /\ Len(w) = Len(q) + Len(s)
      /\ \A i \in 1 .. Len(q) : w[i] = q[i]
      /\ \A i \in Len(q) + 1 .. Len(q) + Len(s) : w[i] = s[i - Len(q)]
  OBVIOUS
<1> HIDE DEF w
<1>2. CASE b /\ ~c
  <2>1. PICK i \in 1 .. Len(q) : q[i] = e /\ \A k \in 1 .. Len(q) : q[k] = e => k = i
    BY <1>2 DEF Once
  <2>2. i \in 1 .. Len(w) /\ w[i] = e
    BY <1>1, <2>1
  <2>3. ASSUME NEW k \in 1 .. Len(w), w[k] = e PROVE k = i
    <3>1. CASE k <= Len(q)  BY <1>1, <2>1, <2>3, <3>1
    <3>2. CASE k > Len(q)
      <4>1. k - Len(q) \in 1 .. Len(s) /\ w[k] = s[k - Len(q)]
        BY <1>1, <3>2
      <4> QED  BY <1>2, <2>3, <4>1 DEF Once
    <3> QED  BY <1>1, <3>1, <3>2
  <2> QED  BY <1>1, <1>2, <2>2, <2>3 DEF Once, w
<1>3. CASE ~b /\ c
  <2>1. PICK i \in 1 .. Len(s) : s[i] = e /\ \A k \in 1 .. Len(s) : s[k] = e => k = i
    BY <1>3 DEF Once
  <2>2. Len(q) + i \in 1 .. Len(w) /\ w[Len(q) + i] = e
    <3>1. Len(q) + i \in Len(q) + 1 .. Len(q) + Len(s) /\ (Len(q) + i) - Len(q) = i
      BY <1>1
    <3>2. w[Len(q) + i] = s[(Len(q) + i) - Len(q)]
      BY <1>1, <3>1
    <3> QED  BY <1>1, <2>1, <3>1, <3>2
  <2>3. ASSUME NEW k \in 1 .. Len(w), w[k] = e PROVE k = Len(q) + i
    <3>1. CASE k <= Len(q)  BY <1>1, <1>3, <2>3, <3>1 DEF Once
    <3>2. CASE k > Len(q)
      <4>1. k - Len(q) \in 1 .. Len(s) /\ w[k] = s[k - Len(q)]
        BY <1>1, <3>2
      <4> QED  BY <1>1, <2>1, <2>3, <4>1
    <3> QED  BY <1>1, <3>1, <3>2
  <2> QED  BY <1>1, <1>3, <2>2, <2>3 DEF Once, w
<1>4. CASE ~b /\ ~c
  <2>1. ASSUME NEW k \in 1 .. Len(w) PROVE w[k] # e
    <3>1. CASE k <= Len(q)  BY <1>1, <1>4, <3>1 DEF Once
    <3>2. CASE k > Len(q)
      <4>1. k - Len(q) \in 1 .. Len(s) /\ w[k] = s[k - Len(q)]
        BY <1>1, <3>2
      <4> QED  BY <1>4, <4>1 DEF Once
    <3> QED  BY <1>1, <3>1, <3>2
  <2> QED  BY <1>1, <1>4, <2>1 DEF Once, w
<1> QED  BY <1>2, <1>3, <1>4

\* An event added at the end is not in front of an older one.
LEMMA ConcatBefore ==
    ASSUME NEW T, NEW q \in Seq(T), NEW s \in Seq(T), NEW e, NEW f,
           Before(q, e, f), Once(s, e, FALSE)
    PROVE  Before(q \o s, e, f)
<1> DEFINE w == q \o s
<1>1. /\ Len(q) \in Nat /\ Len(s) \in Nat /\ Len(w) = Len(q) + Len(s)
      /\ \A i \in 1 .. Len(q) : w[i] = q[i]
      /\ \A i \in Len(q) + 1 .. Len(q) + Len(s) : w[i] = s[i - Len(q)]
  OBVIOUS
<1> HIDE DEF w
<1>2. ASSUME NEW i \in 1 .. Len(w), NEW k \in 1 .. Len(w), w[i] = e, w[k] = f
      PROVE  i < k
  <2>1. i <= Len(q)
    <3>1. CASE i > Len(q)
      <4>1. i - Len(q) \in 1 .. Len(s) /\ w[i] = s[i - Len(q)]
        BY <1>1, <3>1
      <4> QED  BY <1>2, <4>1 DEF Once
    <3> QED  BY <1>1, <3>1
  <2> QED  BY <1>1, <1>2, <2>1 DEF Before
<1> QED  BY <1>2 DEF Before, w

\* A visiting order of S names every member once and nothing else.
LEMMA OrderOnce ==
    ASSUME NEW S, NEW s \in Orders(S)
    PROVE  s \in Seq(S) /\ \A e : Once(s, e, e \in S)
<1>1. PICK n \in 0 .. Cardinality(S) :
        /\ s \in [1 .. n -> S]
        /\ \A i, k \in 1 .. n : s[i] = s[k] => i = k
        /\ \A x \in S : \E i \in 1 .. n : s[i] = x
  BY DEF Orders
<1>2. n \in Nat
  OBVIOUS
<1>3. s \in Seq(S) /\ Len(s) = n
  BY <1>1, <1>2
<1> QED  BY <1>1, <1>3 DEF Once

\* Events are equal only if their kinds and arguments are.
LEMMA EventsDiffer ==
    ASSUME NEW k, NEW l, NEW s
    PROVE  /\ DeleteJob(k) = DeleteJob(l) => k = l
           /\ Exited(k) = Exited(l) => k = l
           /\ DeleteJob(k) # Exited(l)
           /\ DeleteJob(k) # Orphaned(s) /\ DeleteJob(k) # Caught(s)
           /\ Exited(k) # Orphaned(s) /\ Exited(k) # Caught(s)
<1>1. /\ DeleteJob(k).type = "delete_job" /\ DeleteJob(k).arg = k
      /\ DeleteJob(l).type = "delete_job" /\ DeleteJob(l).arg = l
      /\ Exited(k).type = "proc" /\ Exited(k).arg = k
      /\ Exited(l).type = "proc" /\ Exited(l).arg = l
      /\ Orphaned(s).type = "orphan" /\ Caught(s).type = "signal"
  BY DEF DeleteJob, Exited, Orphaned, Caught
<1> QED  BY <1>1

\* What the head of the queue is, by its type.
LEMMA HeadEvent ==
    ASSUME NEW e \in Events
    PROVE  /\ e.type = "delete_job" => e.arg \in Labels /\ e = DeleteJob(e.arg)
           /\ e.type = "proc" => e.arg \in Labels /\ e = Exited(e.arg)
           /\ e.type = "orphan" => e = Orphaned(e.arg)
           /\ e.type = "signal" => e = Caught(e.arg)
    BY DEF Events, DeleteJob, Exited, Orphaned, Caught

-----------------------------------------------------------------------------
(* The invariant, in the form the proof uses *)

JobsOK(J) == /\ DOMAIN J \subseteq Labels
             /\ J = [l \in DOMAIN J |-> J[l]]
             /\ \A l \in DOMAIN J : J[l] \in JobType /\ JobInv(J[l])

IsUnloaded(J, l) == l \in DOMAIN J /\ J[l].state = "Unloaded"
IsReported(J, l) == l \in DOMAIN J /\ J[l].proc = "reported"

\* The queue q is the one that the jobs J account for.
Matches(q, J) == \A l \in Labels : /\ Once(q, DeleteJob(l), IsUnloaded(J, l))
                                   /\ Once(q, Exited(l), IsReported(J, l))
                                   /\ Before(q, Exited(l), DeleteJob(l))

RestOK == /\ state \in States
          /\ DOMAIN pending_jobs \subseteq Labels
          /\ pending_jobs \in [DOMAIN pending_jobs -> [moved : BOOLEAN, manifest : Manifests]]
          /\ signals \subseteq ShutdownSignals
          /\ overrides \in [Labels -> {"none", "enabled", "disabled"}]
          /\ orphans \subseteq Labels

IInv == /\ RestOK
        /\ JobsOK(jobs)
        /\ pending_events \in Seq(Events)
        /\ state = "Unconfigured" => pending_events = <<>> /\ DOMAIN jobs = {}
        /\ Alive => Matches(pending_events, jobs)
        /\ ShutdownReachesAll

\* The form of the invariant that the proof uses implies the published one.
LEMMA InvFromIInv == IInv => Inv
<1> SUFFICES ASSUME IInv PROVE Inv
  OBVIOUS
<1> HIDE DEF JobInv
<1>1. TypeOK
  BY DEF IInv, RestOK, JobsOK, TypeOK
<1>2. \A l \in DOMAIN jobs : l \in Labels /\ JobInv(jobs[l])
  BY DEF IInv, JobsOK
<1>3. DOMAIN pending_events = 1 .. Len(pending_events)
  BY DEF IInv
<1>4. ASSUME Alive PROVE Matches(pending_events, jobs)
  BY <1>4 DEF IInv
<1>5. DeletionExact
  <2> SUFFICES ASSUME Alive
               PROVE /\ \A l \in Labels : \A i \in EventsOf(DeleteJob(l)) :
                           /\ l \in DOMAIN jobs
                           /\ jobs[l].state = "Unloaded"
                           /\ EventsOf(DeleteJob(l)) = {i}
                     /\ \A l \in DOMAIN jobs :
                           jobs[l].state = "Unloaded" => EventsOf(DeleteJob(l)) # {}
    BY DEF DeletionExact
  <2>1. ASSUME NEW l \in Labels, NEW i \in EventsOf(DeleteJob(l))
        PROVE  IsUnloaded(jobs, l) /\ EventsOf(DeleteJob(l)) = {i}
    BY <1>3, <1>4, <2>1 DEF Matches, Once, EventsOf
  <2>2. ASSUME NEW l \in DOMAIN jobs, jobs[l].state = "Unloaded"
        PROVE  EventsOf(DeleteJob(l)) # {}
    <3>1. Once(pending_events, DeleteJob(l), TRUE)
      <4>1. IsUnloaded(jobs, l) = TRUE
        BY <2>2 DEF IsUnloaded
      <4> QED  BY <1>2, <1>4, <4>1 DEF Matches
    <3> QED  BY <1>3, <3>1 DEF Once, EventsOf
  <2> QED  BY <2>1, <2>2 DEF IsUnloaded
<1>6. ExitDeliveredOnce
  <2> SUFFICES ASSUME Alive
               PROVE /\ \A l \in Labels : \A i \in EventsOf(Exited(l)) :
                           /\ l \in DOMAIN jobs
                           /\ jobs[l].proc = "reported"
                           /\ EventsOf(Exited(l)) = {i}
                           /\ \A k \in EventsOf(DeleteJob(l)) : i < k
                     /\ \A l \in DOMAIN jobs :
                           jobs[l].proc = "reported" => EventsOf(Exited(l)) # {}
    BY DEF ExitDeliveredOnce
  <2>1. ASSUME NEW l \in Labels, NEW i \in EventsOf(Exited(l))
        PROVE  /\ IsReported(jobs, l) /\ EventsOf(Exited(l)) = {i}
               /\ \A k \in EventsOf(DeleteJob(l)) : i < k
    <3>1. IsReported(jobs, l) /\ EventsOf(Exited(l)) = {i}
      BY <1>3, <1>4, <2>1 DEF Matches, Once, EventsOf
    <3>2. \A k \in EventsOf(DeleteJob(l)) : i < k
      BY <1>3, <1>4, <2>1 DEF Matches, Before, EventsOf
    <3> QED  BY <3>1, <3>2
  <2>2. ASSUME NEW l \in DOMAIN jobs, jobs[l].proc = "reported"
        PROVE  EventsOf(Exited(l)) # {}
    <3>1. Once(pending_events, Exited(l), TRUE)
      <4>1. IsReported(jobs, l) = TRUE
        BY <2>2 DEF IsReported
      <4> QED  BY <1>2, <1>4, <4>1 DEF Matches
    <3> QED  BY <1>3, <3>1 DEF Once, EventsOf
  <2> QED  BY <2>1, <2>2 DEF IsReported
<1> QED  BY <1>1, <1>2, <1>5, <1>6 DEF IInv, Inv

HIDE DEF Done, Threw, Deleted, NoInterval, Never, JobInv, KnowsItsProcess, TimerIsExclusive,
         GroupIsOwned, StateFitsProcess, ThrottleIsKept, UnloadIsMarked

\* The queue does not depend on anything else in the jobs.
LEMMA SameMatches ==
    ASSUME NEW q, NEW J, NEW K, Matches(q, J),
           \A l \in Labels : /\ IsUnloaded(K, l) <=> IsUnloaded(J, l)
                             /\ IsReported(K, l) <=> IsReported(J, l)
    PROVE  Matches(q, K)
<1> SUFFICES ASSUME NEW l \in Labels
             PROVE  /\ Once(q, DeleteJob(l), IsUnloaded(K, l))
                    /\ Once(q, Exited(l), IsReported(K, l))
                    /\ Before(q, Exited(l), DeleteJob(l))
  BY DEF Matches
<1>1. IsUnloaded(K, l) = IsUnloaded(J, l) /\ IsReported(K, l) = IsReported(J, l)
  BY DEF IsUnloaded, IsReported
<1> QED  BY <1>1 DEF Matches

\* An empty queue matches jobs that are neither Unloaded nor reported dead,
\* and no others.
LEMMA EmptyMatches ==
    ASSUME NEW J
    PROVE  Matches(<<>>, J) <=> \A l \in Labels : ~IsUnloaded(J, l) /\ ~IsReported(J, l)
    BY DEF Matches, Once, Before, IsUnloaded, IsReported

\* One job changes without effect on the queue.
LEMMA OneJob ==
    ASSUME NEW J, JobsOK(J), NEW l \in DOMAIN J, NEW j \in JobType, JobInv(j)
    PROVE  LET K == [J EXCEPT ![l] = j]
           IN /\ JobsOK(K) /\ DOMAIN K = DOMAIN J /\ K[l] = j
              /\ \A k \in DOMAIN J \ {l} : K[k] = J[k]
    BY DEF JobsOK

\* A step of the environment of a job.
LEMMA EnvironmentStep ==
    ASSUME IInv, NEW l \in DOMAIN jobs, NEW j, Environment(l, j),
           Undisturbed(jobs[l], j), (j.proc = "reported") <=> (jobs[l].proc = "reported")
    PROVE  IInv'
<1>1. /\ JobsOK(jobs') /\ DOMAIN jobs' = DOMAIN jobs /\ jobs'[l] = j
      /\ \A k \in DOMAIN jobs \ {l} : jobs'[k] = jobs[k]
  BY OneJob DEF IInv, Environment, Undisturbed
<1>2. Alive /\ state' = state /\ pending_events' = pending_events
  BY DEF Environment
<1>3. Matches(pending_events, jobs')
  <2>1. \A k \in Labels : /\ IsUnloaded(jobs', k) <=> IsUnloaded(jobs, k)
                          /\ IsReported(jobs', k) <=> IsReported(jobs, k)
    BY <1>1 DEF Undisturbed, IsUnloaded, IsReported
  <2> QED  BY <1>2, <2>1, SameMatches DEF IInv
<1>4. ShutdownReachesAll'
  BY <1>1, <1>2 DEF IInv, ShutdownReachesAll, Undisturbed
<1>5. RestOK'
  BY DEF IInv, RestOK, Environment
<1> QED  BY <1>1, <1>2, <1>3, <1>4, <1>5 DEF IInv, Alive

\* The steps of the environment of launchd keep the invariant.
LEMMA EnvironsInv ==
    ASSUME IInv, Environs
    PROVE  IInv'
<1>0. \A l \in DOMAIN jobs : jobs[l] \in JobType /\ JobInv(jobs[l])
  BY DEF IInv, JobsOK
<1>1. ASSUME NEW l \in Labels, Tick(l) PROVE IInv'
  <2>1. l \in DOMAIN jobs /\ Environment(l, Later(jobs[l]))
    BY <1>1 DEF Tick
  <2>2. Undisturbed(jobs[l], Later(jobs[l])) /\ Later(jobs[l]).proc = jobs[l].proc
    BY <1>0, <2>1, LaterInv
  <2> QED  BY <2>1, <2>2, EnvironmentStep
<1>2. ASSUME NEW l \in Labels, ProcessExits(l) PROVE IInv'
  <2> DEFINE k == [jobs[l] EXCEPT !.proc = "zombie"]
  <2>1. l \in DOMAIN jobs /\ jobs[l].proc = "alive" /\ Environment(l, k)
    BY <1>2 DEF ProcessExits
  <2>2. Undisturbed(jobs[l], k) /\ k.proc = "zombie"
    BY <1>0, <2>1, ProcessChangeInv
  <2> QED  BY <2>1, <2>2, EnvironmentStep
<1>3. ASSUME NEW l \in Labels, GroupChanges(l) PROVE IInv'
  <2> DEFINE k == [jobs[l] EXCEPT !.group = ~@]
  <2>1. l \in DOMAIN jobs /\ (jobs[l].group \/ jobs[l].proc \in {"alive", "early", "zombie"}) /\ Environment(l, k)
    BY <1>3 DEF GroupChanges
  <2>2. Undisturbed(jobs[l], k) /\ k.proc = jobs[l].proc
    BY <1>0, <2>1, GroupChangeInv
  <2> QED  BY <2>1, <2>2, EnvironmentStep
<1>4. ASSUME NEW s \in ShutdownSignals, SignalArrives(s) PROVE IInv'
  BY <1>4 DEF SignalArrives, IInv, RestOK, Alive, ShutdownReachesAll
<1> QED  BY <1>1, <1>2, <1>3, <1>4 DEF Environs

-----------------------------------------------------------------------------
(* Loading and starting *)

\* Jobs are added that are neither Unloaded nor reported dead.
LEMMA AddedJobs ==
    ASSUME NEW J, JobsOK(J), NEW K, NEW S \in SUBSET Labels,
           S \cap DOMAIN J = {}, DOMAIN K = DOMAIN J \cup S, K = [l \in DOMAIN K |-> K[l]],
           \A l \in DOMAIN J : K[l] = J[l],
           \A l \in S : /\ K[l] \in JobType /\ JobInv(K[l])
                        /\ K[l].state # "Unloaded" /\ K[l].proc # "reported",
           NEW q, Matches(q, J)
    PROVE  JobsOK(K) /\ Matches(q, K)
<1>1. JobsOK(K)
  BY DEF JobsOK
<1>2. \A l \in Labels : /\ IsUnloaded(K, l) <=> IsUnloaded(J, l)
                        /\ IsReported(K, l) <=> IsReported(J, l)
  BY DEF IsUnloaded, IsReported
<1> QED  BY <1>1, <1>2, SameMatches

\* Manager::startAllJobs, wherever it stops, leaves started jobs in jobs and
\* a pending_jobs of the same jobs or none.
LEMMA StartAllJobsInv ==
    ASSUME IInv, state \in {"Unconfigured", "Running"},
           NEW p, DOMAIN p \subseteq Labels,
           p \in [DOMAIN p -> [moved : BOOLEAN, manifest : Manifests]],
           overrides' \in [Labels -> {"none", "enabled", "disabled"}],
           NEW next \in {"Running", "Terminated"}, NEW onThrow \in {"Running", "Terminated"},
           StartAllJobs(p, next, onThrow),
           UNCHANGED <<pending_events, signals, orphans>>
    PROVE  IInv'
<1>1. PICK a \in [DOMAIN p -> StartAnswers] :
      LET Started(l)  == Bootstrap(NewJob(p[l].manifest), IsDisabled(l, p[l].manifest, overrides'), a[l])
          collides    == {l \in DOMAIN p : p[l].moved \/ l \in DOMAIN jobs}
          throws      == {l \in DOMAIN p \ collides : Started(l).threw}
          JobsWith(S) == [l \in DOMAIN jobs \cup S |->
                            IF l \in S THEN Started(l).job ELSE jobs[l]]
      IN \/ /\ collides \cup throws = {}
            /\ jobs' = JobsWith(DOMAIN p)
            /\ pending_jobs' = Empty
            /\ state' = next
         \/ \E done \in SUBSET (DOMAIN p \ (collides \cup throws)) :
              \/ \E l \in throws :
                   /\ jobs' = JobsWith(done \cup {l})
                   /\ pending_jobs' = [k \in DOMAIN p |->
                                         [p[k] EXCEPT !.moved = @ \/ k \in done \cup {l}]]
                   /\ state' = onThrow
              \/ /\ collides # {}
                 /\ jobs' = JobsWith(done)
                 /\ pending_jobs' = p
                 /\ state' = "Terminated"
  BY DEF StartAllJobs
<1> DEFINE Started(l)  == Bootstrap(NewJob(p[l].manifest), IsDisabled(l, p[l].manifest, overrides'), a[l])
           collides    == {l \in DOMAIN p : p[l].moved \/ l \in DOMAIN jobs}
           throws      == {l \in DOMAIN p \ collides : Started(l).threw}
           JobsWith(S) == [l \in DOMAIN jobs \cup S |->
                             IF l \in S THEN Started(l).job ELSE jobs[l]]
<1>2. PICK S \in SUBSET {l \in DOMAIN p : l \notin DOMAIN jobs} : jobs' = JobsWith(S)
  <2>1. \/ collides \cup throws = {} /\ jobs' = JobsWith(DOMAIN p)
        \/ \E done \in SUBSET (DOMAIN p \ (collides \cup throws)) :
             \/ \E l \in throws : jobs' = JobsWith(done \cup {l})
             \/ jobs' = JobsWith(done)
    BY <1>1
  <2> HIDE DEF Started, JobsWith
  <2>2. throws \subseteq DOMAIN p \ collides
    OBVIOUS
  <2> HIDE DEF throws
  <2> QED  BY <2>1, <2>2
<1>3. /\ state' \in {"Running", "Terminated"}
      /\ DOMAIN pending_jobs' \subseteq Labels
      /\ pending_jobs' \in [DOMAIN pending_jobs' -> [moved : BOOLEAN, manifest : Manifests]]
  <2> HIDE DEF Started, JobsWith
  <2>1. CASE pending_jobs' = Empty  BY <1>1, <2>1 DEF Empty
  <2>2. CASE pending_jobs' = p  BY <1>1, <2>2
  <2>3. CASE \E T : pending_jobs' = [k \in DOMAIN p |-> [p[k] EXCEPT !.moved = @ \/ k \in T]]
    <3>1. PICK T : pending_jobs' = [k \in DOMAIN p |-> [p[k] EXCEPT !.moved = @ \/ k \in T]]
      BY <2>3
    <3>2. \A k \in DOMAIN p : [p[k] EXCEPT !.moved = @ \/ k \in T] \in [moved : BOOLEAN, manifest : Manifests]
      OBVIOUS
    <3> QED  BY <1>1, <3>1, <3>2
  <2> QED  BY <1>1, <2>1, <2>2, <2>3
<1>4. \A l \in S : /\ Started(l).job \in JobType /\ JobInv(Started(l).job)
                   /\ Started(l).job.state # "Unloaded" /\ Started(l).job.proc # "reported"
  <2> SUFFICES ASSUME NEW l \in S
               PROVE  /\ Started(l).job \in JobType /\ JobInv(Started(l).job)
                      /\ Started(l).job.state # "Unloaded" /\ Started(l).job.proc # "reported"
    OBVIOUS
  <2>1. p[l].manifest \in Manifests /\ a[l] \in Answers
    BY DEF StartAnswers
  <2>2. Sound(NewJob(p[l].manifest), Started(l)) /\ Started(l).job.state # "Unloaded" /\ Started(l).job.proc # "reported"
    BY <2>1, BootstrapSound
  <2> HIDE DEF Started
  <2> QED  BY <2>2 DEF Sound, ResultType
<1> HIDE DEF Started
<1>5. /\ DOMAIN jobs' = DOMAIN jobs \cup S /\ jobs' = [l \in DOMAIN jobs' |-> jobs'[l]]
      /\ \A l \in DOMAIN jobs : jobs'[l] = jobs[l]
      /\ \A l \in S : jobs'[l] = Started(l).job
  BY <1>2
<1>6. Matches(pending_events, jobs)
  <2>1. CASE state = "Running"
    BY <2>1 DEF IInv, Alive
  <2>2. CASE state = "Unconfigured"
    BY <2>2, EmptyMatches DEF IInv, IsUnloaded, IsReported
  <2> QED  BY <2>1, <2>2
<1>7. JobsOK(jobs') /\ Matches(pending_events, jobs')
  <2>1. S \in SUBSET Labels /\ S \cap DOMAIN jobs = {} /\ JobsOK(jobs)
    BY DEF IInv
  <2>2. \A l \in S : /\ jobs'[l] \in JobType /\ JobInv(jobs'[l])
                     /\ jobs'[l].state # "Unloaded" /\ jobs'[l].proc # "reported"
    BY <1>4, <1>5
  <2>3. DOMAIN jobs' = DOMAIN jobs \cup S /\ jobs' = [l \in DOMAIN jobs' |-> jobs'[l]]
    BY <1>5
  <2>4. \A l \in DOMAIN jobs : jobs'[l] = jobs[l]
    BY <1>5
  <2> HIDE DEF JobsWith
  <2> QED  BY <1>6, <2>1, <2>2, <2>3, <2>4, AddedJobs
<1>8. RestOK'
  BY <1>3 DEF IInv, RestOK, States
<1> QED  BY <1>3, <1>7, <1>8 DEF IInv, ShutdownReachesAll

\* What loadManifest() leaves in pending_jobs has its type.
LEMMA PendingType ==
    ASSUME RestOK, NEW f \in ManifestFiles, NEW override, NEW force
    PROVE  LET p == PendingAfterLoad(f, override, force)
           IN DOMAIN p \subseteq Labels /\ p \in [DOMAIN p -> [moved : BOOLEAN, manifest : Manifests]]
<1> DEFINE new == Accepted(f, override, force)
           p == PendingAfterLoad(f, override, force)
<1>1. PICK S \in SUBSET Labels : f \in [S -> Manifests]
  BY DEF ManifestFiles
<1>2. new \subseteq S
  BY <1>1 DEF Accepted, Fresh
<1> HIDE DEF new
<1>3. p = [l \in DOMAIN pending_jobs \cup new |->
             IF l \in new THEN [moved |-> FALSE, manifest |-> f[l]] ELSE pending_jobs[l]]
  BY DEF PendingAfterLoad, new
<1> HIDE DEF p
<1>4. \A l \in new : [moved |-> FALSE, manifest |-> f[l]] \in [moved : BOOLEAN, manifest : Manifests]
  BY <1>1, <1>2
<1>5. \A l \in DOMAIN pending_jobs : pending_jobs[l] \in [moved : BOOLEAN, manifest : Manifests]
  BY DEF RestOK
<1>6. DOMAIN p \subseteq Labels /\ p \in [DOMAIN p -> [moved : BOOLEAN, manifest : Manifests]]
  BY <1>1, <1>2, <1>3, <1>4, <1>5 DEF RestOK
<1> QED  BY <1>6 DEF p

\* Starting launchd keeps the invariant.
LEMMA StartRunningInv ==
    ASSUME IInv, StartRunning
    PROVE  IInv'
<1>1. PICK f \in ManifestFiles :
        /\ overrides' = overrides
        /\ StartAllJobs(PendingAfterLoad(f, FALSE, FALSE), "Running", "Terminated")
  BY DEF StartRunning
<1> DEFINE p == PendingAfterLoad(f, FALSE, FALSE)
<1>2. DOMAIN p \subseteq Labels /\ p \in [DOMAIN p -> [moved : BOOLEAN, manifest : Manifests]]
  BY PendingType DEF IInv
<1>3. /\ state \in {"Unconfigured", "Running"}
      /\ overrides' \in [Labels -> {"none", "enabled", "disabled"}]
      /\ UNCHANGED <<pending_events, signals, orphans>>
  BY <1>1 DEF StartRunning, IInv, RestOK
<1> HIDE DEF p
<1> QED  BY <1>1, <1>2, <1>3, StartAllJobsInv DEF p

\* "launchctl load" keeps the invariant, whatever fails on the way.
LEMMA LoadInv ==
    ASSUME IInv, NEW override, NEW force, Load(override, force)
    PROVE  IInv'
<1>1. PICK f \in ManifestFiles :
        /\ overrides' = OverridesAfterLoad(f, override)
        /\ StartAllJobs(PendingAfterLoad(f, override, force), "Running", "Running")
  BY DEF Load
<1> DEFINE p == PendingAfterLoad(f, override, force)
<1>2. DOMAIN p \subseteq Labels /\ p \in [DOMAIN p -> [moved : BOOLEAN, manifest : Manifests]]
  BY PendingType DEF IInv
<1>3. overrides' \in [Labels -> {"none", "enabled", "disabled"}]
  BY <1>1 DEF OverridesAfterLoad, IInv, RestOK
<1>4. /\ state \in {"Unconfigured", "Running"}
      /\ UNCHANGED <<pending_events, signals, orphans>>
  BY DEF Load, Serving
<1> HIDE DEF p
<1> QED  BY <1>1, <1>2, <1>3, <1>4, StartAllJobsInv DEF p

-----------------------------------------------------------------------------
(* Unloading *)

\* A visiting order of labels, as deletions.
LEMMA DeletionsOnce ==
    ASSUME NEW D \in SUBSET Labels, NEW order \in Orders(D)
    PROVE  LET s == [i \in DOMAIN order |-> DeleteJob(order[i])]
           IN /\ s \in Seq(Events)
              /\ \A l \in Labels : /\ Once(s, DeleteJob(l), l \in D)
                                   /\ Once(s, Exited(l), FALSE)
<1> DEFINE s == [i \in DOMAIN order |-> DeleteJob(order[i])]
<1>1. order \in Seq(D) /\ \A e : Once(order, e, e \in D)
  BY OrderOnce
<1>2. \A i \in 1 .. Len(order) : order[i] \in Labels /\ DeleteJob(order[i]) \in Events
  BY <1>1 DEF Events
<1>3. /\ s \in Seq(Events) /\ Len(s) = Len(order)
      /\ \A i \in 1 .. Len(order) : s[i] = DeleteJob(order[i])
  BY <1>1, <1>2
<1> HIDE DEF s
<1>4. ASSUME NEW l \in Labels PROVE Once(s, Exited(l), FALSE)
  BY <1>3, EventsDiffer DEF Once
<1>5. ASSUME NEW l \in Labels PROVE Once(s, DeleteJob(l), l \in D)
  <2>1. Once(order, l, l \in D)
    BY <1>1
  <2>2. \A i \in 1 .. Len(order) : s[i] = DeleteJob(l) <=> order[i] = l
    BY <1>3, EventsDiffer
  <2>3. CASE l \in D
    BY <1>3, <2>1, <2>2, <2>3 DEF Once
  <2>4. CASE l \notin D
    BY <1>3, <2>1, <2>2, <2>4 DEF Once
  <2> QED  BY <2>3, <2>4
<1> QED  BY <1>3, <1>4, <1>5 DEF s

\* unloadJob() of several jobs: each is marked, and exactly the ones that
\* become Unloaded are queued for deletion.
LEMMA UnloadJobsInv ==
    ASSUME JobsOK(jobs), NEW S \in SUBSET DOMAIN jobs, NEW force,
           NEW tail \in Seq(Events), Matches(tail, jobs), UnloadJobs(S, force, tail)
    PROVE  /\ JobsOK(jobs') /\ DOMAIN jobs' = DOMAIN jobs
           /\ pending_events' \in Seq(Events) /\ Matches(pending_events', jobs')
           /\ \A l \in DOMAIN jobs : l \in S \/ jobs[l].unload_requested
                                       => jobs'[l].unload_requested
<1> DEFINE Unloaded(l) == UnloadJob(jobs[l], IsDisabled(l, jobs[l].manifest, overrides'), force)
           D == {l \in S : Unloaded(l).delete_job}
<1>1. /\ jobs' = [l \in DOMAIN jobs |-> IF l \in S THEN Unloaded(l).job ELSE jobs[l]]
      /\ \E order \in Orders(D) :
            pending_events' = tail \o [i \in DOMAIN order |-> DeleteJob(order[i])]
  BY DEF UnloadJobs
<1>2. ASSUME NEW l \in S
      PROVE  /\ Unloaded(l).job \in JobType /\ JobInv(Unloaded(l).job)
             /\ l \in D <=> jobs[l].state # "Unloaded" /\ Unloaded(l).job.state = "Unloaded"
             /\ jobs[l].state = "Unloaded" => Unloaded(l).job.state = "Unloaded"
             /\ Unloaded(l).job.proc = jobs[l].proc
             /\ Unloaded(l).job.unload_requested
  <2>1. jobs[l] \in JobType /\ JobInv(jobs[l])
    BY DEF JobsOK
  <2>2. Sound(jobs[l], Unloaded(l)) /\ Unloaded(l).job.proc = jobs[l].proc /\ Unloaded(l).job.unload_requested
    BY <2>1, UnloadSound
  <2> HIDE DEF Unloaded
  <2> QED  BY <2>2 DEF Sound, ResultType
<1>3. D \in SUBSET Labels
  BY DEF JobsOK
<1> HIDE DEF Unloaded, D
<1>4. /\ DOMAIN jobs' = DOMAIN jobs
      /\ \A l \in DOMAIN jobs : jobs'[l] = IF l \in S THEN Unloaded(l).job ELSE jobs[l]
      /\ jobs' = [l \in DOMAIN jobs' |-> jobs'[l]]
  BY <1>1
<1>5. JobsOK(jobs')
  BY <1>2, <1>4 DEF JobsOK
<1>6. PICK order \in Orders(D) : pending_events' = tail \o [i \in DOMAIN order |-> DeleteJob(order[i])]
  BY <1>1
<1> DEFINE s == [i \in DOMAIN order |-> DeleteJob(order[i])]
<1>7. /\ s \in Seq(Events)
      /\ \A l \in Labels : Once(s, DeleteJob(l), l \in D) /\ Once(s, Exited(l), FALSE)
  BY <1>3, DeletionsOnce
<1> HIDE DEF s
<1>8. ASSUME NEW l \in Labels
      PROVE  /\ Once(tail \o s, DeleteJob(l), IsUnloaded(jobs', l))
             /\ Once(tail \o s, Exited(l), IsReported(jobs', l))
             /\ Before(tail \o s, Exited(l), DeleteJob(l))
  <2>1. /\ IsUnloaded(jobs', l) = (IsUnloaded(jobs, l) \/ l \in D)
        /\ ~(IsUnloaded(jobs, l) /\ l \in D)
        /\ IsReported(jobs', l) = (IsReported(jobs, l) \/ FALSE)
    <3>1. l \in D => l \in S
      BY DEF D
    <3> QED  BY <1>2, <1>4, <3>1 DEF IsUnloaded, IsReported
  <2>2. /\ Once(tail, DeleteJob(l), IsUnloaded(jobs, l))
        /\ Once(tail, Exited(l), IsReported(jobs, l))
        /\ Before(tail, Exited(l), DeleteJob(l))
    BY DEF Matches
  <2>3. IsUnloaded(jobs, l) \in BOOLEAN /\ IsReported(jobs, l) \in BOOLEAN /\ (l \in D) \in BOOLEAN
    BY DEF IsUnloaded, IsReported
  <2>4. Once(tail \o s, DeleteJob(l), IsUnloaded(jobs, l) \/ l \in D)
    <3> DEFINE b == IsUnloaded(jobs, l)
               c == l \in D
    <3>1. /\ b \in BOOLEAN /\ c \in BOOLEAN /\ ~(b /\ c)
          /\ Once(tail, DeleteJob(l), b) /\ Once(s, DeleteJob(l), c)
      BY <1>7, <2>1, <2>2, <2>3
    <3> HIDE DEF b, c
    <3>2. Once(tail \o s, DeleteJob(l), b \/ c)
      BY <1>7, <3>1, ConcatOnce
    <3> QED  BY <3>2 DEF b, c
  <2>5. Once(tail \o s, Exited(l), IsReported(jobs, l) \/ FALSE)
    BY <1>7, <2>2, <2>3, ConcatOnce
  <2>6. Before(tail \o s, Exited(l), DeleteJob(l))
    BY <1>7, <2>2, ConcatBefore
  <2> QED  BY <2>1, <2>4, <2>5, <2>6
<1>9. tail \o s \in Seq(Events) /\ Matches(tail \o s, jobs')
  BY <1>7, <1>8 DEF Matches
<1>10. \A l \in DOMAIN jobs : l \in S \/ jobs[l].unload_requested => jobs'[l].unload_requested
  BY <1>2, <1>4
<1> QED  BY <1>4, <1>5, <1>6, <1>9, <1>10 DEF s

\* "launchctl unload" keeps the invariant.
LEMMA UnloadInv ==
    ASSUME IInv, NEW S \in SUBSET DOMAIN jobs, NEW override, NEW force,
           Unload(S, override, force)
    PROVE  IInv'
<1>1. /\ JobsOK(jobs) /\ pending_events \in Seq(Events) /\ Matches(pending_events, jobs)
      /\ UnloadJobs(S, force, pending_events) /\ state = "Running"
      /\ UNCHANGED <<state, pending_jobs, signals, orphans>>
  BY DEF IInv, Unload, Serving, Alive
<1>2. /\ JobsOK(jobs') /\ DOMAIN jobs' = DOMAIN jobs
      /\ pending_events' \in Seq(Events) /\ Matches(pending_events', jobs')
  BY <1>1, UnloadJobsInv
<1>3. RestOK'
  <2>1. overrides' \in [Labels -> {"none", "enabled", "disabled"}]
    BY DEF Unload, IInv, RestOK
  <2> QED  BY <1>1, <2>1 DEF IInv, RestOK
<1> QED  BY <1>1, <1>2, <1>3 DEF IInv, ShutdownReachesAll

\* Every request a client can send keeps the invariant.
LEMMA RequestInv ==
    ASSUME IInv, Request
    PROVE  IInv'
<1>1. ASSUME NEW r \in Requests \cap LoadCommands,
             Load(r \in {"load -w", "load -wF"}, r \in {"load -F", "load -wF"})
      PROVE  IInv'
  BY <1>1, LoadInv
<1>2. ASSUME NEW r \in Requests \cap UnloadCommands, NEW S \in SUBSET DOMAIN jobs,
             Unload(S, r \in {"unload -w", "unload -wF"}, r \in {"unload -F", "unload -wF"})
      PROVE  IInv'
  BY <1>2, UnloadInv
<1>3. ASSUME NEW l \in Labels, NEW v \in {"enabled", "disabled"}, OverrideJobEnabled(l, v)
      PROVE  IInv'
  BY <1>3 DEF OverrideJobEnabled, IInv, RestOK, Alive, ShutdownReachesAll
<1>4. ASSUME NEW l \in Labels, Kill(l)
      PROVE  IInv'
  <2> DEFINE k == KillJob(jobs[l])
  <2>1. /\ l \in DOMAIN jobs /\ state = "Running" /\ jobs' = [jobs EXCEPT ![l] = k]
        /\ UNCHANGED <<state, pending_jobs, pending_events, signals, overrides, orphans>>
    BY <1>4 DEF Kill, Serving
  <2>2. jobs[l] \in JobType /\ JobInv(jobs[l])
    BY <2>1 DEF IInv, JobsOK
  <2>3. /\ k \in JobType /\ JobInv(k) /\ k.state = jobs[l].state /\ k.proc = jobs[l].proc
    BY <2>2, KillJobInv
  <2> HIDE DEF k
  <2>4. /\ JobsOK(jobs') /\ DOMAIN jobs' = DOMAIN jobs /\ jobs'[l] = k
        /\ \A i \in DOMAIN jobs \ {l} : jobs'[i] = jobs[i]
    BY <2>1, <2>3, OneJob DEF IInv
  <2>5. \A i \in Labels : /\ IsUnloaded(jobs', i) <=> IsUnloaded(jobs, i)
                          /\ IsReported(jobs', i) <=> IsReported(jobs, i)
    BY <2>3, <2>4 DEF IsUnloaded, IsReported
  <2>6. Matches(pending_events, jobs')
    BY <2>1, <2>5, SameMatches DEF IInv, Alive
  <2> QED  BY <2>1, <2>4, <2>6 DEF IInv, RestOK, ShutdownReachesAll
<1> QED  BY <1>1, <1>2, <1>3, <1>4 DEF Request

-----------------------------------------------------------------------------
(* The event loop *)

\* A callback of job l, whose exit is not in the queue tail any more.
LEMMA ApplyInv ==
    ASSUME IInv, Looping, NEW l \in DOMAIN jobs, NEW r, Sound(jobs[l], r),
           r.job.proc # "reported", NEW tail \in Seq(Events), Apply(l, r, tail),
           \A k \in Labels : /\ Once(tail, DeleteJob(k), IsUnloaded(jobs, k))
                             /\ Once(tail, Exited(k), IsReported(jobs, k) /\ k # l)
                             /\ Before(tail, Exited(k), DeleteJob(k)),
           UNCHANGED <<pending_jobs, signals, overrides, orphans>>
    PROVE  IInv'
<1>1. /\ r.job \in JobType /\ JobInv(r.job)
      /\ jobs[l].unload_requested => r.job.unload_requested
      /\ r.delete_job <=> (jobs[l].state # "Unloaded" /\ r.job.state = "Unloaded")
      /\ jobs[l].state = "Unloaded" => r.job.state = "Unloaded"
      /\ r.delete_job \in BOOLEAN
  BY DEF Sound, ResultType
<1>2. /\ jobs' = [jobs EXCEPT ![l] = r.job]
      /\ pending_events' = IF r.delete_job THEN Append(tail, DeleteJob(l)) ELSE tail
      /\ state' \in {state, "Terminated"}
  BY DEF Apply
<1>3. /\ JobsOK(jobs') /\ DOMAIN jobs' = DOMAIN jobs /\ jobs'[l] = r.job
      /\ \A k \in DOMAIN jobs \ {l} : jobs'[k] = jobs[k]
  BY <1>1, <1>2, OneJob DEF IInv
<1>4. l \in Labels
  BY DEF IInv, JobsOK
<1> DEFINE s == IF r.delete_job THEN <<DeleteJob(l)>> ELSE <<>>
<1>5. s \in Seq(Events) /\ pending_events' = tail \o s
  <2>1. DeleteJob(l) \in Events
    BY <1>4 DEF Events
  <2>2. CASE r.delete_job
    BY <1>2, <2>1, <2>2
  <2>3. CASE ~r.delete_job
    BY <1>2, <2>3
  <2> QED  BY <2>2, <2>3
<1>6. ASSUME NEW k \in Labels
      PROVE  /\ Once(s, DeleteJob(k), r.delete_job /\ k = l)
             /\ Once(s, Exited(k), FALSE)
  <2>1. CASE r.delete_job
    <3>1. s = <<DeleteJob(l)>> /\ Len(s) = 1 /\ s[1] = DeleteJob(l)
      BY <2>1
    <3>2. (DeleteJob(l) = DeleteJob(k) <=> k = l) /\ DeleteJob(l) # Exited(k)
      BY EventsDiffer
    <3> HIDE DEF s
    <3>3. CASE k = l  BY <2>1, <3>1, <3>2, <3>3 DEF Once
    <3>4. CASE k # l  BY <2>1, <3>1, <3>2, <3>4 DEF Once
    <3> QED  BY <3>3, <3>4
  <2>2. CASE ~r.delete_job
    BY <2>2 DEF Once
  <2> QED  BY <2>1, <2>2
<1> HIDE DEF s
<1>7. ASSUME NEW k \in Labels
      PROVE  /\ Once(tail \o s, DeleteJob(k), IsUnloaded(jobs', k))
             /\ Once(tail \o s, Exited(k), IsReported(jobs', k))
             /\ Before(tail \o s, Exited(k), DeleteJob(k))
  <2> DEFINE b == IsUnloaded(jobs, k)
             c == r.delete_job /\ k = l
             d == IsReported(jobs, k) /\ k # l
  <2>1. /\ b \in BOOLEAN /\ c \in BOOLEAN /\ d \in BOOLEAN
        /\ Once(tail, DeleteJob(k), b) /\ Once(s, DeleteJob(k), c)
        /\ Once(tail, Exited(k), d) /\ Once(s, Exited(k), FALSE)
        /\ Before(tail, Exited(k), DeleteJob(k))
    BY <1>6 DEF IsUnloaded, IsReported
  <2>2. /\ IsUnloaded(jobs', k) = (b \/ c) /\ ~(b /\ c)
        /\ IsReported(jobs', k) = (d \/ FALSE)
    BY <1>1, <1>3 DEF IsUnloaded, IsReported
  <2> HIDE DEF b, c, d
  <2>3. Once(tail \o s, DeleteJob(k), b \/ c)
    BY <1>5, <2>1, <2>2, ConcatOnce
  <2>4. Once(tail \o s, Exited(k), d \/ FALSE)
    BY <1>5, <2>1, ConcatOnce
  <2>5. Before(tail \o s, Exited(k), DeleteJob(k))
    BY <1>5, <2>1, ConcatBefore
  <2> QED  BY <2>2, <2>3, <2>4, <2>5
<1>8. pending_events' \in Seq(Events) /\ Matches(pending_events', jobs')
  BY <1>5, <1>7 DEF Matches
<1>9. ShutdownReachesAll'
  BY <1>1, <1>2, <1>3 DEF IInv, ShutdownReachesAll
<1>10. RestOK'
  BY <1>2 DEF IInv, RestOK, States
<1>11. state' # "Unconfigured"
  BY <1>2 DEF Looping
<1> QED  BY <1>3, <1>8, <1>9, <1>10, <1>11 DEF IInv

\* The queue after its head e was taken.
LEMMA HeadTaken ==
    ASSUME IInv, Looping, pending_events # <<>>
    PROVE  /\ Tail(pending_events) \in Seq(Events) /\ Next1 \in Events
           /\ Matches(pending_events, jobs) /\ Alive
           /\ \A l \in Labels :
                /\ Next1 # DeleteJob(l) => Once(Tail(pending_events), DeleteJob(l), IsUnloaded(jobs, l))
                /\ Next1 = DeleteJob(l) => /\ IsUnloaded(jobs, l)
                                           /\ Once(Tail(pending_events), DeleteJob(l), FALSE)
                                           /\ Once(Tail(pending_events), Exited(l), FALSE)
                /\ Next1 # Exited(l) => Once(Tail(pending_events), Exited(l), IsReported(jobs, l))
                /\ Next1 = Exited(l) => /\ IsReported(jobs, l)
                                        /\ Once(Tail(pending_events), Exited(l), FALSE)
                /\ Before(Tail(pending_events), Exited(l), DeleteJob(l))
<1> DEFINE q == pending_events
           t == Tail(pending_events)
<1>1. Alive
  BY DEF Looping, Alive
<1>2. q \in Seq(Events) /\ Matches(q, jobs)
  BY <1>1 DEF IInv
<1>3. t \in Seq(Events) /\ q[1] \in Events /\ 1 \in 1 .. Len(q)
  BY <1>2
<1> HIDE DEF q, t
<1>4. q # <<>> /\ t = Tail(q) /\ Next1 = q[1]
  BY DEF q, t, Next1
<1>5. ASSUME NEW l \in Labels
      PROVE  /\ q[1] # DeleteJob(l) => Once(t, DeleteJob(l), IsUnloaded(jobs, l))
             /\ q[1] = DeleteJob(l) => /\ IsUnloaded(jobs, l)
                                       /\ Once(t, DeleteJob(l), FALSE)
                                       /\ Once(t, Exited(l), FALSE)
             /\ q[1] # Exited(l) => Once(t, Exited(l), IsReported(jobs, l))
             /\ q[1] = Exited(l) => IsReported(jobs, l) /\ Once(t, Exited(l), FALSE)
             /\ Before(t, Exited(l), DeleteJob(l))
  <2> DEFINE b == IsUnloaded(jobs, l)
             d == IsReported(jobs, l)
  <2>1. /\ b \in BOOLEAN /\ d \in BOOLEAN
        /\ Once(q, DeleteJob(l), b) /\ Once(q, Exited(l), d)
        /\ Before(q, Exited(l), DeleteJob(l))
    BY <1>2 DEF Matches, IsUnloaded, IsReported
  <2> HIDE DEF b, d
  <2>2. /\ q[1] # DeleteJob(l) => Once(t, DeleteJob(l), b)
        /\ q[1] = DeleteJob(l) => Once(t, DeleteJob(l), FALSE)
    BY <1>2, <1>4, <2>1, TailOnce
  <2>3. /\ q[1] # Exited(l) => Once(t, Exited(l), d)
        /\ q[1] = Exited(l) => Once(t, Exited(l), FALSE)
    BY <1>2, <1>4, <2>1, TailOnce
  <2>4. Exited(l) # DeleteJob(l)
    BY EventsDiffer
  <2>5. /\ Before(t, Exited(l), DeleteJob(l))
        /\ q[1] = DeleteJob(l) => Once(t, Exited(l), FALSE)
    BY <1>2, <1>4, <2>1, <2>4, TailBefore
  <2>6. (q[1] = DeleteJob(l) => b) /\ (q[1] = Exited(l) => d)
    BY <1>3, <2>1 DEF Once
  <2> QED  BY <2>2, <2>3, <2>5, <2>6 DEF b, d
<1> QED  BY <1>1, <1>2, <1>3, <1>4, <1>5 DEF q, t

\* Deleting a job keeps the invariant: the deletion was the job's last event.
LEMMA DispatchDeleteInv ==
    ASSUME IInv, DispatchDelete
    PROVE  IInv'
<1> DEFINE l == Next1.arg
           t == Tail(pending_events)
<1>1. /\ Looping /\ pending_events # <<>> /\ Next1.type = "delete_job"
      /\ pending_events' = t /\ jobs' = [k \in DOMAIN jobs \ {l} |-> jobs[k]]
      /\ orphans' \in {orphans, orphans \cup {l}}
      /\ UNCHANGED <<state, pending_jobs, signals, overrides>>
  BY DEF DispatchDelete, Dispatching
<1>2. t \in Seq(Events) /\ l \in Labels /\ Next1 = DeleteJob(l)
  BY <1>1, HeadTaken, HeadEvent
<1> HIDE DEF l, t
<1>3. JobsOK(jobs')
  BY <1>1 DEF IInv, JobsOK
<1>4. ASSUME NEW k \in Labels
      PROVE  /\ Once(t, DeleteJob(k), IsUnloaded(jobs', k))
             /\ Once(t, Exited(k), IsReported(jobs', k))
             /\ Before(t, Exited(k), DeleteJob(k))
  <2>1. /\ Next1 # DeleteJob(k) => Once(t, DeleteJob(k), IsUnloaded(jobs, k))
        /\ Next1 = DeleteJob(k) => Once(t, DeleteJob(k), FALSE) /\ Once(t, Exited(k), FALSE)
        /\ Next1 # Exited(k) => Once(t, Exited(k), IsReported(jobs, k))
        /\ Before(t, Exited(k), DeleteJob(k))
    BY <1>1, HeadTaken DEF t
  <2>2. (Next1 = DeleteJob(k) <=> k = l) /\ Next1 # Exited(k)
    BY <1>2, EventsDiffer
  <2>3. CASE k = l
    <3>1. IsUnloaded(jobs', k) = FALSE /\ IsReported(jobs', k) = FALSE
      BY <1>1, <2>3 DEF IsUnloaded, IsReported
    <3> QED  BY <2>1, <2>2, <2>3, <3>1
  <2>4. CASE k # l
    <3>1. IsUnloaded(jobs', k) = IsUnloaded(jobs, k) /\ IsReported(jobs', k) = IsReported(jobs, k)
      BY <1>1, <2>4 DEF IsUnloaded, IsReported
    <3> QED  BY <2>1, <2>2, <2>4, <3>1
  <2> QED  BY <2>3, <2>4
<1>5. RestOK'
  BY <1>1, <1>2 DEF IInv, RestOK
<1>6. ShutdownReachesAll'
  BY <1>1 DEF IInv, ShutdownReachesAll
<1>7. state' # "Unconfigured"
  BY <1>1 DEF Looping
<1> QED  BY <1>1, <1>2, <1>3, <1>4, <1>5, <1>6, <1>7 DEF IInv, Matches

\* The callback of an exit keeps the invariant.
LEMMA DispatchExitInv ==
    ASSUME IInv, NEW a \in Answers, DispatchExit(a)
    PROVE  IInv'
<1> DEFINE l == Next1.arg
           t == Tail(pending_events)
           r == OnExit(jobs[l], a)
<1>1. /\ Looping /\ pending_events # <<>> /\ Next1.type = "proc"
      /\ l \in DOMAIN jobs /\ Apply(l, r, t)
      /\ UNCHANGED <<pending_jobs, signals, overrides, orphans>>
  BY DEF DispatchExit, Dispatching
<1>2. t \in Seq(Events) /\ l \in Labels /\ Next1 = Exited(l)
  BY <1>1, HeadTaken, HeadEvent
<1>3. IsReported(jobs, l)
  BY <1>1, <1>2, HeadTaken
<1>4. Sound(jobs[l], r) /\ r.job.proc # "reported"
  <2>1. jobs[l] \in JobType /\ JobInv(jobs[l]) /\ jobs[l].proc # "none"
    BY <1>1, <1>3 DEF IInv, JobsOK, IsReported
  <2>2. Sound(jobs[l], r) /\ r.job.proc # "reported"
    BY <2>1, OnExitSound
  <2> HIDE DEF r
  <2> QED  BY <2>2
<1> HIDE DEF l, t, r
<1>5. ASSUME NEW k \in Labels
      PROVE  /\ Once(t, DeleteJob(k), IsUnloaded(jobs, k))
             /\ Once(t, Exited(k), IsReported(jobs, k) /\ k # l)
             /\ Before(t, Exited(k), DeleteJob(k))
  <2>1. /\ Next1 # DeleteJob(k) => Once(t, DeleteJob(k), IsUnloaded(jobs, k))
        /\ Next1 # Exited(k) => Once(t, Exited(k), IsReported(jobs, k))
        /\ Next1 = Exited(k) => Once(t, Exited(k), FALSE)
        /\ Before(t, Exited(k), DeleteJob(k))
    BY <1>1, HeadTaken DEF t
  <2>2. (Next1 = Exited(k) <=> k = l) /\ Next1 # DeleteJob(k)
    BY <1>2, EventsDiffer
  <2>3. CASE k = l
    <3>1. (IsReported(jobs, k) /\ k # l) = FALSE
      BY <2>3
    <3> QED  BY <2>1, <2>2, <2>3, <3>1
  <2>4. CASE k # l
    <3>1. (IsReported(jobs, k) /\ k # l) = IsReported(jobs, k)
      BY <2>4 DEF IsReported
    <3> QED  BY <2>1, <2>2, <2>4, <3>1
  <2> QED  BY <2>3, <2>4
<1> QED  BY <1>1, <1>2, <1>4, <1>5, ApplyInv

\* An exit taken from child_status keeps the invariant: it is not in the queue.
LEMMA DispatchEarlyExitInv ==
    ASSUME IInv, NEW l \in Labels, NEW a \in Answers, DispatchEarlyExit(l, a)
    PROVE  IInv'
<1> DEFINE r == OnExit(jobs[l], a)
<1>1. /\ Looping /\ l \in DOMAIN jobs /\ jobs[l].proc = "early"
      /\ Apply(l, r, pending_events)
      /\ UNCHANGED <<pending_jobs, signals, overrides, orphans>>
  BY DEF DispatchEarlyExit, EarlyExits
<1>2. /\ JobsOK(jobs) /\ Matches(pending_events, jobs)
      /\ ~IsReported(jobs, l) /\ pending_events \in Seq(Events)
  BY <1>1 DEF IInv, IsReported, Looping, Alive
<1>3. Sound(jobs[l], r) /\ r.job.proc # "reported"
  <2>1. jobs[l] \in JobType /\ JobInv(jobs[l]) /\ jobs[l].proc # "none"
    BY <1>1, <1>2 DEF JobsOK
  <2>2. Sound(jobs[l], r) /\ r.job.proc # "reported"
    BY <2>1, OnExitSound
  <2> HIDE DEF r
  <2> QED  BY <2>2
<1> HIDE DEF r
<1>4. ASSUME NEW k \in Labels
      PROVE  /\ Once(pending_events, DeleteJob(k), IsUnloaded(jobs, k))
             /\ Once(pending_events, Exited(k), IsReported(jobs, k) /\ k # l)
             /\ Before(pending_events, Exited(k), DeleteJob(k))
  <2>1. (IsReported(jobs, k) /\ k # l) = IsReported(jobs, k)
    BY <1>2 DEF IsReported
  <2> QED  BY <1>2, <2>1 DEF Matches
<1> QED  BY <1>1, <1>2, <1>3, <1>4, ApplyInv

\* An event that belongs to no job leaves the queue.
LEMMA OtherHead ==
    ASSUME IInv, Looping, pending_events # <<>>, Next1.type \in {"orphan", "signal"}
    PROVE  Matches(Tail(pending_events), jobs)
<1> DEFINE t == Tail(pending_events)
<1>1. \E s : Next1 = Orphaned(s) \/ Next1 = Caught(s)
  BY HeadTaken, HeadEvent
<1>2. \A l \in Labels : Next1 # DeleteJob(l) /\ Next1 # Exited(l)
  BY <1>1, EventsDiffer
<1> SUFFICES ASSUME NEW l \in Labels
             PROVE  /\ Once(t, DeleteJob(l), IsUnloaded(jobs, l))
                    /\ Once(t, Exited(l), IsReported(jobs, l))
                    /\ Before(t, Exited(l), DeleteJob(l))
  BY DEF Matches
<1> QED  BY <1>2, HeadTaken

\* The callback of an orphan, if it returns, keeps the invariant.
LEMMA DispatchOrphanInv ==
    ASSUME IInv, DispatchOrphan
    PROVE  IInv'
<1> DEFINE t == Tail(pending_events)
<1>1. /\ Looping /\ pending_events # <<>> /\ Next1.type = "orphan"
      /\ pending_events' = t /\ state' \in {state, "Terminated"}
      /\ UNCHANGED <<jobs, pending_jobs, signals, overrides, orphans>>
  BY DEF DispatchOrphan, Dispatching
<1>2. t \in Seq(Events) /\ Matches(t, jobs)
  BY <1>1, HeadTaken, OtherHead
<1> HIDE DEF t
<1>3. state' # "Unconfigured" /\ RestOK' /\ ShutdownReachesAll'
  BY <1>1 DEF IInv, RestOK, States, ShutdownReachesAll, Looping
<1> QED  BY <1>1, <1>2, <1>3 DEF IInv

\* The shutdown signals keep the invariant: the first marks every job that
\* was not marked before, and the second clears jobs.
LEMMA DispatchSignalInv ==
    ASSUME IInv, DispatchFirstSignal \/ DispatchSecondSignal
    PROVE  IInv'
<1> DEFINE t == Tail(pending_events)
<1>1. Looping /\ pending_events # <<>> /\ Next1.type = "signal"
  BY DEF DispatchFirstSignal, DispatchSecondSignal, Dispatching
<1>2. t \in Seq(Events) /\ Matches(t, jobs) /\ JobsOK(jobs)
  BY <1>1, HeadTaken, OtherHead DEF IInv
<1>3. CASE DispatchFirstSignal
  <2> DEFINE S == {l \in DOMAIN jobs : jobs[l].state # "Unloaded" /\ ~jobs[l].unload_requested}
  <2>1. /\ state' = "GracefulShutdown" /\ UnloadJobs(S, TRUE, t)
        /\ UNCHANGED <<pending_jobs, signals, overrides, orphans>>
    BY <1>3 DEF DispatchFirstSignal
  <2>2. S \in SUBSET DOMAIN jobs
    OBVIOUS
  <2>3. \A l \in DOMAIN jobs : l \in S \/ jobs[l].unload_requested
    <3>1. \A l \in DOMAIN jobs : jobs[l].state = "Unloaded" => jobs[l].unload_requested
      BY <1>2 DEF JobsOK, JobInv, UnloadIsMarked
    <3> QED  BY <3>1
  <2> HIDE DEF S, t
  <2>4. /\ JobsOK(jobs') /\ DOMAIN jobs' = DOMAIN jobs
        /\ pending_events' \in Seq(Events) /\ Matches(pending_events', jobs')
        /\ \A l \in DOMAIN jobs : l \in S \/ jobs[l].unload_requested
                                    => jobs'[l].unload_requested
    BY <1>2, <2>1, <2>2, UnloadJobsInv
  <2>5. RestOK' /\ ShutdownReachesAll'
    BY <2>1, <2>3, <2>4 DEF IInv, RestOK, States, ShutdownReachesAll
  <2> QED  BY <2>1, <2>4, <2>5 DEF IInv
<1>4. CASE DispatchSecondSignal
  <2> HIDE DEF t
  <2>1. /\ pending_events' = t /\ state' \in {"Terminated", "Finished"}
        /\ jobs' = jobs \/ jobs' = Empty
        /\ UNCHANGED <<pending_jobs, signals, overrides, orphans>>
    BY <1>4 DEF DispatchSecondSignal, t
  <2>2. JobsOK(Empty)
    BY DEF JobsOK, Empty
  <2>3. JobsOK(jobs')
    BY <1>2, <2>1, <2>2
  <2>4. RestOK' /\ ShutdownReachesAll' /\ ~Alive'
    BY <2>1 DEF IInv, RestOK, States, ShutdownReachesAll, Alive
  <2> QED  BY <1>2, <2>1, <2>3, <2>4 DEF IInv
<1> QED  BY <1>3, <1>4

\* Every callback the loop takes from its queue keeps the invariant.
LEMMA DispatchInv ==
    ASSUME IInv, Dispatch
    PROVE  IInv'
    BY DispatchDeleteInv, DispatchExitInv, DispatchEarlyExitInv, DispatchOrphanInv,
       DispatchSignalInv DEF Dispatch

\* While the queue is empty no job is Unloaded and no exit is pending.
LEMMA PollingState ==
    ASSUME IInv, Polling
    PROVE  /\ Looping /\ Alive /\ JobsOK(jobs) /\ pending_events = <<>>
           /\ Matches(pending_events, jobs)
           /\ \A l \in Labels : ~IsUnloaded(jobs, l) /\ ~IsReported(jobs, l)
<1>1. Looping /\ Alive /\ JobsOK(jobs) /\ pending_events = <<>>
  BY DEF Polling, Looping, Alive, IInv
<1>2. Matches(pending_events, jobs)
  BY <1>1 DEF IInv
<1> QED  BY <1>1, <1>2, EmptyMatches

\* The expiry of a timer keeps the invariant.
LEMMA TimerFiresInv ==
    ASSUME IInv, NEW l \in Labels, NEW a \in Answers, TimerFires(l, a)
    PROVE  IInv'
<1> DEFINE r == OnTimer(jobs[l], a)
<1>1. /\ Polling /\ l \in DOMAIN jobs /\ jobs[l].alarm = 0
      /\ Apply(l, r, pending_events)
      /\ UNCHANGED <<pending_jobs, signals, overrides, orphans>>
  BY DEF TimerFires
<1>2. /\ Looping /\ JobsOK(jobs) /\ Matches(pending_events, jobs)
      /\ ~IsReported(jobs, l) /\ pending_events \in Seq(Events)
  BY <1>1, PollingState DEF IInv
<1>3. Sound(jobs[l], r) /\ r.job.proc # "reported"
  <2>1. jobs[l] \in JobType /\ JobInv(jobs[l])
    BY <1>1, <1>2 DEF JobsOK
  <2>2. Sound(jobs[l], r) /\ r.job.proc # "reported"
    BY <1>1, <2>1, OnTimerSound
  <2> HIDE DEF r
  <2> QED  BY <2>2
<1> HIDE DEF r
<1>4. ASSUME NEW k \in Labels
      PROVE  /\ Once(pending_events, DeleteJob(k), IsUnloaded(jobs, k))
             /\ Once(pending_events, Exited(k), IsReported(jobs, k) /\ k # l)
             /\ Before(pending_events, Exited(k), DeleteJob(k))
  <2>1. (IsReported(jobs, k) /\ k # l) = IsReported(jobs, k)
    BY <1>2 DEF IsReported
  <2> QED  BY <1>2, <2>1 DEF Matches
<1> QED  BY <1>1, <1>2, <1>3, <1>4, ApplyInv

\* The loop fills its empty queue: the jobs in Z are reported dead, and the
\* queue holds their exits, once each, and no deletion.
LEMMA FilledQueue ==
    ASSUME IInv, Polling, NEW Z \in SUBSET DOMAIN jobs,
           \A l \in Z : jobs[l].proc = "zombie",
           jobs' = [l \in DOMAIN jobs |-> IF l \in Z THEN [jobs[l] EXCEPT !.proc = "reported"]
                                          ELSE jobs[l]],
           pending_events' \in Seq(Events),
           \A l \in Labels : /\ Once(pending_events', DeleteJob(l), FALSE)
                             /\ Once(pending_events', Exited(l), l \in Z),
           signals' \subseteq signals, orphans' \subseteq orphans,
           UNCHANGED <<state, pending_jobs, overrides>>
    PROVE  IInv'
<1>1. /\ Alive /\ JobsOK(jobs)
      /\ \A l \in Labels : ~IsUnloaded(jobs, l) /\ ~IsReported(jobs, l)
  BY PollingState
<1> DEFINE R(l) == [jobs[l] EXCEPT !.proc = "reported"]
<1>2. \A l \in Z : Undisturbed(jobs[l], R(l)) /\ R(l).proc = "reported"
  <2> SUFFICES ASSUME NEW l \in Z
               PROVE  Undisturbed(jobs[l], R(l)) /\ R(l).proc = "reported"
    OBVIOUS
  <2>1. jobs[l] \in JobType /\ JobInv(jobs[l]) /\ jobs[l].proc # "none"
    BY <1>1 DEF JobsOK
  <2> QED  BY <2>1, ProcessChangeInv
<1> HIDE DEF R
<1>3. /\ DOMAIN jobs' = DOMAIN jobs /\ jobs' = [l \in DOMAIN jobs' |-> jobs'[l]]
      /\ \A l \in Z : jobs'[l] = R(l)
      /\ \A l \in DOMAIN jobs \ Z : jobs'[l] = jobs[l]
  BY DEF R
<1>4. JobsOK(jobs')
  <2>1. \A l \in Z : R(l) \in JobType /\ JobInv(R(l))
    BY <1>2 DEF Undisturbed
  <2>2. DOMAIN jobs \subseteq Labels /\ \A l \in DOMAIN jobs : jobs[l] \in JobType /\ JobInv(jobs[l])
    BY <1>1 DEF JobsOK
  <2>3. ASSUME NEW l \in DOMAIN jobs' PROVE jobs'[l] \in JobType /\ JobInv(jobs'[l])
    <3>1. CASE l \in Z
      <4>1. jobs'[l] = R(l)
        BY <1>3, <3>1, Zenon
      <4> QED  BY <2>1, <3>1, <4>1, Zenon
    <3>2. CASE l \notin Z
      <4>1. l \in DOMAIN jobs /\ jobs'[l] = jobs[l]
        BY <1>3, <3>2, Zenon
      <4> QED  BY <2>2, <4>1, Zenon
    <3> QED  BY <3>1, <3>2
  <2> QED  BY <1>3, <2>2, <2>3 DEF JobsOK
<1>5. ASSUME NEW l \in Labels
      PROVE  /\ Once(pending_events', DeleteJob(l), IsUnloaded(jobs', l))
             /\ Once(pending_events', Exited(l), IsReported(jobs', l))
             /\ Before(pending_events', Exited(l), DeleteJob(l))
  <2>1. IsUnloaded(jobs', l) = FALSE /\ IsReported(jobs', l) = (l \in Z)
    BY <1>1, <1>2, <1>3 DEF IsUnloaded, IsReported, Undisturbed
  <2>2. Before(pending_events', Exited(l), DeleteJob(l))
    <3>1. Once(pending_events', DeleteJob(l), FALSE)
      OBVIOUS
    <3> QED  BY <3>1 DEF Before, Once
  <2> QED  BY <2>1, <2>2
<1>6. RestOK'
  BY DEF IInv, RestOK
<1>7. ShutdownReachesAll'
  BY <1>2, <1>3 DEF IInv, ShutdownReachesAll, Undisturbed
<1>8. state' # "Unconfigured"
  BY <1>1 DEF Alive
<1>9. Matches(pending_events', jobs')
  BY <1>5 DEF Matches
<1> QED  BY <1>4, <1>6, <1>7, <1>8, <1>9 DEF IInv

\* Draining the signals and the zombies on Linux keeps the invariant.
LEMMA GetSignalEventsInv ==
    ASSUME IInv, GetSignalEvents
    PROVE  IInv'
<1> DEFINE zombies == {l \in DOMAIN jobs : jobs[l].proc = "zombie"}
           caught  == {Caught(s) : s \in signals}
<1>1. PICK gone \in SUBSET orphans :
        LET exits == {Exited(l) : l \in zombies} \cup {Orphaned(l) : l \in gone}
        IN /\ \E s \in Orders(caught), e \in Orders(exits) : pending_events' = s \o e
           /\ jobs' = [l \in DOMAIN jobs |-> IF l \in zombies
                         THEN [jobs[l] EXCEPT !.proc = "reported"] ELSE jobs[l]]
           /\ signals' = {} /\ orphans' = orphans \ gone
  BY DEF GetSignalEvents
<1> DEFINE exits == {Exited(l) : l \in zombies} \cup {Orphaned(l) : l \in gone}
<1>2. PICK s \in Orders(caught), e \in Orders(exits) : pending_events' = s \o e
  BY <1>1
<1>3. /\ s \in Seq(caught) /\ \A x : Once(s, x, x \in caught)
      /\ e \in Seq(exits) /\ \A x : Once(e, x, x \in exits)
  BY OrderOnce
<1>4. caught \subseteq Events /\ exits \subseteq Events
  BY DEF IInv, RestOK, JobsOK, Events
<1>5. ASSUME NEW l \in Labels
      PROVE  /\ DeleteJob(l) \notin caught /\ DeleteJob(l) \notin exits
             /\ Exited(l) \notin caught /\ (Exited(l) \in exits <=> l \in zombies)
  BY EventsDiffer
<1> HIDE DEF caught, exits
<1>6. s \in Seq(Events) /\ e \in Seq(Events)
  BY <1>3, <1>4
<1>7. pending_events' \in Seq(Events)
  BY <1>2, <1>6
<1>8. ASSUME NEW l \in Labels
      PROVE  /\ Once(pending_events', DeleteJob(l), FALSE)
             /\ Once(pending_events', Exited(l), l \in zombies)
  <2> DEFINE c == l \in zombies
  <2>1. /\ Once(s, DeleteJob(l), FALSE) /\ Once(e, DeleteJob(l), FALSE)
        /\ Once(s, Exited(l), FALSE) /\ Once(e, Exited(l), c) /\ c \in BOOLEAN
    <3>1. /\ (DeleteJob(l) \in caught) = FALSE /\ (DeleteJob(l) \in exits) = FALSE
          /\ (Exited(l) \in caught) = FALSE /\ (Exited(l) \in exits) = c
      BY <1>5
    <3>2. Once(s, DeleteJob(l), DeleteJob(l) \in caught)
      BY <1>3
    <3>3. Once(e, DeleteJob(l), DeleteJob(l) \in exits)
      BY <1>3
    <3>4. Once(s, Exited(l), Exited(l) \in caught)
      BY <1>3
    <3>5. Once(e, Exited(l), Exited(l) \in exits)
      BY <1>3
    <3>6. Once(s, DeleteJob(l), FALSE) /\ Once(e, DeleteJob(l), FALSE)
      BY <3>1, <3>2, <3>3
    <3>7. Once(s, Exited(l), FALSE)
      BY <3>1, <3>4
    <3>8. Once(e, Exited(l), c) /\ c \in BOOLEAN
      BY <1>5, <3>5, OnceIff
    <3> QED  BY <3>6, <3>7, <3>8
  <2> HIDE DEF c
  <2>2. Once(s \o e, DeleteJob(l), FALSE \/ FALSE)
    BY <1>6, <2>1, ConcatOnce
  <2>3. Once(s \o e, Exited(l), FALSE \/ c)
    BY <1>6, <2>1, ConcatOnce
  <2>4. (FALSE \/ c) = c
    BY <2>1
  <2> QED  BY <1>2, <2>2, <2>3, <2>4 DEF c
<1>9. /\ Polling /\ UNCHANGED <<state, pending_jobs, overrides>>
      /\ signals' \subseteq signals /\ orphans' \subseteq orphans
  BY <1>1 DEF GetSignalEvents
<1>10. zombies \in SUBSET DOMAIN jobs /\ \A l \in zombies : jobs[l].proc = "zombie"
  OBVIOUS
<1>11. jobs' = [l \in DOMAIN jobs |-> IF l \in zombies THEN [jobs[l] EXCEPT !.proc = "reported"]
                                      ELSE jobs[l]]
  BY <1>1
<1> HIDE DEF zombies
<1> QED  BY <1>7, <1>8, <1>9, <1>10, <1>11, FilledQueue

\* One event of kevent(2) keeps the invariant.
LEMMA KeventInv ==
    ASSUME IInv,
           \/ \E s \in ShutdownSignals : KeventSignal(s)
           \/ \E l \in Labels : KeventExit(l) \/ KeventOrphan(l)
    PROVE  IInv'
<1>0. ASSUME NEW e \in Events, pending_events' = <<e>>
      PROVE  /\ pending_events' \in Seq(Events)
             /\ \A x : Once(pending_events', x, x = e)
  BY <1>0 DEF Once
<1>1. ASSUME NEW e, \E x : e = Caught(x) \/ e = Orphaned(x), e \in Events, Polling,
             pending_events' = <<e>>, jobs' = jobs,
             signals' \subseteq signals, orphans' \subseteq orphans,
             UNCHANGED <<state, pending_jobs, overrides>>
      PROVE  IInv'
  <2>1. jobs' = [l \in DOMAIN jobs |-> IF l \in {} THEN [jobs[l] EXCEPT !.proc = "reported"]
                                       ELSE jobs[l]]
    BY <1>1 DEF IInv, JobsOK
  <2>2. ASSUME NEW l \in Labels
        PROVE  /\ Once(pending_events', DeleteJob(l), FALSE)
               /\ Once(pending_events', Exited(l), l \in {})
    <3>1. (DeleteJob(l) = e) = FALSE /\ (Exited(l) = e) = FALSE /\ (l \in {}) = FALSE
      BY <1>1, EventsDiffer
    <3> QED  BY <1>0, <1>1, <3>1
  <2>3. pending_events' \in Seq(Events)
    BY <1>0, <1>1
  <2>4. {} \in SUBSET DOMAIN jobs /\ \A l \in {} : jobs[l].proc = "zombie"
    OBVIOUS
  <2> QED  BY <1>1, <2>1, <2>2, <2>3, <2>4, FilledQueue
<1>2. ASSUME NEW s \in ShutdownSignals, KeventSignal(s) PROVE IInv'
  <2>1. Caught(s) \in Events
    BY DEF Events
  <2> QED  BY <1>1, <1>2, <2>1 DEF KeventSignal
<1>3. ASSUME NEW l \in Labels, KeventOrphan(l) PROVE IInv'
  <2>1. Orphaned(l) \in Events
    BY DEF Events
  <2> QED  BY <1>1, <1>3, <2>1 DEF KeventOrphan
<1>4. ASSUME NEW l \in Labels, KeventExit(l) PROVE IInv'
  <2>1. /\ Polling /\ l \in DOMAIN jobs /\ jobs[l].proc = "zombie"
        /\ pending_events' = <<Exited(l)>> /\ jobs' = [jobs EXCEPT ![l].proc = "reported"]
        /\ UNCHANGED <<state, pending_jobs, signals, overrides, orphans>>
    BY <1>4 DEF KeventExit
  <2>2. jobs' = [k \in DOMAIN jobs |-> IF k \in {l} THEN [jobs[k] EXCEPT !.proc = "reported"]
                                       ELSE jobs[k]]
    BY <2>1 DEF IInv, JobsOK
  <2>3. Exited(l) \in Events
    BY DEF Events
  <2>4. ASSUME NEW k \in Labels
        PROVE  /\ Once(pending_events', DeleteJob(k), FALSE)
               /\ Once(pending_events', Exited(k), k \in {l})
    <3>1. ~(DeleteJob(k) = Exited(l)) /\ (Exited(k) = Exited(l) <=> k \in {l})
      BY EventsDiffer
    <3>2. /\ Once(pending_events', DeleteJob(k), DeleteJob(k) = Exited(l))
          /\ Once(pending_events', Exited(k), Exited(k) = Exited(l))
      BY <1>0, <2>1, <2>3
    <3>3. Once(pending_events', DeleteJob(k), FALSE)
      BY <3>1, <3>2, OnceIff
    <3>4. Once(pending_events', Exited(k), k \in {l})
      BY <3>1, <3>2, OnceIff
    <3> QED  BY <3>3, <3>4
  <2>5. pending_events' \in Seq(Events)
    BY <1>0, <2>1, <2>3
  <2>6. {l} \in SUBSET DOMAIN jobs /\ \A k \in {l} : jobs[k].proc = "zombie"
    BY <2>1
  <2> QED  BY <2>1, <2>2, <2>4, <2>5, <2>6, FilledQueue
<1> QED  BY <1>2, <1>3, <1>4

-----------------------------------------------------------------------------
(* The theorems *)

\* Inv, in the form of the proof, holds initially and every step keeps it.
LEMMA Inductive == (Init => IInv) /\ (IInv /\ [Next]_vars => IInv')
<1>1. ASSUME Init PROVE IInv
  <2>1. JobsOK(jobs) /\ RestOK /\ pending_events \in Seq(Events) /\ DOMAIN jobs = {}
    BY <1>1 DEF Init, JobsOK, RestOK, States, Empty
  <2> QED  BY <1>1, <2>1 DEF Init, IInv, Alive, ShutdownReachesAll
<1>2. ASSUME IInv, [Next]_vars PROVE IInv'
  <2>1. CASE StartRunning
    BY <1>2, <2>1, StartRunningInv
  <2>2. CASE Request
    BY <1>2, <2>2, RequestInv
  <2>3. CASE Poll
    BY <1>2, <2>3, GetSignalEventsInv, KeventInv, TimerFiresInv DEF Poll
  <2>4. CASE Dispatch
    BY <1>2, <2>4, DispatchInv
  <2>5. CASE AllJobsExited
    BY <1>2, <2>5 DEF AllJobsExited, IInv, RestOK, States, Alive, ShutdownReachesAll
  <2>6. CASE Environs
    BY <1>2, <2>6, EnvironsInv
  <2>7. CASE UNCHANGED vars
    BY <1>2, <2>7 DEF vars, IInv, RestOK, Alive, ShutdownReachesAll
  <2> QED  BY <1>2, <2>1, <2>2, <2>3, <2>4, <2>5, <2>6, <2>7 DEF Next
<1> QED  BY <1>1, <1>2

\* The inductive invariant of the manager, its event queue and its jobs holds
\* in every reachable state, for any number of jobs.
THEOREM InvHolds == Spec => []Inv
<1>1. Spec => []IInv
  BY Inductive, PTL DEF Spec
<1> QED  BY <1>1, InvFromIInv, PTL

\* Every variable always has its type.
THEOREM TypeCorrect == Spec => []TypeOK
<1>1. Inv => TypeOK
  BY DEF Inv
<1> QED  BY <1>1, InvHolds, PTL

\* A "delete_job" callback always finds the Unloaded job that queued it, and
\* every Unloaded job has exactly one.
THEOREM DeletionIsExact == Spec => []DeletionExact
<1>1. Inv => DeletionExact
  BY DEF Inv
<1> QED  BY <1>1, InvHolds, PTL

\* The exit of a process reaches its job exactly once, before its deletion.
THEOREM ExitIsDeliveredOnce == Spec => []ExitDeliveredOnce
<1>1. Inv => ExitDeliveredOnce
  BY DEF Inv
<1> QED  BY <1>1, InvHolds, PTL

\* No process is started over another, and pid is always that of the process.
THEOREM ProcessesAreKnown == Spec => []NoLostProcess
<1>1. Inv => NoLostProcess
  BY DEF Inv, JobInv, KnowsItsProcess, NoLostProcess
<1> QED  BY <1>1, InvHolds, PTL

\* A job with a timer is Waiting and has no process.
THEOREM TimersAreExclusive == Spec => []TimerExclusive
<1>1. Inv => TimerExclusive
  BY DEF Inv, JobInv, TimerIsExclusive, TimerExclusive
<1> QED  BY <1>1, InvHolds, PTL

\* The process group of a job does not survive the handling of its exit,
\* unless it is abandoned or, with kqueue, was never learnt from getpgid(2).
THEOREM GroupsDoNotSurvive == Spec => []NoSurvivors
<1>1. Inv => NoSurvivors
  BY DEF Inv, JobInv, GroupIsOwned, NoSurvivors
<1> QED  BY <1>1, InvHolds, PTL

\* A job without StartInterval is Unloaded only when its process is gone.
THEOREM UnloadedJobsAreDown == Spec => []UnloadedIsDown
<1>1. Inv => UnloadedIsDown
  BY DEF Inv, JobInv, StateFitsProcess, UnloadedIsDown
<1> QED  BY <1>1, InvHolds, PTL

\* During the shutdown every remaining job was told to unload.
THEOREM ShutdownReachesAllJobs == Spec => []ShutdownReachesAll
<1>1. Inv => ShutdownReachesAll
  BY DEF Inv
<1> QED  BY <1>1, InvHolds, PTL
=============================================================================
