-------------------------- MODULE EventLoopProofs --------------------------
(***************************************************************************)
(* The event loop, for every set of jobs and pids and every bound.         *)
(*                                                                         *)
(* The argument: an exit is attributed by pid, so the invariant says which *)
(* process each entry of the loop's tables stands for.  A pid that is      *)
(* watched belongs to a process that is there (WatchedOK, KnotesOK); one   *)
(* that is queued or has a status belongs to a process that is gone, and   *)
(* its entry of process_callbacks is still that of the job it had          *)
(* (QueuedOK, StatusOK); no other pid has an entry (EntriesOK).  A new     *)
(* process can therefore only meet an old entry of its pid while the exit  *)
(* of the pid's last owner is on its way, and then it is marked as reused. *)
(*                                                                         *)
(* A dispatch has several parts: the exit is taken from a table, the job's *)
(* callback runs and may start a process, and the entry is deleted.  The   *)
(* invariant is stated of the record that is passed along (Sound), with    *)
(* the set h of the processes whose exit is in hand.                       *)
(***************************************************************************)
EXTENDS EventLoop, TLAPS

-----------------------------------------------------------------------------
(* The inductive invariant *)

States == {"alive", "zombie", "gone"}

Process == [job : Jobs, pid : Pids, state : States, grouped : BOOLEAN, reported : BOOLEAN,
            missed : BOOLEAN, reused : BOOLEAN]

\* A table from pids to T.
IsTable(f, T) == /\ DOMAIN f \subseteq Pids
                 /\ f = [p \in DOMAIN f |-> f[p]]
                 /\ \A p \in DOMAIN f : f[p] \in T

Present(ps, i) == ps[i].state \in {"alive", "zombie"}

\* The loop owes nothing to process i any more, or never could.
Excused(ps, i) == ps[i].reported \/ ps[i].reused \/ ps[i].missed

\* Callback entry of pid p is for job j.
Entry(s, p, j) == p \in DOMAIN s.process_callbacks /\ s.process_callbacks[p] = j

\* Pid p has an exit in the queue q.
Queued(s, q, p) == \E k \in DOMAIN q : s.procs[q[k]].pid = p

\* The exit of a process with pid p is in hand.
InHand(s, h, p) == \E i \in h : s.procs[i].pid = p

Fields == {"procs", "current", "watch_pids", "knotes", "child_status", "process_callbacks"}

Shape(s, q, h) ==
    /\ DOMAIN s = Fields
    /\ s.procs \in Seq(Process)
    /\ s.current \in [Jobs -> {0} \cup DOMAIN s.procs]
    /\ s.watch_pids \subseteq Pids /\ s.knotes \subseteq DOMAIN s.procs
    /\ IsTable(s.child_status, DOMAIN s.procs \cup {-1})
    /\ IsTable(s.process_callbacks, Jobs)
    /\ q \in Seq(DOMAIN s.procs) /\ h \subseteq DOMAIN s.procs

\* A job's current process is the one that was not reported.
CurrentOK(s) ==
    /\ \A i \in DOMAIN s.procs : ~s.procs[i].reported <=> s.current[s.procs[i].job] = i
    /\ \A j \in Jobs : s.current[j] # 0 => s.procs[s.current[j]].job = j

\* Two processes that are there have different pids.
PidsOK(s) == \A i, k \in DOMAIN s.procs :
                Present(s.procs, i) /\ Present(s.procs, k) /\ s.procs[i].pid = s.procs[k].pid
                    => i = k

Unreaped(s, i) == LeavesGroup(s, s.procs[i].job, i)

ReapedOK(s) == \A i \in DOMAIN s.procs :
                 /\ s.procs[i].reported => s.procs[i].state # "alive"
                 /\ s.procs[i].reported /\ s.procs[i].state = "zombie"
                      => backend = "kqueue" /\ Unreaped(s, i)

\* Each backend has its own tables.
BackendOK(s, q) == /\ backend = "epoll"  => s.knotes = {} /\ DOMAIN s.child_status = {}
                   /\ backend = "kqueue" => s.watch_pids = {} /\ q = <<>>

QueuedOK(s, q, h) ==
    \A k \in DOMAIN q :
       /\ s.procs[q[k]].state = "gone" /\ ~s.procs[q[k]].reported
       /\ Entry(s, s.procs[q[k]].pid, s.procs[q[k]].job)
       /\ ~InHand(s, h, s.procs[q[k]].pid)
       /\ \A l \in DOMAIN q : s.procs[q[l]].pid = s.procs[q[k]].pid => k = l
       /\ \A n \in DOMAIN s.procs : s.procs[n].pid = s.procs[q[k]].pid /\ n # q[k]
             => Excused(s.procs, n)

WatchedOK(s, q, h) ==
    \A p \in s.watch_pids :
       /\ p \in DOMAIN s.process_callbacks
       /\ \E i \in DOMAIN s.procs :
             /\ s.procs[i].pid = p /\ Present(s.procs, i) /\ ~s.procs[i].reported
             /\ Entry(s, p, s.procs[i].job) \/ InHand(s, h, p) \/ Queued(s, q, p)

KnotesOK(s, h) ==
    \A i \in s.knotes :
       /\ Present(s.procs, i) /\ ~s.procs[i].reported
       /\ Entry(s, s.procs[i].pid, s.procs[i].job) \/ InHand(s, h, s.procs[i].pid)

\* The process that the status of pid p is about.
StatusOf(s, p, i) ==
    /\ s.procs[i].pid = p /\ ~s.procs[i].reported
    /\ \/ s.child_status[p] = i /\ s.procs[i].state = "gone"
       \/ s.child_status[p] = -1 /\ s.procs[i].state = "zombie" /\ s.procs[i].missed

StatusOK(s, h) ==
    \A p \in DOMAIN s.child_status :
       /\ DOMAIN s.child_status = {p}
       /\ \A n \in s.knotes : s.procs[n].pid # p
       /\ \E i \in DOMAIN s.procs :
             /\ StatusOf(s, p, i)
             /\ IF p \in DOMAIN s.process_callbacks /\ ~InHand(s, h, p)
                THEN s.process_callbacks[p] = s.procs[i].job
                ELSE s.procs[i].reused
             /\ \A n \in DOMAIN s.procs : s.procs[n].pid = p /\ n # i => Excused(s.procs, n)

\* The tables hold pid p.
Held(s, q, p) == \/ p \in s.watch_pids
                 \/ Queued(s, q, p)
                 \/ p \in DOMAIN s.child_status
                 \/ \E i \in s.knotes : s.procs[i].pid = p

EntriesOK(s, q, h) ==
    /\ \A p \in DOMAIN s.process_callbacks : InHand(s, h, p) \/ Held(s, q, p)
    /\ \A i \in h : s.procs[i].pid \in DOMAIN s.process_callbacks

\* The loop knows of process i.
KnownTo(s, q, i) == /\ Entry(s, s.procs[i].pid, s.procs[i].job)
                    /\ \/ s.procs[i].pid \in s.watch_pids
                       \/ i \in s.knotes
                       \/ \E k \in DOMAIN q : q[k] = i
                       \/ s.procs[i].pid \in DOMAIN s.child_status

KnownOK(s, q, h) ==
    \A i \in DOMAIN s.procs :
       \/ i \in h
       \/ Excused(s.procs, i)
       \/ KnownTo(s, q, i) /\ ~InHand(s, h, s.procs[i].pid)

Sound(s, q, h) ==
    /\ Shape(s, q, h)
    /\ CurrentOK(s)
    /\ PidsOK(s)
    /\ ReapedOK(s)
    /\ BackendOK(s, q)
    /\ QueuedOK(s, q, h)
    /\ WatchedOK(s, q, h)
    /\ KnotesOK(s, h)
    /\ StatusOK(s, h)
    /\ EntriesOK(s, q, h)
    /\ KnownOK(s, q, h)

\* While zombies are reaped nothing is started: what is queued is not watched.
ReapingOK == /\ backend \in {"epoll", "kqueue"}
             /\ reaping \in BOOLEAN /\ sigchld \in BOOLEAN /\ terminated \in BOOLEAN
             /\ reaping => backend = "epoll" /\ ~terminated
             /\ reaping => \A k \in DOMAIN pending_events :
                              procs[pending_events[k]].pid \notin watch_pids

TimersOK == /\ timer_id \in [Jobs -> Nat]
            /\ timer_id_max \in 0 .. MaxTimers
            /\ DOMAIN timer_callbacks \subseteq 1 .. timer_id_max
            /\ timer_callbacks \in [DOMAIN timer_callbacks -> Jobs]
            /\ timerfd_map \subseteq 1 .. timer_id_max
            /\ armed \subseteq 1 .. timer_id_max

\* The tables are sound until an exception leaves the loop.
TablesOK == /\ ~terminated => Sound(Loop, pending_events, {})
            /\ Shape(Loop, pending_events, {})
            /\ ReapedOK(Loop)

ProcInv == TablesOK /\ ReapingOK /\ LookupsSucceed /\ NoLostWakeup

TimerInv == TimersOK /\ TimersKnown

IInv == ProcInv /\ TimerInv

-----------------------------------------------------------------------------
(* A process is started *)

NewProcess(s, j, pid, state, missed) ==
    [job |-> j, pid |-> pid, state |-> state, grouped |-> TRUE, reported |-> FALSE,
     missed |-> missed, reused |-> pid \in DOMAIN s.process_callbacks]

\* A new process that exited before getpgid(2).
EarlyZombie(s, j, pid) ==
    [job |-> j, pid |-> pid, state |-> "zombie", grouped |-> FALSE, reported |-> FALSE,
     missed |-> FALSE, reused |-> pid \in DOMAIN s.process_callbacks]

\* The list of processes ps has one more than qs, which is r.
Extended(qs, ps, r) == /\ ps \in Seq(Process) /\ DOMAIN ps = DOMAIN qs \cup {Len(qs) + 1}
                       /\ Len(qs) + 1 \notin DOMAIN qs
                       /\ ps[Len(qs) + 1] = r
                       /\ \A k \in DOMAIN qs : ps[k] = qs[k]

\* What startJob() leaves behind, in the five ways addProcess() can end.
Started(s, t, j, pid) ==
    LET n == Len(s.procs) + 1
    IN /\ DOMAIN t = Fields
       /\ t.current = [s.current EXCEPT ![j] = n]
       /\ t.process_callbacks = Insert(s.process_callbacks, pid, j)
       /\ \/ /\ backend = "epoll"
             /\ Extended(s.procs, t.procs, NewProcess(s, j, pid, "alive", FALSE))
             /\ t.watch_pids = s.watch_pids \cup {pid}
             /\ t.knotes = s.knotes /\ t.child_status = s.child_status
          \/ /\ backend = "kqueue"
             /\ Extended(s.procs, t.procs, NewProcess(s, j, pid, "alive", FALSE))
             /\ t.knotes = s.knotes \cup {n}
             /\ t.watch_pids = s.watch_pids /\ t.child_status = s.child_status
          \/ /\ backend = "kqueue"
             /\ Extended(s.procs, t.procs, EarlyZombie(s, j, pid))
             /\ t.knotes = s.knotes \cup {n}
             /\ t.watch_pids = s.watch_pids /\ t.child_status = s.child_status
          \/ /\ backend = "kqueue"
             /\ Extended(s.procs, t.procs, NewProcess(s, j, pid, "gone", FALSE))
             /\ t.child_status = Insert(s.child_status, pid, n)
             /\ t.watch_pids = s.watch_pids /\ t.knotes = s.knotes
          \/ /\ backend = "kqueue"
             /\ Extended(s.procs, t.procs, NewProcess(s, j, pid, "zombie", TRUE))
             /\ t.child_status = Insert(s.child_status, pid, -1)
             /\ t.watch_pids = s.watch_pids /\ t.knotes = s.knotes

\* Append makes a list longer by one.
LEMMA AppendExtends ==
    ASSUME NEW qs \in Seq(Process), NEW r \in Process
    PROVE  Extended(qs, Append(qs, r), r)
BY DEF Extended

\* The last element of a list is replaced.
LEMMA ReplaceLast ==
    ASSUME NEW qs \in Seq(Process), NEW ps \in Seq(Process), NEW r, Extended(qs, ps, r),
           NEW w \in Process
    PROVE  Extended(qs, [ps EXCEPT ![Len(qs) + 1] = w], w)
<1>1. Len(qs) \in Nat /\ DOMAIN qs = 1 .. Len(qs)
  OBVIOUS
<1>2. DOMAIN ps = 1 .. Len(qs) + 1 /\ Len(ps) = Len(qs) + 1
  BY <1>1 DEF Extended
<1>3. [ps EXCEPT ![Len(qs) + 1] = w] \in Seq(Process)
  BY <1>1, <1>2
<1> QED  BY <1>1, <1>2, <1>3 DEF Extended

\* A field of a process is replaced.
LEMMA ProcessUpdate ==
    ASSUME NEW a, NEW b, NEW c, NEW g, NEW d, NEW e, NEW f, NEW v
    PROVE  /\ [[job |-> a, pid |-> b, state |-> c, grouped |-> g, reported |-> d, missed |-> e,
                 reused |-> f] EXCEPT !.state = v]
                = [job |-> a, pid |-> b, state |-> v, grouped |-> g, reported |-> d, missed |-> e,
                   reused |-> f]
           /\ [[job |-> a, pid |-> b, state |-> c, grouped |-> g, reported |-> d, missed |-> e,
                 reused |-> f] EXCEPT !.grouped = v]
                = [job |-> a, pid |-> b, state |-> c, grouped |-> v, reported |-> d, missed |-> e,
                   reused |-> f]
           /\ [[job |-> a, pid |-> b, state |-> c, grouped |-> g, reported |-> d, missed |-> e,
                 reused |-> f] EXCEPT !.missed = v]
                = [job |-> a, pid |-> b, state |-> c, grouped |-> g, reported |-> d, missed |-> v,
                   reused |-> f]
OBVIOUS

\* What AddProcess() changes of a new process, by its fate.
LEMMA NewProcessUpdate ==
    ASSUME NEW s, NEW j, NEW pid
    PROVE  /\ [NewProcess(s, j, pid, "alive", FALSE) EXCEPT !.state = "gone"]
                = NewProcess(s, j, pid, "gone", FALSE)
           /\ [NewProcess(s, j, pid, "alive", FALSE) EXCEPT !.state = "zombie"]
                = NewProcess(s, j, pid, "zombie", FALSE)
           /\ [NewProcess(s, j, pid, "zombie", FALSE) EXCEPT !.missed = TRUE]
                = NewProcess(s, j, pid, "zombie", TRUE)
<1> DEFINE d == FALSE
           w == TRUE
           u == pid \in DOMAIN s.process_callbacks
           R(st, g, m) == [job |-> j, pid |-> pid, state |-> st, grouped |-> g, reported |-> d,
                           missed |-> m, reused |-> u]
<1> HIDE DEF d, w, u
<1>1. [R("alive", w, d) EXCEPT !.state = "gone"] = R("gone", w, d)
  BY ProcessUpdate
<1>2. [R("zombie", w, d) EXCEPT !.missed = w] = R("zombie", w, w)
  BY ProcessUpdate
<1>3. [R("alive", w, d) EXCEPT !.state = "zombie"] = R("zombie", w, d)
  BY ProcessUpdate
<1> QED  BY <1>1, <1>2, <1>3, Zenon DEF NewProcess, d, w, u

\* What AddProcess() changes of one that exited before getpgid(2).
LEMMA EarlyZombieUpdate ==
    ASSUME NEW s, NEW j, NEW pid
    PROVE  [NewProcess(s, j, pid, "zombie", FALSE) EXCEPT !.grouped = FALSE]
              = EarlyZombie(s, j, pid)
<1> DEFINE d == FALSE
           w == TRUE
           u == pid \in DOMAIN s.process_callbacks
           R(st, g, m) == [job |-> j, pid |-> pid, state |-> st, grouped |-> g, reported |-> d,
                           missed |-> m, reused |-> u]
<1> HIDE DEF d, w, u
<1>1. [R("zombie", w, d) EXCEPT !.grouped = d] = R("zombie", d, d)
  BY ProcessUpdate
<1> QED  BY <1>1, Zenon DEF NewProcess, EarlyZombie, d, w, u

\* What a start changes of the tables, whatever becomes of the process before it is watched.
LEMMA StartedFacts ==
    ASSUME NEW s, NEW q, NEW h, Shape(s, q, h), NEW j \in Jobs, NEW pid \in Pids,
           NEW fate \in Fates, backend \in {"epoll", "kqueue"}
    PROVE  Started(s, StartedWith(s, j, pid, fate), j, pid)
<1> DEFINE n == Len(s.procs) + 1
           f == Forked(s, j, pid)
           r(st, m) == NewProcess(s, j, pid, st, m)
           g == EarlyZombie(s, j, pid)
           t == AddProcess(f, fate)
<1>1. /\ DOMAIN s = Fields /\ s.procs \in Seq(Process)
      /\ s.current \in [Jobs -> {0} \cup DOMAIN s.procs]
  BY DEF Shape
<1>2. g \in Process /\ \A st \in States, m \in BOOLEAN : r(st, m) \in Process
  BY DEF NewProcess, EarlyZombie, Process, States
<1>3. /\ DOMAIN f = Fields
      /\ f.procs = Append(s.procs, r("alive", FALSE)) /\ f.current = [s.current EXCEPT ![j] = n]
      /\ f.watch_pids = s.watch_pids /\ f.knotes = s.knotes /\ f.child_status = s.child_status
      /\ f.process_callbacks = s.process_callbacks
  BY <1>1 DEF Forked, NewProcess, Fields
<1>5. Extended(s.procs, f.procs, r("alive", FALSE)) /\ f.procs \in Seq(Process)
  <2>1. r("alive", FALSE) \in Process
    BY <1>2 DEF States
  <2>2. Extended(s.procs, Append(s.procs, r("alive", FALSE)), r("alive", FALSE))
    BY <2>1, <1>1, AppendExtends
  <2> HIDE DEF f, r
  <2> QED  BY <2>2, <1>3 DEF Extended
<1>6. Len(f.procs) = n /\ f.procs[n] = r("alive", FALSE) /\ n \in DOMAIN f.procs
  <2>1. Len(s.procs) \in Nat
    BY <1>1
  <2>2. Len(Append(s.procs, r("alive", FALSE))) = n
    BY <1>1, <1>2 DEF States
  <2> QED  BY <2>1, <2>2, <1>3, <1>5 DEF Extended
<1> DEFINE a == r("alive", FALSE)
           z == [a EXCEPT !.state = "zombie"]
<1>7. a.pid = pid /\ a.job = j /\ [a EXCEPT !.state = "gone"] = r("gone", FALSE)
  <2>1. a.pid = pid /\ a.job = j
    BY DEF NewProcess
  <2> QED  BY <2>1, NewProcessUpdate
<1>8. [z EXCEPT !.missed = TRUE] = r("zombie", TRUE) /\ [z EXCEPT !.grouped = FALSE] = g
  <2>1. z = r("zombie", FALSE)
    BY NewProcessUpdate
  <2>2. [r("zombie", FALSE) EXCEPT !.missed = TRUE] = r("zombie", TRUE)
    BY NewProcessUpdate
  <2>3. [r("zombie", FALSE) EXCEPT !.grouped = FALSE] = g
    BY EarlyZombieUpdate
  <2> QED  BY <2>1, <2>2, <2>3
<1> HIDE DEF r, g
<1> DEFINE gs == [f.procs EXCEPT ![n].state = "gone"]
           zs == [f.procs EXCEPT ![n].state = "zombie"]
           ms == [zs EXCEPT ![n].missed = TRUE]
           es == [zs EXCEPT ![n].grouped = FALSE]
<1>9. /\ Extended(s.procs, [f.procs EXCEPT ![n] = r("gone", FALSE)], r("gone", FALSE))
      /\ Extended(s.procs, [f.procs EXCEPT ![n] = r("zombie", TRUE)], r("zombie", TRUE))
      /\ Extended(s.procs, [f.procs EXCEPT ![n] = g], g)
  BY <1>1, <1>2, <1>5, ReplaceLast DEF States
<1>10. /\ gs = [f.procs EXCEPT ![n] = r("gone", FALSE)]
       /\ ms = [f.procs EXCEPT ![n] = r("zombie", TRUE)]
       /\ es = [f.procs EXCEPT ![n] = g]
  <2> HIDE DEF f, n
  <2>1. gs = [f.procs EXCEPT ![n] = r("gone", FALSE)]
    BY <1>6, <1>7
  <2>2. zs = [f.procs EXCEPT ![n] = z]
    BY <1>6
  <2> HIDE DEF z, zs
  <2>3. zs[n] = z
    BY <2>2, <1>6
  <2>4. /\ ms = [zs EXCEPT ![n] = [z EXCEPT !.missed = TRUE]]
        /\ es = [zs EXCEPT ![n] = [z EXCEPT !.grouped = FALSE]]
    BY <2>3
  <2>5. ms = [zs EXCEPT ![n] = r("zombie", TRUE)] /\ es = [zs EXCEPT ![n] = g]
    BY <2>4, <1>8
  <2> QED  BY <2>1, <2>2, <2>5
<1> DEFINE cb == Insert(s.process_callbacks, pid, j)
           c == [s.current EXCEPT ![j] = n]
           e == [f EXCEPT !.process_callbacks = cb]
<1>11. /\ DOMAIN e = Fields
       /\ e.procs = f.procs /\ e.current = c
       /\ e.watch_pids = s.watch_pids /\ e.knotes = s.knotes /\ e.child_status = s.child_status
       /\ e.process_callbacks = cb
  <2> HIDE DEF f, cb
  <2> QED  BY <1>3 DEF Fields
<1>12. t = CASE fate = "signal"   -> [e EXCEPT !.watch_pids = @ \cup {pid}]
             [] fate = "watched"  -> [e EXCEPT !.knotes = @ \cup {n}]
             [] fate = "zombie"   -> [e EXCEPT !.knotes = @ \cup {n},
                                               !.procs[n].state = "zombie",
                                               !.procs[n].grouped = FALSE]
             [] fate = "reaped"   -> [e EXCEPT !.child_status = Insert(@, pid, n),
                                               !.procs[n].state = "gone"]
             [] OTHER             -> [e EXCEPT !.child_status = Insert(@, pid, -1),
                                               !.procs[n].state = "zombie",
                                               !.procs[n].missed = TRUE]
  <2>1. f.procs[Len(f.procs)].pid = pid /\ f.procs[Len(f.procs)].job = j
    BY <1>6, <1>7
  <2> HIDE DEF f, n
  <2> QED  BY <2>1, <1>6, <1>3 DEF AddProcess
<1> HIDE DEF f, n, t, e, cb, c, a
<1>13. CASE backend = "epoll"
  <2>1. t = [e EXCEPT !.watch_pids = s.watch_pids \cup {pid}]
    BY <1>13, <1>11, <1>12 DEF Fates
  <2>2. /\ DOMAIN t = Fields /\ t.procs = f.procs /\ t.current = c
        /\ t.watch_pids = s.watch_pids \cup {pid}
        /\ t.knotes = s.knotes /\ t.child_status = s.child_status /\ t.process_callbacks = cb
    BY <2>1, <1>11 DEF Fields
  <2> QED  BY <2>2, <1>5, <1>13 DEF Started, StartedWith, n, t, f, c, cb, r
<1>14. CASE backend = "kqueue" /\ fate = "watched"
  <2>1. t = [e EXCEPT !.knotes = s.knotes \cup {n}]
    BY <1>14, <1>11, <1>12
  <2>2. /\ DOMAIN t = Fields /\ t.procs = f.procs /\ t.current = c /\ t.watch_pids = s.watch_pids
        /\ t.knotes = s.knotes \cup {n} /\ t.child_status = s.child_status
        /\ t.process_callbacks = cb
    BY <2>1, <1>11 DEF Fields
  <2> QED  BY <2>2, <1>5, <1>14 DEF Started, StartedWith, n, t, f, c, cb, r
<1>15. CASE backend = "kqueue" /\ fate = "reaped"
  <2>1. t = [[e EXCEPT !.child_status = Insert(s.child_status, pid, n)] EXCEPT !.procs = gs]
    BY <1>15, <1>11, <1>12
  <2>2. /\ DOMAIN t = Fields /\ t.procs = gs /\ t.current = c /\ t.watch_pids = s.watch_pids
        /\ t.knotes = s.knotes /\ t.child_status = Insert(s.child_status, pid, n)
        /\ t.process_callbacks = cb
    BY <2>1, <1>11 DEF Fields
  <2> QED  BY <2>2, <1>9, <1>10, <1>15 DEF Started, StartedWith, n, t, f, c, cb, r
<1>16. CASE backend = "kqueue" /\ fate = "missed"
  <2>1. t = [[e EXCEPT !.child_status = Insert(s.child_status, pid, -1)] EXCEPT !.procs = ms]
    BY <1>16, <1>11, <1>12
  <2>2. /\ DOMAIN t = Fields /\ t.procs = ms /\ t.current = c /\ t.watch_pids = s.watch_pids
        /\ t.knotes = s.knotes /\ t.child_status = Insert(s.child_status, pid, -1)
        /\ t.process_callbacks = cb
    BY <2>1, <1>11 DEF Fields
  <2> QED  BY <2>2, <1>9, <1>10, <1>16 DEF Started, StartedWith, n, t, f, c, cb, r
<1>17. CASE backend = "kqueue" /\ fate = "zombie"
  <2>1. t = [[e EXCEPT !.knotes = s.knotes \cup {n}] EXCEPT !.procs = es]
    <3> DEFINE x == [e EXCEPT !.knotes = s.knotes \cup {n}]
               y == [x EXCEPT !.procs = zs]
    <3>1. t = [e EXCEPT !.knotes = @ \cup {n}, !.procs[n].state = "zombie",
                        !.procs[n].grouped = FALSE]
      <4>1. /\ fate # "signal" /\ fate # "watched" /\ fate = "zombie"
        BY <1>17
      <4> QED  BY <1>12, <4>1
    <3>2. DOMAIN x = Fields /\ x.procs = f.procs
      BY <1>11 DEF Fields
    <3>3. t = [[x EXCEPT !.procs[n].state = "zombie"] EXCEPT !.procs[n].grouped = FALSE]
      BY <3>1, <1>11
    <3> HIDE DEF x
    <3>4. [x EXCEPT !.procs[n].state = "zombie"] = y
      BY <3>2
    <3>5. DOMAIN y = Fields /\ y.procs = zs
      BY <3>2 DEF Fields
    <3> HIDE DEF y, zs
    <3>6. t = [y EXCEPT !.procs = es]
      BY <3>3, <3>4, <3>5
    <3>7. [y EXCEPT !.procs = es] = [x EXCEPT !.procs = es]
      BY <3>2 DEF y, Fields
    <3> QED  BY <3>6, <3>7 DEF x
  <2>2. /\ DOMAIN t = Fields /\ t.procs = es /\ t.current = c /\ t.watch_pids = s.watch_pids
        /\ t.knotes = s.knotes \cup {n} /\ t.child_status = s.child_status
        /\ t.process_callbacks = cb
    BY <2>1, <1>11 DEF Fields
  <2> QED  BY <2>2, <1>9, <1>10, <1>17 DEF Started, StartedWith, n, t, f, c, cb, g
<1> QED  BY <1>13, <1>14, <1>15, <1>16, <1>17 DEF Fates

\* Insertion and removal keep a table a table.
LEMMA InsertTable ==
    ASSUME NEW f, NEW T, IsTable(f, T), NEW x \in Pids, NEW v \in T
    PROVE  IsTable(Insert(f, x, v), T)
BY DEF Insert, IsTable

\* A table stays one when an entry is erased.
LEMMA RemoveTable ==
    ASSUME NEW f, NEW T, IsTable(f, T), NEW x
    PROVE  IsTable(Remove(f, x), T)
BY DEF Remove, IsTable

\* A table of indices is one for a longer list of processes.
LEMMA WiderTable ==
    ASSUME NEW f, NEW T, NEW U, IsTable(f, T), T \subseteq U
    PROVE  IsTable(f, U)
BY DEF IsTable

\* startJob() keeps the invariant, also within a dispatch: a pid that is free
\* is in process_callbacks only if an exit of its last owner is in hand or
\* queued.
LEMMA StartSound ==
    ASSUME NEW s, NEW q, NEW h, NEW t, Sound(s, q, h), NEW j \in Jobs, NEW pid \in Pids,
           pid \notin InUse(s.procs), s.current[j] = 0, DOMAIN s.child_status = {},
           \A i \in h : Excused(s.procs, i), Started(s, t, j, pid), backend \in {"epoll", "kqueue"}
    PROVE  Sound(t, q, h)
<1> DEFINE n == Len(s.procs) + 1
           x == t.procs[n]
           D == DOMAIN s.procs
<1>1. /\ s.procs \in Seq(Process) /\ s.current \in [Jobs -> {0} \cup D]
      /\ s.watch_pids \subseteq Pids /\ s.knotes \subseteq D
      /\ IsTable(s.child_status, D \cup {-1}) /\ IsTable(s.process_callbacks, Jobs)
      /\ q \in Seq(D) /\ h \subseteq D
  BY DEF Sound, Shape
<1>2. D = 1 .. Len(s.procs) /\ Len(s.procs) \in Nat /\ n \in Nat /\ n # 0 /\ n \notin D
  BY <1>1
<1>3. /\ DOMAIN t = Fields
      /\ t.current = [s.current EXCEPT ![j] = n]
      /\ t.process_callbacks = Insert(s.process_callbacks, pid, j)
  BY DEF Started
<1>4. /\ t.procs \in Seq(Process) /\ DOMAIN t.procs = D \cup {n}
      /\ \A k \in D : t.procs[k] = s.procs[k]
      /\ x.job = j /\ x.pid = pid /\ ~x.reported
      /\ x.reused <=> pid \in DOMAIN s.process_callbacks
  <2>1. /\ t.procs \in Seq(Process) /\ DOMAIN t.procs = D \cup {n}
        /\ \A k \in D : t.procs[k] = s.procs[k]
    BY DEF Started, Extended
  <2>2. \/ x = NewProcess(s, j, pid, "alive", FALSE) \/ x = NewProcess(s, j, pid, "gone", FALSE)
        \/ x = NewProcess(s, j, pid, "zombie", TRUE) \/ x = EarlyZombie(s, j, pid)
    BY DEF Started, Extended
  <2> HIDE DEF x
  <2>3. /\ x.job = j /\ x.pid = pid /\ ~x.reported
        /\ x.reused <=> pid \in DOMAIN s.process_callbacks
    <3>1. x.job = j /\ x.pid = pid
      BY <2>2 DEF NewProcess, EarlyZombie
    <3>2. ~x.reported
      BY <2>2 DEF NewProcess, EarlyZombie
    <3>3. x.reused <=> pid \in DOMAIN s.process_callbacks
      <4> DEFINE u == pid \in DOMAIN s.process_callbacks
                 R(st, g, m) == [job |-> j, pid |-> pid, state |-> st, grouped |-> g,
                                 reported |-> FALSE, missed |-> m, reused |-> u]
      <4>1. \/ x = R("alive", TRUE, FALSE) \/ x = R("gone", TRUE, FALSE)
            \/ x = R("zombie", TRUE, TRUE) \/ x = R("zombie", FALSE, FALSE)
        BY <2>2, Zenon DEF NewProcess, EarlyZombie
      <4> HIDE DEF u
      <4>2. x.reused = u
        BY <4>1
      <4> QED  BY <4>2, Zenon DEF u
    <3> QED  BY <3>1, <3>2, <3>3
  <2> QED  BY <2>1, <2>3 DEF x
<1>5. \/ /\ backend = "epoll" /\ x.state = "alive" /\ ~x.missed
         /\ t.watch_pids = s.watch_pids \cup {pid}
         /\ t.knotes = s.knotes /\ t.child_status = s.child_status
      \/ /\ backend = "kqueue" /\ x.state \in {"alive", "zombie"} /\ ~x.missed
         /\ t.knotes = s.knotes \cup {n}
         /\ t.watch_pids = s.watch_pids /\ t.child_status = s.child_status
      \/ /\ backend = "kqueue" /\ x.state = "gone" /\ ~x.missed
         /\ t.child_status = Insert(s.child_status, pid, n)
         /\ t.watch_pids = s.watch_pids /\ t.knotes = s.knotes
      \/ /\ backend = "kqueue" /\ x.state = "zombie" /\ x.missed
         /\ t.child_status = Insert(s.child_status, pid, -1)
         /\ t.watch_pids = s.watch_pids /\ t.knotes = s.knotes
  BY DEF Started, Extended, NewProcess, EarlyZombie
<1> HIDE DEF n, x
<1>6. /\ \A k \in D : t.procs[k] = s.procs[k]
      /\ \A k \in D : Present(t.procs, k) <=> Present(s.procs, k)
      /\ \A k \in D : Excused(t.procs, k) <=> Excused(s.procs, k)
      /\ \A k \in DOMAIN q : q[k] \in D
      /\ \A p : Queued(t, q, p) <=> Queued(s, q, p)
      /\ \A p : InHand(t, h, p) <=> InHand(s, h, p)
  <2>1. \A k \in D : t.procs[k] = s.procs[k]
    BY <1>4
  <2>2. (\A k \in DOMAIN q : q[k] \in D) /\ (\A i \in h : i \in D)
    BY <1>1
  <2>3. /\ \A k \in D : Present(t.procs, k) <=> Present(s.procs, k)
        /\ \A k \in D : Excused(t.procs, k) <=> Excused(s.procs, k)
    BY <2>1 DEF Present, Excused
  <2>4. /\ \A p : Queued(t, q, p) <=> Queued(s, q, p)
        /\ \A p : InHand(t, h, p) <=> InHand(s, h, p)
    BY <2>1, <2>2 DEF Queued, InHand
  <2> QED  BY <2>1, <2>2, <2>3, <2>4
<1>7. /\ DOMAIN t.process_callbacks = DOMAIN s.process_callbacks \cup {pid}
      /\ \A p \in DOMAIN s.process_callbacks : t.process_callbacks[p] = s.process_callbacks[p]
      /\ pid \notin DOMAIN s.process_callbacks => t.process_callbacks[pid] = j
  BY <1>3 DEF Insert
<1>8. \A p, i : Entry(s, p, i) => Entry(t, p, i)
  BY <1>7 DEF Entry
<1>9. \A k \in D : Present(s.procs, k) => s.procs[k].pid # pid
  BY DEF InUse, Present
\* The free pid has an entry only while an exit is on its way.
<1>10. pid \in DOMAIN s.process_callbacks => InHand(s, h, pid) \/ Queued(s, q, pid)
  <2>1. pid \notin s.watch_pids
    BY <1>9 DEF Sound, WatchedOK
  <2>2. \A i \in s.knotes : s.procs[i].pid # pid
    BY <1>9, <1>1 DEF Sound, KnotesOK
  <2> QED  BY <2>1, <2>2 DEF Sound, EntriesOK, Held
<1>11. Shape(t, q, h)
  <2>1. t.current \in [Jobs -> {0} \cup DOMAIN t.procs]
    BY <1>1, <1>3, <1>4
  <2>2. t.watch_pids \subseteq Pids /\ t.knotes \subseteq DOMAIN t.procs
    BY <1>1, <1>4, <1>5
  <2>3. IsTable(t.child_status, DOMAIN t.procs \cup {-1})
    <3>1. IsTable(s.child_status, DOMAIN t.procs \cup {-1})
      BY <1>1, <1>4, WiderTable
    <3>2. n \in DOMAIN t.procs
      BY <1>4
    <3>3. /\ IsTable(Insert(s.child_status, pid, n), DOMAIN t.procs \cup {-1})
          /\ IsTable(Insert(s.child_status, pid, -1), DOMAIN t.procs \cup {-1})
      BY <3>1, <3>2, InsertTable
    <3> QED  BY <3>1, <3>3, <1>5
  <2>4. IsTable(t.process_callbacks, Jobs)
    BY <1>1, <1>3, InsertTable
  <2>5. q \in Seq(DOMAIN t.procs) /\ h \subseteq DOMAIN t.procs
    BY <1>1, <1>4
  <2> QED  BY <2>1, <2>2, <2>3, <2>4, <2>5, <1>3, <1>4 DEF Shape
<1>12. CurrentOK(t)
  <2>1. CurrentOK(s)
    BY DEF Sound
  <2>2. \A k \in D : s.procs[k].job \in Jobs
    <3>1. \A k \in D : s.procs[k] \in Process
      BY <1>1
    <3> QED  BY <3>1 DEF Process
  <2>3. \A i \in D : ~t.procs[i].reported <=> t.current[t.procs[i].job] = i
    BY <2>1, <2>2, <1>1, <1>2, <1>3, <1>4 DEF CurrentOK
  <2>4. ~t.procs[n].reported /\ t.current[t.procs[n].job] = n
    BY <1>1, <1>3, <1>4 DEF x
  <2>5. \A i \in Jobs : t.current[i] # 0 => t.procs[t.current[i]].job = i
    <3> TAKE i \in Jobs
    <3>1. CASE i = j
      BY <3>1, <1>1, <1>3, <1>4 DEF x
    <3>2. CASE i # j
      <4>1. t.current[i] = s.current[i] /\ s.current[i] \in {0} \cup D
        BY <3>2, <1>1, <1>3
      <4> QED  BY <4>1, <2>1, <1>4 DEF CurrentOK
    <3> QED  BY <3>1, <3>2
  <2> QED  BY <2>3, <2>4, <2>5, <1>4 DEF CurrentOK
<1>13. PidsOK(t)
  BY <1>4, <1>6, <1>9 DEF Sound, PidsOK, x
<1>14. ReapedOK(t)
  BY <1>4 DEF Sound, ReapedOK, Unreaped, LeavesGroup, x
<1>15. BackendOK(t, q)
  BY <1>5 DEF Sound, BackendOK
<1>16. QueuedOK(t, q, h)
  <2> SUFFICES ASSUME NEW k \in DOMAIN q
               PROVE  /\ t.procs[q[k]].state = "gone" /\ ~t.procs[q[k]].reported
                      /\ Entry(t, t.procs[q[k]].pid, t.procs[q[k]].job)
                      /\ ~InHand(t, h, t.procs[q[k]].pid)
                      /\ \A l \in DOMAIN q : t.procs[q[l]].pid = t.procs[q[k]].pid => k = l
                      /\ \A m \in DOMAIN t.procs : t.procs[m].pid = t.procs[q[k]].pid /\ m # q[k]
                            => Excused(t.procs, m)
    BY DEF QueuedOK
  <2>1. /\ s.procs[q[k]].state = "gone" /\ ~s.procs[q[k]].reported
        /\ Entry(s, s.procs[q[k]].pid, s.procs[q[k]].job)
        /\ ~InHand(s, h, s.procs[q[k]].pid)
        /\ \A l \in DOMAIN q : s.procs[q[l]].pid = s.procs[q[k]].pid => k = l
        /\ \A m \in D : s.procs[m].pid = s.procs[q[k]].pid /\ m # q[k] => Excused(s.procs, m)
    BY DEF Sound, QueuedOK
  <2>2. s.procs[q[k]].pid = pid => Excused(t.procs, n)
    BY <2>1, <1>4 DEF Entry, Excused, x
  <2> QED  BY <2>1, <2>2, <1>4, <1>6, <1>8 DEF x
<1>17. WatchedOK(t, q, h)
  <2> SUFFICES ASSUME NEW p \in t.watch_pids
               PROVE  /\ p \in DOMAIN t.process_callbacks
                      /\ \E i \in DOMAIN t.procs :
                           /\ t.procs[i].pid = p /\ Present(t.procs, i) /\ ~t.procs[i].reported
                           /\ Entry(t, p, t.procs[i].job) \/ InHand(t, h, p) \/ Queued(t, q, p)
    BY DEF WatchedOK
  <2>1. CASE p \in s.watch_pids
    <3>1. /\ p \in DOMAIN s.process_callbacks
          /\ \E i \in D :
               /\ s.procs[i].pid = p /\ Present(s.procs, i) /\ ~s.procs[i].reported
               /\ Entry(s, p, s.procs[i].job) \/ InHand(s, h, p) \/ Queued(s, q, p)
      BY <2>1 DEF Sound, WatchedOK
    <3> QED  BY <3>1, <1>4, <1>6, <1>7, <1>8
  <2>2. CASE p \notin s.watch_pids
    <3>1. p = pid /\ x.state = "alive"
      BY <2>2, <1>5
    <3>2. Present(t.procs, n)
      BY <3>1 DEF Present, x
    <3>3. Entry(t, pid, j) \/ InHand(t, h, pid) \/ Queued(t, q, pid)
      BY <1>6, <1>7, <1>10 DEF Entry
    <3> QED  BY <3>1, <3>2, <3>3, <1>4, <1>7 DEF x
  <2> QED  BY <2>1, <2>2
<1>18. KnotesOK(t, h)
  <2> SUFFICES ASSUME NEW i \in t.knotes
               PROVE  /\ Present(t.procs, i) /\ ~t.procs[i].reported
                      /\ Entry(t, t.procs[i].pid, t.procs[i].job) \/ InHand(t, h, t.procs[i].pid)
    BY DEF KnotesOK
  <2>1. CASE i \in s.knotes
    BY <2>1, <1>1, <1>6, <1>8 DEF Sound, KnotesOK
  <2>2. CASE i \notin s.knotes
    <3>1. i = n /\ x.state \in {"alive", "zombie"} /\ backend = "kqueue"
      BY <2>2, <1>5
    <3>2. ~Queued(s, q, pid)
      BY <3>1 DEF Sound, BackendOK, Queued
    <3>3. Entry(t, pid, j) \/ InHand(t, h, pid)
      BY <3>2, <1>6, <1>7, <1>10 DEF Entry
    <3> QED  BY <3>1, <3>3, <1>4 DEF Present, x
  <2> QED  BY <2>1, <2>2
<1>19. StatusOK(t, h)
  <2> SUFFICES ASSUME NEW p \in DOMAIN t.child_status
               PROVE  /\ DOMAIN t.child_status = {p}
                      /\ \A m \in t.knotes : t.procs[m].pid # p
                      /\ \E i \in DOMAIN t.procs :
                           /\ StatusOf(t, p, i)
                           /\ IF p \in DOMAIN t.process_callbacks /\ ~InHand(t, h, p)
                              THEN t.process_callbacks[p] = t.procs[i].job
                              ELSE t.procs[i].reused
                           /\ \A m \in DOMAIN t.procs : t.procs[m].pid = p /\ m # i
                                 => Excused(t.procs, m)
    BY DEF StatusOK
  <2>1. /\ backend = "kqueue" /\ p = pid /\ DOMAIN t.child_status = {pid} /\ t.knotes = s.knotes
        /\ \/ x.state = "gone" /\ t.child_status[pid] = n
           \/ x.state = "zombie" /\ x.missed /\ t.child_status[pid] = -1
    BY <1>5 DEF Insert
  <2>2. ~Queued(s, q, pid)
    BY <2>1 DEF Sound, BackendOK, Queued
  <2>3. pid \in DOMAIN s.process_callbacks <=> InHand(s, h, pid)
    BY <2>2, <1>10 DEF Sound, EntriesOK, InHand
  <2>4. \A m \in t.knotes : t.procs[m].pid # p
    BY <2>1, <1>1, <1>4, <1>9 DEF Sound, KnotesOK
  <2>5. StatusOf(t, p, n)
    BY <2>1, <1>4 DEF StatusOf, x
  <2>6. IF p \in DOMAIN t.process_callbacks /\ ~InHand(t, h, p)
        THEN t.process_callbacks[p] = t.procs[n].job
        ELSE t.procs[n].reused
    BY <2>1, <2>3, <1>4, <1>6, <1>7 DEF x
  <2>7. \A m \in DOMAIN t.procs : t.procs[m].pid = p /\ m # n => Excused(t.procs, m)
    <3> SUFFICES ASSUME NEW m \in D, s.procs[m].pid = pid, ~Excused(s.procs, m)
                 PROVE  FALSE
      BY <2>1, <1>4, <1>6
    <3>1. KnownTo(s, q, m) /\ ~InHand(s, h, pid)
      BY DEF Sound, KnownOK
    <3> QED  BY <3>1, <2>3 DEF KnownTo, Entry
  <2> QED  BY <2>1, <2>4, <2>5, <2>6, <2>7, <1>4
<1>20. EntriesOK(t, q, h)
  <2>1. \A p : Held(s, q, p) => Held(t, q, p)
    BY <1>1, <1>4, <1>5, <1>6 DEF Held, Insert
  <2>2. Held(t, q, pid)
    <3>1. pid \in t.watch_pids \/ n \in t.knotes \/ pid \in DOMAIN t.child_status
      BY <1>5 DEF Insert
    <3> QED  BY <3>1, <1>4 DEF Held, x
  <2>3. \A p \in DOMAIN t.process_callbacks : InHand(t, h, p) \/ Held(t, q, p)
    BY <2>1, <2>2, <1>6, <1>7 DEF Sound, EntriesOK
  <2>4. \A i \in h : t.procs[i].pid \in DOMAIN t.process_callbacks
    BY <1>1, <1>4, <1>7 DEF Sound, EntriesOK
  <2> QED  BY <2>3, <2>4 DEF EntriesOK
<1>21. KnownOK(t, q, h)
  <2> SUFFICES ASSUME NEW i \in DOMAIN t.procs, i \notin h, ~Excused(t.procs, i)
               PROVE  KnownTo(t, q, i) /\ ~InHand(t, h, t.procs[i].pid)
    BY DEF KnownOK
  <2>1. CASE i \in D
    <3>1. KnownTo(s, q, i) /\ ~InHand(s, h, s.procs[i].pid)
      BY <2>1, <1>6 DEF Sound, KnownOK
    <3>2. \A p \in DOMAIN s.child_status : p \in DOMAIN t.child_status
      BY <1>5 DEF Insert
    <3>3. s.watch_pids \subseteq t.watch_pids /\ s.knotes \subseteq t.knotes
      BY <1>5
    <3> QED  BY <2>1, <3>1, <3>2, <3>3, <1>6, <1>8 DEF KnownTo
  <2>2. CASE i = n
    <3>1. pid \notin DOMAIN s.process_callbacks
      BY <2>2, <1>4 DEF Excused, x
    <3>2. ~InHand(t, h, pid)
      BY <3>1, <1>6 DEF Sound, EntriesOK, InHand
    <3>3. Entry(t, pid, j)
      BY <3>1, <1>7 DEF Entry
    <3>4. pid \in t.watch_pids \/ n \in t.knotes \/ pid \in DOMAIN t.child_status
      BY <1>5 DEF Insert
    <3> QED  BY <2>2, <3>2, <3>3, <3>4, <1>4 DEF KnownTo, x
  <2> QED  BY <2>1, <2>2, <1>4
<1> QED
  BY <1>11, <1>12, <1>13, <1>14, <1>15, <1>16, <1>17, <1>18, <1>19, <1>20, <1>21 DEF Sound

-----------------------------------------------------------------------------
(* An exit is dispatched *)

\* What the job's callback for the exit of process i leaves behind.
Reaped(s, r, i) ==
    /\ DOMAIN r = Fields
    /\ r.current = [s.current EXCEPT ![s.procs[i].job] = 0]
    /\ r.watch_pids = s.watch_pids /\ r.knotes = s.knotes /\ r.child_status = s.child_status
    /\ r.process_callbacks = s.process_callbacks
    /\ r.procs \in Seq(Process) /\ DOMAIN r.procs = DOMAIN s.procs
    /\ Len(r.procs) = Len(s.procs)
    /\ \A k \in DOMAIN s.procs \ {i} : r.procs[k] = s.procs[k]
    /\ r.procs[i].job = s.procs[i].job /\ r.procs[i].pid = s.procs[i].pid
    /\ r.procs[i].grouped = s.procs[i].grouped /\ r.procs[i].reported
    /\ r.procs[i].state = IF Unreaped(s, i) THEN s.procs[i].state ELSE "gone"

\* A process that is replaced in the list.
LEMMA Replace ==
    ASSUME NEW ps \in Seq(Process), NEW i \in DOMAIN ps, NEW w \in Process
    PROVE  /\ [ps EXCEPT ![i] = w] \in Seq(Process) /\ DOMAIN [ps EXCEPT ![i] = w] = DOMAIN ps
           /\ Len([ps EXCEPT ![i] = w]) = Len(ps) /\ [ps EXCEPT ![i] = w][i] = w
           /\ \A k \in DOMAIN ps \ {i} : [ps EXCEPT ![i] = w][k] = ps[k]
OBVIOUS

\* The members of the list of processes have the fields of a process.
LEMMA Elements ==
    ASSUME NEW ps \in Seq(Process)
    PROVE  /\ \A i \in DOMAIN ps : ps[i] \in Process
           /\ \A i \in DOMAIN ps : /\ ps[i].job \in Jobs /\ ps[i].pid \in Pids
                                   /\ ps[i].state \in States /\ ps[i].grouped \in BOOLEAN
                                   /\ ps[i].reported \in BOOLEAN
                                   /\ ps[i].missed \in BOOLEAN /\ ps[i].reused \in BOOLEAN
<1>1. \A i \in DOMAIN ps : ps[i] \in Process
  OBVIOUS
<1> QED  BY <1>1 DEF Process

\* The state of a process is replaced.
LEMMA StateUpdate ==
    ASSUME NEW w \in Process, NEW v \in States
    PROVE  LET u == [w EXCEPT !.state = v]
           IN /\ u \in Process /\ u.job = w.job /\ u.pid = w.pid /\ u.state = v
              /\ u.grouped = w.grouped /\ u.reported = w.reported
              /\ u.missed = w.missed /\ u.reused = w.reused
BY DEF Process

\* The report of a process changes nothing else of it.
LEMMA ReportedUpdate ==
    ASSUME NEW w \in Process
    PROVE  LET u == [w EXCEPT !.reported = TRUE]
           IN /\ u \in Process /\ u.job = w.job /\ u.pid = w.pid /\ u.state = w.state
              /\ u.grouped = w.grouped /\ u.reported
              /\ u.missed = w.missed /\ u.reused = w.reused
BY DEF Process

\* What the job's callback changes of the tables before it starts or stops anything.
LEMMA ReapFacts ==
    ASSUME NEW s, NEW q, NEW h, Shape(s, q, h), NEW i \in DOMAIN s.procs
    PROVE  Reaped(s, ReapChild(s, s.procs[i].job, i), i)
<1> DEFINE w == s.procs[i]
           j == w.job
           v == [w EXCEPT !.reported = TRUE]
           vs == [s.procs EXCEPT ![i] = v]
           st == IF Unreaped(s, i) THEN w.state ELSE "gone"
           u == [v EXCEPT !.state = st]
           us == [vs EXCEPT ![i] = u]
           r == ReapChild(s, j, i)
<1>1. /\ DOMAIN s = Fields /\ s.procs \in Seq(Process) /\ i \in DOMAIN s.procs
      /\ s.current \in [Jobs -> {0} \cup DOMAIN s.procs]
  BY DEF Shape
<1>2. w \in Process /\ w.state \in States /\ j \in Jobs
  BY <1>1, Elements
<1>3. /\ v \in Process /\ v.job = j /\ v.pid = w.pid /\ v.state = w.state
      /\ v.grouped = w.grouped /\ v.reported
  BY <1>2, ReportedUpdate
<1>4. st \in States
  BY <1>2 DEF States
<1> HIDE DEF v, st
<1>5. /\ u \in Process /\ u.job = j /\ u.pid = w.pid /\ u.state = st
      /\ u.grouped = w.grouped /\ u.reported
  BY <1>3, <1>4, StateUpdate
<1> HIDE DEF u
<1>6. /\ vs \in Seq(Process) /\ DOMAIN vs = DOMAIN s.procs /\ Len(vs) = Len(s.procs) /\ vs[i] = v
      /\ \A k \in DOMAIN s.procs \ {i} : vs[k] = s.procs[k]
  BY <1>1, <1>3, Replace
<1> HIDE DEF vs
<1>7. /\ us \in Seq(Process) /\ DOMAIN us = DOMAIN vs /\ Len(us) = Len(vs) /\ us[i] = u
      /\ \A k \in DOMAIN vs \ {i} : us[k] = vs[k]
  BY <1>1, <1>5, <1>6, Replace
<1> DEFINE c == [s EXCEPT !.current[j] = 0, !.procs[i].reported = TRUE]
<1>8. /\ DOMAIN c = Fields /\ c.procs = vs /\ c.current = [s.current EXCEPT ![j] = 0]
      /\ c.watch_pids = s.watch_pids /\ c.knotes = s.knotes /\ c.child_status = s.child_status
      /\ c.process_callbacks = s.process_callbacks
  BY <1>1 DEF Fields, vs, v
<1>9. r = [c EXCEPT !.procs[i].state = st]
  BY <1>3, <1>6, <1>8 DEF ReapChild, Unreaped, LeavesGroup, st
<1> HIDE DEF us, r, c
<1>10. /\ DOMAIN r = Fields /\ r.procs = us /\ r.current = [s.current EXCEPT ![j] = 0]
       /\ r.watch_pids = s.watch_pids /\ r.knotes = s.knotes /\ r.child_status = s.child_status
       /\ r.process_callbacks = s.process_callbacks
  <2>1. us = [vs EXCEPT ![i].state = st]
    BY <1>6 DEF u, us
  <2> QED  BY <2>1, <1>8, <1>9 DEF Fields
<1> QED  BY <1>5, <1>6, <1>7, <1>10 DEF Reaped, st, r

\* The exit of process i was taken from the tables: its job waits for it.
Taken(s, q, i) == /\ Sound(s, q, {i})
                  /\ backend \in {"epoll", "kqueue"} /\ DOMAIN s.child_status = {}
                  /\ ~s.procs[i].reported /\ s.procs[i].state # "alive"
                  /\ backend = "epoll" => s.procs[i].state = "gone"
                  /\ Entry(s, s.procs[i].pid, s.procs[i].job)
                  /\ i \notin s.knotes

\* The callback of the job keeps the invariant.
LEMMA ReapSound ==
    ASSUME NEW s, NEW q, NEW i, Taken(s, q, i), NEW r, Reaped(s, r, i)
    PROVE  Sound(r, q, {i})
<1> DEFINE D == DOMAIN s.procs
           h == {i}
<1>1. /\ s.procs \in Seq(Process) /\ s.current \in [Jobs -> {0} \cup D]
      /\ q \in Seq(D) /\ i \in D
  BY DEF Taken, Sound, Shape
<1>2. /\ DOMAIN r = Fields
      /\ r.current = [s.current EXCEPT ![s.procs[i].job] = 0]
      /\ r.watch_pids = s.watch_pids /\ r.knotes = s.knotes /\ r.child_status = s.child_status
      /\ r.process_callbacks = s.process_callbacks
      /\ r.procs \in Seq(Process) /\ DOMAIN r.procs = D
  BY DEF Reaped
<1>3. /\ \A k \in D \ {i} : r.procs[k] = s.procs[k]
      /\ r.procs[i].job = s.procs[i].job /\ r.procs[i].pid = s.procs[i].pid
      /\ r.procs[i].grouped = s.procs[i].grouped /\ r.procs[i].reported
      /\ r.procs[i].state = IF Unreaped(s, i) THEN s.procs[i].state ELSE "gone"
  BY DEF Reaped
<1>4. /\ \A k \in D : r.procs[k].job = s.procs[k].job /\ r.procs[k].pid = s.procs[k].pid
      /\ \A k \in D : s.procs[k].job \in Jobs
      /\ \A k \in DOMAIN q : q[k] \in D
      /\ D = 1 .. Len(s.procs) /\ Len(s.procs) \in Nat
  BY <1>1, <1>3, Elements
<1>5. /\ \A p : Queued(r, q, p) <=> Queued(s, q, p)
      /\ \A p : InHand(r, h, p) <=> InHand(s, h, p)
  BY <1>1, <1>4 DEF Queued, InHand
<1>6. \A p, j : Entry(r, p, j) <=> Entry(s, p, j)
  BY <1>2 DEF Entry
<1>7. /\ \A k \in D : Present(r.procs, k) => Present(s.procs, k)
      /\ \A k \in D \ {i} : Present(r.procs, k) <=> Present(s.procs, k)
      /\ \A k \in D : Excused(s.procs, k) => Excused(r.procs, k)
  BY <1>3 DEF Present, Excused
<1>8. i \notin s.knotes /\ \A k \in DOMAIN q : q[k] # i
  <2>1. InHand(s, h, s.procs[i].pid)
    BY DEF InHand
  <2> QED  BY <2>1 DEF Taken, Sound, QueuedOK
<1>9. Shape(r, q, h)
  <2>1. r.current \in [Jobs -> {0} \cup D]
    BY <1>1, <1>2
  <2> QED  BY <2>1, <1>2 DEF Taken, Sound, Shape
<1>10. CurrentOK(r)
  <2>1. CurrentOK(s) /\ s.current[s.procs[i].job] = i
    BY <1>1 DEF Taken, Sound, CurrentOK
  <2>2. \A k \in D : ~r.procs[k].reported <=> r.current[r.procs[k].job] = k
    <3> TAKE k \in D
    <3>1. CASE k = i
      BY <3>1, <1>1, <1>2, <1>3, <1>4
    <3>2. CASE k # i
      <4>1. r.procs[k] = s.procs[k]
        BY <3>2, <1>3
      <4>2. CASE s.procs[k].job = s.procs[i].job
        BY <4>1, <4>2, <3>2, <2>1, <1>1, <1>2, <1>4 DEF CurrentOK
      <4>3. CASE s.procs[k].job # s.procs[i].job
        BY <4>1, <4>3, <2>1, <1>1, <1>2, <1>4 DEF CurrentOK
      <4> QED  BY <4>2, <4>3
    <3> QED  BY <3>1, <3>2
  <2>3. \A j \in Jobs : r.current[j] # 0 => r.procs[r.current[j]].job = j
    <3> SUFFICES ASSUME NEW j \in Jobs, r.current[j] # 0
                 PROVE  r.procs[r.current[j]].job = j
      OBVIOUS
    <3>1. j # s.procs[i].job /\ r.current[j] = s.current[j] /\ s.current[j] \in D
      BY <1>1, <1>2, <1>4
    <3> QED  BY <3>1, <2>1, <1>4 DEF CurrentOK
  <2> QED  BY <2>2, <2>3, <1>2 DEF CurrentOK
<1>11. PidsOK(r)
  BY <1>2, <1>4, <1>7 DEF Taken, Sound, PidsOK
<1>12. ReapedOK(r)
  <2> SUFFICES ASSUME NEW k \in D
               PROVE  /\ r.procs[k].reported => r.procs[k].state # "alive"
                      /\ r.procs[k].reported /\ r.procs[k].state = "zombie"
                           => backend = "kqueue" /\ Unreaped(r, k)
    BY <1>2 DEF ReapedOK
  <2>1. CASE k # i
    BY <2>1, <1>3 DEF Taken, Sound, ReapedOK, Unreaped, LeavesGroup
  <2>2. CASE k = i
    BY <2>2, <1>3 DEF Taken, Unreaped, LeavesGroup
  <2> QED  BY <2>1, <2>2
<1>13. BackendOK(r, q)
  BY <1>2 DEF Taken, Sound, BackendOK
<1>14. QueuedOK(r, q, h)
  <2> SUFFICES ASSUME NEW k \in DOMAIN q
               PROVE  /\ r.procs[q[k]].state = "gone" /\ ~r.procs[q[k]].reported
                      /\ Entry(r, r.procs[q[k]].pid, r.procs[q[k]].job)
                      /\ ~InHand(r, h, r.procs[q[k]].pid)
                      /\ \A l \in DOMAIN q : r.procs[q[l]].pid = r.procs[q[k]].pid => k = l
                      /\ \A n \in D : r.procs[n].pid = r.procs[q[k]].pid /\ n # q[k]
                            => Excused(r.procs, n)
    BY <1>2 DEF QueuedOK
  <2>1. /\ s.procs[q[k]].state = "gone" /\ ~s.procs[q[k]].reported
        /\ Entry(s, s.procs[q[k]].pid, s.procs[q[k]].job)
        /\ ~InHand(s, h, s.procs[q[k]].pid)
        /\ \A l \in DOMAIN q : s.procs[q[l]].pid = s.procs[q[k]].pid => k = l
        /\ \A n \in D : s.procs[n].pid = s.procs[q[k]].pid /\ n # q[k] => Excused(s.procs, n)
    BY DEF Taken, Sound, QueuedOK
  <2>2. q[k] \in D /\ r.procs[q[k]] = s.procs[q[k]]
    BY <1>3, <1>4, <1>8
  <2> QED  BY <2>1, <2>2, <1>4, <1>5, <1>6, <1>7
<1>15. WatchedOK(r, q, h)
  <2> SUFFICES ASSUME NEW p \in s.watch_pids
               PROVE  /\ p \in DOMAIN s.process_callbacks
                      /\ \E k \in D :
                           /\ r.procs[k].pid = p /\ Present(r.procs, k) /\ ~r.procs[k].reported
                           /\ Entry(r, p, r.procs[k].job) \/ InHand(r, h, p) \/ Queued(r, q, p)
    BY <1>2 DEF WatchedOK
  <2>1. PICK k \in D :
           /\ s.procs[k].pid = p /\ Present(s.procs, k) /\ ~s.procs[k].reported
           /\ Entry(s, p, s.procs[k].job) \/ InHand(s, h, p) \/ Queued(s, q, p)
    BY DEF Taken, Sound, WatchedOK
  <2>2. k # i
    BY <2>1 DEF Taken, Sound, BackendOK, Present
  <2>3. r.procs[k] = s.procs[k] /\ p \in DOMAIN s.process_callbacks
    BY <2>2, <1>3 DEF Taken, Sound, WatchedOK
  <2> QED  BY <2>1, <2>2, <2>3, <1>5, <1>6, <1>7
<1>16. KnotesOK(r, h)
  <2>1. s.knotes \subseteq D
    BY DEF Taken, Sound, Shape
  <2> QED  BY <2>1, <1>2, <1>3, <1>5, <1>6, <1>7, <1>8 DEF Taken, Sound, KnotesOK
<1>17. StatusOK(r, h)
  BY <1>2 DEF Taken, StatusOK
<1>18. EntriesOK(r, q, h)
  <2>1. \A p : Held(r, q, p) <=> Held(s, q, p)
    <3>1. s.knotes \subseteq D
      BY DEF Taken, Sound, Shape
    <3> QED  BY <3>1, <1>2, <1>4, <1>5 DEF Held
  <2> QED  BY <2>1, <1>1, <1>2, <1>4, <1>5 DEF Taken, Sound, EntriesOK
<1>19. KnownOK(r, q, h)
  <2> SUFFICES ASSUME NEW k \in D, k # i, ~Excused(r.procs, k)
               PROVE  KnownTo(r, q, k) /\ ~InHand(r, h, r.procs[k].pid)
    BY <1>2 DEF KnownOK
  <2>1. KnownTo(s, q, k) /\ ~InHand(s, h, s.procs[k].pid)
    BY <1>7 DEF Taken, Sound, KnownOK
  <2> QED  BY <2>1, <1>2, <1>3, <1>5, <1>6 DEF KnownTo
<1> QED
  BY <1>9, <1>10, <1>11, <1>12, <1>13, <1>14, <1>15, <1>16, <1>17, <1>18, <1>19 DEF Sound

\* deleteProcess() ends the dispatch: whoever else has the pid is excused.
LEMMA DeleteSound ==
    ASSUME NEW s, NEW q, NEW i, Sound(s, q, {i}), Excused(s.procs, i)
    PROVE  Sound(DeleteProcess(s, s.procs[i].pid), q, {})
<1> DEFINE D == DOMAIN s.procs
           h == {i}
           pid == s.procs[i].pid
           d == DeleteProcess(s, pid)
<1>1. /\ DOMAIN s = Fields /\ s.knotes \subseteq D /\ s.watch_pids \subseteq Pids
      /\ IsTable(s.process_callbacks, Jobs) /\ q \in Seq(D) /\ i \in D
  BY DEF Sound, Shape
<1>2. /\ DOMAIN d = Fields
      /\ d.procs = s.procs /\ d.current = s.current /\ d.child_status = s.child_status
      /\ d.process_callbacks = Remove(s.process_callbacks, pid)
      /\ d.watch_pids = s.watch_pids \ {pid}
      /\ d.knotes = IF pid \in DOMAIN s.child_status THEN s.knotes
                    ELSE {k \in s.knotes : s.procs[k].pid # pid}
  BY <1>1 DEF DeleteProcess, Fields
<1> HIDE DEF d
<1>3. /\ DOMAIN d.process_callbacks = DOMAIN s.process_callbacks \ {pid}
      /\ \A p \in DOMAIN d.process_callbacks : d.process_callbacks[p] = s.process_callbacks[p]
  BY <1>2 DEF Remove
<1>4. d.knotes = {k \in s.knotes : s.procs[k].pid # pid}
  BY <1>2 DEF Sound, StatusOK
<1>5. /\ \A p : InHand(s, h, p) <=> p = pid
      /\ \A p : ~InHand(d, {}, p)
      /\ \A p : Queued(d, q, p) <=> Queued(s, q, p)
  BY <1>2 DEF InHand, Queued
<1>6. \A p, j : p # pid => (Entry(d, p, j) <=> Entry(s, p, j))
  BY <1>3 DEF Entry
<1>7. \A k \in DOMAIN q : q[k] \in D /\ s.procs[q[k]].pid # pid
  <2>1. \A k \in DOMAIN q : q[k] \in D
    BY <1>1
  <2> QED  BY <2>1, <1>5 DEF Sound, QueuedOK
<1>8. Shape(d, q, {})
  <2>1. IsTable(d.process_callbacks, Jobs)
    BY <1>1, <1>2, RemoveTable
  <2>2. d.watch_pids \subseteq Pids /\ d.knotes \subseteq D
    BY <1>1, <1>2, <1>4
  <2> QED  BY <2>1, <2>2, <1>2 DEF Sound, Shape
<1>9. CurrentOK(d) /\ PidsOK(d) /\ ReapedOK(d)
  BY <1>2 DEF Sound, CurrentOK, PidsOK, ReapedOK, Unreaped, LeavesGroup
<1>10. BackendOK(d, q)
  BY <1>2, <1>4 DEF Sound, BackendOK
<1>11. QueuedOK(d, q, {})
  <2> SUFFICES ASSUME NEW k \in DOMAIN q
               PROVE  /\ s.procs[q[k]].state = "gone" /\ ~s.procs[q[k]].reported
                      /\ Entry(d, s.procs[q[k]].pid, s.procs[q[k]].job)
                      /\ ~InHand(d, {}, s.procs[q[k]].pid)
                      /\ \A l \in DOMAIN q : s.procs[q[l]].pid = s.procs[q[k]].pid => k = l
                      /\ \A n \in D : s.procs[n].pid = s.procs[q[k]].pid /\ n # q[k]
                            => Excused(s.procs, n)
    BY <1>2 DEF QueuedOK
  <2>1. /\ s.procs[q[k]].state = "gone" /\ ~s.procs[q[k]].reported
        /\ Entry(s, s.procs[q[k]].pid, s.procs[q[k]].job)
        /\ \A l \in DOMAIN q : s.procs[q[l]].pid = s.procs[q[k]].pid => k = l
        /\ \A n \in D : s.procs[n].pid = s.procs[q[k]].pid /\ n # q[k] => Excused(s.procs, n)
    BY DEF Sound, QueuedOK
  <2> QED  BY <2>1, <1>5, <1>6, <1>7
<1>12. WatchedOK(d, q, {})
  <2> SUFFICES ASSUME NEW p \in s.watch_pids, p # pid
               PROVE  /\ p \in DOMAIN d.process_callbacks
                      /\ \E k \in D :
                           /\ s.procs[k].pid = p /\ Present(s.procs, k) /\ ~s.procs[k].reported
                           /\ Entry(d, p, s.procs[k].job) \/ Queued(d, q, p)
    BY <1>2 DEF WatchedOK
  <2>1. /\ p \in DOMAIN s.process_callbacks
        /\ \E k \in D :
             /\ s.procs[k].pid = p /\ Present(s.procs, k) /\ ~s.procs[k].reported
             /\ Entry(s, p, s.procs[k].job) \/ InHand(s, h, p) \/ Queued(s, q, p)
    BY DEF Sound, WatchedOK
  <2> QED  BY <2>1, <1>3, <1>5, <1>6
<1>13. KnotesOK(d, {})
  <2> SUFFICES ASSUME NEW k \in s.knotes, s.procs[k].pid # pid
               PROVE  /\ Present(s.procs, k) /\ ~s.procs[k].reported
                      /\ Entry(d, s.procs[k].pid, s.procs[k].job)
    BY <1>2, <1>4 DEF KnotesOK
  <2> QED  BY <1>5, <1>6 DEF Sound, KnotesOK
<1>14. StatusOK(d, {})
  <2> SUFFICES ASSUME NEW p \in DOMAIN s.child_status
               PROVE  /\ DOMAIN s.child_status = {p}
                      /\ \A n \in d.knotes : s.procs[n].pid # p
                      /\ \E k \in D :
                           /\ StatusOf(d, p, k)
                           /\ IF p \in DOMAIN d.process_callbacks
                              THEN d.process_callbacks[p] = s.procs[k].job
                              ELSE s.procs[k].reused
                           /\ \A n \in D : s.procs[n].pid = p /\ n # k => Excused(s.procs, n)
    BY <1>2, <1>5 DEF StatusOK
  <2>1. /\ DOMAIN s.child_status = {p}
        /\ \A n \in s.knotes : s.procs[n].pid # p
    BY DEF Sound, StatusOK
  <2>2. PICK k \in D :
           /\ StatusOf(s, p, k)
           /\ IF p \in DOMAIN s.process_callbacks /\ ~InHand(s, h, p)
              THEN s.process_callbacks[p] = s.procs[k].job
              ELSE s.procs[k].reused
           /\ \A n \in D : s.procs[n].pid = p /\ n # k => Excused(s.procs, n)
    BY DEF Sound, StatusOK
  <2>3. StatusOf(d, p, k)
    BY <2>2, <1>2 DEF StatusOf
  <2> QED  BY <2>1, <2>2, <2>3, <1>3, <1>4, <1>5
<1>15. EntriesOK(d, q, {})
  <2>1. \A p : p # pid /\ Held(s, q, p) => Held(d, q, p)
    BY <1>2, <1>4, <1>5 DEF Held
  <2> QED  BY <2>1, <1>3, <1>5 DEF Sound, EntriesOK
<1>16. KnownOK(d, q, {})
  <2> SUFFICES ASSUME NEW k \in D, ~Excused(s.procs, k)
               PROVE  KnownTo(d, q, k)
    BY <1>2, <1>5 DEF KnownOK
  <2>1. KnownTo(s, q, k) /\ s.procs[k].pid # pid
    BY <1>5 DEF Sound, KnownOK
  <2> QED  BY <2>1, <1>2, <1>4, <1>6 DEF KnownTo
<1>17. Sound(d, q, {})
  BY <1>8, <1>9, <1>10, <1>11, <1>12, <1>13, <1>14, <1>15, <1>16 DEF Sound
<1> QED  BY <1>17 DEF d

\* Head(q) is taken from the queue.
LEMMA TakeQueued ==
    ASSUME NEW s, NEW q, Sound(s, q, {}), q # <<>>, backend \in {"epoll", "kqueue"}
    PROVE  Taken(s, Tail(q), Head(q))
<1> DEFINE D == DOMAIN s.procs
           i == Head(q)
           u == Tail(q)
           h == {i}
<1>1. q \in Seq(D) /\ s.procs \in Seq(Process)
  BY DEF Sound, Shape
<1>2. /\ u \in Seq(D) /\ i \in D /\ 1 \in DOMAIN q /\ q[1] = i
      /\ \A k \in DOMAIN u : k + 1 \in DOMAIN q /\ u[k] = q[k + 1] /\ k + 1 # 1
      /\ \A k \in DOMAIN q : k = 1 \/ (k - 1 \in DOMAIN u /\ q[k] = u[k - 1])
      /\ \A k, l \in DOMAIN u : k + 1 = l + 1 => k = l
  <2>1. Len(q) \in Nat /\ Len(q) # 0 /\ DOMAIN q = 1 .. Len(q) /\ i = q[1]
    BY <1>1
  <2>2. u \in Seq(D) /\ DOMAIN u = 1 .. Len(q) - 1 /\ \A k \in 1 .. Len(q) - 1 : u[k] = q[k + 1]
    BY <1>1
  <2> HIDE DEF i, u
  <2>3. i \in D
    BY <2>1, <1>1
  <2> QED  BY <2>1, <2>2, <2>3
<1> HIDE DEF i, u
<1>3. backend = "epoll" /\ s.knotes = {} /\ DOMAIN s.child_status = {}
  <2>1. BackendOK(s, q)
    BY DEF Sound
  <2> QED  BY <2>1 DEF BackendOK
<1>4. /\ s.procs[i].state = "gone" /\ ~s.procs[i].reported
      /\ Entry(s, s.procs[i].pid, s.procs[i].job)
      /\ \A l \in DOMAIN q : s.procs[q[l]].pid = s.procs[i].pid => l = 1
      /\ \A n \in D : s.procs[n].pid = s.procs[i].pid /\ n # i => Excused(s.procs, n)
  BY <1>2 DEF Sound, QueuedOK
<1>5. /\ \A p : InHand(s, h, p) <=> p = s.procs[i].pid
      /\ \A p : ~InHand(s, {}, p)
  BY DEF InHand
<1>6. \A p : Queued(s, q, p) => Queued(s, u, p) \/ InHand(s, h, p)
  <2> SUFFICES ASSUME NEW k \in DOMAIN q
               PROVE  Queued(s, u, s.procs[q[k]].pid) \/ InHand(s, h, s.procs[q[k]].pid)
    BY DEF Queued
  <2>1. CASE k = 1
    BY <2>1, <1>2, <1>5
  <2>2. CASE k # 1
    BY <2>2, <1>2 DEF Queued
  <2> QED  BY <2>1, <2>2
<1>7. Shape(s, u, h)
  BY <1>2 DEF Sound, Shape
<1>8. BackendOK(s, u) /\ StatusOK(s, h) /\ KnotesOK(s, h)
  BY <1>3 DEF BackendOK, StatusOK, KnotesOK
<1>9. QueuedOK(s, u, h)
  <2> SUFFICES ASSUME NEW k \in DOMAIN u
               PROVE  /\ s.procs[u[k]].state = "gone" /\ ~s.procs[u[k]].reported
                      /\ Entry(s, s.procs[u[k]].pid, s.procs[u[k]].job)
                      /\ ~InHand(s, h, s.procs[u[k]].pid)
                      /\ \A l \in DOMAIN u : s.procs[u[l]].pid = s.procs[u[k]].pid => k = l
                      /\ \A n \in D : s.procs[n].pid = s.procs[u[k]].pid /\ n # u[k]
                            => Excused(s.procs, n)
    BY DEF QueuedOK
  <2>1. k + 1 \in DOMAIN q /\ u[k] = q[k + 1] /\ k + 1 # 1
    BY <1>2
  <2>2. /\ s.procs[u[k]].state = "gone" /\ ~s.procs[u[k]].reported
        /\ Entry(s, s.procs[u[k]].pid, s.procs[u[k]].job)
        /\ \A l \in DOMAIN q : s.procs[q[l]].pid = s.procs[u[k]].pid => k + 1 = l
        /\ \A n \in D : s.procs[n].pid = s.procs[u[k]].pid /\ n # u[k] => Excused(s.procs, n)
    BY <2>1 DEF Sound, QueuedOK
  <2>3. ~InHand(s, h, s.procs[u[k]].pid)
    BY <2>1, <1>4, <1>5
  <2>4. \A l \in DOMAIN u : s.procs[u[l]].pid = s.procs[u[k]].pid => k = l
    BY <2>2, <1>2
  <2> QED  BY <2>2, <2>3, <2>4
<1>10. WatchedOK(s, u, h)
  BY <1>5, <1>6 DEF Sound, WatchedOK
<1>11. EntriesOK(s, u, h)
  BY <1>4, <1>5, <1>6 DEF Sound, EntriesOK, Held, Entry
<1>12. KnownOK(s, u, h)
  <2> SUFFICES ASSUME NEW k \in D, k # i, ~Excused(s.procs, k)
               PROVE  KnownTo(s, u, k) /\ s.procs[k].pid # s.procs[i].pid
    BY <1>5 DEF KnownOK
  <2>1. KnownTo(s, q, k)
    BY DEF Sound, KnownOK
  <2> QED  BY <2>1, <1>2, <1>4 DEF KnownTo
<1>13. Sound(s, u, h)
  BY <1>7, <1>8, <1>9, <1>10, <1>11, <1>12 DEF Sound
<1>14. Taken(s, u, i)
  BY <1>3, <1>4, <1>13 DEF Taken
<1> QED  BY <1>14 DEF u, i

\* kevent(2) hands out the exit of process i.
LEMMA TakeKnote ==
    ASSUME NEW s, NEW q, Sound(s, q, {}), NEW i \in s.knotes, s.procs[i].state = "zombie",
           DOMAIN s.child_status = {}, backend \in {"epoll", "kqueue"}
    PROVE  Taken([s EXCEPT !.knotes = @ \ {i}], q, i)
<1> DEFINE D == DOMAIN s.procs
           t == [s EXCEPT !.knotes = @ \ {i}]
           h == {i}
<1>1. DOMAIN s = Fields /\ s.knotes \subseteq D /\ i \in D
  BY DEF Sound, Shape
<1>2. /\ DOMAIN t = Fields /\ t.procs = s.procs /\ t.current = s.current
      /\ t.watch_pids = s.watch_pids /\ t.knotes = s.knotes \ {i}
      /\ t.child_status = s.child_status /\ t.process_callbacks = s.process_callbacks
  BY <1>1 DEF Fields
<1> HIDE DEF t
<1>3. backend = "kqueue" /\ s.watch_pids = {} /\ q = <<>>
  BY DEF Sound, BackendOK
<1>4. /\ Present(s.procs, i) /\ ~s.procs[i].reported
      /\ Entry(s, s.procs[i].pid, s.procs[i].job)
      /\ \A k \in s.knotes : /\ Present(s.procs, k) /\ ~s.procs[k].reported
                             /\ Entry(s, s.procs[k].pid, s.procs[k].job)
  BY DEF Sound, KnotesOK, InHand
<1>5. \A p : InHand(t, h, p) <=> p = s.procs[i].pid
  BY <1>2 DEF InHand
<1>6. \A p, j : Entry(t, p, j) <=> Entry(s, p, j)
  BY <1>2 DEF Entry
<1>7. Shape(t, q, h)
  BY <1>1, <1>2 DEF Sound, Shape
<1>8. CurrentOK(t) /\ PidsOK(t) /\ ReapedOK(t) /\ BackendOK(t, q)
  BY <1>2, <1>3 DEF Sound, CurrentOK, PidsOK, ReapedOK, Unreaped, LeavesGroup, BackendOK
<1>9. QueuedOK(t, q, h) /\ WatchedOK(t, q, h)
  <2>1. DOMAIN q = {}
    BY <1>3
  <2> QED  BY <2>1, <1>2, <1>3 DEF QueuedOK, WatchedOK
<1>10. KnotesOK(t, h)
  BY <1>2, <1>4, <1>6 DEF KnotesOK
<1>11. StatusOK(t, h)
  BY <1>2 DEF StatusOK
<1>12. EntriesOK(t, q, h)
  <2>1. \A p \in DOMAIN s.process_callbacks : Held(s, q, p)
    BY DEF Sound, EntriesOK, InHand
  <2>2. \A p : Held(s, q, p) => Held(t, q, p) \/ p = s.procs[i].pid
    BY <1>2 DEF Held, Queued
  <2>3. s.procs[i].pid \in DOMAIN s.process_callbacks
    BY <1>4 DEF Entry
  <2> QED  BY <2>1, <2>2, <2>3, <1>2, <1>5 DEF EntriesOK
<1>13. KnownOK(t, q, h)
  <2> SUFFICES ASSUME NEW k \in D, k # i, ~Excused(s.procs, k)
               PROVE  KnownTo(t, q, k) /\ s.procs[k].pid # s.procs[i].pid
    BY <1>2, <1>5 DEF KnownOK
  <2>1. KnownTo(s, q, k)
    BY DEF Sound, KnownOK
  <2>2. k \in s.knotes
    BY <2>1, <1>3 DEF KnownTo
  <2>3. s.procs[k].pid # s.procs[i].pid
    BY <2>2, <1>1, <1>4 DEF Sound, PidsOK
  <2> QED  BY <2>1, <2>2, <2>3, <1>2, <1>6 DEF KnownTo
<1>14. Sound(t, q, h)
  BY <1>7, <1>8, <1>9, <1>10, <1>11, <1>12, <1>13 DEF Sound
<1>15. Taken(t, q, i)
  BY <1>2, <1>3, <1>4, <1>6, <1>14 DEF Taken
<1> QED  BY <1>15 DEF t

\* getPendingEvent() takes the status of pid p, which is about process i.
LEMMA TakeStatus ==
    ASSUME NEW s, NEW q, Sound(s, q, {}), NEW p \in DOMAIN s.child_status,
           p \in DOMAIN s.process_callbacks, backend \in {"epoll", "kqueue"}
    PROVE  LET t == [s EXCEPT !.child_status = Remove(@, p)]
           IN \E i \in DOMAIN s.procs :
                 /\ s.procs[i].pid = p
                 /\ s.child_status[p] # -1 => s.child_status[p] = i /\ Taken(t, q, i)
                 /\ s.child_status[p] = -1 => Sound(t, q, {i}) /\ Excused(s.procs, i)
<1> DEFINE D == DOMAIN s.procs
           t == [s EXCEPT !.child_status = Remove(@, p)]
<1>1. /\ DOMAIN s = Fields /\ s.knotes \subseteq D
      /\ IsTable(s.child_status, D \cup {-1})
  BY DEF Sound, Shape
<1>2. /\ DOMAIN t = Fields /\ t.procs = s.procs /\ t.current = s.current
      /\ t.watch_pids = s.watch_pids /\ t.knotes = s.knotes
      /\ t.child_status = Remove(s.child_status, p)
      /\ t.process_callbacks = s.process_callbacks
  BY <1>1 DEF Fields
<1> HIDE DEF t
<1>3. backend = "kqueue" /\ s.watch_pids = {} /\ q = <<>>
  BY DEF Sound, BackendOK
<1>4. DOMAIN s.child_status = {p} /\ \A n \in s.knotes : s.procs[n].pid # p
  BY DEF Sound, StatusOK
<1>5. PICK i \in D : /\ StatusOf(s, p, i)
                     /\ s.process_callbacks[p] = s.procs[i].job
                     /\ \A n \in D : s.procs[n].pid = p /\ n # i => Excused(s.procs, n)
  BY DEF Sound, StatusOK, InHand
<1> DEFINE h == {i}
<1>6. DOMAIN t.child_status = {}
  BY <1>2, <1>4 DEF Remove
<1>7. s.procs[i].pid = p /\ ~s.procs[i].reported /\ Entry(s, p, s.procs[i].job)
  BY <1>5 DEF StatusOf, Entry
<1>8. \A r : InHand(t, h, r) <=> r = p
  BY <1>2, <1>7 DEF InHand
<1>9. \A r, j : Entry(t, r, j) <=> Entry(s, r, j)
  BY <1>2 DEF Entry
<1>10. Shape(t, q, h)
  <2>1. IsTable(t.child_status, D \cup {-1})
    BY <1>1, <1>2, RemoveTable
  <2> QED  BY <2>1, <1>2 DEF Sound, Shape
<1>11. CurrentOK(t) /\ PidsOK(t) /\ ReapedOK(t) /\ BackendOK(t, q)
  BY <1>2, <1>3 DEF Sound, CurrentOK, PidsOK, ReapedOK, Unreaped, LeavesGroup, BackendOK
<1>12. QueuedOK(t, q, h) /\ WatchedOK(t, q, h)
  <2>1. DOMAIN q = {}
    BY <1>3
  <2> QED  BY <2>1, <1>2, <1>3 DEF QueuedOK, WatchedOK
<1>13. KnotesOK(t, h)
  <2>1. \A k \in s.knotes : /\ Present(s.procs, k) /\ ~s.procs[k].reported
                            /\ Entry(s, s.procs[k].pid, s.procs[k].job)
    BY DEF Sound, KnotesOK, InHand
  <2> QED  BY <2>1, <1>2, <1>9 DEF KnotesOK
<1>14. StatusOK(t, h)
  BY <1>6 DEF StatusOK
<1>15. EntriesOK(t, q, h)
  <2>1. \A r \in DOMAIN s.process_callbacks : Held(s, q, r)
    BY DEF Sound, EntriesOK, InHand
  <2>2. \A r : Held(s, q, r) => Held(t, q, r) \/ r = p
    BY <1>2, <1>4 DEF Held, Queued
  <2> QED  BY <2>1, <2>2, <1>2, <1>7, <1>8 DEF EntriesOK
<1>16. KnownOK(t, q, h)
  <2> SUFFICES ASSUME NEW k \in D, k # i, ~Excused(s.procs, k)
               PROVE  KnownTo(t, q, k) /\ s.procs[k].pid # p
    BY <1>2, <1>8 DEF KnownOK
  <2>1. KnownTo(s, q, k) /\ s.procs[k].pid # p
    BY <1>5 DEF Sound, KnownOK
  <2> QED  BY <2>1, <1>2, <1>4, <1>9 DEF KnownTo
<1>17. Sound(t, q, h)
  BY <1>10, <1>11, <1>12, <1>13, <1>14, <1>15, <1>16 DEF Sound
<1>18. s.child_status[p] # -1 => s.child_status[p] = i /\ Taken(t, q, i)
  <2> SUFFICES ASSUME s.child_status[p] # -1
               PROVE  s.child_status[p] = i /\ Taken(t, q, i)
    OBVIOUS
  <2>1. s.child_status[p] = i /\ s.procs[i].state = "gone"
    BY <1>5 DEF StatusOf
  <2>2. i \notin s.knotes
    BY <1>4, <1>7
  <2> QED  BY <2>1, <2>2, <1>2, <1>3, <1>6, <1>7, <1>9, <1>17 DEF Taken
<1>19. s.child_status[p] = -1 => Excused(s.procs, i)
  <2>1. i # -1
    <3>1. D = 1 .. Len(s.procs) /\ Len(s.procs) \in Nat
      BY DEF Sound, Shape
    <3> QED  BY <3>1
  <2> QED  BY <2>1, <1>5 DEF StatusOf, Excused
<1> QED  BY <1>7, <1>17, <1>18, <1>19 DEF t

\* What a dispatch for process i of job j, or a start of job j, may change.
Kept(s, t, i, j) ==
    /\ DOMAIN s.procs \subseteq DOMAIN t.procs
    /\ \A k \in DOMAIN s.procs \ {i} : t.procs[k] = s.procs[k]
    /\ backend = "epoll" => \A k \in DOMAIN t.procs :
                               t.procs[k].state = "zombie"
                                  => k \in DOMAIN s.procs /\ s.procs[k].state = "zombie"
    /\ \A l \in Jobs \ {j} : t.current[l] = s.current[l]

\* A start leaves all processes, and the current ones of other jobs, alone.
LEMMA StartKept ==
    ASSUME NEW s, NEW t, NEW j \in Jobs, NEW pid, Started(s, t, j, pid), s.procs \in Seq(Process),
           DOMAIN s.current = Jobs
    PROVE  /\ Kept(s, t, 0, j) /\ t.current[j] = Len(s.procs) + 1
           /\ t.watch_pids \subseteq s.watch_pids \cup {pid}
<1> DEFINE n == Len(s.procs) + 1
           D == DOMAIN s.procs
<1>1. /\ DOMAIN t.procs = D \cup {n} /\ \A k \in D : t.procs[k] = s.procs[k]
      /\ t.current = [s.current EXCEPT ![j] = n]
      /\ t.watch_pids \subseteq s.watch_pids \cup {pid}
  BY DEF Started, Extended
<1>2. backend = "epoll" => t.procs[n].state = "alive"
  BY DEF Started, Extended, NewProcess
<1> HIDE DEF n
<1>3. backend = "epoll" => \A k \in DOMAIN t.procs : t.procs[k].state = "zombie"
                              => k \in D /\ s.procs[k].state = "zombie"
  BY <1>1, <1>2
<1>4. (\A l \in Jobs \ {j} : t.current[l] = s.current[l]) /\ t.current[j] = n
  BY <1>1
<1> QED  BY <1>1, <1>3, <1>4 DEF Kept, n

\* The whole dispatch: the callback, a start, deleteProcess().
LEMMA DispatchedSound ==
    ASSUME NEW s, NEW q, NEW i, Taken(s, q, i), s.procs = procs,
           s.process_callbacks = process_callbacks, NEW t \in Dispatched(s, i)
    PROVE  /\ Sound(t, q, {}) /\ Kept(s, t, i, s.procs[i].job)
           /\ s.current[s.procs[i].job] = i /\ t.current[s.procs[i].job] # i
<1> DEFINE pid == s.procs[i].pid
           job == s.procs[i].job
           r == ReapChild(s, job, i)
           D == DOMAIN s.procs
<1>1. /\ Sound(s, q, {i}) /\ Shape(s, q, {i}) /\ i \in D /\ s.procs \in Seq(Process)
      /\ s.current \in [Jobs -> {0} \cup D]
  BY DEF Taken, Sound, Shape
<1>2. job \in Jobs /\ i # 0 /\ i # Len(s.procs) + 1
  <2>1. D = 1 .. Len(s.procs) /\ Len(s.procs) \in Nat
    BY <1>1
  <2> QED  BY <2>1, <1>1, Elements
<1>3. procs[i].pid = pid /\ process_callbacks[pid] = job
  BY DEF Taken, Entry
<1>4. \/ t = DeleteProcess(r, pid)
      \/ /\ Startable(r, job)
         /\ \E p \in Pids \ InUse(r.procs), fate \in Fates :
              t = DeleteProcess(StartedWith(r, job, p, fate), pid)
  BY <1>3 DEF Dispatched
<1> HIDE DEF r
<1>5. Reaped(s, r, i)
  BY <1>1, ReapFacts DEF r
<1>6. /\ r.procs \in Seq(Process) /\ DOMAIN r.procs = D /\ Len(r.procs) = Len(s.procs)
      /\ r.procs[i].pid = pid /\ r.procs[i].reported
      /\ r.current = [s.current EXCEPT ![job] = 0] /\ r.child_status = s.child_status
      /\ r.procs[i].state = IF Unreaped(s, i) THEN s.procs[i].state ELSE "gone"
      /\ \A k \in D \ {i} : r.procs[k] = s.procs[k]
  BY <1>5 DEF Reaped
<1>7. Sound(r, q, {i}) /\ Shape(r, q, {i}) /\ Excused(r.procs, i)
  BY <1>5, <1>6, ReapSound DEF Sound, Excused
<1>8. Kept(s, r, i, job) /\ r.current[job] = 0 /\ DOMAIN r.current = Jobs
  BY <1>1, <1>2, <1>6 DEF Kept, Taken
<1>9. s.current[job] = i
  BY <1>1 DEF Taken, Sound, CurrentOK
<1>10. \A d : DOMAIN d = Fields =>
          /\ DeleteProcess(d, pid).procs = d.procs
          /\ DeleteProcess(d, pid).current = d.current
  BY DEF DeleteProcess, Fields
<1>11. CASE t = DeleteProcess(r, pid)
  <2>1. Sound(t, q, {})
    BY <1>11, <1>6, <1>7, DeleteSound
  <2>2. t.procs = r.procs /\ t.current = r.current
    BY <1>11, <1>10, <1>7 DEF Shape
  <2> QED  BY <2>1, <2>2, <1>2, <1>8, <1>9 DEF Kept
<1>12. ASSUME Startable(r, job), NEW p \in Pids \ InUse(r.procs), NEW fate \in Fates,
              t = DeleteProcess(StartedWith(r, job, p, fate), pid)
       PROVE  Sound(t, q, {}) /\ Kept(s, t, i, job) /\ t.current[job] # i
  <2> DEFINE u == StartedWith(r, job, p, fate)
  <2> HIDE DEF u
  <2>1. Started(r, u, job, p)
    BY <1>2, <1>7, StartedFacts DEF u, Taken
  <2>2. Sound(u, q, {i})
    BY <2>1, <1>2, <1>6, <1>7, <1>8, StartSound DEF Taken
  <2>3. /\ Kept(r, u, 0, job) /\ u.current[job] = Len(r.procs) + 1
    <3>1. job \in Jobs /\ r.procs \in Seq(Process) /\ DOMAIN r.current = Jobs
      BY <1>2, <1>6, <1>8
    <3> HIDE DEF job
    <3> QED  BY <3>1, <2>1, StartKept
  <2>4. u.procs[i] = r.procs[i]
    BY <2>3, <1>1, <1>2, <1>6 DEF Kept
  <2>5. Sound(t, q, {})
    <3>1. Excused(u.procs, i) /\ u.procs[i].pid = pid
      BY <2>4, <1>6 DEF Excused
    <3>2. t = DeleteProcess(u, u.procs[i].pid)
      BY <3>1, <1>12 DEF u
    <3> QED  BY <2>2, <3>1, <3>2, DeleteSound
  <2>6. t.procs = u.procs /\ t.current = u.current
    BY <2>2, <1>10, <1>12 DEF Sound, Shape, u
  <2>7. Kept(s, u, i, job)
    BY <2>3, <1>1, <1>2, <1>6, <1>8 DEF Kept
  <2>8. Kept(s, t, i, job) /\ t.current[job] # i
    BY <2>3, <2>6, <2>7, <1>2, <1>6 DEF Kept
  <2> QED  BY <2>5, <2>8
<1> QED  BY <1>4, <1>9, <1>11, <1>12

-----------------------------------------------------------------------------
(* The steps *)

\* What a step does to the processes that are there: it reports at most the
\* current process of a job, which then is not the current one any more.
RightStep ==
    \A i \in DOMAIN procs : procs'[i].reported # procs[i].reported
       => /\ ~procs[i].reported
          /\ current[procs[i].job] = i
          /\ current'[procs[i].job] # i

\* The record that a callback leaves is the next state.
LEMMA ReturnSound ==
    ASSUME NEW t, NEW q, Sound(t, q, {}), Return(t), pending_events' = q, UNCHANGED backend
    PROVE  /\ Sound(Loop, pending_events, {})'
           /\ Shape(Loop, pending_events, {})' /\ ReapedOK(Loop)'
<1>1. /\ procs' = t.procs /\ current' = t.current /\ watch_pids' = t.watch_pids
      /\ knotes' = t.knotes /\ child_status' = t.child_status
      /\ process_callbacks' = t.process_callbacks
  BY DEF Return
<1>2. Shape(Loop, pending_events, {})'
  BY <1>1 DEF Sound, Shape, Loop, Fields, IsTable, Process, States
<1>3. CurrentOK(Loop)' /\ PidsOK(Loop)'
  BY <1>1 DEF Sound, CurrentOK, PidsOK, Loop, Present
<1>4. ReapedOK(Loop)' /\ BackendOK(Loop, pending_events)'
  BY <1>1 DEF Sound, ReapedOK, Unreaped, LeavesGroup, BackendOK, Loop
<1>5. QueuedOK(Loop, pending_events, {})'
  BY <1>1 DEF Sound, QueuedOK, Loop, Entry, InHand, Excused
<1>6. WatchedOK(Loop, pending_events, {})'
  BY <1>1 DEF Sound, WatchedOK, Loop, Entry, InHand, Queued, Present
<1>7. KnotesOK(Loop, {})'
  BY <1>1 DEF Sound, KnotesOK, Loop, Entry, InHand, Present
<1>8. StatusOK(Loop, {})'
  BY <1>1 DEF Sound, StatusOK, Loop, StatusOf, InHand, Excused
<1>9. EntriesOK(Loop, pending_events, {})'
  BY <1>1 DEF Sound, EntriesOK, Loop, Held, InHand, Queued
<1>10. KnownOK(Loop, pending_events, {})'
  BY <1>1 DEF Sound, KnownOK, Loop, KnownTo, Entry, InHand, Excused
<1> QED  BY <1>2, <1>3, <1>4, <1>5, <1>6, <1>7, <1>8, <1>9, <1>10 DEF Sound

\* The record passed to the operators holds the variables.
LEMMA LoopFields ==
    /\ Loop.procs = procs /\ Loop.current = current /\ Loop.watch_pids = watch_pids
    /\ Loop.knotes = knotes /\ Loop.child_status = child_status
    /\ Loop.process_callbacks = process_callbacks
BY DEF Loop

\* The facts that every step needs of the processes.
LEMMA Basics ==
    ASSUME IInv
    PROVE  /\ procs \in Seq(Process) /\ current \in [Jobs -> {0} \cup DOMAIN procs]
           /\ DOMAIN procs = 1 .. Len(procs) /\ Len(procs) \in Nat
           /\ pending_events \in Seq(DOMAIN procs)
           /\ backend \in {"epoll", "kqueue"}
           /\ reaping \in BOOLEAN /\ sigchld \in BOOLEAN /\ terminated \in BOOLEAN
<1>1. /\ procs \in Seq(Process) /\ current \in [Jobs -> {0} \cup DOMAIN procs]
      /\ pending_events \in Seq(DOMAIN procs)
  BY LoopFields DEF IInv, ProcInv, TablesOK, Shape
<1>2. DOMAIN procs = 1 .. Len(procs) /\ Len(procs) \in Nat
  BY <1>1
<1> QED  BY <1>1, <1>2 DEF IInv, ProcInv, ReapingOK

\* The timers do not change and the current process only of a job that has
\* none armed.
LEMMA TimersStay ==
    ASSUME IInv, UNCHANGED <<backend, timerVars>>, NEW j,
           \A l \in Jobs \ {j} : current'[l] = current[l],
           current[j] # 0 \/ timer_id[j] = 0
    PROVE  TimerInv'
<1>1. TimersOK'
  BY DEF IInv, TimerInv, TimersOK, timerVars
<1>2. \A id \in armed : timer_callbacks[id] \in Jobs \ {j}
  <2> SUFFICES ASSUME NEW id \in armed
               PROVE  timer_callbacks[id] \in Jobs \ {j}
    OBVIOUS
  <2>1. /\ id \in DOMAIN timer_callbacks /\ timer_id[timer_callbacks[id]] = id
        /\ current[timer_callbacks[id]] = 0
    BY DEF IInv, TimerInv, TimersKnown
  <2>2. timer_callbacks[id] \in Jobs /\ id \in 1 .. timer_id_max /\ timer_id_max \in Nat
    BY <2>1 DEF IInv, TimerInv, TimersOK
  <2> QED  BY <2>1, <2>2
<1>3. TimersKnown'
  BY <1>2 DEF IInv, TimerInv, TimersKnown, timerVars
<1> QED  BY <1>1, <1>3 DEF TimerInv

\* A job is started, by a request or by its timer.
LEMMA StartStep ==
    ASSUME IInv, Polling, NEW j \in Jobs, Startable(Loop, j), NEW pid \in Pids \ InUse(procs),
           NEW fate \in Fates, Return(StartedWith(Loop, j, pid, fate)),
           UNCHANGED <<backend, sigchld, reaping, pending_events, terminated>>
    PROVE  /\ ProcInv' /\ RightStep
           /\ \A l \in Jobs \ {j} : current'[l] = current[l]
<1> DEFINE t == StartedWith(Loop, j, pid, fate)
<1> HIDE DEF t
<1>1. ~terminated /\ ~reaping /\ DOMAIN child_status = {}
  BY DEF Polling
<1>2. Sound(Loop, pending_events, {})
  BY <1>1 DEF IInv, ProcInv, TablesOK
<1>3. Started(Loop, t, j, pid)
  BY <1>2, Basics, StartedFacts DEF Sound, t
<1>4. Sound(t, pending_events, {})
  <2>1. Loop.current[j] = 0 /\ pid \notin InUse(Loop.procs) /\ DOMAIN Loop.child_status = {}
    BY <1>1, LoopFields DEF Startable
  <2> QED  BY <2>1, <1>2, <1>3, Basics, StartSound
<1>5. Kept(Loop, t, 0, j)
  <2>1. Loop.procs \in Seq(Process) /\ DOMAIN Loop.current = Jobs
    BY Basics, LoopFields
  <2> QED  BY <2>1, <1>3, StartKept
<1>6. Return(t)
  BY DEF t
<1>7. TablesOK'
  BY <1>4, <1>6, ReturnSound DEF TablesOK
<1>8. /\ procs' = t.procs /\ current' = t.current
      /\ DOMAIN procs \subseteq DOMAIN procs'
      /\ \A k \in DOMAIN procs : procs'[k] = procs[k]
      /\ \A l \in Jobs \ {j} : current'[l] = current[l]
  BY <1>5, <1>6, Basics, LoopFields DEF Return, Kept
<1>9. RightStep
  BY <1>8 DEF RightStep
<1>10. ReapingOK'
  BY <1>1 DEF IInv, ProcInv, ReapingOK
<1>11. LookupsSucceed'
  BY <1>1 DEF LookupsSucceed
<1>12. NoLostWakeup'
  <2>1. backend = "epoll" => \A k \in DOMAIN procs' : procs'[k].state = "zombie"
                                => k \in DOMAIN procs /\ procs[k].state = "zombie"
    BY <1>5, <1>8, LoopFields DEF Kept
  <2> QED  BY <2>1 DEF IInv, ProcInv, NoLostWakeup, NoZombie
<1> QED  BY <1>7, <1>8, <1>9, <1>10, <1>11, <1>12 DEF ProcInv

\* The exit of process i is dispatched, after it was taken from its table.
LEMMA DispatchStep ==
    ASSUME IInv, ~terminated, ~reaping, NEW s, NEW q, NEW i, Taken(s, q, i), s.procs = procs,
           s.process_callbacks = process_callbacks, s.current = current, Dispatch(s, i),
           pending_events' = q, UNCHANGED <<backend, sigchld, reaping, timerVars>>
    PROVE  IInv' /\ RightStep
<1>1. i \in DOMAIN procs /\ ~procs[i].reported /\ procs[i].pid \in DOMAIN process_callbacks
  BY DEF Taken, Sound, Shape, Entry
<1>2. (\E t \in Dispatched(s, i) : Return(t)) /\ terminated' = terminated
  BY <1>1 DEF Dispatch
<1>3. PICK t \in Dispatched(s, i) : Return(t)
  BY <1>2
<1>4. /\ Sound(t, q, {}) /\ Kept(s, t, i, procs[i].job)
      /\ current[procs[i].job] = i /\ t.current[procs[i].job] # i
  BY <1>3, DispatchedSound
<1>5. /\ procs' = t.procs /\ current' = t.current
      /\ \A k \in DOMAIN procs \ {i} : procs'[k] = procs[k]
      /\ \A l \in Jobs \ {procs[i].job} : current'[l] = current[l]
      /\ current'[procs[i].job] # i
  BY <1>3, <1>4 DEF Return, Kept
<1>6. TablesOK'
  BY <1>3, <1>4, ReturnSound DEF TablesOK
<1>7. RightStep
  BY <1>1, <1>4, <1>5 DEF RightStep
<1>8. ReapingOK'
  BY <1>2 DEF IInv, ProcInv, ReapingOK
<1>9. LookupsSucceed'
  BY <1>2 DEF LookupsSucceed
<1>10. NoLostWakeup'
  <2>1. backend = "epoll" => \A k \in DOMAIN procs' : procs'[k].state = "zombie"
                                => k \in DOMAIN procs /\ procs[k].state = "zombie"
    BY <1>4, <1>5 DEF Kept
  <2> QED  BY <2>1 DEF IInv, ProcInv, NoLostWakeup, NoZombie
<1>11. i # 0
  BY <1>1, Basics
<1>12. TimerInv'
  BY <1>4, <1>5, <1>11, TimersStay
<1> QED  BY <1>6, <1>7, <1>8, <1>9, <1>10, <1>12 DEF IInv, ProcInv

\* t is s with another state of process i.
Moved(s, t, i, v) ==
    /\ DOMAIN t = Fields /\ t.current = s.current /\ t.knotes = s.knotes
    /\ t.child_status = s.child_status /\ t.process_callbacks = s.process_callbacks
    /\ t.procs \in Seq(Process) /\ DOMAIN t.procs = DOMAIN s.procs
    /\ \A k \in DOMAIN s.procs \ {i} : t.procs[k] = s.procs[k]
    /\ t.procs[i].state = v
    /\ \A k \in DOMAIN s.procs :
          /\ t.procs[k].job = s.procs[k].job /\ t.procs[k].pid = s.procs[k].pid
          /\ t.procs[k].grouped = s.procs[k].grouped
          /\ t.procs[k].reported = s.procs[k].reported
          /\ t.procs[k].missed = s.procs[k].missed /\ t.procs[k].reused = s.procs[k].reused

SetState(ps, i, v) == [ps EXCEPT ![i].state = v]

\* A process that changes its state keeps the rest.
LEMMA MovedFacts ==
    ASSUME NEW ps \in Seq(Process), NEW i \in DOMAIN ps, NEW v \in States
    PROVE  LET us == SetState(ps, i, v)
           IN /\ us \in Seq(Process) /\ DOMAIN us = DOMAIN ps
              /\ \A k \in DOMAIN ps \ {i} : us[k] = ps[k]
              /\ us[i].state = v
              /\ \A k \in DOMAIN ps :
                    /\ us[k].job = ps[k].job /\ us[k].pid = ps[k].pid
                    /\ us[k].grouped = ps[k].grouped /\ us[k].reported = ps[k].reported
                    /\ us[k].missed = ps[k].missed /\ us[k].reused = ps[k].reused
<1> DEFINE u == [ps[i] EXCEPT !.state = v]
           us == [ps EXCEPT ![i] = u]
<1>1. ps[i] \in Process
  BY Elements
<1>2. /\ u \in Process /\ u.job = ps[i].job /\ u.pid = ps[i].pid /\ u.state = v
      /\ u.grouped = ps[i].grouped /\ u.reported = ps[i].reported
      /\ u.missed = ps[i].missed /\ u.reused = ps[i].reused
  BY <1>1, StateUpdate
<1> HIDE DEF u
<1>3. /\ us \in Seq(Process) /\ DOMAIN us = DOMAIN ps /\ us[i] = u
      /\ \A k \in DOMAIN ps \ {i} : us[k] = ps[k]
  BY <1>2, Replace
<1> HIDE DEF us
<1>4. us = SetState(ps, i, v)
  BY DEF us, u, SetState
<1> QED  BY <1>2, <1>3, <1>4

\* What does not depend on the state of a process.
LEMMA MovedSame ==
    ASSUME NEW s, NEW q, NEW t, NEW i \in DOMAIN s.procs, NEW v \in States, Sound(s, q, {}),
           Moved(s, t, i, v), t.watch_pids \subseteq s.watch_pids
    PROVE  /\ Shape(t, q, {}) /\ CurrentOK(t)
           /\ \A p, j : Entry(t, p, j) <=> Entry(s, p, j)
           /\ \A p : Queued(t, q, p) <=> Queued(s, q, p)
           /\ \A k \in DOMAIN s.procs : Excused(t.procs, k) <=> Excused(s.procs, k)
           /\ \A k \in DOMAIN q : q[k] \in DOMAIN s.procs
<1>1. q \in Seq(DOMAIN s.procs) /\ s.current \in [Jobs -> {0} \cup DOMAIN s.procs]
  BY DEF Sound, Shape
<1>2. \A k \in DOMAIN q : q[k] \in DOMAIN s.procs
  BY <1>1
<1>3. Shape(t, q, {})
  BY DEF Sound, Shape, Moved
<1>4. CurrentOK(t)
  <2>1. \A k \in DOMAIN t.procs : ~t.procs[k].reported <=> t.current[t.procs[k].job] = k
    BY DEF Sound, CurrentOK, Moved
  <2>2. \A j \in Jobs : t.current[j] # 0 => t.procs[t.current[j]].job = j
    BY <1>1 DEF Sound, CurrentOK, Moved
  <2> QED  BY <2>1, <2>2 DEF CurrentOK
<1>5. \A p, j : Entry(t, p, j) <=> Entry(s, p, j)
  BY DEF Entry, Moved
<1>6. \A p : Queued(t, q, p) <=> Queued(s, q, p)
  BY <1>2 DEF Queued, Moved
<1>7. \A k \in DOMAIN s.procs : Excused(t.procs, k) <=> Excused(s.procs, k)
  BY DEF Excused, Moved
<1> QED  BY <1>2, <1>3, <1>4, <1>5, <1>6, <1>7

\* A process exits, or a zombie that is not watched is reaped.
LEMMA MovedSound ==
    ASSUME NEW s, NEW q, NEW t, NEW i \in DOMAIN s.procs, NEW v, Sound(s, q, {}),
           Moved(s, t, i, v), t.watch_pids = s.watch_pids,
           \/ v = "zombie" /\ s.procs[i].state = "alive"
           \/ /\ v = "gone" /\ s.procs[i].state = "zombie" /\ backend = "epoll"
              /\ s.procs[i].pid \notin s.watch_pids
    PROVE  Sound(t, q, {})
<1> DEFINE D == DOMAIN s.procs
<1>1. v \in States
  BY DEF States
<1>2. /\ Shape(t, q, {}) /\ CurrentOK(t)
      /\ \A p, j : Entry(t, p, j) <=> Entry(s, p, j)
      /\ \A p : Queued(t, q, p) <=> Queued(s, q, p)
      /\ \A k \in D : Excused(t.procs, k) <=> Excused(s.procs, k)
      /\ \A k \in DOMAIN q : q[k] \in D
  BY <1>1, MovedSame
<1>3. /\ \A k \in D : Present(t.procs, k) => Present(s.procs, k)
      /\ \A k \in D : /\ Present(s.procs, k) /\ (s.procs[k].pid \in s.watch_pids \/ k \in s.knotes)
                      => Present(t.procs, k)
      /\ \A k \in D : s.procs[k].state = "gone" => t.procs[k] = s.procs[k]
  BY DEF Moved, Present, Sound, BackendOK
<1>4. \A p : ~InHand(s, {}, p) /\ ~InHand(t, {}, p)
  BY DEF InHand
<1>5. PidsOK(t)
  BY <1>3 DEF Sound, PidsOK, Moved
<1>6. ReapedOK(t)
  <2> SUFFICES ASSUME NEW k \in D
               PROVE  /\ t.procs[k].reported => t.procs[k].state # "alive"
                      /\ t.procs[k].reported /\ t.procs[k].state = "zombie"
                           => backend = "kqueue" /\ Unreaped(t, k)
    BY DEF ReapedOK, Moved
  <2>1. /\ s.procs[k].reported => s.procs[k].state # "alive"
        /\ s.procs[k].reported /\ s.procs[k].state = "zombie"
             => backend = "kqueue" /\ Unreaped(s, k)
    BY DEF Sound, ReapedOK
  <2>2. t.procs[k].reported = s.procs[k].reported /\ (Unreaped(t, k) <=> Unreaped(s, k))
    BY DEF Moved, Unreaped, LeavesGroup
  <2>3. CASE k # i
    BY <2>1, <2>2, <2>3 DEF Moved
  <2>4. CASE k = i
    BY <2>1, <2>2, <2>4 DEF Moved
  <2> QED  BY <2>3, <2>4
<1>7. BackendOK(t, q)
  BY DEF Sound, BackendOK, Moved
<1>8. QueuedOK(t, q, {})
  <2> SUFFICES ASSUME NEW k \in DOMAIN q
               PROVE  /\ t.procs[q[k]].state = "gone" /\ ~t.procs[q[k]].reported
                      /\ Entry(t, t.procs[q[k]].pid, t.procs[q[k]].job)
                      /\ \A l \in DOMAIN q : t.procs[q[l]].pid = t.procs[q[k]].pid => k = l
                      /\ \A n \in D : t.procs[n].pid = t.procs[q[k]].pid /\ n # q[k]
                            => Excused(t.procs, n)
    BY <1>4 DEF QueuedOK, Moved
  <2>1. /\ s.procs[q[k]].state = "gone" /\ ~s.procs[q[k]].reported
        /\ Entry(s, s.procs[q[k]].pid, s.procs[q[k]].job)
        /\ \A l \in DOMAIN q : s.procs[q[l]].pid = s.procs[q[k]].pid => k = l
        /\ \A n \in D : s.procs[n].pid = s.procs[q[k]].pid /\ n # q[k] => Excused(s.procs, n)
    BY DEF Sound, QueuedOK
  <2>2. \A n \in D : t.procs[n].pid = s.procs[n].pid
    BY DEF Moved
  <2> QED  BY <2>1, <2>2, <1>2, <1>3
<1>9. WatchedOK(t, q, {})
  <2> SUFFICES ASSUME NEW p \in s.watch_pids
               PROVE  /\ p \in DOMAIN s.process_callbacks
                      /\ \E k \in D :
                           /\ t.procs[k].pid = p /\ Present(t.procs, k) /\ ~t.procs[k].reported
                           /\ Entry(t, p, t.procs[k].job) \/ Queued(t, q, p)
    BY DEF WatchedOK, Moved
  <2>1. /\ p \in DOMAIN s.process_callbacks
        /\ \E k \in D :
             /\ s.procs[k].pid = p /\ Present(s.procs, k) /\ ~s.procs[k].reported
             /\ Entry(s, p, s.procs[k].job) \/ Queued(s, q, p)
    BY <1>4 DEF Sound, WatchedOK
  <2> QED  BY <2>1, <1>2, <1>3 DEF Moved
<1>10. KnotesOK(t, {})
  <2>1. s.knotes \subseteq D
    BY DEF Sound, Shape
  <2> QED  BY <2>1, <1>2, <1>3, <1>4 DEF Sound, KnotesOK, Moved
<1>11. StatusOK(t, {})
  <2> SUFFICES ASSUME NEW p \in DOMAIN s.child_status
               PROVE  /\ DOMAIN s.child_status = {p}
                      /\ \A n \in s.knotes : t.procs[n].pid # p
                      /\ \E k \in D :
                           /\ StatusOf(t, p, k)
                           /\ IF p \in DOMAIN s.process_callbacks
                              THEN s.process_callbacks[p] = t.procs[k].job
                              ELSE t.procs[k].reused
                           /\ \A n \in D : t.procs[n].pid = p /\ n # k => Excused(t.procs, n)
    BY <1>4 DEF StatusOK, Moved
  <2>1. /\ DOMAIN s.child_status = {p} /\ s.knotes \subseteq D
        /\ \A n \in s.knotes : s.procs[n].pid # p
    BY DEF Sound, StatusOK, Shape
  <2>2. PICK k \in D :
           /\ StatusOf(s, p, k)
           /\ IF p \in DOMAIN s.process_callbacks
              THEN s.process_callbacks[p] = s.procs[k].job
              ELSE s.procs[k].reused
           /\ \A n \in D : s.procs[n].pid = p /\ n # k => Excused(s.procs, n)
    BY <1>4 DEF Sound, StatusOK
  <2>3. backend # "epoll"
    BY DEF Sound, BackendOK
  <2>4. k # i
    BY <2>2, <2>3 DEF StatusOf
  <2>5. StatusOf(t, p, k)
    BY <2>2, <2>4 DEF StatusOf, Moved
  <2> QED  BY <2>1, <2>2, <2>5, <1>2 DEF Moved
<1>12. EntriesOK(t, q, {})
  <2>1. s.knotes \subseteq D
    BY DEF Sound, Shape
  <2>2. \A p : Held(s, q, p) => Held(t, q, p)
    BY <2>1, <1>2 DEF Held, Moved
  <2> QED  BY <2>2, <1>4 DEF Sound, EntriesOK, Moved
<1>13. KnownOK(t, q, {})
  <2> SUFFICES ASSUME NEW k \in D, ~Excused(s.procs, k)
               PROVE  KnownTo(t, q, k)
    BY <1>2, <1>4 DEF KnownOK, Moved
  <2>1. KnownTo(s, q, k)
    BY DEF Sound, KnownOK
  <2> QED  BY <2>1, <1>2 DEF KnownTo, Moved
<1> QED
  BY <1>2, <1>5, <1>6, <1>7, <1>8, <1>9, <1>10, <1>11, <1>12, <1>13 DEF Sound

\* getSignalEvents() reaps a zombie that is watched and queues its exit.
LEMMA QueueSound ==
    ASSUME NEW s, NEW q, NEW t, NEW i \in DOMAIN s.procs, Sound(s, q, {}),
           Moved(s, t, i, "gone"), s.procs[i].state = "zombie", backend = "epoll",
           s.procs[i].pid \in s.watch_pids, t.watch_pids = s.watch_pids \ {s.procs[i].pid},
           \A k \in DOMAIN q : s.procs[q[k]].pid \notin s.watch_pids
    PROVE  Sound(t, Append(q, i), {})
<1> DEFINE D == DOMAIN s.procs
           pid == s.procs[i].pid
           u == Append(q, i)
           e == Len(q) + 1
<1>1. /\ Shape(t, q, {}) /\ CurrentOK(t)
      /\ \A p, j : Entry(t, p, j) <=> Entry(s, p, j)
      /\ \A p : Queued(t, q, p) <=> Queued(s, q, p)
      /\ \A k \in D : Excused(t.procs, k) <=> Excused(s.procs, k)
      /\ \A k \in DOMAIN q : q[k] \in D
  BY MovedSame DEF States
<1>2. /\ s.knotes = {} /\ DOMAIN s.child_status = {} /\ q \in Seq(D) /\ DOMAIN t.procs = D
      /\ t.knotes = {} /\ DOMAIN t.child_status = {}
      /\ t.process_callbacks = s.process_callbacks
  BY DEF Sound, BackendOK, Shape, Moved
<1>3. /\ u \in Seq(D) /\ DOMAIN u = DOMAIN q \cup {e} /\ u[e] = i /\ e \notin DOMAIN q
      /\ \A k \in DOMAIN q : u[k] = q[k]
  BY <1>2
<1> HIDE DEF u, e
<1>4. /\ \A k \in D : /\ t.procs[k].job = s.procs[k].job /\ t.procs[k].pid = s.procs[k].pid
                      /\ t.procs[k].reported = s.procs[k].reported
      /\ \A k \in D \ {i} : t.procs[k] = s.procs[k]
      /\ t.procs[i].state = "gone"
  BY DEF Moved
<1>5. \A p : ~InHand(s, {}, p) /\ ~InHand(t, {}, p)
  BY DEF InHand
<1>6. ~s.procs[i].reported /\ Entry(s, pid, s.procs[i].job)
  <2>1. PICK m \in D : /\ s.procs[m].pid = pid /\ Present(s.procs, m) /\ ~s.procs[m].reported
                       /\ Entry(s, pid, s.procs[m].job) \/ Queued(s, q, pid)
    BY <1>5 DEF Sound, WatchedOK
  <2>2. m = i
    BY <2>1 DEF Sound, PidsOK, Present
  <2>3. ~Queued(s, q, pid)
    BY DEF Queued
  <2> QED  BY <2>1, <2>2, <2>3
\* Nobody else can be known by this pid: the job has one current process.
<1>7. \A n \in D : s.procs[n].pid = pid /\ n # i => Excused(s.procs, n)
  <2> SUFFICES ASSUME NEW n \in D, s.procs[n].pid = pid, ~Excused(s.procs, n)
               PROVE  n = i
    OBVIOUS
  <2>1. KnownTo(s, q, n) /\ ~s.procs[n].reported
    BY DEF Sound, KnownOK, Excused
  <2>2. s.procs[n].job = s.procs[i].job
    BY <2>1, <1>6 DEF KnownTo, Entry
  <2> QED  BY <2>1, <2>2, <1>6 DEF Sound, CurrentOK
<1>8. \A p : Queued(t, u, p) <=> Queued(s, q, p) \/ p = pid
  <2>1. \A k \in DOMAIN q : u[k] = q[k] /\ t.procs[u[k]].pid = s.procs[q[k]].pid
    BY <1>1, <1>3, <1>4
  <2>2. t.procs[u[e]].pid = pid
    BY <1>3, <1>4
  <2> QED  BY <2>1, <2>2, <1>3 DEF Queued
<1>9. Shape(t, u, {})
  BY <1>1, <1>2, <1>3 DEF Shape
<1>10. PidsOK(t)
  <2>1. \A k \in D : Present(t.procs, k) => Present(s.procs, k)
    BY <1>4 DEF Present
  <2> QED  BY <2>1, <1>2, <1>4 DEF Sound, PidsOK
<1>11. ReapedOK(t)
  BY <1>2, <1>4, <1>6 DEF Sound, ReapedOK
<1>12. BackendOK(t, u) /\ KnotesOK(t, {}) /\ StatusOK(t, {})
  BY <1>2 DEF BackendOK, KnotesOK, StatusOK
<1>13. QueuedOK(t, u, {})
  <2> SUFFICES ASSUME NEW k \in DOMAIN u
               PROVE  /\ t.procs[u[k]].state = "gone" /\ ~t.procs[u[k]].reported
                      /\ Entry(t, t.procs[u[k]].pid, t.procs[u[k]].job)
                      /\ \A l \in DOMAIN u : t.procs[u[l]].pid = t.procs[u[k]].pid => k = l
                      /\ \A n \in D : t.procs[n].pid = t.procs[u[k]].pid /\ n # u[k]
                            => Excused(t.procs, n)
    BY <1>2, <1>5 DEF QueuedOK
  <2>1. \A l \in DOMAIN q : u[l] \in D /\ s.procs[u[l]].pid # pid
    BY <1>1, <1>3
  <2>2. CASE k \in DOMAIN q
    <3>1. /\ s.procs[u[k]].state = "gone" /\ ~s.procs[u[k]].reported /\ u[k] \in D
          /\ Entry(s, s.procs[u[k]].pid, s.procs[u[k]].job)
          /\ \A l \in DOMAIN q : s.procs[q[l]].pid = s.procs[u[k]].pid => k = l
          /\ \A n \in D : s.procs[n].pid = s.procs[u[k]].pid /\ n # u[k] => Excused(s.procs, n)
      BY <2>1, <2>2, <1>3 DEF Sound, QueuedOK
    <3>2. u[k] # i
      BY <2>1, <2>2
    <3>3. \A l \in DOMAIN u : t.procs[u[l]].pid = t.procs[u[k]].pid => k = l
      BY <2>1, <2>2, <3>1, <1>3, <1>4
    <3> QED  BY <3>1, <3>2, <3>3, <1>1, <1>4
  <2>3. CASE k = e
    <3>1. \A l \in DOMAIN u : t.procs[u[l]].pid = t.procs[u[k]].pid => k = l
      BY <2>1, <2>3, <1>3, <1>4
    <3> QED  BY <2>3, <3>1, <1>1, <1>3, <1>4, <1>6, <1>7
  <2> QED  BY <2>2, <2>3, <1>3
<1>14. WatchedOK(t, u, {})
  <2> SUFFICES ASSUME NEW p \in s.watch_pids, p # pid
               PROVE  /\ p \in DOMAIN s.process_callbacks
                      /\ \E k \in D :
                           /\ t.procs[k].pid = p /\ Present(t.procs, k) /\ ~t.procs[k].reported
                           /\ Entry(t, p, t.procs[k].job) \/ Queued(t, u, p)
    BY <1>2 DEF WatchedOK
  <2>1. p \in DOMAIN s.process_callbacks
    BY DEF Sound, WatchedOK
  <2>2. PICK k \in D :
           /\ s.procs[k].pid = p /\ Present(s.procs, k) /\ ~s.procs[k].reported
           /\ Entry(s, p, s.procs[k].job) \/ Queued(s, q, p)
    BY <1>5 DEF Sound, WatchedOK
  <2>3. t.procs[k] = s.procs[k] /\ Present(t.procs, k)
    BY <2>2, <1>4 DEF Present
  <2> QED  BY <2>1, <2>2, <2>3, <1>1, <1>8
<1>15. EntriesOK(t, u, {})
  <2>1. \A p : Held(s, q, p) => Held(t, u, p)
    BY <1>2, <1>8 DEF Held
  <2> QED  BY <2>1, <1>2, <1>5 DEF Sound, EntriesOK
<1>16. KnownOK(t, u, {})
  <2> SUFFICES ASSUME NEW k \in D, ~Excused(s.procs, k)
               PROVE  KnownTo(t, u, k)
    BY <1>1, <1>2, <1>5 DEF KnownOK
  <2>1. KnownTo(s, q, k)
    BY DEF Sound, KnownOK
  <2>2. CASE k = i
    BY <2>2, <1>1, <1>3, <1>4, <1>6 DEF KnownTo
  <2>3. CASE k # i
    <3>1. s.procs[k].pid # pid
      BY <2>3, <1>7
    <3>2. s.procs[k].pid \in s.watch_pids \/ \E l \in DOMAIN q : q[l] = k
      BY <2>1, <1>2 DEF KnownTo
    <3> QED  BY <2>1, <3>1, <3>2, <1>1, <1>3, <1>4 DEF KnownTo
  <2> QED  BY <2>2, <2>3
<1>17. Sound(t, u, {})
  BY <1>1, <1>9, <1>10, <1>11, <1>12, <1>13, <1>14, <1>15, <1>16 DEF Sound
<1> QED  BY <1>17 DEF u

-----------------------------------------------------------------------------
(* One lemma per action *)

\* The tables do not change.
LEMMA TablesStay ==
    ASSUME IInv, UNCHANGED <<backend, procs, current, watch_pids, knotes, child_status,
                             pending_events, process_callbacks, terminated>>
    PROVE  /\ TablesOK' /\ LookupsSucceed' /\ RightStep
           /\ \A l \in Jobs : current'[l] = current[l]
<1>1. Return(Loop)
  BY DEF Return, Loop
<1>2. ~terminated => TablesOK'
  BY <1>1, ReturnSound DEF IInv, ProcInv, TablesOK
<1>3. Shape(Loop, pending_events, {})' /\ ReapedOK(Loop)'
  BY DEF IInv, ProcInv, TablesOK, Shape, ReapedOK, Loop, Fields, IsTable, Process, States
<1>4. TablesOK'
  BY <1>2, <1>3 DEF TablesOK
<1> QED  BY <1>4 DEF IInv, ProcInv, LookupsSucceed, RightStep

\* A job starts its process outside of a callback.
LEMMA StartOK ==
    ASSUME IInv, NEW j \in Jobs, Start(j)
    PROVE  IInv' /\ RightStep
<1>1. /\ Polling /\ Startable(Loop, j) /\ timer_id[j] = 0
      /\ UNCHANGED <<backend, sigchld, reaping, pending_events, terminated>>
      /\ UNCHANGED <<backend, timerVars>>
  BY DEF Start
<1>2. PICK pid \in Pids \ InUse(procs), fate \in Fates : Return(StartedWith(Loop, j, pid, fate))
  BY DEF Start
<1>3. ProcInv' /\ RightStep /\ \A l \in Jobs \ {j} : current'[l] = current[l]
  BY <1>1, <1>2, StartStep
<1>4. TimerInv'
  BY <1>1, <1>3, TimersStay
<1> QED  BY <1>3, <1>4 DEF IInv

\* getSignalEvents() reads the pending SIGCHLD.
LEMMA ReadSignalsOK ==
    ASSUME IInv, ReadSignals
    PROVE  IInv' /\ RightStep
<1>1. TablesOK' /\ LookupsSucceed' /\ RightStep /\ \A l \in Jobs : current'[l] = current[l]
  BY TablesStay DEF ReadSignals
<1>2. ReapingOK'
  <2>1. pending_events' = <<>> /\ DOMAIN pending_events' = {}
    BY DEF ReadSignals, Polling
  <2> QED  BY <2>1 DEF IInv, ProcInv, ReapingOK, ReadSignals, Polling
<1>3. NoLostWakeup'
  BY DEF NoLostWakeup, ReadSignals
<1>4. TimerInv'
  BY <1>1 DEF IInv, TimerInv, TimersOK, TimersKnown, ReadSignals, timerVars
<1> QED  BY <1>1, <1>2, <1>3, <1>4 DEF IInv, ProcInv

\* waitpid(2) finds no further zombie.
LEMMA ReapingEndsOK ==
    ASSUME IInv, ReapingEnds
    PROVE  IInv' /\ RightStep
<1>1. TablesOK' /\ LookupsSucceed' /\ RightStep /\ \A l \in Jobs : current'[l] = current[l]
  BY TablesStay DEF ReapingEnds
<1>2. ReapingOK'
  BY DEF IInv, ProcInv, ReapingOK, ReapingEnds
<1>3. NoLostWakeup'
  BY DEF NoLostWakeup, NoZombie, ReapingEnds
<1>4. TimerInv'
  BY <1>1 DEF IInv, TimerInv, TimersOK, TimersKnown, ReapingEnds, timerVars
<1> QED  BY <1>1, <1>2, <1>3, <1>4 DEF IInv, ProcInv

\* A process changes its state and nothing else.
LEMMA MovedNext ==
    ASSUME IInv, NEW i \in DOMAIN procs, NEW v \in States, procs' = SetState(procs, i, v),
           UNCHANGED <<backend, current, knotes, child_status, process_callbacks, timerVars>>
    PROVE  LET t == [procs |-> procs', current |-> current, watch_pids |-> watch_pids',
                     knotes |-> knotes, child_status |-> child_status,
                     process_callbacks |-> process_callbacks]
           IN /\ Moved(Loop, t, i, v) /\ Return(t) /\ t.watch_pids = watch_pids'
              /\ RightStep /\ TimerInv'
<1> DEFINE t == [procs |-> procs', current |-> current, watch_pids |-> watch_pids',
                 knotes |-> knotes, child_status |-> child_status,
                 process_callbacks |-> process_callbacks]
<1>1. /\ DOMAIN t = Fields /\ t.procs = procs' /\ t.current = current
      /\ t.watch_pids = watch_pids' /\ t.knotes = knotes /\ t.child_status = child_status
      /\ t.process_callbacks = process_callbacks
  BY DEF Fields
<1> HIDE DEF t
<1>2. /\ procs' \in Seq(Process) /\ DOMAIN procs' = DOMAIN procs
      /\ \A k \in DOMAIN procs \ {i} : procs'[k] = procs[k]
      /\ procs'[i].state = v
      /\ \A k \in DOMAIN procs :
            /\ procs'[k].job = procs[k].job /\ procs'[k].pid = procs[k].pid
            /\ procs'[k].grouped = procs[k].grouped /\ procs'[k].reported = procs[k].reported
            /\ procs'[k].missed = procs[k].missed /\ procs'[k].reused = procs[k].reused
  <2>1. procs \in Seq(Process)
    BY Basics
  <2> QED  BY <2>1, MovedFacts
<1>3. Moved(Loop, t, i, v)
  BY <1>1, <1>2, LoopFields DEF Moved
<1>4. Return(t)
  BY <1>1 DEF Return
<1>5. RightStep
  BY <1>2 DEF RightStep
<1>6. TimerInv'
  BY DEF IInv, TimerInv, TimersOK, TimersKnown, timerVars
<1> QED  BY <1>1, <1>3, <1>4, <1>5, <1>6 DEF t

\* waitpid(2) reaps a zombie, and its exit is queued if the pid is watched.
LEMMA ReapZombieOK ==
    ASSUME IInv, NEW i, ReapZombie(i)
    PROVE  IInv' /\ RightStep
<1> DEFINE t == [procs |-> procs', current |-> current, watch_pids |-> watch_pids',
                 knotes |-> knotes, child_status |-> child_status,
                 process_callbacks |-> process_callbacks]
<1>1. /\ i \in DOMAIN procs /\ procs[i].state = "zombie" /\ reaping
      /\ procs' = SetState(procs, i, "gone")
      /\ UNCHANGED <<backend, current, knotes, child_status, process_callbacks, timerVars>>
      /\ UNCHANGED <<sigchld, reaping, terminated>>
  BY DEF ReapZombie, SetState
<1>2. /\ Moved(Loop, t, i, "gone") /\ Return(t) /\ t.watch_pids = watch_pids'
      /\ RightStep /\ TimerInv'
  BY <1>1, MovedNext DEF States
<1> HIDE DEF t
<1>3. /\ backend = "epoll" /\ ~terminated
      /\ \A k \in DOMAIN pending_events : procs[pending_events[k]].pid \notin watch_pids
  BY <1>1 DEF IInv, ProcInv, ReapingOK
<1>4. Sound(Loop, pending_events, {})
  BY <1>3 DEF IInv, ProcInv, TablesOK
<1>5. /\ procs' \in Seq(Process) /\ DOMAIN procs' = DOMAIN procs
      /\ \A k \in DOMAIN procs : procs'[k].pid = procs[k].pid
  BY <1>2, LoopFields DEF Moved, Return
<1>6. \A k \in DOMAIN pending_events : pending_events[k] \in DOMAIN procs
  BY Basics
<1>7. LookupsSucceed' /\ NoLostWakeup'
  BY <1>1, <1>3 DEF LookupsSucceed, NoLostWakeup
<1>8. CASE procs[i].pid \in watch_pids
  <2> DEFINE u == Append(pending_events, i)
  <2>1. pending_events' = u /\ watch_pids' = watch_pids \ {procs[i].pid}
    BY <1>8 DEF ReapZombie
  <2>2. Sound(t, u, {})
    BY <2>1, <1>1, <1>2, <1>3, <1>4, <1>8, LoopFields, QueueSound
  <2>3. TablesOK'
    BY <2>1, <2>2, <1>1, <1>2, ReturnSound DEF TablesOK
  <2>4. \A k \in DOMAIN u : procs'[u[k]].pid \notin watch_pids'
    <3>1. /\ DOMAIN u = DOMAIN pending_events \cup {Len(pending_events) + 1}
          /\ \A k \in DOMAIN pending_events : u[k] = pending_events[k]
          /\ u[Len(pending_events) + 1] = i
      BY <1>1, Basics
    <3> HIDE DEF u
    <3> QED  BY <3>1, <2>1, <1>1, <1>3, <1>5, <1>6
  <2>5. ReapingOK'
    BY <2>1, <2>4, <1>1 DEF IInv, ProcInv, ReapingOK
  <2> QED  BY <2>3, <2>5, <1>2, <1>7 DEF IInv, ProcInv
<1>9. CASE procs[i].pid \notin watch_pids
  <2>1. pending_events' = pending_events /\ watch_pids' = watch_pids
    BY <1>9 DEF ReapZombie
  <2>2. Sound(t, pending_events, {})
    BY <2>1, <1>1, <1>2, <1>3, <1>4, <1>9, LoopFields, MovedSound
  <2>3. TablesOK'
    BY <2>1, <2>2, <1>1, <1>2, ReturnSound DEF TablesOK
  <2>4. ReapingOK'
    BY <2>1, <1>1, <1>3, <1>5, <1>6 DEF IInv, ProcInv, ReapingOK
  <2> QED  BY <2>3, <2>4, <1>2, <1>7 DEF IInv, ProcInv
<1> QED  BY <1>8, <1>9

\* A process exits, before, during or after the reaping.
LEMMA ProcessExitsOK ==
    ASSUME IInv, NEW i, ProcessExits(i)
    PROVE  IInv' /\ RightStep
<1> DEFINE t == [procs |-> procs', current |-> current, watch_pids |-> watch_pids',
                 knotes |-> knotes, child_status |-> child_status,
                 process_callbacks |-> process_callbacks]
<1>1. /\ i \in DOMAIN procs /\ procs[i].state = "alive" /\ ~terminated
      /\ procs' = SetState(procs, i, "zombie")
      /\ UNCHANGED <<backend, current, knotes, child_status, process_callbacks, timerVars>>
      /\ UNCHANGED <<reaping, terminated, watch_pids, pending_events>>
      /\ sigchld' = (backend = "epoll")
  BY DEF ProcessExits, SetState
<1>2. /\ Moved(Loop, t, i, "zombie") /\ Return(t) /\ t.watch_pids = watch_pids'
      /\ RightStep /\ TimerInv'
  BY <1>1, MovedNext DEF States
<1> HIDE DEF t
<1>3. Sound(Loop, pending_events, {})
  BY <1>1 DEF IInv, ProcInv, TablesOK
<1>4. Sound(t, pending_events, {})
  BY <1>1, <1>2, <1>3, LoopFields, MovedSound
<1>5. TablesOK'
  BY <1>1, <1>2, <1>4, ReturnSound DEF TablesOK
<1>6. /\ DOMAIN procs' = DOMAIN procs
      /\ \A k \in DOMAIN procs : procs'[k].pid = procs[k].pid
  BY <1>2, LoopFields DEF Moved, Return
<1>7. \A k \in DOMAIN pending_events : pending_events[k] \in DOMAIN procs
  BY Basics
<1>8. ReapingOK'
  <2>1. sigchld' \in BOOLEAN
    BY <1>1
  <2> QED  BY <2>1, <1>1, <1>6, <1>7 DEF IInv, ProcInv, ReapingOK
<1>9. LookupsSucceed' /\ NoLostWakeup'
  BY <1>1 DEF LookupsSucceed, NoLostWakeup
<1> QED  BY <1>2, <1>5, <1>8, <1>9 DEF IInv, ProcInv

\* The first queued exit is dispatched (epoll).
LEMMA DispatchPendingOK ==
    ASSUME IInv, DispatchPending
    PROVE  IInv' /\ RightStep
<1>1. /\ ~terminated /\ ~reaping /\ pending_events # <<>>
      /\ pending_events' = Tail(pending_events) /\ Dispatch(Loop, Head(pending_events))
      /\ UNCHANGED <<backend, sigchld, reaping, timerVars>>
  BY DEF DispatchPending
<1>2. Sound(Loop, pending_events, {})
  BY <1>1 DEF IInv, ProcInv, TablesOK
<1>3. Taken(Loop, Tail(pending_events), Head(pending_events))
  BY <1>1, <1>2, Basics, TakeQueued
<1> QED  BY <1>1, <1>3, LoopFields, DispatchStep

\* kevent(2) returns the exit of one process (kqueue).
LEMMA KeventOK ==
    ASSUME IInv, NEW i, Kevent(i)
    PROVE  IInv' /\ RightStep
<1> DEFINE s == [Loop EXCEPT !.knotes = @ \ {i}]
<1>1. /\ ~terminated /\ ~reaping /\ DOMAIN child_status = {}
      /\ i \in knotes /\ procs[i].state = "zombie"
      /\ Dispatch(s, i)
      /\ UNCHANGED <<backend, sigchld, reaping, timerVars>>
      /\ pending_events' = pending_events
  BY DEF Kevent, Polling
<1>2. Sound(Loop, pending_events, {})
  BY <1>1 DEF IInv, ProcInv, TablesOK
<1>3. Taken(s, pending_events, i)
  BY <1>1, <1>2, Basics, LoopFields, TakeKnote
<1>4. /\ s.procs = procs /\ s.process_callbacks = process_callbacks /\ s.current = current
  BY DEF Loop
<1> HIDE DEF s
<1> QED  BY <1>1, <1>3, <1>4, DispatchStep

\* A status is taken whose pid has no callback: at() throws.
LEMMA LookupFails ==
    ASSUME IInv, ~terminated, NEW pid \in DOMAIN child_status,
           pid \notin DOMAIN process_callbacks, terminated' = TRUE,
           Return([Loop EXCEPT !.child_status = Remove(@, pid)]),
           UNCHANGED <<backend, sigchld, reaping, pending_events, timerVars>>
    PROVE  IInv' /\ RightStep
<1>1. /\ procs' = procs /\ current' = current /\ watch_pids' = watch_pids /\ knotes' = knotes
      /\ process_callbacks' = process_callbacks /\ child_status' = Remove(child_status, pid)
  BY DEF Return, Loop
<1>2. Sound(Loop, pending_events, {})
  BY DEF IInv, ProcInv, TablesOK
<1>3. backend = "kqueue" /\ reaping = FALSE
  BY <1>2, Basics, LoopFields DEF Sound, BackendOK, IInv, ProcInv, ReapingOK
<1>4. \E i \in DOMAIN procs : procs[i].reused
  BY <1>2, LoopFields DEF Sound, StatusOK
<1>5. Shape(Loop, pending_events, {})'
  <2>1. Shape(Loop, pending_events, {})
    BY <1>2 DEF Sound
  <2>2. IsTable(Remove(child_status, pid), DOMAIN procs \cup {-1})
    BY <2>1, LoopFields, RemoveTable DEF Shape
  <2> QED  BY <2>1, <2>2, <1>1 DEF Shape, Loop, Fields, IsTable, Process, States
<1>6. ReapedOK(Loop)'
  BY <1>1, <1>2 DEF Sound, ReapedOK, Unreaped, LeavesGroup, Loop
<1>7. ReapingOK'
  BY <1>1, <1>3 DEF IInv, ProcInv, ReapingOK
<1>8. LookupsSucceed' /\ NoLostWakeup' /\ RightStep
  BY <1>1, <1>3, <1>4 DEF LookupsSucceed, NoLostWakeup, RightStep
<1>9. TimerInv'
  BY <1>1 DEF IInv, TimerInv, TimersOK, TimersKnown, timerVars
<1> QED  BY <1>5, <1>6, <1>7, <1>8, <1>9 DEF IInv, ProcInv, TablesOK

\* The exit of a process that was gone before its watch is dispatched (kqueue).
LEMMA DispatchEarlyOK ==
    ASSUME IInv, NEW pid, DispatchEarly(pid)
    PROVE  IInv' /\ RightStep
<1> DEFINE s == [Loop EXCEPT !.child_status = Remove(@, pid)]
<1>1. /\ ~terminated /\ pid \in DOMAIN child_status
      /\ UNCHANGED <<backend, sigchld, reaping, pending_events, timerVars>>
  BY DEF DispatchEarly
<1>2. IF child_status[pid] # -1 THEN Dispatch(s, child_status[pid])
      ELSE /\ terminated' = (pid \notin DOMAIN process_callbacks)
           /\ Return(IF terminated' THEN s ELSE DeleteProcess(s, pid))
  BY DEF DispatchEarly
<1>3. Sound(Loop, pending_events, {})
  BY <1>1 DEF IInv, ProcInv, TablesOK
<1>4. backend = "kqueue" /\ reaping = FALSE
  BY <1>1, <1>3, Basics, LoopFields DEF Sound, BackendOK, IInv, ProcInv, ReapingOK
<1>5. s.procs = procs /\ s.process_callbacks = process_callbacks /\ s.current = current
  BY DEF Loop
<1>6. CASE pid \in DOMAIN process_callbacks
  <2>1. PICK i \in DOMAIN procs :
           /\ procs[i].pid = pid
           /\ child_status[pid] # -1 => child_status[pid] = i /\ Taken(s, pending_events, i)
           /\ child_status[pid] = -1 => Sound(s, pending_events, {i}) /\ Excused(procs, i)
    <3>1. pid \in DOMAIN Loop.child_status /\ pid \in DOMAIN Loop.process_callbacks
      BY <1>1, <1>6, LoopFields
    <3>2. \E i \in DOMAIN Loop.procs :
             /\ Loop.procs[i].pid = pid
             /\ Loop.child_status[pid] # -1
                  => Loop.child_status[pid] = i /\ Taken(s, pending_events, i)
             /\ Loop.child_status[pid] = -1
                  => Sound(s, pending_events, {i}) /\ Excused(Loop.procs, i)
      BY <3>1, <1>3, <1>4, TakeStatus
    <3> HIDE DEF s
    <3> QED  BY <3>2, LoopFields
  <2> HIDE DEF s
  <2>2. CASE child_status[pid] # -1
    BY <2>1, <2>2, <1>1, <1>2, <1>4, <1>5, DispatchStep
  <2>3. CASE child_status[pid] = -1
    <3> DEFINE t == DeleteProcess(s, pid)
    <3>1. terminated' = FALSE /\ Return(t)
      BY <2>3, <1>2, <1>6
    <3>2. Sound(t, pending_events, {})
      <4>1. s.procs[i].pid = pid /\ Sound(s, pending_events, {i}) /\ Excused(s.procs, i)
        BY <2>1, <2>3, <1>5
      <4> QED  BY <4>1, DeleteSound
    <3>3. TablesOK'
      BY <3>1, <3>2, <1>1, ReturnSound DEF TablesOK
    <3>4. t.procs = procs /\ t.current = current
      <4>1. DOMAIN s = Fields
        BY <2>1, <2>3 DEF Sound, Shape
      <4> QED  BY <4>1, <1>5 DEF DeleteProcess, Fields
    <3>5. procs' = procs /\ current' = current
      BY <3>1, <3>4 DEF Return
    <3>6. ReapingOK'
      BY <3>1, <1>1, <1>4 DEF IInv, ProcInv, ReapingOK
    <3>7. LookupsSucceed' /\ NoLostWakeup' /\ RightStep
      BY <3>1, <3>5, <1>1, <1>4 DEF LookupsSucceed, NoLostWakeup, RightStep
    <3>8. TimerInv'
      BY <3>5, <1>1 DEF IInv, TimerInv, TimersOK, TimersKnown, timerVars
    <3> QED  BY <3>3, <3>6, <3>7, <3>8 DEF IInv, ProcInv
  <2> QED  BY <2>2, <2>3
<1>7. CASE pid \notin DOMAIN process_callbacks
  <2>1. terminated' = TRUE /\ Return(s)
    <3>1. CASE child_status[pid] = -1
      BY <3>1, <1>2, <1>7
    <3>2. CASE child_status[pid] # -1
      <4>1. procs[child_status[pid]].pid = pid
        BY <3>2, <1>1, <1>3, LoopFields DEF Sound, StatusOK, StatusOf
      <4> QED  BY <4>1, <3>2, <1>2, <1>7 DEF Dispatch
    <3> QED  BY <3>1, <3>2
  <2> QED  BY <2>1, <1>1, <1>7, LookupFails
<1> QED  BY <1>6, <1>7

\* Only the timers change.
LEMMA ProcessesStay ==
    ASSUME IInv, UNCHANGED <<backend, procVars>>
    PROVE  ProcInv' /\ RightStep /\ \A l \in Jobs : current'[l] = current[l]
<1>1. TablesOK' /\ LookupsSucceed' /\ RightStep /\ \A l \in Jobs : current'[l] = current[l]
  BY TablesStay DEF procVars
<1>2. ReapingOK' /\ NoLostWakeup'
  BY DEF IInv, ProcInv, ReapingOK, NoLostWakeup, NoZombie, procVars
<1> QED  BY <1>1, <1>2 DEF ProcInv

\* What the invariant says of the timers, spelled out.
LEMMA TimerFacts ==
    ASSUME IInv
    PROVE  /\ timer_id \in [Jobs -> Nat] /\ timer_id_max \in Nat /\ timer_id_max <= MaxTimers
           /\ MaxTimers \in Nat
           /\ \A id \in DOMAIN timer_callbacks : id \in 1 .. timer_id_max /\ timer_callbacks[id] \in Jobs
           /\ \A id \in armed : /\ id \in 1 .. timer_id_max /\ id \in DOMAIN timer_callbacks
                                /\ timer_id[timer_callbacks[id]] = id
                                /\ current[timer_callbacks[id]] = 0
                                /\ backend = "epoll" => id \in timerfd_map
<1>1. MaxTimers \in Nat
  BY LoopAssumption
<1>2. timer_id_max \in 0 .. MaxTimers
  BY DEF IInv, TimerInv, TimersOK
<1>3. timer_id_max \in Nat /\ timer_id_max <= MaxTimers
  BY <1>1, <1>2
<1> QED  BY <1>1, <1>3 DEF IInv, TimerInv, TimersOK, TimersKnown

\* A job sets a timer.
LEMMA AddTimerOK ==
    ASSUME IInv, NEW j \in Jobs, AddTimer(j)
    PROVE  IInv' /\ RightStep
<1> DEFINE id == timer_id_max + 1
<1>1. /\ current[j] = 0 /\ timer_id[j] = 0 /\ timer_id_max < MaxTimers
      /\ timer_id_max' = id /\ timer_id' = [timer_id EXCEPT ![j] = id]
      /\ timer_callbacks' = Insert(timer_callbacks, id, j)
      /\ timerfd_map' = IF backend = "epoll" THEN timerfd_map \cup {id} ELSE timerfd_map
      /\ armed' = armed \cup {id}
      /\ UNCHANGED <<backend, procVars>>
  BY DEF AddTimer
<1>2. ProcInv' /\ RightStep /\ \A l \in Jobs : current'[l] = current[l]
  BY <1>1, ProcessesStay
<1>3. /\ id \in Nat /\ id # 0 /\ id <= MaxTimers /\ id \notin DOMAIN timer_callbacks
      /\ id \in 1 .. id /\ 1 .. timer_id_max \subseteq 1 .. id /\ id \in 0 .. MaxTimers
  BY <1>1, TimerFacts
<1>4. /\ DOMAIN timer_callbacks' = DOMAIN timer_callbacks \cup {id}
      /\ \A k \in DOMAIN timer_callbacks : timer_callbacks'[k] = timer_callbacks[k]
      /\ timer_callbacks'[id] = j
  BY <1>1, <1>3 DEF Insert
<1>5. TimersOK'
  <2>1. timer_callbacks' \in [DOMAIN timer_callbacks' -> Jobs]
    BY <1>1, <1>4, TimerFacts DEF Insert
  <2>2. timer_id' \in [Jobs -> Nat] /\ timer_id_max' \in 0 .. MaxTimers
    BY <1>1, <1>3, TimerFacts
  <2>3. armed \subseteq 1 .. timer_id_max /\ timerfd_map \subseteq 1 .. timer_id_max
    BY DEF IInv, TimerInv, TimersOK
  <2>4. armed' \subseteq 1 .. timer_id_max' /\ timerfd_map' \subseteq 1 .. timer_id_max'
    BY <2>3, <1>1, <1>3
  <2>5. DOMAIN timer_callbacks' \subseteq 1 .. timer_id_max'
    BY <1>1, <1>3, <1>4, TimerFacts
  <2> QED  BY <2>1, <2>2, <2>4, <2>5 DEF TimersOK
<1>6. TimersKnown'
  <2>1. \A k \in armed : /\ k \in DOMAIN timer_callbacks' /\ timer_callbacks'[k] \in Jobs
                         /\ timer_callbacks'[k] # j
                         /\ timer_id'[timer_callbacks'[k]] = k
                         /\ current'[timer_callbacks'[k]] = 0
                         /\ backend' = "epoll" => k \in timerfd_map'
    <3> SUFFICES ASSUME NEW k \in armed
                 PROVE  /\ k \in DOMAIN timer_callbacks' /\ timer_callbacks'[k] \in Jobs
                        /\ timer_callbacks'[k] # j
                        /\ timer_id'[timer_callbacks'[k]] = k
                        /\ current'[timer_callbacks'[k]] = 0
                        /\ backend' = "epoll" => k \in timerfd_map'
      OBVIOUS
    <3>1. /\ k \in DOMAIN timer_callbacks /\ timer_callbacks[k] \in Jobs
          /\ timer_id[timer_callbacks[k]] = k /\ k # 0
          /\ current[timer_callbacks[k]] = 0 /\ (backend = "epoll" => k \in timerfd_map)
      BY TimerFacts
    <3>2. timer_callbacks'[k] = timer_callbacks[k] /\ timer_callbacks[k] # j
      BY <3>1, <1>1, <1>4
    <3> QED  BY <3>1, <3>2, <1>1, <1>2, <1>4, TimerFacts
  <2>2. /\ timer_id'[j] = id /\ current'[j] = 0 /\ (backend' = "epoll" => id \in timerfd_map')
    BY <1>1, <1>2, TimerFacts
  <2>3. \A k \in DOMAIN timer_callbacks' : k <= timer_id_max'
    BY <1>1, <1>3, <1>4, TimerFacts
  <2> QED  BY <2>1, <2>2, <2>3, <1>1, <1>4 DEF TimersKnown
<1> QED  BY <1>2, <1>5, <1>6 DEF IInv, TimerInv

\* A timer fires and its job starts.
LEMMA TimerFiresOK ==
    ASSUME IInv, NEW id, TimerFires(id)
    PROVE  IInv' /\ RightStep
<1> DEFINE j == timer_callbacks[id]
<1>1. /\ Polling /\ id \in armed /\ armed' = armed \ {id}
      /\ timer_id' = [timer_id EXCEPT ![j] = 0]
      /\ UNCHANGED <<backend, sigchld, reaping, pending_events, terminated>>
      /\ UNCHANGED <<timer_id_max, timer_callbacks, timerfd_map>>
  BY DEF TimerFires
<1>2. j \in Jobs /\ timer_id[j] = id
  BY <1>1, TimerFacts
<1>3. ProcInv' /\ RightStep /\ \A l \in Jobs \ {j} : current'[l] = current[l]
  <2> HIDE DEF j
  <2>1. \/ /\ Startable(Loop, j)
           /\ \E pid \in Pids \ InUse(procs), fate \in Fates :
                Return(StartedWith(Loop, j, pid, fate))
        \/ Return(Loop)
    BY DEF TimerFires, j
  <2>2. CASE Return(Loop)
    <3>1. UNCHANGED <<backend, procVars>>
      BY <2>2, <1>1 DEF Return, Loop, procVars
    <3> QED  BY <3>1, ProcessesStay
  <2>3. ASSUME Startable(Loop, j), NEW pid \in Pids \ InUse(procs), NEW fate \in Fates,
               Return(StartedWith(Loop, j, pid, fate))
        PROVE  ProcInv' /\ RightStep /\ \A l \in Jobs \ {j} : current'[l] = current[l]
    BY <2>3, <1>1, <1>2, StartStep
  <2> QED  BY <2>1, <2>2, <2>3
<1>4. TimersOK'
  <2>1. timer_id' \in [Jobs -> Nat]
    BY <1>1, TimerFacts
  <2> QED  BY <2>1, <1>1 DEF IInv, TimerInv, TimersOK
<1>5. TimersKnown'
  <2>1. \A k \in armed \ {id} : timer_callbacks[k] \in Jobs \ {j}
    BY <1>2, TimerFacts
  <2>2. \A k \in armed' : /\ k \in DOMAIN timer_callbacks
                          /\ timer_id'[timer_callbacks[k]] = k
                          /\ current'[timer_callbacks[k]] = 0
                          /\ backend = "epoll" => k \in timerfd_map
    BY <2>1, <1>1, <1>3, TimerFacts
  <2> QED  BY <2>2, <1>1, TimerFacts DEF TimersKnown
<1> QED  BY <1>3, <1>4, <1>5 DEF IInv, TimerInv

\* A job cancels its timer, which on Linux may throw half way.
LEMMA CancelTimerOK ==
    ASSUME IInv, NEW j \in Jobs, CancelTimer(j)
    PROVE  IInv' /\ RightStep
<1> DEFINE id == timer_id[j]
<1>1. /\ armed' = armed \ {id} /\ timerfd_map' = timerfd_map \ {id}
      /\ \/ UNCHANGED <<timer_id, timer_callbacks>>
         \/ /\ timer_id' = [timer_id EXCEPT ![j] = 0]
            /\ timer_callbacks' = Remove(timer_callbacks, id)
      /\ UNCHANGED <<backend, procVars>> /\ timer_id_max' = timer_id_max
  BY DEF CancelTimer
<1>2. ProcInv' /\ RightStep /\ \A l \in Jobs : current'[l] = current[l]
  BY <1>1, ProcessesStay
<1> HIDE DEF id
<1>3. /\ DOMAIN timer_callbacks' \subseteq DOMAIN timer_callbacks
      /\ DOMAIN timer_callbacks \ {id} \subseteq DOMAIN timer_callbacks'
      /\ \A k \in DOMAIN timer_callbacks' : timer_callbacks'[k] = timer_callbacks[k]
      /\ timer_callbacks' \in [DOMAIN timer_callbacks' -> Jobs]
  <2>1. timer_callbacks \in [DOMAIN timer_callbacks -> Jobs]
    BY DEF IInv, TimerInv, TimersOK
  <2> QED  BY <2>1, <1>1 DEF Remove
<1>4. TimersOK'
  <2>1. timer_id' \in [Jobs -> Nat]
    BY <1>1, TimerFacts
  <2> QED  BY <2>1, <1>1, <1>3 DEF IInv, TimerInv, TimersOK
<1>5. TimersKnown'
  <2>1. \A k \in armed \ {id} : timer_callbacks[k] \in Jobs \ {j}
    BY TimerFacts DEF id
  <2>2. \A k \in armed' : /\ k \in DOMAIN timer_callbacks'
                          /\ timer_id'[timer_callbacks'[k]] = k
                          /\ current'[timer_callbacks'[k]] = 0
                          /\ backend' = "epoll" => k \in timerfd_map'
    BY <2>1, <1>1, <1>2, <1>3, TimerFacts
  <2> QED  BY <2>2, <1>1, <1>3, TimerFacts DEF TimersKnown
<1> QED  BY <1>2, <1>4, <1>5 DEF IInv, TimerInv

-----------------------------------------------------------------------------
(* The theorems *)

\* The invariant holds of a loop that was just created.
LEMMA InitOK ==
    ASSUME Init
    PROVE  IInv
<1>1. /\ procs = <<>> /\ pending_events = <<>> /\ DOMAIN procs = {} /\ DOMAIN pending_events = {}
      /\ current = [j \in Jobs |-> 0] /\ watch_pids = {} /\ knotes = {}
      /\ DOMAIN child_status = {} /\ DOMAIN process_callbacks = {} /\ DOMAIN timer_callbacks = {}
      /\ backend \in {"epoll", "kqueue"} /\ ~terminated /\ ~reaping
  BY LoopAssumption DEF Init, Empty
<1>2. IsTable(child_status, DOMAIN procs \cup {-1}) /\ IsTable(process_callbacks, Jobs)
  BY DEF Init, Empty, IsTable
<1>3. Shape(Loop, pending_events, {})
  <2>1. DOMAIN Loop = Fields
    BY DEF Loop, Fields
  <2> QED  BY <2>1, <1>1, <1>2, LoopFields DEF Shape
<1>4. CurrentOK(Loop)
  BY <1>1, LoopFields DEF CurrentOK
<1>5. PidsOK(Loop) /\ ReapedOK(Loop) /\ BackendOK(Loop, pending_events)
  BY <1>1, LoopFields DEF PidsOK, ReapedOK, BackendOK
<1>6. QueuedOK(Loop, pending_events, {}) /\ WatchedOK(Loop, pending_events, {})
  BY <1>1, LoopFields DEF QueuedOK, WatchedOK
<1>7. KnotesOK(Loop, {}) /\ StatusOK(Loop, {})
  BY <1>1, LoopFields DEF KnotesOK, StatusOK
<1>8. EntriesOK(Loop, pending_events, {}) /\ KnownOK(Loop, pending_events, {})
  BY <1>1, LoopFields DEF EntriesOK, KnownOK
<1>9. TablesOK
  BY <1>3, <1>4, <1>5, <1>6, <1>7, <1>8 DEF TablesOK, Sound
<1>10. ReapingOK /\ LookupsSucceed /\ NoLostWakeup
  BY <1>1 DEF ReapingOK, LookupsSucceed, NoLostWakeup, NoZombie, Init
<1>11. TimersOK
  BY <1>1, LoopAssumption DEF TimersOK, Init, Empty
<1>12. TimersKnown
  BY <1>1 DEF TimersKnown, Init
<1> QED  BY <1>9, <1>10, <1>11, <1>12 DEF IInv, ProcInv, TimerInv

\* Every step keeps the invariant and reports only the right process.
LEMMA NextOK ==
    ASSUME IInv, [Next]_vars
    PROVE  IInv' /\ (RightStep \/ UNCHANGED vars)
<1>1. CASE Next
  <2>1. CASE ReadSignals
    BY <2>1, ReadSignalsOK
  <2>2. CASE ReapingEnds
    BY <2>2, ReapingEndsOK
  <2>3. CASE DispatchPending
    BY <2>3, DispatchPendingOK
  <2>4. ASSUME NEW i \in Indices, ReapZombie(i) \/ Kevent(i) \/ ProcessExits(i)
        PROVE  IInv' /\ RightStep
    BY <2>4, ReapZombieOK, KeventOK, ProcessExitsOK
  <2>5. ASSUME NEW pid \in Pids, DispatchEarly(pid)
        PROVE  IInv' /\ RightStep
    BY <2>5, DispatchEarlyOK
  <2>6. ASSUME NEW j \in Jobs, Start(j) \/ AddTimer(j) \/ CancelTimer(j)
        PROVE  IInv' /\ RightStep
    BY <2>6, StartOK, AddTimerOK, CancelTimerOK
  <2>7. ASSUME NEW id \in 1 .. MaxTimers, TimerFires(id)
        PROVE  IInv' /\ RightStep
    BY <2>7, TimerFiresOK
  <2> QED  BY <1>1, <2>1, <2>2, <2>3, <2>4, <2>5, <2>6, <2>7 DEF Next, LoopStep
<1>2. CASE UNCHANGED vars
  <2>1. UNCHANGED <<backend, procVars>> /\ UNCHANGED timerVars
    BY <1>2 DEF vars
  <2>2. ProcInv' /\ \A l \in Jobs : current'[l] = current[l]
    BY <2>1, ProcessesStay
  <2>3. TimerInv'
    BY <2>1, <2>2 DEF IInv, TimerInv, TimersOK, TimersKnown, timerVars, procVars
  <2> QED  BY <1>2, <2>2, <2>3 DEF IInv
<1> QED  BY <1>1, <1>2

\* The invariant holds in every state the loop can reach.
THEOREM Invariance == Spec => []IInv
<1>1. Init => IInv
  BY InitOK
<1>2. IInv /\ [Next]_vars => IInv'
  BY NextOK
<1> QED  BY <1>1, <1>2, PTL DEF Spec

\* The tables, the processes and the timers of the loop have their types.
THEOREM TypeCorrect == Spec => []TypeOK
<1>1. IInv => TypeOK
  <2> SUFFICES ASSUME IInv
               PROVE  TypeOK
    OBVIOUS
  <2>1. /\ watch_pids \subseteq Pids /\ knotes \subseteq DOMAIN procs
        /\ IsTable(child_status, Statuses) /\ IsTable(process_callbacks, Jobs)
    BY LoopFields DEF IInv, ProcInv, TablesOK, Shape, Statuses
  <2>2. /\ child_status \in [DOMAIN child_status -> Statuses] /\ DOMAIN child_status \subseteq Pids
        /\ process_callbacks \in [DOMAIN process_callbacks -> Jobs]
        /\ DOMAIN process_callbacks \subseteq Pids
    BY <2>1 DEF IsTable
  <2>3. \A i \in DOMAIN procs : procs[i].job \in Jobs /\ procs[i].pid \in Pids
                                  /\ procs[i].state \in {"alive", "zombie", "gone"}
    BY Basics, Elements DEF States
  <2>4. 1 .. timer_id_max \subseteq 1 .. MaxTimers
    BY TimerFacts
  <2>5. armed \subseteq 1 .. MaxTimers /\ timerfd_map \subseteq 1 .. MaxTimers
    BY <2>4 DEF IInv, TimerInv, TimersOK
  <2> QED  BY <2>1, <2>2, <2>3, <2>5, Basics DEF TypeOK
<1> QED  BY <1>1, Invariance, PTL

\* However pids are reused, exits are queued and signals are read, the loop
\* loses a process only if its pid was still registered for an earlier one or
\* waitpid(2) had no status for it.
THEOREM LostByReuseOnly == Spec => []LostOnlyByReuse
<1>1. IInv => LostOnlyByReuse
  <2> SUFFICES ASSUME IInv, ~terminated, NEW i \in DOMAIN procs, ~Excused(procs, i)
               PROVE  Known(i)
    BY DEF LostOnlyByReuse, Excused
  <2>1. KnownTo(Loop, pending_events, i)
    BY LoopFields DEF IInv, ProcInv, TablesOK, Sound, KnownOK
  <2> QED  BY <2>1, LoopFields DEF KnownTo, Known, Entry
<1> QED  BY <1>1, Invariance, PTL

\* process_callbacks.at() throws only after a pid was reused while registered.
THEOREM LookupsDoNotThrow == Spec => []LookupsSucceed
<1>1. IInv => LookupsSucceed
  BY DEF IInv, ProcInv
<1> QED  BY <1>1, Invariance, PTL

\* A zombie that is not about to be reaped is announced by a pending SIGCHLD.
THEOREM WakeupsAreNotLost == Spec => []NoLostWakeup
<1>1. IInv => NoLostWakeup
  BY DEF IInv, ProcInv
<1> QED  BY <1>1, Invariance, PTL

\* A reported process is a zombie only with kqueue, and only if its job has
\* AbandonProcessGroup or it exited before getpgid(2): killProcessGroup() then
\* returns before the only waitpid(2) of the process.
THEOREM ReportedAreReaped == Spec => []ReportedIsReaped
<1>1. IInv => ReportedIsReaped
  BY LoopFields DEF IInv, ProcInv, TablesOK, ReapedOK, Unreaped, LeavesGroup, ReportedIsReaped
<1> QED  BY <1>1, Invariance, PTL

\* An armed timer is the one its job knows, and its job has no process.
THEOREM TimersAreKnown == Spec => []TimersKnown
<1>1. IInv => TimersKnown
  BY DEF IInv, TimerInv
<1> QED  BY <1>1, Invariance, PTL

\* Attribution by pid is right: the callback that runs for a process is that
\* of its job, while it is the job's current process, and it runs once.
THEOREM RightProcessReported == Spec => RightProcess
<1> DEFINE A == RightStep
<1>1. IInv /\ [Next]_vars => [A]_vars
  BY NextOK
<1>2. RightProcess <=> [][A]_vars
  BY DEF RightProcess, RightStep
<1> HIDE DEF A
<1> QED  BY <1>1, <1>2, Invariance, PTL DEF Spec
=============================================================================
