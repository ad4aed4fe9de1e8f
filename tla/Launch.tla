------------------------------- MODULE Launch -------------------------------
(***************************************************************************)
(* The launch of one job: a manifest is read, and Job::run (src/src/job.cc) *)
(* forks a child that prepares itself and executes the program, while the  *)
(* parent waits on the pipe of exec_monitor.h to learn how that went.      *)
(*                                                                         *)
(* Parent and child interleave, every step of the child may fail, and the  *)
(* child may be killed at any moment.  Module Job has all of this as one   *)
(* atomic step with the outcomes RunOutcomes; AgreesWithJob relates them.  *)
(***************************************************************************)
EXTENDS Manifest

CONSTANTS
    Documents,   \* the JSON documents that may be loaded
    Passwd,      \* the users that getpwnam() finds, with their uid and gid
    Group,       \* the groups that getgrnam() finds, with their gid
    Faults       \* steps of the child that may fail, and "pipe", "fork", "read", "write", "killed"

\* The values have the types that json::get_to() asks for.  No string of a
\* document is "none", which stands for a std::optional without a value.
ASSUME DocumentsAssumption ==
    \A j \in Documents :
        /\ Get(j, "Program", "path") # "none"
        /\ Get(j, "ProgramArguments", <<>>) \in Seq(STRING \ {"none"})
        /\ \A key \in {"Disabled", "RunAtLoad", "AbandonProcessGroup"} :
              Get(j, key, FALSE) \in BOOLEAN
        /\ \A key \in {"StartInterval", "ThrottleInterval"} : Get(j, key, 0) \in Nat

ASSUME PasswdAssumption == \A u \in DOMAIN Passwd : Passwd[u].uid \in Nat /\ Passwd[u].gid \in Nat
ASSUME GroupAssumption  == \A g \in DOMAIN Group : Group[g] \in Nat

VARIABLES
    document,
    pc,       \* where the parent is, or how it ended
    pid,      \* Job::pid: -1, 0, or 1 for the child
    pgid,     \* Job::pgid: "none" (-1), "own" (the child's) or "launchd" (launchd's own)
    child,    \* the child process
    pipe      \* the statuses written to the pipe and not read

vars == <<document, pc, pid, pgid, child, pipe>>

m == Rectify(FromJson(document))

\* fate is how the child's preparations ended: it "executed" the program, its
\* failure was "reported" in the pipe, or it ended "silent".  The ids are
\* launchd's own at first: 0, as only root can set those of a UserName.
NoChild == [state |-> "none", group |-> "launchd", todo |-> <<>>, done |-> {},
            fate |-> "none", uid |-> 0, gid |-> 0]

\* The user and the group that the manifest asks for.
Uid == Passwd[m.user_name].uid
Gid == IF m.group_name = "none" THEN Passwd[m.user_name].gid ELSE Group[m.group_name]

\* run() initialises its ExecutionContext with {uid, gid, ...}, but the struct
\* declares gid before uid: each member gets the other's value.
Ctx == [gid |-> Uid, uid |-> Gid]

Only(step, condition) == IF condition THEN <<step>> ELSE <<>>

\* start_child_process(), as the list of system calls that can fail.  A group
\* and a user are only set for a manifest with UserName.  handleFork(), which
\* run() calls before, does not throw.
Steps ==
    LET user == m.user_name # "none"
    IN <<"setsid">> \o Only("setpriority", m.nice) \o Only("chdir", m.working_directory)
       \o Only("chroot", m.root_directory) \o Only("initgroups", user /\ m.init_groups)
       \o Only("setgid", user) \o Only("setlogin", user) \o Only("setuid", user)
       \o <<"stdin", "stdout", "stderr", "calloc", "execve">>

-----------------------------------------------------------------------------
Init == /\ document \in Documents
        /\ pc = "load"
        /\ pid = 0
        /\ pgid = "none"
        /\ child = NoChild
        /\ pipe = <<>>

(* The parent *)

\* loadManifest() refuses the document, or run() is called for its job.
LoadManifest ==
    /\ pc = "load"
    /\ pc' = CASE Parse(document) = "accepted" -> "lookup"
               [] Parse(document) = "refused"  -> "refused"
               [] OTHER                        -> "aborted"
    /\ UNCHANGED <<document, pid, pgid, child, pipe>>

\* Mutant: the group is looked at without a user.
LookupGroupFirst ==
    /\ pc = "lookup"
    /\ pc' = IF m.group_name \notin DOMAIN Group THEN "crashed" ELSE "pipe"
    /\ UNCHANGED <<document, pid, pgid, child, pipe>>

\* getpwnam() and getgrnam() return null for an unknown name, and run() reads
\* through the pointer: undefined, and in practice the end of launchd.  The
\* group is only looked at for a manifest with UserName.
Lookup ==
    /\ pc = "lookup"
    /\ pc' = IF /\ m.user_name # "none"
                /\ \/ m.user_name \notin DOMAIN Passwd
                   \/ m.group_name # "none" /\ m.group_name \notin DOMAIN Group
             THEN "crashed" ELSE "pipe"
    /\ UNCHANGED <<document, pid, pgid, child, pipe>>

CreatePipe ==
    /\ pc = "pipe"
    /\ pc' \in {"fork"} \cup (IF "pipe" \in Faults THEN {"threw"} ELSE {})
    /\ UNCHANGED <<document, pid, pgid, child, pipe>>

Fork ==
    /\ pc = "fork"
    /\ \/ /\ pc' = "read" /\ pid' = 1
          /\ child' = [NoChild EXCEPT !.state = "setup", !.todo = Steps]
       \/ /\ "fork" \in Faults
          /\ pc' = "failed" /\ pid' = -1
          /\ UNCHANGED child
    /\ UNCHANGED <<document, pgid, pipe>>

\* Mutant: the pipe is not close-on-exec.
EndOfFileAtExit == child.state = "zombie"

\* Nobody holds the writing end: the child executed a program (the pipe is
\* close-on-exec) or is dead.
EndOfFile == child.state \in {"program", "zombie"}

\* readStatus() finds nothing more to come: taken for a successful exec.  The
\* group of a zombie can still be read on Linux, and not on BSD.
ReadEndOfFile ==
    /\ pc = "read"
    /\ pipe = <<>>
    /\ EndOfFile
    /\ pc' = "started"
    /\ pgid' \in {child.group} \cup (IF child.state = "zombie" THEN {"none"} ELSE {})
    /\ UNCHANGED <<document, pid, child, pipe>>

\* Mutant: the child is killed and not reaped.
LeaveChild == /\ pc' = "failed" /\ pid' = 0
              /\ child' = [child EXCEPT !.state = "zombie"]

KillChild == /\ pc' = "failed" /\ pid' = 0
             /\ child' = NoChild

\* Mutant: the pipe is not drained.
ReadStatusAgain ==
    /\ pc = "read"
    /\ pipe # <<>>
    /\ KillChild
    /\ UNCHANGED <<document, pgid, pipe>>

\* Mutant: a status is taken for the end of the pipe.
ReadStatusIgnored ==
    /\ pc = "read"
    /\ pipe # <<>>
    /\ pc' = "started"
    /\ pgid' = child.group
    /\ pipe' = <<>>
    /\ UNCHANGED <<document, pid, child>>

\* A status: the child is killed and reaped.
ReadStatus ==
    /\ pc = "read"
    /\ pipe # <<>>
    /\ KillChild
    /\ pipe' = <<>>
    /\ UNCHANGED <<document, pgid>>

\* The same for an error of read(2), whatever the child is doing.
ReadFails ==
    /\ pc = "read"
    /\ "read" \in Faults
    /\ KillChild
    /\ pipe' = <<>>
    /\ UNCHANGED <<document, pgid>>

\* The exit of the job is handled: reapChildProcess(), killProcessGroup().
Reap ==
    /\ pc = "started"
    /\ child.state = "zombie"
    /\ pc' = IF pgid = "launchd" /\ ~m.abandon_process_group THEN "killed itself" ELSE "reaped"
    /\ pid' = 0
    /\ child' = NoChild
    /\ UNCHANGED <<document, pgid, pipe>>

-----------------------------------------------------------------------------
(* The child *)

\* The child after the step s.  Before execve(2) an empty path throws an
\* exception that nobody catches in the child: it would go on as a second
\* launchd.
After(s) ==
    LET c == [child EXCEPT !.todo = Tail(@)]
    IN CASE s = "setsid" -> [c EXCEPT !.group = "own"]
         [] s = "setgid" -> [c EXCEPT !.done = @ \cup {s}, !.gid = Ctx.gid]
         [] s = "setuid" -> [c EXCEPT !.done = @ \cup {s}, !.uid = Ctx.uid]
         [] s = "execve" /\ m.program = "none" -> [c EXCEPT !.state = "launchd"]
         [] s = "execve" /\ m.program # "none" -> [c EXCEPT !.state = "program", !.fate = "executed"]
         [] OTHER        -> [c EXCEPT !.done = @ \cup {s}]

\* Mutant: the result of a step is not looked at.
StepUnchecked ==
    /\ child.state = "setup"
    /\ child' = IF Head(child.todo) \in Faults \ {"execve"}
                THEN [child EXCEPT !.todo = Tail(@)] ELSE After(Head(child.todo))
    /\ UNCHANGED <<document, pc, pid, pgid, pipe>>

\* A step succeeds.
Step ==
    /\ child.state = "setup"
    /\ child' = After(Head(child.todo))
    /\ UNCHANGED <<document, pc, pid, pgid, pipe>>

\* A step fails: the child reports it and exits.  It also exits if the write(2)
\* of the report fails.
StepFails ==
    /\ child.state = "setup"
    /\ Head(child.todo) \in Faults
    /\ \/ /\ pipe' = Append(pipe, Head(child.todo))
          /\ child' = [child EXCEPT !.state = "exiting", !.fate = "reported"]
       \/ /\ "write" \in Faults
          /\ child' = [child EXCEPT !.state = "exiting", !.fate = "silent"]
          /\ UNCHANGED pipe
    /\ UNCHANGED <<document, pc, pid, pgid>>

ChildExits ==
    /\ child.state \in {"exiting", "program"}
    /\ child' = [child EXCEPT !.state = "zombie"]
    /\ UNCHANGED <<document, pc, pid, pgid, pipe>>

\* A signal kills the child before it has become the program.
ChildKilled ==
    /\ "killed" \in Faults
    /\ child.state \in {"setup", "exiting"}
    /\ child' = [child EXCEPT !.state = "zombie", !.fate = IF @ = "none" THEN "silent" ELSE @]
    /\ UNCHANGED <<document, pc, pid, pgid, pipe>>

-----------------------------------------------------------------------------
Parent == LoadManifest \/ Lookup \/ CreatePipe \/ Fork \/ ReadEndOfFile \/ ReadStatus \/ Reap
Child  == Step \/ StepFails \/ ChildExits \/ ChildKilled

Next == Parent \/ ReadFails \/ Child

Spec == Init /\ [][Next]_vars

\* open(2) of a FIFO that nobody has open at its other end does not return.
Path(step) == CASE step = "stdin"  -> m.stdin_path
                [] step = "stdout" -> m.stdout_path
                [] step = "stderr" -> m.stderr_path
                [] OTHER           -> "none"

Blocked == child.todo # <<>> /\ Path(Head(child.todo)) = "fifo"

(***************************************************************************)
(* The scheduler lets parent and child run; a program need not exit.       *)
(***************************************************************************)
FairSpec == Spec /\ WF_vars(Parent) /\ WF_vars(Step /\ ~Blocked)
                 /\ WF_vars(ChildExits /\ child.state = "exiting")

-----------------------------------------------------------------------------
(* Properties *)

\* Parent, child and pipe have their types, and a status in the pipe belongs to
\* the child at hand.
TypeOK ==
    /\ document \in Documents
    /\ pc \in {"load", "refused", "aborted", "lookup", "crashed", "pipe", "threw", "fork",
               "read", "started", "failed", "reaped", "killed itself"}
    /\ pid \in {-1, 0, 1}
    /\ pgid \in {"none", "own", "launchd"}
    /\ child.state \in {"none", "setup", "exiting", "program", "zombie", "launchd"}
    /\ child.fate \in {"none", "reported", "silent", "executed"}
    /\ child.uid \in Nat /\ child.gid \in Nat
    /\ pipe = <<>> \/ child.fate = "reported"

\* What run() returns is what happened: after false no child is left in any
\* state, whenever the status or the error reached the parent; and after true
\* the child has executed the program, however soon it exits or is killed,
\* unless it was killed before or could not write its report.  A child that
\* reported a failed step is never taken for a started job.
AnswerIsRight ==
    /\ pc \in {"failed", "threw"} => child.state = "none"
    /\ pc = "started" => \/ child.fate = "executed"
                         \/ child.fate = "silent" /\ {"killed", "write"} \cap Faults # {}

\* A program runs, and only then, with every step its manifest asks for behind
\* it.  With UserName it has left both of launchd's ids for those of the
\* manifest, in whichever order; without, it has kept them.
PreparedBeforeExec ==
    child.state = "program" =>
        /\ {Steps[i] : i \in DOMAIN Steps} = child.done \cup {"setsid", "execve"}
        /\ {child.uid, child.gid} = IF m.user_name = "none" THEN {0} ELSE {Uid, Gid}

\* A job with UserName runs as that user, in its group or that of GroupName.
RunsAsUser ==
    child.state = "program" /\ m.user_name # "none" => child.uid = Uid /\ child.gid = Gid

\* The exception for an empty path, which would turn the child into a second
\* launchd, cannot happen: rectify() and validate() accept no such manifest.
NoSecondLaunchd == child.state # "launchd" /\ (pc = "read" => m.program_arguments # <<>>)

\* launchd ends while a job is loaded or started only if the document has no
\* Label, or names a user and it or the group does not exist.
CrashExplained ==
    pc \in {"aborted", "crashed"} =>
        \/ "Label" \notin DOMAIN document
        \/ /\ "UserName" \in DOMAIN document
           /\ \/ document["UserName"] \notin DOMAIN Passwd
              \/ "GroupName" \in DOMAIN document /\ document["GroupName"] \notin DOMAIN Group

\* The manifest of the job as module Job sees it.
JobManifest == [run_at_load |-> m.run_at_load, keep_alive |-> m.keep_alive,
                start_interval |-> m.start_interval,
                throttle_interval |-> m.throttle_interval, disabled |-> m.disabled,
                abandon_process_group |-> m.abandon_process_group]

Abstract == INSTANCE Job WITH
    Backend <- "kqueue", Manifests <- {}, MaxClockStep <- 0,
    Faults <- {"exec", "fork", "pipe", "timer", "getpgid", "zombie", "kevent", "waitpid"}

\* A child that died before setsid(2): the one launch that Job does not have.
DiedInLaunchdsGroup == child.state = "zombie" /\ child.group = "launchd"

\* When run() is over the job's members are as StartJob of module Job leaves
\* them for one of RunOutcomes, and a child exists exactly if StartJob says so.
AgreesWithJob ==
    pc \in {"started", "failed", "threw"} /\ ~DiedInLaunchdsGroup =>
        \E r \in Abstract!RunOutcomes :
            LET a == [run |-> r, timer |-> "ok", t2 |-> 0, t3 |-> 0]
                s == Abstract!StartJob(Abstract!NewJob(JobManifest), a)
            IN /\ s.threw <=> pc = "threw"
               /\ s.job.pid = pid
               /\ s.job.pgid = (IF pgid = "own" THEN 1 ELSE -1)
               /\ s.job.proc # "none" <=> child.state # "none"
               /\ JobManifest \in Abstract!ManifestType

\* run() returns: the pipe is closed by exec, exit and death, so the parent,
\* which is the whole of launchd, does not wait for ever, unless the child
\* opens a FIFO.
RunReturns == (pc = "read" /\ "fifo" \notin {m.stdin_path, m.stdout_path, m.stderr_path})
                ~> (pc # "read")

\* Killing the remaining processes of a job's group never reaches launchd.
KillsOnlyTheJob == pc # "killed itself"
=============================================================================
