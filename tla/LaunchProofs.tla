---------------------------- MODULE LaunchProofs ----------------------------
(***************************************************************************)
(* The launch of a job, for every document and every set of faults.        *)
(*                                                                         *)
(* The argument: while the child prepares itself, what it has done and     *)
(* what it has left to do are together the steps its manifest asks for,    *)
(* with execve(2) as the last one, and its ids are launchd's own until the *)
(* step that sets them (ChildOK); a reported failure is in the pipe until  *)
(* the parent reads it (PipeOK); and the parent forks only for a document  *)
(* that was accepted and whose user and group were found (ParentOK).       *)
(***************************************************************************)
EXTENDS Launch, TLAPS

-----------------------------------------------------------------------------
(* The manifest and the steps *)

StepNames == {"setsid", "setpriority", "chdir", "chroot", "initgroups", "setgid", "setlogin",
              "setuid", "stdin", "stdout", "stderr", "calloc", "execve"}

\* The steps in a list.
StepsIn(s) == {s[i] : i \in 1 .. Len(s)}

\* A list of steps that ends with execve(2), which is nowhere else in it.
EndsWithExec(s) == /\ s \in Seq(StepNames) /\ Len(s) > 0
                   /\ s[Len(s)] = "execve"
                   /\ \A i \in 1 .. Len(s) - 1 : s[i] # "execve"

\* A list of steps before execve(2).
Before(s) == s \in Seq(StepNames) /\ "execve" \notin StepsIn(s)

\* An optional step is there or not.
LEMMA OnlyBefore ==
    ASSUME NEW step \in StepNames \ {"execve"}, NEW condition
    PROVE  /\ Before(Only(step, condition))
           /\ StepsIn(Only(step, condition)) = IF condition THEN {step} ELSE {}
<1> DEFINE o == Only(step, condition)
<1>1. o = IF condition THEN <<step>> ELSE <<>>
  BY DEF Only
<1> HIDE DEF o
<1>2. Before(<<step>>) /\ Before(<<>>) /\ StepsIn(<<step>>) = {step} /\ StepsIn(<<>>) = {}
  BY DEF Before, StepsIn
<1>3. Before(o) /\ StepsIn(o) = IF condition THEN {step} ELSE {}
  BY <1>1, <1>2
<1> QED  BY <1>3 DEF o

\* The elements of a concatenation.
LEMMA Concat ==
    ASSUME NEW T, NEW s \in Seq(T), NEW t \in Seq(T)
    PROVE  /\ s \o t \in Seq(T) /\ Len(s \o t) = Len(s) + Len(t)
           /\ \A i \in 1 .. Len(s) : (s \o t)[i] = s[i]
           /\ \A i \in Len(s) + 1 .. Len(s) + Len(t) : (s \o t)[i] = t[i - Len(s)]
    OBVIOUS

\* The steps in a concatenation.
LEMMA ConcatSteps ==
    ASSUME NEW s \in Seq(StepNames), NEW t \in Seq(StepNames)
    PROVE  StepsIn(s \o t) = StepsIn(s) \cup StepsIn(t)
<1>1. /\ Len(s) \in Nat /\ Len(t) \in Nat /\ Len(s \o t) = Len(s) + Len(t)
      /\ \A i \in 1 .. Len(s) : (s \o t)[i] = s[i]
      /\ \A i \in Len(s) + 1 .. Len(s) + Len(t) : (s \o t)[i] = t[i - Len(s)]
  OBVIOUS
<1>2. ASSUME NEW i \in 1 .. Len(s \o t) PROVE (s \o t)[i] \in StepsIn(s) \cup StepsIn(t)
  <2>1. CASE i <= Len(s)
    BY <1>1, <2>1 DEF StepsIn
  <2>2. CASE i > Len(s)
    <3>1. i - Len(s) \in 1 .. Len(t) /\ (s \o t)[i] = t[i - Len(s)]
      BY <1>1, <2>2
    <3> QED  BY <3>1 DEF StepsIn
  <2> QED  BY <1>1, <2>1, <2>2
<1>3. ASSUME NEW i \in 1 .. Len(s) PROVE s[i] \in StepsIn(s \o t)
  BY <1>1 DEF StepsIn
<1>4. ASSUME NEW i \in 1 .. Len(t) PROVE t[i] \in StepsIn(s \o t)
  <2>1. i + Len(s) \in 1 .. Len(s \o t) /\ (s \o t)[i + Len(s)] = t[i]
    <3>1. i + Len(s) \in Len(s) + 1 .. Len(s) + Len(t) /\ (i + Len(s)) - Len(s) = i
      BY <1>1
    <3> QED  BY <1>1, <3>1
  <2> QED  BY <2>1 DEF StepsIn
<1> QED  BY <1>2, <1>3, <1>4 DEF StepsIn

\* Adding steps at the end.
LEMMA ConcatBefore ==
    ASSUME NEW s, Before(s), NEW t, Before(t)
    PROVE  Before(s \o t) /\ StepsIn(s \o t) = StepsIn(s) \cup StepsIn(t)
<1>1. s \in Seq(StepNames) /\ t \in Seq(StepNames) /\ s \o t \in Seq(StepNames)
  BY DEF Before
<1>2. StepsIn(s \o t) = StepsIn(s) \cup StepsIn(t)
  BY <1>1, ConcatSteps
<1> QED  BY <1>1, <1>2 DEF Before

\* The list of start_child_process() begins with setsid(2) and ends with
\* execve(2), whatever the manifest asks for, and sets the ids for a UserName.
LEMMA StepsShape == /\ EndsWithExec(Steps) /\ "setsid" \in StepsIn(Steps)
                    /\ "setgid" \in StepsIn(Steps) <=> m.user_name # "none"
                    /\ "setuid" \in StepsIn(Steps) <=> m.user_name # "none"
<1> DEFINE user == m.user_name # "none"
           o2 == Only("setpriority", m.nice)
           o3 == Only("chdir", m.working_directory)
           o4 == Only("chroot", m.root_directory)
           o5 == Only("initgroups", user /\ m.init_groups)
           o6 == Only("setgid", user)
           o7 == Only("setlogin", user)
           o8 == Only("setuid", user)
           t  == <<"stdin", "stdout", "stderr", "calloc", "execve">>
           Plain(q)  == /\ Before(q) /\ "setsid" \in StepsIn(q)
                        /\ "setgid" \notin StepsIn(q) /\ "setuid" \notin StepsIn(q)
           s5 == <<"setsid">> \o o2 \o o3 \o o4 \o o5
           s8 == s5 \o o6 \o o7 \o o8
<1>1. Steps = s8 \o t
  BY DEF Steps
<1>2. Plain(<<"setsid">>)
  BY DEF Before, StepsIn, StepNames
<1>3. /\ Before(o2) /\ Before(o3) /\ Before(o4) /\ Before(o5)
      /\ StepsIn(o2) \subseteq {"setpriority"} /\ StepsIn(o3) \subseteq {"chdir"}
      /\ StepsIn(o4) \subseteq {"chroot"} /\ StepsIn(o5) \subseteq {"initgroups"}
  BY OnlyBefore DEF StepNames
<1>4. /\ Before(o6) /\ Before(o7) /\ Before(o8)
      /\ StepsIn(o6) = IF user THEN {"setgid"} ELSE {}
      /\ StepsIn(o7) = IF user THEN {"setlogin"} ELSE {}
      /\ StepsIn(o8) = IF user THEN {"setuid"} ELSE {}
  BY OnlyBefore DEF StepNames
<1>5. ASSUME NEW q, Plain(q), NEW o, Before(o), "setgid" \notin StepsIn(o), "setuid" \notin StepsIn(o)
      PROVE  Plain(q \o o)
  BY <1>5, ConcatBefore
<1> HIDE DEF Plain, user, t, o2, o3, o4, o5, o6, o7, o8
<1>6. Plain(<<"setsid">> \o o2 \o o3)
  BY <1>2, <1>3, <1>5
<1>7. Plain(s5)
  BY <1>3, <1>5, <1>6
<1> HIDE DEF s5
<1>8. /\ Before(s5 \o o6 \o o7)
      /\ StepsIn(s5 \o o6 \o o7) = StepsIn(s5) \cup StepsIn(o6) \cup StepsIn(o7)
  BY <1>4, <1>7, ConcatBefore DEF Plain
<1>9. Before(s8) /\ StepsIn(s8) = StepsIn(s5) \cup StepsIn(o6) \cup StepsIn(o7) \cup StepsIn(o8)
  BY <1>4, <1>8, ConcatBefore
<1>10. /\ Before(s8) /\ "setsid" \in StepsIn(s8)
       /\ "setgid" \in StepsIn(s8) <=> user
       /\ "setuid" \in StepsIn(s8) <=> user
  BY <1>4, <1>7, <1>9 DEF Plain
<1> HIDE DEF s8
<1>11. /\ t \in Seq(StepNames) /\ Len(t) = 5 /\ t[5] = "execve"
       /\ \A i \in 1 .. 4 : t[i] # "execve"
       /\ "setgid" \notin StepsIn(t) /\ "setuid" \notin StepsIn(t)
  BY DEF t, StepNames, StepsIn
<1> DEFINE s == s8 \o t
           n == Len(s8)
<1>12. /\ s8 \in Seq(StepNames) /\ n \in Nat /\ \A i \in 1 .. n : s8[i] # "execve"
  BY <1>10 DEF Before, StepsIn
<1>13. /\ s \in Seq(StepNames) /\ Len(s) = n + 5
       /\ \A i \in 1 .. n : s[i] = s8[i]
       /\ \A i \in n + 1 .. n + 5 : s[i] = t[i - n]
  <2>1. s \in Seq(StepNames) /\ Len(s) = n + Len(t)
    BY <1>11, <1>12, Concat
  <2>2. s8 \in Seq(StepNames) /\ t \in Seq(StepNames)
    BY <1>11, <1>12
  <2>3. \A i \in 1 .. n : s[i] = s8[i]
    BY <2>2, Concat
  <2>4. \A i \in n + 1 .. n + Len(t) : s[i] = t[i - n]
    BY <2>2, Concat
  <2> QED  BY <1>11, <2>1, <2>3, <2>4
<1> HIDE DEF s, n
<1>14. s[Len(s)] = "execve"
  <2>1. s[n + 5] = t[(n + 5) - n] /\ (n + 5) - n = 5
    BY <1>12, <1>13
  <2> QED  BY <1>11, <1>13, <2>1
<1>15. ASSUME NEW i \in 1 .. Len(s) - 1 PROVE s[i] # "execve"
  <2>1. CASE i <= n
    BY <1>12, <1>13, <2>1
  <2>2. CASE i > n
    <3>1. i - n \in 1 .. 4 /\ s[i] = t[i - n]
      BY <1>12, <1>13, <2>2
    <3> QED  BY <1>11, <3>1
  <2> QED  BY <1>12, <1>13, <2>1, <2>2
<1>16. /\ "setsid" \in StepsIn(s)
       /\ "setgid" \in StepsIn(s) <=> user
       /\ "setuid" \in StepsIn(s) <=> user
  <2>1. StepsIn(s) = StepsIn(s8) \cup StepsIn(t)
    BY <1>11, <1>12, ConcatSteps DEF s
  <2> QED  BY <1>10, <1>11, <2>1
<1>17. EndsWithExec(s)
  BY <1>12, <1>13, <1>14, <1>15 DEF EndsWithExec
<1> QED  BY <1>1, <1>16, <1>17 DEF s, user

\* Taking the next step from a list.
LEMMA NextStep ==
    ASSUME NEW s, EndsWithExec(s)
    PROVE  /\ Head(s) \in StepNames
           /\ Head(s) = "execve" => StepsIn(s) = {"execve"}
           /\ Head(s) # "execve" => /\ EndsWithExec(Tail(s))
                                    /\ StepsIn(s) = {Head(s)} \cup StepsIn(Tail(s))
<1>1. /\ s \in Seq(StepNames) /\ Len(s) \in Nat /\ Len(s) > 0 /\ Head(s) = s[1]
      /\ Tail(s) \in Seq(StepNames) /\ Len(Tail(s)) = Len(s) - 1
      /\ \A i \in 1 .. Len(s) - 1 : Tail(s)[i] = s[i + 1]
      /\ s[1] \in StepNames
  BY DEF EndsWithExec
<1>2. Head(s) = "execve" => Len(s) = 1
  BY <1>1 DEF EndsWithExec
<1>3. Head(s) # "execve" => Len(s) > 1
  BY <1>1 DEF EndsWithExec
<1>4. ASSUME Head(s) # "execve" PROVE EndsWithExec(Tail(s))
  BY <1>1, <1>3, <1>4 DEF EndsWithExec
<1>5. StepsIn(s) = {Head(s)} \cup StepsIn(Tail(s))
  <2>1. ASSUME NEW i \in 1 .. Len(s) PROVE s[i] \in {Head(s)} \cup StepsIn(Tail(s))
    <3>1. CASE i = 1
      BY <1>1, <3>1
    <3>2. CASE i # 1
      <4>1. i - 1 \in 1 .. Len(Tail(s)) /\ Tail(s)[i - 1] = s[i]
        BY <1>1, <3>2
      <4> QED  BY <4>1 DEF StepsIn
    <3> QED  BY <3>1, <3>2
  <2>2. ASSUME NEW i \in 1 .. Len(Tail(s)) PROVE Tail(s)[i] \in StepsIn(s)
    <3>1. i + 1 \in 1 .. Len(s) /\ Tail(s)[i] = s[i + 1]
      BY <1>1
    <3> QED  BY <3>1 DEF StepsIn
  <2> QED  BY <1>1, <2>1, <2>2 DEF StepsIn
<1>6. Head(s) = "execve" => StepsIn(s) = {"execve"}
  BY <1>1, <1>2 DEF StepsIn
<1> QED  BY <1>1, <1>4, <1>5, <1>6

\* rectify() leaves an accepted manifest with a program and its arguments.
LEMMA AcceptedHasProgram ==
    ASSUME NEW j \in Documents, Parse(j) = "accepted"
    PROVE  /\ Rectify(FromJson(j)).program # "none"
           /\ Rectify(FromJson(j)).program_arguments # <<>>
<1> DEFINE r == FromJson(j)
<1>1. /\ r.program = Get(j, "Program", "none")
      /\ r.program_arguments = Get(j, "ProgramArguments", <<>>)
  BY DEF FromJson
<1>2. r.program_arguments \in Seq(STRING \ {"none"})
  BY <1>1, DocumentsAssumption
<1>3. r.program # "none" \/ r.program_arguments # <<>>
  BY DEF Parse, RectifyThrows
<1>4. Rectify(r).program = IF r.program = "none" THEN Head(r.program_arguments) ELSE r.program
  BY DEF Rectify, FromJson
<1>5. Rectify(r).program_arguments = IF r.program_arguments = <<>> THEN <<r.program>>
                                     ELSE r.program_arguments
  BY DEF Rectify, FromJson
<1> HIDE DEF r
<1>6. r.program_arguments # <<>> => Head(r.program_arguments) # "none"
  BY <1>2
<1>7. Rectify(r).program # "none" /\ Rectify(r).program_arguments # <<>>
  BY <1>3, <1>4, <1>5, <1>6
<1> QED  BY <1>7 DEF r

\* The manifest of any document has the type that module Job assumes.
LEMMA ManifestIsTyped ==
    ASSUME document \in Documents
    PROVE  JobManifest \in Abstract!ManifestType
<1> DEFINE r == FromJson(document)
<1>1. /\ r.run_at_load = Get(document, "RunAtLoad", FALSE)
      /\ r.disabled = Get(document, "Disabled", FALSE)
      /\ r.abandon_process_group = Get(document, "AbandonProcessGroup", FALSE)
      /\ r.keep_alive \in BOOLEAN
      /\ r.start_interval = Get(document, "StartInterval", -1)
      /\ r.throttle_interval = Get(document, "ThrottleInterval", 10)
  BY DEF FromJson
<1>2. r.run_at_load \in BOOLEAN /\ r.disabled \in BOOLEAN /\ r.abandon_process_group \in BOOLEAN
  BY <1>1, DocumentsAssumption
<1>3. r.start_interval \in {-1} \cup Nat /\ r.throttle_interval \in Nat
  <2>1. Get(document, "StartInterval", 0) \in Nat /\ Get(document, "ThrottleInterval", 0) \in Nat
    BY DocumentsAssumption
  <2>2. Get(document, "StartInterval", -1) \in {-1, Get(document, "StartInterval", 0)}
    BY DEF Get
  <2>3. Get(document, "ThrottleInterval", 10) \in {10, Get(document, "ThrottleInterval", 0)}
    BY DEF Get
  <2> HIDE DEF r
  <2> QED  BY <1>1, <2>1, <2>2, <2>3
<1>4. /\ m.run_at_load = r.run_at_load /\ m.disabled = r.disabled
      /\ m.abandon_process_group = r.abandon_process_group /\ m.keep_alive = r.keep_alive
      /\ m.start_interval = r.start_interval /\ m.throttle_interval = r.throttle_interval
  <2>1. m.run_at_load = r.run_at_load  BY DEF m, Rectify, FromJson
  <2>2. m.disabled = r.disabled  BY DEF m, Rectify, FromJson
  <2>3. m.abandon_process_group = r.abandon_process_group  BY DEF m, Rectify, FromJson
  <2>4. m.keep_alive = r.keep_alive  BY DEF m, Rectify, FromJson
  <2>5. m.start_interval = r.start_interval  BY DEF m, Rectify, FromJson
  <2>6. m.throttle_interval = r.throttle_interval  BY DEF m, Rectify, FromJson
  <2> QED  BY <2>1, <2>2, <2>3, <2>4, <2>5, <2>6
<1> HIDE DEF r
<1> QED  BY <1>1, <1>2, <1>3, <1>4 DEF JobManifest, Abstract!ManifestType, Abstract!NoInterval

-----------------------------------------------------------------------------
(* The inductive invariant *)

ChildType == [state : {"none", "setup", "exiting", "program", "zombie", "launchd"},
              group : {"own", "launchd"}, todo : Seq(StepNames), done : SUBSET StepNames,
              fate : {"none", "reported", "silent", "executed"}, uid : Nat, gid : Nat]

\* The names in the manifest were found by getpwnam() and getgrnam().
Known == m.user_name # "none" =>
            /\ m.user_name \in DOMAIN Passwd
            /\ m.group_name # "none" => m.group_name \in DOMAIN Group

\* A child may end without a report.
MayBeSilent == {"killed", "write"} \cap Faults # {}

\* Where the parent is tells which document it has, whether there is a child,
\* and what Job's members hold.
ParentOK ==
    /\ document \in Documents
    /\ pc \in {"load", "refused", "aborted", "lookup", "crashed", "pipe", "threw", "fork",
               "read", "started", "failed", "reaped", "killed itself"}
    /\ pc \notin {"load", "refused", "aborted"} => Parse(document) = "accepted"
    /\ pc \notin {"load", "refused", "aborted", "lookup", "crashed"} => Known
    /\ pid \in {-1, 0, 1}
    /\ pc \in {"lookup", "pipe", "fork", "load", "threw"} => pid = 0
    /\ pc \in {"read", "started"} => pid = 1
    /\ pc = "failed" => pid \in {-1, 0}
    /\ pgid \in {"none", "own", "launchd"}
    /\ pc \notin {"started", "reaped", "killed itself"} => pgid = "none"
    /\ pc = "started" => pgid \in {child.group, "none"}
    /\ pc = "killed itself" => MayBeSilent

\* The steps behind the child and the steps before it are those of its manifest.
Preparing == /\ EndsWithExec(child.todo)
             /\ StepsIn(Steps) = child.done \cup StepsIn(child.todo) \cup {"setsid"}
             /\ "setsid" \in StepsIn(child.todo) \/ child.group = "own"
             /\ child.gid = IF "setgid" \in child.done THEN Ctx.gid ELSE 0
             /\ child.uid = IF "setuid" \in child.done THEN Ctx.uid ELSE 0

ChildOK ==
    /\ child \in ChildType
    /\ child.state \in {"setup", "exiting"} => pc = "read"
    /\ child.state \in {"program", "zombie"} => pc \in {"read", "started"}
    /\ pc \in {"read", "started"} => child.state # "none"
    /\ child.state # "launchd"
    /\ child.state \in {"none", "setup"} => child.fate = "none"
    /\ child.state = "setup" => Preparing
    /\ child.state = "exiting" => child.fate \in {"reported", "silent"}
    /\ child.state = "program" => child.fate = "executed" /\ PreparedBeforeExec
    /\ child.state = "zombie" => child.fate # "none"
    /\ child.fate = "executed" => child.group = "own"
    /\ child.fate = "silent" => MayBeSilent

\* A reported failure waits in the pipe, and nothing else does.
PipeOK == /\ pipe # <<>> => child.fate = "reported"
          /\ child.fate = "reported" => pc = "read" /\ pipe # <<>>

IInv == ParentOK /\ ChildOK /\ PipeOK /\ CrashExplained

\* Without a child the record of the child has its type.
LEMMA NoChildType == NoChild \in ChildType /\ NoChild.state = "none" /\ NoChild.fate = "none"
    BY DEF NoChild, ChildType

\* What follows from the document only stays while it does.
LEMMA SameDocument ==
    ASSUME document' = document
    PROVE  /\ Steps' = Steps /\ m' = m /\ (Known' <=> Known)
           /\ Uid' = Uid /\ Gid' = Gid /\ Ctx' = Ctx
<1>1. m' = m
  BY DEF m
<1>2. Uid' = Uid /\ Gid' = Gid
  BY <1>1 DEF Uid, Gid
<1> QED  BY <1>1, <1>2 DEF Steps, Known, Ctx

\* The ids that run() hands to the child.
LEMMA CtxTyped ==
    ASSUME Known, m.user_name # "none"
    PROVE  Ctx.uid \in Nat /\ Ctx.gid \in Nat /\ Ctx.uid = Gid /\ Ctx.gid = Uid
<1>1. Uid \in Nat
  BY PasswdAssumption DEF Known, Uid
<1>2. Gid \in Nat
  BY PasswdAssumption, GroupAssumption DEF Known, Gid
<1> QED  BY <1>1, <1>2 DEF Ctx

\* Before the first step.
LEMMA InitInv == Init => IInv
<1> SUFFICES ASSUME Init PROVE IInv
  OBVIOUS
<1>1. child \in ChildType /\ child.state = "none" /\ child.fate = "none"
  BY DEF Init, NoChild, ChildType
<1> QED  BY <1>1 DEF Init, IInv, ParentOK, ChildOK, PipeOK, CrashExplained

\* A step of the parent that only moves it on, before the fork.
LEMMA LoadInv ==
    ASSUME IInv, LoadManifest \/ Lookup \/ CreatePipe
    PROVE  IInv'
<1>1. /\ UNCHANGED <<document, pid, pgid, child, pipe>>
      /\ pc \in {"load", "lookup", "pipe"}
      /\ pc' \in {"lookup", "refused", "aborted", "crashed", "pipe", "fork", "threw"}
      /\ pc' \notin {"refused", "aborted"} => Parse(document) = "accepted"
      /\ pc' \notin {"lookup", "refused", "aborted", "crashed"} => Known
  BY DEF LoadManifest, Lookup, CreatePipe, IInv, ParentOK, Known
<1>2. ParentOK'
  BY <1>1, SameDocument DEF IInv, ParentOK, Known, MayBeSilent
<1>3. child.state = "none"
  BY <1>1 DEF IInv, ChildOK, ChildType
<1>4. ChildOK' /\ PipeOK'
  BY <1>1, <1>3 DEF IInv, ChildOK, PipeOK
<1>5. CrashExplained'
  <2>1. CASE LoadManifest
    <3>1. pc' = "aborted" => FromJson(document).label = "" /\ ~FromJsonThrows(document)
      BY <2>1 DEF LoadManifest, Parse
    <3>2. FromJson(document).label = Get(document, "Label", "")
      BY DEF FromJson
    <3>3. pc' = "aborted" => "Label" \notin DOMAIN document
      BY <3>1, <3>2 DEF FromJsonThrows, Get
    <3>4. pc' # "crashed"
      BY <2>1 DEF LoadManifest
    <3> QED  BY <1>1, <3>3, <3>4 DEF CrashExplained
  <2>2. CASE Lookup
    <3>1. /\ pc' # "aborted"
          /\ pc' = "crashed" => /\ m.user_name # "none"
                                /\ \/ m.user_name \notin DOMAIN Passwd
                                   \/ m.group_name # "none" /\ m.group_name \notin DOMAIN Group
      BY <2>2 DEF Lookup
    <3>2. /\ FromJson(document).user_name = Get(document, "UserName", "none")
          /\ FromJson(document).group_name = Get(document, "GroupName", "none")
      BY DEF FromJson
    <3>3. m.user_name = FromJson(document).user_name
      BY DEF m, Rectify, FromJson
    <3>4. m.group_name = FromJson(document).group_name
      BY DEF m, Rectify, FromJson
    <3>5. pc' = "crashed" => /\ "UserName" \in DOMAIN document
                             /\ \/ document["UserName"] \notin DOMAIN Passwd
                                \/ /\ "GroupName" \in DOMAIN document
                                   /\ document["GroupName"] \notin DOMAIN Group
      BY <3>1, <3>2, <3>3, <3>4 DEF Get
    <3> QED  BY <1>1, <3>1, <3>5 DEF CrashExplained
  <2>3. CASE CreatePipe
    BY <1>1, <2>3 DEF CreatePipe, CrashExplained
  <2> QED  BY <2>1, <2>2, <2>3
<1> QED  BY <1>2, <1>4, <1>5 DEF IInv

\* fork(2): the child has all steps before it.
LEMMA ForkInv ==
    ASSUME IInv, Fork
    PROVE  IInv'
<1>1. pc = "fork" /\ UNCHANGED <<document, pgid, pipe>>
  BY DEF Fork
<1>2. child.state = "none" /\ child.fate = "none" /\ pipe = <<>> /\ child \in ChildType
  BY <1>1 DEF IInv, ChildOK, PipeOK, ChildType
<1>3. CASE pc' = "failed" /\ pid' = -1 /\ child' = child
  BY <1>1, <1>2, <1>3, SameDocument DEF IInv, ParentOK, ChildOK, PipeOK, CrashExplained
<1>4. CASE /\ pc' = "read" /\ pid' = 1
           /\ child' = [NoChild EXCEPT !.state = "setup", !.todo = Steps]
  <2>1. /\ child'.state = "setup" /\ child'.group = "launchd" /\ child'.todo = Steps
        /\ child'.done = {} /\ child'.fate = "none" /\ child'.uid = 0 /\ child'.gid = 0
    BY <1>4 DEF NoChild
  <2>2. Steps \in Seq(StepNames)
    BY StepsShape DEF EndsWithExec
  <2>3. child' \in ChildType
    BY <1>4, <2>2 DEF NoChild, ChildType
  <2>4. Preparing'
    BY <1>1, <2>1, StepsShape, SameDocument DEF Preparing
  <2>5. ChildOK'
    BY <1>4, <2>1, <2>3, <2>4 DEF ChildOK
  <2> QED  BY <1>1, <1>2, <1>4, <2>1, <2>5, SameDocument DEF IInv, ParentOK, PipeOK, CrashExplained
<1> QED  BY <1>3, <1>4 DEF Fork

\* The end of the pipe: no step has failed, or its status were there.
LEMMA ReadEndOfFileInv ==
    ASSUME IInv, ReadEndOfFile
    PROVE  IInv'
<1>1. /\ pc = "read" /\ pipe = <<>> /\ child.state \in {"program", "zombie"}
      /\ pc' = "started" /\ pgid' \in {child.group, "none"}
      /\ UNCHANGED <<document, pid, child, pipe>>
  BY DEF ReadEndOfFile, EndOfFile
<1>2. child.fate # "reported" /\ child.group \in {"own", "launchd"}
  BY <1>1 DEF IInv, PipeOK, ChildOK, ChildType
<1>3. PreparedBeforeExec' <=> PreparedBeforeExec
  BY <1>1, SameDocument DEF PreparedBeforeExec
<1>4. ParentOK'
  BY <1>1, <1>2, SameDocument DEF IInv, ParentOK
<1>5. ChildOK'
  BY <1>1, <1>2, <1>3 DEF IInv, ChildOK
<1> QED  BY <1>1, <1>2, <1>4, <1>5 DEF IInv, PipeOK, CrashExplained

\* No child is left.
LEMMA NoChildInv ==
    ASSUME IInv, pc \in {"read", "started"}, child' = NoChild, pipe' = <<>>, document' = document,
           \/ pc' = "failed" /\ pid' = 0 /\ pgid' = "none"
           \/ pc' = "reaped" /\ pid' = 0 /\ pgid' = pgid
           \/ pc' = "killed itself" /\ pid' = 0 /\ pgid' = pgid /\ MayBeSilent
    PROVE  IInv'
<1>1. child' \in ChildType /\ child'.state = "none" /\ child'.fate = "none"
  BY NoChildType
<1>2. ParentOK'
  <2>1. /\ document \in Documents /\ Parse(document) = "accepted" /\ Known
        /\ pgid \in {"none", "own", "launchd"}
    BY DEF IInv, ParentOK
  <2>2. /\ pc' \in {"failed", "reaped", "killed itself"} /\ pid' = 0
        /\ pc' = "failed" => pgid' = "none"
        /\ pc' = "killed itself" => MayBeSilent
        /\ pgid' \in {"none", pgid}
    OBVIOUS
  <2> QED  BY <2>1, <2>2, SameDocument DEF ParentOK
<1>3. ChildOK'
  BY <1>1 DEF ChildOK
<1> QED  BY <1>1, <1>2, <1>3 DEF IInv, PipeOK, CrashExplained

\* A status or an error of read(2), and the handling of the exit.
LEMMA EndInv ==
    ASSUME IInv, ReadStatus \/ ReadFails \/ Reap
    PROVE  IInv'
<1>1. CASE ReadStatus \/ ReadFails
  <2>1. /\ pc = "read" /\ pc' = "failed" /\ pid' = 0 /\ child' = NoChild /\ pipe' = <<>>
        /\ UNCHANGED <<document, pgid>>
    BY <1>1 DEF ReadStatus, ReadFails, KillChild
  <2>2. pgid = "none"
    BY <2>1 DEF IInv, ParentOK
  <2> QED  BY <2>1, <2>2, NoChildInv
<1>2. CASE Reap
  <2>1. /\ pc = "started" /\ child.state = "zombie" /\ pid' = 0 /\ child' = NoChild
        /\ UNCHANGED <<document, pgid, pipe>>
        /\ \/ pc' = "reaped"
           \/ pc' = "killed itself" /\ pgid = "launchd"
    BY <1>2 DEF Reap
  <2>2. pipe = <<>> /\ child.fate # "reported"
    BY <2>1 DEF IInv, PipeOK
  <2>3. pgid = "launchd" => MayBeSilent
    BY <2>1, <2>2 DEF IInv, ParentOK, ChildOK, ChildType
  <2> QED  BY <2>1, <2>2, <2>3, NoChildInv
<1> QED  BY <1>1, <1>2

\* A step of the child succeeds.
LEMMA StepInv ==
    ASSUME IInv, Step
    PROVE  IInv'
<1> DEFINE s == Head(child.todo)
           c == [child EXCEPT !.todo = Tail(@)]
<1>1. /\ child.state = "setup" /\ UNCHANGED <<document, pc, pid, pgid, pipe>>
      /\ child' = After(s)
  BY DEF Step
<1>2. child \in ChildType /\ pc = "read" /\ child.fate = "none" /\ Preparing
  BY <1>1 DEF IInv, ChildOK
<1>3. m.program # "none" /\ Known
  <2>1. document \in Documents /\ Parse(document) = "accepted" /\ Known
    BY <1>2 DEF IInv, ParentOK
  <2> QED  BY <2>1, AcceptedHasProgram DEF m
<1>4. /\ s \in StepNames
      /\ s = "execve" => StepsIn(child.todo) = {"execve"}
      /\ s # "execve" => /\ EndsWithExec(Tail(child.todo))
                         /\ StepsIn(child.todo) = {s} \cup StepsIn(Tail(child.todo))
      /\ s \in StepsIn(Steps)
  <2>1. EndsWithExec(child.todo)
    BY <1>2 DEF Preparing
  <2>2. /\ s \in StepNames
        /\ s = "execve" => StepsIn(child.todo) = {"execve"}
        /\ s # "execve" => /\ EndsWithExec(Tail(child.todo))
                           /\ StepsIn(child.todo) = {s} \cup StepsIn(Tail(child.todo))
    BY <2>1, NextStep
  <2> QED  BY <1>2, <2>2 DEF Preparing
<1>5. Tail(child.todo) \in Seq(StepNames)
  BY <1>2 DEF Preparing, EndsWithExec
<1>6. /\ c \in ChildType /\ c.state = "setup" /\ c.group = child.group /\ c.done = child.done
      /\ c.fate = "none" /\ c.todo = Tail(child.todo) /\ c.uid = child.uid /\ c.gid = child.gid
  BY <1>1, <1>2, <1>5 DEF ChildType
<1>7. StepsIn(Steps)' = StepsIn(Steps) /\ Ctx' = Ctx
  BY <1>1, SameDocument DEF StepsIn
<1>8. child' = CASE s = "setsid" -> [c EXCEPT !.group = "own"]
                 [] s = "setgid" -> [c EXCEPT !.done = @ \cup {s}, !.gid = Ctx.gid]
                 [] s = "setuid" -> [c EXCEPT !.done = @ \cup {s}, !.uid = Ctx.uid]
                 [] s = "execve" -> [c EXCEPT !.state = "program", !.fate = "executed"]
                 [] OTHER        -> [c EXCEPT !.done = @ \cup {s}]
  BY <1>1, <1>3 DEF After
<1> HIDE DEF c, s
<1>9. ChildOK' /\ child'.fate # "reported"
  <2>1. CASE s = "execve"
    <3>1. child' = [c EXCEPT !.state = "program", !.fate = "executed"]
      BY <1>8, <2>1
    <3>2. /\ child' \in ChildType /\ child'.state = "program" /\ child'.group = child.group
          /\ child'.done = child.done /\ child'.fate = "executed"
          /\ child'.uid = child.uid /\ child'.gid = child.gid
      BY <1>6, <3>1 DEF ChildType
    <3>3. child.group = "own"
      BY <1>2, <1>4, <2>1 DEF Preparing
    <3>4. StepsIn(Steps) = child.done \cup {"execve"} \cup {"setsid"}
      BY <1>2, <1>4, <2>1 DEF Preparing
    <3>5. DOMAIN Steps = 1 .. Len(Steps)
      BY StepsShape DEF EndsWithExec
    <3>6. {Steps[i] : i \in DOMAIN Steps} = child.done \cup {"setsid", "execve"}
      BY <3>4, <3>5 DEF StepsIn
    <3>7. {child.uid, child.gid} = IF m.user_name = "none" THEN {0} ELSE {Uid, Gid}
      <4>1. /\ "setgid" \in child.done <=> m.user_name # "none"
            /\ "setuid" \in child.done <=> m.user_name # "none"
        BY <3>4, StepsShape
      <4>2. CASE m.user_name = "none"
        <5>1. child.uid = 0 /\ child.gid = 0
          BY <1>2, <4>1, <4>2 DEF Preparing
        <5> QED  BY <4>2, <5>1
      <4>3. CASE m.user_name # "none"
        <5>1. child.uid = Gid /\ child.gid = Uid
          BY <1>2, <1>3, <4>1, <4>3, CtxTyped DEF Preparing
        <5> QED  BY <4>3, <5>1
      <4> QED  BY <4>2, <4>3
    <3>8. PreparedBeforeExec'
      BY <1>1, <3>2, <3>6, <3>7, SameDocument DEF PreparedBeforeExec
    <3> QED  BY <1>1, <1>2, <3>2, <3>3, <3>8 DEF ChildOK
  <2>2. CASE s = "setsid"
    <3>1. child' = [c EXCEPT !.group = "own"]
      BY <1>8, <2>2
    <3>2. /\ child' \in ChildType /\ child'.state = "setup" /\ child'.group = "own"
          /\ child'.done = child.done /\ child'.fate = "none"
          /\ child'.todo = Tail(child.todo) /\ child'.uid = child.uid /\ child'.gid = child.gid
      BY <1>6, <3>1 DEF ChildType
    <3>3. Preparing'
      <4>1. EndsWithExec(child'.todo)
        BY <1>4, <2>2, <3>2
      <4>2. StepsIn(Steps) = child'.done \cup StepsIn(child'.todo) \cup {"setsid"}
        BY <1>2, <1>4, <2>2, <3>2 DEF Preparing
      <4>3. /\ child'.gid = IF "setgid" \in child'.done THEN Ctx.gid ELSE 0
            /\ child'.uid = IF "setuid" \in child'.done THEN Ctx.uid ELSE 0
        BY <1>2, <3>2 DEF Preparing
      <4> QED  BY <1>7, <3>2, <4>1, <4>2, <4>3 DEF Preparing
    <3> QED  BY <1>1, <1>2, <3>2, <3>3 DEF ChildOK
  <2>3. CASE s \notin {"execve", "setsid"}
    <3>1. s \in {"setgid", "setuid"} => Ctx.gid \in Nat /\ Ctx.uid \in Nat
      BY <1>3, <1>4, StepsShape, CtxTyped
    <3>2. /\ child' \in ChildType /\ child'.state = "setup" /\ child'.group = child.group
          /\ child'.done = child.done \cup {s} /\ child'.fate = "none"
          /\ child'.todo = Tail(child.todo)
          /\ child'.gid = (IF s = "setgid" THEN Ctx.gid ELSE child.gid)
          /\ child'.uid = (IF s = "setuid" THEN Ctx.uid ELSE child.uid)
      <4>1. CASE s = "setgid"
        <5>1. child' = [c EXCEPT !.done = @ \cup {s}, !.gid = Ctx.gid]
          BY <1>8, <4>1
        <5> QED  BY <1>4, <1>6, <3>1, <4>1, <5>1 DEF ChildType
      <4>2. CASE s = "setuid"
        <5>1. child' = [c EXCEPT !.done = @ \cup {s}, !.uid = Ctx.uid]
          BY <1>8, <4>2
        <5> QED  BY <1>4, <1>6, <3>1, <4>2, <5>1 DEF ChildType
      <4>3. CASE s \notin {"setgid", "setuid"}
        <5>1. child' = [c EXCEPT !.done = @ \cup {s}]
          BY <1>8, <2>3, <4>3
        <5> QED  BY <1>4, <1>6, <4>3, <5>1 DEF ChildType
      <4> QED  BY <4>1, <4>2, <4>3
    <3>3. Preparing'
      <4>1. EndsWithExec(child'.todo)
        BY <1>4, <2>3, <3>2
      <4>2. StepsIn(Steps) = child'.done \cup StepsIn(child'.todo) \cup {"setsid"}
        BY <1>2, <1>4, <2>3, <3>2 DEF Preparing
      <4>3. "setsid" \in StepsIn(child'.todo) \/ child'.group = "own"
        BY <1>2, <1>4, <2>3, <3>2 DEF Preparing
      <4>4. /\ child'.gid = IF "setgid" \in child'.done THEN Ctx.gid ELSE 0
            /\ child'.uid = IF "setuid" \in child'.done THEN Ctx.uid ELSE 0
        BY <1>2, <3>2 DEF Preparing
      <4> QED  BY <1>7, <4>1, <4>2, <4>3, <4>4 DEF Preparing
    <3> QED  BY <1>1, <1>2, <3>2, <3>3 DEF ChildOK
  <2> QED  BY <2>1, <2>2, <2>3
<1>10. ParentOK'
  BY <1>1, <1>2, SameDocument DEF IInv, ParentOK
<1> QED  BY <1>1, <1>2, <1>9, <1>10 DEF IInv, PipeOK, CrashExplained

\* A step of the child fails, or the child ends.
LEMMA ChildEndsInv ==
    ASSUME IInv, StepFails \/ ChildExits \/ ChildKilled
    PROVE  IInv'
<1>0. child \in ChildType
  BY DEF IInv, ChildOK
<1>1. CASE StepFails
  <2>1. /\ child.state = "setup" /\ UNCHANGED <<document, pc, pid, pgid>>
        /\ \/ /\ pipe' = Append(pipe, Head(child.todo))
              /\ child' = [child EXCEPT !.state = "exiting", !.fate = "reported"]
           \/ /\ MayBeSilent /\ pipe' = pipe
              /\ child' = [child EXCEPT !.state = "exiting", !.fate = "silent"]
    BY <1>1 DEF StepFails, MayBeSilent
  <2>2. pc = "read" /\ pipe = <<>>
    BY <2>1 DEF IInv, ChildOK, PipeOK
  <2>3. /\ child' \in ChildType /\ child'.state = "exiting"
        /\ \/ child'.fate = "reported" /\ pipe' # <<>>
           \/ child'.fate = "silent" /\ pipe' = <<>> /\ MayBeSilent
    <3>1. Append(pipe, Head(child.todo)) # <<>>
      BY <2>2
    <3> QED  BY <1>0, <2>1, <2>2, <3>1 DEF ChildType
  <2>4. ChildOK' /\ PipeOK'
    BY <2>1, <2>2, <2>3 DEF ChildOK, PipeOK
  <2> QED  BY <2>1, <2>2, <2>4, SameDocument DEF IInv, ParentOK, CrashExplained
<1>2. CASE ChildExits \/ ChildKilled
  <2>1. /\ \/ /\ child.state \in {"exiting", "program"}
              /\ child' = [child EXCEPT !.state = "zombie"]
           \/ /\ child.state \in {"setup", "exiting"} /\ MayBeSilent
              /\ child' = [child EXCEPT !.state = "zombie",
                                       !.fate = IF @ = "none" THEN "silent" ELSE @]
        /\ UNCHANGED <<document, pc, pid, pgid, pipe>>
    BY <1>2 DEF ChildExits, ChildKilled, MayBeSilent
  <2>2. /\ child' \in ChildType /\ child'.state = "zombie" /\ child'.group = child.group
        /\ \/ child'.fate = child.fate /\ child.fate # "none"
           \/ child'.fate = "silent" /\ child.fate = "none" /\ MayBeSilent
    <3>1. child.state \in {"exiting", "program"} => child.fate # "none"
      BY DEF IInv, ChildOK
    <3> QED  BY <1>0, <2>1, <3>1 DEF ChildType
  <2>3. pc \in {"read", "started"}
    BY <2>1 DEF IInv, ChildOK
  <2>4. ChildOK' /\ PipeOK'
    BY <2>1, <2>2, <2>3 DEF IInv, ChildOK, PipeOK
  <2> QED  BY <2>1, <2>2, <2>4, SameDocument DEF IInv, ParentOK, CrashExplained
<1> QED  BY <1>1, <1>2

\* Every step keeps the invariant.
LEMMA NextInv == IInv /\ [Next]_vars => IInv'
<1> SUFFICES ASSUME IInv, [Next]_vars PROVE IInv'
  OBVIOUS
<1>1. CASE Next
  BY <1>1, LoadInv, ForkInv, ReadEndOfFileInv, EndInv, StepInv, ChildEndsInv
     DEF Next, Parent, Child
<1>2. CASE UNCHANGED vars
  <2>1. UNCHANGED <<document, pc, pid, pgid, child, pipe>>
    BY <1>2 DEF vars
  <2>2. (PreparedBeforeExec' <=> PreparedBeforeExec) /\ (Preparing' <=> Preparing)
    BY <2>1, SameDocument DEF PreparedBeforeExec, Preparing, StepsIn
  <2>3. ParentOK'
    BY <2>1, SameDocument DEF IInv, ParentOK
  <2>4. ChildOK'
    BY <2>1, <2>2 DEF IInv, ChildOK
  <2> QED  BY <2>1, <2>3, <2>4 DEF IInv, PipeOK, CrashExplained
<1> QED  BY <1>1, <1>2

-----------------------------------------------------------------------------
(* The theorems *)

\* The invariant holds in every state of a launch.
LEMMA Inductive == Spec => []IInv
    BY InitInv, NextInv, PTL DEF Spec

\* Parent, child and pipe keep their types.
THEOREM TypeCorrect == Spec => []TypeOK
<1>1. IInv => TypeOK
  BY DEF IInv, ParentOK, ChildOK, ChildType, PipeOK, TypeOK
<1> QED  BY <1>1, Inductive, PTL

\* run() returns false only when no child is left, and true only for a child
\* that executed the program, or that died before without a report because it
\* was killed or could not write one.
THEOREM AnswersAreRight == Spec => []AnswerIsRight
<1>1. IInv => AnswerIsRight
  <2> SUFFICES ASSUME IInv PROVE AnswerIsRight
    OBVIOUS
  <2>1. pc \in {"failed", "threw"} => child.state = "none"
    BY DEF IInv, ChildOK, ChildType
  <2>2. pc = "started" => child.fate \in {"executed", "silent"}
    BY DEF IInv, ChildOK, ChildType, PipeOK
  <2>3. child.fate = "silent" => MayBeSilent
    BY DEF IInv, ChildOK
  <2> QED  BY <2>1, <2>2, <2>3 DEF AnswerIsRight, MayBeSilent
<1> QED  BY <1>1, Inductive, PTL

\* A program runs only after every step its manifest asks for, whatever
\* combination of keys that is, and with UserName under the two ids of the
\* manifest's user and group, though not each in its place.
THEOREM ProgramsArePrepared == Spec => []PreparedBeforeExec
<1>1. IInv => PreparedBeforeExec
  BY DEF IInv, ChildOK, PreparedBeforeExec
<1> QED  BY <1>1, Inductive, PTL

\* The exchange of the two ids is the only reason why a job with UserName may
\* run as another user: where they are equal it runs as it should.
THEOREM RightUserIfSameIds == Spec => [](Uid = Gid => RunsAsUser)
<1>1. IInv => (Uid = Gid => RunsAsUser)
  <2> SUFFICES ASSUME IInv, Uid = Gid, child.state = "program", m.user_name # "none"
               PROVE  child.uid = Uid /\ child.gid = Gid
    BY DEF RunsAsUser
  <2>1. {child.uid, child.gid} = {Uid, Gid}
    BY DEF IInv, ChildOK, PreparedBeforeExec
  <2> QED  BY <2>1
<1> QED  BY <1>1, Inductive, PTL

\* No document makes the child go on as a second launchd.
THEOREM ChildIsNeverLaunchd == Spec => []NoSecondLaunchd
<1>1. IInv => NoSecondLaunchd
  <2> SUFFICES ASSUME IInv PROVE NoSecondLaunchd
    OBVIOUS
  <2>1. pc = "read" => m.program_arguments # <<>>
    BY AcceptedHasProgram DEF IInv, ParentOK, m
  <2> QED  BY <2>1 DEF IInv, ChildOK, NoSecondLaunchd
<1> QED  BY <1>1, Inductive, PTL

\* Only a document without Label, or one with an unknown user or group, ends
\* launchd on the way to run().
THEOREM CrashesAreExplained == Spec => []CrashExplained
<1>1. IInv => CrashExplained
  BY DEF IInv
<1> QED  BY <1>1, Inductive, PTL

\* Where no child is killed in its first moments or fails to write its report
\* launchd never signals its own process group: the finding about
\* KillsOnlyTheJob has no other cause.
THEOREM KillsOnlyTheJobUnlessSilent ==
    ASSUME {"killed", "write"} \cap Faults = {}
    PROVE  Spec => []KillsOnlyTheJob
<1>1. IInv => KillsOnlyTheJob
  BY DEF IInv, ParentOK, KillsOnlyTheJob, MayBeSilent
<1> QED  BY <1>1, Inductive, PTL

\* The result of StartJob of module Job for the outcome r of run().
JobAfter(r) == Abstract!StartJob(Abstract!NewJob(JobManifest),
                                 [run |-> r, timer |-> "ok", t2 |-> 0, t3 |-> 0])

\* What the members are after each outcome.
LEMMA StartOutcomes ==
    /\ \A r \in {"ok", "getpgid", "fork", "exec", "pipe"} : r \in Abstract!RunOutcomes
    /\ LET s == JobAfter("ok")
       IN ~s.threw /\ s.job.pid = 1 /\ s.job.pgid = 1 /\ s.job.proc # "none"
    /\ LET s == JobAfter("getpgid")
       IN ~s.threw /\ s.job.pid = 1 /\ s.job.pgid = -1 /\ s.job.proc # "none"
    /\ LET s == JobAfter("fork")
       IN ~s.threw /\ s.job.pid = -1 /\ s.job.pgid = -1 /\ s.job.proc = "none"
    /\ LET s == JobAfter("exec")
       IN ~s.threw /\ s.job.pid = 0 /\ s.job.pgid = -1 /\ s.job.proc = "none"
    /\ LET s == JobAfter("pipe")
       IN s.threw /\ s.job.pid = 0 /\ s.job.pgid = -1 /\ s.job.proc = "none"
<1> USE DEF JobAfter, Abstract!StartJob, Abstract!NewJob, Abstract!Done, Abstract!Threw,
            Abstract!Watched
<1>1. \A r \in {"ok", "getpgid", "fork", "exec", "pipe"} : r \in Abstract!RunOutcomes
  BY DEF Abstract!RunOutcomes
<1>2. LET s == JobAfter("ok")
      IN ~s.threw /\ s.job.pid = 1 /\ s.job.pgid = 1 /\ s.job.proc # "none"
  OBVIOUS
<1>3. LET s == JobAfter("getpgid")
      IN ~s.threw /\ s.job.pid = 1 /\ s.job.pgid = -1 /\ s.job.proc # "none"
  OBVIOUS
<1>4. LET s == JobAfter("fork")
      IN ~s.threw /\ s.job.pid = -1 /\ s.job.pgid = -1 /\ s.job.proc = "none"
  OBVIOUS
<1>5. LET s == JobAfter("exec")
      IN ~s.threw /\ s.job.pid = 0 /\ s.job.pgid = -1 /\ s.job.proc = "none"
  OBVIOUS
<1>6. LET s == JobAfter("pipe")
      IN s.threw /\ s.job.pid = 0 /\ s.job.pgid = -1 /\ s.job.proc = "none"
  OBVIOUS
<1> QED  BY <1>1, <1>2, <1>3, <1>4, <1>5, <1>6

\* Every launch but one ends as module Job says: the step that Job takes as
\* atomic stands for all interleavings of the parent and the child.
THEOREM LaunchAgreesWithJob == Spec => []AgreesWithJob
<1>1. ASSUME IInv, pc \in {"started", "failed", "threw"}, ~DiedInLaunchdsGroup
      PROVE  \E r \in {"ok", "getpgid", "fork", "exec", "pipe"} :
               LET s == JobAfter(r)
               IN /\ s.threw <=> pc = "threw"
                  /\ s.job.pid = pid
                  /\ s.job.pgid = (IF pgid = "own" THEN 1 ELSE -1)
                  /\ s.job.proc # "none" <=> child.state # "none"
  <2>1. CASE pc = "started"
    <3>1. pid = 1 /\ child.state # "none" /\ pgid \in {"own", "none"}
      BY <1>1, <2>1 DEF IInv, ParentOK, ChildOK, ChildType, DiedInLaunchdsGroup
    <3> QED  BY <2>1, <3>1, StartOutcomes
  <2>2. CASE pc = "failed"
    <3>1. pid \in {-1, 0} /\ child.state = "none" /\ pgid = "none"
      BY <1>1, <2>2 DEF IInv, ParentOK, ChildOK, ChildType
    <3> QED  BY <2>2, <3>1, StartOutcomes
  <2>3. CASE pc = "threw"
    <3>1. pid = 0 /\ child.state = "none" /\ pgid = "none"
      BY <1>1, <2>3 DEF IInv, ParentOK, ChildOK, ChildType
    <3> QED  BY <2>3, <3>1, StartOutcomes
  <2> QED  BY <1>1, <2>1, <2>2, <2>3
<1>2. IInv => AgreesWithJob
  <2>1. IInv => JobManifest \in Abstract!ManifestType
    BY ManifestIsTyped DEF IInv, ParentOK
  <2> QED  BY <1>1, <2>1, StartOutcomes DEF AgreesWithJob, JobAfter
<1> QED  BY <1>2, Inductive, PTL
=============================================================================
