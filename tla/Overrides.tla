----------------------------- MODULE Overrides -----------------------------
(***************************************************************************)
(* From launchctl to the state file: the client (rpc_client.cc), the       *)
(* socket (channel.cc), the dispatcher (rpc_server.cc) and the file with   *)
(* the overrides (state_file.cc), which launchd reads again when it is     *)
(* restarted.  Manager treats a request as one step and the overrides as a *)
(* variable; here a request is taken apart, and launchd may end and be     *)
(* started again between any two steps.                                    *)
(*                                                                         *)
(* A message is a tuple: <<"set", label, value>> for enable and disable    *)
(* (load -w and unload -w store an override in the same way),              *)
(* <<"other">> for a request that leaves the overrides alone, <<"unknown">> *)
(* for one that is not understood, because it has more than IPC_MAX_MSGLEN  *)
(* bytes or no handler (start and stop), and <<>> for nothing.              *)
(***************************************************************************)
EXTENDS Integers, Sequences, FiniteSets

CONSTANTS
    Clients,  \* the invocations of launchctl that overlap
    Labels,
    Settings, \* the pairs <<label, "on" or "off">> that clients ask for
    Faults,   \* what may go wrong: "accept", "disk full", "rename"
    MaxEnds   \* bound: how often launchd ends in a behaviour

ASSUME OverridesAssumption == /\ MaxEnds \in Nat
                              /\ Settings \subseteq Labels \X {"on", "off"}
                              /\ Faults \subseteq {"accept", "disk full", "rename"}

Docs     == [Labels -> {"unset", "on", "off"}]
Default  == [l \in Labels |-> "unset"]
Requests == {<<"set", s[1], s[2]>> : s \in Settings} \cup {<<"other">>, <<"unknown">>}

VARIABLES
    client,   \* client[c]: how far the launchctl of c is
    request,  \* request[c]: what c has sent on its connection
    backlog,  \* connections that wait for accept(2)
    pc,       \* the next step of launchd
    peer,     \* the connection at peerfd: {} or {c}
    current,  \* the message at work
    residue,  \* the last message read, still in the stack buffer
    failed,   \* setValue() has thrown
    memory,   \* currentValue
    file,     \* state.json
    tmp,      \* the temporary file
    ends,     \* how often launchd ended
    allowed,  \* history: the values that the file may hold for each label
    damage    \* history: what may have left state.json incomplete

wire    == <<client, request, backlog, peer>>
disk    == <<file, tmp>>
history == <<allowed, damage>>
vars    == <<wire, pc, current, residue, failed, memory, disk, ends, history>>

Missing   == [kind |-> "missing", doc |-> Default]
Damaged   == [kind |-> "damaged", doc |-> Default]
Holds(d)  == [kind |-> "good", doc |-> d]

Init == /\ client = [c \in Clients |-> "idle"] /\ request = [c \in Clients |-> <<>>]
        /\ backlog = <<>> /\ peer = {}
        /\ pc = "down" /\ current = <<>> /\ residue = <<>> /\ failed = FALSE
        /\ memory = Default /\ tmp = Missing /\ ends = 0
        /\ file \in {Missing, Holds(Default)}
        /\ allowed = [l \in Labels |-> {"unset"}] /\ damage = {}

-----------------------------------------------------------------------------
(* launchctl.  Its exit status is left out: it does not look at the       *)
(* "error" of an answer, and fails if it gets none that it can parse.      *)

Listening == pc \notin {"down", "clearing"}

\* The connection of c is still in the kernel.
Open(c) == c \in peer \/ \E i \in DOMAIN backlog : backlog[i] = c

\* invokeMethod() connects before it looks at the arguments.  If nobody
\* listens the failures of connect(2) and write(2) go unnoticed, read(2) fails,
\* and launchctl ends as it began.
Connect(c) ==
    /\ client[c] = "idle"
    /\ Listening
    /\ client' = [client EXCEPT ![c] = "connected"]
    /\ backlog' = Append(backlog, c)
    /\ UNCHANGED <<request, pc, peer, current, residue, failed, memory, disk, ends, history>>

Send(c) ==
    /\ client[c] = "connected"
    /\ \E r \in Requests : request' = [request EXCEPT ![c] = r]
    /\ client' = [client EXCEPT ![c] = "waiting"]
    /\ UNCHANGED <<backlog, pc, peer, current, residue, failed, memory, disk, ends, history>>

\* A missing argument or path throws before anything is sent; and launchctl
\* may be interrupted while it waits.  What it sent stays readable.
HangUp(c) ==
    /\ client[c] \in {"connected", "waiting"}
    /\ client' = [client EXCEPT ![c] = "hung up"]
    /\ UNCHANGED <<request, backlog, pc, peer, current, residue, failed, memory, disk, ends,
                   history>>

-----------------------------------------------------------------------------
(* The dispatcher *)

Accept ==
    /\ pc = "idle"
    /\ backlog # <<>>
    /\ peer' = {Head(backlog)}
    /\ backlog' = Tail(backlog)
    /\ pc' = "reading"
    /\ UNCHANGED <<client, request, current, residue, failed, memory, disk, ends, history>>

\* readMessage() parses the buffer however many bytes it got.  Of a client
\* that sent nothing it gets none: the buffer holds anything, or still the
\* message of the call before.
Received(c) == IF request[c] # <<>> THEN {request[c]} ELSE {<<>>, residue}

Handler(m) == CASE m \in {<<>>, <<"unknown">>} -> "disconnect"   \* parse() or at() throws
                [] m = <<"other">>             -> "reply"
                [] OTHER                       -> "write"

\* It blocks until the peer has sent something or is gone.
ReadMessage ==
    /\ pc = "reading"
    /\ \E c \in peer :
         /\ client[c] \in {"waiting", "hung up"}
         /\ residue' = CASE request[c] = <<>>           -> residue
                         [] request[c] = <<"unknown">> -> <<>>   \* as little use again
                         [] OTHER                      -> request[c]
         /\ \E m \in Received(c) : current' = m /\ pc' = Handler(m)
    /\ UNCHANGED <<wire, failed, memory, disk, ends, history>>

\* disconnect(): the other side reads the end of the file, or was gone already.
CloseTo(cs) ==
    /\ client' = [c \in Clients |-> IF c \in cs THEN "idle" ELSE client[c]]
    /\ request' = [c \in Clients |-> IF c \in cs THEN <<>> ELSE request[c]]
    /\ peer' = {}

\* accept(2) fails for a connection that was aborted in the backlog, and the
\* dispatcher goes on: it reads from the listening socket, which fails too, and
\* has nobody to disconnect.  What the client sent is lost.  A failure for want
\* of resources changes nothing: the connection waits for the next accept(2).
AcceptFails ==
    /\ pc = "idle" /\ "accept" \in Faults
    /\ backlog # <<>> /\ client[Head(backlog)] = "hung up"
    /\ backlog' = Tail(backlog)
    /\ CloseTo({Head(backlog)})
    /\ UNCHANGED <<pc, current, residue, failed, memory, disk, ends, history>>

\* Mutant: a request that cannot be parsed leaves its connection open.
DisconnectNobody ==
    /\ pc = "disconnect"
    /\ CloseTo({c \in peer : client[c] = "hung up"})
    /\ pc' = "idle" /\ current' = <<>>
    /\ UNCHANGED <<backlog, residue, failed, memory, disk, ends, history>>

\* The request was not understood: disconnect() without an answer.
Disconnect ==
    /\ pc = "disconnect"
    /\ CloseTo(peer)
    /\ pc' = "idle" /\ current' = <<>>
    /\ UNCHANGED <<backlog, residue, failed, memory, disk, ends, history>>

Replayed == \A c \in peer : request[c] = <<>>

\* A set that was answered with success decides the value.  One that failed
\* may still happen: it stays in the buffer.  A replayed one decides nothing.
Settled ==
    IF current = <<"other">> \/ Replayed THEN allowed
    ELSE [allowed EXCEPT ![current[2]] = IF failed THEN @ \cup {current[3]} ELSE {current[3]}]

\* writeMessage(), which does not notice that the peer is gone, and disconnect().
Reply ==
    /\ pc = "reply"
    /\ CloseTo(peer)
    /\ pc' = "idle" /\ current' = <<>> /\ failed' = FALSE
    /\ allowed' = Settled
    /\ UNCHANGED <<backlog, residue, memory, disk, ends, damage>>

-----------------------------------------------------------------------------
(* overrideJobEnabled() and setValue() *)

\* Mutant: the document is built from the default one.
DocFromDefault == [Default EXCEPT ![current[2]] = current[3]]

NewDoc == [memory EXCEPT ![current[2]] = current[3]]

\* Mutant: the value is set before it is written.
WriteTmpAndSet ==
    /\ pc = "write"
    /\ tmp' = Holds(NewDoc)
    /\ memory' = NewDoc
    /\ pc' = "rename"
    /\ UNCHANGED <<wire, current, residue, failed, file, ends, history>>

\* Mutant: state.json itself is truncated and written.
WriteInPlace ==
    /\ pc = "write"
    /\ tmp' = Holds(NewDoc) /\ file' = Damaged
    /\ pc' = "rename"
    /\ UNCHANGED <<wire, current, residue, failed, memory, ends, history>>

\* The errors of the stream are not checked.
WriteTmp ==
    /\ pc = "write"
    /\ \E t \in {Holds(NewDoc)} \cup (IF "disk full" \in Faults THEN {Damaged} ELSE {}) : tmp' = t
    /\ pc' = "rename"
    /\ UNCHANGED <<wire, current, residue, failed, memory, file, ends, history>>

Rename ==
    /\ pc = "rename"
    /\ file' = tmp /\ tmp' = Missing
    /\ memory' = NewDoc
    /\ pc' = "reply"
    /\ damage' = IF tmp = Damaged THEN damage \cup {"disk full"} ELSE damage
    /\ UNCHANGED <<wire, current, residue, failed, ends, allowed>>

\* rename(2) fails, also because the temporary file could not be created.
RenameFails ==
    /\ pc = "rename" /\ "rename" \in Faults
    /\ tmp' = Missing
    /\ failed' = TRUE
    /\ pc' = "reply"
    /\ UNCHANGED <<wire, current, residue, memory, file, ends, history>>

-----------------------------------------------------------------------------
(* launchd starts and ends *)

\* The constructor of StateFile reads the file, or begins to clear() it.  It
\* throws on a file that does not parse, so launchd does not start.
Start ==
    /\ pc = "down"
    /\ \/ file.kind = "good" /\ memory' = file.doc /\ pc' = "idle" /\ UNCHANGED file
       \/ file.kind = "missing" /\ file' = Damaged /\ pc' = "clearing" /\ UNCHANGED memory
    /\ UNCHANGED <<wire, current, residue, failed, tmp, ends, history>>

Clear ==
    /\ pc = "clearing"
    /\ memory' = Default
    /\ \/ file' = Holds(Default) /\ UNCHANGED damage
       \/ "disk full" \in Faults /\ damage' = damage \cup {"disk full"} /\ UNCHANGED file
    /\ pc' = "idle"
    /\ UNCHANGED <<wire, current, residue, failed, tmp, ends, allowed>>

\* A set whose client will not learn whether it happened.
InDoubt(l) == IF /\ pc \in {"write", "rename", "reply"} /\ ~Replayed
                 /\ current[1] = "set" /\ current[2] = l
              THEN {current[3]} ELSE {}

\* launchd crashes, or shuts down and closes its sockets.  The temporary file
\* stays, but no later launchd looks for it under its own pid.
End ==
    /\ pc # "down" /\ ends < MaxEnds
    /\ ends' = ends + 1
    /\ CloseTo(Clients) /\ backlog' = <<>>
    /\ pc' = "down" /\ current' = <<>> /\ residue' = <<>> /\ failed' = FALSE
    /\ memory' = Default /\ tmp' = Missing
    /\ allowed' = [l \in Labels |-> allowed[l] \cup InDoubt(l)]
    /\ damage' = IF pc = "clearing" THEN damage \cup {"first start"} ELSE damage
    /\ UNCHANGED file

Launchd == \/ Accept \/ AcceptFails \/ ReadMessage \/ Disconnect \/ Reply
           \/ WriteTmp \/ Rename \/ RenameFails \/ Start \/ Clear

Next == \/ Launchd \/ End
        \/ \E c \in Clients : Connect(c) \/ Send(c) \/ HangUp(c)

(***************************************************************************)
(* launchd is a loop of its own and launchctl sends at once, or gives up.  *)
(* Nobody has to connect, launchd does not have to end, and a launchd that *)
(* ended is not started again by the code here.                            *)
(***************************************************************************)
Spec == /\ Init /\ [][Next]_vars
        /\ WF_vars(Launchd /\ pc # "down")
        /\ \A c \in Clients : WF_vars((Send(c) \/ HangUp(c)) /\ client[c] = "connected")

-----------------------------------------------------------------------------
(* Properties *)

\* Everything has its type, and whoever waits has a connection to launchd.
TypeOK ==
    /\ pc \in {"down", "clearing", "idle", "reading", "disconnect", "write", "rename", "reply"}
    /\ peer \subseteq Clients /\ Cardinality(peer) <= 1
    /\ (peer # {}) = (pc \in {"reading", "disconnect", "write", "rename", "reply"})
    /\ memory \in Docs /\ file.doc \in Docs
    /\ \A c \in Clients : client[c] # "idle" => Open(c)

\* What an administrator enabled or disabled is what a restarted launchd will
\* read: the file holds the value of the last request that was answered with
\* success, or of one that failed or was cut off after it.  No interleaving of
\* clients, restarts and replayed buffers brings an older value back.
Durable ==
    file.kind = "good" => \A l \in Labels : file.doc[l] \in allowed[l] \cup InDoubt(l)

\* Between two requests launchd acts on what the file says, and never forgets
\* an override although the file was damaged.
MemoryMatchesFile ==
    pc \in {"idle", "reading"} =>
        /\ file.kind = "good" => memory = file.doc
        /\ \A l \in Labels : memory[l] \in allowed[l]

\* The file cannot be parsed, and launchd cannot be started again, only after
\* the disk was full or launchd ended during its very first start.
DamageExplained ==
    file.kind = "damaged" => pc = "clearing" \/ damage # {}

\* Nobody waits for ever: not behind a client that sends nothing, nor after a
\* request that was not understood, nor when launchd ends.
EveryClientEnds ==
    \A c \in Clients : client[c] # "idle" ~> client[c] = "idle"
=============================================================================
