-------------------------- MODULE OverridesProofs --------------------------
(***************************************************************************)
(* The overrides survive, for any number of clients, labels, restarts and  *)
(* faults: what launchctl was told is stored is what the file holds and    *)
(* what launchd acts on.                                                   *)
(*                                                                         *)
(* The argument: launchd works on one message at a time, and whatever it   *)
(* stores is still in its stack buffer.  So a message that is replayed     *)
(* from the buffer asks for a value that the label may hold already, and   *)
(* the only value that may be in the file without an answer is the one of  *)
(* the message at work (InDoubt).                                          *)
(***************************************************************************)
EXTENDS Overrides, FiniteSetTheorems, TLAPS

Values   == {"unset", "on", "off"}
Messages == Requests \cup {<<>>}
Handling == {"disconnect", "write", "rename", "reply"}
Storing  == {"write", "rename", "reply"}

IsSet(m) == \E s \in Settings : m = <<"set", s[1], s[2]>>

-----------------------------------------------------------------------------
(* The inductive invariant *)

\* One connection at a time is served, the others wait in the backlog, and
\* exactly the clients that are not idle have one.  A message is handled only
\* when its client has sent it or is gone.
WireOK ==
    /\ client \in [Clients -> {"idle", "connected", "waiting", "hung up"}]
    /\ request \in [Clients -> Messages]
    /\ backlog \in Seq(Clients)
    /\ peer = {} \/ \E c \in Clients : peer = {c}
    /\ (peer # {}) = (pc \in {"reading"} \cup Handling)
    /\ \A c \in Clients : client[c] # "idle" => Open(c)
    /\ \A c \in peer : client[c] # "idle" /\ (pc \in Handling => client[c] # "connected")
    /\ \A i \in DOMAIN backlog : client[backlog[i]] # "idle" /\ backlog[i] \notin peer
    /\ \A i, k \in DOMAIN backlog : backlog[i] = backlog[k] => i = k

\* The message at work is the one in the buffer, and the value in the buffer
\* is one that its label may hold.
BufferOK ==
    /\ residue = <<>> \/ residue = <<"other">> \/ IsSet(residue)
    /\ pc \in Storing => current = residue
    /\ pc \in {"write", "rename"} => IsSet(current)
    /\ pc = "reply" => current # <<>>
    /\ failed \in BOOLEAN
    /\ failed => pc = "reply" /\ IsSet(current)
    /\ IsSet(residue) => residue[3] \in allowed[residue[2]] \cup InDoubt(residue[2])

Contents == {Missing, Damaged} \cup {Holds(d) : d \in Docs}

FileOK ==
    /\ pc \in {"down", "clearing", "idle", "reading"} \cup Handling
    /\ memory \in Docs
    /\ file \in Contents
    /\ allowed \in [Labels -> SUBSET Values]
    /\ pc = "rename" => tmp = Damaged \/ tmp = Holds(NewDoc)
    /\ pc = "clearing" => file = Damaged
    /\ file = Missing => pc = "down"
    /\ file = Missing \/ pc = "clearing" => \A l \in Labels : "unset" \in allowed[l]

\* While launchd runs, memory and file agree; a label has a value that is not
\* settled only between the rename and the answer.
MemoryOK == pc \notin {"down", "clearing"} =>
    /\ file.kind = "good" => memory = file.doc
    /\ pc # "reply" \/ failed => \A l \in Labels : memory[l] \in allowed[l]
    /\ pc = "reply" => \A l \in Labels : memory[l] \in allowed[l] \cup InDoubt(l)
    /\ pc = "reply" /\ ~failed /\ IsSet(current) => memory[current[2]] = current[3]

IInv == WireOK /\ BufferOK /\ FileOK /\ MemoryOK /\ Durable /\ DamageExplained

-----------------------------------------------------------------------------
(* Messages and files *)

\* The three kinds of a message differ, and a set has a label and a value.
LEMMA MessageKinds ==
    ASSUME NEW m
    PROVE  /\ IsSet(m) => /\ m[1] = "set" /\ m[2] \in Labels /\ m[3] \in {"on", "off"}
                          /\ m # <<"other">> /\ m # <<"unknown">> /\ m # <<>>
           /\ m = <<"other">> => m[1] = "other" /\ m # <<>> /\ m # <<"unknown">>
           /\ m = <<"unknown">> => m # <<>>
           /\ m \in Messages <=> m = <<>> \/ m = <<"other">> \/ m = <<"unknown">> \/ IsSet(m)
<1>1. ASSUME IsSet(m)
      PROVE  /\ m[1] = "set" /\ m[2] \in Labels /\ m[3] \in {"on", "off"}
             /\ m # <<"other">> /\ m # <<"unknown">> /\ m # <<>>
  <2>1. PICK s \in Settings : m = <<"set", s[1], s[2]>>
    BY <1>1 DEF IsSet
  <2>2. s[1] \in Labels /\ s[2] \in {"on", "off"}
    BY OverridesAssumption
  <2> QED  BY <2>1, <2>2
<1>2. /\ m = <<"other">> => m[1] = "other" /\ m # <<>> /\ m # <<"unknown">>
      /\ m = <<"unknown">> => m # <<>>
  OBVIOUS
<1>3. m \in Messages <=> m = <<>> \/ m = <<"other">> \/ m = <<"unknown">> \/ IsSet(m)
  BY DEF Messages, Requests, IsSet
<1> QED  BY <1>1, <1>2, <1>3

\* What a file may hold is told apart by its kind.
LEMMA FileKinds ==
    /\ Missing.kind = "missing" /\ Damaged.kind = "damaged"
    /\ Missing.doc = Default /\ Damaged.doc = Default /\ Default \in Docs
    /\ \A d : Holds(d).kind = "good" /\ Holds(d).doc = d
    /\ \A f \in Contents : /\ f.doc \in Docs
                           /\ f = Missing <=> f.kind = "missing"
                           /\ f = Damaged <=> f.kind = "damaged"
                           /\ f.kind = "good" => f = Holds(f.doc)
    BY DEF Missing, Damaged, Holds, Default, Docs, Contents

\* The document that setValue() stores differs from memory in one label.
LEMMA NewDocType ==
    ASSUME memory \in Docs, IsSet(current)
    PROVE  /\ NewDoc \in Docs
           /\ NewDoc[current[2]] = current[3]
           /\ \A l \in Labels : l # current[2] => NewDoc[l] = memory[l]
    BY MessageKinds DEF NewDoc, Docs

\* The value in doubt is that of the message at work, unless it is replayed.
LEMMA InDoubtValue ==
    ASSUME NEW l
    PROVE  /\ pc \notin Storing => InDoubt(l) = {}
           /\ current = <<"other">> => InDoubt(l) = {}
           /\ Replayed => InDoubt(l) = {}
           /\ current[2] # l => InDoubt(l) = {}
           /\ pc \in Storing /\ IsSet(current) /\ ~Replayed => InDoubt(current[2]) = {current[3]}
           /\ InDoubt(l) \subseteq {current[3]}
    BY MessageKinds DEF InDoubt, Storing

\* The elements of a sequence are in the set it is over.
LEMMA SeqElements ==
    ASSUME NEW T, NEW s \in Seq(T)
    PROVE  Len(s) \in Nat /\ DOMAIN s = 1 .. Len(s) /\ \A i \in DOMAIN s : s[i] \in T
<1>1. Len(s) \in Nat /\ DOMAIN s = 1 .. Len(s)
  OBVIOUS
<1>2. \A i \in 1 .. Len(s) : s[i] \in T
  OBVIOUS
<1> QED  BY <1>1, <1>2

-----------------------------------------------------------------------------
(* The steps of launchctl change the connections only *)

\* What is in doubt depends on the message at work and on whose it is.
LEMMA InDoubtKept ==
    ASSUME UNCHANGED <<pc, current>>, pc \in Storing => (Replayed' <=> Replayed)
    PROVE  \A l : InDoubt(l)' = InDoubt(l)
    BY DEF InDoubt, Storing

\* A step that leaves launchd alone keeps everything but WireOK.
LEMMA LaunchdUndisturbed ==
    ASSUME IInv, WireOK', pc \in Storing => (Replayed' <=> Replayed),
           UNCHANGED <<pc, current, residue, failed, memory, disk, ends, history>>
    PROVE  IInv'
<1>1. \A l : InDoubt(l)' = InDoubt(l)
  BY InDoubtKept
<1>2. BufferOK'
  BY <1>1 DEF IInv, BufferOK, history
<1>3. FileOK' /\ MemoryOK'
  BY <1>1 DEF IInv, FileOK, MemoryOK, NewDoc, disk, history
<1>4. Durable' /\ DamageExplained'
  BY <1>1 DEF IInv, Durable, DamageExplained, disk, history
<1> QED  BY <1>2, <1>3, <1>4 DEF IInv

\* The connections in the kernel do not change, nor who has one.
LEMMA SameConnections ==
    ASSUME WireOK, UNCHANGED <<pc, peer, backlog>>,
           client' \in [Clients -> {"idle", "connected", "waiting", "hung up"}],
           request' \in [Clients -> Messages],
           \A c \in Clients : client'[c] = "idle" <=> client[c] = "idle",
           pc \in Handling => \A c \in peer : client'[c] # "connected"
    PROVE  WireOK'
<1>1. \A c \in Clients : Open(c)' <=> Open(c)
  BY DEF Open
<1>2. \A i \in DOMAIN backlog : backlog[i] \in Clients
  <2>1. backlog \in Seq(Clients)
    BY DEF WireOK
  <2> QED  BY <2>1, SeqElements
<1>3. peer \subseteq Clients
  BY DEF WireOK
<1>4. /\ \A c \in peer : client'[c] # "idle"
      /\ \A i \in DOMAIN backlog : client'[backlog[i]] # "idle" /\ backlog[i] \notin peer
  BY <1>2, <1>3 DEF WireOK
<1> QED  BY <1>1, <1>4 DEF WireOK

\* A client that connects waits in the backlog.
LEMMA ConnectInv ==
    ASSUME IInv, NEW c \in Clients, Connect(c)
    PROVE  IInv'
<1>1. /\ client' = [client EXCEPT ![c] = "connected"] /\ backlog' = Append(backlog, c)
      /\ UNCHANGED <<request, pc, peer, current, residue, failed, memory, disk, ends, history>>
      /\ client[c] = "idle"
  BY DEF Connect
<1>2. WireOK /\ backlog \in Seq(Clients)
  BY DEF IInv, WireOK
<1>3. /\ backlog' \in Seq(Clients) /\ Len(backlog) \in Nat
      /\ DOMAIN backlog = 1 .. Len(backlog) /\ DOMAIN backlog' = 1 .. Len(backlog) + 1
      /\ \A i \in 1 .. Len(backlog) : backlog'[i] = backlog[i] /\ backlog[i] \in Clients
      /\ backlog'[Len(backlog) + 1] = c
  BY <1>1, <1>2
<1>4. ASSUME NEW d \in Clients, client'[d] # "idle" PROVE Open(d)'
  <2>1. CASE d = c
    BY <1>3, <2>1 DEF Open
  <2>2. CASE d # c
    <3>1. d \in peer \/ \E i \in 1 .. Len(backlog) : backlog[i] = d
      BY <1>1, <1>2, <1>3, <1>4, <2>2 DEF WireOK, Open
    <3>2. 1 .. Len(backlog) \subseteq DOMAIN backlog'
      BY <1>3
    <3> QED  BY <1>1, <1>3, <3>1, <3>2 DEF Open
  <2> QED  BY <2>1, <2>2
<1>5. c \notin peer /\ \A i \in 1 .. Len(backlog) : backlog[i] # c
  BY <1>1, <1>2, <1>3 DEF WireOK
<1>6. \A i \in DOMAIN backlog' : client'[backlog'[i]] # "idle" /\ backlog'[i] \notin peer'
  <2> SUFFICES ASSUME NEW i \in 1 .. Len(backlog) + 1
               PROVE  client'[backlog'[i]] # "idle" /\ backlog'[i] \notin peer'
    BY <1>3
  <2>0. client'[c] # "idle" /\ \A d \in Clients \ {c} : client'[d] = client[d]
    <3>1. client \in [Clients -> {"idle", "connected", "waiting", "hung up"}]
      BY <1>2 DEF WireOK
    <3> QED  BY <1>1, <3>1
  <2>1. CASE i = Len(backlog) + 1
    <3>1. backlog'[i] = c
      BY <1>3, <2>1, Zenon
    <3> QED  BY <1>1, <1>5, <2>0, <3>1, Zenon
  <2>2. CASE i \in 1 .. Len(backlog)
    <3>1. backlog'[i] = backlog[i] /\ backlog[i] \in Clients /\ backlog[i] # c
      BY <1>3, <1>5, <2>2, Zenon
    <3>2. client[backlog[i]] # "idle" /\ backlog[i] \notin peer
      BY <1>2, <1>3, <2>2 DEF WireOK
    <3>3. client'[backlog[i]] = client[backlog[i]]
      BY <2>0, <3>1
    <3> QED  BY <1>1, <3>1, <3>2, <3>3, Zenon
  <2> QED  BY <1>3, <2>1, <2>2
<1>7. \A i, k \in DOMAIN backlog' : backlog'[i] = backlog'[k] => i = k
  <2> SUFFICES ASSUME NEW i \in 1 .. Len(backlog) + 1, NEW k \in 1 .. Len(backlog) + 1,
                      backlog'[i] = backlog'[k]
               PROVE  i = k
    BY <1>3
  <2>1. CASE i \in 1 .. Len(backlog) /\ k \in 1 .. Len(backlog)
    BY <1>2, <1>3, <2>1 DEF WireOK
  <2>2. CASE i = Len(backlog) + 1 \/ k = Len(backlog) + 1
    BY <1>3, <1>5, <2>2
  <2> QED  BY <1>3, <2>1, <2>2
<1>8. \A d \in peer : client'[d] = client[d]
  <2>1. client \in [Clients -> {"idle", "connected", "waiting", "hung up"}] /\ peer \subseteq Clients
    BY <1>2 DEF WireOK
  <2> QED  BY <1>1, <1>5, <2>1
<1>9. WireOK'
  <2>1. /\ client' \in [Clients -> {"idle", "connected", "waiting", "hung up"}]
        /\ request' \in [Clients -> Messages]
        /\ peer' = {} \/ \E d \in Clients : peer' = {d}
        /\ (peer' # {}) = (pc' \in {"reading"} \cup Handling)
    BY <1>1, <1>2 DEF WireOK
  <2>2. \A d \in peer' : client'[d] # "idle" /\ (pc' \in Handling => client'[d] # "connected")
    BY <1>1, <1>2, <1>8 DEF WireOK
  <2> QED  BY <1>3, <1>4, <1>6, <1>7, <2>1, <2>2 DEF WireOK
<1>10. Replayed' <=> Replayed
  BY <1>1 DEF Replayed
<1> QED  BY <1>1, <1>9, <1>10, LaunchdUndisturbed

\* A client that sends is not the one whose message is at work.
LEMMA SendInv ==
    ASSUME IInv, NEW c \in Clients, Send(c)
    PROVE  IInv'
<1>1. PICK r \in Requests : request' = [request EXCEPT ![c] = r]
  BY DEF Send
<1>2. /\ client[c] = "connected" /\ client' = [client EXCEPT ![c] = "waiting"]
      /\ UNCHANGED <<backlog, pc, peer, current, residue, failed, memory, disk, ends, history>>
  BY DEF Send
<1>3. WireOK
  BY DEF IInv
<1>4. pc \in Handling => c \notin peer
  BY <1>2, <1>3 DEF WireOK
<1>5. WireOK'
  <2>1. /\ client' \in [Clients -> {"idle", "connected", "waiting", "hung up"}]
        /\ request' \in [Clients -> Messages]
        /\ \A d \in Clients : client'[d] = "idle" <=> client[d] = "idle"
    BY <1>1, <1>2, <1>3 DEF WireOK, Messages
  <2>2. pc \in Handling => \A d \in peer : client'[d] # "connected"
    BY <1>2, <1>3, <1>4 DEF WireOK
  <2> QED  BY <1>2, <1>3, <2>1, <2>2, SameConnections
<1>6. pc \in Storing => (Replayed' <=> Replayed)
  <2>1. peer \subseteq Clients /\ request \in [Clients -> Messages]
    BY <1>3 DEF WireOK
  <2>2. pc \in Storing => \A d \in peer : request'[d] = request[d]
    BY <1>1, <1>4, <2>1 DEF Storing, Handling
  <2> QED  BY <1>2, <2>2 DEF Replayed
<1> QED  BY <1>2, <1>5, <1>6, LaunchdUndisturbed

\* A client that hangs up leaves its connection and its message behind.
LEMMA HangUpInv ==
    ASSUME IInv, NEW c \in Clients, HangUp(c)
    PROVE  IInv'
<1>1. /\ client[c] \in {"connected", "waiting"} /\ client' = [client EXCEPT ![c] = "hung up"]
      /\ UNCHANGED <<request, backlog, pc, peer, current, residue, failed, memory, disk, ends,
                     history>>
  BY DEF HangUp
<1>2. WireOK
  BY DEF IInv
<1>3. WireOK'
  <2>1. /\ client' \in [Clients -> {"idle", "connected", "waiting", "hung up"}]
        /\ request' \in [Clients -> Messages]
        /\ \A d \in Clients : client'[d] = "idle" <=> client[d] = "idle"
    BY <1>1, <1>2 DEF WireOK
  <2>2. pc \in Handling => \A d \in peer : client'[d] # "connected"
    BY <1>1, <1>2 DEF WireOK
  <2> QED  BY <1>1, <1>2, <2>1, <2>2, SameConnections
<1>4. Replayed' <=> Replayed
  BY <1>1 DEF Replayed
<1> QED  BY <1>1, <1>3, <1>4, LaunchdUndisturbed

-----------------------------------------------------------------------------
(* The steps of the dispatcher *)

\* The connection at the head of the backlog becomes the one that is served.
LEMMA AcceptInv ==
    ASSUME IInv, Accept
    PROVE  IInv'
<1>1. /\ pc = "idle" /\ backlog # <<>> /\ peer' = {Head(backlog)} /\ backlog' = Tail(backlog)
      /\ pc' = "reading"
      /\ UNCHANGED <<client, request, current, residue, failed, memory, disk, ends, history>>
  BY DEF Accept
<1>2. WireOK /\ backlog \in Seq(Clients) /\ peer = {}
  BY <1>1 DEF IInv, WireOK, Handling
<1>3. /\ Head(backlog) \in Clients /\ Tail(backlog) \in Seq(Clients) /\ Len(backlog) \in Nat
      /\ DOMAIN backlog = 1 .. Len(backlog) /\ DOMAIN Tail(backlog) = 1 .. Len(backlog) - 1
      /\ Head(backlog) = backlog[1]
      /\ \A i \in 1 .. Len(backlog) - 1 : Tail(backlog)[i] = backlog[i + 1]
  BY <1>1, <1>2
<1>4. ASSUME NEW c \in Clients, client'[c] # "idle" PROVE Open(c)'
  <2>1. PICK i \in 1 .. Len(backlog) : backlog[i] = c
    BY <1>1, <1>2, <1>3, <1>4 DEF WireOK, Open
  <2>2. CASE i = 1
    BY <1>1, <1>3, <2>1, <2>2 DEF Open
  <2>3. CASE i # 1
    <3>1. i - 1 \in 1 .. Len(backlog) - 1 /\ Tail(backlog)[i - 1] = c
      BY <1>3, <2>1, <2>3
    <3> QED  BY <1>1, <1>3, <3>1 DEF Open
  <2> QED  BY <2>2, <2>3
<1>5. /\ \A i \in DOMAIN backlog' : client'[backlog'[i]] # "idle" /\ backlog'[i] \notin peer'
      /\ \A i, k \in DOMAIN backlog' : backlog'[i] = backlog'[k] => i = k
      /\ client'[Head(backlog)] # "idle"
  <2>1. \A i \in DOMAIN backlog' : /\ backlog'[i] = backlog[i + 1]
                                  /\ i + 1 \in DOMAIN backlog /\ i + 1 # 1 /\ i \in Nat
    BY <1>1, <1>3
  <2>2. 1 \in DOMAIN backlog
    BY <1>1, <1>2, <1>3
  <2>3. \A i, k \in DOMAIN backlog : backlog[i] = backlog[k] => i = k
    BY <1>2 DEF WireOK
  <2>4. \A i \in DOMAIN backlog : client[backlog[i]] # "idle"
    BY <1>2 DEF WireOK
  <2>5. \A i \in DOMAIN backlog' : client'[backlog'[i]] # "idle" /\ backlog'[i] # backlog[1]
    BY <1>1, <2>1, <2>2, <2>3, <2>4
  <2>6. ASSUME NEW i \in DOMAIN backlog', NEW k \in DOMAIN backlog', backlog'[i] = backlog'[k]
        PROVE  i = k
    <3>1. i + 1 = k + 1
      BY <2>1, <2>3, <2>6
    <3> QED  BY <2>1, <3>1
  <2> QED  BY <1>1, <1>3, <2>2, <2>4, <2>5, <2>6
<1>6. WireOK'
  BY <1>1, <1>2, <1>3, <1>4, <1>5 DEF WireOK, Handling
<1>7. \A l : InDoubt(l) = {} /\ InDoubt(l)' = {}
  BY <1>1 DEF InDoubt
<1>8. BufferOK'
  BY <1>1, <1>7 DEF IInv, BufferOK, Storing, history
<1>9. FileOK' /\ MemoryOK'
  BY <1>1, <1>7 DEF IInv, FileOK, MemoryOK, NewDoc, disk, history
<1>10. Durable' /\ DamageExplained'
  BY <1>1, <1>7 DEF IInv, Durable, DamageExplained, disk, history
<1> QED  BY <1>6, <1>8, <1>9, <1>10 DEF IInv

\* The connection at the head of the backlog is dropped, and its client is idle.
LEMMA AcceptFailsInv ==
    ASSUME IInv, AcceptFails
    PROVE  IInv'
<1> DEFINE h == Head(backlog)
<1>1. /\ pc = "idle" /\ backlog # <<>> /\ backlog' = Tail(backlog) /\ peer' = {}
      /\ client' = [c \in Clients |-> IF c = h THEN "idle" ELSE client[c]]
      /\ request' = [c \in Clients |-> IF c = h THEN <<>> ELSE request[c]]
      /\ UNCHANGED <<pc, current, residue, failed, memory, disk, ends, history>>
  BY DEF AcceptFails, CloseTo
<1>2. WireOK /\ backlog \in Seq(Clients) /\ peer = {}
  BY <1>1 DEF IInv, WireOK, Handling
<1>3. /\ h = backlog[1] /\ Tail(backlog) \in Seq(Clients) /\ Len(backlog) \in Nat
      /\ DOMAIN backlog = 1 .. Len(backlog) /\ DOMAIN Tail(backlog) = 1 .. Len(backlog) - 1
      /\ \A i \in 1 .. Len(backlog) - 1 : Tail(backlog)[i] = backlog[i + 1]
  BY <1>1, <1>2
<1> HIDE DEF h
<1>4. ASSUME NEW c \in Clients, client'[c] # "idle" PROVE Open(c)'
  <2>1. c # h /\ client[c] # "idle"
    BY <1>1, <1>4
  <2>2. PICK i \in 1 .. Len(backlog) : backlog[i] = c
    BY <1>2, <1>3, <2>1 DEF WireOK, Open
  <2>3. i - 1 \in 1 .. Len(backlog) - 1 /\ Tail(backlog)[i - 1] = c
    BY <1>3, <2>1, <2>2
  <2> QED  BY <1>1, <1>3, <2>3 DEF Open
<1>5. /\ \A i \in DOMAIN backlog' : client'[backlog'[i]] # "idle" /\ backlog'[i] \notin peer'
      /\ \A i, k \in DOMAIN backlog' : backlog'[i] = backlog'[k] => i = k
  <2>1. \A i \in DOMAIN backlog' : /\ backlog'[i] = backlog[i + 1]
                                  /\ i + 1 \in DOMAIN backlog /\ i + 1 # 1 /\ i \in Nat
    BY <1>1, <1>3
  <2>2. 1 \in DOMAIN backlog
    BY <1>1, <1>2, <1>3
  <2>3. /\ \A i, k \in DOMAIN backlog : backlog[i] = backlog[k] => i = k
        /\ \A i \in DOMAIN backlog : client[backlog[i]] # "idle" /\ backlog[i] \in Clients
    BY <1>2, SeqElements DEF WireOK
  <2>4. \A i \in DOMAIN backlog' : backlog'[i] # h /\ client'[backlog'[i]] # "idle"
    BY <1>1, <1>3, <2>1, <2>2, <2>3
  <2>5. ASSUME NEW i \in DOMAIN backlog', NEW k \in DOMAIN backlog', backlog'[i] = backlog'[k]
        PROVE  i = k
    <3>1. i + 1 = k + 1
      BY <2>1, <2>3, <2>5
    <3> QED  BY <2>1, <3>1
  <2> QED  BY <1>1, <2>4, <2>5
<1>6. WireOK'
  <2>1. /\ client' \in [Clients -> {"idle", "connected", "waiting", "hung up"}]
        /\ request' \in [Clients -> Messages]
    BY <1>1, <1>2 DEF WireOK, Messages
  <2>2. /\ peer' = {} /\ (peer' # {}) = (pc' \in {"reading"} \cup Handling)
        /\ backlog' \in Seq(Clients)
    BY <1>1, <1>3 DEF Handling
  <2> QED  BY <1>4, <1>5, <2>1, <2>2 DEF WireOK
<1>7. \A l : InDoubt(l) = {} /\ InDoubt(l)' = {}
  BY <1>1 DEF InDoubt
<1>8. BufferOK'
  BY <1>1, <1>7 DEF IInv, BufferOK, Storing, history
<1>9. FileOK' /\ MemoryOK'
  BY <1>1, <1>7 DEF IInv, FileOK, MemoryOK, NewDoc, disk, history
<1>10. Durable' /\ DamageExplained'
  BY <1>1, <1>7 DEF IInv, Durable, DamageExplained, disk, history
<1> QED  BY <1>6, <1>8, <1>9, <1>10 DEF IInv

\* readMessage(): the message of the client, or what the buffer still holds.
LEMMA ReadMessageInv ==
    ASSUME IInv, ReadMessage
    PROVE  IInv'
<1>1. pc = "reading" /\ UNCHANGED <<wire, failed, memory, disk, ends, history>>
  BY DEF ReadMessage
<1>2. PICK c \in peer :
        /\ client[c] \in {"waiting", "hung up"}
        /\ residue' = CASE request[c] = <<>>          -> residue
                        [] request[c] = <<"unknown">> -> <<>>
                        [] OTHER                      -> request[c]
        /\ \E m \in Received(c) : current' = m /\ pc' = Handler(m)
  BY DEF ReadMessage
<1>3. PICK m \in Received(c) : current' = m /\ pc' = Handler(m)
  BY <1>2
<1>4. /\ WireOK /\ peer = {c} /\ c \in Clients /\ request[c] \in Messages
      /\ residue = <<>> \/ residue = <<"other">> \/ IsSet(residue)
  BY <1>2 DEF IInv, WireOK, BufferOK
<1>5. Replayed' <=> request[c] = <<>>
  BY <1>1, <1>4 DEF Replayed, wire
<1>6. /\ residue' = <<>> \/ residue' = <<"other">> \/ IsSet(residue')
      /\ m = <<>> \/ m = <<"unknown">> \/ ((m = <<"other">> \/ IsSet(m)) /\ m = residue')
      /\ m # <<>> /\ m # <<"unknown">> /\ request[c] = <<>> => m = residue /\ residue' = residue
      /\ IF request[c] = <<>> THEN residue' = residue ELSE m = request[c]
  <2>1. CASE request[c] = <<>>
    <3>1. request[c] # <<"unknown">>
      BY <2>1, MessageKinds
    <3>2. residue' = residue
      BY <1>2, <2>1, <3>1
    <3>3. m = <<>> \/ m = residue
      BY <1>3, <2>1 DEF Received
    <3> QED  BY <1>4, <2>1, <3>2, <3>3
  <2>2. CASE request[c] = <<"unknown">>
    <3>1. request[c] # <<>>
      BY <2>2, MessageKinds
    <3>2. residue' = <<>> /\ m = request[c]
      BY <1>2, <1>3, <2>2, <3>1 DEF Received
    <3> QED  BY <2>2, <3>1, <3>2
  <2>3. CASE request[c] # <<>> /\ request[c] # <<"unknown">>
    <3>1. residue' = request[c] /\ m = request[c]
      BY <1>2, <1>3, <2>3 DEF Received
    <3>2. request[c] = <<"other">> \/ IsSet(request[c])
      BY <1>4, <2>3, MessageKinds
    <3> QED  BY <2>3, <3>1, <3>2
  <2> QED  BY <2>1, <2>2, <2>3
<1>7. /\ m \in {<<>>, <<"unknown">>} => pc' = "disconnect"
      /\ m = <<"other">> => pc' = "reply"
      /\ IsSet(m) => pc' = "write"
      /\ pc' \in Handling
  <2>1. m \in {<<>>, <<"unknown">>} => pc' = "disconnect"
    BY <1>3 DEF Handler
  <2>2. m = <<"other">> => pc' = "reply"
    BY <1>3, MessageKinds DEF Handler
  <2>3. IsSet(m) => pc' = "write"
    BY <1>3, MessageKinds DEF Handler
  <2> QED  BY <1>6, <2>1, <2>2, <2>3 DEF Handling
<1>8. WireOK'
  <2>1. client'[c] # "connected" /\ pc \notin Handling
    BY <1>1, <1>2 DEF wire, Handling
  <2>2. \A d \in Clients : Open(d)' <=> Open(d)
    BY <1>1 DEF Open, wire
  <2> QED  BY <1>1, <1>4, <1>7, <2>1, <2>2 DEF WireOK, wire
<1>9. \A l : InDoubt(l) = {}
  BY <1>1 DEF InDoubt
<1>10. ~failed /\ failed \in BOOLEAN
  BY <1>1 DEF IInv, BufferOK
<1>11. BufferOK'
  <2>1. ASSUME IsSet(residue') 
        PROVE  residue'[3] \in allowed'[residue'[2]] \cup InDoubt(residue[2])'
    <3>1. CASE request[c] = <<>>
      BY <1>1, <1>6, <1>9, <2>1, <3>1 DEF IInv, BufferOK, history
    <3>2. CASE request[c] # <<>>
      <4>1. residue' = request[c] /\ m = request[c]
        BY <1>2, <1>6, <2>1, <3>2, MessageKinds
      <4>2. pc' = "write" /\ current' = residue' /\ ~Replayed'
        BY <1>3, <1>5, <1>7, <2>1, <3>2, <4>1
      <4>3. residue'[1] = "set"
        BY <2>1, MessageKinds
      <4> QED  BY <4>2, <4>3 DEF InDoubt
    <3> QED  BY <3>1, <3>2
  <2>2. pc' \in Storing => current' = residue'
    BY <1>3, <1>6, <1>7 DEF Storing
  <2>3. /\ pc' \in {"write", "rename"} => IsSet(current')
        /\ pc' = "reply" => current' # <<>>
    BY <1>3, <1>6, <1>7, MessageKinds
  <2>4. IsSet(residue)' <=> IsSet(residue')
    BY DEF IsSet
  <2>5. IsSet(current)' <=> IsSet(current')
    BY DEF IsSet
  <2> QED  BY <1>1, <1>6, <1>10, <2>1, <2>2, <2>3, <2>4, <2>5 DEF BufferOK
<1>12. FileOK'
  <2>1. pc' # "rename" /\ pc' # "clearing"
    BY <1>6, <1>7
  <2> QED  BY <1>1, <1>7, <2>1 DEF IInv, FileOK, disk, history
<1>13. MemoryOK'
  <2>1. pc' = "reply" => ~IsSet(m)
    BY <1>7
  <2>2. IsSet(current)' <=> IsSet(m)
    BY <1>3 DEF IsSet
  <2> QED  BY <1>1, <1>7, <1>9, <1>10, <2>1, <2>2 DEF IInv, MemoryOK, disk, history
<1>14. Durable' /\ DamageExplained'
  BY <1>1, <1>9 DEF IInv, Durable, DamageExplained, disk, history
<1> QED  BY <1>8, <1>11, <1>12, <1>13, <1>14 DEF IInv

\* disconnect(): the client that was served is idle again.
LEMMA CloseToPeer ==
    ASSUME WireOK, CloseTo(peer), UNCHANGED backlog, pc' = "idle"
    PROVE  WireOK'
<1>1. /\ client' = [c \in Clients |-> IF c \in peer THEN "idle" ELSE client[c]]
      /\ request' = [c \in Clients |-> IF c \in peer THEN <<>> ELSE request[c]]
      /\ peer' = {}
  BY DEF CloseTo
<1>2. /\ client' \in [Clients -> {"idle", "connected", "waiting", "hung up"}]
      /\ request' \in [Clients -> Messages] /\ backlog \in Seq(Clients)
  BY <1>1 DEF WireOK, Messages
<1>3. ASSUME NEW c \in Clients, client'[c] # "idle" PROVE Open(c)'
  BY <1>1, <1>3 DEF WireOK, Open
<1>4. \A i \in DOMAIN backlog : backlog[i] \in Clients
  BY <1>2, SeqElements
<1>5. \A i \in DOMAIN backlog : client[backlog[i]] # "idle" /\ backlog[i] \notin peer
  BY DEF WireOK
<1>6. \A i \in DOMAIN backlog' : client'[backlog'[i]] # "idle" /\ backlog'[i] \notin peer'
  BY <1>1, <1>4, <1>5
<1>7. (peer' # {}) = (pc' \in {"reading"} \cup Handling)
  BY <1>1 DEF Handling
<1>8. \A i, k \in DOMAIN backlog' : backlog'[i] = backlog'[k] => i = k
  BY DEF WireOK
<1> QED  BY <1>1, <1>2, <1>3, <1>6, <1>7, <1>8 DEF WireOK

\* A request that was not understood changes nothing.
LEMMA DisconnectInv ==
    ASSUME IInv, Disconnect
    PROVE  IInv'
<1>1. /\ pc = "disconnect" /\ pc' = "idle" /\ CloseTo(peer)
      /\ UNCHANGED <<backlog, residue, failed, memory, disk, ends, history>>
  BY DEF Disconnect
<1>2. WireOK'
  BY <1>1, CloseToPeer DEF IInv
<1>3. \A l : InDoubt(l) = {} /\ InDoubt(l)' = {}
  BY <1>1 DEF InDoubt
<1>4. BufferOK'
  BY <1>1, <1>3 DEF IInv, BufferOK, Storing, history
<1>5. FileOK' /\ MemoryOK'
  BY <1>1, <1>3 DEF IInv, FileOK, MemoryOK, disk, history
<1>6. Durable' /\ DamageExplained'
  BY <1>1, <1>3 DEF IInv, Durable, DamageExplained, disk, history
<1> QED  BY <1>2, <1>4, <1>5, <1>6 DEF IInv

\* The answer settles the value of the label: it is the stored one, or stays
\* what it was with the failed one possible.
LEMMA ReplyInv ==
    ASSUME IInv, Reply
    PROVE  IInv'
<1>1. /\ pc = "reply" /\ pc' = "idle" /\ CloseTo(peer) /\ failed' = FALSE
      /\ allowed' = Settled /\ UNCHANGED <<backlog, residue, memory, disk, ends, damage>>
  BY DEF Reply
<1>2. WireOK'
  BY <1>1, CloseToPeer DEF IInv
<1>3. \A l : InDoubt(l)' = {}
  BY <1>1 DEF InDoubt
<1>4. /\ current = residue /\ (current = <<"other">> \/ IsSet(current))
      /\ allowed \in [Labels -> SUBSET Values] /\ memory \in Docs /\ failed \in BOOLEAN
      /\ failed => IsSet(current)
  BY <1>1 DEF IInv, BufferOK, FileOK, Storing
<1>5. /\ allowed' \in [Labels -> SUBSET Values]
      /\ \A l \in Labels : memory[l] \in allowed'[l]
      /\ IsSet(residue) => residue[3] \in allowed'[residue[2]]
  <2>1. CASE current = <<"other">> \/ Replayed
    <3>1. \A l : InDoubt(l) = {}
      BY <2>1, InDoubtValue
    <3>2. allowed' = allowed
      BY <1>1, <2>1 DEF Settled
    <3>3. \A l \in Labels : memory[l] \in allowed[l]
      BY <1>1, <3>1 DEF IInv, MemoryOK
    <3> QED  BY <1>4, <3>1, <3>2, <3>3 DEF IInv, BufferOK
  <2>2. CASE current # <<"other">> /\ ~Replayed
    <3>1. /\ IsSet(current) /\ current[2] \in Labels /\ current[3] \in Values
      BY <1>4, <2>2, MessageKinds DEF Values
    <3>2. allowed' = [allowed EXCEPT ![current[2]] = IF failed THEN @ \cup {current[3]}
                                                     ELSE {current[3]}]
      BY <1>1, <2>2 DEF Settled
    <3>3. CASE failed
      <4>1. \A l \in Labels : memory[l] \in allowed[l]
        BY <1>1, <3>3 DEF IInv, MemoryOK
      <4> QED  BY <1>4, <3>1, <3>2, <3>3, <4>1
    <3>4. CASE ~failed
      <4>1. memory[current[2]] = current[3]
        BY <1>1, <3>1, <3>4 DEF IInv, MemoryOK
      <4>2. \A l \in Labels : l # current[2] => memory[l] \in allowed[l]
        BY <1>1, <3>1, InDoubtValue DEF IInv, MemoryOK
      <4> QED  BY <1>4, <3>1, <3>2, <3>4, <4>1, <4>2
    <3> QED  BY <1>4, <3>3, <3>4
  <2> QED  BY <2>1, <2>2
<1>6. BufferOK'
  <2>1. IsSet(residue)' <=> IsSet(residue)
    BY <1>1 DEF IsSet
  <2> QED  BY <1>1, <1>5, <2>1 DEF IInv, BufferOK, Storing
<1>7. FileOK' /\ MemoryOK'
  <2>1. file # Missing /\ (file.kind = "good" => memory = file.doc)
    BY <1>1 DEF IInv, FileOK, MemoryOK
  <2>2. FileOK'
    BY <1>1, <1>5, <2>1 DEF IInv, FileOK, disk
  <2>3. MemoryOK'
    BY <1>1, <1>5, <2>1 DEF MemoryOK, disk
  <2> QED  BY <2>2, <2>3
<1>8. Durable' /\ DamageExplained'
  <2>1. file.kind = "good" => memory = file.doc
    BY <1>1 DEF IInv, MemoryOK
  <2> QED  BY <1>1, <1>5, <2>1 DEF IInv, Durable, DamageExplained, disk
<1> QED  BY <1>2, <1>6, <1>7, <1>8 DEF IInv

\* While a request is stored, nothing changes on the wire.
LEMMA SameWire ==
    ASSUME WireOK, UNCHANGED wire, pc \in Handling, pc' \in Handling
    PROVE  WireOK' /\ (Replayed' <=> Replayed)
<1>1. \A c \in Clients : Open(c)' <=> Open(c)
  BY DEF Open, wire
<1>2. WireOK'
  BY <1>1 DEF WireOK, wire
<1>3. Replayed' <=> Replayed
  BY DEF Replayed, wire
<1> QED  BY <1>2, <1>3

\* The temporary file holds the new document, or is damaged.
LEMMA WriteTmpInv ==
    ASSUME IInv, WriteTmp
    PROVE  IInv'
<1>1. /\ pc = "write" /\ pc' = "rename"
      /\ UNCHANGED <<wire, current, residue, failed, memory, file, ends, history>>
      /\ tmp' = Damaged \/ tmp' = Holds(NewDoc)
  BY DEF WriteTmp
<1>2. WireOK' /\ (Replayed' <=> Replayed)
  BY <1>1, SameWire DEF IInv, Handling
<1>3. \A l : InDoubt(l)' = InDoubt(l)
  BY <1>1, <1>2 DEF InDoubt
<1>4. BufferOK'
  <2>1. IsSet(residue)' <=> IsSet(residue)
    BY <1>1 DEF IsSet
  <2>2. IsSet(current)' <=> IsSet(current)
    BY <1>1 DEF IsSet
  <2> QED  BY <1>1, <1>3, <2>1, <2>2 DEF IInv, BufferOK, Storing, history
<1>5. FileOK'
  BY <1>1 DEF IInv, FileOK, NewDoc, Handling, history
<1>6. MemoryOK' /\ Durable' /\ DamageExplained'
  BY <1>1, <1>3 DEF IInv, MemoryOK, Durable, DamageExplained, history
<1> QED  BY <1>2, <1>4, <1>5, <1>6 DEF IInv

\* rename(2): file and memory change together, to the value in doubt.  A
\* replayed message brings back a value that the label may hold.
LEMMA RenameInv ==
    ASSUME IInv, Rename
    PROVE  IInv'
<1>1. /\ pc = "rename" /\ pc' = "reply" /\ file' = tmp /\ memory' = NewDoc
      /\ damage' = IF tmp = Damaged THEN damage \cup {"disk full"} ELSE damage
      /\ UNCHANGED <<wire, current, residue, failed, ends, allowed>>
  BY DEF Rename
<1>2. WireOK' /\ (Replayed' <=> Replayed)
  BY <1>1, SameWire DEF IInv, Handling
<1>3. \A l : InDoubt(l)' = InDoubt(l)
  BY <1>1, <1>2 DEF InDoubt
<1>4. /\ IsSet(current) /\ current = residue /\ memory \in Docs /\ failed = FALSE
      /\ tmp = Damaged \/ tmp = Holds(NewDoc)
      /\ \A l \in Labels : memory[l] \in allowed[l]
  BY <1>1 DEF IInv, BufferOK, FileOK, MemoryOK, Storing
<1>5. IsSet(residue)' <=> IsSet(residue)
  BY <1>1 DEF IsSet
<1>6. IsSet(current)' <=> IsSet(current)
  BY <1>1 DEF IsSet
<1>7. BufferOK'
  BY <1>1, <1>3, <1>4, <1>5, <1>6, MessageKinds DEF IInv, BufferOK, Storing
<1>8. /\ NewDoc \in Docs /\ NewDoc[current[2]] = current[3]
      /\ \A l \in Labels : NewDoc[l] \in allowed[l] \cup InDoubt(l)
  <2>1. current[3] \in allowed[current[2]] \cup InDoubt(current[2])
    BY <1>4 DEF IInv, BufferOK
  <2> QED  BY <1>4, <2>1, NewDocType
<1>9. /\ file' \in Contents /\ file' # Missing /\ (file'.kind = "good" => file'.doc = NewDoc)
      /\ file'.kind = "damaged" => tmp = Damaged
  BY <1>1, <1>4, <1>8, FileKinds DEF Contents
<1>10. FileOK'
  BY <1>1, <1>8, <1>9 DEF IInv, FileOK, Handling
<1>11. MemoryOK'
  BY <1>1, <1>3, <1>4, <1>6, <1>8, <1>9 DEF MemoryOK
<1>12. Durable'
  BY <1>1, <1>3, <1>8, <1>9 DEF Durable
<1>13. DamageExplained'
  BY <1>1, <1>9 DEF DamageExplained
<1> QED  BY <1>2, <1>7, <1>10, <1>11, <1>12, <1>13 DEF IInv

\* rename(2) fails: neither file nor memory changes.
LEMMA RenameFailsInv ==
    ASSUME IInv, RenameFails
    PROVE  IInv'
<1>1. /\ pc = "rename" /\ pc' = "reply" /\ failed' = TRUE
      /\ UNCHANGED <<wire, current, residue, memory, file, ends, history>>
  BY DEF RenameFails
<1>2. WireOK' /\ (Replayed' <=> Replayed)
  BY <1>1, SameWire DEF IInv, Handling
<1>3. \A l : InDoubt(l)' = InDoubt(l)
  BY <1>1, <1>2 DEF InDoubt
<1>4. BufferOK'
  <2>1. IsSet(residue)' <=> IsSet(residue)
    BY <1>1 DEF IsSet
  <2>2. IsSet(current)' <=> IsSet(current)
    BY <1>1 DEF IsSet
  <2> QED  BY <1>1, <1>3, <2>1, <2>2, MessageKinds DEF IInv, BufferOK, Storing, history
<1>5. FileOK'
  BY <1>1 DEF IInv, FileOK, Handling, history
<1>6. MemoryOK' /\ Durable' /\ DamageExplained'
  BY <1>1, <1>3 DEF IInv, MemoryOK, Durable, DamageExplained, history
<1> QED  BY <1>2, <1>4, <1>5, <1>6 DEF IInv

-----------------------------------------------------------------------------
(* launchd starts and ends *)

\* While launchd is not serving, nobody has a connection at peerfd.
LEMMA IdleWire ==
    ASSUME WireOK, UNCHANGED wire, peer = {}, pc' \notin {"reading"} \cup Handling
    PROVE  WireOK'
<1>1. \A c \in Clients : Open(c)' <=> Open(c)
  BY DEF Open, wire
<1>2. (peer' # {}) = (pc' \in {"reading"} \cup Handling)
  BY DEF wire
<1>3. pc' \notin Handling
  OBVIOUS
<1> QED  BY <1>1, <1>2, <1>3 DEF WireOK, wire

\* The constructor of StateFile reads what the last launchd left, or begins to
\* write an empty file.
LEMMA StartInv ==
    ASSUME IInv, Start
    PROVE  IInv'
<1>1. pc = "down" /\ UNCHANGED <<wire, current, residue, failed, tmp, ends, history>>
  BY DEF Start
<1>2. /\ WireOK /\ peer = {} /\ file \in Contents /\ failed = FALSE
      /\ \A l : InDoubt(l) = {}
  BY <1>1, InDoubtValue DEF IInv, WireOK, FileOK, BufferOK, Handling, Storing
<1>3. CASE file.kind = "good" /\ memory' = file.doc /\ pc' = "idle" /\ UNCHANGED file
  <2>1. WireOK'
    BY <1>1, <1>2, <1>3, IdleWire DEF Handling
  <2>2. \A l : InDoubt(l)' = {}
    BY <1>3 DEF InDoubt
  <2>3. BufferOK'
    <3>1. IsSet(residue)' <=> IsSet(residue)
      BY <1>1 DEF IsSet
    <3> QED  BY <1>1, <1>2, <1>3, <3>1 DEF IInv, BufferOK, Storing, history
  <2>4. FileOK' /\ Durable' /\ DamageExplained'
    BY <1>1, <1>2, <1>3, <2>2, FileKinds
       DEF IInv, FileOK, Durable, DamageExplained, history
  <2>5. MemoryOK'
    BY <1>1, <1>2, <1>3 DEF IInv, MemoryOK, Durable, history
  <2> QED  BY <2>1, <2>3, <2>4, <2>5 DEF IInv
<1>4. CASE file.kind = "missing" /\ file' = Damaged /\ pc' = "clearing" /\ UNCHANGED memory
  <2>1. WireOK'
    BY <1>1, <1>2, <1>4, IdleWire DEF Handling
  <2>2. \A l : InDoubt(l)' = {}
    BY <1>4 DEF InDoubt
  <2>3. BufferOK'
    <3>1. IsSet(residue)' <=> IsSet(residue)
      BY <1>1 DEF IsSet
    <3> QED  BY <1>1, <1>2, <1>4, <3>1 DEF IInv, BufferOK, Storing, history
  <2>4. file' # Missing /\ file' \in Contents /\ file'.kind = "damaged" /\ file = Missing
    BY <1>2, <1>4, FileKinds DEF Contents
  <2>5. FileOK' /\ MemoryOK'
    BY <1>1, <1>4, <2>4 DEF IInv, FileOK, MemoryOK, history
  <2>6. Durable' /\ DamageExplained'
    BY <1>4, <2>4 DEF Durable, DamageExplained
  <2> QED  BY <2>1, <2>3, <2>5, <2>6 DEF IInv
<1> QED  BY <1>3, <1>4 DEF Start

\* clear() completes the first file.
LEMMA ClearInv ==
    ASSUME IInv, Clear
    PROVE  IInv'
<1>1. /\ pc = "clearing" /\ memory' = Default /\ pc' = "idle"
      /\ UNCHANGED <<wire, current, residue, failed, tmp, ends, allowed>>
      /\ \/ file' = Holds(Default) /\ UNCHANGED damage
         \/ damage' = damage \cup {"disk full"} /\ UNCHANGED file
  BY DEF Clear
<1>2. /\ WireOK /\ peer = {} /\ file = Damaged /\ failed = FALSE
      /\ \A l : InDoubt(l) = {}
      /\ \A l \in Labels : "unset" \in allowed[l]
  BY <1>1, InDoubtValue DEF IInv, WireOK, FileOK, BufferOK, Handling, Storing
<1>3. WireOK'
  BY <1>1, <1>2, IdleWire DEF Handling
<1>4. \A l : InDoubt(l)' = {}
  BY <1>1 DEF InDoubt
<1>5. BufferOK'
  <2>1. IsSet(residue)' <=> IsSet(residue)
    BY <1>1 DEF IsSet
  <2> QED  BY <1>1, <1>2, <2>1 DEF IInv, BufferOK, Storing
<1>6. /\ file' \in Contents /\ file' # Missing /\ (file'.kind = "good" => file'.doc = Default)
      /\ file'.kind = "damaged" => damage' # {}
  BY <1>1, <1>2, FileKinds DEF Contents
<1>7. \A l \in Labels : Default[l] = "unset"
  BY DEF Default
<1>8. FileOK' /\ DamageExplained'
  BY <1>1, <1>6, FileKinds DEF IInv, FileOK, DamageExplained
<1>9. MemoryOK' /\ Durable'
  BY <1>1, <1>2, <1>6, <1>7 DEF MemoryOK, Durable
<1> QED  BY <1>3, <1>5, <1>8, <1>9 DEF IInv

\* launchd ends: the value in doubt becomes one that the label may hold.
LEMMA EndInv ==
    ASSUME IInv, End
    PROVE  IInv'
<1>1. /\ pc' = "down" /\ residue' = <<>> /\ failed' = FALSE /\ memory' = Default
      /\ CloseTo(Clients) /\ backlog' = <<>> /\ UNCHANGED file /\ pc # "down"
      /\ allowed' = [l \in Labels |-> allowed[l] \cup InDoubt(l)]
      /\ damage' = IF pc = "clearing" THEN damage \cup {"first start"} ELSE damage
  BY DEF End
<1>2. WireOK'
  <2>1. /\ client' = [c \in Clients |-> "idle"] /\ request' = [c \in Clients |-> <<>>]
        /\ peer' = {}
    BY <1>1 DEF CloseTo
  <2>2. <<>> \in Seq(Clients) /\ DOMAIN <<>> = {}
    OBVIOUS
  <2>3. backlog' \in Seq(Clients) /\ DOMAIN backlog' = {}
    BY <1>1, <2>2
  <2>4. (peer' # {}) = (pc' \in {"reading"} \cup Handling)
    <3>1. pc' = "down"
      BY <1>1
    <3> QED  BY <2>1, <3>1 DEF Handling
  <2> QED  BY <2>1, <2>3, <2>4 DEF WireOK, Messages
<1>3. BufferOK'
  <2>1. ~IsSet(residue)'
    BY <1>1, MessageKinds DEF IsSet
  <2> QED  BY <1>1, <2>1 DEF BufferOK, Storing
<1>4. \A l \in Labels : InDoubt(l) \subseteq Values
  <2>1. pc \in Storing => current = <<"other">> \/ IsSet(current)
    BY DEF IInv, BufferOK, Storing
  <2> QED  BY <2>1, InDoubtValue, MessageKinds DEF Values
<1>5. FileOK' /\ MemoryOK'
  BY <1>1, <1>4, FileKinds DEF IInv, FileOK, MemoryOK
<1>6. Durable' /\ DamageExplained'
  BY <1>1 DEF IInv, Durable, DamageExplained
<1> QED  BY <1>2, <1>3, <1>5, <1>6 DEF IInv

-----------------------------------------------------------------------------
(* The theorems *)

\* The invariant holds before launchd first starts.
LEMMA InitInv == Init => IInv
<1> SUFFICES ASSUME Init PROVE IInv
  OBVIOUS
<1>1. WireOK
  <2>1. backlog = <<>> /\ peer = {} /\ pc = "down"
    BY DEF Init
  <2>2. backlog \in Seq(Clients) /\ DOMAIN backlog = {}
    BY <2>1
  <2>3. (peer # {}) = (pc \in {"reading"} \cup Handling)
    BY <2>1 DEF Handling
  <2>4. /\ client = [c \in Clients |-> "idle"] /\ request = [c \in Clients |-> <<>>]
    BY DEF Init
  <2> QED  BY <2>1, <2>2, <2>3, <2>4 DEF WireOK, Messages
<1>2. BufferOK
  <2>1. ~IsSet(residue)
    BY MessageKinds DEF Init
  <2> QED  BY <2>1 DEF Init, BufferOK, Storing
<1>3. \A l \in Labels : "unset" \in allowed[l] /\ Default[l] = "unset"
  BY DEF Init, Default
<1>4. file \in Contents /\ file.kind # "damaged" /\ file.doc = Default
  BY FileKinds DEF Init, Contents
<1>5. FileOK
  BY <1>3, <1>4, FileKinds DEF Init, FileOK, Values
<1>6. MemoryOK /\ Durable /\ DamageExplained
  BY <1>3, <1>4 DEF Init, MemoryOK, Durable, DamageExplained
<1> QED  BY <1>1, <1>2, <1>5, <1>6 DEF IInv

\* Every step of a client, of launchd or of its end keeps the invariant.
LEMMA StepInv == IInv /\ [Next]_vars => IInv'
<1> SUFFICES ASSUME IInv, [Next]_vars PROVE IInv'
  OBVIOUS
<1>1. CASE Launchd
  BY <1>1, AcceptInv, AcceptFailsInv, ReadMessageInv, DisconnectInv, ReplyInv, WriteTmpInv,
     RenameInv, RenameFailsInv, StartInv, ClearInv DEF Launchd
<1>2. CASE End
  BY <1>2, EndInv
<1>3. ASSUME NEW c \in Clients, Connect(c) \/ Send(c) \/ HangUp(c) PROVE IInv'
  BY <1>3, ConnectInv, SendInv, HangUpInv
<1>4. CASE UNCHANGED vars
  <2>1. WireOK'
    <3>1. \A c \in Clients : Open(c)' <=> Open(c)
      BY <1>4 DEF Open, vars, wire
    <3> QED  BY <1>4, <3>1 DEF IInv, WireOK, vars, wire
  <2>2. Replayed' <=> Replayed
    BY <1>4 DEF Replayed, vars, wire
  <2> QED  BY <1>4, <2>1, <2>2, LaunchdUndisturbed DEF vars
<1> QED  BY <1>1, <1>2, <1>3, <1>4 DEF Next

\* The invariant holds in every reachable state.
LEMMA IInvHolds == Spec => []IInv
    BY InitInv, StepInv, PTL DEF Spec

\* Every variable always has its type, launchd serves at most one connection
\* (peerfd), and no launchctl waits without one.
THEOREM TypeCorrect == Spec => []TypeOK
<1>1. ASSUME IInv PROVE TypeOK
  <2>1. peer \subseteq Clients /\ Cardinality(peer) <= 1
    <3>1. CASE peer = {}
      BY <3>1, FS_EmptySet
    <3>2. CASE \E c \in Clients : peer = {c}
      BY <3>2, FS_Singleton
    <3> QED  BY <1>1, <3>1, <3>2 DEF IInv, WireOK
  <2>2. (peer # {}) = (pc \in {"reading", "disconnect", "write", "rename", "reply"})
    BY <1>1 DEF IInv, WireOK, Handling
  <2> QED  BY <1>1, <2>1, <2>2, FileKinds DEF IInv, WireOK, FileOK, TypeOK, Handling
<1> QED  BY <1>1, IInvHolds, PTL

\* What setValue() stored for a request that was answered with success is what
\* a restarted launchd reads, whatever was replayed, failed or cut off since.
THEOREM OverridesAreDurable == Spec => []Durable
<1>1. IInv => Durable
  BY DEF IInv
<1> QED  BY <1>1, IInvHolds, PTL

\* Between two requests currentValue is what state.json holds, and never an
\* override that nobody asked for.
THEOREM MemoryIsFile == Spec => []MemoryMatchesFile
<1>1. IInv => MemoryMatchesFile
  BY DEF IInv, MemoryOK, MemoryMatchesFile
<1> QED  BY <1>1, IInvHolds, PTL

\* state.json cannot be parsed only after the disk was full or launchd ended
\* during its first start.
THEOREM DamageIsExplained == Spec => []DamageExplained
<1>1. IInv => DamageExplained
  BY DEF IInv
<1> QED  BY <1>1, IInvHolds, PTL
=============================================================================
