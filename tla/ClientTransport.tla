--------------------------- MODULE ClientTransport ---------------------------
(***************************************************************************)
(* The client transports of pkg/transport: the connection each of them     *)
(* keeps, how Send dials it, writes to it and gives it up, when the two    *)
(* workers of an agent share the transport. `kind' says which transport a  *)
(* behaviour is about; it never changes.                                   *)
(*                                                                         *)
(* A connection is a number; 0 is nil. `wire' holds what was written to a  *)
(* connection: TCP writes a length header and then the body of a frame,    *)
(* the others write one message. A "part" is a write that failed half-way. *)
(* The HTTP transport leaves its connections to the pool of http.Client.   *)
(***************************************************************************)
EXTENDS Integers, Sequences, FiniteSets

CONSTANTS
  Kinds,      \* a subset of {"tcp", "ws", "grpc", "udp", "http"}
  Senders,    \* the workers of the agent
  Payloads,
  Large,      \* payloads above framer.MaxFrameSize
  Loads,      \* what the senders send: one of these functions
  MaxConns,   \* bound: the connections ever made
  NoSender

ASSUME TransportAssumption ==
  /\ Kinds \subseteq {"tcp", "ws", "grpc", "udp", "http"}
  /\ Large \subseteq Payloads
  /\ Loads \subseteq [Senders -> Seq(Payloads)]
  /\ IsFiniteSet(Senders) /\ IsFiniteSet(Payloads)
  /\ MaxConns \in Nat \ {0}
  /\ NoSender \notin Senders

\* A payload is one call of Send: the same bytes sent again are another one.
ASSUME SentOnce ==
  \A l \in Loads : \A s, t \in Senders : \A i \in DOMAIN l[s], j \in DOMAIN l[t] :
    l[s][i] = l[t][j] => s = t /\ i = j

Conns == 1..MaxConns
Refs == 0..MaxConns

VARIABLES
  kind,
  load,     \* the member of Loads this behaviour is about
  phase,    \* new, running, failed (Start returned an error), closed, crashed
  started,  \* Start has succeeded
  conn,     \* Transport.conn
  dialled,  \* connections made so far
  open,     \* connections the client has not closed
  cut,      \* connections the peer or the network has broken; of UDP, the
            \* socket with an error of an earlier datagram to report
  healed,   \* from now on nothing breaks and every dial succeeds
  broken,   \* history: the connections that were cut then
  wire,
  lock,     \* the holder of Transport.mu between two steps (TCP)
  todo,     \* todo[s]: what s has still to send, the current payload first
  pc,       \* idle, dial, install, reload, write, body, reset, post
  hand,     \* hand[s]: the connection s has copied from Transport.conn, or
            \* taken from the pool
  result,   \* history: what Send returned: none, ok, err
  late      \* history: <<p, c>> when Send failed, over c, although all was healed

sendVars == <<todo, pc, hand, result, late>>
connVars == <<conn, dialled, open>>
fixed == <<kind, load>>
vars == <<fixed, phase, started, connVars, cut, healed, broken, wire, lock, sendVars>>

Failures == Payloads \X Refs

TypeOK ==
  /\ kind \in Kinds /\ load \in Loads
  /\ phase \in {"new", "running", "failed", "closed", "crashed"}
  /\ started \in BOOLEAN /\ healed \in BOOLEAN
  /\ conn \in Refs /\ dialled \in Refs
  /\ open \subseteq 1..dialled /\ cut \subseteq 1..dialled /\ broken \subseteq 1..dialled
  /\ wire \in [Conns -> Seq(Payloads \X {"hdr", "body", "msg", "part"})]
  /\ lock \in Senders \cup {NoSender}
  /\ \A s \in Senders : pc[s] = "body" <=> lock = s
  /\ todo \in [Senders -> Seq(Payloads)]
  /\ pc \in [Senders -> {"idle", "dial", "install", "reload", "write", "body", "reset", "post"}]
  /\ hand \in [Senders -> 0..dialled]
  /\ result \in [Payloads -> {"none", "ok", "err"}]
  /\ late \subseteq Failures

Init ==
  /\ kind \in Kinds /\ load \in Loads
  /\ phase = "new" /\ started = FALSE
  /\ conn = 0 /\ dialled = 0 /\ open = {} /\ cut = {} /\ healed = FALSE /\ broken = {}
  /\ wire = [c \in Conns |-> <<>>]
  /\ lock = NoSender
  /\ todo = load
  /\ pc = [s \in Senders |-> "idle"]
  /\ hand = [s \in Senders |-> 0]
  /\ result = [p \in Payloads |-> "none"]
  /\ late = {}

-----------------------------------------------------------------------------
(* What the operations share *)

Fresh == dialled + 1

\* A new connection. A gRPC ClientConn is made without the network.
CanDial == dialled < MaxConns
Dialled == dialled' = Fresh /\ open' = open \cup {Fresh}

Written(c, p, part) == wire' = [wire EXCEPT ![c] = Append(@, <<p, part>>)]

Goto(s, l) == pc' = [pc EXCEPT ![s] = l] /\ UNCHANGED <<todo, result, late>>

\* The connection a Send is about.
Over(s) == IF kind \in {"tcp", "udp"} THEN conn ELSE hand[s]

\* Send returns r; the sender goes on with its next payload.
Return(s, r) ==
  LET p == Head(todo[s]) IN
  /\ pc' = [pc EXCEPT ![s] = "idle"]
  /\ todo' = [todo EXCEPT ![s] = Tail(@)]
  /\ result' = [result EXCEPT ![p] = r]
  /\ late' = IF r = "err" /\ healed /\ ~(kind = "tcp" /\ p \in Large) THEN late \cup {<<p, Over(s)>>} ELSE late

\* A call through a nil connection: a panic nobody recovers.
Crash == phase' = "crashed" /\ UNCHANGED <<connVars, wire, lock, sendVars>>

Sending(s) == phase = "running" /\ todo[s] # <<>>

-----------------------------------------------------------------------------
(* Start and Close, called by the agent before and after its workers *)

Start ==
  /\ phase = "new" /\ kind # "http" /\ CanDial
  /\ Dialled /\ conn' = Fresh
  /\ phase' = "running" /\ started' = TRUE
  /\ UNCHANGED <<fixed, cut, healed, broken, wire, lock, sendVars>>

\* HTTP has nothing to start.
StartStateless ==
  /\ phase = "new" /\ kind = "http"
  /\ phase' = "running" /\ started' = TRUE
  /\ UNCHANGED <<fixed, connVars, cut, healed, broken, wire, lock, sendVars>>

StartFails ==
  /\ phase = "new" /\ kind \in {"tcp", "ws", "udp"} /\ ~healed
  /\ phase' = "failed"
  /\ UNCHANGED <<fixed, started, connVars, cut, healed, broken, wire, lock, sendVars>>

\* A caller that sends without Start: Send connects by itself.
SkipStart ==
  /\ phase = "new"
  /\ phase' = "running"
  /\ UNCHANGED <<fixed, started, connVars, cut, healed, broken, wire, lock, sendVars>>

Close ==
  /\ phase = "running"
  /\ \A s \in Senders : todo[s] = <<>>
  /\ phase' = "closed"
  /\ open' = IF kind = "http" THEN {} ELSE open \ {conn}
  /\ conn' = IF kind \in {"tcp", "ws", "grpc"} THEN 0 ELSE conn
  /\ UNCHANGED <<fixed, started, dialled, cut, healed, broken, wire, lock, sendVars>>

-----------------------------------------------------------------------------
(* TCP: mu is held over the dial, and over the two writes of a frame *)

TcpEnsure(s) ==
  /\ kind = "tcp" /\ Sending(s) /\ pc[s] = "idle" /\ lock = NoSender
  /\ \/ conn # 0 /\ Goto(s, "write") /\ UNCHANGED connVars
     \/ conn = 0 /\ CanDial /\ Dialled /\ conn' = Fresh /\ Goto(s, "write")
     \/ conn = 0 /\ ~healed /\ Return(s, "err") /\ UNCHANGED connVars
  /\ UNCHANGED <<fixed, phase, started, cut, healed, broken, wire, lock, hand>>

\* Mutant: a failed write keeps the connection.
TcpGiveUpKeepsConn(s) ==
  /\ UNCHANGED connVars
  /\ lock' = NoSender
  /\ Return(s, "err")

\* Mutant: the connection is forgotten but not closed.
TcpGiveUpLeavesOpen(s) ==
  /\ conn' = 0 /\ UNCHANGED <<dialled, open>>
  /\ lock' = NoSender
  /\ Return(s, "err")

\* A write that failed: the connection is closed and forgotten.
TcpGiveUp(s) ==
  /\ open' = open \ {conn} /\ conn' = 0 /\ UNCHANGED dialled
  /\ lock' = NoSender
  /\ Return(s, "err")

\* mu is taken anew: the connection TcpEnsure saw may be gone by now.
TcpHeader(s) ==
  /\ kind = "tcp" /\ Sending(s) /\ pc[s] = "write" /\ lock = NoSender
  /\ \/ conn = 0 /\ Crash
     \/ /\ conn # 0 /\ Head(todo[s]) \in Large
        /\ TcpGiveUp(s) /\ UNCHANGED <<phase, wire, hand>>
     \/ /\ conn \in cut /\ Head(todo[s]) \notin Large
        /\ Written(conn, Head(todo[s]), "part")
        /\ TcpGiveUp(s) /\ UNCHANGED <<phase, hand>>
     \/ /\ conn # 0 /\ Head(todo[s]) \notin Large
        /\ Written(conn, Head(todo[s]), "hdr")
        /\ lock' = s /\ Goto(s, "body") /\ UNCHANGED <<phase, connVars, hand>>
  /\ UNCHANGED <<fixed, started, cut, healed, broken>>

TcpBody(s) ==
  /\ kind = "tcp" /\ Sending(s) /\ pc[s] = "body"
  /\ \/ /\ Written(conn, Head(todo[s]), "body")
        /\ lock' = NoSender /\ Return(s, "ok") /\ UNCHANGED connVars
     \/ /\ conn \in cut
        /\ Written(conn, Head(todo[s]), "part")
        /\ TcpGiveUp(s)
  /\ UNCHANGED <<fixed, phase, started, cut, healed, broken, hand>>

-----------------------------------------------------------------------------
(* WebSocket and gRPC: mu is held only to read and to replace the field *)

Keeps == kind \in {"ws", "grpc"}

LoadConn(s) ==
  /\ Keeps /\ Sending(s) /\ pc[s] = "idle"
  /\ hand' = [hand EXCEPT ![s] = conn]
  /\ Goto(s, IF conn = 0 THEN "dial" ELSE "write")
  /\ UNCHANGED <<fixed, phase, started, connVars, cut, healed, broken, wire, lock>>

DialConn(s) ==
  /\ Keeps /\ Sending(s) /\ pc[s] = "dial"
  /\ \/ /\ CanDial /\ Dialled
        /\ hand' = [hand EXCEPT ![s] = Fresh] /\ Goto(s, "install")
     \/ /\ kind = "ws" /\ ~healed
        /\ Return(s, "err") /\ UNCHANGED <<dialled, open, hand>>
  /\ UNCHANGED <<fixed, phase, started, conn, cut, healed, broken, wire, lock>>

\* Mutant: the connection that is replaced is not closed.
InstallLeavesOpen(s) ==
  /\ Keeps /\ Sending(s) /\ pc[s] = "install"
  /\ conn' = hand[s]
  /\ Goto(s, "reload")
  /\ UNCHANGED <<fixed, phase, started, dialled, open, cut, healed, broken, wire, lock, hand>>

\* WebSocket closes the connection it replaces, gRPC does not.
Install(s) ==
  /\ Keeps /\ Sending(s) /\ pc[s] = "install"
  /\ conn' = hand[s]
  /\ open' = IF kind = "ws" THEN open \ {conn} ELSE open
  /\ Goto(s, "reload")
  /\ UNCHANGED <<fixed, phase, started, dialled, cut, healed, broken, wire, lock, hand>>

\* Mutant: the new connection is not read back into the local variable.
ReloadStale(s) ==
  /\ Keeps /\ Sending(s) /\ pc[s] = "reload"
  /\ hand' = [hand EXCEPT ![s] = 0]
  /\ Goto(s, "write")
  /\ UNCHANGED <<fixed, phase, started, connVars, cut, healed, broken, wire, lock>>

Reload(s) ==
  /\ Keeps /\ Sending(s) /\ pc[s] = "reload"
  /\ hand' = [hand EXCEPT ![s] = conn]
  /\ Goto(s, "write")
  /\ UNCHANGED <<fixed, phase, started, connVars, cut, healed, broken, wire, lock>>

\* A write to a WebSocket that is broken may still be taken by the socket; an
\* RPC needs its answer, and fails at once as long as the ClientConn has not
\* connected anew.
Fails(c) == c \notin open \/ c \in cut
Works(c) == c \in open /\ (kind = "grpc" => c \notin cut)

WriteMessage(s) ==
  /\ Keeps /\ Sending(s) /\ pc[s] = "write"
  /\ \/ hand[s] = 0 /\ Crash
     \/ /\ Works(hand[s])
        /\ Written(hand[s], Head(todo[s]), "msg")
        /\ Return(s, "ok") /\ UNCHANGED <<phase, connVars, lock, hand>>
     \/ /\ hand[s] # 0 /\ Fails(hand[s])
        /\ IF kind = "ws" THEN Goto(s, "reset") ELSE Return(s, "err")
        /\ UNCHANGED <<phase, connVars, lock, hand>>
        /\ UNCHANGED wire \/ (kind = "grpc" /\ Written(hand[s], Head(todo[s]), "msg"))
  /\ UNCHANGED <<fixed, started, cut, healed, broken>>

\* Mutant: the connection that failed stays in the field.
ResetKeepsConn(s) ==
  /\ kind = "ws" /\ Sending(s) /\ pc[s] = "reset"
  /\ open' = open \ {hand[s]}
  /\ Return(s, "err")
  /\ UNCHANGED <<fixed, phase, started, conn, dialled, cut, healed, broken, wire, lock, hand>>

\* The sender's own connection is closed, but whatever the field holds now
\* is forgotten.
Reset(s) ==
  /\ kind = "ws" /\ Sending(s) /\ pc[s] = "reset"
  /\ open' = open \ {hand[s]} /\ conn' = 0
  /\ Return(s, "err")
  /\ UNCHANGED <<fixed, phase, started, dialled, cut, healed, broken, wire, lock, hand>>

-----------------------------------------------------------------------------
(* UDP: one call, which never connects *)

\* An error the socket has kept is reported, once, by the next write.
SendUdp(s) ==
  /\ kind = "udp" /\ Sending(s)
  /\ \/ conn \in open \ cut /\ Written(conn, Head(todo[s]), "msg") /\ Return(s, "ok") /\ UNCHANGED cut
     \/ conn \in cut /\ cut' = cut \ {conn} /\ Return(s, "err") /\ UNCHANGED wire
     \/ (conn \notin open \/ ~healed) /\ Return(s, "err") /\ UNCHANGED <<cut, wire>>
  /\ UNCHANGED <<fixed, phase, started, connVars, healed, broken, lock, hand>>

-----------------------------------------------------------------------------
(* HTTP: http.Client takes a connection from its pool, or makes one *)

Idle == open \ {hand[s] : s \in {t \in Senders : pc[t] = "post"}}

HttpConnect(s) ==
  /\ kind = "http" /\ Sending(s) /\ pc[s] = "idle"
  /\ \/ /\ \E c \in Idle : hand' = [hand EXCEPT ![s] = c]
        /\ Goto(s, "post") /\ UNCHANGED connVars
     \/ /\ Idle = {} /\ CanDial /\ Dialled /\ UNCHANGED conn
        /\ hand' = [hand EXCEPT ![s] = Fresh] /\ Goto(s, "post")
     \/ /\ Idle = {} /\ ~healed
        /\ Return(s, "err") /\ UNCHANGED <<connVars, hand>>
  /\ UNCHANGED <<fixed, phase, started, cut, healed, broken, wire, lock>>

\* A request that is answered gives its connection back.
HttpAnswer(s) ==
  /\ kind = "http" /\ Sending(s) /\ pc[s] = "post" /\ hand[s] \notin cut
  /\ Written(hand[s], Head(todo[s]), "msg")
  /\ Return(s, "ok") \/ (~healed /\ Return(s, "err"))
  /\ UNCHANGED <<fixed, phase, started, connVars, cut, healed, broken, lock, hand>>

\* A connection that is broken is closed. The request fails, whether it has
\* reached the server or not; when nothing of it was written, to a connection
\* from the pool, http.Client tries the next one.
HttpFails(s) ==
  /\ kind = "http" /\ Sending(s) /\ pc[s] = "post" /\ hand[s] \in cut
  /\ open' = open \ {hand[s]}
  /\ \/ Return(s, "err") /\ (UNCHANGED wire \/ Written(hand[s], Head(todo[s]), "msg"))
     \/ wire[hand[s]] # <<>> /\ Goto(s, "idle") /\ UNCHANGED wire
  /\ UNCHANGED <<fixed, phase, started, conn, dialled, cut, healed, broken, lock, hand>>

-----------------------------------------------------------------------------
(* The network *)

Break(c) ==
  /\ c \in open \ cut /\ ~healed
  /\ cut' = cut \cup {c}
  /\ UNCHANGED <<fixed, phase, started, connVars, healed, broken, wire, lock, sendVars>>

\* A ClientConn connects anew by itself, after its backoff.
Reconnect(c) ==
  /\ kind = "grpc" /\ c \in cut
  /\ cut' = cut \ {c}
  /\ UNCHANGED <<fixed, phase, started, connVars, healed, broken, wire, lock, sendVars>>

Heal ==
  /\ ~healed
  /\ healed' = TRUE /\ broken' = cut
  /\ UNCHANGED <<fixed, phase, started, connVars, cut, wire, lock, sendVars>>

Next ==
  \/ Start \/ StartStateless \/ StartFails \/ SkipStart \/ Close
  \/ \E s \in Senders :
       \/ TcpEnsure(s) \/ TcpHeader(s) \/ TcpBody(s)
       \/ LoadConn(s) \/ DialConn(s) \/ Install(s) \/ Reload(s)
       \/ WriteMessage(s) \/ Reset(s)
       \/ SendUdp(s) \/ HttpConnect(s) \/ HttpAnswer(s) \/ HttpFails(s)
  \/ \E c \in Conns : Break(c) \/ Reconnect(c)
  \/ Heal

Spec == Init /\ [][Next]_vars

-----------------------------------------------------------------------------
(* Properties *)

\* Only one goroutine uses the transport.
Solo == \A s, t \in Senders : load[s] # <<>> /\ load[t] # <<>> => s = t

\* The server can always tell the frames of a TCP connection apart: a header
\* is followed by its own body and nothing follows a write that failed
\* half-way, whoever sends and whatever breaks (tcp.go:84-98, length.go:23-51).
WholeFrames ==
  \A c \in Conns : \A i \in DOMAIN wire[c] :
    LET w == wire[c] IN
    /\ w[i][2] = "body" => i > 1 /\ w[i - 1] = <<w[i][1], "hdr">>
    /\ w[i][2] \in {"hdr", "part"} /\ i > 1 =>
         \/ w[i - 1][2] = "body"
         \/ w[i - 1] = <<w[i][1], "hdr">> /\ w[i][2] = "part"

\* Connections that the field has forgotten, or lost to another one, and that
\* nobody will ever close unless a sender still has them in hand and fails. The
\* pool of http.Client owns all of its own.
Orphans ==
  IF kind = "http" THEN {} ELSE open \ ({conn} \cup {hand[s] : s \in {r \in Senders : pc[r] = "install"}})

\* There are none, except with two senders of a WebSocket, or of a gRPC
\* transport that was not started: their mu does not cover dial and install
\* together (ws.go:68-103, grpc.go:63-90).
NoOrphan == (kind = "ws" \/ (kind = "grpc" /\ ~started) => Solo) => Orphans = {}

\* Whatever two or more senders do to each other: a WebSocket leaks no more
\* connections than Sends have failed, since a failing one forgets at most one
\* that it does not close and a new one closes what it replaces (ws.go:78-87,
\* 103-110); a gRPC transport leaks fewer clients than it has senders, since
\* no sender makes one once another is there (grpc.go:63-75,82-90).
LeaksBounded ==
  /\ kind = "ws" => Cardinality(Orphans) <= Cardinality({p \in Payloads : result[p] = "err"})
  /\ kind = "grpc" => Orphans = {} \/ Cardinality(Orphans) < Cardinality(Senders)

\* Once the network is back, a Send only fails over a connection that was
\* broken then: a TCP, WebSocket or UDP transport at most once; an HTTP
\* transport once for each connection of its pool; a gRPC transport until its
\* client has connected anew (tcp.go:84-98, ws.go:102-109, http.go:70-90,
\* grpc.go:92-97, udp.go:69-72). Two senders of a WebSocket can go on closing
\* each other's new connection, and a UDP transport that was not started never
\* sends.
HealsSoon ==
  (kind = "ws" => Solo) /\ (kind = "udp" => started) =>
    /\ \A f \in late : f[2] \in broken
    /\ kind # "grpc" => \A f, g \in late : (kind = "http" => f[2] = g[2]) => f = g

\* Nobody writes through a nil connection, except when two senders share a TCP
\* or a WebSocket transport: between the check and the write the other one's
\* failure resets the field (tcp.go:85-90, ws.go:93-102).
NilNeverUsed == (kind \in {"tcp", "ws"} => Solo) => phase # "crashed"
=============================================================================
