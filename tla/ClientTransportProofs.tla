------------------------ MODULE ClientTransportProofs ------------------------
(***************************************************************************)
(* Proofs about ClientTransport, for each kind of transport, any number of *)
(* senders, any load and any number of connections.                        *)
(***************************************************************************)
EXTENDS ClientTransport, SequenceTheorems, FiniteSetTheorems, TLAPS

\* What a sender can be doing with a transport of this kind.
StageOf(s) ==
  /\ kind = "tcp" => pc[s] \in {"idle", "write", "body"}
  /\ kind = "udp" => pc[s] = "idle"
  /\ kind = "http" => pc[s] \in {"idle", "post"}
  /\ Keeps => pc[s] \notin {"body", "post"}
  /\ pc[s] = "reset" => kind = "ws"
  /\ pc[s] # "idle" => phase \in {"running", "crashed"} /\ todo[s] # <<>>
  /\ todo[s] # <<>> => load[s] # <<>>

\* What the field holds.
FieldInv ==
  /\ conn \in 0..dialled
  /\ phase = "new" => started = FALSE /\ late = {} /\ conn = 0 /\ open = {}
  /\ kind = "http" => conn = 0
  /\ \A s \in Senders : pc[s] = "post" => hand[s] # 0
  /\ \A s \in Senders : pc[s] = "body" => conn # 0
  /\ late # {} => healed

StageInv == TypeOK /\ FieldInv /\ \A s \in Senders : StageOf(s)

\* The connection a sender of a WebSocket or gRPC transport has in hand: open
\* when it is about to be written to; the field is what the sender thinks it
\* is as long as nobody else uses the transport.
HandOf(s) ==
  Keeps /\ (kind = "ws" => Solo) =>
    /\ pc[s] \in {"install", "write"} => hand[s] \in open
    /\ pc[s] = "reload" => conn # 0
    /\ Solo /\ pc[s] \in {"dial", "install"} => conn = 0
    /\ Solo /\ pc[s] \in {"write", "reset"} => hand[s] = conn
    /\ kind = "grpc" /\ started => pc[s] \in {"idle", "write"}

TcpOf(s) == kind = "tcp" /\ Solo /\ pc[s] = "write" => conn # 0

KeptInv ==
  /\ \A s \in Senders : HandOf(s) /\ TcpOf(s)
  /\ Keeps /\ (kind = "ws" => Solo) => conn \in open \cup {0}
  /\ kind = "grpc" /\ started /\ phase = "running" => conn # 0

OwnedInv ==
  kind # "http" /\ (kind = "ws" \/ (kind = "grpc" /\ ~started) => Solo) =>
    \A c \in open : c = conn \/ \E s \in Senders : pc[s] = "install" /\ hand[s] = c

\* After the one failure that found the broken connection no broken one is used.
OnceInv ==
  /\ (kind = "ws" => Solo) /\ (kind = "udp" => started) /\ kind \in {"tcp", "ws", "udp"} /\ late # {} =>
       /\ conn \notin cut
       /\ \A s \in Senders : pc[s] # "reset" /\ (pc[s] = "install" => hand[s] \notin cut)
  /\ kind = "ws" /\ Solo => \A s \in Senders : pc[s] = "reset" => hand[s] \in cut
  /\ kind = "udp" /\ started /\ phase = "running" => conn \in open

\* A connection of the pool of http.Client is in one hand, and closed once it
\* has failed.
PoolInv ==
  kind = "http" =>
    /\ \A s \in Senders : pc[s] = "post" => hand[s] \in open
    /\ \A s, t \in Senders : pc[s] = "post" /\ pc[t] = "post" /\ hand[s] = hand[t] => s = t
    /\ \A f \in late : f[2] \notin open

HealInv == OnceInv /\ PoolInv /\ (healed => cut \subseteq broken)

\* A frame begins on a connection that ends in a whole one.
Ends(w, kinds) == w = <<>> \/ w[Len(w)][2] \in kinds
FrameInv ==
  /\ \A c \in Conns : c > dialled => wire[c] = <<>>
  /\ kind # "tcp" => \A c \in Conns : \A i \in DOMAIN wire[c] : wire[c][i][2] = "msg"
  /\ kind = "tcp" /\ conn # 0 /\ lock = NoSender => Ends(wire[conn], {"body"})
  /\ \A s \in Senders : pc[s] = "body" =>
       wire[conn] # <<>> /\ wire[conn][Len(wire[conn])] = <<Head(todo[s]), "hdr">>

\* The payloads still to be sent are different ones and have no result yet.
UnsentInv ==
  /\ \A s, t \in Senders : \A i \in DOMAIN todo[s], j \in DOMAIN todo[t] :
       todo[s][i] = todo[t][j] => s = t /\ i = j
  /\ \A s \in Senders : \A i \in DOMAIN todo[s] : result[todo[s][i]] = "none"

\* Every orphan of a WebSocket goes with a Send that failed. The orphans of a
\* gRPC transport and those who may still make one are fewer than its senders,
\* once one of them has installed its client.
Errs == {p \in Payloads : result[p] = "err"}
Making == {s \in Senders : pc[s] \in {"dial", "install"}}
LeakInv ==
  /\ kind = "ws" => Cardinality(Orphans) <= Cardinality(Errs)
  /\ kind = "grpc" =>
       /\ Orphans = {} \/ Cardinality(Orphans) < Cardinality(Senders)
       /\ conn = 0 /\ phase # "closed" => Orphans = {}
       /\ conn # 0 =>
            Orphans \cup Making = {} \/ Cardinality(Orphans) + Cardinality(Making) < Cardinality(Senders)

-----------------------------------------------------------------------------
(* Lemmas *)

Stages == {"idle", "dial", "install", "reload", "write", "body", "reset", "post"}
Parts == {"hdr", "body", "msg", "part"}

LEMMA SenderTypes ==
  ASSUME TypeOK, NEW s \in Senders, todo[s] # <<>>
  PROVE  Head(todo[s]) \in Payloads /\ Tail(todo[s]) \in Seq(Payloads)
<1>1. todo[s] \in Seq(Payloads)
  BY DEF TypeOK
<1>2. QED
  BY <1>1, HeadTailProperties, EmptySeq

LEMMA GotoTypes ==
  ASSUME TypeOK, NEW s \in Senders, NEW l \in Stages, Goto(s, l)
  PROVE  /\ todo' \in [Senders -> Seq(Payloads)] /\ pc' \in [Senders -> Stages]
         /\ result' \in [Payloads -> {"none", "ok", "err"}] /\ late' \subseteq Failures
         /\ pc'[s] = l /\ \A t \in Senders \ {s} : pc'[t] = pc[t]
BY DEF TypeOK, Goto, Stages

LEMMA FrameTypes ==
  ASSUME TypeOK
  PROVE  /\ 0 \in Refs /\ 0 \in 0..dialled /\ 1..dialled \subseteq 0..dialled /\ 0..dialled \subseteq Refs
         /\ 0 \notin open /\ 0 \notin cut /\ Conns \subseteq Refs
<1>1. dialled \in Nat /\ MaxConns \in Nat /\ dialled <= MaxConns
  BY TransportAssumption DEF TypeOK, Refs
<1>2. QED
  BY <1>1 DEF TypeOK, Refs, Conns

LEMMA ReturnTypes ==
  ASSUME TypeOK, NEW s \in Senders, todo[s] # <<>>, NEW r \in {"ok", "err"}, Return(s, r)
  PROVE  /\ todo' \in [Senders -> Seq(Payloads)] /\ pc' \in [Senders -> Stages]
         /\ result' \in [Payloads -> {"none", "ok", "err"}] /\ late' \subseteq Failures
         /\ pc'[s] = "idle" /\ \A t \in Senders \ {s} : pc'[t] = pc[t] /\ todo'[t] = todo[t]
<1>1. Head(todo[s]) \in Payloads /\ Tail(todo[s]) \in Seq(Payloads)
  BY SenderTypes
<1>2. Over(s) \in Refs
  BY FrameTypes DEF TypeOK, Over
<1>3. late' \subseteq Failures
  <2>1. <<Head(todo[s]), Over(s)>> \in Failures
    BY <1>1, <1>2 DEF Failures
  <2>2. QED
    BY <2>1 DEF TypeOK, Return
<1>4. QED
  BY <1>1, <1>3 DEF TypeOK, Return, Stages

LEMMA WrittenTypes ==
  ASSUME TypeOK, NEW c, NEW p \in Payloads, NEW part \in Parts, Written(c, p, part)
  PROVE  wire' \in [Conns -> Seq(Payloads \X Parts)]
<1>1. wire \in [Conns -> Seq(Payloads \X Parts)]
  BY DEF TypeOK, Parts
<1>2. <<p, part>> \in Payloads \X Parts
  OBVIOUS
<1>3. c \in Conns => Append(wire[c], <<p, part>>) \in Seq(Payloads \X Parts)
  BY <1>1, <1>2, AppendProperties
<1>4. QED
  BY <1>1, <1>3 DEF Written

LEMMA DialledTypes ==
  ASSUME TypeOK, CanDial, Dialled
  PROVE  /\ Fresh \in Conns /\ dialled' = Fresh /\ dialled' \in Refs /\ Fresh \notin cut /\ Fresh # 0
         /\ Fresh \in 0..dialled' /\ 0..dialled \subseteq 0..dialled'
         /\ open' = open \cup {Fresh} /\ open' \subseteq 1..dialled' /\ cut \subseteq 1..dialled'
         /\ broken \subseteq 1..dialled' /\ hand \in [Senders -> 0..dialled'] /\ conn \in Refs
<1>1. dialled \in Nat /\ MaxConns \in Nat /\ dialled < MaxConns /\ dialled' = dialled + 1
  BY TransportAssumption DEF TypeOK, Refs, CanDial, Dialled, Fresh
<1>2. /\ Fresh \in Conns /\ dialled' = Fresh /\ dialled' \in Refs /\ Fresh # 0
      /\ Fresh \notin 1..dialled /\ 1..dialled \subseteq 1..dialled'
      /\ 0..dialled \subseteq 0..dialled' /\ Fresh \in 1..dialled' /\ Fresh \in 0..dialled'
  BY <1>1 DEF Fresh, Conns, Refs
<1>3. QED
  BY <1>2 DEF TypeOK, Dialled

-----------------------------------------------------------------------------
(* Types and stages *)

LEMMA StageInit == Init => StageInv
<1> SUFFICES ASSUME Init PROVE StageInv
  OBVIOUS
<1>1. <<>> \in Seq(Payloads \X Parts) /\ MaxConns \in Nat /\ MaxConns >= 1
  BY EmptySeq, TransportAssumption
<1>2. wire \in [Conns -> Seq(Payloads \X Parts)] /\ load \in [Senders -> Seq(Payloads)]
  BY <1>1, TransportAssumption DEF Init
<1>3. 0 \in Refs /\ 0 \in 0..0
  BY <1>1 DEF Refs
<1>h. /\ conn \in Refs /\ dialled \in Refs /\ conn \in 0..dialled
      /\ hand \in [Senders -> 0..dialled] /\ open \subseteq 1..dialled /\ cut \subseteq 1..dialled
      /\ broken \subseteq 1..dialled
  BY <1>3 DEF Init
<1>l. /\ lock \in Senders \cup {NoSender} /\ todo \in [Senders -> Seq(Payloads)]
      /\ \A s \in Senders : pc[s] = "body" <=> lock = s
  BY <1>2, TransportAssumption DEF Init
<1>p. /\ pc \in [Senders -> Stages] /\ result \in [Payloads -> {"none", "ok", "err"}]
  BY DEF Init, Stages
<1>4. TypeOK
  BY <1>2, <1>3, <1>h, <1>l, <1>p DEF Init, TypeOK, Parts, Stages
<1>6. FieldInv /\ \A s \in Senders : StageOf(s)
  BY <1>h, TransportAssumption DEF Init, FieldInv, StageOf, Keeps
<1>7. QED
  BY <1>4, <1>6 DEF StageInv

LEMMA StageStart == StageInv /\ (Start \/ StartStateless \/ StartFails \/ SkipStart \/ Close) => StageInv'
<1>0. SUFFICES ASSUME StageInv, Start \/ StartStateless \/ StartFails \/ SkipStart \/ Close
               PROVE  StageInv'
  OBVIOUS
<1> USE <1>0
<1>e. TypeOK /\ FieldInv /\ \A s \in Senders : StageOf(s)
  BY DEF StageInv
<1>f. 0 \in Refs /\ 0 \in 0..dialled
  BY <1>e, FrameTypes
<1>1. CASE Start
  <2>1. Fresh \in Conns /\ Fresh \in Refs /\ dialled' \in Refs /\ open' \subseteq 1..dialled'
        /\ cut \subseteq 1..dialled' /\ hand \in [Senders -> 0..dialled'] /\ Fresh # 0
        /\ Fresh \in 0..dialled' /\ broken \subseteq 1..dialled'
    BY <1>1, <1>e, DialledTypes, FrameTypes DEF Start
  <2>2. TypeOK'
    BY <1>1, <1>e, <2>1 DEF Start, TypeOK, fixed, sendVars
  <2>3. FieldInv' /\ \A s \in Senders : StageOf(s)'
    BY <1>1, <1>e, <2>1 DEF Start, TypeOK, FieldInv, StageOf, Keeps, fixed, sendVars
  <2>4. QED
    BY <2>2, <2>3 DEF StageInv
<1>2. CASE StartStateless \/ StartFails \/ SkipStart
  BY <1>2, <1>e DEF StartStateless, StartFails, SkipStart, StageInv, TypeOK, FieldInv, StageOf, Keeps,
       fixed, connVars, sendVars
<1>3. CASE Close
  <2>1. \A s \in Senders : pc[s] = "idle"
    BY <1>3, <1>e DEF Close, StageOf
  <2>2. TypeOK'
    BY <1>3, <1>e, <1>f DEF Close, TypeOK, fixed, sendVars
  <2>3. FieldInv' /\ \A s \in Senders : StageOf(s)'
    BY <1>3, <1>e, <2>1 DEF Close, TypeOK, FieldInv, StageOf, Keeps, fixed, sendVars
  <2>4. QED
    BY <2>2, <2>3 DEF StageInv
<1>4. QED
  BY <1>0, <1>1, <1>2, <1>3

LEMMA StageNetwork ==
  StageInv /\ (Heal \/ (\E c \in Conns : Break(c) \/ Reconnect(c)) \/ UNCHANGED vars) => StageInv'
<1>1. StageInv /\ Heal => StageInv'
  BY DEF Heal, StageInv, TypeOK, FieldInv, StageOf, Keeps, fixed, connVars, sendVars
<1>2. ASSUME StageInv, NEW c \in Conns, Break(c) \/ Reconnect(c) PROVE StageInv'
  BY <1>2 DEF Break, Reconnect, StageInv, TypeOK, FieldInv, StageOf, Keeps, fixed, connVars, sendVars
<1>3. StageInv /\ UNCHANGED vars => StageInv'
  BY DEF vars, StageInv, TypeOK, FieldInv, StageOf, Keeps, fixed, connVars, sendVars
<1>4. QED
  BY <1>1, <1>2, <1>3

\* A write that failed leaves no connection.
LEMMA GiveUpTypes ==
  ASSUME StageInv, NEW s \in Senders, todo[s] # <<>>, TcpGiveUp(s), pc[s] = "body" \/ lock = NoSender
  PROVE  /\ conn' = 0 /\ 0 \in Refs /\ 0 \in 0..dialled /\ dialled' = dialled /\ open' \subseteq 1..dialled
         /\ lock' = NoSender /\ NoSender \notin Senders
         /\ \A t \in Senders : pc'[t] # "body"
         /\ todo' \in [Senders -> Seq(Payloads)] /\ pc' \in [Senders -> Stages]
         /\ result' \in [Payloads -> {"none", "ok", "err"}] /\ late' \subseteq Failures
         /\ pc'[s] = "idle" /\ \A t \in Senders \ {s} : pc'[t] = pc[t] /\ todo'[t] = todo[t]
         /\ late' # {} => healed \/ late # {}
<1>1. TypeOK /\ Return(s, "err")
  BY DEF StageInv, TcpGiveUp
<1>2. /\ todo' \in [Senders -> Seq(Payloads)] /\ pc' \in [Senders -> Stages]
      /\ result' \in [Payloads -> {"none", "ok", "err"}] /\ late' \subseteq Failures
      /\ pc'[s] = "idle" /\ \A t \in Senders \ {s} : pc'[t] = pc[t] /\ todo'[t] = todo[t]
  BY <1>1, ReturnTypes
<1>b. \A t \in Senders : pc[t] = "body" <=> lock = t
  BY <1>1 DEF TypeOK
<1>3. \A t \in Senders : pc'[t] # "body"
  <2>1. pc[s] = "body" => lock = s
    BY <1>b
  <2>2. \A t \in Senders \ {s} : pc[t] # "body"
    BY <1>b, <2>1, TransportAssumption
  <2>3. QED
    BY <1>2, <2>2
<1>4. late' # {} => healed \/ late # {}
  BY <1>1 DEF Return
<1>5. QED
  BY <1>1, <1>2, <1>3, <1>4, FrameTypes, TransportAssumption DEF TcpGiveUp, TypeOK

LEMMA StageTcpEnsure == ASSUME StageInv, NEW s \in Senders, TcpEnsure(s) PROVE StageInv'
<1>e. TypeOK /\ FieldInv /\ \A t \in Senders : StageOf(t)
  BY DEF StageInv
<1>f. /\ kind = "tcp" /\ Sending(s) /\ pc[s] = "idle" /\ lock = NoSender
      /\ UNCHANGED <<fixed, phase, started, cut, healed, broken, wire, lock, hand>>
  BY DEF TcpEnsure
<1>g. \A t \in Senders : pc[t] # "body"
  BY <1>e, <1>f, TransportAssumption DEF TypeOK
<1>1. CASE conn # 0 /\ Goto(s, "write") /\ UNCHANGED connVars
  <2>1. pc' \in [Senders -> Stages] /\ pc'[s] = "write" /\ \A t \in Senders \ {s} : pc'[t] = pc[t]
    BY <1>1, <1>e, GotoTypes DEF Stages
  <2>2. TypeOK'
    BY <1>1, <1>e, <1>f, <1>g, <2>1 DEF TypeOK, Goto, fixed, connVars, Stages
  <2>3. FieldInv' /\ \A t \in Senders : StageOf(t)'
    BY <1>1, <1>e, <1>f, <1>g, <2>1 DEF FieldInv, StageOf, Keeps, Goto, fixed, connVars, Sending
  <2>4. QED
    BY <2>2, <2>3 DEF StageInv
<1>2. CASE conn = 0 /\ CanDial /\ Dialled /\ conn' = Fresh /\ Goto(s, "write")
  <2>1. pc' \in [Senders -> Stages] /\ pc'[s] = "write" /\ \A t \in Senders \ {s} : pc'[t] = pc[t]
    BY <1>2, <1>e, GotoTypes DEF Stages
  <2>d. Fresh \in Conns /\ Fresh \in Refs /\ dialled' \in Refs /\ open' \subseteq 1..dialled'
        /\ cut \subseteq 1..dialled' /\ broken \subseteq 1..dialled' /\ hand \in [Senders -> 0..dialled'] /\ Fresh # 0
        /\ Fresh \in 0..dialled'
    BY <1>2, <1>e, DialledTypes, FrameTypes
  <2>2. TypeOK'
    BY <1>2, <1>e, <1>f, <1>g, <2>1, <2>d DEF TypeOK, Goto, fixed, Stages
  <2>3. FieldInv' /\ \A t \in Senders : StageOf(t)'
    BY <1>2, <1>e, <1>f, <1>g, <2>1, <2>d DEF FieldInv, StageOf, Keeps, Goto, fixed, Sending
  <2>4. QED
    BY <2>2, <2>3 DEF StageInv
<1>3. CASE conn = 0 /\ ~healed /\ Return(s, "err") /\ UNCHANGED connVars
  <2>1. /\ todo' \in [Senders -> Seq(Payloads)] /\ pc' \in [Senders -> Stages]
        /\ result' \in [Payloads -> {"none", "ok", "err"}] /\ late' \subseteq Failures
        /\ pc'[s] = "idle" /\ \A t \in Senders \ {s} : pc'[t] = pc[t] /\ todo'[t] = todo[t]
    BY <1>3, <1>e, <1>f, ReturnTypes DEF Sending
  <2>2. TypeOK'
    BY <1>3, <1>e, <1>f, <1>g, <2>1 DEF TypeOK, fixed, connVars, Stages
  <2>4. late' = late
    BY <1>3 DEF Return
  <2>3. FieldInv' /\ \A t \in Senders : StageOf(t)'
    BY <1>3, <1>e, <1>f, <1>g, <2>1, <2>4 DEF FieldInv, StageOf, Keeps, fixed, connVars, Sending
  <2>5. QED
    BY <2>2, <2>3 DEF StageInv
<1>4. QED
  BY <1>1, <1>2, <1>3 DEF TcpEnsure

LEMMA StageTcpHeader == ASSUME StageInv, NEW s \in Senders, TcpHeader(s) PROVE StageInv'
<1>e. TypeOK /\ FieldInv /\ \A t \in Senders : StageOf(t)
  BY DEF StageInv
<1>f. /\ kind = "tcp" /\ Sending(s) /\ pc[s] = "write" /\ lock = NoSender /\ todo[s] # <<>>
      /\ UNCHANGED <<fixed, started, cut, healed, broken>>
  BY DEF TcpHeader, Sending
<1>g. /\ \A t \in Senders : pc[t] # "body"
      /\ Head(todo[s]) \in Payloads
  BY <1>e, <1>f, SenderTypes, TransportAssumption DEF TypeOK
<1>1. CASE Crash
  BY <1>1, <1>e, <1>f, <1>g DEF Crash, StageInv, TypeOK, FieldInv, StageOf, Keeps, fixed, connVars, sendVars
<1>2. ASSUME TcpGiveUp(s), UNCHANGED <<phase, hand>>, wire' \in [Conns -> Seq(Payloads \X Parts)]
      PROVE  StageInv'
  <2>1. /\ conn' = 0 /\ 0 \in Refs /\ 0 \in 0..dialled /\ dialled' = dialled /\ open' \subseteq 1..dialled
        /\ lock' = NoSender /\ \A t \in Senders : pc'[t] # "body"
        /\ todo' \in [Senders -> Seq(Payloads)] /\ pc' \in [Senders -> Stages]
        /\ result' \in [Payloads -> {"none", "ok", "err"}] /\ late' \subseteq Failures
        /\ pc'[s] = "idle" /\ \A t \in Senders \ {s} : pc'[t] = pc[t] /\ todo'[t] = todo[t]
        /\ (late' # {} => healed \/ late # {})
    BY <1>2, <1>f, GiveUpTypes
  <2>n. NoSender \notin Senders
    BY TransportAssumption
  <2>2. TypeOK'
    BY <1>e, <1>f, <1>2, <2>1, <2>n DEF TypeOK, fixed, Stages, Parts
  <2>3. FieldInv' /\ \A t \in Senders : StageOf(t)'
    BY <1>e, <1>f, <1>2, <2>1 DEF FieldInv, StageOf, Keeps, fixed, Sending
  <2>4. QED
    BY <2>2, <2>3 DEF StageInv
<1>3. CASE conn # 0 /\ Head(todo[s]) \in Large /\ TcpGiveUp(s) /\ UNCHANGED <<phase, wire, hand>>
  BY <1>2, <1>3, <1>e DEF TypeOK, Parts
<1>4. CASE /\ Written(conn, Head(todo[s]), "part")
           /\ TcpGiveUp(s) /\ UNCHANGED <<phase, hand>>
  <2>1. wire' \in [Conns -> Seq(Payloads \X Parts)]
    BY <1>4, <1>e, <1>g, WrittenTypes DEF Parts
  <2>2. QED
    BY <1>2, <1>4, <2>1
<1>5. CASE /\ conn # 0
           /\ Written(conn, Head(todo[s]), "hdr")
           /\ lock' = s /\ Goto(s, "body") /\ UNCHANGED <<phase, connVars, hand>>
  <2>1. wire' \in [Conns -> Seq(Payloads \X Parts)]
    BY <1>5, <1>e, <1>g, WrittenTypes DEF Parts
  <2>2. pc' \in [Senders -> Stages] /\ pc'[s] = "body" /\ \A t \in Senders \ {s} : pc'[t] = pc[t]
    BY <1>5, <1>e, GotoTypes DEF Stages
  <2>3. TypeOK'
    BY <1>5, <1>e, <1>f, <1>g, <2>1, <2>2 DEF TypeOK, Goto, fixed, connVars, Stages, Parts
  <2>4. FieldInv' /\ \A t \in Senders : StageOf(t)'
    BY <1>5, <1>e, <1>f, <1>g, <2>2 DEF FieldInv, StageOf, Keeps, Goto, fixed, connVars, Sending
  <2>5. QED
    BY <2>3, <2>4 DEF StageInv
<1>6. QED
  BY <1>1, <1>3, <1>4, <1>5 DEF TcpHeader

LEMMA StageTcpBody == ASSUME StageInv, NEW s \in Senders, TcpBody(s) PROVE StageInv'
<1>e. TypeOK /\ FieldInv /\ \A t \in Senders : StageOf(t)
  BY DEF StageInv
<1>f. /\ kind = "tcp" /\ Sending(s) /\ pc[s] = "body" /\ todo[s] # <<>>
      /\ UNCHANGED <<fixed, phase, started, cut, healed, broken, hand>>
  BY DEF TcpBody, Sending
<1>g. Head(todo[s]) \in Payloads /\ NoSender \notin Senders
  BY <1>e, <1>f, SenderTypes, TransportAssumption
<1>1. CASE /\ Written(conn, Head(todo[s]), "body")
           /\ lock' = NoSender /\ Return(s, "ok") /\ UNCHANGED connVars
  <2>1. wire' \in [Conns -> Seq(Payloads \X Parts)]
    BY <1>1, <1>e, <1>g, WrittenTypes DEF Parts
  <2>2. /\ todo' \in [Senders -> Seq(Payloads)] /\ pc' \in [Senders -> Stages]
        /\ result' \in [Payloads -> {"none", "ok", "err"}] /\ late' \subseteq Failures
        /\ pc'[s] = "idle" /\ \A t \in Senders \ {s} : pc'[t] = pc[t] /\ todo'[t] = todo[t]
    BY <1>1, <1>e, <1>f, ReturnTypes
  <2>b. \A t \in Senders : pc[t] = "body" <=> lock = t
    BY <1>e DEF TypeOK
  <2>3. \A t \in Senders : pc'[t] # "body"
    BY <1>f, <2>2, <2>b
  <2>4. TypeOK'
    BY <1>1, <1>e, <1>f, <1>g, <2>1, <2>2, <2>3 DEF TypeOK, fixed, connVars, Stages, Parts
  <2>5. late' = late
    BY <1>1 DEF Return
  <2>6. FieldInv' /\ \A t \in Senders : StageOf(t)'
    BY <1>1, <1>e, <1>f, <2>2, <2>3, <2>5 DEF FieldInv, StageOf, Keeps, fixed, connVars
  <2>7. QED
    BY <2>4, <2>6 DEF StageInv
<1>2. CASE Written(conn, Head(todo[s]), "part") /\ TcpGiveUp(s)
  <2>1. wire' \in [Conns -> Seq(Payloads \X Parts)]
    BY <1>2, <1>e, <1>g, WrittenTypes DEF Parts
  <2>2. /\ conn' = 0 /\ 0 \in Refs /\ 0 \in 0..dialled /\ dialled' = dialled /\ open' \subseteq 1..dialled
        /\ lock' = NoSender /\ \A t \in Senders : pc'[t] # "body"
        /\ todo' \in [Senders -> Seq(Payloads)] /\ pc' \in [Senders -> Stages]
        /\ result' \in [Payloads -> {"none", "ok", "err"}] /\ late' \subseteq Failures
        /\ pc'[s] = "idle" /\ \A t \in Senders \ {s} : pc'[t] = pc[t] /\ todo'[t] = todo[t]
        /\ (late' # {} => healed \/ late # {})
    BY <1>2, <1>f, GiveUpTypes
  <2>3. TypeOK'
    BY <1>e, <1>f, <1>g, <2>1, <2>2 DEF TypeOK, fixed, Stages, Parts
  <2>4. FieldInv' /\ \A t \in Senders : StageOf(t)'
    BY <1>e, <1>f, <2>2 DEF FieldInv, StageOf, Keeps, fixed
  <2>5. QED
    BY <2>3, <2>4 DEF StageInv
<1>3. QED
  BY <1>1, <1>2 DEF TcpBody

\* What a step of Send on a transport other than TCP may do at all.
LEMMA SharedStage ==
  ASSUME StageInv, kind # "tcp", NEW s \in Senders, Sending(s),
         UNCHANGED <<fixed, started, healed, broken, lock>>,
         phase' = phase, conn' \in Refs, conn' \in 0..dialled', dialled' \in Refs, kind = "http" => conn' = 0,
         open' \subseteq 1..dialled', cut' \subseteq 1..dialled', broken \subseteq 1..dialled',
         hand' \in [Senders -> 0..dialled'], \A t \in Senders \ {s} : hand'[t] = hand[t],
         wire' \in [Conns -> Seq(Payloads \X Parts)],
         \/ \E l \in Stages \ {"body"} :
              /\ Goto(s, l)
              /\ Keeps => l # "post" /\ (l = "reset" => kind = "ws")
              /\ ~Keeps => kind = "http" /\ l \in {"idle", "post"}
              /\ l = "post" => hand'[s] # 0
         \/ \E r \in {"ok", "err"} : Return(s, r)
  PROVE  StageInv'
<1>e. TypeOK /\ FieldInv /\ (\A t \in Senders : StageOf(t)) /\ todo[s] # <<>> /\ phase = "running"
  BY DEF StageInv, Sending
<1>b. /\ \A t \in Senders : pc[t] = "body" <=> lock = t
      /\ \A t \in Senders : pc[t] # "body"
  BY <1>e, TransportAssumption DEF TypeOK, StageOf, Keeps
<1>1. ASSUME NEW l \in Stages \ {"body"}, Goto(s, l),
             Keeps => l # "post" /\ (l = "reset" => kind = "ws"),
             ~Keeps => kind = "http" /\ l \in {"idle", "post"},
             l = "post" => hand'[s] # 0
      PROVE  StageInv'
  <2>1. /\ todo' \in [Senders -> Seq(Payloads)] /\ pc' \in [Senders -> Stages]
        /\ result' \in [Payloads -> {"none", "ok", "err"}] /\ late' \subseteq Failures
        /\ pc'[s] = l /\ \A t \in Senders \ {s} : pc'[t] = pc[t]
    BY <1>1, <1>e, GotoTypes
  <2>2. \A t \in Senders : pc'[t] # "body"
    BY <2>1, <1>b
  <2>3. TypeOK'
    <3>1. \A t \in Senders : pc'[t] = "body" <=> lock' = t
      BY <1>e, <1>b, <2>2
    <3>2. QED
      BY <1>e, <2>1, <3>1 DEF TypeOK, fixed, Stages, Parts
  <2>4. FieldInv' /\ \A t \in Senders : StageOf(t)'
    BY <1>1, <1>e, <2>1, <2>2 DEF FieldInv, StageOf, Keeps, Goto, fixed
  <2>5. QED
    BY <2>3, <2>4 DEF StageInv
<1>2. ASSUME NEW r \in {"ok", "err"}, Return(s, r) PROVE StageInv'
  <2>1. /\ todo' \in [Senders -> Seq(Payloads)] /\ pc' \in [Senders -> Stages]
        /\ result' \in [Payloads -> {"none", "ok", "err"}] /\ late' \subseteq Failures
        /\ pc'[s] = "idle" /\ \A t \in Senders \ {s} : pc'[t] = pc[t] /\ todo'[t] = todo[t]
    BY <1>2, <1>e, ReturnTypes
  <2>2. \A t \in Senders : pc'[t] # "body"
    BY <2>1, <1>b
  <2>3. TypeOK'
    BY <1>e, <1>b, <2>1, <2>2 DEF TypeOK, fixed, Stages, Parts
  <2>4. late' # {} => healed \/ late # {}
    BY <1>2 DEF Return
  <2>5. FieldInv' /\ \A t \in Senders : StageOf(t)'
    BY <1>e, <2>1, <2>2, <2>4 DEF FieldInv, StageOf, Keeps, fixed
  <2>6. QED
    BY <2>3, <2>5 DEF StageInv
<1>3. QED
  BY <1>1, <1>2

LEMMA StageKeeps ==
  ASSUME StageInv, NEW s \in Senders,
         LoadConn(s) \/ DialConn(s) \/ Install(s) \/ Reload(s) \/ WriteMessage(s) \/ Reset(s)
  PROVE  StageInv'
<1>e. TypeOK /\ FieldInv /\ \A t \in Senders : StageOf(t)
  BY DEF StageInv
<1>f. /\ 0 \in Refs /\ 0 \in 0..dialled /\ 1..dialled \subseteq 0..dialled /\ 0..dialled \subseteq Refs
      /\ conn \in Refs /\ dialled \in Refs /\ hand \in [Senders -> 0..dialled]
      /\ open \subseteq 1..dialled /\ cut \subseteq 1..dialled /\ broken \subseteq 1..dialled
      /\ wire \in [Conns -> Seq(Payloads \X Parts)]
  BY <1>e, FrameTypes DEF TypeOK, Parts
<1>c. conn \in 0..dialled
  BY <1>e DEF FieldInv
<1>k. /\ Keeps /\ kind \notin {"tcp", "http"} /\ Sending(s) /\ UNCHANGED <<fixed, started, cut, healed, broken>>
      /\ \A t \in Senders \ {s} : hand'[t] = hand[t]
  BY <1>e DEF LoadConn, DialConn, Install, Reload, WriteMessage, Reset, Keeps, TypeOK, Crash, sendVars
<1>1. CASE LoadConn(s)
  BY <1>1, <1>c, <1>f, <1>k, SharedStage DEF LoadConn, connVars, Stages
<1>2. CASE DialConn(s)
  <2>1. CASE CanDial /\ Dialled /\ hand' = [hand EXCEPT ![s] = Fresh] /\ Goto(s, "install")
    <3>1. /\ Fresh \in Conns /\ dialled' = Fresh /\ dialled' \in Refs /\ open' \subseteq 1..dialled'
          /\ cut \subseteq 1..dialled' /\ hand \in [Senders -> 0..dialled'] /\ Fresh \in 0..dialled'
          /\ conn \in 0..dialled' /\ broken \subseteq 1..dialled'
      BY <2>1, <1>c, <1>e, DialledTypes DEF Conns
    <3>2. hand' \in [Senders -> 0..dialled']
      BY <2>1, <3>1
    <3>3. QED
      BY <1>2, <2>1, <3>1, <3>2, <1>c, <1>f, <1>k, SharedStage DEF DialConn, Stages
  <2>2. CASE Return(s, "err") /\ UNCHANGED <<dialled, open, hand>>
    BY <1>2, <2>2, <1>c, <1>f, <1>k, SharedStage DEF DialConn
  <2>3. QED
    BY <1>2, <2>1, <2>2 DEF DialConn
<1>3. CASE Install(s)
  <2>1. conn' \in Refs /\ conn' \in 0..dialled /\ open' \subseteq 1..dialled
    BY <1>3, <1>f DEF Install
  <2>2. QED
    BY <1>3, <2>1, <1>c, <1>f, <1>k, SharedStage DEF Install, Stages
<1>4. CASE Reload(s)
  BY <1>4, <1>c, <1>f, <1>k, SharedStage DEF Reload, connVars, Stages
<1>5. CASE WriteMessage(s)
  <2>1. CASE Crash
    BY <1>5, <2>1, <1>e, <1>k
       DEF Crash, StageInv, TypeOK, FieldInv, StageOf, Sending, Keeps, fixed, connVars, sendVars
  <2>2. CASE ~Crash
    <3>1. Head(todo[s]) \in Payloads
      BY <1>e, <1>k, SenderTypes DEF Sending
    <3>2. Written(hand[s], Head(todo[s]), "msg") => wire' \in [Conns -> Seq(Payloads \X Parts)]
      BY <3>1, <1>e, WrittenTypes DEF Parts
    <3>3. /\ wire' \in [Conns -> Seq(Payloads \X Parts)]
          /\ UNCHANGED <<phase, connVars, lock, hand>>
      BY <1>5, <2>2, <3>2, <1>f DEF WriteMessage
    <3>4. \/ \E l \in Stages \ {"body"} : Goto(s, l) /\ l # "post" /\ (l = "reset" => kind = "ws")
          \/ \E r \in {"ok", "err"} : Return(s, r)
      BY <1>5, <2>2 DEF WriteMessage, Stages
    <3>5. QED
      BY <3>3, <3>4, <1>c, <1>f, <1>k, SharedStage DEF connVars
  <2>3. QED
    BY <2>1, <2>2
<1>6. CASE Reset(s)
  <2>1. open' \subseteq 1..dialled /\ conn' = 0
    BY <1>6, <1>f DEF Reset
  <2>2. QED
    BY <1>6, <2>1, <1>c, <1>f, <1>k, SharedStage DEF Reset
<1>7. QED
  BY <1>1, <1>2, <1>3, <1>4, <1>5, <1>6

LEMMA StageOneCall ==
  ASSUME StageInv, NEW s \in Senders, SendUdp(s) \/ HttpConnect(s) \/ HttpAnswer(s) \/ HttpFails(s)
  PROVE  StageInv'
<1>e. TypeOK /\ FieldInv /\ \A t \in Senders : StageOf(t)
  BY DEF StageInv
<1>f. /\ 0 \in Refs /\ 0 \in 0..dialled /\ 1..dialled \subseteq 0..dialled /\ 0..dialled \subseteq Refs
      /\ 0 \notin open /\ conn \in Refs /\ conn \in 0..dialled /\ dialled \in Refs
      /\ hand \in [Senders -> 0..dialled]
      /\ open \subseteq 1..dialled /\ cut \subseteq 1..dialled /\ broken \subseteq 1..dialled
      /\ wire \in [Conns -> Seq(Payloads \X Parts)]
      /\ kind = "http" => conn = 0
  BY <1>e, FrameTypes DEF TypeOK, Parts, FieldInv
<1>k. /\ kind \in {"udp", "http"} /\ Sending(s) /\ todo[s] # <<>>
      /\ UNCHANGED <<fixed, started, phase, conn, healed, broken, lock>>
  BY DEF SendUdp, HttpConnect, HttpAnswer, HttpFails, Sending, connVars
<1>w. /\ Written(conn, Head(todo[s]), "msg") => wire' \in [Conns -> Seq(Payloads \X Parts)]
      /\ Written(hand[s], Head(todo[s]), "msg") => wire' \in [Conns -> Seq(Payloads \X Parts)]
  BY <1>e, <1>k, SenderTypes, WrittenTypes DEF Parts
<1>1. CASE SendUdp(s)
  <2>1. /\ wire' \in [Conns -> Seq(Payloads \X Parts)] /\ cut' \subseteq cut
        /\ UNCHANGED <<connVars, hand>> /\ \E r \in {"ok", "err"} : Return(s, r)
    BY <1>1, <1>f, <1>w DEF SendUdp
  <2>2. QED
    BY <2>1, <1>f, <1>k, SharedStage DEF connVars
<1>2. CASE HttpConnect(s)
  <2>h. kind = "http" /\ UNCHANGED <<cut, wire>>
    BY <1>2 DEF HttpConnect
  <2>1. CASE /\ \E c \in Idle : hand' = [hand EXCEPT ![s] = c]
             /\ Goto(s, "post") /\ UNCHANGED connVars
    <3>1. /\ hand' \in [Senders -> 0..dialled] /\ hand'[s] # 0
          /\ \A t \in Senders \ {s} : hand'[t] = hand[t]
      BY <2>1, <1>f DEF Idle
    <3>2. QED
      BY <2>1, <2>h, <3>1, <1>f, <1>k, SharedStage DEF connVars, Stages, Keeps
  <2>2. CASE CanDial /\ Dialled /\ hand' = [hand EXCEPT ![s] = Fresh] /\ Goto(s, "post")
    <3>1. /\ dialled' \in Refs /\ open' \subseteq 1..dialled' /\ Fresh # 0 /\ Fresh \in 0..dialled'
          /\ cut \subseteq 1..dialled' /\ broken \subseteq 1..dialled' /\ hand \in [Senders -> 0..dialled']
          /\ 0..dialled \subseteq 0..dialled'
      BY <2>2, <1>e, DialledTypes
    <3>2. /\ hand' \in [Senders -> 0..dialled'] /\ hand'[s] # 0
          /\ \A t \in Senders \ {s} : hand'[t] = hand[t]
      BY <2>2, <3>1
    <3>3. QED
      BY <2>2, <2>h, <3>1, <3>2, <1>f, <1>k, SharedStage DEF Stages, Keeps
  <2>3. CASE Return(s, "err") /\ UNCHANGED <<connVars, hand>>
    BY <2>3, <2>h, <1>f, <1>k, SharedStage DEF connVars
  <2>4. QED
    BY <1>2, <2>1, <2>2, <2>3 DEF HttpConnect
<1>3. CASE HttpAnswer(s)
  <2>1. /\ wire' \in [Conns -> Seq(Payloads \X Parts)] /\ UNCHANGED <<connVars, hand, cut>>
        /\ \E r \in {"ok", "err"} : Return(s, r)
    BY <1>3, <1>w DEF HttpAnswer
  <2>2. QED
    BY <2>1, <1>f, <1>k, SharedStage DEF connVars
<1>4. CASE HttpFails(s)
  <2>1. /\ kind = "http" /\ wire' \in [Conns -> Seq(Payloads \X Parts)] /\ UNCHANGED <<conn, dialled, hand, cut>>
        /\ open' \subseteq open
    BY <1>4, <1>f, <1>w DEF HttpFails
  <2>2. Return(s, "err") \/ Goto(s, "idle")
    BY <1>4 DEF HttpFails
  <2>3. CASE Return(s, "err")
    BY <2>1, <2>3, <1>f, <1>k, SharedStage
  <2>4. CASE Goto(s, "idle")
    <3>1. \E l \in Stages \ {"body"} :
            /\ Goto(s, l)
            /\ Keeps => l # "post" /\ (l = "reset" => kind = "ws")
            /\ ~Keeps => kind = "http" /\ l \in {"idle", "post"}
            /\ l = "post" => hand'[s] # 0
      BY <2>1, <2>4 DEF Stages, Keeps
    <3>2. QED
      BY <2>1, <3>1, <1>f, <1>k, SharedStage
  <2>5. QED
    BY <2>2, <2>3, <2>4
<1>5. QED
  BY <1>1, <1>2, <1>3, <1>4

LEMMA StageStep == StageInv /\ [Next]_vars => StageInv'
BY StageStart, StageNetwork, StageTcpEnsure, StageTcpHeader, StageTcpBody, StageKeeps, StageOneCall DEF Next

LEMMA Staged == Spec => []StageInv
BY StageInit, StageStep, PTL DEF Spec

\* The type invariant: whatever the senders and the network do, the fields of a
\* transport hold what their declarations say, and Transport.mu is held between
\* two steps exactly by a sender of a TCP frame between its two writes.
THEOREM TransportTypes == Spec => []TypeOK
<1>1. StageInv => TypeOK
  BY DEF StageInv
<1>2. QED
  BY <1>1, Staged, PTL

-----------------------------------------------------------------------------
(* The frames of a TCP connection *)

WellFramed(w) ==
  \A i \in DOMAIN w :
    /\ w[i][2] = "body" => i > 1 /\ w[i - 1] = <<w[i][1], "hdr">>
    /\ w[i][2] \in {"hdr", "part"} /\ i > 1 =>
         \/ w[i - 1][2] = "body"
         \/ w[i - 1] = <<w[i][1], "hdr">> /\ w[i][2] = "part"

LEMMA AppendedElements ==
  ASSUME NEW S, NEW w \in Seq(S), NEW e \in S
  PROVE  /\ Append(w, e) \in Seq(S) /\ Append(w, e) # <<>>
         /\ Len(w) \in Nat /\ Len(Append(w, e)) = Len(w) + 1
         /\ DOMAIN w = 1..Len(w) /\ DOMAIN Append(w, e) = 1..(Len(w) + 1)
         /\ \A i \in 1..Len(w) : Append(w, e)[i] = w[i]
         /\ Append(w, e)[Len(w) + 1] = e
         /\ w # <<>> => Len(w) >= 1
<1>1. /\ Append(w, e) \in Seq(S) /\ Len(Append(w, e)) = Len(w) + 1
      /\ \A i \in 1..Len(w) : Append(w, e)[i] = w[i]
      /\ Append(w, e)[Len(w) + 1] = e
  BY AppendProperties
<1>2. Len(w) \in Nat /\ DOMAIN w = 1..Len(w) /\ DOMAIN Append(w, e) = 1..Len(Append(w, e))
  BY <1>1, LenProperties
<1>3. QED
  BY <1>1, <1>2, EmptySeq

\* A header or a write that failed after a whole frame, a body or a write that
\* failed after the header of the same payload.
LEMMA FramedAppend ==
  ASSUME NEW w \in Seq(Payloads \X Parts), WellFramed(w), NEW p \in Payloads, NEW part \in Parts,
         \/ part \in {"hdr", "part"} /\ Ends(w, {"body"})
         \/ part \in {"body", "part"} /\ w # <<>> /\ w[Len(w)] = <<p, "hdr">>
         \/ part = "msg"
  PROVE  WellFramed(Append(w, <<p, part>>))
<1> DEFINE v == Append(w, <<p, part>>)
           n == Len(w)
<1>1. <<p, part>> \in Payloads \X Parts /\ <<p, part>>[1] = p /\ <<p, part>>[2] = part
  OBVIOUS
<1>2. /\ n \in Nat /\ DOMAIN w = 1..n /\ DOMAIN v = 1..(n + 1)
      /\ \A i \in 1..n : v[i] = w[i]
      /\ v[n + 1] = <<p, part>> /\ (w # <<>> => n >= 1)
  BY <1>1, AppendedElements
<1>e. w = <<>> => n = 0
  BY EmptySeq
<1> HIDE DEF v, n
<1>3. SUFFICES ASSUME NEW i \in DOMAIN v
      PROVE  /\ v[i][2] = "body" => i > 1 /\ v[i - 1] = <<v[i][1], "hdr">>
             /\ v[i][2] \in {"hdr", "part"} /\ i > 1 =>
                  \/ v[i - 1][2] = "body"
                  \/ v[i - 1] = <<v[i][1], "hdr">> /\ v[i][2] = "part"
  BY DEF WellFramed, v
<1>4. CASE i \in 1..n
  <2>1. i > 1 => v[i - 1] = w[i - 1]
    BY <1>2, <1>4
  <2>2. QED
    BY <2>1, <1>2, <1>4 DEF WellFramed
<1>5. CASE i = n + 1
  <2>1. v[i][1] = p /\ v[i][2] = part
    BY <1>1, <1>2, <1>5
  <2>2. i > 1 => v[i - 1] = w[n] /\ w # <<>>
    BY <1>2, <1>e, <1>5
  <2>3. CASE part \in {"hdr", "part"} /\ Ends(w, {"body"})
    BY <2>1, <2>2, <2>3 DEF Ends, n
  <2>4. CASE part \in {"body", "part"} /\ w # <<>> /\ w[Len(w)] = <<p, "hdr">>
    BY <2>1, <2>2, <2>4, <1>2, <1>5 DEF n
  <2>5. QED
    BY <2>1, <2>3, <2>4
<1>6. QED
  BY <1>2, <1>4, <1>5

WholeInv == StageInv /\ FrameInv /\ \A c \in Conns : WellFramed(wire[c])

\* A write to the connection.
LEMMA WrittenElements ==
  ASSUME TypeOK, NEW c \in Conns, NEW p \in Payloads, NEW part \in Parts, Written(c, p, part)
  PROVE  /\ wire'[c] = Append(wire[c], <<p, part>>)
         /\ \A d \in Conns \ {c} : wire'[d] = wire[d]
         /\ wire[c] \in Seq(Payloads \X Parts)
         /\ wire'[c] # <<>> /\ wire'[c][Len(wire'[c])] = <<p, part>>
<1>1. /\ wire'[c] = Append(wire[c], <<p, part>>)
      /\ \A d \in Conns \ {c} : wire'[d] = wire[d]
      /\ wire[c] \in Seq(Payloads \X Parts)
  BY DEF TypeOK, Written, Parts
<1>2. <<p, part>> \in Payloads \X Parts
  OBVIOUS
<1>3. /\ Append(wire[c], <<p, part>>) # <<>> /\ Len(Append(wire[c], <<p, part>>)) = Len(wire[c]) + 1
      /\ Append(wire[c], <<p, part>>)[Len(wire[c]) + 1] = <<p, part>>
  <2> DEFINE Chunks == Payloads \X Parts
             chunk == <<p, part>>
  <2>1. wire[c] \in Seq(Chunks) /\ chunk \in Chunks
    BY <1>1, <1>2
  <2> HIDE DEF Chunks, chunk
  <2>2. /\ Append(wire[c], chunk) # <<>> /\ Len(Append(wire[c], chunk)) = Len(wire[c]) + 1
        /\ Append(wire[c], chunk)[Len(wire[c]) + 1] = chunk
    BY <2>1, AppendedElements
  <2>3. QED
    BY <2>2 DEF chunk
<1>4. wire'[c] # <<>> /\ wire'[c][Len(wire'[c])] = <<p, part>>
  <2> HIDE DEF Written
  <2>1. Len(wire'[c]) = Len(wire[c]) + 1
    BY <1>1, <1>3
  <2>2. QED
    BY <1>1, <1>3, <2>1, Zenon
<1>5. QED
  BY <1>1, <1>4, Zenon

LEMMA DialledRange ==
  /\ Conns \subseteq Nat
  /\ TypeOK => dialled \in Nat /\ 1..dialled \subseteq Conns
  /\ TypeOK' => dialled' \in Nat /\ 1..dialled' \subseteq Conns
<1>1. MaxConns \in Nat
  BY TransportAssumption
<1>2. TypeOK => dialled \in 0..MaxConns
  BY DEF TypeOK, Refs
<1>3. TypeOK' => dialled' \in 0..MaxConns
  BY DEF TypeOK, Refs
<1>4. QED
  BY <1>1, <1>2, <1>3 DEF Conns

LEMMA WholeNotTcp ==
  ASSUME WholeInv, StageInv', kind # "tcp", kind' = kind, dialled <= dialled',
         \/ UNCHANGED wire
         \/ \E c \in 1..dialled, p \in Payloads : Written(c, p, "msg")
  PROVE  WholeInv'
<1>e. TypeOK /\ FrameInv /\ (\A c \in Conns : WellFramed(wire[c])) /\ TypeOK'
  BY DEF WholeInv, StageInv
<1>d. dialled \in Nat /\ dialled' \in Nat /\ Conns \subseteq Nat /\ 1..dialled \subseteq Conns
  BY <1>e, DialledRange
<1>b. \A s \in Senders : pc'[s] # "body"
  <2>1. kind' \in Kinds /\ \A s \in Senders : StageOf(s)'
    BY <1>e DEF StageInv, TypeOK
  <2>2. QED
    BY <2>1, TransportAssumption DEF StageOf, Keeps
<1>1. CASE UNCHANGED wire
  BY <1>1, <1>e, <1>d, <1>b DEF WholeInv, FrameInv
<1>2. ASSUME NEW c \in 1..dialled, NEW p \in Payloads, Written(c, p, "msg") PROVE WholeInv'
  <2>1. /\ wire'[c] = Append(wire[c], <<p, "msg">>)
        /\ \A d \in Conns \ {c} : wire'[d] = wire[d]
        /\ wire[c] \in Seq(Payloads \X Parts)
    BY <1>2, <1>e, <1>d, WrittenElements DEF Parts
  <2>2. WellFramed(wire'[c])
    BY <2>1, <1>e, <1>d, FramedAppend DEF Parts
  <2>3. \A d \in Conns : d > dialled' => wire'[d] = <<>>
    BY <2>1, <1>e, <1>d DEF FrameInv
  <2>4. \A i \in DOMAIN wire'[c] : wire'[c][i][2] = "msg"
    <3>1. <<p, "msg">> \in Payloads \X Parts
      BY DEF Parts
    <3>2. /\ DOMAIN wire'[c] = 1..(Len(wire[c]) + 1) /\ DOMAIN wire[c] = 1..Len(wire[c]) /\ Len(wire[c]) \in Nat
          /\ \A i \in 1..Len(wire[c]) : wire'[c][i] = wire[c][i]
          /\ wire'[c][Len(wire[c]) + 1] = <<p, "msg">>
      BY <2>1, <3>1, AppendedElements
    <3>3. \A i \in DOMAIN wire[c] : wire[c][i][2] = "msg"
      BY <1>e, <1>d DEF FrameInv
    <3>4. QED
      BY <3>2, <3>3
  <2>7. \A d \in Conns : \A i \in DOMAIN wire'[d] : wire'[d][i][2] = "msg"
    <3>1. ASSUME NEW d \in Conns \ {c} PROVE \A i \in DOMAIN wire'[d] : wire'[d][i][2] = "msg"
      <4>1. \A i \in DOMAIN wire[d] : wire[d][i][2] = "msg"
        BY <1>e DEF FrameInv
      <4>2. wire'[d] = wire[d]
        BY <2>1
      <4>3. QED
        BY <4>1, <4>2
    <3>2. QED
      BY <3>1, <2>4
  <2>5. FrameInv'
    BY <2>3, <2>7, <1>b DEF FrameInv
  <2>6. QED
    BY <2>1, <2>2, <2>5, <1>e DEF WholeInv
<1>3. QED
  BY <1>1, <1>2

\* A step that leaves what was written alone, and mu alone or free.
LEMMA WholeUnwritten ==
  ASSUME WholeInv, StageInv', UNCHANGED <<kind, wire>>, dialled <= dialled',
         \/ conn' \in {conn, 0} /\ lock' = lock /\ \A s \in Senders : pc'[s] = "body" <=> pc[s] = "body"
         \/ lock = NoSender /\ lock' = NoSender /\ (conn' \in {conn, 0} \/ conn' > dialled),
         \A s \in Senders : pc'[s] = "body" => todo'[s] = todo[s] /\ conn' = conn
  PROVE  WholeInv'
<1>e. TypeOK /\ FrameInv /\ (\A c \in Conns : WellFramed(wire[c])) /\ TypeOK'
  BY DEF WholeInv, StageInv
<1>d. dialled \in Nat /\ dialled' \in Nat /\ Conns \subseteq Nat
  BY <1>e, DialledRange
<1>n. /\ NoSender \notin Senders
      /\ \A s \in Senders : (pc'[s] = "body" <=> lock' = s) /\ (pc[s] = "body" <=> lock = s)
  BY <1>e, TransportAssumption DEF TypeOK
<1>1. ASSUME NEW c \in Conns, c > dialled' PROVE wire'[c] = <<>>
  <2>1. c > dialled
    BY <1>1, <1>d
  <2>2. QED
    BY <2>1, <1>e DEF FrameInv
<1>2. kind' = "tcp" /\ conn' # 0 /\ lock' = NoSender => Ends(wire'[conn'], {"body"})
  <2>1. conn' \in Refs /\ (conn' # 0 => conn' \in Conns)
    BY <1>e, TransportAssumption DEF TypeOK, Refs, Conns
  <2>2. QED
    BY <1>e, <1>n, <2>1 DEF FrameInv, Ends
<1>3. ASSUME NEW s \in Senders, pc'[s] = "body"
      PROVE  wire'[conn'] # <<>> /\ wire'[conn'][Len(wire'[conn'])] = <<Head(todo'[s]), "hdr">>
  <2>1. pc[s] = "body"
    BY <1>3, <1>n
  <2>2. QED
    BY <1>3, <2>1, <1>e DEF FrameInv
<1>4. kind' # "tcp" => \A c \in Conns : \A i \in DOMAIN wire'[c] : wire'[c][i][2] = "msg"
  BY <1>e DEF FrameInv
<1>5. FrameInv'
  BY <1>1, <1>2, <1>3, <1>4 DEF FrameInv
<1>6. QED
  BY <1>5, <1>e DEF WholeInv

\* A write of a TCP sender that holds mu, or takes it for the header.
LEMMA WholeTcp ==
  ASSUME WholeInv, StageInv', kind = "tcp", kind' = kind, dialled' = dialled, conn # 0,
         NEW s \in Senders, todo[s] # <<>>, NEW part \in {"hdr", "body", "part"},
         Written(conn, Head(todo[s]), part),
         part = "hdr" => lock = NoSender,
         part = "body" => pc[s] = "body",
         part = "part" => lock = NoSender \/ pc[s] = "body",
         \/ part = "hdr" /\ lock' = s /\ conn' = conn /\ todo'[s] = todo[s]
         \/ part = "body" /\ lock' = NoSender /\ conn' = conn
         \/ part = "part" /\ lock' = NoSender /\ conn' = 0
  PROVE  WholeInv'
<1>e. /\ TypeOK /\ FrameInv /\ (\A c \in Conns : WellFramed(wire[c])) /\ FieldInv /\ TypeOK'
      /\ FieldInv' /\ WholeInv
  BY DEF WholeInv, StageInv
<1>c. conn \in Conns /\ Head(todo[s]) \in Payloads /\ part \in Parts /\ ~(conn > dialled)
  BY <1>e, SenderTypes, DialledRange DEF FieldInv, Parts
<1>1. /\ wire'[conn] = Append(wire[conn], <<Head(todo[s]), part>>)
      /\ \A d \in Conns \ {conn} : wire'[d] = wire[d]
      /\ wire[conn] \in Seq(Payloads \X Parts)
      /\ wire'[conn] # <<>> /\ wire'[conn][Len(wire'[conn])] = <<Head(todo[s]), part>>
  BY <1>e, <1>c, WrittenElements
<1>2. \/ part \in {"hdr", "part"} /\ Ends(wire[conn], {"body"})
      \/ part \in {"body", "part"} /\ wire[conn] # <<>> /\ wire[conn][Len(wire[conn])] = <<Head(todo[s]), "hdr">>
  BY <1>e DEF FrameInv
<1>3. WellFramed(wire'[conn])
  BY <1>1, <1>2, <1>c, <1>e, FramedAppend
<1>n. /\ NoSender \notin Senders
      /\ \A t \in Senders : pc'[t] = "body" <=> lock' = t
  BY <1>e, TransportAssumption DEF TypeOK
<1>4. \A c \in Conns : c > dialled' => wire'[c] = <<>>
  BY <1>e, <1>1, <1>c DEF FrameInv
<1>5. kind' = "tcp" /\ conn' # 0 /\ lock' = NoSender => Ends(wire'[conn'], {"body"})
  BY <1>1, <1>n DEF Ends
<1>6. \A t \in Senders : pc'[t] = "body" =>
        wire'[conn'] # <<>> /\ wire'[conn'][Len(wire'[conn'])] = <<Head(todo'[t]), "hdr">>
  BY <1>1, <1>n
<1>7. FrameInv'
  BY <1>4, <1>5, <1>6 DEF FrameInv
<1>8. \A c \in Conns : WellFramed(wire'[c])
  BY <1>1, <1>3, <1>e
<1>9. QED
  BY <1>7, <1>8 DEF WholeInv

LEMMA WholeInit == Init => WholeInv
<1> SUFFICES ASSUME Init PROVE WholeInv
  OBVIOUS
<1>1. StageInv
  BY StageInit
<1>2. \A c \in Conns : wire[c] = <<>> /\ DOMAIN wire[c] = {}
  BY DEF Init
<1>3. NoSender \notin Senders /\ Kinds \subseteq {"tcp", "ws", "grpc", "udp", "http"}
  BY TransportAssumption
<1>4. (kind = "tcp" => conn = 0) /\ \A s \in Senders : pc[s] # "body"
  BY DEF Init
<1>5. FrameInv
  BY <1>2, <1>4 DEF FrameInv
<1>6. QED
  BY <1>1, <1>2, <1>5 DEF WholeInv, WellFramed

LEMMA WholeOther ==
  ASSUME WholeInv, StageInv',
         \/ Start \/ StartStateless \/ StartFails \/ SkipStart \/ Close
         \/ Heal \/ (\E c \in Conns : Break(c) \/ Reconnect(c)) \/ UNCHANGED vars
  PROVE  WholeInv'
<1>e. TypeOK /\ FieldInv /\ \A s \in Senders : StageOf(s)
  BY DEF WholeInv, StageInv
<1>d. dialled \in Nat /\ dialled <= dialled
  BY <1>e, DialledRange
<1>1. CASE Start
  <2>1. dialled' = dialled + 1 /\ conn' = dialled + 1 /\ UNCHANGED <<kind, wire, lock, pc>>
    BY <1>1 DEF Start, Dialled, Fresh, fixed, sendVars
  <2>2. \A s \in Senders : pc[s] # "body"
    BY <1>1, <1>e DEF Start, StageOf
  <2>3. CASE lock = NoSender
    BY <2>1, <2>2, <2>3, <1>d, WholeUnwritten
  <2>4. CASE lock # NoSender
    BY <2>2, <2>4, <1>e, TransportAssumption DEF TypeOK
  <2>5. QED
    BY <2>3, <2>4
<1>2. CASE \/ StartStateless \/ StartFails \/ SkipStart
           \/ Heal \/ (\E c \in Conns : Break(c) \/ Reconnect(c)) \/ UNCHANGED vars
  <2>1. UNCHANGED <<kind, wire, lock, pc, todo, conn, dialled>>
    BY <1>2 DEF StartStateless, StartFails, SkipStart, Heal, Break, Reconnect, vars, fixed, connVars, sendVars
  <2>2. QED
    BY <2>1, <1>d, WholeUnwritten
<1>3. CASE Close
  <2>1. UNCHANGED <<kind, wire, lock, pc, todo, dialled>> /\ conn' \in {conn, 0}
    BY <1>3 DEF Close, fixed, sendVars
  <2>2. \A s \in Senders : pc[s] # "body"
    BY <1>3, <1>e DEF Close, StageOf
  <2>3. QED
    BY <2>1, <2>2, <1>d, WholeUnwritten
<1>4. QED
  BY <1>1, <1>2, <1>3

LEMMA WholeSends ==
  ASSUME WholeInv, StageInv', NEW s \in Senders,
         \/ TcpEnsure(s) \/ TcpHeader(s) \/ TcpBody(s)
         \/ LoadConn(s) \/ DialConn(s) \/ Install(s) \/ Reload(s)
         \/ WriteMessage(s) \/ Reset(s)
         \/ SendUdp(s) \/ HttpConnect(s) \/ HttpAnswer(s) \/ HttpFails(s)
  PROVE  WholeInv'
<1>e. TypeOK /\ FieldInv /\ StageInv
  BY DEF WholeInv, StageInv
<1>d. dialled \in Nat /\ dialled <= dialled /\ dialled <= dialled + 1
  BY <1>e, DialledRange
<1>n. NoSender \notin Senders /\ \A t \in Senders : pc[t] = "body" <=> lock = t
  BY <1>e, TransportAssumption DEF TypeOK
<1>n2. \A t \in Senders : pc'[t] = "body" <=> lock' = t
  BY DEF StageInv, TypeOK
<1>1. CASE TcpEnsure(s)
  <2>1. /\ UNCHANGED <<kind, wire>> /\ lock = NoSender /\ lock' = NoSender
        /\ (dialled' = dialled \/ dialled' = dialled + 1)
        /\ (conn' = conn \/ conn' = dialled + 1)
    BY <1>1 DEF TcpEnsure, connVars, fixed, Dialled, Fresh
  <2>2. \A t \in Senders : pc'[t] # "body"
    BY <2>1, <1>n, <1>n2
  <2>3. dialled <= dialled' /\ (conn' \in {conn, 0} \/ conn' > dialled)
    BY <2>1, <1>d
  <2>4. QED
    BY <2>1, <2>2, <2>3, WholeUnwritten
<1>2. CASE TcpHeader(s)
  <2>1. kind = "tcp" /\ kind' = kind /\ lock = NoSender /\ todo[s] # <<>>
    BY <1>2 DEF TcpHeader, Sending, fixed
  <2>2. CASE Crash
    BY <2>1, <2>2, <1>d, WholeUnwritten DEF Crash, connVars, sendVars
  <2>3. CASE TcpGiveUp(s) /\ UNCHANGED wire
    <3>1. \A t \in Senders : pc'[t] # "body"
      BY <2>3, <1>n, <1>n2 DEF TcpGiveUp
    <3>2. QED
      BY <2>1, <2>3, <3>1, <1>d, WholeUnwritten DEF TcpGiveUp
  <2>4. CASE conn \in cut /\ Written(conn, Head(todo[s]), "part") /\ TcpGiveUp(s)
    <3>1. conn # 0
      BY <2>4, <1>e, FrameTypes
    <3>2. QED
      BY <2>1, <2>4, <3>1, WholeTcp DEF TcpGiveUp
  <2>5. CASE conn # 0 /\ Written(conn, Head(todo[s]), "hdr") /\ lock' = s /\ Goto(s, "body") /\ UNCHANGED connVars
    BY <2>1, <2>5, WholeTcp DEF Goto, connVars
  <2>6. QED
    BY <1>2, <2>2, <2>3, <2>4, <2>5 DEF TcpHeader
<1>3. CASE TcpBody(s)
  <2>1. kind = "tcp" /\ kind' = kind /\ todo[s] # <<>> /\ pc[s] = "body" /\ conn # 0
    BY <1>3, <1>e DEF TcpBody, Sending, fixed, FieldInv
  <2>2. CASE Written(conn, Head(todo[s]), "body") /\ lock' = NoSender /\ UNCHANGED connVars
    BY <2>1, <2>2, WholeTcp DEF connVars
  <2>3. CASE Written(conn, Head(todo[s]), "part") /\ TcpGiveUp(s)
    BY <2>1, <2>3, WholeTcp DEF TcpGiveUp
  <2>4. QED
    BY <1>3, <2>2, <2>3 DEF TcpBody
<1>4. CASE LoadConn(s) \/ DialConn(s) \/ Install(s) \/ Reload(s) \/ Reset(s)
  <2>1. /\ UNCHANGED <<kind, wire>> /\ kind # "tcp" /\ (dialled' = dialled \/ dialled' = dialled + 1)
    BY <1>4 DEF LoadConn, DialConn, Install, Reload, Reset, Keeps, Dialled, Fresh, fixed, connVars
  <2>2. dialled <= dialled'
    BY <2>1, <1>d
  <2>3. QED
    BY <2>1, <2>2, WholeNotTcp
<1>5. CASE WriteMessage(s)
  <2>1. kind # "tcp" /\ kind' = kind /\ dialled' = dialled /\ todo[s] # <<>>
    BY <1>5 DEF WriteMessage, Keeps, Sending, fixed, connVars, Crash
  <2>2. UNCHANGED wire \/ (hand[s] # 0 /\ Written(hand[s], Head(todo[s]), "msg"))
    <3>1. 0 \notin open
      BY <1>e, FrameTypes
    <3>2. QED
      BY <1>5, <3>1 DEF WriteMessage, Works, Crash
  <2>3. Head(todo[s]) \in Payloads /\ hand[s] \in 0..dialled
    BY <2>1, <1>e, SenderTypes DEF TypeOK
  <2>4. hand[s] # 0 => hand[s] \in 1..dialled
    BY <2>3, <1>d
  <2>5. QED
    BY <2>1, <2>2, <2>3, <2>4, <1>d, WholeNotTcp
<1>6. CASE SendUdp(s) \/ HttpConnect(s) \/ HttpAnswer(s) \/ HttpFails(s)
  <2>1. /\ kind # "tcp" /\ kind' = kind /\ todo[s] # <<>>
        /\ dialled' = dialled \/ (dialled' = dialled + 1 /\ UNCHANGED wire)
    BY <1>6 DEF SendUdp, HttpConnect, HttpAnswer, HttpFails, Sending, fixed, connVars, Dialled, Fresh
  <2>2. \/ UNCHANGED wire
        \/ conn # 0 /\ Written(conn, Head(todo[s]), "msg")
        \/ hand[s] # 0 /\ Written(hand[s], Head(todo[s]), "msg")
    <3>1. 0 \notin open
      BY <1>e, FrameTypes
    <3>2. CASE SendUdp(s)
      BY <3>1, <3>2 DEF SendUdp
    <3>3. CASE HttpAnswer(s) \/ HttpFails(s)
      BY <3>3, <1>e DEF HttpAnswer, HttpFails, FieldInv
    <3>4. CASE HttpConnect(s)
      BY <3>4 DEF HttpConnect
    <3>5. QED
      BY <1>6, <3>2, <3>3, <3>4
  <2>3. Head(todo[s]) \in Payloads /\ conn \in 0..dialled /\ hand[s] \in 0..dialled
    BY <2>1, <1>e, SenderTypes DEF FieldInv, TypeOK
  <2>4. (conn # 0 => conn \in 1..dialled) /\ (hand[s] # 0 => hand[s] \in 1..dialled)
    BY <2>3, <1>d
  <2>5. dialled <= dialled'
    BY <2>1, <1>d
  <2>6. QED
    BY <2>1, <2>2, <2>3, <2>4, <2>5, WholeNotTcp
<1>7. QED
  BY <1>1, <1>2, <1>3, <1>4, <1>5, <1>6

LEMMA WholeStep == WholeInv /\ [Next]_vars => WholeInv'
<1> SUFFICES ASSUME WholeInv, [Next]_vars PROVE WholeInv'
  OBVIOUS
<1>1. StageInv'
  BY StageStep DEF WholeInv
<1>2. QED
  BY <1>1, WholeOther, WholeSends DEF Next

\* The frames of a TCP connection stay apart: mu held over the two writes of a
\* frame, and a connection that is never written to after a write failed
\* half-way, are enough, for any number of senders and whatever breaks.
THEOREM TransportFrames == Spec => []WholeFrames
<1>1. WholeInv => WholeFrames
  BY DEF WholeInv, WellFramed, WholeFrames
<1>2. QED
  BY <1>1, WholeInit, WholeStep, PTL DEF Spec

-----------------------------------------------------------------------------
(* The connection in hand *)

NilInv == StageInv /\ KeptInv /\ NilNeverUsed

\* Alone, a sender finds the others idle.
LEMMA SoloOthersIdle ==
  ASSUME StageInv, Solo, NEW s \in Senders, todo[s] # <<>>
  PROVE  \A t \in Senders \ {s} : pc[t] = "idle" /\ todo[t] = <<>>
BY DEF StageInv, StageOf, Solo

LEMMA SoloKept == UNCHANGED load => (Solo' <=> Solo)
BY DEF Solo

\* What a step of s does to the other senders' hands.
LEMMA KeptFrame ==
  ASSUME StageInv, KeptInv, NEW s \in Senders, todo[s] # <<>>,
         UNCHANGED <<fixed, started>>,
         \A t \in Senders \ {s} : pc'[t] = pc[t] /\ hand'[t] = hand[t],
         kind = "grpc" => open \subseteq open' /\ (conn # 0 => conn' # 0)
  PROVE  \A t \in Senders \ {s} : HandOf(t)' /\ TcpOf(t)'
<1>1. Solo' <=> Solo
  BY SoloKept DEF fixed
<1>2. CASE Solo
  <2>1. \A t \in Senders \ {s} : pc'[t] = "idle"
    BY <1>2, SoloOthersIdle
  <2>2. QED
    BY <2>1 DEF HandOf, TcpOf
<1>3. CASE ~Solo
  <2>1. CASE kind = "grpc"
    BY <1>1, <1>3, <2>1 DEF KeptInv, HandOf, TcpOf, Keeps, fixed
  <2>2. CASE kind # "grpc"
    BY <1>1, <1>3, <2>2 DEF HandOf, TcpOf, Keeps, fixed
  <2>3. QED
    BY <2>1, <2>2
<1>4. QED
  BY <1>2, <1>3

LEMMA NilInit == Init => NilInv
<1> SUFFICES ASSUME Init PROVE NilInv
  OBVIOUS
<1>1. StageInv
  BY StageInit
<1>2. KeptInv
  BY <1>1 DEF Init, KeptInv, HandOf, TcpOf, Keeps, StageInv, FieldInv
<1>3. NilNeverUsed
  BY DEF Init, NilNeverUsed
<1>4. QED
  BY <1>1, <1>2, <1>3 DEF NilInv

LEMMA NilOther ==
  ASSUME NilInv, StageInv',
         \/ Start \/ StartStateless \/ StartFails \/ SkipStart \/ Close
         \/ Heal \/ (\E c \in Conns : Break(c) \/ Reconnect(c)) \/ UNCHANGED vars
  PROVE  NilInv'
<1>e. StageInv /\ KeptInv /\ NilNeverUsed /\ FieldInv /\ (\A s \in Senders : StageOf(s)) /\ TypeOK
  BY DEF NilInv, StageInv
<1>s. Solo' <=> Solo
  BY SoloKept DEF Start, StartStateless, StartFails, SkipStart, Close, Heal, Break, Reconnect, vars, fixed
<1>1. CASE Start
  <2>1. \A s \in Senders : pc'[s] = "idle"
    BY <1>1, <1>e DEF Start, StageOf, sendVars
  <2>2. dialled' = Fresh /\ open' = open \cup {Fresh} /\ conn' = Fresh /\ Fresh # 0 /\ phase' = "running"
    BY <1>1, <1>e, DialledTypes DEF Start
  <2>3. KeptInv'
    BY <2>1, <2>2 DEF KeptInv, HandOf, TcpOf
  <2>4. QED
    BY <2>2, <2>3 DEF NilInv, NilNeverUsed
<1>2. CASE StartStateless \/ StartFails \/ SkipStart
  <2>1. \A s \in Senders : pc'[s] = "idle"
    BY <1>2, <1>e DEF StartStateless, StartFails, SkipStart, StageOf, sendVars
  <2>2. UNCHANGED <<fixed, connVars>> /\ phase' \in {"running", "failed"} /\ (started' => kind = "http")
    BY <1>2, <1>e DEF StartStateless, StartFails, SkipStart, FieldInv
  <2>3. KeptInv'
    BY <2>1, <2>2, <1>s, <1>e DEF KeptInv, HandOf, TcpOf, Keeps, fixed, connVars
  <2>4. QED
    BY <2>2, <2>3 DEF NilInv, NilNeverUsed
<1>3. CASE Close
  <2>1. \A s \in Senders : pc'[s] = "idle"
    BY <1>3, <1>e DEF Close, StageOf, sendVars
  <2>2. phase' = "closed" /\ (Keeps' => conn' = 0)
    BY <1>3 DEF Close, Keeps, fixed
  <2>3. KeptInv'
    BY <2>1, <2>2 DEF KeptInv, HandOf, TcpOf
  <2>4. QED
    BY <2>2, <2>3 DEF NilInv, NilNeverUsed
<1>4. CASE Heal \/ (\E c \in Conns : Break(c) \/ Reconnect(c)) \/ UNCHANGED vars
  <2>1. UNCHANGED <<fixed, phase, started, connVars, pc, hand>>
    BY <1>4 DEF Heal, Break, Reconnect, vars, sendVars
  <2>2. QED
    BY <2>1, <1>s, <1>e DEF NilInv, NilNeverUsed, KeptInv, HandOf, TcpOf, Keeps, fixed, connVars
<1>5. QED
  BY <1>1, <1>2, <1>3, <1>4

LEMMA NilTcp ==
  ASSUME NilInv, StageInv', NEW s \in Senders, TcpEnsure(s) \/ TcpHeader(s) \/ TcpBody(s)
  PROVE  NilInv'
<1>e. StageInv /\ KeptInv /\ NilNeverUsed /\ FieldInv /\ TypeOK
  BY DEF NilInv, StageInv
<1>p. pc \in [Senders -> Stages]
  BY <1>e DEF TypeOK, Stages
<1>a. /\ kind = "tcp" /\ todo[s] # <<>> /\ phase = "running" /\ UNCHANGED <<fixed, started>>
      /\ UNCHANGED hand
  BY DEF TcpEnsure, TcpHeader, TcpBody, Sending, Crash, sendVars
<1>b. \A t \in Senders \ {s} : pc'[t] = pc[t]
  BY <1>p DEF TcpEnsure, TcpHeader, TcpBody, Goto, Return, TcpGiveUp, Crash, sendVars
<1>f. /\ kind = "tcp" /\ todo[s] # <<>> /\ phase = "running" /\ UNCHANGED <<fixed, started>>
      /\ \A t \in Senders \ {s} : pc'[t] = pc[t] /\ hand'[t] = hand[t]
  BY <1>a, <1>b
<1>s. Solo' <=> Solo
  BY <1>f, SoloKept DEF fixed
<1>1. \A t \in Senders \ {s} : HandOf(t)' /\ TcpOf(t)'
  BY <1>e, <1>f, KeptFrame
<1>2. HandOf(s)' /\ TcpOf(s)'
  <2>1. HandOf(s)'
    BY <1>f DEF HandOf, Keeps, fixed
  <2>2. CASE TcpEnsure(s)
    <3>1. CanDial /\ Dialled => Fresh # 0
      BY <1>e, DialledTypes
    <3>2. pc'[s] = "write" => conn' # 0
      BY <2>2, <3>1, <1>p DEF TcpEnsure, connVars, Goto, Return
    <3>3. QED
      BY <2>1, <3>2 DEF TcpOf
  <2>3. CASE TcpHeader(s) \/ TcpBody(s)
    <3>1. pc'[s] # "write" \/ Crash
      BY <2>3, <1>p DEF TcpHeader, TcpBody, Goto, Return, TcpGiveUp
    <3>2. Crash => UNCHANGED <<pc, conn>>
      BY DEF Crash, connVars, sendVars
    <3>3. TcpOf(s)
      BY <1>e DEF KeptInv
    <3>4. QED
      BY <2>1, <3>1, <3>2, <3>3, <1>f, <1>s DEF TcpOf, fixed
  <2>4. QED
    BY <2>2, <2>3
<1>3. KeptInv'
  BY <1>1, <1>2, <1>f DEF KeptInv, Keeps, fixed
<1>4. Solo => phase' # "crashed"
  <2>1. Solo /\ pc[s] = "write" => conn # 0
    BY <1>e, <1>f DEF KeptInv, TcpOf
  <2>2. CASE TcpEnsure(s) \/ TcpBody(s)
    BY <2>2, <1>f DEF TcpEnsure, TcpBody
  <2>3. CASE TcpHeader(s)
    BY <2>1, <2>3, <1>f DEF TcpHeader
  <2>4. QED
    BY <2>2, <2>3
<1>5. QED
  BY <1>3, <1>4, <1>s, <1>f DEF NilInv, NilNeverUsed, fixed

LEMMA NilOneCall ==
  ASSUME NilInv, StageInv', NEW s \in Senders, SendUdp(s) \/ HttpConnect(s) \/ HttpAnswer(s) \/ HttpFails(s)
  PROVE  NilInv'
<1>1. kind \in {"udp", "http"} /\ phase' = "running" /\ UNCHANGED <<fixed>>
  BY DEF SendUdp, HttpConnect, HttpAnswer, HttpFails, Sending
<1>2. QED
  BY <1>1 DEF NilInv, NilNeverUsed, KeptInv, HandOf, TcpOf, Keeps, fixed

LEMMA NilKeeps ==
  ASSUME NilInv, StageInv', NEW s \in Senders,
         LoadConn(s) \/ DialConn(s) \/ Install(s) \/ Reload(s) \/ WriteMessage(s) \/ Reset(s)
  PROVE  NilInv'
<1>e. StageInv /\ KeptInv /\ NilNeverUsed /\ FieldInv /\ TypeOK /\ StageOf(s)
  BY DEF NilInv, StageInv
<1>p. pc \in [Senders -> Stages] /\ hand \in [Senders -> 0..dialled] /\ 0 \notin open
  BY <1>e, FrameTypes DEF TypeOK, Stages
<1>f. Keeps /\ todo[s] # <<>> /\ phase = "running" /\ UNCHANGED <<fixed, started>> /\ Keeps'
  BY DEF LoadConn, DialConn, Install, Reload, WriteMessage, Reset, Sending, Keeps, fixed
<1>s. Solo' <=> Solo
  BY <1>f, SoloKept DEF fixed
<1>h. HandOf(s) /\ TcpOf(s)' /\ TcpOf(s)
  BY <1>e, <1>f DEF KeptInv, TcpOf, Keeps, fixed
<1>w. kind = "ws" \/ kind = "grpc"
  BY <1>f DEF Keeps
<1>i. Solo => \A t \in Senders \ {s} : pc[t] = "idle"
  BY <1>e, <1>f, SoloOthersIdle
\* What is left to show for each action.
<1>k. ASSUME \A t \in Senders \ {s} : pc'[t] = pc[t] /\ hand'[t] = hand[t],
             kind = "grpc" => open \subseteq open' /\ (conn # 0 => conn' # 0),
             HandOf(s)',
             (kind = "ws" => Solo) => conn' \in open' \cup {0},
             phase' = "crashed" => (kind = "ws" /\ ~Solo)
      PROVE  NilInv'
  <2>1. \A t \in Senders \ {s} : HandOf(t)' /\ TcpOf(t)'
    BY <1>e, <1>f, <1>k, KeptFrame
  <2>2. \A t \in Senders : HandOf(t)' /\ TcpOf(t)'
    BY <2>1, <1>k, <1>h
  <2>3. kind' = "grpc" /\ started' /\ phase' = "running" => conn' # 0
    BY <1>k, <1>e, <1>f DEF KeptInv, fixed
  <2>4. KeptInv'
    BY <2>2, <2>3, <1>k, <1>f, <1>s DEF KeptInv, fixed
  <2>5. NilNeverUsed'
    BY <1>k, <1>f, <1>s DEF NilNeverUsed, fixed
  <2>6. QED
    BY <2>4, <2>5 DEF NilInv
<1>c. (kind = "ws" => Solo) => conn \in open \cup {0}
  BY <1>e, <1>f DEF KeptInv
<1>g. kind = "grpc" /\ started => conn # 0
  BY <1>e, <1>f DEF KeptInv
<1>1. CASE LoadConn(s)
  <2>1. /\ UNCHANGED <<phase, connVars>> /\ hand'[s] = conn /\ pc'[s] = IF conn = 0 THEN "dial" ELSE "write"
        /\ \A t \in Senders \ {s} : pc'[t] = pc[t] /\ hand'[t] = hand[t]
    BY <1>1, <1>p DEF LoadConn, Goto
  <2>2. HandOf(s)'
    BY <2>1, <1>c, <1>g, <1>s, <1>f DEF HandOf, connVars, fixed
  <2>3. QED
    BY <2>1, <2>2, <1>c, <1>f, <1>k DEF connVars
<1>2. CASE DialConn(s)
  <2>a. /\ UNCHANGED <<phase, conn>> /\ pc[s] = "dial"
        /\ \A t \in Senders \ {s} : pc'[t] = pc[t] /\ hand'[t] = hand[t]
    BY <1>2, <1>p DEF DialConn, Goto, Return
  <2>b. \/ open' = open \cup {Fresh} /\ hand'[s] = Fresh /\ pc'[s] = "install"
        \/ open' = open /\ pc'[s] = "idle"
    BY <1>2, <1>p DEF DialConn, Goto, Return, Dialled
  <2>2. HandOf(s)'
    BY <2>a, <2>b, <1>h, <1>f, <1>s DEF HandOf, fixed
  <2>3. QED
    BY <2>a, <2>b, <2>2, <1>c, <1>f, <1>k
<1>3. CASE Install(s)
  <2>a. /\ UNCHANGED phase /\ UNCHANGED hand /\ pc[s] = "install" /\ pc'[s] = "reload" /\ conn' = hand[s]
        /\ open' = (IF kind = "ws" THEN open \ {conn} ELSE open)
        /\ \A t \in Senders \ {s} : pc'[t] = pc[t] /\ hand'[t] = hand[t]
    BY <1>3, <1>p DEF Install, Goto
  <2>1. (kind = "ws" => Solo) => hand[s] \in open /\ hand[s] # 0 /\ (kind = "ws" => conn = 0)
                                  /\ ~(kind = "grpc" /\ started)
    BY <2>a, <1>h, <1>f, <1>p, <1>w DEF HandOf
  <2>2. HandOf(s)'
    BY <2>a, <2>1, <1>f, <1>s DEF HandOf, fixed
  <2>3. QED
    BY <2>a, <2>1, <2>2, <1>p, <1>f, <1>w, <1>k
<1>4. CASE Reload(s)
  <2>1. /\ UNCHANGED <<phase, connVars>> /\ hand'[s] = conn /\ pc[s] = "reload" /\ pc'[s] = "write"
        /\ \A t \in Senders \ {s} : pc'[t] = pc[t] /\ hand'[t] = hand[t]
    BY <1>4, <1>p DEF Reload, Goto
  <2>2. HandOf(s)'
    BY <2>1, <1>c, <1>h, <1>s, <1>f DEF HandOf, connVars, fixed
  <2>3. QED
    BY <2>1, <2>2, <1>c, <1>f, <1>k DEF connVars
<1>5. CASE WriteMessage(s)
  <2>1. (kind = "ws" => Solo) => hand[s] # 0
    BY <1>5, <1>h, <1>f, <1>p DEF WriteMessage, HandOf
  <2>2. UNCHANGED connVars /\ UNCHANGED hand /\ pc[s] = "write" /\ phase' \in {phase, "crashed"}
        /\ (phase' = "crashed" => hand[s] = 0)
    BY <1>5, <1>p, <1>f DEF WriteMessage, Crash, sendVars
  <2>3. \A t \in Senders \ {s} : pc'[t] = pc[t] /\ hand'[t] = hand[t]
    BY <1>5, <1>p DEF WriteMessage, Crash, sendVars, Goto, Return
  <2>4. pc'[s] = pc[s] \/ pc'[s] = "idle" \/ (kind = "ws" /\ pc'[s] = "reset")
    BY <1>5, <1>p DEF WriteMessage, Crash, sendVars, Goto, Return
  <2>5. HandOf(s)'
    BY <2>2, <2>4, <1>h, <1>f, <1>s DEF HandOf, connVars, fixed
  <2>6. QED
    BY <2>1, <2>2, <2>3, <2>5, <1>c, <1>f, <1>w, <1>k DEF connVars
<1>6. CASE Reset(s)
  <2>1. /\ UNCHANGED <<phase, hand>> /\ pc'[s] = "idle" /\ conn' = 0 /\ kind = "ws"
        /\ \A t \in Senders \ {s} : pc'[t] = pc[t] /\ hand'[t] = hand[t]
    BY <1>6, <1>p DEF Reset, Return
  <2>2. HandOf(s)'
    BY <2>1 DEF HandOf
  <2>3. QED
    BY <2>1, <2>2, <1>f, <1>k
<1>7. QED
  BY <1>1, <1>2, <1>3, <1>4, <1>5, <1>6

LEMMA NilStep == NilInv /\ [Next]_vars => NilInv'
<1> SUFFICES ASSUME NilInv, [Next]_vars PROVE NilInv'
  OBVIOUS
<1>1. StageInv'
  BY StageStep DEF NilInv
<1>2. QED
  BY <1>1, NilOther, NilTcp, NilKeeps, NilOneCall DEF Next

LEMMA NilHolds == Spec => []NilInv
BY NilInit, NilStep, PTL DEF Spec

\* No Send writes through a nil connection, whatever breaks when, unless two
\* senders share a TCP or a WebSocket transport: a gRPC transport never forgets
\* its connection, and a lone sender finds the field as it left it.
THEOREM TransportNeverNil == Spec => []NilNeverUsed
<1>1. NilInv => NilNeverUsed
  BY DEF NilInv
<1>2. QED
  BY <1>1, NilHolds, PTL

-----------------------------------------------------------------------------
(* Who closes a connection *)

OrphanInv == NilInv /\ OwnedInv

LEMMA OrphanInit == Init => OrphanInv
<1> SUFFICES ASSUME Init PROVE OrphanInv
  OBVIOUS
<1>1. StageInv /\ NilInv
  BY StageInit, NilInit
<1>2. OwnedInv
  BY <1>1 DEF Init, OwnedInv, StageInv, FieldInv
<1>3. QED
  BY <1>1, <1>2 DEF OrphanInv

LEMMA OrphanOther ==
  ASSUME OrphanInv,
         \/ Start \/ StartStateless \/ StartFails \/ SkipStart \/ Close
         \/ Heal \/ (\E c \in Conns : Break(c) \/ Reconnect(c)) \/ UNCHANGED vars
  PROVE  OwnedInv'
<1>e. StageInv /\ FieldInv /\ (\A s \in Senders : StageOf(s)) /\ TypeOK /\ OwnedInv
  BY DEF OrphanInv, NilInv, StageInv
<1>s. Solo' <=> Solo
  BY SoloKept DEF Start, StartStateless, StartFails, SkipStart, Close, Heal, Break, Reconnect, vars, fixed
<1>1. CASE Start
  <2>1. open' = {conn'}
    BY <1>1, <1>e DEF Start, FieldInv, Dialled
  <2>2. QED
    BY <2>1 DEF OwnedInv
<1>2. CASE StartStateless
  BY <1>2, <1>e DEF StartStateless, FieldInv, OwnedInv, fixed, connVars
<1>3. CASE StartFails \/ SkipStart \/ Heal \/ (\E c \in Conns : Break(c) \/ Reconnect(c)) \/ UNCHANGED vars
  <2>1. UNCHANGED <<kind, started, conn, open, pc, hand>>
    BY <1>3 DEF StartFails, SkipStart, Heal, Break, Reconnect, vars, fixed, connVars, sendVars
  <2>2. QED
    BY <2>1, <1>e, <1>s DEF OwnedInv
<1>4. CASE Close
  <2>1. \A s \in Senders : pc[s] = "idle"
    BY <1>4, <1>e DEF Close, StageOf
  <2>2. UNCHANGED <<kind, started>> /\ (kind # "http" => open' = open \ {conn})
    BY <1>4 DEF Close, fixed
  <2>3. CASE kind = "http"
    BY <2>2, <2>3 DEF OwnedInv
  <2>4. CASE kind # "http"
    BY <2>1, <2>2, <2>4, <1>e, <1>s DEF OwnedInv
  <2>5. QED
    BY <2>3, <2>4
<1>5. QED
  BY <1>1, <1>2, <1>3, <1>4

LEMMA OrphanTcp ==
  ASSUME OrphanInv, NEW s \in Senders, TcpEnsure(s) \/ TcpHeader(s) \/ TcpBody(s)
  PROVE  OwnedInv'
<1>e. StageInv /\ FieldInv /\ (\A t \in Senders : StageOf(t)) /\ TypeOK /\ OwnedInv
  BY DEF OrphanInv, NilInv, StageInv
<1>f. kind = "tcp" /\ UNCHANGED kind
  BY DEF TcpEnsure, TcpHeader, TcpBody, fixed
<1>1. open \subseteq {conn} /\ 0 \notin open
  <2>1. \A t \in Senders : pc[t] # "install"
    BY <1>e, <1>f DEF StageOf
  <2>2. QED
    BY <2>1, <1>e, <1>f, FrameTypes DEF OwnedInv
<1>2. open' \subseteq {conn'}
  BY <1>1 DEF TcpEnsure, TcpHeader, TcpBody, TcpGiveUp, Crash, connVars, Dialled
<1>3. QED
  BY <1>2 DEF OwnedInv

LEMMA OrphanKeeps ==
  ASSUME OrphanInv, NEW s \in Senders,
         LoadConn(s) \/ DialConn(s) \/ Install(s) \/ Reload(s) \/ WriteMessage(s) \/ Reset(s)
  PROVE  OwnedInv'
<1>e. StageInv /\ FieldInv /\ HandOf(s) /\ TypeOK /\ OwnedInv
  BY DEF OrphanInv, NilInv, StageInv, KeptInv
<1>p. pc \in [Senders -> Stages] /\ hand \in [Senders -> 0..dialled] /\ 0 \notin open
  BY <1>e, FrameTypes DEF TypeOK, Stages
<1>f. Keeps /\ UNCHANGED <<fixed, started>>
  BY DEF LoadConn, DialConn, Install, Reload, WriteMessage, Reset, Keeps
<1>s. Solo' <=> Solo
  BY <1>f, SoloKept DEF fixed
<1>o. SUFFICES ASSUME kind # "http", kind = "ws" \/ (kind = "grpc" /\ ~started) => Solo, NEW c \in open'
      PROVE  c = conn' \/ \E r \in Senders : pc'[r] = "install" /\ hand'[r] = c
  BY <1>f, <1>s DEF OwnedInv, fixed
<1>c. c \in open => c = conn \/ \E r \in Senders : pc[r] = "install" /\ hand[r] = c
  BY <1>e, <1>o DEF OwnedInv
<1>t. \A t \in Senders \ {s} : pc'[t] = pc[t] /\ hand'[t] = hand[t]
  BY <1>p DEF LoadConn, DialConn, Install, Reload, WriteMessage, Reset, Goto, Return, Crash, sendVars
<1>1. CASE LoadConn(s) \/ Reload(s) \/ WriteMessage(s)
  <2>1. UNCHANGED <<conn, open>> /\ pc[s] # "install"
    BY <1>1 DEF LoadConn, Reload, WriteMessage, connVars, Crash
  <2>2. QED
    BY <2>1, <1>c, <1>t
<1>2. CASE DialConn(s)
  <2>1. UNCHANGED conn /\ pc[s] = "dial"
    BY <1>2 DEF DialConn
  <2>2. \/ open' = open
        \/ open' = open \cup {Fresh} /\ hand'[s] = Fresh /\ pc'[s] = "install"
    BY <1>2, <1>p DEF DialConn, Dialled, Goto
  <2>3. QED
    BY <2>1, <2>2, <1>c, <1>t
<1>3. CASE Install(s)
  <2>1. /\ conn' = hand[s] /\ open' = (IF kind = "ws" THEN open \ {conn} ELSE open)
        /\ pc[s] = "install"
    BY <1>3 DEF Install
  <2>2. c \in open /\ c # conn
    <3>1. CASE kind = "ws"
      BY <2>1, <3>1
    <3>2. CASE kind = "grpc"
      BY <2>1, <3>2, <1>e, <1>f, <1>o, <1>p DEF HandOf
    <3>3. QED
      BY <3>1, <3>2, <1>f DEF Keeps
  <2>3. QED
    BY <2>1, <2>2, <1>c, <1>t
<1>4. CASE Reset(s)
  <2>1. open' = open \ {hand[s]} /\ kind = "ws" /\ pc[s] = "reset"
    BY <1>4 DEF Reset
  <2>2. hand[s] = conn
    BY <2>1, <1>e, <1>f, <1>o DEF HandOf
  <2>3. QED
    BY <2>1, <2>2, <1>c, <1>t
<1>5. QED
  BY <1>1, <1>2, <1>3, <1>4

LEMMA OrphanStep == OrphanInv /\ [Next]_vars => OrphanInv'
<1> SUFFICES ASSUME OrphanInv, [Next]_vars PROVE OrphanInv'
  OBVIOUS
<1>1. NilInv'
  BY NilStep DEF OrphanInv
<1>2. ASSUME NEW s \in Senders, SendUdp(s) PROVE OwnedInv'
  <2>1. UNCHANGED <<kind, started, conn, open, load>> /\ kind = "udp"
    BY <1>2 DEF SendUdp, fixed, connVars
  <2>2. \A t \in Senders : pc[t] = "idle"
    BY <2>1 DEF OrphanInv, NilInv, StageInv, StageOf
  <2>3. OwnedInv
    BY DEF OrphanInv
  <2>4. QED
    BY <2>1, <2>2, <2>3 DEF OwnedInv
<1>4. ASSUME NEW s \in Senders, HttpConnect(s) \/ HttpAnswer(s) \/ HttpFails(s) PROVE OwnedInv'
  BY <1>4 DEF HttpConnect, HttpAnswer, HttpFails, fixed, OwnedInv
<1>3. OwnedInv'
  BY <1>2, <1>4, OrphanOther, OrphanTcp, OrphanKeeps DEF Next
<1>5. QED
  BY <1>1, <1>3 DEF OrphanInv

\* Every connection that is open is the one Transport.conn holds or one a
\* sender is about to put there, so Close or the next failure closes it; two
\* senders of a WebSocket, or of a gRPC transport that was not started, are
\* the exception the property names.
THEOREM TransportNoOrphan == Spec => []NoOrphan
<1>1. OrphanInv => NoOrphan
  BY DEF OrphanInv, OwnedInv, NoOrphan, Orphans
<1>2. QED
  BY <1>1, OrphanInit, OrphanStep, PTL DEF Spec

-----------------------------------------------------------------------------
(* After the network is back *)

SoonInv == NilInv /\ HealInv /\ HealsSoon

\* A Send that fails adds at most itself, over its connection.
LEMMA ReturnLate ==
  ASSUME NEW s \in Senders, NEW r, Return(s, r)
  PROVE  \/ late' = late
         \/ /\ r = "err" /\ healed /\ (kind = "tcp" => Head(todo[s]) \notin Large)
            /\ late' = late \cup {<<Head(todo[s]), Over(s)>>}
BY DEF Return

LEMMA OneMore ==
  ASSUME HealsSoon, UNCHANGED <<kind, load, started, broken>>, NEW p, NEW c,
         \/ late' = late
         \/ /\ late' = late \cup {<<p, c>>} /\ c \in broken
            /\ kind = "grpc" \/ late = {} \/ (kind = "http" /\ \A f \in late : f[2] # c)
  PROVE  HealsSoon'
<1>s. Solo' <=> Solo
  BY SoloKept
<1>1. CASE late' = late
  BY <1>1, <1>s DEF HealsSoon
<1>2. CASE late' # late
  <2> DEFINE one == <<p, c>>
  <2>1. one[2] = c
    OBVIOUS
  <2> HIDE DEF one
  <2>2. /\ late' = late \cup {one} /\ c \in broken
        /\ kind = "grpc" \/ late = {} \/ (kind = "http" /\ \A f \in late : f[2] # c)
    BY <1>2 DEF one
  <2>3. SUFFICES ASSUME kind = "ws" => Solo, kind = "udp" => started
                 PROVE  /\ \A f \in late' : f[2] \in broken'
                        /\ kind' # "grpc" =>
                             \A f, g \in late' : (kind' = "http" => f[2] = g[2]) => f = g
    BY <1>s DEF HealsSoon
  <2>4. /\ \A f \in late : f[2] \in broken
        /\ kind # "grpc" => \A f, g \in late : (kind = "http" => f[2] = g[2]) => f = g
    BY <2>3 DEF HealsSoon
  <2>5. \A f \in late' : f[2] \in broken'
    BY <2>1, <2>2, <2>4
  <2>6. CASE kind = "grpc"
    BY <2>5, <2>6
  <2>7. CASE late = {}
    BY <2>2, <2>5, <2>7
  <2>8. CASE kind = "http" /\ \A f \in late : f[2] # c
    BY <2>1, <2>2, <2>4, <2>5, <2>8
  <2>9. QED
    BY <2>2, <2>6, <2>7, <2>8
<1>3. QED
  BY <1>1, <1>2

LEMMA SoonInit == Init => SoonInv
<1> SUFFICES ASSUME Init PROVE SoonInv
  OBVIOUS
<1>1. NilInv
  BY NilInit
<1>2. HealInv /\ HealsSoon
  BY DEF Init, HealInv, OnceInv, PoolInv, HealsSoon
<1>3. QED
  BY <1>1, <1>2 DEF SoonInv

LEMMA SoonOther ==
  ASSUME SoonInv,
         \/ Start \/ StartStateless \/ StartFails \/ SkipStart \/ Close
         \/ Heal \/ (\E c \in Conns : Break(c) \/ Reconnect(c)) \/ UNCHANGED vars
  PROVE  HealInv' /\ HealsSoon'
<1>e. /\ StageInv /\ FieldInv /\ (\A s \in Senders : StageOf(s)) /\ TypeOK /\ HealInv /\ HealsSoon
      /\ 0 \notin cut /\ OnceInv /\ PoolInv /\ (healed => cut \subseteq broken)
  BY FrameTypes DEF SoonInv, NilInv, StageInv, HealInv
<1>s. Solo' <=> Solo
  BY SoloKept DEF Start, StartStateless, StartFails, SkipStart, Close, Heal, Break, Reconnect, vars, fixed
<1>1. CASE Start \/ StartStateless \/ StartFails \/ SkipStart
  <2>1. late' = {} /\ UNCHANGED <<cut, healed, broken>>
    BY <1>1, <1>e DEF Start, StartStateless, StartFails, SkipStart, sendVars, FieldInv
  <2>2. kind' = "udp" /\ started' /\ phase' = "running" => conn' \in open'
    BY <1>1, <1>e DEF Start, StartStateless, StartFails, SkipStart, fixed, Dialled, FieldInv
  <2>3. \A s \in Senders : pc'[s] = "idle"
    BY <1>1, <1>e DEF Start, StartStateless, StartFails, SkipStart, StageOf, sendVars
  <2>4. QED
    BY <2>1, <2>2, <2>3, <1>e DEF HealInv, OnceInv, PoolInv, HealsSoon
<1>2. CASE Close
  <2>1. \A s \in Senders : pc[s] = "idle"
    BY <1>2, <1>e DEF Close, StageOf
  <2>2. /\ UNCHANGED <<kind, started, cut, healed, broken, late, pc>> /\ conn' \in {conn, 0}
        /\ phase' = "closed" /\ open' \subseteq open
    BY <1>2 DEF Close, fixed, sendVars
  <2>3. OnceInv' /\ PoolInv'
    BY <2>1, <2>2, <1>e, <1>s DEF OnceInv, PoolInv
  <2>4. QED
    BY <2>2, <2>3, <1>e, <1>s DEF HealInv, HealsSoon
<1>3. CASE UNCHANGED vars
  <2>1. UNCHANGED <<kind, load, started, phase, conn, open, cut, healed, broken, late, pc, hand>>
    BY <1>3 DEF vars, fixed, connVars, sendVars
  <2>2. QED
    BY <2>1, <1>e, <1>s DEF HealInv, OnceInv, PoolInv, HealsSoon
<1>4. ASSUME Heal \/ \E c \in Conns : Break(c) PROVE HealInv' /\ HealsSoon'
  <2>1. /\ late = {} /\ late' = {} /\ UNCHANGED <<kind, load, started, phase, conn, open, pc, hand>>
        /\ cut \subseteq cut' /\ (healed' => cut' \subseteq broken')
    BY <1>4, <1>e DEF Heal, Break, fixed, connVars, sendVars, FieldInv
  <2>2. OnceInv' /\ PoolInv'
    BY <2>1, <1>e, <1>s DEF OnceInv, PoolInv
  <2>3. QED
    BY <2>1, <2>2 DEF HealInv, HealsSoon
<1>5. ASSUME NEW c \in Conns, Reconnect(c) PROVE HealInv' /\ HealsSoon'
  <2>1. /\ UNCHANGED <<kind, load, started, healed, broken, late>> /\ kind = "grpc" /\ cut' \subseteq cut
    BY <1>5 DEF Reconnect, fixed, sendVars
  <2>2. QED
    BY <2>1, <1>e, <1>s DEF HealInv, OnceInv, PoolInv, HealsSoon
<1>6. QED
  BY <1>1, <1>2, <1>3, <1>4, <1>5

LEMMA SoonTcp ==
  ASSUME SoonInv, StageInv', NEW s \in Senders, TcpEnsure(s) \/ TcpHeader(s) \/ TcpBody(s)
  PROVE  HealInv' /\ HealsSoon'
<1>e. StageInv /\ FieldInv /\ TypeOK /\ HealInv /\ OnceInv /\ HealsSoon /\ 0 \notin cut
  BY FrameTypes DEF SoonInv, NilInv, StageInv, HealInv
<1>f. kind = "tcp" /\ UNCHANGED <<kind, load, started, cut, healed, broken>>
  BY DEF TcpEnsure, TcpHeader, TcpBody, fixed
<1>o. Over(s) = conn
  BY <1>f DEF Over
<1>1. \A t \in Senders : pc'[t] \notin {"reset", "install"}
  BY <1>f DEF StageInv, StageOf
<1>2. late # {} => conn \notin cut
  BY <1>e, <1>f DEF OnceInv
<1>3. \/ late' = late
      \/ late' = late \cup {<<Head(todo[s]), conn>>} /\ healed /\ conn \in cut
  <2>1. CASE TcpEnsure(s)
    BY <2>1 DEF TcpEnsure, Goto, Return
  <2>2. CASE TcpHeader(s)
    <3>1. CASE late' = late
      BY <3>1
    <3>2. CASE late' # late
      <4>1. TcpGiveUp(s) /\ (Head(todo[s]) \in Large \/ conn \in cut)
        BY <2>2, <3>2 DEF TcpHeader, Crash, Goto, sendVars
      <4>2. QED
        BY <4>1, <3>2, <1>o, <1>f, ReturnLate DEF TcpGiveUp
    <3>3. QED
      BY <3>1, <3>2
  <2>3. CASE TcpBody(s)
    BY <2>3, <1>o, ReturnLate DEF TcpBody, TcpGiveUp
  <2>4. QED
    BY <2>1, <2>2, <2>3
<1>4. late' # {} => conn' \notin cut
  <2>1. CASE TcpEnsure(s)
    <3>1. CanDial /\ Dialled => Fresh \notin cut
      BY <1>e, DialledTypes
    <3>2. late' = late
      BY <2>1 DEF TcpEnsure, Goto, Return
    <3>3. QED
      BY <2>1, <3>1, <3>2, <1>2 DEF TcpEnsure, connVars
  <2>2. CASE TcpHeader(s)
    <3>1. conn' = 0 \/ (conn' = conn /\ late' = late)
      BY <2>2 DEF TcpHeader, Crash, Goto, TcpGiveUp, connVars, sendVars
    <3>2. QED
      BY <3>1, <1>2, <1>e
  <2>3. CASE TcpBody(s)
    <3>1. conn' = 0 \/ (conn' = conn /\ late' = late)
      BY <2>3 DEF TcpBody, TcpGiveUp, Return, connVars
    <3>2. QED
      BY <3>1, <1>2, <1>e
  <2>4. QED
    BY <2>1, <2>2, <2>3
<1>5. HealInv'
  BY <1>1, <1>4, <1>e, <1>f DEF HealInv, OnceInv, PoolInv
<1>6. HealsSoon'
  <2>1. \/ late' = late
        \/ late' = late \cup {<<Head(todo[s]), conn>>} /\ conn \in broken /\ late = {}
    BY <1>2, <1>3, <1>e DEF HealInv
  <2>2. QED
    BY <2>1, <1>e, <1>f, OneMore
<1>7. QED
  BY <1>5, <1>6

LEMMA SoonKeeps ==
  ASSUME SoonInv, NEW s \in Senders,
         LoadConn(s) \/ DialConn(s) \/ Install(s) \/ Reload(s) \/ WriteMessage(s) \/ Reset(s)
  PROVE  HealInv' /\ HealsSoon'
<1>e. /\ StageInv /\ FieldInv /\ HandOf(s) /\ TypeOK /\ HealInv /\ OnceInv /\ HealsSoon /\ KeptInv
      /\ 0 \notin cut /\ 0 \notin open
  BY FrameTypes DEF SoonInv, NilInv, StageInv, KeptInv, HealInv
<1>p. pc \in [Senders -> Stages] /\ hand \in [Senders -> 0..dialled]
  BY <1>e DEF TypeOK, Stages
<1>f. /\ Keeps /\ UNCHANGED <<kind, load, started, cut, healed, broken>> /\ (kind = "ws" \/ kind = "grpc")
      /\ todo[s] # <<>>
  BY DEF LoadConn, DialConn, Install, Reload, WriteMessage, Reset, Keeps, Sending, fixed
<1>o. Over(s) = hand[s]
  BY <1>f DEF Over
<1>s. Solo' <=> Solo
  BY <1>f, SoloKept
<1>i. Solo => \A t \in Senders \ {s} : pc[t] = "idle"
  BY <1>e, <1>f, SoloOthersIdle
<1>t. \A t \in Senders \ {s} : pc'[t] = pc[t]
  BY <1>p DEF LoadConn, DialConn, Install, Reload, WriteMessage, Reset, Goto, Return, Crash, sendVars
\* A gRPC transport, whose connections stay open.
<1>g. ASSUME kind = "grpc"
      PROVE  late' = late \/ (late' = late \cup {<<Head(todo[s]), hand[s]>>} /\ healed /\ hand[s] \in cut)
  <2>1. pc[s] = "write" => hand[s] \in open
    BY <1>e, <1>f, <1>g DEF HandOf
  <2>2. CASE WriteMessage(s)
    BY <2>1, <2>2, <1>g, <1>o, ReturnLate DEF WriteMessage, Fails, Return, Crash, sendVars
  <2>3. CASE ~WriteMessage(s)
    BY <2>3, <1>g DEF LoadConn, DialConn, Install, Reload, Reset, Goto
  <2>4. QED
    BY <2>2, <2>3
\* A WebSocket with one sender.
<1>w. ASSUME kind = "ws", Solo
      PROVE  /\ late' # {} => conn' \notin cut /\ pc'[s] # "reset" /\ (pc'[s] = "install" => hand'[s] \notin cut)
             /\ pc'[s] = "reset" => hand'[s] \in cut
             /\ \/ late' = late
                \/ late = {} /\ late' = late \cup {<<Head(todo[s]), hand[s]>>} /\ healed /\ hand[s] \in cut
  <2>1. /\ late # {} => conn \notin cut /\ pc[s] # "reset" /\ (pc[s] = "install" => hand[s] \notin cut)
        /\ pc[s] = "reset" => hand[s] \in cut
    BY <1>e, <1>f, <1>w DEF OnceInv
  <2>2. CASE LoadConn(s)
    BY <2>1, <2>2, <1>p DEF LoadConn, Goto, connVars
  <2>3. CASE DialConn(s)
    <3>1. CanDial /\ Dialled => Fresh \notin cut
      BY <1>e, DialledTypes
    <3>2. UNCHANGED <<conn, late>>
      BY <2>3 DEF DialConn, Goto, Return
    <3>3. pc'[s] = "idle" \/ (pc'[s] = "install" /\ hand'[s] \notin cut)
      BY <2>3, <3>1, <1>p DEF DialConn, Goto, Return
    <3>4. QED
      BY <2>1, <3>2, <3>3
  <2>4. CASE Install(s)
    <3>1. UNCHANGED late /\ conn' = hand[s] /\ pc[s] = "install" /\ pc'[s] = "reload"
      BY <2>4, <1>p DEF Install, Goto
    <3>2. QED
      BY <2>1, <3>1
  <2>5. CASE Reload(s)
    BY <2>1, <2>5, <1>p DEF Reload, Goto, connVars
  <2>6. CASE WriteMessage(s)
    <3>1. pc[s] = "write" /\ hand[s] \in open /\ hand[s] = conn
      BY <2>6, <1>e, <1>f, <1>w DEF WriteMessage, HandOf
    <3>2. hand[s] # 0 /\ (Fails(hand[s]) => conn \in cut)
      BY <3>1, <1>e DEF Fails
    <3>3. /\ UNCHANGED <<conn, late, hand>> /\ pc'[s] \in {"idle", "reset"}
          /\ (pc'[s] = "reset" => Fails(hand[s]))
      BY <2>6, <3>2, <1>w, <1>p DEF WriteMessage, connVars, Goto, Return
    <3>4. QED
      BY <2>1, <3>1, <3>2, <3>3
  <2>7. CASE Reset(s)
    <3>1. late = {} /\ hand[s] \in cut
      BY <2>1, <2>7 DEF Reset
    <3>2. conn' = 0 /\ pc'[s] = "idle"
      BY <2>7, <1>p DEF Reset, Return
    <3>3. \/ late' = late
          \/ late' = late \cup {<<Head(todo[s]), hand[s]>>} /\ healed
      BY <2>7, <1>o, ReturnLate DEF Reset
    <3>4. QED
      BY <3>1, <3>2, <3>3, <1>e
  <2>8. QED
    BY <2>2, <2>3, <2>4, <2>5, <2>6, <2>7
<1>1. CASE kind = "grpc"
  <2>1. late' = late \/ (late' = late \cup {<<Head(todo[s]), hand[s]>>} /\ hand[s] \in broken)
    BY <1>1, <1>g, <1>e DEF HealInv
  <2>2. HealsSoon'
    BY <2>1, <1>1, <1>e, <1>f, OneMore
  <2>3. HealInv'
    BY <1>1, <1>e, <1>f DEF HealInv, OnceInv, PoolInv
  <2>4. QED
    BY <2>2, <2>3
<1>2. CASE kind = "ws" /\ Solo
  <2>1. \A t \in Senders \ {s} : pc'[t] = "idle"
    BY <1>2, <1>t, <1>i
  <2>2. HealInv'
    BY <2>1, <1>2, <1>w, <1>e, <1>f DEF HealInv, OnceInv, PoolInv
  <2>3. \/ late' = late
        \/ late' = late \cup {<<Head(todo[s]), hand[s]>>} /\ hand[s] \in broken /\ late = {}
    BY <1>2, <1>w, <1>e DEF HealInv
  <2>4. HealsSoon'
    BY <2>3, <1>2, <1>e, <1>f, OneMore
  <2>5. QED
    BY <2>2, <2>4
<1>3. CASE kind = "ws" /\ ~Solo
  BY <1>3, <1>e, <1>f, <1>s DEF HealInv, OnceInv, PoolInv, HealsSoon
<1>4. QED
  BY <1>1, <1>2, <1>3, <1>f

LEMMA SoonUdp == ASSUME SoonInv, NEW s \in Senders, SendUdp(s) PROVE HealInv' /\ HealsSoon'
<1>e. HealInv /\ OnceInv /\ HealsSoon
  BY DEF SoonInv, HealInv
<1>f. /\ kind = "udp" /\ UNCHANGED <<kind, load, started, phase, conn, open, healed, broken>>
      /\ phase = "running" /\ cut' \subseteq cut
  BY DEF SendUdp, Sending, fixed, connVars
<1>o. Over(s) = conn
  BY <1>f DEF Over
<1>i. \A t \in Senders : pc'[t] = "idle"
  <2>1. (\A t \in Senders : pc[t] = "idle") /\ pc \in [Senders -> Stages]
    BY <1>f DEF SoonInv, NilInv, StageInv, StageOf, TypeOK, Stages
  <2>2. QED
    BY <2>1 DEF SendUdp, Return
<1>1. CASE ~started
  BY <1>1, <1>e, <1>f DEF HealInv, OnceInv, PoolInv, HealsSoon
<1>2. CASE started
  <2>1. conn \in open /\ (late # {} => conn \notin cut)
    BY <1>2, <1>e, <1>f DEF OnceInv
  <2>2. \/ late' = late
        \/ late' = late \cup {<<Head(todo[s]), conn>>} /\ healed /\ conn \in cut /\ conn \notin cut'
    BY <2>1, <1>o, ReturnLate DEF SendUdp
  <2>3. HealInv'
    BY <2>1, <2>2, <1>e, <1>f, <1>i DEF HealInv, OnceInv, PoolInv
  <2>4. HealsSoon'
    <3>1. \/ late' = late
          \/ late' = late \cup {<<Head(todo[s]), conn>>} /\ conn \in broken /\ late = {}
      BY <2>1, <2>2, <1>e DEF HealInv
    <3>2. QED
      BY <3>1, <1>e, <1>f, OneMore
  <2>5. QED
    BY <2>3, <2>4
<1>3. QED
  BY <1>1, <1>2

LEMMA PoolStep ==
  ASSUME PoolInv, kind = "http", NEW s \in Senders,
         \A t \in Senders \ {s} : pc'[t] = pc[t] /\ hand'[t] = hand[t],
         \A t \in Senders \ {s} : pc[t] = "post" => hand[t] \in open' /\ (pc'[s] = "post" => hand[t] # hand'[s]),
         pc'[s] = "post" => hand'[s] \in open',
         \A f \in late' : f[2] \notin open'
  PROVE  PoolInv'
<1>1. \A t \in Senders : pc'[t] = "post" => hand'[t] \in open'
  OBVIOUS
<1>2. ASSUME NEW t \in Senders, NEW u \in Senders, pc'[t] = "post", pc'[u] = "post", hand'[t] = hand'[u], t # u
      PROVE  FALSE
  <2>1. CASE t = s \/ u = s
    BY <1>2, <2>1
  <2>2. CASE t # s /\ u # s
    BY <1>2, <2>2 DEF PoolInv
  <2>3. QED
    BY <2>1, <2>2
<1>3. QED
  BY <1>1, <1>2 DEF PoolInv

\* Each connection of the pool is in one hand, and closed when it fails.
LEMMA SoonHttp ==
  ASSUME SoonInv, NEW s \in Senders, HttpConnect(s) \/ HttpAnswer(s) \/ HttpFails(s)
  PROVE  HealInv' /\ HealsSoon'
<1>e. TypeOK /\ HealInv /\ PoolInv /\ HealsSoon
  BY DEF SoonInv, NilInv, StageInv, HealInv
<1>f. kind = "http" /\ UNCHANGED <<kind, load, started, cut, healed, broken>>
  BY DEF HttpConnect, HttpAnswer, HttpFails, fixed
<1>p. pc \in [Senders -> Stages] /\ hand \in [Senders -> 0..dialled]
  BY <1>e DEF TypeOK, Stages
<1>o. Over(s) = hand[s]
  BY <1>f DEF Over
<1>h. /\ \A t \in Senders : pc[t] = "post" => hand[t] \in open
      /\ \A t, u \in Senders : pc[t] = "post" /\ pc[u] = "post" /\ hand[t] = hand[u] => t = u
      /\ \A f \in late : f[2] \notin open /\ f[2] \in broken
  BY <1>e, <1>f DEF PoolInv, HealsSoon
<1>t. \A t \in Senders \ {s} : pc'[t] = pc[t] /\ hand'[t] = hand[t]
  BY <1>p DEF HttpConnect, HttpAnswer, HttpFails, Goto, Return
<1>1. CASE HttpConnect(s)
  <2>1. late' = late
    BY <1>1 DEF HttpConnect, Goto, Return
  <2>2. ASSUME \E c \in Idle : hand' = [hand EXCEPT ![s] = c], Goto(s, "post"), UNCHANGED connVars
        PROVE  PoolInv'
    <3>1. PICK c \in Idle : hand' = [hand EXCEPT ![s] = c]
      BY <2>2
    <3>2. c \in open /\ (\A t \in Senders : pc[t] = "post" => hand[t] # c) /\ hand'[s] = c /\ open' = open
      BY <2>2, <3>1, <1>p DEF Idle, connVars
    <3>3. QED
      BY <3>2, <2>1, <1>t, <1>h, <1>e, <1>f, PoolStep
  <2>3. ASSUME CanDial, Dialled, hand' = [hand EXCEPT ![s] = Fresh], Goto(s, "post")
        PROVE  PoolInv'
    <3>1. open' = open \cup {Fresh} /\ hand'[s] = Fresh /\ Fresh \notin open /\ Fresh \notin broken
      <4>1. dialled \in Nat /\ Fresh \notin 1..dialled
        BY <1>e, DialledRange DEF Fresh
      <4>2. QED
        BY <4>1, <2>3, <1>e, <1>p DEF Dialled, TypeOK
    <3>2. /\ \A t \in Senders : pc[t] = "post" => hand[t] # Fresh /\ hand[t] \in open'
          /\ \A f \in late' : f[2] \notin open'
      BY <3>1, <2>1, <1>h
    <3>3. QED
      BY <3>1, <3>2, <2>1, <1>t, <1>h, <1>e, <1>f, PoolStep
  <2>4. ASSUME Return(s, "err"), UNCHANGED <<connVars, hand>>
        PROVE  PoolInv'
    <3>1. pc'[s] = "idle" /\ open' = open
      BY <2>4, <1>p DEF Return, connVars
    <3>2. QED
      BY <3>1, <2>1, <1>t, <1>h, <1>e, <1>f, PoolStep
  <2>5. PoolInv'
    BY <1>1, <2>2, <2>3, <2>4, Zenon DEF HttpConnect
  <2>6. QED
    BY <2>1, <2>5, <1>e, <1>f, OneMore DEF HealInv, OnceInv
<1>2. CASE HttpAnswer(s)
  <2>1. open' = open /\ pc'[s] = "idle" /\ late' = late
    BY <1>2, <1>p DEF HttpAnswer, connVars, Return
  <2>2. PoolInv'
    BY <2>1, <1>t, <1>h, <1>f DEF PoolInv
  <2>3. QED
    BY <2>1, <2>2, <1>e, <1>f, OneMore DEF HealInv, OnceInv
<1>3. CASE HttpFails(s)
  <2>1. /\ open' = open \ {hand[s]} /\ pc[s] = "post" /\ pc'[s] = "idle" /\ hand[s] \in cut
        /\ \/ late' = late
           \/ late' = late \cup {<<Head(todo[s]), hand[s]>>} /\ healed
    BY <1>3, <1>p, <1>o, ReturnLate DEF HttpFails, Goto, Return
  <2>2. PoolInv'
    <3> DEFINE one == <<Head(todo[s]), hand[s]>>
    <3>1. one[2] = hand[s]
      OBVIOUS
    <3> HIDE DEF one
    <3>2. late' \subseteq late \cup {one}
      BY <2>1 DEF one
    <3>3. \A f \in late' : f[2] \notin open'
      BY <3>1, <3>2, <2>1, <1>h
    <3>4. \A t \in Senders : pc'[t] = "post" => pc[t] = "post" /\ hand'[t] = hand[t] /\ hand[t] # hand[s]
      BY <2>1, <1>t, <1>h
    <3>5. QED
      BY <3>3, <3>4, <2>1, <1>h DEF PoolInv
  <2>3. HealsSoon'
    <3>1. \/ late' = late
          \/ /\ late' = late \cup {<<Head(todo[s]), hand[s]>>} /\ hand[s] \in broken
             /\ \A f \in late : f[2] # hand[s]
      BY <2>1, <1>h, <1>e DEF HealInv
    <3>2. QED
      BY <3>1, <1>e, <1>f, OneMore
  <2>4. QED
    BY <2>2, <2>3, <1>e, <1>f DEF HealInv, OnceInv
<1>4. QED
  BY <1>1, <1>2, <1>3

LEMMA SoonStep == SoonInv /\ [Next]_vars => SoonInv'
<1> SUFFICES ASSUME SoonInv, [Next]_vars PROVE SoonInv'
  OBVIOUS
<1>1. NilInv' /\ StageInv'
  BY NilStep DEF SoonInv, NilInv
<1>2. HealInv' /\ HealsSoon'
  BY <1>1, SoonOther, SoonTcp, SoonKeeps, SoonUdp, SoonHttp DEF Next
<1>3. QED
  BY <1>1, <1>2 DEF SoonInv

\* Once the network is back a Send only fails, for any other reason than the
\* size of its payload, over a connection that was broken before: TCP and a
\* lone sender's WebSocket close and forget the one they find so, UDP has its
\* error reported once, HTTP closes each such connection of its pool, and a
\* gRPC client fails until it has connected anew.
THEOREM TransportHeals == Spec => []HealsSoon
<1>1. SoonInv => HealsSoon
  BY DEF SoonInv
<1>2. QED
  BY <1>1, SoonInit, SoonStep, PTL DEF Spec

-----------------------------------------------------------------------------
(* What is leaked *)

\* What the elements of a tail are.
LEMMA TailElements ==
  ASSUME NEW S, NEW f \in Seq(S), f # <<>>
  PROVE  /\ 1 \in DOMAIN f /\ f[1] = Head(f)
         /\ \A i \in DOMAIN Tail(f) : i \in Nat /\ i # 0 /\ i + 1 \in DOMAIN f /\ Tail(f)[i] = f[i + 1]
<1>1. /\ Len(f) \in Nat /\ Len(f) >= 1 /\ DOMAIN f = 1..Len(f) /\ Head(f) = f[1]
      /\ Tail(f) \in Seq(S) /\ Len(Tail(f)) = Len(f) - 1
      /\ \A i \in 1..Len(Tail(f)) : Tail(f)[i] = f[i + 1]
  BY HeadTailProperties, LenProperties, EmptySeq
<1>2. DOMAIN Tail(f) = 1..(Len(f) - 1)
  BY <1>1, LenProperties
<1>3. QED
  BY <1>1, <1>2

\* What Return leaves to be sent: what there was, without the payload it
\* returned for, which has a result.
LEMMA Unsent ==
  ASSUME StageInv, UnsentInv, NEW s \in Senders, todo[s] # <<>>, NEW r \in {"ok", "err"}, Return(s, r)
  PROVE  /\ \A t \in Senders : \A i \in DOMAIN todo'[t] :
              /\ i \in Nat /\ i + (IF t = s THEN 1 ELSE 0) \in DOMAIN todo[t]
              /\ todo'[t][i] = todo[t][i + (IF t = s THEN 1 ELSE 0)]
              /\ todo'[t][i] # Head(todo[s])
         /\ Head(todo[s]) \in Payloads /\ result[Head(todo[s])] = "none" /\ result'[Head(todo[s])] = r
         /\ \A p \in Payloads \ {Head(todo[s])} : result'[p] = result[p]
<1> DEFINE p == Head(todo[s])
<1>t. TypeOK
  BY DEF StageInv
<1>q. \A t \in Senders : todo[t] \in Seq(Payloads)
  BY <1>t DEF TypeOK
<1>1. /\ 1 \in DOMAIN todo[s] /\ todo[s][1] = p /\ p \in Payloads
      /\ \A i \in DOMAIN Tail(todo[s]) :
           i \in Nat /\ i # 0 /\ i + 1 \in DOMAIN todo[s] /\ Tail(todo[s])[i] = todo[s][i + 1]
  BY <1>q, <1>t, TailElements, SenderTypes
<1>2. /\ todo'[s] = Tail(todo[s]) /\ \A t \in Senders \ {s} : todo'[t] = todo[t]
  BY <1>t DEF TypeOK, Return
<1>3. /\ result'[p] = r /\ \A q \in Payloads \ {p} : result'[q] = result[q]
  BY <1>t, <1>1 DEF TypeOK, Return
<1> HIDE DEF p
<1>4. result[p] = "none"
  BY <1>1 DEF UnsentInv
<1>5. ASSUME NEW t \in Senders, NEW i \in DOMAIN todo'[t]
      PROVE  /\ i \in Nat /\ i + (IF t = s THEN 1 ELSE 0) \in DOMAIN todo[t]
             /\ todo'[t][i] = todo[t][i + (IF t = s THEN 1 ELSE 0)]
             /\ todo'[t][i] # p
  <2>1. CASE t = s
    <3>1. i \in Nat /\ i # 0 /\ i + 1 \in DOMAIN todo[s] /\ todo'[s][i] = todo[s][i + 1] /\ i + 1 # 1
      BY <2>1, <1>1, <1>2
    <3>2. todo[s][i + 1] # todo[s][1]
      BY <3>1, <1>1 DEF UnsentInv
    <3>3. QED
      BY <2>1, <3>1, <3>2, <1>1
  <2>2. CASE t # s
    <3>1. todo'[t] = todo[t] /\ i \in DOMAIN todo[t]
      BY <2>2, <1>2
    <3>2. i \in Nat
      BY <3>1, <1>q, LenProperties
    <3>3. todo[t][i] # todo[s][1]
      BY <2>2, <3>1, <1>1 DEF UnsentInv
    <3>4. i + 0 = i
      BY <3>2
    <3>5. QED
      BY <2>2, <3>1, <3>2, <3>3, <3>4, <1>1
  <2>3. QED
    BY <2>1, <2>2
<1>6. QED
  BY <1>1, <1>3, <1>4, <1>5 DEF p

\* A payload that is still to be sent has no result, whatever Send returns.
LEMMA UnsentReturn ==
  ASSUME StageInv, UnsentInv, NEW s \in Senders, todo[s] # <<>>, NEW r \in {"ok", "err"}, Return(s, r)
  PROVE  UnsentInv'
<1> DEFINE p == Head(todo[s])
           back(t) == IF t = s THEN 1 ELSE 0
<1>t. \A t \in Senders : todo[t] \in Seq(Payloads)
  BY DEF StageInv, TypeOK
<1>u. /\ \A t \in Senders : \A i \in DOMAIN todo'[t] :
           /\ i \in Nat /\ i + back(t) \in DOMAIN todo[t]
           /\ todo'[t][i] = todo[t][i + back(t)]
           /\ todo'[t][i] # p
      /\ \A q \in Payloads \ {p} : result'[q] = result[q]
  BY Unsent
<1>b. \A t \in Senders : back(t) \in Nat
  OBVIOUS
<1> HIDE DEF p, back
<1>1. ASSUME NEW t \in Senders, NEW u \in Senders, NEW i \in DOMAIN todo'[t], NEW j \in DOMAIN todo'[u],
             todo'[t][i] = todo'[u][j]
      PROVE  t = u /\ i = j
  <2>1. todo[t][i + back(t)] = todo[u][j + back(u)]
    BY <1>1, <1>u
  <2>2. t = u /\ i + back(t) = j + back(u)
    BY <2>1, <1>u DEF UnsentInv
  <2>3. i \in Nat /\ j \in Nat /\ back(t) \in Nat
    BY <1>u, <1>b
  <2>4. QED
    BY <2>2, <2>3
<1>2. ASSUME NEW t \in Senders, NEW i \in DOMAIN todo'[t]
      PROVE  result'[todo'[t][i]] = "none"
  <2>1. /\ i + back(t) \in DOMAIN todo[t] /\ todo'[t][i] = todo[t][i + back(t)] /\ todo'[t][i] # p
    BY <1>u
  <2>2. result[todo[t][i + back(t)]] = "none"
    BY <2>1 DEF UnsentInv
  <2>3. todo'[t][i] \in Payloads \ {p}
    BY <2>1, <1>t, ElementOfSeq, LenProperties
  <2>4. QED
    BY <2>1, <2>2, <2>3, <1>u
<1>3. QED
  BY <1>1, <1>2 DEF UnsentInv

\* A step is one in which a Send returns, or none in which anything was sent.
LEMMA StepReturns ==
  ASSUME [Next]_vars
  PROVE  \/ UNCHANGED <<todo, result>>
         \/ \E s \in Senders, r \in {"ok", "err"} : todo[s] # <<>> /\ Return(s, r)
<1>1. CASE \/ Start \/ StartStateless \/ StartFails \/ SkipStart \/ Close
           \/ Heal \/ (\E c \in Conns : Break(c) \/ Reconnect(c)) \/ UNCHANGED vars
  BY <1>1 DEF Start, StartStateless, StartFails, SkipStart, Close, Heal, Break, Reconnect, vars, sendVars
<1>2. ASSUME NEW s \in Senders, TcpEnsure(s) \/ TcpHeader(s) \/ TcpBody(s)
      PROVE  UNCHANGED <<todo, result>> \/ \E r \in {"ok", "err"} : todo[s] # <<>> /\ Return(s, r)
  BY <1>2 DEF TcpEnsure, TcpHeader, TcpBody, TcpGiveUp, Sending, Goto, Crash, sendVars
<1>3. ASSUME NEW s \in Senders,
             LoadConn(s) \/ DialConn(s) \/ Install(s) \/ Reload(s) \/ WriteMessage(s) \/ Reset(s)
      PROVE  UNCHANGED <<todo, result>> \/ \E r \in {"ok", "err"} : todo[s] # <<>> /\ Return(s, r)
  BY <1>3 DEF LoadConn, DialConn, Install, Reload, WriteMessage, Reset, Sending, Goto, Crash, sendVars
<1>4. ASSUME NEW s \in Senders, SendUdp(s) \/ HttpConnect(s) \/ HttpAnswer(s) \/ HttpFails(s)
      PROVE  UNCHANGED <<todo, result>> \/ \E r \in {"ok", "err"} : todo[s] # <<>> /\ Return(s, r)
  BY <1>4 DEF SendUdp, HttpConnect, HttpAnswer, HttpFails, Sending, Goto
<1>5. QED
  BY <1>1, <1>2, <1>3, <1>4 DEF Next

\* A subset of a finite set, and of one with one element more.
LEMMA CountLess ==
  ASSUME NEW S, IsFiniteSet(S), NEW T, T \subseteq S
  PROVE  IsFiniteSet(T) /\ Cardinality(S) \in Nat /\ Cardinality(T) \in Nat /\ Cardinality(T) <= Cardinality(S)
BY FS_Subset, FS_CardinalityType

LEMMA CountMore ==
  ASSUME NEW S, IsFiniteSet(S), NEW x, NEW T, T \subseteq S \cup {x}
  PROVE  /\ Cardinality(S) \in Nat /\ Cardinality(T) \in Nat
         /\ Cardinality(T) <= Cardinality(S) + 1
<1>1. IsFiniteSet(S \cup {x}) /\ Cardinality(S \cup {x}) <= Cardinality(S) + 1 /\ Cardinality(S) \in Nat
  BY FS_AddElement, FS_CardinalityType
<1>2. Cardinality(T) \in Nat /\ Cardinality(T) <= Cardinality(S \cup {x}) /\ Cardinality(S \cup {x}) \in Nat
  BY <1>1, CountLess
<1>3. QED
  BY <1>1, <1>2

LEMMA CountTypes ==
  ASSUME TypeOK
  PROVE  /\ IsFiniteSet(Orphans) /\ Cardinality(Orphans) \in Nat
         /\ IsFiniteSet(Errs) /\ Cardinality(Errs) \in Nat
         /\ IsFiniteSet(Making) /\ Cardinality(Making) \in Nat /\ Making \subseteq Senders
         /\ Cardinality(Senders) \in Nat
<1>1. dialled \in Int /\ open \subseteq 1..dialled
  BY FrameTypes, TransportAssumption DEF TypeOK, Refs
<1>2. IsFiniteSet(1..dialled) /\ Orphans \subseteq 1..dialled
  <2>1. IsFiniteSet(1..dialled)
    BY <1>1, FS_Interval
  <2>2. Orphans \subseteq open
    BY DEF Orphans
  <2>3. QED
    BY <1>1, <2>1, <2>2
<1>3. Errs \subseteq Payloads /\ Making \subseteq Senders
  BY DEF Errs, Making
<1>4. QED
  BY <1>2, <1>3, CountLess, FS_CardinalityType, TransportAssumption

\* Who is an orphan of a transport that keeps a connection.
LEMMA OrphanIs ==
  kind # "http" =>
    \A c : c \in Orphans <=>
      c \in open /\ c # conn /\ \A s \in Senders : pc[s] = "install" => hand[s] # c
BY DEF Orphans

LEMMA OrphanWas ==
  kind' # "http" =>
    \A c : c \in Orphans' <=>
      c \in open' /\ c # conn' /\ \A s \in Senders : pc'[s] = "install" => hand'[s] # c
BY DEF Orphans

\* What a step may do to the connections that are leaked: nothing; make the
\* first client of a gRPC transport; turn the client of its field into an
\* orphan, with one sender fewer that may make another; forget a connection
\* of a WebSocket with a Send that fails.
FewerLeaks ==
  /\ Orphans' \subseteq Orphans /\ Errs \subseteq Errs' /\ Errs' \subseteq Payloads
  /\ kind = "grpc" => (conn' = 0 <=> conn = 0) /\ (conn # 0 => Making' \subseteq Making)

NoLeaks == Orphans' = {} /\ Making' = {} /\ conn' # 0 /\ Errs' \subseteq Payloads

OneInstalled(s) ==
  /\ kind = "grpc" /\ s \in Making /\ Making' = Making \ {s} /\ conn' # 0
  /\ Orphans' \subseteq Orphans \cup {conn} /\ (conn = 0 => Orphans' \subseteq Orphans)

OneForgotten(p) ==
  /\ kind = "ws" /\ p \in Payloads \ Errs /\ Errs' = Errs \cup {p}
  /\ Orphans' \subseteq Orphans \cup {conn}

LEMMA LeakStep ==
  ASSUME TypeOK, LeakInv, UNCHANGED kind, phase # "closed", phase' # "closed",
         \/ FewerLeaks \/ NoLeaks
         \/ \E s \in Senders : OneInstalled(s)
         \/ \E p \in Payloads : OneForgotten(p)
  PROVE  LeakInv'
<1>c. /\ IsFiniteSet(Orphans) /\ Cardinality(Orphans) \in Nat
      /\ IsFiniteSet(Errs) /\ Cardinality(Errs) \in Nat
      /\ IsFiniteSet(Making) /\ Cardinality(Making) \in Nat /\ Making \subseteq Senders
      /\ Cardinality(Senders) \in Nat
  BY CountTypes
<1>1. CASE FewerLeaks
  <2>1. Orphans' \subseteq Orphans /\ Cardinality(Orphans') \in Nat /\ Cardinality(Orphans') <= Cardinality(Orphans)
    BY <1>1, <1>c, CountLess DEF FewerLeaks
  <2>2. Cardinality(Errs') \in Nat /\ Cardinality(Errs) <= Cardinality(Errs')
    <3>1. IsFiniteSet(Errs')
      BY <1>1, CountLess, TransportAssumption DEF FewerLeaks
    <3>2. QED
      BY <1>1, <3>1, CountLess DEF FewerLeaks
  <2>3. kind = "ws" => Cardinality(Orphans') <= Cardinality(Errs')
    BY <2>1, <2>2, <1>c DEF LeakInv
  <2>4. kind = "grpc" => Orphans' = {} \/ Cardinality(Orphans') < Cardinality(Senders)
    BY <2>1, <1>c DEF LeakInv
  <2>5. kind = "grpc" /\ conn' = 0 => Orphans' = {}
    BY <2>1, <1>1 DEF LeakInv, FewerLeaks
  <2>6. ASSUME kind = "grpc", conn' # 0
        PROVE  Orphans' \cup Making' = {} \/ Cardinality(Orphans') + Cardinality(Making') < Cardinality(Senders)
    <3>1. conn # 0 /\ Making' \subseteq Making
      BY <2>6, <1>1 DEF FewerLeaks
    <3>2. Cardinality(Making') \in Nat /\ Cardinality(Making') <= Cardinality(Making)
      BY <3>1, <1>c, CountLess
    <3>3. Orphans \cup Making = {} \/ Cardinality(Orphans) + Cardinality(Making) < Cardinality(Senders)
      BY <2>6, <3>1 DEF LeakInv
    <3>4. CASE Orphans \cup Making = {}
      BY <3>4, <3>1, <2>1
    <3>5. CASE Cardinality(Orphans) + Cardinality(Making) < Cardinality(Senders)
      BY <3>5, <3>2, <2>1, <1>c
    <3>6. QED
      BY <3>3, <3>4, <3>5
  <2>7. QED
    BY <2>3, <2>4, <2>5, <2>6 DEF LeakInv
<1>2. CASE NoLeaks
  <2>1. Cardinality(Orphans') = 0
    BY <1>2, FS_EmptySet DEF NoLeaks
  <2>2. Cardinality(Errs') \in Nat
    BY <1>2, CountLess, TransportAssumption DEF NoLeaks
  <2>3. QED
    BY <1>2, <2>1, <2>2 DEF LeakInv, NoLeaks
<1>3. ASSUME NEW s \in Senders, OneInstalled(s) PROVE LeakInv'
  <2>1. /\ kind = "grpc" /\ conn' # 0 /\ s \in Making /\ Making' = Making \ {s}
    BY <1>3 DEF OneInstalled
  <2>2. Cardinality(Making') = Cardinality(Making) - 1
    BY <2>1, <1>c, FS_RemoveElement
  <2>3. Cardinality(Making) <= Cardinality(Senders)
    BY <1>c, FS_Subset, TransportAssumption
  <2>4. CASE conn = 0
    <3>1. Orphans' = {}
      BY <1>3, <2>1, <2>4 DEF LeakInv, OneInstalled
    <3>2. Cardinality(Orphans') = 0
      BY <3>1, FS_EmptySet
    <3>3. Cardinality(Orphans') + Cardinality(Making') < Cardinality(Senders)
      BY <3>2, <2>2, <2>3, <1>c
    <3>4. QED
      BY <3>1, <3>3, <2>1 DEF LeakInv
  <2>5. CASE conn # 0
    <3>1. Cardinality(Orphans') \in Nat /\ Cardinality(Orphans') <= Cardinality(Orphans) + 1
      BY <1>3, <1>c, CountMore DEF OneInstalled
    <3>2. Cardinality(Orphans) + Cardinality(Making) < Cardinality(Senders)
      BY <2>1, <2>5 DEF LeakInv
    <3>3. Cardinality(Making') \in Nat
      BY <2>1, <1>c, CountLess
    <3>4. /\ Cardinality(Orphans') + Cardinality(Making') < Cardinality(Senders)
          /\ Cardinality(Orphans') < Cardinality(Senders)
      BY <3>1, <3>2, <3>3, <2>2, <1>c
    <3>5. QED
      BY <3>4, <2>1 DEF LeakInv
  <2>6. QED
    BY <2>4, <2>5
<1>4. ASSUME NEW p \in Payloads, OneForgotten(p) PROVE LeakInv'
  <2>1. Cardinality(Errs') = Cardinality(Errs) + 1
    BY <1>4, <1>c, FS_AddElement DEF OneForgotten
  <2>2. Cardinality(Orphans') \in Nat /\ Cardinality(Orphans') <= Cardinality(Orphans) + 1
    BY <1>4, <1>c, CountMore DEF OneForgotten
  <2>3. kind = "ws" /\ Cardinality(Orphans) <= Cardinality(Errs)
    BY <1>4 DEF OneForgotten, LeakInv
  <2>4. Cardinality(Orphans') <= Cardinality(Errs')
    BY <2>1, <2>2, <2>3, <1>c
  <2>5. QED
    BY <2>3, <2>4 DEF LeakInv
<1>5. QED
  BY <1>1, <1>2, <1>3, <1>4

LeakAll == NilInv /\ UnsentInv /\ LeakInv

LEMMA LeakInit == Init => LeakAll
<1> SUFFICES ASSUME Init PROVE LeakAll
  OBVIOUS
<1>1. NilInv /\ TypeOK
  BY NilInit DEF NilInv, StageInv
<1>2. \A s, t \in Senders : \A i \in DOMAIN todo[s], j \in DOMAIN todo[t] :
        todo[s][i] = todo[t][j] => s = t /\ i = j
  BY SentOnce DEF Init
<1>3. \A s \in Senders : \A i \in DOMAIN todo[s] : result[todo[s][i]] = "none"
  <2>1. \A s \in Senders : todo[s] \in Seq(Payloads)
    BY <1>1 DEF TypeOK
  <2>2. QED
    BY <2>1, ElementOfSeq, LenProperties DEF Init
<1>4. Orphans = {} /\ Cardinality(Orphans) = 0
  <2>1. Orphans = {}
    BY DEF Init, Orphans
  <2>2. QED
    BY <2>1, FS_EmptySet
<1>5. Cardinality(Errs) \in Nat
  BY <1>1, CountTypes
<1>6. LeakInv
  BY <1>4, <1>5 DEF LeakInv, Init
<1>7. QED
  BY <1>1, <1>2, <1>3, <1>6 DEF LeakAll, UnsentInv

LEMMA LeakOther ==
  ASSUME LeakAll, \/ Start \/ StartStateless \/ StartFails \/ SkipStart \/ Close
                  \/ Heal \/ (\E c \in Conns : Break(c) \/ Reconnect(c)) \/ UNCHANGED vars
  PROVE  LeakInv'
<1>e. TypeOK /\ FieldInv /\ LeakInv /\ \A s \in Senders : StageOf(s)
  BY DEF LeakAll, NilInv, StageInv
<1>c. Cardinality(Errs) \in Nat
  BY <1>e, CountTypes
<1>1. CASE Start
  <2>1. /\ kind' = kind /\ kind # "http" /\ phase = "new" /\ phase' = "running" /\ open' = {Fresh} /\ conn' = Fresh
        /\ UNCHANGED sendVars /\ Fresh # 0
    BY <1>1, <1>e, DialledTypes DEF Start, FieldInv, Dialled, fixed
  <2>2. Orphans' = {} /\ Making' = {} /\ Errs' \subseteq Payloads
    BY <2>1, <1>e DEF Orphans, Making, Errs, StageOf, sendVars
  <2>3. QED
    BY <2>1, <2>2, <1>e, LeakStep DEF NoLeaks
<1>2. CASE Close
  <2>1. /\ kind' = kind /\ phase = "running" /\ phase' = "closed" /\ UNCHANGED sendVars
        /\ Keeps => open' = open \ {conn} /\ conn' = 0
    BY <1>2 DEF Close, fixed, Keeps
  <2>2. Keeps => Orphans' = Orphans
    <3>1. 0 \notin open
      BY <1>e, FrameTypes
    <3>2. \A s \in Senders : pc[s] = "idle"
      BY <1>2, <1>e DEF Close, StageOf
    <3>3. QED
      BY <2>1, <3>1, <3>2 DEF Orphans, Keeps, sendVars
  <2>3. Errs' = Errs
    BY <2>1 DEF Errs, sendVars
  <2>4. kind \in {"ws", "grpc"} => Keeps
    BY DEF Keeps
  <2>5. QED
    BY <2>1, <2>2, <2>3, <2>4, <1>e DEF LeakInv
<1>3. ASSUME UNCHANGED <<kind, conn, open, sendVars>>, phase' = phase \/ phase = "new"
      PROVE  LeakInv'
  <2>1. Orphans' = Orphans /\ Making' = Making /\ Errs' = Errs
    BY <1>3 DEF Orphans, Making, Errs, sendVars
  <2>2. kind' = kind /\ conn' = conn /\ (phase = "closed" => phase' = "closed")
    BY <1>3
  <2>3. QED
    BY <2>1, <2>2, <1>e DEF LeakInv
<1>4. QED
  BY <1>1, <1>2, <1>3 DEF StartStateless, StartFails, SkipStart, Heal, Break, Reconnect, vars, fixed, connVars

\* A Send of another transport: nothing here is about it.
LEMMA LeakElse ==
  ASSUME LeakAll, NEW s \in Senders,
         \/ TcpEnsure(s) \/ TcpHeader(s) \/ TcpBody(s)
         \/ SendUdp(s) \/ HttpConnect(s) \/ HttpAnswer(s) \/ HttpFails(s)
  PROVE  LeakInv'
<1>1. kind' = kind /\ kind \in {"tcp", "udp", "http"}
  BY DEF TcpEnsure, TcpHeader, TcpBody, SendUdp, HttpConnect, HttpAnswer, HttpFails, fixed
<1>2. QED
  BY <1>1 DEF LeakInv

LEMMA LeakKeeps ==
  ASSUME LeakAll, NEW s \in Senders,
         LoadConn(s) \/ DialConn(s) \/ Install(s) \/ Reload(s) \/ WriteMessage(s) \/ Reset(s)
  PROVE  LeakInv'
<1>e. TypeOK /\ FieldInv /\ KeptInv /\ UnsentInv /\ LeakInv /\ StageInv
  BY DEF LeakAll, NilInv, StageInv
<1>f. /\ kind' = kind /\ kind \in {"ws", "grpc"} /\ phase = "running" /\ todo[s] # <<>>
      /\ phase' \in {"running", "crashed"}
  BY DEF LoadConn, DialConn, Install, Reload, WriteMessage, Reset, Sending, Keeps, fixed, Crash
<1>p. /\ pc \in [Senders -> Stages] /\ hand \in [Senders -> 0..dialled]
      /\ result \in [Payloads -> {"none", "ok", "err"}]
  BY <1>e DEF TypeOK, Stages
<1>g. \A l : Goto(s, l) => Errs' = Errs /\ pc'[s] = l /\ \A t \in Senders \ {s} : pc'[t] = pc[t]
  BY <1>p DEF Goto, Errs
<1>r. \A r \in {"ok", "err"} : Return(s, r) =>
        /\ Head(todo[s]) \in Payloads \ Errs
        /\ Errs' = IF r = "err" THEN Errs \cup {Head(todo[s])} ELSE Errs
        /\ pc'[s] = "idle" /\ \A t \in Senders \ {s} : pc'[t] = pc[t]
  <2>1. SUFFICES ASSUME NEW r \in {"ok", "err"}, Return(s, r)
                 PROVE  /\ Head(todo[s]) \in Payloads \ Errs
                        /\ Errs' = IF r = "err" THEN Errs \cup {Head(todo[s])} ELSE Errs
                        /\ pc'[s] = "idle" /\ \A t \in Senders \ {s} : pc'[t] = pc[t]
    OBVIOUS
  <2>2. /\ Head(todo[s]) \in Payloads /\ result[Head(todo[s])] = "none" /\ result'[Head(todo[s])] = r
        /\ \A p \in Payloads \ {Head(todo[s])} : result'[p] = result[p]
    BY <2>1, <1>e, <1>f, Unsent
  <2>3. pc'[s] = "idle" /\ \A t \in Senders \ {s} : pc'[t] = pc[t]
    BY <2>1, <1>p DEF Return
  <2>4. QED
    BY <2>2, <2>3 DEF Errs
<1>s. Errs \subseteq Payloads
  BY DEF Errs
<1>o. /\ \A c : c \in Orphans <=>
           c \in open /\ c # conn /\ \A t \in Senders : pc[t] = "install" => hand[t] # c
      /\ \A c : c \in Orphans' <=>
           c \in open' /\ c # conn' /\ \A t \in Senders : pc'[t] = "install" => hand'[t] # c
  BY <1>f, OrphanIs, OrphanWas
<1>1. CASE LoadConn(s)
  <2>1. /\ UNCHANGED connVars /\ pc[s] = "idle" /\ \A t \in Senders \ {s} : hand'[t] = hand[t]
        /\ Goto(s, IF conn = 0 THEN "dial" ELSE "write") /\ phase' = phase
    BY <1>1, <1>p DEF LoadConn
  <2>2. Orphans' \subseteq Orphans
    BY <2>1, <1>g, <1>o DEF connVars
  <2>3. conn # 0 => Making' \subseteq Making
    BY <2>1, <1>g DEF Making
  <2>4. QED
    BY <2>1, <2>2, <2>3, <1>e, <1>f, <1>g, <1>s, LeakStep DEF FewerLeaks, connVars
<1>2. CASE DialConn(s)
  <2>0. pc[s] = "dial" /\ conn' = conn /\ phase' = phase
    BY <1>2 DEF DialConn
  <2>1. CASE Dialled /\ hand' = [hand EXCEPT ![s] = Fresh] /\ Goto(s, "install")
    <3>1. /\ open' = open \cup {Fresh} /\ hand'[s] = Fresh /\ \A t \in Senders \ {s} : hand'[t] = hand[t]
      BY <2>1, <1>p DEF Dialled
    <3>2. Orphans' \subseteq Orphans
      BY <3>1, <2>0, <2>1, <1>g, <1>o
    <3>3. Making' \subseteq Making
      BY <2>0, <2>1, <1>g DEF Making
    <3>4. QED
      BY <2>0, <2>1, <3>2, <3>3, <1>e, <1>f, <1>g, <1>s, LeakStep DEF FewerLeaks
  <2>2. CASE Return(s, "err") /\ UNCHANGED <<dialled, open, hand>>
    <3>1. Orphans' \subseteq Orphans /\ Making' \subseteq Making
      BY <2>0, <2>2, <1>r, <1>o DEF Making
    <3>2. QED
      BY <2>0, <2>2, <3>1, <1>e, <1>f, <1>r, <1>s, LeakStep DEF FewerLeaks
  <2>3. QED
    BY <1>2, <2>1, <2>2 DEF DialConn
<1>3. CASE Install(s)
  <2>1. /\ pc[s] = "install" /\ conn' = hand[s] /\ UNCHANGED hand /\ Goto(s, "reload") /\ phase' = phase
        /\ open' = IF kind = "ws" THEN open \ {conn} ELSE open
    BY <1>3 DEF Install
  <2>2. Orphans' \subseteq Orphans \cup {conn} /\ (kind = "ws" => Orphans' \subseteq Orphans)
    BY <2>1, <1>g, <1>o
  <2>3. s \in Making /\ Making' = Making \ {s}
    BY <2>1, <1>g DEF Making
  <2>4. CASE kind = "ws"
    BY <2>1, <2>2, <2>4, <1>e, <1>f, <1>g, <1>s, LeakStep DEF FewerLeaks
  <2>5. CASE kind = "grpc"
    <3>1. 0 \notin open /\ (conn = 0 => Orphans' \subseteq Orphans)
      BY <2>2, <2>5, <2>1, <1>o, <1>e, FrameTypes
    <3>2. conn' # 0
      BY <2>1, <2>5, <3>1, <1>e DEF KeptInv, HandOf, Keeps
    <3>3. QED
      BY <2>1, <2>2, <2>3, <2>5, <3>1, <3>2, <1>e, <1>f, LeakStep DEF OneInstalled
  <2>6. QED
    BY <2>4, <2>5, <1>f
<1>4. CASE Reload(s)
  <2>1. /\ UNCHANGED connVars /\ pc[s] = "reload" /\ \A t \in Senders \ {s} : hand'[t] = hand[t]
        /\ Goto(s, "write") /\ phase' = phase
    BY <1>4, <1>p DEF Reload
  <2>2. Orphans' \subseteq Orphans /\ Making' \subseteq Making
    BY <2>1, <1>g, <1>o DEF connVars, Making
  <2>3. QED
    BY <2>1, <2>2, <1>e, <1>f, <1>g, <1>s, LeakStep DEF FewerLeaks, connVars
<1>5. CASE WriteMessage(s)
  <2>0. pc[s] = "write" /\ UNCHANGED <<connVars, hand>>
    BY <1>5 DEF WriteMessage, Crash, sendVars
  <2>1. CASE Crash
    <3>1. Orphans' = Orphans /\ Making' = Making /\ Errs' = Errs
      BY <2>0, <2>1, <1>f DEF Orphans, Making, Errs, Crash, connVars, sendVars
    <3>2. QED
      BY <2>0, <3>1, <1>e, <1>f, <1>s, LeakStep DEF FewerLeaks, connVars
  <2>2. CASE (\E l \in {"reset"} : Goto(s, l)) \/ \E r \in {"ok", "err"} : Return(s, r)
    <3>1. /\ pc'[s] \in {"reset", "idle"} /\ \A t \in Senders \ {s} : pc'[t] = pc[t]
          /\ Errs \subseteq Errs' /\ Errs' \subseteq Payloads
      BY <2>2, <1>g, <1>r, <1>s
    <3>2. Orphans' \subseteq Orphans /\ Making' \subseteq Making
      BY <2>0, <3>1, <1>o DEF connVars, Making
    <3>3. QED
      BY <2>0, <3>1, <3>2, <1>e, <1>f, LeakStep DEF FewerLeaks, connVars
  <2>3. QED
    BY <1>5, <2>1, <2>2 DEF WriteMessage
<1>6. CASE Reset(s)
  <2>1. /\ kind = "ws" /\ pc[s] = "reset" /\ open' = open \ {hand[s]} /\ conn' = 0 /\ UNCHANGED hand
        /\ Return(s, "err") /\ phase' = phase
    BY <1>6 DEF Reset
  <2>2. Orphans' \subseteq Orphans \cup {conn}
    BY <2>1, <1>r, <1>o
  <2>3. OneForgotten(Head(todo[s])) /\ Head(todo[s]) \in Payloads
    BY <2>1, <2>2, <1>r DEF OneForgotten
  <2>4. QED
    BY <2>1, <2>3, <1>e, <1>f, LeakStep
<1>7. QED
  BY <1>1, <1>2, <1>3, <1>4, <1>5, <1>6

LEMMA LeakNext == LeakAll /\ [Next]_vars => LeakAll'
<1> SUFFICES ASSUME LeakAll, [Next]_vars PROVE LeakAll'
  OBVIOUS
<1>1. NilInv'
  BY NilStep DEF LeakAll
<1>2. UnsentInv'
  <2>1. CASE UNCHANGED <<todo, result>>
    BY <2>1 DEF LeakAll, UnsentInv
  <2>2. QED
    BY <2>1, StepReturns, UnsentReturn DEF LeakAll, NilInv
<1>3. LeakInv'
  BY LeakOther, LeakElse, LeakKeeps DEF Next
<1>4. QED
  BY <1>1, <1>2, <1>3 DEF LeakAll

\* Whatever its senders do to each other, a WebSocket has leaked no more
\* connections than Sends have failed, and a gRPC transport has leaked fewer
\* clients than it has senders.
THEOREM TransportLeaks == Spec => []LeaksBounded
<1>1. LeakAll => LeaksBounded
  BY DEF LeakAll, LeakInv, LeaksBounded, Errs
<1>2. QED
  BY <1>1, LeakInit, LeakNext, PTL DEF Spec
=============================================================================
