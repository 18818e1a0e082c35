----------------------------- MODULE AgentProofs -----------------------------
(***************************************************************************)
(* Proofs about Agent, for any number of workers, transports, loggers and  *)
(* callers of Sync, any load, policy, hooks and faults, any queue size.    *)
(***************************************************************************)
EXTENDS Agent, SequenceTheorems, FiniteSetTheorems, TLAPS

\* What a worker holds at each point.
HandInv ==
  \A w \in Workers :
    /\ sig[w] # NoSignal <=> wpc[w] \in {"got", "send"}
    /\ wpc[w] # "send" => rest[w] = <<>> /\ fb[w] = <<>>

\* A logger past its test of closed still has the signal it logs: Start, which
\* gives the collector its first signals, comes before any it has.
ReadyInv ==
  /\ \A p \in ready : todo[p] # <<>>
  /\ collecting = "off" => todo[Collector] = <<>>
  /\ (\A w \in Workers : wpc[w] = "off") => collecting = "off"

CountInv == HandInv /\ ReadyInv /\ TypeOK /\ InflightExact

\* Before Close has waited for the workers they may run; afterwards they do not.
StopInv ==
  /\ cpc \in {"sync", "done"} => \A w \in Workers : wpc[w] \in {"off", "exited"}
  /\ ~open => cpc = "done"

\* What has been tried for the reliable signal in a worker's hand: nothing
\* yet, or all that fallbackSend has not still to try.
Untouched(w) == rest[w] = Targets[sig[w]] /\ fb[w] = <<>>
Accounted(w) ==
  \A t \in Transports : t \in tried[sig[w]] \/ \E i \in DOMAIN fb[w] : fb[w][i] = t

ReliableInv ==
  \A w \in Workers :
    wpc[w] = "send" /\ sig[w] \in Reliable \ Skipped /\ got[sig[w]] = {} =>
      Untouched(w) \/ Accounted(w)

\* What was owed when the context of the workers ended stays in sight, and out
\* of the queue once a worker has seen it empty and returned.
DrainInv ==
  /\ owed \subseteq Queued
  /\ ~cancelled => owed = {}
  /\ \A w \in Workers : (wpc[w] \in {"drain", "exited"} \/ mode[w] = "drain") => cancelled
  /\ (\E w \in Workers : wpc[w] = "exited") => owed \subseteq InHand \cup finished

\* The signals still to be logged are different ones, ...
FreshInv ==
  /\ \A p, q \in Loggers : \A i \in DOMAIN todo[p], j \in DOMAIN todo[q] :
       todo[p][i] = todo[q][j] => p = q /\ i = j
  /\ \A k, l \in DOMAIN rounds : \A i \in DOMAIN rounds[k], j \in DOMAIN rounds[l] :
       rounds[k][i] = rounds[l][j] => k = l /\ i = j
  /\ \A p \in Loggers, k \in DOMAIN rounds :
       \A i \in DOMAIN todo[p], j \in DOMAIN rounds[k] : todo[p][i] # rounds[k][j]

\* ... and none of them has been queued before.
Past(s) == s \in Queued \/ \E y \in SyncProcs : s \in due[y]
NewInv ==
  /\ \A p \in Loggers : \A i \in DOMAIN todo[p] : ~Past(todo[p][i])
  /\ \A k \in DOMAIN rounds : \A i \in DOMAIN rounds[k] : ~Past(rounds[k][i])

SyncInv ==
  \A y \in SyncProcs : spc[y] \in {"polled", "flush"} => due[y] \cap InCh = {}

-----------------------------------------------------------------------------
(* Lemmas *)

Busy == {w \in Workers : wpc[w] = "send"}

LEMMA BusyFinite == IsFiniteSet(Busy) /\ Cardinality(Busy) \in Nat
BY AgentAssumption, FS_Subset, FS_CardinalityType DEF Busy

LEMMA TailTypes ==
  ASSUME NEW S, NEW f \in Seq(S), f # <<>>
  PROVE  /\ Head(f) \in S /\ Tail(f) \in Seq(S) /\ Len(Tail(f)) = Len(f) - 1
         /\ Len(f) \in Nat \ {0}
BY HeadTailProperties, EmptySeq

\* What the elements of a tail are.
LEMMA TailElements ==
  ASSUME NEW S, NEW f \in Seq(S), f # <<>>
  PROVE  /\ \A i \in DOMAIN Tail(f) : i \in Nat /\ i + 1 \in DOMAIN f /\ Tail(f)[i] = f[i + 1]
         /\ 1 \in DOMAIN f /\ Head(f) = f[1]
         /\ \A i \in DOMAIN f : i \in Nat \ {0} /\ (i = 1 \/ i - 1 \in DOMAIN Tail(f))
<1>1. /\ DOMAIN f = 1..Len(f) /\ Len(f) \in Nat \ {0}
      /\ Tail(f) \in Seq(S) /\ Len(Tail(f)) = Len(f) - 1
      /\ \A i \in 1..Len(Tail(f)) : Tail(f)[i] = f[i + 1]
      /\ Head(f) = f[1]
  BY HeadTailProperties, LenProperties, EmptySeq
<1>2. DOMAIN Tail(f) = 1..(Len(f) - 1)
  BY <1>1, LenProperties
<1> QED BY <1>1, <1>2

LEMMA TailCovers ==
  ASSUME NEW S, NEW f \in Seq(S), f # <<>>
  PROVE  \A i \in DOMAIN f : f[i] = Head(f) \/ \E j \in DOMAIN Tail(f) : Tail(f)[j] = f[i]
<1> SUFFICES ASSUME NEW i \in DOMAIN f, i # 1
             PROVE  \E j \in DOMAIN Tail(f) : Tail(f)[j] = f[i]
  BY TailElements
<1>1. i \in Nat /\ i - 1 \in DOMAIN Tail(f)
  BY TailElements
<1>2. Tail(f)[i - 1] = f[(i - 1) + 1]
  BY <1>1, TailElements
<1> QED BY <1>1, <1>2

LEMMA AppendElements ==
  ASSUME NEW S, NEW f \in Seq(S), NEW e \in S
  PROVE  /\ \A i \in DOMAIN Append(f, e) :
              (i \in DOMAIN f /\ Append(f, e)[i] = f[i]) \/ Append(f, e)[i] = e
         /\ \A i \in DOMAIN f : i \in DOMAIN Append(f, e) /\ Append(f, e)[i] = f[i]
         /\ \E i \in DOMAIN Append(f, e) : Append(f, e)[i] = e
<1>1. /\ DOMAIN f = 1..Len(f) /\ Len(f) \in Nat
      /\ Append(f, e) \in Seq(S) /\ Len(Append(f, e)) = Len(f) + 1
      /\ \A i \in 1..Len(f) : Append(f, e)[i] = f[i]
      /\ Append(f, e)[Len(f) + 1] = e
  BY AppendProperties, LenProperties
<1>2. DOMAIN Append(f, e) = 1..(Len(f) + 1)
  BY <1>1, LenProperties
<1> QED BY <1>1, <1>2

\* fallbackSend tries every transport but the one that failed.
LEMMA OthersAll ==
  ASSUME NEW t \in Transports
  PROVE  /\ Others(t) \in Seq(Transports)
         /\ \A u \in Transports : u = t \/ \E i \in DOMAIN Others(t) : Others(t)[i] = u
<1>1. NumTransports \in Nat \ {0} /\ t \in 1..NumTransports
  BY AgentAssumption DEF Transports
<1>2. Others(t) \in [1..(NumTransports - 1) -> Transports]
  BY <1>1 DEF Others, Transports
<1>3. Others(t) \in Seq(Transports)
  BY <1>1, <1>2
<1>4. ASSUME NEW u \in Transports, u # t
      PROVE  \E i \in DOMAIN Others(t) : Others(t)[i] = u
  <2>1. u \in 1..NumTransports
    BY DEF Transports
  <2>2. CASE u < t
    <3>1. u \in 1..(NumTransports - 1)
      BY <1>1, <2>1, <2>2
    <3>2. Others(t)[u] = u
      BY <2>2, <3>1 DEF Others
    <3> QED BY <1>2, <3>1, <3>2
  <2>3. CASE u > t
    <3>1. u - 1 \in 1..(NumTransports - 1) /\ ~(u - 1 < t)
      BY <1>1, <2>1, <2>3
    <3>2. Others(t)[u - 1] = u
      BY <2>1, <3>1 DEF Others
    <3> QED BY <1>2, <3>1, <3>2
  <2> QED BY <1>1, <1>4, <2>1, <2>2, <2>3
<1> QED BY <1>3, <1>4

-----------------------------------------------------------------------------
(* Types, what the workers hold, and the counter *)

LEMMA InitCountInv == Init => CountInv
<1> SUFFICES ASSUME Init PROVE CountInv
  OBVIOUS
<1>0. /\ <<>> \in Seq(Signals) /\ <<>> \in Seq(Transports) /\ Len(<<>>) = 0
  BY EmptySeq
<1>1. TypeOK
  <2>2. todo \in [Loggers -> Seq(Signals)]
    BY <1>0, AgentAssumption DEF Init, Loggers
  <2>3. /\ ch \in Seq(Signals) /\ Len(ch) <= QueueSize
        /\ rounds \in Seq(Seq(Signals))
    BY <1>0, AgentAssumption DEF Init
  <2>4. /\ wpc \in [Workers -> {"off", "recv", "drain", "got", "send", "exited"}]
        /\ mode \in [Workers -> {"run", "drain"}]
        /\ expired \in [Workers -> BOOLEAN]
        /\ sig \in [Workers -> Signals \cup {NoSignal}]
        /\ rest \in [Workers -> Seq(Transports)]
        /\ fb \in [Workers -> Seq(Transports)]
    BY <1>0 DEF Init
  <2>5. /\ tried \in [Signals -> SUBSET Transports]
        /\ got \in [Signals -> SUBSET Transports]
        /\ spc \in [SyncProcs -> {"idle", "poll", "polled", "late", "flush", "done"}]
        /\ due \in [SyncProcs -> SUBSET Signals]
    BY DEF Init
  <2>6. /\ ready \subseteq Loggers /\ collecting \in {"off", "on", "exited"}
        /\ dropped \subseteq Signals /\ closed \in BOOLEAN /\ cancelled \in BOOLEAN
        /\ inflight \in Nat /\ finished \subseteq Signals
        /\ cpc \in {"idle", "cancel", "wait", "sync", "done"}
        /\ open \in BOOLEAN /\ owed \subseteq Signals
    BY DEF Init
  <2> QED BY <2>2, <2>3, <2>4, <2>5, <2>6 DEF TypeOK
<1>2. HandInv /\ ReadyInv
  <2>1. HandInv
    BY DEF Init, HandInv
  <2>2. ReadyInv
    BY DEF Init, ReadyInv, Loggers
  <2> QED BY <2>1, <2>2
<1>3. InflightExact
  <2>1. Busy = {}
    BY DEF Init, Busy
  <2> QED BY <2>1, FS_EmptySet DEF Init, InflightExact, Busy
<1> QED BY <1>1, <1>2, <1>3 DEF CountInv

LEMMA NextCount == CountInv /\ [Next]_vars => CountInv'
<1> SUFFICES ASSUME CountInv, [Next]_vars PROVE CountInv'
  OBVIOUS
<1> USE DEF logVars, workVars, histVars, stopVars
<1>0. /\ TypeOK /\ HandInv /\ ReadyInv /\ InflightExact
      /\ Workers # {} /\ Collector \in Loggers /\ NoSignal \notin Signals
  BY AgentAssumption DEF CountInv, Loggers
<1>e. <<>> \in Seq(Transports) /\ <<>> \in Seq(Signals)
  BY EmptySeq
<1>1. CASE Start
  <2>1. rounds # <<>> => Head(rounds) \in Seq(Signals) /\ Tail(rounds) \in Seq(Seq(Signals))
    BY <1>0, TailTypes DEF TypeOK
  <2>2. TypeOK'
    <3>1. /\ todo' \in [Loggers -> Seq(Signals)] /\ rounds' \in Seq(Seq(Signals))
          /\ collecting' \in {"off", "on", "exited"}
      <4>1. CASE rounds = <<>>
        BY <1>0, <1>1, <4>1 DEF Start, TypeOK
      <4>2. CASE rounds # <<>>
        BY <1>0, <1>1, <2>1, <4>2 DEF Start, TypeOK
      <4> QED BY <4>1, <4>2
    <3>2. /\ wpc' \in [Workers -> {"off", "recv", "drain", "got", "send", "exited"}]
          /\ UNCHANGED <<ready, ch, dropped, mode, expired, sig, rest, fb, inflight,
                         histVars, stopVars>>
      BY <1>1 DEF Start
    <3> QED BY <1>0, <3>1, <3>2 DEF TypeOK
  <2>3. HandInv'
    BY <1>0, <1>1 DEF Start, TypeOK, HandInv
  <2>4. ReadyInv'
    <3>1. collecting = "off" /\ Collector \notin ready
      BY <1>0, <1>1 DEF Start, ReadyInv
    <3> QED BY <1>0, <1>1, <3>1 DEF Start, TypeOK, ReadyInv
  <2>5. InflightExact'
    <3>1. Busy' = Busy
      BY <1>1 DEF Start, Busy
    <3> QED BY <1>0, <1>1, <3>1 DEF Start, InflightExact, Busy
  <2> QED BY <2>2, <2>3, <2>4, <2>5 DEF CountInv
<1>2. ASSUME NEW p \in Loggers, CheckClosed(p) PROVE CountInv'
  <2>1. Tail(todo[p]) \in Seq(Signals) /\ p \notin ready
    BY <1>0, <1>2, TailTypes DEF TypeOK, CheckClosed
  <2>2. TypeOK'
    <3>1. todo' \in [Loggers -> Seq(Signals)] /\ ready' \subseteq Loggers
      BY <1>0, <1>2, <2>1 DEF CheckClosed, TypeOK
    <3>2. UNCHANGED <<rounds, collecting, ch, dropped, workVars, histVars, stopVars>>
      BY <1>2 DEF CheckClosed
    <3> QED BY <1>0, <3>1, <3>2 DEF TypeOK
  <2>3. HandInv'
    BY <1>0, <1>2 DEF CheckClosed, HandInv
  <2>4. ReadyInv'
    BY <1>0, <1>2, <2>1 DEF CheckClosed, TypeOK, ReadyInv
  <2>5. InflightExact'
    BY <1>0, <1>2 DEF CheckClosed, InflightExact
  <2> QED BY <2>2, <2>3, <2>4, <2>5 DEF CountInv
<1>3. ASSUME NEW p \in Loggers, Put(p) PROVE CountInv'
  <2>1. Tail(todo[p]) \in Seq(Signals) /\ Head(todo[p]) \in Signals
    BY <1>0, <1>3, TailTypes DEF TypeOK, Put, ReadyInv
  <2>2. TypeOK'
    <3>1. ch' \in Seq(Signals) /\ Len(ch') <= QueueSize
      <4>1. /\ Append(ch, Head(todo[p])) \in Seq(Signals) /\ Len(ch) \in Nat
            /\ Len(Append(ch, Head(todo[p]))) = Len(ch) + 1
        BY <1>0, <2>1, AppendProperties, LenProperties DEF TypeOK
      <4>2. QueueSize \in Nat /\ ch \in Seq(Signals) /\ Len(ch) <= QueueSize
        BY <1>0, AgentAssumption DEF TypeOK
      <4>3. CASE Len(ch) < QueueSize
        <5>1. ch' = Append(ch, Head(todo[p]))
          BY <1>3, <4>3 DEF Put
        <5> QED BY <4>1, <4>2, <4>3, <5>1
      <4>4. CASE ~(Len(ch) < QueueSize)
        <5>1. ch' = ch
          BY <1>3, <4>4 DEF Put
        <5> QED BY <4>2, <5>1
      <4> QED BY <4>3, <4>4
    <3> QED BY <1>0, <1>3, <2>1, <3>1 DEF Put, TypeOK
  <2>3. HandInv'
    BY <1>0, <1>3 DEF Put, HandInv
  <2>4. ReadyInv'
    BY <1>0, <1>3, <2>1 DEF Put, TypeOK, ReadyInv
  <2>5. InflightExact'
    BY <1>0, <1>3 DEF Put, InflightExact
  <2> QED BY <2>2, <2>3, <2>4, <2>5 DEF CountInv
<1>4. CASE Collect
  <2>1. Head(rounds) \in Seq(Signals) /\ Tail(rounds) \in Seq(Seq(Signals))
    BY <1>0, <1>4, TailTypes DEF TypeOK, Collect
  <2>2. TypeOK'
    BY <1>0, <1>4, <2>1 DEF Collect, TypeOK
  <2>3. HandInv'
    BY <1>0, <1>4 DEF Collect, HandInv
  <2>4. ReadyInv'
    BY <1>0, <1>4, <2>1 DEF Collect, TypeOK, ReadyInv
  <2>5. InflightExact'
    BY <1>0, <1>4 DEF Collect, InflightExact
  <2> QED BY <2>2, <2>3, <2>4, <2>5 DEF CountInv
<1>5. CASE CollectExit
  <2>2. TypeOK'
    BY <1>0, <1>5 DEF CollectExit, TypeOK
  <2>3. HandInv'
    BY <1>0, <1>5 DEF CollectExit, HandInv
  <2>4. ReadyInv'
    BY <1>0, <1>5 DEF CollectExit, ReadyInv
  <2>5. InflightExact'
    BY <1>0, <1>5 DEF CollectExit, InflightExact
  <2> QED BY <2>2, <2>3, <2>4, <2>5 DEF CountInv
<1>6. ASSUME NEW w \in Workers, Take(w) PROVE CountInv'
  <2>1. Head(ch) \in Signals /\ Tail(ch) \in Seq(Signals) /\ Len(Tail(ch)) <= QueueSize
    BY <1>0, <1>6, TailTypes, AgentAssumption DEF Take, TypeOK
  <2>2. TypeOK'
    BY <1>0, <1>6, <2>1 DEF Take, TypeOK
  <2>3. HandInv'
    BY <1>0, <1>6, <2>1 DEF Take, TypeOK, HandInv
  <2>4. ReadyInv'
    BY <1>0, <1>6 DEF Take, TypeOK, ReadyInv
  <2>5. InflightExact'
    <3>1. Busy' = Busy
      BY <1>0, <1>6 DEF Take, TypeOK, Busy
    <3> QED BY <1>0, <1>6, <3>1 DEF Take, InflightExact, Busy
  <2> QED BY <2>2, <2>3, <2>4, <2>5 DEF CountInv
<1>7. ASSUME NEW w \in Workers, SeeDone(w) PROVE CountInv'
  <2>2. TypeOK'
    BY <1>0, <1>7 DEF SeeDone, TypeOK
  <2>3. HandInv'
    BY <1>0, <1>7 DEF SeeDone, TypeOK, HandInv
  <2>4. ReadyInv'
    BY <1>0, <1>7 DEF SeeDone, TypeOK, ReadyInv
  <2>5. InflightExact'
    <3>1. Busy' = Busy
      BY <1>0, <1>7 DEF SeeDone, TypeOK, Busy
    <3> QED BY <1>0, <1>7, <3>1 DEF SeeDone, InflightExact, Busy
  <2> QED BY <2>2, <2>3, <2>4, <2>5 DEF CountInv
<1>8. ASSUME NEW w \in Workers, DrainExpire(w) PROVE CountInv'
  <2>2. TypeOK'
    BY <1>0, <1>8 DEF DrainExpire, TypeOK
  <2>3. HandInv' /\ ReadyInv' /\ InflightExact'
    BY <1>0, <1>8 DEF DrainExpire, HandInv, ReadyInv, InflightExact
  <2> QED BY <2>2, <2>3 DEF CountInv
<1>9. ASSUME NEW w \in Workers, DrainEmpty(w) PROVE CountInv'
  <2>2. TypeOK'
    BY <1>0, <1>9 DEF DrainEmpty, TypeOK
  <2>3. HandInv'
    BY <1>0, <1>9 DEF DrainEmpty, TypeOK, HandInv
  <2>4. ReadyInv'
    BY <1>0, <1>9 DEF DrainEmpty, TypeOK, ReadyInv
  <2>5. InflightExact'
    <3>1. Busy' = Busy
      BY <1>0, <1>9 DEF DrainEmpty, TypeOK, Busy
    <3> QED BY <1>0, <1>9, <3>1 DEF DrainEmpty, InflightExact, Busy
  <2> QED BY <2>2, <2>3, <2>4, <2>5 DEF CountInv
<1>10. ASSUME NEW w \in Workers, Begin(w) PROVE CountInv'
  <2>1. sig[w] \in Signals /\ Targets[sig[w]] \in Seq(Transports)
    BY <1>0, <1>10, AgentAssumption DEF Begin, TypeOK, HandInv
  <2>2. TypeOK'
    BY <1>0, <1>10, <1>e, <2>1 DEF Begin, TypeOK
  <2>3. HandInv'
    BY <1>0, <1>10 DEF Begin, TypeOK, HandInv
  <2>4. ReadyInv'
    BY <1>0, <1>10 DEF Begin, TypeOK, ReadyInv
  <2>5. InflightExact'
    <3>1. Busy' = Busy \cup {w} /\ w \notin Busy
      BY <1>0, <1>10 DEF Begin, TypeOK, Busy
    <3>2. Cardinality(Busy') = Cardinality(Busy) + 1
      BY <3>1, BusyFinite, FS_AddElement
    <3> QED BY <1>0, <1>10, <3>2 DEF Begin, InflightExact, Busy
  <2> QED BY <2>2, <2>3, <2>4, <2>5 DEF CountInv
<1>11. ASSUME NEW w \in Workers, NEW t \in Transports, NEW ok \in BOOLEAN,
              Attempt(w, t, ok),
              rest' \in [Workers -> Seq(Transports)], fb' \in [Workers -> Seq(Transports)],
              \A v \in Workers \ {w} : rest'[v] = rest[v] /\ fb'[v] = fb[v]
       PROVE  CountInv'
  <2>1. sig[w] \in Signals
    BY <1>0, <1>11 DEF Attempt, TypeOK, HandInv
  <2>2. TypeOK'
    BY <1>0, <1>11, <2>1 DEF Attempt, TypeOK
  <2>3. HandInv'
    BY <1>0, <1>11 DEF Attempt, TypeOK, HandInv
  <2>4. ReadyInv' /\ InflightExact'
    BY <1>0, <1>11 DEF Attempt, ReadyInv, InflightExact
  <2> QED BY <2>2, <2>3, <2>4 DEF CountInv
<1>12. ASSUME NEW w \in Workers, NEW ok \in BOOLEAN, SendTarget(w, ok) PROVE CountInv'
  <2>1. /\ rest[w] \in Seq(Transports) /\ rest[w] # <<>>
        /\ rest \in [Workers -> Seq(Transports)] /\ fb \in [Workers -> Seq(Transports)]
    BY <1>0, <1>12 DEF SendTarget, TypeOK
  <2>2. Head(rest[w]) \in Transports /\ Tail(rest[w]) \in Seq(Transports)
    BY <2>1, TailTypes
  <2>3. Others(Head(rest[w])) \in Seq(Transports)
    BY <2>2, OthersAll
  <2>4. Attempt(w, Head(rest[w]), ok)
    BY <1>12 DEF SendTarget
  <2>5. /\ rest' \in [Workers -> Seq(Transports)] /\ fb' \in [Workers -> Seq(Transports)]
        /\ \A v \in Workers \ {w} : rest'[v] = rest[v] /\ fb'[v] = fb[v]
    BY <1>12, <1>e, <2>1, <2>2, <2>3 DEF SendTarget
  <2> QED BY <1>11, <2>2, <2>4, <2>5
<1>13. ASSUME NEW w \in Workers, NEW ok \in BOOLEAN, Fallback(w, ok) PROVE CountInv'
  <2>1. /\ fb[w] \in Seq(Transports) /\ fb[w] # <<>>
        /\ rest \in [Workers -> Seq(Transports)] /\ fb \in [Workers -> Seq(Transports)]
    BY <1>0, <1>13 DEF Fallback, TypeOK
  <2>2. Head(fb[w]) \in Transports /\ Tail(fb[w]) \in Seq(Transports)
    BY <2>1, TailTypes
  <2>4. Attempt(w, Head(fb[w]), ok)
    BY <1>13 DEF Fallback
  <2>5. /\ rest' \in [Workers -> Seq(Transports)] /\ fb' \in [Workers -> Seq(Transports)]
        /\ \A v \in Workers \ {w} : rest'[v] = rest[v] /\ fb'[v] = fb[v]
    BY <1>13, <1>e, <2>1, <2>2 DEF Fallback
  <2> QED BY <1>11, <2>2, <2>4, <2>5
<1>14. ASSUME NEW w \in Workers, Finish(w) PROVE CountInv'
  <2>1. sig[w] \in Signals
    BY <1>0, <1>14 DEF Finish, TypeOK, HandInv
  <2>5. Busy' = Busy \ {w} /\ w \in Busy
    BY <1>0, <1>14 DEF Finish, TypeOK, Busy
  <2>6. Cardinality(Busy') = Cardinality(Busy) - 1 /\ inflight = Cardinality(Busy)
    BY <1>0, <2>5, BusyFinite, FS_RemoveElement DEF InflightExact, Busy
  <2>7. inflight' = Cardinality(Busy') /\ inflight' \in Nat
    <3>1. IsFiniteSet(Busy')
      BY <2>5, BusyFinite, FS_Subset
    <3> QED BY <1>14, <2>6, <3>1, FS_CardinalityType DEF Finish
  <2>2. TypeOK'
    BY <1>0, <1>14, <2>1, <2>7 DEF Finish, TypeOK
  <2>3. HandInv'
    BY <1>0, <1>14 DEF Finish, TypeOK, HandInv
  <2>4. ReadyInv'
    BY <1>0, <1>14 DEF Finish, TypeOK, ReadyInv
  <2> QED BY <2>2, <2>3, <2>4, <2>7 DEF CountInv, InflightExact, Busy
<1>15. ASSUME NEW y \in SyncProcs, SyncCall(y) \/ Sync(y) PROVE CountInv'
  <2>1. /\ UNCHANGED <<logVars, ch, dropped, workVars, finished, tried, got, owed,
                       closed, cancelled, cpc, open>>
        /\ \E to \in {"poll", "polled", "late", "flush", "done"} :
             spc' = [spc EXCEPT ![y] = to]
        /\ due' = due \/ due' = [due EXCEPT ![y] = InCh \cup InHand]
    BY <1>15 DEF SyncCall, Sync, PollQueue, PollInflight, SyncDeadline, SyncFlush, MoveSync
  <2>2. InCh \cup InHand \subseteq Signals
    <3>1. \A i \in DOMAIN ch : ch[i] \in Signals
      BY <1>0, ElementOfSeq, LenProperties DEF TypeOK
    <3> QED BY <1>0, <3>1 DEF InCh, InHand, TypeOK
  <2>3. TypeOK'
    BY <1>0, <2>1, <2>2 DEF TypeOK
  <2>4. HandInv' /\ ReadyInv' /\ InflightExact'
    BY <1>0, <2>1 DEF HandInv, ReadyInv, InflightExact
  <2> QED BY <2>3, <2>4 DEF CountInv
<1>16. CASE CloseCall \/ Close \/ CancelParent
  <2>1. Queued \subseteq Signals
    <3>1. \A i \in DOMAIN ch : ch[i] \in Signals
      BY <1>0, ElementOfSeq, LenProperties DEF TypeOK
    <3> QED BY <1>0, <3>1 DEF Queued, InCh, InHand, TypeOK
  <2>2. /\ UNCHANGED <<logVars, ch, dropped, workVars, finished, tried, got, due>>
        /\ owed' \in {owed, Queued}
        /\ closed' \in {closed, TRUE} /\ cancelled' \in {cancelled, TRUE}
        /\ cpc' \in {cpc, "cancel", "wait", "sync", "done"}
        /\ spc' = spc \/ spc' = [spc EXCEPT ![Closer] = "poll"]
        /\ open' \in {open, FALSE}
    <3>1. CASE CloseCall
      BY <3>1 DEF CloseCall
    <3>2. CASE CloseCancel
      BY <3>2 DEF CloseCancel, EndContext
    <3>3. CASE CloseWait
      BY <3>3 DEF CloseWait
    <3>4. CASE CloseTransports
      BY <3>4 DEF CloseTransports
    <3>5. CASE CancelParent
      BY <3>5 DEF CancelParent, EndContext
    <3> QED BY <1>16, <3>1, <3>2, <3>3, <3>4, <3>5 DEF Close
  <2>5. spc' \in [SyncProcs -> {"idle", "poll", "polled", "late", "flush", "done"}]
    BY <1>0, <2>2 DEF TypeOK, SyncProcs
  <2>6. /\ owed' \subseteq Signals /\ closed' \in BOOLEAN /\ cancelled' \in BOOLEAN
        /\ open' \in BOOLEAN /\ cpc' \in {"idle", "cancel", "wait", "sync", "done"}
    BY <1>0, <2>1, <2>2 DEF TypeOK
  <2>3. TypeOK'
    BY <1>0, <2>2, <2>5, <2>6 DEF TypeOK
  <2>4. HandInv' /\ ReadyInv' /\ InflightExact'
    BY <1>0, <2>2 DEF HandInv, ReadyInv, InflightExact
  <2> QED BY <2>3, <2>4 DEF CountInv
<1>17. CASE UNCHANGED vars
  BY <1>0, <1>17 DEF vars, CountInv, TypeOK, HandInv, ReadyInv, InflightExact
<1> QED
  BY <1>1, <1>2, <1>3, <1>4, <1>5, <1>6, <1>7, <1>8, <1>9, <1>10, <1>12, <1>13, <1>14,
     <1>15, <1>16, <1>17 DEF Next, Worker, SyncProcs

\* The counter and the types (agent.go:76-347).
LEMMA CountInvariant == Spec => []CountInv
BY InitCountInv, NextCount, PTL DEF Spec

-----------------------------------------------------------------------------
(* Close and the transports *)

LEMMA NextStop == CountInv /\ StopInv /\ [Next]_vars => StopInv'
<1> SUFFICES ASSUME CountInv, StopInv, [Next]_vars PROVE StopInv'
  OBVIOUS
<1> USE DEF logVars, workVars, histVars, stopVars, StopInv
<1>0. wpc \in [Workers -> {"off", "recv", "drain", "got", "send", "exited"}]
  BY DEF CountInv, TypeOK
<1>1. CASE Start
  BY <1>1 DEF Start
<1>2. ASSUME NEW p \in Loggers, CheckClosed(p) \/ Put(p) PROVE StopInv'
  BY <1>2 DEF CheckClosed, Put
<1>3. CASE Collect \/ CollectExit
  BY <1>3 DEF Collect, CollectExit
<1>4. ASSUME NEW w \in Workers, Take(w) PROVE StopInv'
  BY <1>0, <1>4 DEF Take
<1>5. ASSUME NEW w \in Workers, SeeDone(w) PROVE StopInv'
  BY <1>0, <1>5 DEF SeeDone
<1>6. ASSUME NEW w \in Workers, DrainExpire(w) PROVE StopInv'
  BY <1>6 DEF DrainExpire
<1>7. ASSUME NEW w \in Workers, DrainEmpty(w) PROVE StopInv'
  BY <1>0, <1>7 DEF DrainEmpty
<1>8. ASSUME NEW w \in Workers, Begin(w) PROVE StopInv'
  BY <1>0, <1>8 DEF Begin
<1>9. ASSUME NEW w \in Workers, NEW ok \in BOOLEAN, SendTarget(w, ok) \/ Fallback(w, ok)
      PROVE  StopInv'
  BY <1>9 DEF SendTarget, Fallback, Attempt
<1>10. ASSUME NEW w \in Workers, Finish(w) PROVE StopInv'
  BY <1>0, <1>10 DEF Finish
<1>11. ASSUME NEW y \in SyncProcs, SyncCall(y) \/ Sync(y) PROVE StopInv'
  BY <1>11 DEF SyncCall, Sync, PollQueue, PollInflight, SyncDeadline, SyncFlush, MoveSync
<1>12. CASE CloseCall
  BY <1>12 DEF CloseCall
<1>13. CASE CloseCancel
  BY <1>13 DEF CloseCancel, EndContext
<1>14. CASE CloseWait
  BY <1>14 DEF CloseWait
<1>15. CASE CloseTransports
  BY <1>15 DEF CloseTransports
<1>16. CASE CancelParent
  BY <1>16 DEF CancelParent, EndContext
<1>17. CASE UNCHANGED vars
  BY <1>17 DEF vars
<1> QED
  BY <1>1, <1>2, <1>3, <1>4, <1>5, <1>6, <1>7, <1>8, <1>9, <1>10, <1>11, <1>12, <1>13,
     <1>14, <1>15, <1>16, <1>17 DEF Next, Worker, Close, SyncProcs

-----------------------------------------------------------------------------
(* What is tried for a reliable signal *)

TriedInv == ReliableInv /\ ReliableTriesAll

\* A worker on its way through the transports: what one call of Send adds to
\* tried and got, the other workers' signals included.
LEMMA AttemptTries ==
  ASSUME TypeOK, HandInv, NEW w \in Workers, NEW t \in Transports, NEW ok \in BOOLEAN,
         Attempt(w, t, ok)
  PROVE  /\ sig[w] \in Signals
         /\ \A s \in Signals : tried[s] \subseteq tried'[s] /\ got[s] \subseteq got'[s]
         /\ t \in tried'[sig[w]]
         /\ ok => got'[sig[w]] # {}
         /\ tried' \in [Signals -> SUBSET Transports]
         /\ wpc' = wpc /\ sig' = sig /\ finished' = finished
<1>1. sig[w] \in Signals
  BY DEF Attempt, TypeOK, HandInv
<1>2. PICK reached \in {ok, TRUE} :
        got' = [got EXCEPT ![sig[w]] = IF reached THEN @ \cup {t} ELSE @]
  BY DEF Attempt
<1>3. tried' = [tried EXCEPT ![sig[w]] = @ \cup {t}]
  BY DEF Attempt
<1>4. \A s \in Signals : got[s] \subseteq got'[s]
  BY <1>1, <1>2 DEF TypeOK
<1>5. ok => got'[sig[w]] # {}
  BY <1>1, <1>2 DEF TypeOK
<1>6. /\ \A s \in Signals : tried[s] \subseteq tried'[s]
      /\ t \in tried'[sig[w]]
      /\ tried' \in [Signals -> SUBSET Transports]
  BY <1>1, <1>3 DEF TypeOK
<1>7. wpc' = wpc /\ sig' = sig /\ finished' = finished
  BY DEF Attempt
<1> QED BY <1>1, <1>4, <1>5, <1>6, <1>7

\* Such a call preserves the invariant when it does for the worker itself.
LEMMA AttemptKeepsTried ==
  ASSUME TypeOK, HandInv, TriedInv,
         NEW w \in Workers, NEW t \in Transports, NEW ok \in BOOLEAN,
         Attempt(w, t, ok),
         \A v \in Workers \ {w} : rest'[v] = rest[v] /\ fb'[v] = fb[v],
         sig[w] \in Reliable \ Skipped /\ got'[sig[w]] = {} => Accounted(w)'
  PROVE  TriedInv'
<1>0. /\ \A s \in Signals : tried[s] \subseteq tried'[s] /\ got[s] \subseteq got'[s]
      /\ tried' \in [Signals -> SUBSET Transports]
      /\ wpc' = wpc /\ sig' = sig /\ finished' = finished
  BY AttemptTries
<1>1. ReliableTriesAll'
  <2> SUFFICES ASSUME NEW s \in Reliable \ Skipped,
                      s \in finished, got'[s] = {}, Targets[s] # <<>>
               PROVE  tried'[s] = Transports
    BY <1>0 DEF ReliableTriesAll
  <2>1. s \in Signals /\ got[s] = {}
    BY <1>0, AgentAssumption
  <2> QED BY <1>0, <2>1 DEF TriedInv, ReliableTriesAll
<1>2. ReliableInv'
  <2> SUFFICES ASSUME NEW v \in Workers, wpc[v] = "send",
                      sig[v] \in Reliable \ Skipped, got'[sig[v]] = {}
               PROVE  Untouched(v)' \/ Accounted(v)'
    BY <1>0 DEF ReliableInv
  <2>1. CASE v = w
    BY <2>1
  <2>2. CASE v # w
    <3>1. sig[v] \in Signals /\ got[sig[v]] = {}
      BY <1>0, AgentAssumption
    <3>2. Untouched(v) \/ Accounted(v)
      BY <3>1 DEF TriedInv, ReliableInv
    <3>3. rest'[v] = rest[v] /\ fb'[v] = fb[v]
      BY <2>2
    <3>4. Untouched(v) => Untouched(v)'
      BY <1>0, <3>3 DEF Untouched
    <3>5. Accounted(v) => Accounted(v)'
      BY <1>0, <3>1, <3>3 DEF Accounted
    <3> QED BY <3>2, <3>4, <3>5
  <2> QED BY <2>1, <2>2
<1> QED BY <1>1, <1>2 DEF TriedInv

LEMMA InitTried == Init => TriedInv
BY DEF Init, TriedInv, ReliableInv, ReliableTriesAll

LEMMA NextTried == CountInv /\ TriedInv /\ [Next]_vars => TriedInv'
<1> SUFFICES ASSUME CountInv, TriedInv, [Next]_vars PROVE TriedInv'
  OBVIOUS
<1> USE DEF logVars, workVars, histVars, stopVars
<1>0. TypeOK /\ HandInv
  BY DEF CountInv
<1>1. ASSUME UNCHANGED <<wpc, sig, rest, fb, tried, got, finished>> PROVE TriedInv'
  BY <1>1 DEF TriedInv, ReliableInv, ReliableTriesAll, Untouched, Accounted
<1>2. CASE Start
  BY <1>0, <1>2 DEF Start, TypeOK, TriedInv, ReliableInv, ReliableTriesAll, Untouched, Accounted
<1>3. ASSUME NEW w \in Workers,
             wpc' = [wpc EXCEPT ![w] = wpc'[w]], wpc'[w] # "send",
             sig' = [sig EXCEPT ![w] = sig'[w]],
             UNCHANGED <<rest, fb, tried, got, finished>>
      PROVE  TriedInv'
  <2>1. ReliableTriesAll'
    BY <1>3 DEF TriedInv, ReliableTriesAll
  <2>2. ReliableInv'
    <3> SUFFICES ASSUME NEW v \in Workers, wpc'[v] = "send",
                        sig'[v] \in Reliable \ Skipped, got[sig'[v]] = {}
                 PROVE  Untouched(v)' \/ Accounted(v)'
      BY <1>3 DEF ReliableInv
    <3>1. v # w /\ wpc[v] = "send" /\ sig'[v] = sig[v]
      BY <1>0, <1>3 DEF TypeOK
    <3> QED BY <1>3, <3>1 DEF TriedInv, ReliableInv, Untouched, Accounted
  <2> QED BY <2>1, <2>2 DEF TriedInv
<1>4. ASSUME NEW w \in Workers, Take(w) \/ SeeDone(w) \/ DrainEmpty(w) PROVE TriedInv'
  <2>1. CASE Take(w)
    BY <1>0, <1>3, <2>1 DEF Take, TypeOK
  <2>2. CASE SeeDone(w)
    BY <1>0, <1>3, <2>2 DEF SeeDone, TypeOK
  <2>3. CASE DrainEmpty(w)
    BY <1>0, <1>3, <2>3 DEF DrainEmpty, TypeOK
  <2> QED BY <1>4, <2>1, <2>2, <2>3
<1>5. ASSUME NEW w \in Workers, Begin(w) PROVE TriedInv'
  <2>1. ReliableTriesAll'
    BY <1>5 DEF Begin, TriedInv, ReliableTriesAll
  <2> SUFFICES ASSUME NEW v \in Workers, wpc'[v] = "send",
                      sig[v] \in Reliable \ Skipped, got[sig[v]] = {}
               PROVE  Untouched(v)' \/ Accounted(v)'
    BY <1>5, <2>1 DEF Begin, TriedInv, ReliableInv
  <2>2. CASE v = w
    <3>1. rest'[w] = Targets[sig[w]] /\ fb'[w] = <<>> /\ sig' = sig
      BY <1>0, <1>5, <2>2 DEF Begin, TypeOK, HandInv
    <3> QED BY <2>2, <3>1 DEF Untouched
  <2>3. CASE v # w
    <3>1. /\ wpc[v] = "send" /\ rest'[v] = rest[v]
          /\ UNCHANGED <<fb, sig, tried>>
      BY <1>0, <1>5, <2>3 DEF Begin, TypeOK
    <3> QED BY <3>1 DEF TriedInv, ReliableInv, Untouched, Accounted
  <2> QED BY <2>2, <2>3
<1>6. ASSUME NEW w \in Workers, NEW ok \in BOOLEAN, SendTarget(w, ok) PROVE TriedInv'
  <2> DEFINE t == Head(rest[w])
  <2>1. /\ rest[w] \in Seq(Transports) /\ rest[w] # <<>>
        /\ rest \in [Workers -> Seq(Transports)] /\ fb \in [Workers -> Seq(Transports)]
    BY <1>0, <1>6 DEF SendTarget, TypeOK
  <2>2. t \in Transports
    BY <2>1, TailTypes
  <2>3. Attempt(w, t, ok)
    BY <1>6 DEF SendTarget
  <2>4. \A v \in Workers \ {w} : rest'[v] = rest[v] /\ fb'[v] = fb[v]
    BY <1>6, <2>1 DEF SendTarget
  <2>5. sig[w] \in Reliable \ Skipped /\ got'[sig[w]] = {} => Accounted(w)'
    <3> SUFFICES ASSUME sig[w] \in Reliable \ Skipped, got'[sig[w]] = {}
                 PROVE  Accounted(w)'
      OBVIOUS
    <3>1. ~ok /\ t \in tried'[sig[w]] /\ sig' = sig
      BY <1>0, <2>2, <2>3, AttemptTries
    <3>2. fb'[w] = Others(t)
      BY <1>6, <2>1, <3>1 DEF SendTarget
    <3>3. \A u \in Transports : u = t \/ \E i \in DOMAIN Others(t) : Others(t)[i] = u
      BY <2>2, OthersAll
    <3> QED BY <3>1, <3>2, <3>3 DEF Accounted
  <2> QED BY <1>0, <2>2, <2>3, <2>4, <2>5, AttemptKeepsTried
<1>7. ASSUME NEW w \in Workers, NEW ok \in BOOLEAN, Fallback(w, ok) PROVE TriedInv'
  <2> DEFINE t == Head(fb[w])
  <2>1. /\ fb[w] \in Seq(Transports) /\ fb[w] # <<>>
        /\ rest \in [Workers -> Seq(Transports)] /\ fb \in [Workers -> Seq(Transports)]
    BY <1>0, <1>7 DEF Fallback, TypeOK
  <2>2. t \in Transports
    BY <2>1, TailTypes
  <2>3. Attempt(w, t, ok)
    BY <1>7 DEF Fallback
  <2>4. \A v \in Workers \ {w} : rest'[v] = rest[v] /\ fb'[v] = fb[v]
    BY <1>7, <2>1 DEF Fallback
  <2>5. sig[w] \in Reliable \ Skipped /\ got'[sig[w]] = {} => Accounted(w)'
    <3> SUFFICES ASSUME sig[w] \in Reliable \ Skipped, got'[sig[w]] = {}
                 PROVE  Accounted(w)'
      OBVIOUS
    <3>1. /\ ~ok /\ t \in tried'[sig[w]] /\ sig' = sig /\ sig[w] \in Signals
          /\ tried[sig[w]] \subseteq tried'[sig[w]] /\ got[sig[w]] = {}
      BY <1>0, <2>2, <2>3, AttemptTries
    <3>2. fb'[w] = Tail(fb[w]) /\ wpc[w] = "send"
      BY <1>7, <2>1, <3>1 DEF Fallback, Attempt
    <3>3. Accounted(w)
      BY <1>7, <3>1, <3>2 DEF TriedInv, ReliableInv, Untouched, Fallback
    <3>4. \A i \in DOMAIN fb[w] : fb[w][i] = t \/ \E j \in DOMAIN Tail(fb[w]) : Tail(fb[w])[j] = fb[w][i]
      BY <2>1, TailCovers
    <3> QED BY <3>1, <3>2, <3>3, <3>4 DEF Accounted
  <2> QED BY <1>0, <2>2, <2>3, <2>4, <2>5, AttemptKeepsTried
<1>8. ASSUME NEW w \in Workers, Finish(w) PROVE TriedInv'
  <2>1. ReliableInv'
    <3> SUFFICES ASSUME NEW v \in Workers, wpc'[v] = "send",
                        sig'[v] \in Reliable \ Skipped, got[sig'[v]] = {}
                 PROVE  Untouched(v)' \/ Accounted(v)'
      BY <1>8 DEF Finish, ReliableInv
    <3>1. wpc[v] = "send" /\ sig'[v] = sig[v]
      BY <1>0, <1>8 DEF Finish, TypeOK
    <3>2. UNCHANGED <<rest, fb, tried>>
      BY <1>8 DEF Finish
    <3> QED BY <3>1, <3>2 DEF TriedInv, ReliableInv, Untouched, Accounted
  <2>2. ReliableTriesAll'
    <3> SUFFICES ASSUME NEW s \in Reliable \ Skipped,
                        s \in finished', got[s] = {}, Targets[s] # <<>>
                 PROVE  tried[s] = Transports
      BY <1>8 DEF Finish, ReliableTriesAll
    <3>1. CASE s \in finished
      BY <3>1 DEF TriedInv, ReliableTriesAll
    <3>2. CASE s = sig[w]
      <4>1. ~Untouched(w)
        BY <1>8, <3>2 DEF Finish, Untouched
      <4>2. Accounted(w)
        BY <1>8, <3>2, <4>1 DEF Finish, TriedInv, ReliableInv
      <4>3. DOMAIN fb[w] = {}
        BY <1>8 DEF Finish
      <4>4. s \in Signals /\ tried[s] \subseteq Transports
        BY <1>0, AgentAssumption DEF TypeOK
      <4> QED BY <3>2, <4>2, <4>3, <4>4 DEF Accounted
    <3> QED BY <1>8, <3>1, <3>2 DEF Finish
  <2> QED BY <2>1, <2>2 DEF TriedInv
<1>9. ASSUME NEW p \in Loggers, CheckClosed(p) \/ Put(p) PROVE TriedInv'
  BY <1>1, <1>9 DEF CheckClosed, Put
<1>10. CASE Collect \/ CollectExit
  BY <1>1, <1>10 DEF Collect, CollectExit
<1>11. ASSUME NEW w \in Workers, DrainExpire(w) PROVE TriedInv'
  BY <1>1, <1>11 DEF DrainExpire
<1>12. ASSUME NEW y \in SyncProcs, SyncCall(y) \/ Sync(y) PROVE TriedInv'
  BY <1>1, <1>12 DEF SyncCall, Sync, PollQueue, PollInflight, SyncDeadline, SyncFlush, MoveSync
<1>13. CASE CloseCall \/ Close \/ CancelParent
  BY <1>1, <1>13 DEF CloseCall, Close, CloseCancel, CloseWait, CloseTransports, CancelParent,
                     EndContext
<1>14. CASE UNCHANGED vars
  BY <1>1, <1>14 DEF vars
<1> QED
  BY <1>2, <1>4, <1>5, <1>6, <1>7, <1>8, <1>9, <1>10, <1>11, <1>12, <1>13,
     <1>14 DEF Next, Worker, SyncProcs

-----------------------------------------------------------------------------
(* What is owed when the context of the workers ends *)

LEMMA InitDrain == Init => DrainInv
BY DEF Init, DrainInv

LEMMA NextDrain == CountInv /\ DrainInv /\ [Next]_vars => DrainInv'
<1> SUFFICES ASSUME CountInv, DrainInv, [Next]_vars PROVE DrainInv'
  OBVIOUS
<1> USE DEF logVars, workVars, histVars, stopVars
<1>0. TypeOK /\ HandInv /\ NoSignal \notin Signals
  BY AgentAssumption DEF CountInv
<1>a. wpc \in [Workers -> {"off", "recv", "drain", "got", "send", "exited"}]
      /\ mode \in [Workers -> {"run", "drain"}] /\ sig \in [Workers -> Signals \cup {NoSignal}]
  BY <1>0 DEF TypeOK
\* Steps that leave the queue and the workers alone.
<1>1. ASSUME UNCHANGED <<wpc, mode, sig, finished, owed, cancelled>>, InCh \subseteq InCh'
      PROVE  DrainInv'
  <2>1. InHand' = InHand
    BY <1>1 DEF InHand
  <2> QED BY <1>1, <2>1 DEF DrainInv, Queued
<1>2. CASE Start
  <2>1. InCh' = InCh /\ InHand' = InHand
    BY <1>2 DEF Start, InCh, InHand
  <2> QED BY <1>2, <2>1 DEF Start, DrainInv, Queued
<1>3. ASSUME NEW p \in Loggers, Put(p) PROVE DrainInv'
  <2>1. InCh \subseteq InCh'
    <3>1. Head(todo[p]) \in Signals /\ ch \in Seq(Signals)
      BY <1>0, <1>3, TailTypes DEF Put, TypeOK, ReadyInv, CountInv
    <3>2. CASE ch' = Append(ch, Head(todo[p]))
      BY <3>1, <3>2, AppendElements DEF InCh
    <3>3. CASE ch' = ch
      BY <3>3 DEF InCh
    <3> QED BY <1>3, <3>2, <3>3 DEF Put
  <2> QED BY <1>1, <1>3, <2>1 DEF Put
<1>4. ASSUME NEW p \in Loggers, CheckClosed(p) PROVE DrainInv'
  BY <1>1, <1>4 DEF CheckClosed, InCh
<1>5. CASE Collect \/ CollectExit
  BY <1>1, <1>5 DEF Collect, CollectExit, InCh
<1>6. ASSUME NEW w \in Workers, Take(w) PROVE DrainInv'
  <2>1. InCh \subseteq InCh' \cup {Head(ch)}
    <3>0. ch \in Seq(Signals) /\ ch # <<>>
      BY <1>0, <1>6 DEF Take, TypeOK
    <3>1. \A i \in DOMAIN ch : ch[i] = Head(ch) \/ \E j \in DOMAIN Tail(ch) : Tail(ch)[j] = ch[i]
      BY <3>0, TailCovers
    <3> QED BY <1>6, <3>1 DEF Take, InCh
  <2>2. Head(ch) \in Signals
    BY <1>0, <1>6, TailTypes DEF Take, TypeOK
  <2>3. sig[w] = NoSignal /\ sig' = [sig EXCEPT ![w] = Head(ch)]
    BY <1>0, <1>6 DEF Take, HandInv
  <2>4. InHand' = InHand \cup {Head(ch)}
    BY <1>0, <1>a, <2>2, <2>3 DEF InHand
  <2>5. \A v \in Workers : wpc'[v] \in {"drain", "exited"} => wpc'[v] = wpc[v]
    BY <1>a, <1>6 DEF Take
  <2> QED BY <1>6, <2>1, <2>4, <2>5 DEF Take, DrainInv, Queued
<1>7. ASSUME NEW w \in Workers, SeeDone(w) PROVE DrainInv'
  <2>1. InCh' = InCh /\ InHand' = InHand
    BY <1>7 DEF SeeDone, InCh, InHand
  <2>2. \A v \in Workers : wpc'[v] = "exited" => wpc[v] = "exited"
    BY <1>a, <1>7 DEF SeeDone
  <2> QED BY <1>7, <2>1, <2>2 DEF SeeDone, DrainInv, Queued
<1>8. ASSUME NEW w \in Workers, DrainExpire(w) PROVE DrainInv'
  BY <1>1, <1>8 DEF DrainExpire, InCh
<1>9. ASSUME NEW w \in Workers, DrainEmpty(w) PROVE DrainInv'
  <2>1. InCh = {} /\ InCh' = InCh /\ InHand' = InHand
    BY <1>9 DEF DrainEmpty, InCh, InHand
  <2>2. cancelled /\ owed \subseteq InHand \cup finished
    BY <1>9, <2>1 DEF DrainEmpty, DrainInv, Queued
  <2> QED BY <1>9, <2>1, <2>2 DEF DrainEmpty, DrainInv, Queued
<1>10. ASSUME NEW w \in Workers, Begin(w) PROVE DrainInv'
  <2>1. InCh' = InCh /\ InHand' = InHand
    BY <1>10 DEF Begin, InCh, InHand
  <2>2. \A v \in Workers : wpc'[v] \in {"drain", "exited"} => wpc'[v] = wpc[v]
    BY <1>a, <1>10 DEF Begin
  <2> QED BY <1>10, <2>1, <2>2 DEF Begin, DrainInv, Queued
<1>11. ASSUME NEW w \in Workers, NEW ok \in BOOLEAN, SendTarget(w, ok) \/ Fallback(w, ok)
       PROVE  DrainInv'
  BY <1>1, <1>11 DEF SendTarget, Fallback, Attempt, InCh
<1>12. ASSUME NEW w \in Workers, Finish(w) PROVE DrainInv'
  <2>1. InCh' = InCh
    BY <1>12 DEF Finish, InCh
  <2>2. InHand \cup finished \subseteq InHand' \cup finished'
    BY <1>a, <1>12 DEF Finish, InHand
  <2>3. \A v \in Workers : wpc'[v] = "exited" => wpc[v] = "exited"
    BY <1>a, <1>12 DEF Finish
  <2>4. \A v \in Workers : wpc'[v] = "drain" => wpc[v] = "drain" \/ mode[v] = "drain"
    BY <1>a, <1>12 DEF Finish
  <2>5. UNCHANGED <<mode, owed, cancelled>>
    BY <1>12 DEF Finish
  <2> QED BY <2>1, <2>2, <2>3, <2>4, <2>5 DEF DrainInv, Queued
<1>13. ASSUME NEW y \in SyncProcs, SyncCall(y) \/ Sync(y) PROVE DrainInv'
  BY <1>1, <1>13 DEF SyncCall, Sync, PollQueue, PollInflight, SyncDeadline, SyncFlush, MoveSync,
                     InCh
<1>14. ASSUME EndContext PROVE DrainInv'
  <2>1. InCh' = InCh /\ InHand' = InHand
    BY <1>14 DEF EndContext, InCh, InHand
  <2> QED BY <1>14, <2>1 DEF EndContext, DrainInv, Queued
<1>15. CASE CloseCall \/ Close \/ CancelParent
  <2>1. CASE CloseCancel
    BY <1>1, <1>14, <2>1 DEF CloseCancel, InCh
  <2>2. CASE CancelParent
    BY <1>14, <2>2 DEF CancelParent
  <2>3. CASE CloseCall \/ CloseWait \/ CloseTransports
    BY <1>1, <2>3 DEF CloseCall, CloseWait, CloseTransports, InCh
  <2> QED BY <1>15, <2>1, <2>2, <2>3 DEF Close
<1>16. CASE UNCHANGED vars
  BY <1>1, <1>16 DEF vars, InCh
<1> QED
  BY <1>2, <1>3, <1>4, <1>5, <1>6, <1>7, <1>8, <1>9, <1>10, <1>11, <1>12, <1>13,
     <1>15, <1>16 DEF Next, Worker, SyncProcs

-----------------------------------------------------------------------------
(* What Sync has seen leave the queue does not come back *)

QueueInv == FreshInv /\ NewInv /\ SyncInv

LEMMA InitQueue == Init => QueueInv
<1> SUFFICES ASSUME Init PROVE QueueInv
  OBVIOUS
<1>1. \A p \in Loggers : todo[p] = IF p = Collector THEN <<>> ELSE Load[p]
  BY DEF Init
<1>2. \A p \in Loggers : DOMAIN todo[p] # {} => p \in Apps /\ todo[p] = Load[p]
  BY <1>1 DEF Loggers
<1>3. FreshInv
  BY <1>2, LoggedOnce DEF Init, FreshInv
<1>4. \A s : ~Past(s)
  BY DEF Init, Past, Queued, InCh, InHand
<1>5. NewInv
  BY <1>4 DEF NewInv
<1>6. SyncInv
  BY DEF Init, SyncInv
<1> QED BY <1>3, <1>5, <1>6 DEF QueueInv

\* A logger that has dealt with its first signal.
LEMMA FreshTail ==
  ASSUME TypeOK, FreshInv, NEW p \in Loggers, todo[p] # <<>>,
         todo' = [todo EXCEPT ![p] = Tail(@)], rounds' = rounds
  PROVE  /\ FreshInv'
         /\ \A q \in Loggers : \A i \in DOMAIN todo'[q] :
              /\ todo'[q][i] # Head(todo[p])
              /\ \E j \in DOMAIN todo[q] : todo[q][j] = todo'[q][i]
         /\ \A k \in DOMAIN rounds : \A i \in DOMAIN rounds[k] : rounds[k][i] # Head(todo[p])
         /\ 1 \in DOMAIN todo[p] /\ Head(todo[p]) = todo[p][1]
<1>1. todo[p] \in Seq(Signals)
  BY DEF TypeOK
<1>2. /\ \A i \in DOMAIN Tail(todo[p]) :
           i \in Nat \ {0} /\ i + 1 \in DOMAIN todo[p] /\ Tail(todo[p])[i] = todo[p][i + 1]
      /\ 1 \in DOMAIN todo[p] /\ Head(todo[p]) = todo[p][1]
  <2>1. DOMAIN Tail(todo[p]) \subseteq Nat \ {0}
    BY <1>1, TailTypes, LenProperties
  <2> QED BY <1>1, <2>1, TailElements
<1>3. /\ todo'[p] = Tail(todo[p])
      /\ \A q \in Loggers : q # p => todo'[q] = todo[q]
  BY DEF TypeOK
<1> DEFINE from(q, i) == IF q = p THEN i + 1 ELSE i
\* Where the elements that remain were.
<1>4. \A q \in Loggers : \A i \in DOMAIN todo'[q] :
        from(q, i) \in DOMAIN todo[q] /\ todo'[q][i] = todo[q][from(q, i)]
  <2> SUFFICES ASSUME NEW q \in Loggers, NEW i \in DOMAIN todo'[q]
               PROVE  from(q, i) \in DOMAIN todo[q] /\ todo'[q][i] = todo[q][from(q, i)]
    OBVIOUS
  <2>1. CASE q = p
    BY <1>2, <1>3, <2>1
  <2>2. CASE q # p
    BY <1>3, <2>2
  <2> QED BY <2>1, <2>2
<1>5. \A q \in Loggers : \A i, j \in DOMAIN todo'[q] : from(q, i) = from(q, j) => i = j
  BY <1>2, <1>3
<1>6. \A i \in DOMAIN todo'[p] : from(p, i) # 1
  BY <1>2, <1>3
<1> HIDE DEF from
<1>7. FreshInv'
  <2>1. ASSUME NEW q \in Loggers, NEW r \in Loggers,
               NEW i \in DOMAIN todo'[q], NEW j \in DOMAIN todo'[r], todo'[q][i] = todo'[r][j]
        PROVE  q = r /\ i = j
    <3>1. q = r /\ from(q, i) = from(r, j)
      BY <1>4, <2>1 DEF FreshInv
    <3> QED BY <1>5, <3>1
  <2>2. ASSUME NEW q \in Loggers, NEW k \in DOMAIN rounds,
               NEW i \in DOMAIN todo'[q], NEW j \in DOMAIN rounds[k]
        PROVE  todo'[q][i] # rounds[k][j]
    BY <1>4 DEF FreshInv
  <2> QED BY <2>1, <2>2 DEF FreshInv
<1>8. ASSUME NEW q \in Loggers, NEW i \in DOMAIN todo'[q] PROVE todo'[q][i] # Head(todo[p])
  BY <1>2, <1>4, <1>6 DEF FreshInv
<1> QED BY <1>2, <1>4, <1>7, <1>8 DEF FreshInv

\* A collection that becomes what the collector has to log.
LEMMA FreshCollect ==
  ASSUME TypeOK, FreshInv, rounds # <<>>,
         todo' = [todo EXCEPT ![Collector] = Head(rounds)], rounds' = Tail(rounds),
         todo[Collector] = <<>>
  PROVE  /\ FreshInv'
         /\ \A q \in Loggers : \A i \in DOMAIN todo'[q] :
              \/ \E j \in DOMAIN todo[q] : todo[q][j] = todo'[q][i]
              \/ \E k \in DOMAIN rounds : \E j \in DOMAIN rounds[k] : rounds[k][j] = todo'[q][i]
         /\ \A k \in DOMAIN rounds' : \E l \in DOMAIN rounds : rounds'[k] = rounds[l]
<1>1. rounds \in Seq(Seq(Signals))
  BY DEF TypeOK
<1>2. /\ \A k \in DOMAIN rounds' :
           k \in Nat \ {0} /\ k + 1 \in DOMAIN rounds /\ rounds'[k] = rounds[k + 1]
      /\ 1 \in DOMAIN rounds /\ Head(rounds) = rounds[1]
  <2>1. DOMAIN Tail(rounds) \subseteq Nat \ {0}
    BY <1>1, TailTypes, LenProperties
  <2> QED BY <1>1, <2>1, TailElements
<1>3. /\ todo'[Collector] = rounds[1]
      /\ \A q \in Loggers : q # Collector => todo'[q] = todo[q]
  BY <1>2 DEF TypeOK, Loggers
<1>4. FreshInv'
  <2>1. ASSUME NEW q \in Loggers, NEW r \in Loggers,
               NEW i \in DOMAIN todo'[q], NEW j \in DOMAIN todo'[r], todo'[q][i] = todo'[r][j]
        PROVE  q = r /\ i = j
    <3>1. CASE q = Collector /\ r = Collector
      BY <1>2, <1>3, <2>1, <3>1 DEF FreshInv
    <3>2. CASE q = Collector /\ r # Collector
      BY <1>2, <1>3, <2>1, <3>2 DEF FreshInv
    <3>3. CASE q # Collector /\ r = Collector
      BY <1>2, <1>3, <2>1, <3>3 DEF FreshInv
    <3>4. CASE q # Collector /\ r # Collector
      BY <1>3, <2>1, <3>4 DEF FreshInv
    <3> QED BY <3>1, <3>2, <3>3, <3>4
  <2>2. ASSUME NEW k \in DOMAIN rounds', NEW l \in DOMAIN rounds',
               NEW i \in DOMAIN rounds'[k], NEW j \in DOMAIN rounds'[l],
               rounds'[k][i] = rounds'[l][j]
        PROVE  k = l /\ i = j
    <3>1. k + 1 = l + 1 /\ i = j
      BY <1>2, <2>2 DEF FreshInv
    <3> QED BY <1>2, <3>1
  <2>3. ASSUME NEW q \in Loggers, NEW k \in DOMAIN rounds',
               NEW i \in DOMAIN todo'[q], NEW j \in DOMAIN rounds'[k],
               todo'[q][i] = rounds'[k][j]
        PROVE  FALSE
    <3>1. k + 1 # 1 /\ k + 1 \in DOMAIN rounds /\ rounds'[k] = rounds[k + 1]
      BY <1>2
    <3>2. CASE q = Collector
      BY <1>2, <1>3, <2>3, <3>1, <3>2 DEF FreshInv
    <3>3. CASE q # Collector
      BY <1>3, <2>3, <3>1, <3>3 DEF FreshInv
    <3> QED BY <3>2, <3>3
  <2> QED BY <2>1, <2>2, <2>3 DEF FreshInv
<1>5. ASSUME NEW q \in Loggers, NEW i \in DOMAIN todo'[q]
      PROVE  \/ \E j \in DOMAIN todo[q] : todo[q][j] = todo'[q][i]
             \/ \E k \in DOMAIN rounds : \E j \in DOMAIN rounds[k] : rounds[k][j] = todo'[q][i]
  BY <1>2, <1>3
<1> QED BY <1>2, <1>4, <1>5

\* A step that logs and queues nothing.
LEMMA QueueKept ==
  ASSUME QueueInv, todo' = todo, rounds' = rounds, Queued' \subseteq Queued,
         \A y \in SyncProcs : due'[y] \subseteq due[y] \cup Queued
  PROVE  FreshInv' /\ NewInv'
<1>1. \A s : Past(s)' => Past(s)
  BY DEF Past
<1>2. FreshInv'
  BY DEF QueueInv, FreshInv
<1>3. NewInv'
  BY <1>1 DEF QueueInv, NewInv
<1> QED BY <1>2, <1>3

LEMMA NextQueue == CountInv /\ QueueInv /\ [Next]_vars => QueueInv'
<1> SUFFICES ASSUME CountInv, QueueInv, [Next]_vars PROVE QueueInv'
  OBVIOUS
<1> USE DEF logVars, workVars, histVars, stopVars
<1>0. /\ TypeOK /\ HandInv /\ ReadyInv /\ FreshInv /\ NewInv /\ SyncInv
      /\ NoSignal \notin Signals
  BY AgentAssumption DEF CountInv, QueueInv
<1>a. wpc \in [Workers -> {"off", "recv", "drain", "got", "send", "exited"}]
      /\ sig \in [Workers -> Signals \cup {NoSignal}] /\ ch \in Seq(Signals)
      /\ spc \in [SyncProcs -> {"idle", "poll", "polled", "late", "flush", "done"}]
      /\ due \in [SyncProcs -> SUBSET Signals] /\ Collector \in Loggers
  BY <1>0 DEF TypeOK, Loggers
\* Steps that leave the queue alone.
<1>1. ASSUME UNCHANGED <<todo, rounds, ch, sig, finished, due, spc>> PROVE QueueInv'
  <2>1. InCh' = InCh /\ Queued' = Queued
    BY <1>1 DEF Queued, InCh, InHand
  <2>2. FreshInv' /\ NewInv'
    BY <1>1, <2>1, QueueKept
  <2>3. SyncInv'
    BY <1>0, <1>1, <2>1 DEF SyncInv
  <2> QED BY <2>2, <2>3 DEF QueueInv
<1>2. ASSUME NEW p \in Loggers, todo[p] # <<>>, todo' = [todo EXCEPT ![p] = Tail(@)],
             UNCHANGED <<rounds, sig, finished, due, spc>>,
             InCh' \subseteq InCh \cup {Head(todo[p])}
      PROVE  QueueInv'
  <2>1. /\ FreshInv'
        /\ \A q \in Loggers : \A i \in DOMAIN todo'[q] :
             /\ todo'[q][i] # Head(todo[p])
             /\ \E j \in DOMAIN todo[q] : todo[q][j] = todo'[q][i]
        /\ \A k \in DOMAIN rounds : \A i \in DOMAIN rounds[k] : rounds[k][i] # Head(todo[p])
        /\ 1 \in DOMAIN todo[p] /\ Head(todo[p]) = todo[p][1]
    BY <1>0, <1>2, FreshTail
  <2>2. \A s : Past(s)' => Past(s) \/ s = Head(todo[p])
    <3>1. InHand' = InHand
      BY <1>2 DEF InHand
    <3> QED BY <1>2, <3>1 DEF Past, Queued
  <2>3. NewInv'
    BY <1>0, <1>2, <2>1, <2>2 DEF NewInv
  <2>4. SyncInv'
    <3>1. ~Past(Head(todo[p]))
      BY <1>0, <2>1 DEF NewInv
    <3> QED BY <1>0, <1>2, <3>1 DEF SyncInv, Past
  <2> QED BY <2>1, <2>3, <2>4 DEF QueueInv
<1>3. ASSUME NEW p \in Loggers, CheckClosed(p) PROVE QueueInv'
  <2>1. InCh' = InCh
    BY <1>3 DEF CheckClosed, InCh
  <2>2. CASE todo' = todo
    BY <1>1, <1>3, <2>2 DEF CheckClosed
  <2>3. CASE todo' # todo
    BY <1>2, <1>3, <2>1, <2>3 DEF CheckClosed
  <2> QED BY <2>2, <2>3
<1>4. ASSUME NEW p \in Loggers, Put(p) PROVE QueueInv'
  <2>1. todo[p] # <<>> /\ Head(todo[p]) \in Signals
    BY <1>0, <1>4, TailTypes DEF Put, ReadyInv, TypeOK
  <2>2. InCh' \subseteq InCh \cup {Head(todo[p])}
    <3>1. CASE ch' = Append(ch, Head(todo[p]))
      <4>1. \A i \in DOMAIN ch' : (i \in DOMAIN ch /\ ch'[i] = ch[i]) \/ ch'[i] = Head(todo[p])
        BY <1>a, <2>1, <3>1, AppendElements
      <4> QED BY <4>1 DEF InCh
    <3>2. CASE ch' = ch
      BY <3>2 DEF InCh
    <3> QED BY <1>4, <3>1, <3>2 DEF Put
  <2> QED BY <1>2, <1>4, <2>1, <2>2 DEF Put
<1>5. ASSUME rounds # <<>>, todo[Collector] = <<>>,
             todo' = [todo EXCEPT ![Collector] = Head(rounds)], rounds' = Tail(rounds),
             UNCHANGED <<ch, sig, finished, due, spc>>
      PROVE  QueueInv'
  <2>1. /\ FreshInv'
        /\ \A q \in Loggers : \A i \in DOMAIN todo'[q] :
             \/ \E j \in DOMAIN todo[q] : todo[q][j] = todo'[q][i]
             \/ \E k \in DOMAIN rounds : \E j \in DOMAIN rounds[k] : rounds[k][j] = todo'[q][i]
        /\ \A k \in DOMAIN rounds' : \E l \in DOMAIN rounds : rounds'[k] = rounds[l]
    BY <1>0, <1>5, FreshCollect
  <2>2. \A s : Past(s)' <=> Past(s)
    BY <1>5 DEF Past, Queued, InCh, InHand
  <2>3. NewInv'
    <3>1. \A q \in Loggers : \A i \in DOMAIN todo'[q] : ~Past(todo'[q][i])
      BY <1>0, <2>1 DEF NewInv
    <3>2. \A k \in DOMAIN rounds' : \A i \in DOMAIN rounds'[k] : ~Past(rounds'[k][i])
      BY <1>0, <2>1 DEF NewInv
    <3> QED BY <2>2, <3>1, <3>2 DEF NewInv
  <2>4. SyncInv'
    BY <1>0, <1>5 DEF SyncInv, InCh
  <2> QED BY <2>1, <2>3, <2>4 DEF QueueInv
<1>6. CASE Start
  <2>1. collecting = "off" /\ todo[Collector] = <<>>
    BY <1>0, <1>6 DEF Start, ReadyInv
  <2>2. CASE rounds = <<>>
    BY <1>1, <1>6, <2>2 DEF Start
  <2>3. CASE rounds # <<>>
    BY <1>5, <1>6, <2>1, <2>3 DEF Start
  <2> QED BY <2>2, <2>3
<1>7. CASE Collect
  BY <1>5, <1>7 DEF Collect
<1>8. CASE CollectExit
  BY <1>1, <1>8 DEF CollectExit
\* Steps that take from the queue or finish with a signal.
<1>9. ASSUME UNCHANGED <<todo, rounds, due, spc>>, InCh' \subseteq InCh, Queued' \subseteq Queued
      PROVE  QueueInv'
  <2>1. FreshInv' /\ NewInv'
    BY <1>9, QueueKept
  <2>2. SyncInv'
    BY <1>0, <1>9 DEF SyncInv
  <2> QED BY <2>1, <2>2 DEF QueueInv
<1>10. ASSUME NEW w \in Workers, Take(w) PROVE QueueInv'
  <2>1. InCh' \subseteq InCh /\ Head(ch) \in InCh
    <3>1. /\ \A i \in DOMAIN Tail(ch) : i + 1 \in DOMAIN ch /\ Tail(ch)[i] = ch[i + 1]
          /\ 1 \in DOMAIN ch /\ Head(ch) = ch[1]
      BY <1>a, <1>10, TailElements DEF Take
    <3> QED BY <1>10, <3>1 DEF Take, InCh
  <2>2. InHand' \subseteq InHand \cup {Head(ch)}
    BY <1>a, <1>10 DEF Take, InHand
  <2>3. Queued' \subseteq Queued
    BY <1>10, <2>1, <2>2 DEF Take, Queued
  <2> QED BY <1>9, <1>10, <2>1, <2>3 DEF Take
<1>11. ASSUME NEW w \in Workers, SeeDone(w) \/ DrainEmpty(w) \/ DrainExpire(w) \/ Begin(w)
       PROVE  QueueInv'
  BY <1>1, <1>11 DEF SeeDone, DrainEmpty, DrainExpire, Begin
<1>12. ASSUME NEW w \in Workers, NEW ok \in BOOLEAN, SendTarget(w, ok) \/ Fallback(w, ok)
       PROVE  QueueInv'
  BY <1>1, <1>12 DEF SendTarget, Fallback, Attempt
<1>13. ASSUME NEW w \in Workers, Finish(w) PROVE QueueInv'
  <2>1. InCh' = InCh
    BY <1>13 DEF Finish, InCh
  <2>2. InHand' \subseteq InHand /\ sig[w] \in InHand
    BY <1>0, <1>a, <1>13 DEF Finish, InHand, HandInv
  <2>3. Queued' \subseteq Queued
    BY <1>13, <2>1, <2>2 DEF Finish, Queued
  <2> QED BY <1>9, <1>13, <2>1, <2>3 DEF Finish
\* Sync itself.
<1>14. ASSUME NEW y \in SyncProcs, UNCHANGED <<todo, rounds, ch, sig, finished>>,
              \/ /\ due' = [due EXCEPT ![y] = InCh \cup InHand]
                 /\ spc' = [spc EXCEPT ![y] = "poll"]
              \/ /\ due' = due
                 /\ \E to \in {"poll", "polled", "late", "flush", "done"} :
                      /\ spc' = [spc EXCEPT ![y] = to]
                      /\ to = "polled" => ch = <<>>
                      /\ to = "flush" => spc[y] = "polled"
       PROVE  QueueInv'
  <2>1. InCh' = InCh /\ Queued' = Queued /\ InCh \cup InHand \subseteq Queued
    BY <1>14 DEF Queued, InCh, InHand
  <2>2. FreshInv' /\ NewInv'
    BY <1>a, <1>14, <2>1, QueueKept
  <2>3. SyncInv'
    <3> SUFFICES ASSUME NEW z \in SyncProcs, spc'[z] \in {"polled", "flush"}
                 PROVE  due'[z] \cap InCh = {}
      BY <2>1 DEF SyncInv
    <3>1. CASE z # y
      BY <1>0, <1>a, <1>14, <3>1 DEF SyncInv
    <3>2. CASE z = y /\ ch = <<>>
      BY <3>2 DEF InCh
    <3>3. CASE z = y /\ ch # <<>>
      <4>1. due' = due /\ spc[y] = "polled"
        BY <1>a, <1>14, <3>3
      <4> QED BY <1>0, <3>3, <4>1 DEF SyncInv
    <3> QED BY <3>1, <3>2, <3>3
  <2> QED BY <2>2, <2>3 DEF QueueInv
<1>15. ASSUME NEW y \in SyncProcs, SyncCall(y) \/ Sync(y) PROVE QueueInv'
  <2>1. CASE SyncCall(y)
    BY <1>14, <2>1 DEF SyncCall, MoveSync
  <2>2. CASE PollQueue(y)
    BY <1>14, <2>2 DEF PollQueue, MoveSync
  <2>3. CASE PollInflight(y)
    BY <1>14, <2>3 DEF PollInflight, MoveSync
  <2>4. CASE SyncDeadline(y)
    BY <1>14, <2>4 DEF SyncDeadline, MoveSync
  <2>5. CASE SyncFlush(y)
    BY <1>14, <2>5 DEF SyncFlush, MoveSync
  <2> QED BY <1>15, <2>1, <2>2, <2>3, <2>4, <2>5 DEF Sync
<1>16. CASE CloseWait
  <2>1. Closer \in SyncProcs /\ due' = due /\ spc' = [spc EXCEPT ![Closer] = "poll"]
    BY <1>16 DEF CloseWait, SyncProcs
  <2> QED BY <1>14, <1>16, <2>1 DEF CloseWait
<1>17. CASE CloseCall \/ CloseCancel \/ CloseTransports \/ CancelParent
  BY <1>1, <1>17 DEF CloseCall, CloseCancel, CloseTransports, CancelParent, EndContext
<1>18. CASE UNCHANGED vars
  BY <1>1, <1>18 DEF vars
<1> QED
  BY <1>3, <1>4, <1>6, <1>7, <1>8, <1>10, <1>11, <1>12, <1>13, <1>15, <1>16, <1>17,
     <1>18 DEF Next, Worker, Close, SyncProcs

-----------------------------------------------------------------------------
(* Theorems *)

\* The state of the agent is what its Go declarations allow, and the queue
\* holds at most QueueSize signals (agent.go:76-161).
THEOREM AgentTypes == Spec => []TypeOK
<1>1. CountInv => TypeOK
  BY DEF CountInv
<1> QED BY <1>1, CountInvariant, PTL

\* inflight counts the workers inside sendOne at every moment, so Sync never
\* sees zero while a signal is on its way (agent.go:185-230, 299-308).
THEOREM AgentInflight == Spec => []InflightExact
<1>1. CountInv => InflightExact
  BY DEF CountInv
<1> QED BY <1>1, CountInvariant, PTL

\* No transport is used after Close has closed it (agent.go:324-340).
THEOREM AgentClosedIsQuiet == Spec => []ClosedIsQuiet
<1>1. Init => StopInv
  BY DEF Init, StopInv
<1>2. StopInv => ClosedIsQuiet
  BY DEF StopInv, ClosedIsQuiet
<1> QED BY <1>1, <1>2, NextStop, CountInvariant, PTL DEF Spec

\* sendOne gives a reliable signal up only when every transport has been
\* tried for it, by the policy or by fallbackSend (agent.go:203-262).
THEOREM AgentReliable == Spec => []ReliableTriesAll
<1>1. TriedInv => ReliableTriesAll
  BY DEF TriedInv
<1> QED BY <1>1, InitTried, NextTried, CountInvariant, PTL DEF Spec

\* When the workers have all returned, what was queued as their context ended
\* has been through sendOne (agent.go:163-183).
THEOREM AgentDrains == Spec => []DrainAttemptsAll
<1>1. CountInv /\ DrainInv => DrainAttemptsAll
  <2> SUFFICES ASSUME CountInv, DrainInv, \A w \in Workers : wpc[w] = "exited"
               PROVE  owed \subseteq finished
    BY DEF DrainAttemptsAll
  <2>1. InHand = {}
    BY DEF CountInv, HandInv, InHand
  <2>2. \E w \in Workers : wpc[w] = "exited"
    BY AgentAssumption
  <2> QED BY <2>1, <2>2 DEF DrainInv
<1> QED BY <1>1, InitDrain, NextDrain, CountInvariant, PTL DEF Spec

\* Sync goes on to flush in time only when what was queued before the call
\* has left the queue, and it never comes back (agent.go:299-308).
THEOREM AgentSync == Spec => []SyncEmptiesQueue
<1>1. QueueInv => SyncEmptiesQueue
  BY DEF QueueInv, SyncInv, SyncEmptiesQueue
<1> QED BY <1>1, InitQueue, NextQueue, CountInvariant, PTL DEF Spec
=============================================================================
