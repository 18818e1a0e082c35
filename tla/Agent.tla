-------------------------------- MODULE Agent --------------------------------
(***************************************************************************)
(* The SDK agent (agentImpl): application goroutines log without blocking, *)
(* a bounded queue decouples them from the workers that send each signal   *)
(* over the transports the policy selects, error-level signals fall back   *)
(* to the other transports, a collector goroutine logs on a ticker, Sync   *)
(* waits for the queue to empty and Close stops it all.                    *)
(*                                                                         *)
(* Every signal is logged once: a signal stands for one call of the        *)
(* logger.                                                                 *)
(***************************************************************************)
EXTENDS Integers, Sequences, FiniteSets

CONSTANTS
  Signals,
  Apps,          \* application goroutines that log
  Load,          \* Load[p]: what p logs, in order
  Rounds,        \* what the collectors return at each tick; <<>>: none
  Workers,       \* the worker goroutines (two in the code)
  NumTransports, \* the transports are 1..NumTransports, in option order
  Targets,       \* Targets[s]: what the policy selects for s
  Skipped,       \* signals a hook drops or the formatter rejects
  Reliable,      \* signals of level error, fatal or panic
  Flaky,         \* transports whose Send may fail by itself
  CtxAware,      \* transports whose Send fails under a done context
  Hanging,       \* transports whose Send may never return (TCP: a write
                 \* without a deadline to a peer that has stopped reading)
  Syncers,       \* application goroutines that call Sync
  Closer,        \* the goroutine whose Close comes first; any later Close
                 \* returns at once and changes nothing
  Collector,     \* the collectLoop goroutine
  QueueSize,
  NoSignal

Transports == 1..NumTransports
Loggers == Apps \cup {Collector}
SyncProcs == Syncers \cup {Closer}

ASSUME AgentAssumption ==
  /\ Collector \notin Apps /\ Closer \notin Syncers
  /\ Load \in [Apps -> Seq(Signals)]
  /\ Rounds \in Seq(Seq(Signals))
  /\ NumTransports \in Nat \ {0}
  /\ Targets \in [Signals -> Seq(Transports)]
  /\ Skipped \subseteq Signals /\ Reliable \subseteq Signals
  /\ Flaky \subseteq Transports /\ CtxAware \subseteq Transports
  /\ Hanging \subseteq Transports
  /\ QueueSize \in Nat \ {0}
  /\ NoSignal \notin Signals
  /\ IsFiniteSet(Workers) /\ Workers # {}

\* A signal is one call of the logger.
ASSUME LoggedOnce ==
  /\ \A p, q \in Apps : \A i \in DOMAIN Load[p], j \in DOMAIN Load[q] :
       Load[p][i] = Load[q][j] => p = q /\ i = j
  /\ \A k, l \in DOMAIN Rounds : \A i \in DOMAIN Rounds[k], j \in DOMAIN Rounds[l] :
       Rounds[k][i] = Rounds[l][j] => k = l /\ i = j
  /\ \A p \in Apps, k \in DOMAIN Rounds :
       \A i \in DOMAIN Load[p], j \in DOMAIN Rounds[k] : Load[p][i] # Rounds[k][j]

VARIABLES
  todo,       \* todo[p]: what p has still to log
  ready,      \* goroutines in enqueue, past its test of closed
  rounds,     \* the collections still to come
  collecting, \* the collectLoop goroutine: off, on, exited
  ch,         \* the queue
  dropped,    \* signals that met a full queue
  closed,     \* the closed flag
  cancelled,  \* the context of the workers is done
  wpc,        \* where each worker is
  mode,       \* run: the worker's context is cctx; drain: drainCtx
  expired,    \* expired[w]: the two seconds of w's drainCtx are over
  sig,        \* the signal a worker has in hand
  rest,       \* the targets sendOne has still to try
  fb,         \* the transports fallbackSend has still to try
  inflight,   \* the inflight counter
  finished,   \* history: signals whose sendOne has returned
  tried,      \* history: transports each signal was sent on
  got,        \* history: transports that delivered each signal
  spc,        \* where each caller of Sync is
  cpc,        \* where Close is
  open,       \* the transports have not been closed
  owed,       \* history: what had been queued when the workers' context ended
  due         \* history: due[y] is what had been queued and not finished
              \* when y called Sync

logVars  == <<todo, ready, rounds, collecting>>
workVars == <<wpc, mode, expired, sig, rest, fb, inflight>>
histVars == <<finished, tried, got, owed, due>>
stopVars == <<closed, cancelled, spc, cpc, open>>
vars == <<logVars, ch, dropped, workVars, histVars, stopVars>>

InCh == {ch[i] : i \in DOMAIN ch}
InHand == {sig[w] : w \in Workers} \ {NoSignal}
Queued == InCh \cup InHand \cup finished

TypeOK ==
  /\ todo \in [Loggers -> Seq(Signals)]
  /\ ready \subseteq Loggers
  /\ rounds \in Seq(Seq(Signals))
  /\ collecting \in {"off", "on", "exited"}
  /\ ch \in Seq(Signals) /\ Len(ch) <= QueueSize
  /\ dropped \subseteq Signals
  /\ closed \in BOOLEAN /\ cancelled \in BOOLEAN
  /\ wpc \in [Workers -> {"off", "recv", "drain", "got", "send", "exited"}]
  /\ mode \in [Workers -> {"run", "drain"}]
  /\ expired \in [Workers -> BOOLEAN]
  /\ sig \in [Workers -> Signals \cup {NoSignal}]
  /\ rest \in [Workers -> Seq(Transports)]
  /\ fb \in [Workers -> Seq(Transports)]
  /\ inflight \in Nat
  /\ finished \subseteq Signals
  /\ tried \in [Signals -> SUBSET Transports]
  /\ got \in [Signals -> SUBSET Transports]
  /\ spc \in [SyncProcs -> {"idle", "poll", "polled", "late", "flush", "done"}]
  /\ cpc \in {"idle", "cancel", "wait", "sync", "done"}
  /\ open \in BOOLEAN
  /\ owed \subseteq Signals
  /\ due \in [SyncProcs -> SUBSET Signals]

Init ==
  /\ todo = [p \in Loggers |-> IF p = Collector THEN <<>> ELSE Load[p]]
  /\ ready = {}
  /\ rounds = Rounds
  /\ collecting = "off"
  /\ ch = <<>>
  /\ dropped = {}
  /\ closed = FALSE /\ cancelled = FALSE
  /\ wpc = [w \in Workers |-> "off"]
  /\ mode = [w \in Workers |-> "run"]
  /\ expired = [w \in Workers |-> FALSE]
  /\ sig = [w \in Workers |-> NoSignal]
  /\ rest = [w \in Workers |-> <<>>]
  /\ fb = [w \in Workers |-> <<>>]
  /\ inflight = 0
  /\ finished = {}
  /\ tried = [s \in Signals |-> {}]
  /\ got = [s \in Signals |-> {}]
  /\ spc = [y \in SyncProcs |-> "idle"]
  /\ cpc = "idle"
  /\ open = TRUE
  /\ owed = {}
  /\ due = [y \in SyncProcs |-> {}]

-----------------------------------------------------------------------------
(* Start and the goroutines that log *)

\* Every transport has started (a Start that fails leaves no goroutine behind:
\* the state before it). collectLoop collects once before its first tick.
Start ==
  /\ cpc = "idle"
  /\ \A w \in Workers : wpc[w] = "off"
  /\ wpc' = [w \in Workers |-> "recv"]
  /\ IF rounds = <<>>
       THEN UNCHANGED <<todo, rounds, collecting>>
       ELSE /\ collecting' = "on"
            /\ todo' = [todo EXCEPT ![Collector] = Head(rounds)]
            /\ rounds' = Tail(rounds)
  /\ UNCHANGED <<ready, ch, dropped, mode, expired, sig, rest, fb, inflight,
                 histVars, stopVars>>

\* enqueue reads closed, which only ever becomes true (so this read subsumes
\* the logger's own, earlier one).
CheckClosed(p) ==
  /\ p \notin ready
  /\ todo[p] # <<>>
  /\ IF closed
       THEN todo' = [todo EXCEPT ![p] = Tail(@)] /\ UNCHANGED ready
       ELSE ready' = ready \cup {p} /\ UNCHANGED todo
  /\ UNCHANGED <<rounds, collecting, ch, dropped, workVars, histVars, stopVars>>

\* Mutant: a send that does not look at the room left.
PutUnbounded(p) ==
  /\ p \in ready
  /\ ready' = ready \ {p}
  /\ todo' = [todo EXCEPT ![p] = Tail(@)]
  /\ ch' = Append(ch, Head(todo[p]))
  /\ UNCHANGED <<rounds, collecting, dropped, workVars, histVars, stopVars>>

\* The non-blocking send of enqueue.
Put(p) ==
  /\ p \in ready
  /\ ready' = ready \ {p}
  /\ todo' = [todo EXCEPT ![p] = Tail(@)]
  /\ LET s == Head(todo[p]) IN
       IF Len(ch) < QueueSize
         THEN ch' = Append(ch, s) /\ UNCHANGED dropped
         ELSE dropped' = dropped \cup {s} /\ UNCHANGED ch
  /\ UNCHANGED <<rounds, collecting, workVars, histVars, stopVars>>

\* A tick of collectLoop; Go's select may prefer it to a done context.
Collect ==
  /\ collecting = "on"
  /\ todo[Collector] = <<>>
  /\ rounds # <<>>
  /\ todo' = [todo EXCEPT ![Collector] = Head(rounds)]
  /\ rounds' = Tail(rounds)
  /\ UNCHANGED <<ready, collecting, ch, dropped, workVars, histVars, stopVars>>

CollectExit ==
  /\ collecting = "on"
  /\ todo[Collector] = <<>>
  /\ cancelled
  /\ collecting' = "exited"
  /\ UNCHANGED <<todo, ready, rounds, ch, dropped, workVars, histVars, stopVars>>

-----------------------------------------------------------------------------
(* Workers *)

\* The context this worker passes to Send is done.
Dead(w) == IF mode[w] = "drain" THEN expired[w] ELSE cancelled

\* The worker has received a signal; inflight does not count it yet.
Take(w) ==
  /\ wpc[w] \in {"recv", "drain"}
  /\ ch # <<>>
  /\ ch' = Tail(ch)
  /\ sig' = [sig EXCEPT ![w] = Head(ch)]
  /\ wpc' = [wpc EXCEPT ![w] = "got"]
  /\ UNCHANGED <<logVars, dropped, mode, expired, rest, fb, inflight, finished,
                 tried, got, owed, due, stopVars>>

\* Mutant: the worker returns on cancellation without draining.
SeeDoneExits(w) ==
  /\ wpc[w] = "recv"
  /\ cancelled
  /\ wpc' = [wpc EXCEPT ![w] = "exited"]
  /\ UNCHANGED <<logVars, ch, dropped, mode, expired, sig, rest, fb, inflight,
                 histVars, stopVars>>

SeeDone(w) ==
  /\ wpc[w] = "recv"
  /\ cancelled
  /\ wpc' = [wpc EXCEPT ![w] = "drain"]
  /\ mode' = [mode EXCEPT ![w] = "drain"]
  /\ UNCHANGED <<logVars, ch, dropped, expired, sig, rest, fb, inflight,
                 histVars, stopVars>>

DrainExpire(w) ==
  /\ mode[w] = "drain"
  /\ wpc[w] # "exited"
  /\ ~expired[w]
  /\ expired' = [expired EXCEPT ![w] = TRUE]
  /\ UNCHANGED <<logVars, ch, dropped, wpc, mode, sig, rest, fb, inflight,
                 histVars, stopVars>>

DrainEmpty(w) ==
  /\ wpc[w] = "drain"
  /\ ch = <<>>
  /\ wpc' = [wpc EXCEPT ![w] = "exited"]
  /\ UNCHANGED <<logVars, ch, dropped, mode, expired, sig, rest, fb, inflight,
                 histVars, stopVars>>

\* sendOne: count the signal, run the hooks and the formatter, select.
Begin(w) ==
  /\ wpc[w] = "got"
  /\ inflight' = inflight + 1
  /\ rest' = [rest EXCEPT ![w] = IF sig[w] \in Skipped THEN <<>>
                                                       ELSE Targets[sig[w]]]
  /\ wpc' = [wpc EXCEPT ![w] = "send"]
  /\ UNCHANGED <<logVars, ch, dropped, mode, expired, sig, fb, histVars,
                 stopVars>>

\* One call of t.Send by w. It may fail although the other end has the
\* payload (the answer is lost).
Attempt(w, t, ok) ==
  /\ wpc[w] = "send"
  /\ IF ok THEN ~(Dead(w) /\ t \in CtxAware)
           ELSE t \in Flaky \/ (Dead(w) /\ t \in CtxAware)
  /\ tried' = [tried EXCEPT ![sig[w]] = @ \cup {t}]
  /\ \E reached \in {ok, TRUE} :
       got' = [got EXCEPT ![sig[w]] = IF reached THEN @ \cup {t} ELSE @]
  /\ UNCHANGED <<logVars, ch, dropped, wpc, mode, expired, sig, inflight,
                 finished, owed, due, stopVars>>

\* The transports fallbackSend tries after t failed, in order.
Others(t) == [i \in 1..(NumTransports - 1) |-> IF i < t THEN i ELSE i + 1]

\* A target of the policy. On failure a reliable signal tries the others.
SendTarget(w, ok) ==
  /\ fb[w] = <<>> /\ rest[w] # <<>>
  /\ LET t == Head(rest[w]) IN
     /\ Attempt(w, t, ok)
     /\ fb' = [fb EXCEPT ![w] = IF ~ok /\ sig[w] \in Reliable THEN Others(t)
                                                              ELSE <<>>]
  /\ rest' = [rest EXCEPT ![w] = Tail(@)]

\* Mutant: fallbackSend gives up at its first failure.
FallbackOnce(w, ok) ==
  /\ fb[w] # <<>>
  /\ Attempt(w, Head(fb[w]), ok)
  /\ fb' = [fb EXCEPT ![w] = <<>>]
  /\ UNCHANGED rest

\* The next transport of fallbackSend; a success ends it.
Fallback(w, ok) ==
  /\ fb[w] # <<>>
  /\ Attempt(w, Head(fb[w]), ok)
  /\ fb' = [fb EXCEPT ![w] = IF ok THEN <<>> ELSE Tail(@)]
  /\ UNCHANGED rest

\* Mutant: the counter is decremented on success only.
FinishOnSuccess(w) ==
  /\ wpc[w] = "send"
  /\ rest[w] = <<>> /\ fb[w] = <<>>
  /\ inflight' = IF got[sig[w]] = {} THEN inflight ELSE inflight - 1
  /\ finished' = finished \cup {sig[w]}
  /\ sig' = [sig EXCEPT ![w] = NoSignal]
  /\ wpc' = [wpc EXCEPT ![w] = IF mode[w] = "drain" THEN "drain" ELSE "recv"]
  /\ UNCHANGED <<logVars, ch, dropped, mode, expired, rest, fb, tried, got,
                 owed, due, stopVars>>

\* sendOne returns; its error is ignored by the worker.
Finish(w) ==
  /\ wpc[w] = "send"
  /\ rest[w] = <<>> /\ fb[w] = <<>>
  /\ inflight' = inflight - 1
  /\ finished' = finished \cup {sig[w]}
  /\ sig' = [sig EXCEPT ![w] = NoSignal]
  /\ wpc' = [wpc EXCEPT ![w] = IF mode[w] = "drain" THEN "drain" ELSE "recv"]
  /\ UNCHANGED <<logVars, ch, dropped, mode, expired, rest, fb, tried, got,
                 owed, due, stopVars>>

Worker(w) ==
  \/ Take(w)
  \/ SeeDone(w)
  \/ DrainEmpty(w)
  \/ Begin(w)
  \/ \E ok \in BOOLEAN : SendTarget(w, ok)
  \/ \E ok \in BOOLEAN : Fallback(w, ok)
  \/ Finish(w)

-----------------------------------------------------------------------------
(* Sync *)

MoveSync(y, from, to) ==
  /\ spc[y] = from
  /\ spc' = [spc EXCEPT ![y] = to]
  /\ UNCHANGED <<logVars, ch, dropped, workVars, finished, tried, got, owed,
                 closed, cancelled, cpc, open>>

SyncCall(y) ==
  /\ MoveSync(y, "idle", "poll")
  /\ due' = [due EXCEPT ![y] = InCh \cup InHand]

\* Mutant: Sync looks at the counter only.
PollInflightOnly(y) == MoveSync(y, "poll", "polled") /\ UNCHANGED due

\* Sync reads the length of the queue, then the counter.
PollQueue(y) == MoveSync(y, "poll", "polled") /\ ch = <<>> /\ UNCHANGED due

PollInflight(y) ==
  /\ \/ MoveSync(y, "polled", "flush") /\ inflight = 0
     \/ MoveSync(y, "polled", "poll") /\ inflight # 0
  /\ UNCHANGED due

\* Mutant: Sync without its deadline.
SyncNoDeadline(y) == MoveSync(y, "poll", "poll") /\ UNCHANGED due

\* The three seconds of Sync are over.
SyncDeadline(y) == MoveSync(y, "poll", "late") /\ UNCHANGED due

\* The transports are flushed and Sync returns nil, in time or late.
SyncFlush(y) ==
  /\ MoveSync(y, "flush", "done") \/ MoveSync(y, "late", "done")
  /\ UNCHANGED due

Sync(y) == PollQueue(y) \/ PollInflight(y) \/ SyncDeadline(y) \/ SyncFlush(y)

-----------------------------------------------------------------------------
(* Close *)

CloseCall ==
  /\ cpc = "idle"
  /\ closed' = TRUE
  /\ cpc' = "cancel"
  /\ UNCHANGED <<logVars, ch, dropped, workVars, histVars, cancelled, spc, open>>

\* The context of the workers ends: by Close, or by the application that
\* cancels the context it gave to Start.
EndContext ==
  /\ owed' = IF cancelled THEN owed ELSE Queued
  /\ cancelled' = TRUE
  /\ UNCHANGED <<logVars, ch, dropped, workVars, finished, tried, got, due>>

\* The cancel function exists once Start has run.
CloseCancel ==
  /\ cpc = "cancel"
  /\ cpc' = "wait"
  /\ IF \A w \in Workers : wpc[w] = "off"
       THEN UNCHANGED <<logVars, ch, dropped, workVars, histVars, cancelled>>
       ELSE EndContext
  /\ UNCHANGED <<closed, spc, open>>

CancelParent ==
  /\ ~cancelled
  /\ \E w \in Workers : wpc[w] # "off"
  /\ EndContext
  /\ UNCHANGED <<closed, cpc, spc, open>>

\* Mutant: Close does not wait for the goroutines.
CloseNoWait ==
  /\ cpc = "wait"
  /\ cpc' = "sync"
  /\ spc' = [spc EXCEPT ![Closer] = "poll"]
  /\ UNCHANGED <<logVars, ch, dropped, workVars, histVars, closed, cancelled, open>>

\* wg.Wait has returned; Close calls Sync.
CloseWait ==
  /\ cpc = "wait"
  /\ \A w \in Workers : wpc[w] \in {"off", "exited"}
  /\ collecting # "on"
  /\ cpc' = "sync"
  /\ spc' = [spc EXCEPT ![Closer] = "poll"]
  /\ UNCHANGED <<logVars, ch, dropped, workVars, histVars, closed, cancelled, open>>

\* All transports are closed, whatever errors they return.
CloseTransports ==
  /\ cpc = "sync"
  /\ spc[Closer] = "done"
  /\ cpc' = "done"
  /\ open' = FALSE
  /\ UNCHANGED <<logVars, ch, dropped, workVars, histVars, closed, cancelled, spc>>

Close == CloseCancel \/ CloseWait \/ CloseTransports

Next ==
  \/ Start
  \/ \E p \in Loggers : CheckClosed(p) \/ Put(p)
  \/ Collect
  \/ CollectExit
  \/ \E w \in Workers : Worker(w) \/ DrainExpire(w)
  \/ \E y \in Syncers : SyncCall(y)
  \/ \E y \in SyncProcs : Sync(y)
  \/ CloseCall
  \/ Close
  \/ CancelParent

Spec == Init /\ [][Next]_vars

\* w is in the Send of a transport that promises no return: HTTP, WebSocket
\* and gRPC bound theirs, UDP does not wait, TCP ignores its context.
Hung(w) ==
  /\ wpc[w] = "send"
  /\ \/ fb[w] # <<>> /\ Head(fb[w]) \in Hanging
     \/ fb[w] = <<>> /\ rest[w] # <<>> /\ Head(rest[w]) \in Hanging

\* Goroutines keep being scheduled, every Send of a transport that is not in
\* Hanging returns, and a select of collectLoop with a done context eventually
\* takes it. The application may stop logging, never call Start, Sync or Close.
Fairness ==
  /\ \A p \in Loggers : WF_vars(CheckClosed(p) \/ Put(p))
  /\ WF_vars(Collect \/ CollectExit)
  /\ \A w \in Workers : WF_vars(~Hung(w) /\ Worker(w))
  /\ \A y \in SyncProcs : WF_vars(Sync(y))
  /\ WF_vars(Close)

FairSpec == Spec /\ Fairness

-----------------------------------------------------------------------------
(* Properties *)

\* The counter Sync relies on is exact: it counts the workers inside sendOne,
\* whatever way sendOne returns (agent.go:185-230).
InflightExact == inflight = Cardinality({w \in Workers : wpc[w] = "send"})

\* A reliable signal is given up only after every transport was tried, those
\* of the policy and all the others (sendOne, fallbackSend; agent.go:203-262).
ReliableTriesAll ==
  \A s \in Reliable \ Skipped :
    (s \in finished /\ got[s] = {} /\ Targets[s] # <<>>) => tried[s] = Transports

\* Close closes the transports after the last Send has returned: no worker is
\* left that could use them. (A Sync that runs at the same time may still call
\* Flush, which no transport does anything in; agent.go:324-340.)
ClosedIsQuiet == ~open => \A w \in Workers : wpc[w] \in {"off", "exited"}

\* The workers leave nothing behind: when both have returned, all that was
\* queued when their context ended has been through sendOne (agent.go:163-183).
DrainAttemptsAll ==
  (\A w \in Workers : wpc[w] = "exited") => owed \subseteq finished

\* When Sync goes on to flush in time, nothing queued before it was called is
\* still in the queue (agent.go:299-308).
SyncEmptiesQueue == \A y \in SyncProcs : spc[y] = "flush" => due[y] \cap InCh = {}

\* A worker is left.
Alive == \E w \in Workers : wpc[w] \notin {"off", "exited"}

\* s waits for a Send: in the hand of the worker that is in it, or in the
\* queue because every worker that is left is in one.
Behind(s) ==
  \/ \E w \in Workers : sig[w] = s /\ Hung(w)
  \/ /\ s \in InCh /\ \E w \in Workers : Hung(w)
     /\ \A w \in Workers : Hung(w) \/ wpc[w] \in {"off", "exited"}

\* A signal that is queued while a worker is left is eventually handed to every
\* transport the policy selects for it, through failures, cancellation and
\* drain, unless it stays for ever behind a Send that never returns. Whether a
\* transport takes it is another matter: under an ended context most refuse
\* (agent.go:163-230).
QueuedIsTried ==
  \A s \in Signals :
    (s \in InCh /\ Alive) ~>
      \/ /\ s \in finished
         /\ s \notin Skipped => \A i \in DOMAIN Targets[s] : Targets[s][i] \in tried[s]
      \/ []Behind(s)

\* Close returns, even when signals are stranded in the queue because their
\* goroutines passed the test of closed before Close and sent after the
\* workers were gone, unless a worker never comes back from its Send: Close
\* waits for it without a bound (agent.go:149-161, 299-340; tcp.go:84-98).
CloseReturns ==
  (cpc = "cancel") ~> (cpc = "done" \/ \E w \in Workers : []Hung(w))
=============================================================================
