----------------------------- MODULE Dispatcher -----------------------------
(***************************************************************************)
(* The server's asynchronous dispatcher (dispatcher.Async): input handlers *)
(* call Dispatch concurrently, a bounded channel decouples them from one   *)
(* goroutine (loop) that collects a batch and writes it to every output in *)
(* turn, and Stop cancels the goroutine, waits for it to drain the channel *)
(* and flushes the outputs.                                                *)
(***************************************************************************)
EXTENDS Integers, Sequences, FiniteSetsExt

CONSTANTS
  Signals,       \* the signals the callers dispatch
  Callers,       \* goroutines that call Dispatch: handlers of inputs
  Load,          \* Load[c]: the signals caller c dispatches, in order
  BatchCallers,  \* the callers that use DispatchBatch; the others call
                 \* Dispatch once per signal and go on after an error
  Processors,    \* the pipeline: each processor's verdict on each signal
  NumOutputs,    \* the outputs are 1..NumOutputs, in configuration order
  CtxAware,      \* outputs whose Write fails under a cancelled context and
                 \* is all or nothing: mysql, clickhouse
  QueueSize,     \* Options.QueueSize
  BatchSize      \* Options.BatchSize

Outputs == 1..NumOutputs
Verdicts == {"keep", "filter", "error"}

ASSUME LoadAssumption ==
  /\ Load \in [Callers -> Seq(Signals)]
  /\ BatchCallers \subseteq Callers
  /\ Processors \in Seq([Signals -> Verdicts])

ASSUME SizesAssumption ==
  /\ NumOutputs \in Nat
  /\ CtxAware \subseteq Outputs
  /\ QueueSize \in Nat \ {0}
  /\ BatchSize \in Nat \ {0}

VARIABLES
  todo,       \* todo[c]: what caller c has still to dispatch
  ctxDone,    \* ctxDone[c]: the context of c's request is done
  ch,         \* the channel
  pc,         \* where the loop goroutine is
  cancelled,  \* the loop's context is done: SIGTERM (its parent) or Stop
  batch,      \* the signals collected since the last flushBatch
  wi,         \* the output that write is about to call
  resume,     \* where the loop goes when write returns
  stop,       \* the call of Stop
  accepted,   \* history: what entered the channel, in order
  handled,    \* history: handled[o] is what output o was asked to write
  stored,     \* stored[o]: what output o has written
  failed,     \* history: outputs one of whose writes returned an error
  synced      \* synced[o]: how much of stored[o] the last Flush covered

callerVars == <<todo, ctxDone>>
loopVars   == <<pc, batch, wi, resume>>
outVars    == <<handled, stored, failed>>
stopVars   == <<stop, synced>>
vars == <<callerVars, ch, loopVars, cancelled, accepted, outVars, stopVars>>

TypeOK ==
  /\ todo \in [Callers -> Seq(Signals)]
  /\ ctxDone \in [Callers -> BOOLEAN]
  /\ ch \in Seq(Signals) /\ Len(ch) <= QueueSize
  /\ pc \in {"idle", "select", "drain", "write", "exited"}
  /\ cancelled \in BOOLEAN
  /\ batch \in Seq(Signals) /\ Len(batch) <= BatchSize
  /\ wi \in 1..(NumOutputs + 1)
  /\ resume \in {"select", "drain", "exited"}
  /\ stop \in {"none", "waiting", "done", "flusherr", "timedout"}
  /\ accepted \in Seq(Signals)
  /\ handled \in [Outputs -> Seq(Signals)]
  /\ stored \in [Outputs -> Seq(Signals)]
  /\ failed \subseteq Outputs
  /\ synced \in [Outputs -> Nat]

Init ==
  /\ todo = Load
  /\ ctxDone = [c \in Callers |-> FALSE]
  /\ ch = <<>>
  /\ pc = "idle"
  /\ cancelled = FALSE
  /\ batch = <<>>
  /\ wi = 1
  /\ resume = "select"
  /\ stop = "none"
  /\ accepted = <<>>
  /\ handled = [o \in Outputs |-> <<>>]
  /\ stored = [o \in Outputs |-> <<>>]
  /\ failed = {}
  /\ synced = [o \in Outputs |-> 0]

-----------------------------------------------------------------------------
(* Callers *)

\* Chain.Process: the first processor that does not keep s decides.
Process(s) ==
  LET deciding == {i \in DOMAIN Processors : Processors[i][s] # "keep"} IN
  IF deciding = {} THEN "keep" ELSE Processors[Min(deciding)][s]

\* Dispatch returns r for the head of todo[c]; DispatchBatch gives up the rest
\* of its batch at the first error.
Return(c, r) ==
  /\ todo' = [todo EXCEPT ![c] =
                IF r = "err" /\ c \in BatchCallers THEN <<>> ELSE Tail(@)]
  /\ UNCHANGED <<ctxDone, loopVars, cancelled, outVars, stopVars>>

\* The pipeline fails, or drops the signal without an error.
Reject(c) ==
  /\ todo[c] # <<>>
  /\ LET s == Head(todo[c]) IN
     /\ Process(s) # "keep"
     /\ Return(c, IF Process(s) = "error" THEN "err" ELSE "nil")
  /\ UNCHANGED <<ch, accepted>>

\* Mutant: a send that does not wait for room (an unbounded buffer).
SendUnbounded(c) ==
  /\ todo[c] # <<>>
  /\ LET s == Head(todo[c]) IN
     /\ Process(s) = "keep"
     /\ ch' = Append(ch, s)
     /\ accepted' = Append(accepted, s)
     /\ Return(c, "nil")

\* The channel has room. The select may choose this branch although the
\* caller's context is done as well.
Send(c) ==
  /\ todo[c] # <<>>
  /\ Len(ch) < QueueSize
  /\ LET s == Head(todo[c]) IN
     /\ Process(s) = "keep"
     /\ ch' = Append(ch, s)
     /\ accepted' = Append(accepted, s)
     /\ Return(c, "nil")

Expire(c) ==
  /\ todo[c] # <<>>
  /\ ctxDone[c]
  /\ Process(Head(todo[c])) = "keep"
  /\ Return(c, "err")
  /\ UNCHANGED <<ch, accepted>>

\* The default branch: full channel, live context; the caller sees success.
Drop(c) ==
  /\ todo[c] # <<>>
  /\ Len(ch) = QueueSize
  /\ ~ctxDone[c]
  /\ Process(Head(todo[c])) = "keep"
  /\ Return(c, "nil")
  /\ UNCHANGED <<ch, accepted>>

\* The client of c goes away, or its request times out.
EndContext(c) ==
  /\ ~ctxDone[c]
  /\ ctxDone' = [ctxDone EXCEPT ![c] = TRUE]
  /\ UNCHANGED <<todo, ch, loopVars, cancelled, accepted, outVars,
                 stopVars>>

Dispatch(c) == Reject(c) \/ Send(c) \/ Expire(c) \/ Drop(c)

-----------------------------------------------------------------------------
(* The loop goroutine *)

Start ==
  /\ pc = "idle"
  /\ pc' = "select"
  /\ UNCHANGED <<callerVars, ch, batch, wi, resume, cancelled, accepted,
                 outVars, stopVars>>

\* flushBatch on a batch that is not empty: write, then continue at next.
Flush(next) ==
  /\ pc' = "write"
  /\ wi' = 1
  /\ resume' = next

\* A signal arrives, in the main select or while draining.
Receive ==
  /\ pc \in {"select", "drain"}
  /\ ch # <<>>
  /\ ch' = Tail(ch)
  /\ batch' = Append(batch, Head(ch))
  /\ IF Len(batch) + 1 >= BatchSize
       THEN Flush(pc)
       ELSE UNCHANGED <<pc, wi, resume>>
  /\ UNCHANGED <<callerVars, cancelled, accepted, outVars, stopVars>>

Tick ==
  /\ pc = "select"
  /\ batch # <<>>
  /\ Flush("select")
  /\ UNCHANGED <<callerVars, ch, batch, cancelled, accepted, outVars,
                 stopVars>>

\* Mutant: the goroutine returns on cancellation without draining.
SeeCancelNoDrain ==
  /\ pc = "select"
  /\ cancelled
  /\ pc' = "exited"
  /\ UNCHANGED <<callerVars, ch, batch, wi, resume, cancelled, accepted,
                 outVars, stopVars>>

SeeCancel ==
  /\ pc = "select"
  /\ cancelled
  /\ pc' = "drain"
  /\ UNCHANGED <<callerVars, ch, batch, wi, resume, cancelled, accepted,
                 outVars, stopVars>>

\* Mutant: the last batch is not flushed before the goroutine returns.
DrainEmptyNoFlush ==
  /\ pc = "drain"
  /\ ch = <<>>
  /\ pc' = "exited"
  /\ UNCHANGED <<callerVars, ch, batch, wi, resume, cancelled, accepted,
                 outVars, stopVars>>

\* Mutant: the end of the drain leaves the inner for only.
DrainEmptyBreaks ==
  /\ pc = "drain"
  /\ ch = <<>>
  /\ IF batch = <<>>
       THEN pc' = "select" /\ UNCHANGED <<wi, resume>>
       ELSE Flush("select")
  /\ UNCHANGED <<callerVars, ch, batch, cancelled, accepted, outVars,
                 stopVars>>

\* The drain finds the channel empty: a last flushBatch, then return.
DrainEmpty ==
  /\ pc = "drain"
  /\ ch = <<>>
  /\ IF batch = <<>>
       THEN pc' = "exited" /\ UNCHANGED <<wi, resume>>
       ELSE Flush("exited")
  /\ UNCHANGED <<callerVars, ch, batch, cancelled, accepted, outVars,
                 stopVars>>

\* How many signals of the batch a failing Write of output o may leave
\* behind: none for a database transaction, a prefix for the filesystem.
Partial(o) == IF o \in CtxAware THEN {0} ELSE 0..Len(batch)

Asked(o) ==
  /\ pc = "write"
  /\ wi = o
  /\ handled' = [handled EXCEPT ![o] = @ \o batch]
  /\ UNCHANGED <<callerVars, ch, pc, batch, resume, cancelled, accepted,
                 stopVars>>

\* Under a context that is already cancelled a database refuses the batch. (A
\* Write that is cancelled half-way and still succeeds is Write, then cancel.)
WriteOK(o) ==
  /\ ~(cancelled /\ o \in CtxAware)
  /\ Asked(o)
  /\ stored' = [stored EXCEPT ![o] = @ \o batch]
  /\ wi' = wi + 1
  /\ UNCHANGED failed

\* Mutant: write returns at the first error.
WriteFailReturns(o) ==
  /\ Asked(o)
  /\ \E n \in Partial(o) :
       stored' = [stored EXCEPT ![o] = @ \o SubSeq(batch, 1, n)]
  /\ wi' = NumOutputs + 1
  /\ failed' = failed \cup {o}

\* The error is logged; the batch is not retried and the next output follows.
WriteFail(o) ==
  /\ Asked(o)
  /\ \E n \in Partial(o) :
       stored' = [stored EXCEPT ![o] = @ \o SubSeq(batch, 1, n)]
  /\ wi' = wi + 1
  /\ failed' = failed \cup {o}

\* Mutant: the batch is not reset after it was written.
WriteDoneNoReset ==
  /\ pc = "write"
  /\ wi = NumOutputs + 1
  /\ pc' = resume
  /\ UNCHANGED <<callerVars, ch, batch, wi, resume, cancelled, accepted,
                 outVars, stopVars>>

WriteDone ==
  /\ pc = "write"
  /\ wi = NumOutputs + 1
  /\ batch' = <<>>
  /\ pc' = resume
  /\ UNCHANGED <<callerVars, ch, wi, resume, cancelled, accepted, outVars,
                 stopVars>>

Write(o) == WriteOK(o) \/ WriteFail(o)

Loop ==
  \/ Receive
  \/ Tick
  \/ SeeCancel
  \/ DrainEmpty
  \/ \E o \in Outputs : Write(o)
  \/ WriteDone

-----------------------------------------------------------------------------
(* Shutdown *)

\* The parent context, the one Start was given, is done: SIGTERM.
CancelParent ==
  /\ ~cancelled
  /\ cancelled' = TRUE
  /\ UNCHANGED <<callerVars, ch, loopVars, accepted, outVars, stopVars>>

\* Stop is called, once, on a started dispatcher: App.Stop follows App.Start.
StopCall ==
  /\ pc # "idle"
  /\ stop = "none"
  /\ stop' = "waiting"
  /\ cancelled' = TRUE
  /\ UNCHANGED <<callerVars, ch, loopVars, accepted, outVars, synced>>

\* Mutant: Stop flushes the outputs without waiting for the goroutine.
StopFlushNoWait(bad) ==
  /\ stop = "waiting"
  /\ synced' = [o \in Outputs |-> IF o \in bad THEN synced[o]
                                               ELSE Len(stored[o])]
  /\ stop' = IF bad = {} THEN "done" ELSE "flusherr"
  /\ UNCHANGED <<callerVars, ch, loopVars, cancelled, accepted, outVars>>

\* The goroutine has returned: flushAll. The outputs of bad fail to flush;
\* the others are flushed all the same.
StopFlush(bad) ==
  /\ stop = "waiting"
  /\ pc = "exited"
  /\ synced' = [o \in Outputs |-> IF o \in bad THEN synced[o]
                                               ELSE Len(stored[o])]
  /\ stop' = IF bad = {} THEN "done" ELSE "flusherr"
  /\ UNCHANGED <<callerVars, ch, loopVars, cancelled, accepted, outVars>>

\* The context of Stop ends first: nothing is flushed, the loop goes on.
StopTimeout ==
  /\ stop = "waiting"
  /\ stop' = "timedout"
  /\ UNCHANGED <<callerVars, ch, loopVars, cancelled, accepted, outVars,
                 synced>>

Next ==
  \/ \E c \in Callers : Dispatch(c) \/ EndContext(c)
  \/ Start
  \/ Loop
  \/ CancelParent
  \/ StopCall
  \/ \E bad \in SUBSET Outputs : StopFlush(bad)
  \/ StopTimeout

Spec == Init /\ [][Next]_vars

\* The goroutine keeps being scheduled, its ticker keeps ticking and every
\* Write returns; Stop's select notices that the goroutine has returned.
FlushAny == \E bad \in SUBSET Outputs : StopFlush(bad)

Fairness == WF_vars(Loop) /\ WF_vars(FlushAny)

FairSpec == Spec /\ Fairness

-----------------------------------------------------------------------------
(* Properties *)

\* What the loop holds that output o has not been asked to write: the batch,
\* unless write is past o, and the channel.
Pending(o) ==
  (IF pc = "write" /\ o < wi THEN <<>> ELSE batch) \o ch

\* Nothing is lost, repeated or reordered between the channel and an output:
\* what an output was asked to write, followed by what the loop still holds
\* for it, is what was accepted, in the order of acceptance
\* (loop, flushBatch and write; dispatcher.go:161-206).
Conservation == \A o \in Outputs : accepted = handled[o] \o Pending(o)

\* The failure of one output leaves the others alone: once the goroutine has
\* returned, an output that never failed holds every accepted signal except
\* those that arrived after the drain (write goes on after an error;
\* dispatcher.go:200-206, docs/outputs.md:93).
Isolation ==
  pc = "exited" => \A o \in Outputs \ failed : accepted = stored[o] \o ch

\* A Stop that returned no error flushed every output after its last write
\* and no write follows (dispatcher.go:94-109).
StopIsFinal ==
  stop = "done" => \A o \in Outputs : synced[o] = Len(stored[o])

\* A signal in the channel is written by every output, even through a
\* shutdown, unless the goroutine has already taken its last look at the
\* channel (loop's drain; dispatcher.go:173-188).
Draining == pc \in {"select", "drain"} \/ (pc = "write" /\ resume # "exited")

QueuedIsHandled ==
  \A s \in Signals :
    ((\E i \in DOMAIN ch : ch[i] = s) /\ Draining)
      ~> (\A o \in Outputs : \E i \in DOMAIN handled[o] : handled[o][i] = s)

\* A started dispatcher that is cancelled stops, so that a Stop without a
\* deadline returns (dispatcher.go:94-109, 173-188).
LoopExits == (cancelled /\ pc # "idle") ~> (pc = "exited")

\* The dispatcher implements the abstract log (SignalLog).
Log == INSTANCE SignalLog WITH
         Item <- Signals, Readers <- Outputs,
         Chunk <- BatchSize, Backlog <- QueueSize + BatchSize,
         log <- accepted, read <- handled

ImplementsLog == Log!Spec
=============================================================================
