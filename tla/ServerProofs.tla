---------------------------- MODULE ServerProofs ----------------------------
(***************************************************************************)
(* Proofs about Server, for any sessions, inputs, load, pipeline, outputs  *)
(* and sizes.                                                              *)
(***************************************************************************)
EXTENDS Server, DispatcherProofs

\* How far the stop of the dispatcher is in each phase of the process.
PhaseInv ==
  /\ phase \in {"new", "starting", "serving", "failed", "shutdown", "inputs"} => stop = "none"
  /\ phase = "disp" => stop = "waiting"
  /\ phase \in {"close", "exited"} => stop \in {"done", "flusherr", "timedout"}
  /\ stop \in {"done", "flusherr"} => pc = "exited"
  /\ ~outOpen => phase \in {"close", "exited"}

\* Which sessions are left once app.Stop has gone past their source.
Over(c) == sess[c] \in {"new", "done"}
Stopping == {"shutdown", "inputs", "disp", "close"}

SourceInv ==
  /\ listening \subseteq {"http"} \cup {Inputs[i] : i \in DOMAIN Inputs}
  /\ at \in Nat \ {0}
  /\ sess \in [Callers -> {"new", "open", "reading", "done"}]
  /\ \A c \in Callers :
       /\ ~Over(c) => Kind[c] \in {"http", "ws"} \/ \E i \in DOMAIN Inputs : Inputs[i] = Kind[c]
       /\ sess[c] = "reading" => Kind[c] \in {"tcp", "udp"}
  /\ phase \in Stopping => "http" \notin listening
  /\ phase = "shutdown" => at = 1
  /\ phase \in {"inputs", "disp", "close"} =>
       \A c \in Callers : Kind[c] = "http" => Over(c) \/ expired
  /\ phase = "inputs" =>
       \A i \in DOMAIN Inputs : i < at =>
         /\ Inputs[i] \notin listening
         /\ \A c \in Callers : Kind[c] = Inputs[i] => Over(c)
  /\ phase \in {"disp", "close"} =>
       \A i \in DOMAIN Inputs :
         /\ Inputs[i] \notin listening
         /\ \A c \in Callers : Kind[c] = Inputs[i] => Over(c)

\* What had been accepted at SIGTERM has left the channel when the loop takes
\* its last look at it.
LastLook == pc = "exited" \/ (pc = "write" /\ resume = "exited")

BeforeInv ==
  /\ before \in Nat /\ before <= Len(accepted)
  /\ ~cancelled => before = 0
  /\ LastLook => before + Len(ch) <= Len(accepted)
  /\ (LastLook \/ pc = "drain" \/ (pc = "write" /\ resume = "drain")) => cancelled
  /\ phase \in {"shutdown", "inputs", "disp", "close", "exited"} => cancelled

-----------------------------------------------------------------------------
(* The dispatcher inside the server *)

\* Every step of the server is a step of the dispatcher, a step that leaves
\* it alone, or the SIGTERM that ends its context.
LEMMA ServerDispatches == ServerNext => [Next]_vars \/ Sigterm
<1>1. Main \/ StartFails => [Next]_vars
  BY DEF Main, StartDispatcher, StartInput, StartHTTP, BeginStop, ShutdownReturns,
         CloseListener, InputStopped, StopDispatcher, DispatcherStops, CloseOutputs, Exit,
         StartFails, dispVars, Next
<1>2. ASSUME NEW c \in Callers,
             Accept(c) \/ Handler(c) \/ ClientCloses(c) \/ ClientVanishes(c)
      PROVE  [Next]_vars
  BY <1>2 DEF Accept, Handler, CheckContext, Ingest, ReadFails, Reply, ClientCloses,
              ClientVanishes, dispVars, Next
<1>3. LoopStep => [Next]_vars
  BY DEF LoopStep, Next
<1>4. GrpcSeesContext \/ DeadlineExpires => [Next]_vars
  BY DEF GrpcSeesContext, DeadlineExpires, dispVars
<1> QED BY <1>1, <1>2, <1>3, <1>4 DEF ServerNext

LEMMA ServerIInv == IInv /\ [ServerNext]_svars => IInv'
<1>1. IInv /\ Sigterm => IInv'
  <2> SUFFICES ASSUME IInv, Sigterm PROVE IInv'
    OBVIOUS
  <2>1. /\ UNCHANGED <<todo, ch, pc, batch, wi, resume, accepted, handled, stored,
                       failed, stop, synced>>
        /\ cancelled' = TRUE /\ ctxDone' \in [Callers -> BOOLEAN]
    BY DEF Sigterm, loopVars, outVars, stopVars, IInv, TypeOK
  <2> QED BY <2>1 DEF IInv, TypeOK, BatchInv, Conservation, Pending, StoredInv, StopInv
<1>2. UNCHANGED svars => UNCHANGED vars
  BY DEF svars, dispVars
<1> QED BY <1>1, <1>2, ServerDispatches, NextIInv

LEMMA ServerKeepsIInv == ServerSpec => []IInv
<1>1. ServerInit => IInv
  BY InitIInv DEF ServerInit
<1> QED BY <1>1, ServerIInv, PTL DEF ServerSpec

-----------------------------------------------------------------------------
(* The outputs are closed last *)

LEMMA LoopAndStop == Loop => UNCHANGED <<stop, synced>> /\ pc # "exited"
BY DEF Loop, Receive, Tick, SeeCancel, DrainEmpty, Write, WriteOK, WriteFail, Asked, WriteDone,
       stopVars

LEMMA CallersAndLoop ==
  ASSUME NEW c \in Callers, Dispatch(c) \/ EndContext(c)
  PROVE  UNCHANGED <<pc, batch, wi, resume, cancelled, handled, stored, failed, stop, synced>>
BY DEF Dispatch, Reject, Send, Expire, Drop, EndContext, Return, loopVars, outVars, stopVars

LEMMA NextPhase == PhaseInv /\ [ServerNext]_svars => PhaseInv'
<1> SUFFICES ASSUME PhaseInv, [ServerNext]_svars PROVE PhaseInv'
  OBVIOUS
<1> USE DEF PhaseInv, appVars, dispVars, vars, loopVars, stopVars
<1>1. CASE StartDispatcher
  BY <1>1 DEF StartDispatcher, Start
<1>2. CASE StartInput \/ StartHTTP \/ StartFails
  BY <1>2 DEF StartInput, StartHTTP, StartFails
<1>3. CASE BeginStop \/ ShutdownReturns \/ CloseListener \/ InputStopped
  BY <1>3 DEF BeginStop, ShutdownReturns, CloseListener, InputStopped
<1>4. CASE StopDispatcher
  BY <1>4 DEF StopDispatcher, StopCall
<1>5. CASE DispatcherStops
  BY <1>5 DEF DispatcherStops, StopFlush, StopTimeout
<1>6. CASE CloseOutputs \/ Exit
  BY <1>6 DEF CloseOutputs, Exit
<1>7. CASE Running /\ LoopStep
  BY <1>7, LoopAndStop DEF LoopStep
<1>8. ASSUME NEW c \in Callers, Handler(c) PROVE PhaseInv'
  <2>1. UNCHANGED <<pc, stop, appVars>>
    BY <1>8, CallersAndLoop DEF Handler, CheckContext, Ingest, ReadFails, Reply
  <2> QED BY <2>1
<1>9. ASSUME NEW c \in Callers, Accept(c) \/ ClientCloses(c) \/ ClientVanishes(c)
      PROVE  PhaseInv'
  <2>1. UNCHANGED <<pc, stop, appVars>>
    BY <1>9, CallersAndLoop DEF Accept, ClientCloses, ClientVanishes
  <2> QED BY <2>1
<1>10. CASE Sigterm
  BY <1>10 DEF Sigterm
<1>11. CASE GrpcSeesContext \/ DeadlineExpires
  BY <1>11 DEF GrpcSeesContext, DeadlineExpires
<1>12. CASE UNCHANGED svars
  BY <1>12 DEF svars
<1> QED
  BY <1>1, <1>2, <1>3, <1>4, <1>5, <1>6, <1>7, <1>8, <1>9, <1>10, <1>11,
     <1>12 DEF ServerNext, Main

\* app.Stop closes the outputs under a running loop only when the dispatcher
\* did not stop in time (app.go:338-348).
THEOREM ServerClosesLast == ServerSpec => []OutputsClosedLast
<1>1. ServerInit => PhaseInv
  BY DEF ServerInit, Init, PhaseInv
<1>2. PhaseInv => OutputsClosedLast
  BY DEF PhaseInv, OutputsClosedLast
<1> QED BY <1>1, <1>2, NextPhase, PTL DEF ServerSpec

-----------------------------------------------------------------------------
(* The sources stop before the dispatcher *)

LEMMA NextSource == SourceInv /\ [ServerNext]_svars => SourceInv'
<1> SUFFICES ASSUME SourceInv, [ServerNext]_svars PROVE SourceInv'
  OBVIOUS
<1> USE DEF SourceInv, appVars, Stopping, Over
<1>0. /\ Kind \in [Callers -> {"http", "ws", "tcp", "udp", "grpc"}]
      /\ DOMAIN Inputs = 1..Len(Inputs) /\ Len(Inputs) \in Nat
      /\ \A i \in DOMAIN Inputs : Inputs[i] \in {"tcp", "udp", "grpc"}
  BY ServerAssumption, LenProperties, ElementOfSeq
<1>1. CASE StartDispatcher \/ StartFails \/ Sigterm
  BY <1>1 DEF StartDispatcher, StartFails, Sigterm
<1>2. CASE StartInput
  <2>1. at \in DOMAIN Inputs /\ at + 1 \in Nat \ {0} /\ phase = "starting"
    BY <1>0, <1>2 DEF StartInput
  <2>2. /\ listening' = listening \cup {Inputs[at]} /\ at' = at + 1
        /\ UNCHANGED <<phase, expired, sess>>
    BY <1>2 DEF StartInput
  <2> QED BY <2>1, <2>2
<1>3. CASE StartHTTP
  BY <1>3 DEF StartHTTP
<1>4. CASE BeginStop
  BY <1>4 DEF BeginStop
<1>5. CASE ShutdownReturns
  <2>1. \A c \in Callers : Kind[c] = "http" => Over(c) \/ expired
    BY <1>5 DEF ShutdownReturns
  <2>2. at = 1 /\ \A i \in DOMAIN Inputs : ~(i < at)
    BY <1>0, <1>5 DEF ShutdownReturns
  <2>3. phase' = "inputs" /\ phase = "shutdown" /\ UNCHANGED <<listening, at, expired, sess>>
    BY <1>5 DEF ShutdownReturns
  <2> QED BY <2>1, <2>2, <2>3
<1>6. CASE CloseListener
  BY <1>6 DEF CloseListener
<1>7. CASE InputStopped
  <2>1. \A i \in DOMAIN Inputs : i < at + 1 => i < at \/ i = at
    BY <1>0
  <2> QED BY <1>7, <2>1 DEF InputStopped
<1>8. CASE StopDispatcher
  <2>1. \A i \in DOMAIN Inputs : i < at
    BY <1>0, <1>8 DEF StopDispatcher
  <2> QED BY <1>8, <2>1 DEF StopDispatcher
<1>9. CASE DispatcherStops \/ CloseOutputs \/ Exit
  <2>1. /\ UNCHANGED <<listening, at, expired, sess>>
        /\ \/ phase' = phase
           \/ phase = "disp" /\ phase' = "close"
           \/ phase' = "exited"
    BY <1>9 DEF DispatcherStops, CloseOutputs, Exit
  <2> QED BY <2>1
<1>10. CASE Running /\ LoopStep
  BY <1>10 DEF LoopStep
<1>11. ASSUME NEW c \in Callers, Accept(c) PROVE SourceInv'
  <2>1. /\ sess' = [sess EXCEPT ![c] = "open"] /\ sess[c] = "new"
        /\ IF Kind[c] \in {"http", "ws"} THEN "http" \in listening ELSE Kind[c] \in listening
        /\ UNCHANGED <<phase, at, listening, expired>>
    BY <1>11 DEF Accept, Listener
  <2>2. Kind[c] \in {"http", "ws"} \/ \E i \in DOMAIN Inputs : Inputs[i] = Kind[c]
    BY <2>1
  <2>3. \A d \in Callers : d # c => sess'[d] = sess[d]
    BY <2>1
  <2>4. sess'[c] = "open"
    BY <2>1
  <2>5. sess' \in [Callers -> {"new", "open", "reading", "done"}]
    BY <2>1
  <2> QED BY <1>0, <2>1, <2>2, <2>3, <2>4, <2>5
\* A session goes on, or ends.
<1>12. ASSUME NEW c \in Callers, ~Over(c), UNCHANGED <<phase, at, listening, expired>>,
              \/ UNCHANGED sess
              \/ \E s \in {"open", "done"} : sess' = [sess EXCEPT ![c] = s]
              \/ Kind[c] \in {"tcp", "udp"} /\ sess' = [sess EXCEPT ![c] = "reading"]
       PROVE  SourceInv'
  <2>1. /\ \A d \in Callers : ~Over(d)' => ~Over(d)
        /\ \A d \in Callers : sess'[d] = "reading" => Kind[d] \in {"tcp", "udp"}
        /\ sess' \in [Callers -> {"new", "open", "reading", "done"}]
    BY <1>12
  <2> QED BY <1>12, <2>1
<1>13. ASSUME NEW c \in Callers, Handler(c) PROVE SourceInv'
  <2>1. CASE CheckContext(c)
    BY <1>12, <2>1 DEF CheckContext
  <2>2. CASE Ingest(c)
    BY <1>12, <2>2 DEF Ingest
  <2>3. CASE ReadFails(c)
    BY <1>12, <2>3 DEF ReadFails
  <2>4. CASE Reply(c)
    BY <1>12, <2>4 DEF Reply
  <2> QED BY <1>13, <2>1, <2>2, <2>3, <2>4 DEF Handler
<1>14. ASSUME NEW c \in Callers, ClientCloses(c) \/ ClientVanishes(c) PROVE SourceInv'
  BY <1>12, <1>14 DEF ClientCloses, ClientVanishes
<1>15. CASE GrpcSeesContext \/ DeadlineExpires
  <2>1. /\ listening' \subseteq listening /\ (expired => expired')
        /\ UNCHANGED <<phase, at, sess>>
    BY <1>15 DEF GrpcSeesContext, DeadlineExpires
  <2> QED BY <2>1
<1>16. CASE UNCHANGED svars
  BY <1>16 DEF svars
<1> QED
  BY <1>1, <1>2, <1>3, <1>4, <1>5, <1>6, <1>7, <1>8, <1>9, <1>10, <1>11, <1>13, <1>14, <1>15,
     <1>16 DEF ServerNext, Main

\* When app.Stop comes to the dispatcher, no session of an input is left, and
\* an HTTP request only past the deadline (app.go:338-348).
THEOREM ServerSourcesFirst == ServerSpec => []SourcesStopFirst
<1>1. ServerInit => SourceInv
  BY DEF ServerInit, SourceInv, Over, Stopping
<1>2. SourceInv => SourcesStopFirst
  <2> SUFFICES ASSUME SourceInv, phase \in {"disp", "close"},
                      NEW c \in Callers, sess[c] \in {"open", "reading"}
               PROVE  Kind[c] = "ws" \/ (Kind[c] = "http" /\ expired)
    BY DEF SourcesStopFirst
  <2>1. ~Over(c)
    BY DEF Over
  <2> QED BY <2>1 DEF SourceInv
<1> QED BY <1>1, <1>2, NextSource, PTL DEF ServerSpec

-----------------------------------------------------------------------------
(* What had been accepted at SIGTERM *)

LEMMA NextBefore == IInv /\ PhaseInv /\ BeforeInv /\ [ServerNext]_svars => BeforeInv'
<1> SUFFICES ASSUME IInv, PhaseInv, BeforeInv, [ServerNext]_svars PROVE BeforeInv'
  OBVIOUS
<1> USE DEF BeforeInv, LastLook, appVars
<1>0. /\ Len(accepted) \in Nat /\ Len(ch) \in Nat /\ ch \in Seq(Signals)
      /\ accepted \in Seq(Signals)
      /\ pc \in {"idle", "select", "drain", "write", "exited"}
      /\ cancelled \in BOOLEAN
  BY LenProperties DEF IInv, TypeOK
<1>1. ASSUME UNCHANGED <<pc, resume, ch, accepted, cancelled, before>>,
             phase' \in Stopping \cup {"exited"} => cancelled
      PROVE  BeforeInv'
  BY <1>1 DEF Stopping
<1>2. CASE StartDispatcher
  BY <1>2 DEF StartDispatcher, Start, outVars, stopVars
<1>3. CASE StartInput \/ StartHTTP \/ StartFails
  BY <1>1, <1>3 DEF StartInput, StartHTTP, StartFails, dispVars, vars, loopVars, Stopping
<1>4. CASE BeginStop \/ ShutdownReturns \/ CloseListener \/ InputStopped
  BY <1>1, <1>4 DEF BeginStop, ShutdownReturns, CloseListener, InputStopped, dispVars, vars,
                    loopVars, Stopping
<1>5. CASE StopDispatcher
  <2>1. cancelled /\ cancelled'
    BY <1>5 DEF StopDispatcher, StopCall
  <2>2. UNCHANGED <<pc, resume, ch, accepted, before>>
    BY <1>5 DEF StopDispatcher, StopCall, loopVars
  <2> QED BY <2>1, <2>2
<1>6. CASE DispatcherStops \/ CloseOutputs \/ Exit
  <2>1. UNCHANGED <<pc, resume, ch, accepted, cancelled, before>>
    BY <1>6 DEF DispatcherStops, StopFlush, StopTimeout, CloseOutputs, Exit, dispVars, vars,
                loopVars
  <2>2. cancelled
    BY <1>6 DEF DispatcherStops, CloseOutputs, Exit
  <2> QED BY <1>1, <2>1, <2>2
<1>7. CASE Running /\ LoopStep
  <2>0. UNCHANGED <<phase, before, accepted>> /\ cancelled' = cancelled
    BY <1>7 DEF LoopStep, Loop, Receive, Tick, SeeCancel, DrainEmpty, Write, WriteOK, WriteFail,
                Asked, WriteDone
  <2>1. CASE Receive
    <3>1. ~LastLook' /\ ~LastLook
      BY <2>1 DEF Receive, Flush
    <3>2. (pc' = "drain" \/ (pc' = "write" /\ resume' = "drain")) => pc = "drain"
      BY <2>1 DEF Receive, Flush
    <3> QED BY <2>0, <3>1, <3>2
  <2>2. CASE Tick
    BY <2>0, <2>2 DEF Tick, Flush
  <2>3. CASE SeeCancel
    BY <2>0, <2>3 DEF SeeCancel
  <2>4. CASE DrainEmpty
    <3>1. cancelled /\ ch' = ch /\ Len(ch) = 0
      BY <2>4, EmptySeq DEF DrainEmpty
    <3> QED BY <1>0, <2>0, <3>1
  <2>5. ASSUME NEW o \in Outputs, Write(o) PROVE BeforeInv'
    <3>1. UNCHANGED <<pc, resume, ch>>
      BY <2>5 DEF Write, WriteOK, WriteFail, Asked
    <3> QED BY <2>0, <3>1
  <2>6. CASE WriteDone
    BY <2>0, <2>6 DEF WriteDone
  <2> QED BY <1>7, <2>1, <2>2, <2>3, <2>4, <2>5, <2>6 DEF LoopStep, Loop
<1>8. ASSUME NEW c \in Callers, Dispatch(c) \/ EndContext(c), UNCHANGED <<phase, before>>
      PROVE  BeforeInv'
  <2>1. UNCHANGED <<pc, resume, cancelled>>
    BY <1>8, CallersAndLoop
  <2>2. \/ UNCHANGED <<ch, accepted>>
        \/ \E s \in Signals : ch' = Append(ch, s) /\ accepted' = Append(accepted, s)
    <3>1. CASE Send(c)
      BY <3>1, HeadTailProperties DEF Send, IInv, TypeOK
    <3>2. CASE Reject(c) \/ Expire(c) \/ Drop(c) \/ EndContext(c)
      BY <3>2 DEF Reject, Expire, Drop, EndContext
    <3> QED BY <1>8, <3>1, <3>2 DEF Dispatch
  <2>3. \/ Len(ch') = Len(ch) /\ Len(accepted') = Len(accepted)
        \/ Len(ch') = Len(ch) + 1 /\ Len(accepted') = Len(accepted) + 1
    BY <1>0, <2>2, AppendProperties
  <2> QED BY <1>0, <1>8, <2>1, <2>3
<1>9. ASSUME NEW c \in Callers, Handler(c) \/ ClientVanishes(c) PROVE BeforeInv'
  <2>1. CASE Ingest(c) \/ ClientVanishes(c)
    BY <1>8, <2>1 DEF Ingest, ClientVanishes
  <2>2. CASE CheckContext(c) \/ ReadFails(c) \/ Reply(c)
    BY <1>1, <2>2 DEF CheckContext, ReadFails, Reply, dispVars, vars, loopVars, Stopping
  <2> QED BY <1>9, <2>1, <2>2 DEF Handler
<1>10. ASSUME NEW c \in Callers, Accept(c) \/ ClientCloses(c) PROVE BeforeInv'
  BY <1>1, <1>10 DEF Accept, ClientCloses, dispVars, vars, loopVars, Stopping
<1>11. CASE Sigterm
  <2>1. ~LastLook /\ UNCHANGED <<pc, resume, accepted, ch>> /\ cancelled' = TRUE
    BY <1>11 DEF Sigterm, loopVars
  <2>2. before' = Len(accepted)
    BY <1>11 DEF Sigterm
  <2> QED BY <1>0, <2>1, <2>2
<1>12. CASE GrpcSeesContext \/ DeadlineExpires
  BY <1>1, <1>12 DEF GrpcSeesContext, DeadlineExpires, dispVars, vars, loopVars, Stopping
<1>13. CASE UNCHANGED svars
  BY <1>1, <1>13 DEF svars, dispVars, vars, loopVars, Stopping
<1> QED
  BY <1>2, <1>3, <1>4, <1>5, <1>6, <1>7, <1>9, <1>10, <1>11, <1>12,
     <1>13 DEF ServerNext, Main

\* An orderly exit has handed every output all that was accepted before
\* SIGTERM (app.go:338-348, dispatcher.go:94-109, 173-188).
THEOREM ServerKeepsAccepted == ServerSpec => []ExitKeepsAccepted
<1>1. ServerInit => PhaseInv /\ BeforeInv
  BY EmptySeq DEF ServerInit, Init, PhaseInv, BeforeInv, LastLook
<1>2. IInv /\ PhaseInv /\ BeforeInv => ExitKeepsAccepted
  <2> SUFFICES ASSUME IInv, PhaseInv, BeforeInv, stop = "done", NEW o \in Outputs
               PROVE  Len(handled[o]) >= before
    BY DEF ExitKeepsAccepted
  <2>1. pc = "exited" /\ batch = <<>>
    BY DEF PhaseInv, IInv, BatchInv
  <2>2. /\ Len(handled[o]) \in Nat /\ Len(ch) \in Nat /\ Len(batch) = 0
        /\ \/ Len(accepted) = Len(handled[o]) + Len(ch)
           \/ Len(accepted) = Len(handled[o]) + Len(batch) + Len(ch)
    BY <2>1, Backlog, EmptySeq
  <2>3. before \in Nat /\ before + Len(ch) <= Len(accepted)
    BY <2>1 DEF BeforeInv, LastLook
  <2> QED BY <2>2, <2>3
<1> QED BY <1>1, <1>2, NextPhase, NextBefore, ServerIInv, ServerKeepsIInv, PTL DEF ServerSpec
=============================================================================
