------------------------------- MODULE Server -------------------------------
(***************************************************************************)
(* The life of the server process around its dispatcher: app.Start opens   *)
(* the inputs and the HTTP listener, sessions of five kinds decode and     *)
(* dispatch signals, SIGTERM ends the context of the process, and app.Stop *)
(* takes everything down in order under a deadline of ten seconds, after   *)
(* which the process exits.                                                *)
(*                                                                         *)
(* A caller of Dispatcher is one session here: an HTTP POST of a batch     *)
(* (http), a websocket on /stream (ws), a TCP connection (tcp), the UDP    *)
(* read loop (udp) or a gRPC SendStream (grpc).                            *)
(***************************************************************************)
EXTENDS Dispatcher

CONSTANTS
  Kind,    \* Kind[c]: the kind of session c
  Inputs   \* the configured inputs, in order; /ingest and /stream are served
           \* by the HTTP server of the app, which is not one of them

ASSUME ServerAssumption ==
  /\ Kind \in [Callers -> {"http", "ws", "tcp", "udp", "grpc"}]
  /\ Inputs \in Seq({"tcp", "udp", "grpc"})
  /\ BatchCallers = {}   \* no input uses DispatchBatch

VARIABLES
  phase,      \* how far the process is
  at,         \* the input that app.Start or app.Stop is at
  listening,  \* the listeners that accept sessions
  sess,       \* sess[c]: new, open, reading (blocked in a read), done
  expired,    \* the ten seconds of app.Stop are over
  outOpen,    \* the outputs have not been closed
  before      \* history: how much had been accepted at SIGTERM

appVars == <<phase, at, listening, expired, outOpen, before>>
dispVars == vars
svars == <<dispVars, appVars, sess>>

Running == phase \notin {"failed", "exited"}
Listener(c) == IF Kind[c] \in {"http", "ws"} THEN "http" ELSE Kind[c]

ServerTypeOK ==
  /\ phase \in {"new", "starting", "serving", "shutdown", "inputs", "disp",
                "close", "failed", "exited"}
  /\ at \in 1..(Len(Inputs) + 1)
  /\ listening \subseteq {"http", "tcp", "udp", "grpc"}
  /\ sess \in [Callers -> {"new", "open", "reading", "done"}]
  /\ expired \in BOOLEAN /\ outOpen \in BOOLEAN
  /\ before \in Nat

ServerInit ==
  /\ Init
  /\ phase = "new"
  /\ at = 1
  /\ listening = {}
  /\ sess = [c \in Callers |-> "new"]
  /\ expired = FALSE
  /\ outOpen = TRUE
  /\ before = 0

-----------------------------------------------------------------------------
(* app.Start *)

StartDispatcher ==
  /\ phase = "new"
  /\ Start
  /\ phase' = "starting"
  /\ UNCHANGED <<at, listening, expired, outOpen, before, sess>>

\* One input after the other starts to listen.
StartInput ==
  /\ phase = "starting"
  /\ at <= Len(Inputs)
  /\ listening' = listening \cup {Inputs[at]}
  /\ at' = at + 1
  /\ UNCHANGED <<dispVars, phase, expired, outOpen, before, sess>>

StartHTTP ==
  /\ phase = "starting"
  /\ at = Len(Inputs) + 1
  /\ listening' = listening \cup {"http"}
  /\ phase' = "serving"
  /\ UNCHANGED <<dispVars, at, expired, outOpen, before, sess>>

\* A listener cannot be opened: Start returns the error and the process exits
\* without stopping what it had started.
StartFails ==
  /\ phase = "starting"
  /\ phase' = "failed"
  /\ UNCHANGED <<dispVars, at, listening, expired, outOpen, before, sess>>

-----------------------------------------------------------------------------
(* Sessions *)

Accept(c) ==
  /\ sess[c] = "new"
  /\ Listener(c) \in listening
  /\ sess' = [sess EXCEPT ![c] = "open"]
  /\ UNCHANGED <<dispVars, appVars>>

\* TCP and UDP look at their context before every read.
CheckContext(c) ==
  /\ Kind[c] \in {"tcp", "udp"}
  /\ sess[c] = "open"
  /\ sess' = [sess EXCEPT ![c] = IF cancelled THEN "done" ELSE "reading"]
  /\ UNCHANGED <<dispVars, appVars>>

\* A signal has been read and decoded: it is dispatched. An error of Dispatch
\* is ignored by all five (a gRPC stream does not count the signal).
Ingest(c) ==
  /\ sess[c] = IF Kind[c] \in {"tcp", "udp"} THEN "reading" ELSE "open"
  /\ Dispatch(c)
  /\ sess' = [sess EXCEPT ![c] = "open"]
  /\ UNCHANGED appVars

\* Mutant: a read of a TCP connection has no deadline.
ReadFailsNoDeadline(c) ==
  /\ Kind[c] = "udp"
  /\ sess[c] = "reading"
  /\ sess' = [sess EXCEPT ![c] = "open"]
  /\ UNCHANGED <<dispVars, appVars>>

\* A read fails: a TCP connection ends (its client has left or has been silent
\* for 60 s); the UDP loop looks at its context again.
ReadFails(c) ==
  /\ Kind[c] \in {"tcp", "udp"}
  /\ sess[c] = "reading"
  /\ sess' = [sess EXCEPT ![c] = IF Kind[c] = "tcp" THEN "done" ELSE "open"]
  /\ UNCHANGED <<dispVars, appVars>>

\* Every event of the batch has been dispatched: 202, whatever came of them.
Reply(c) ==
  /\ Kind[c] = "http"
  /\ sess[c] = "open"
  /\ todo[c] = <<>>
  /\ sess' = [sess EXCEPT ![c] = "done"]
  /\ UNCHANGED <<dispVars, appVars>>

\* The client closes its websocket or stream.
ClientCloses(c) ==
  /\ Kind[c] \in {"ws", "grpc"}
  /\ sess[c] = "open"
  /\ sess' = [sess EXCEPT ![c] = "done"]
  /\ UNCHANGED <<dispVars, appVars>>

\* The client of a request or stream vanishes: its context ends.
ClientVanishes(c) ==
  /\ Kind[c] \in {"http", "grpc"}
  /\ sess[c] = "open"
  /\ EndContext(c)
  /\ UNCHANGED <<appVars, sess>>

Handler(c) == CheckContext(c) \/ Ingest(c) \/ ReadFails(c) \/ Reply(c)

-----------------------------------------------------------------------------
(* SIGTERM and app.Stop *)

\* The context of the process ends, and with it those of the dispatcher's loop
\* and of the TCP and UDP inputs.
Sigterm ==
  /\ phase \in {"starting", "serving"}
  /\ ~cancelled
  /\ cancelled' = TRUE
  /\ ctxDone' = [c \in Callers |-> ctxDone[c] \/ Kind[c] \in {"tcp", "udp"}]
  /\ before' = Len(accepted)
  /\ UNCHANGED <<todo, ch, loopVars, accepted, outVars, stopVars,
                 phase, at, listening, expired, outOpen, sess>>

\* The gRPC input watches the context itself and stops accepting.
GrpcSeesContext ==
  /\ cancelled
  /\ "grpc" \in listening
  /\ listening' = listening \ {"grpc"}
  /\ UNCHANGED <<dispVars, phase, at, expired, outOpen, before, sess>>

\* Run notices the end of the context; app.Stop begins with http.Shutdown.
BeginStop ==
  /\ phase = "serving"
  /\ cancelled
  /\ phase' = "shutdown"
  /\ listening' = listening \ {"http"}
  /\ at' = 1
  /\ UNCHANGED <<dispVars, expired, outOpen, before, sess>>

DeadlineExpires ==
  /\ phase \in {"shutdown", "inputs", "disp", "close"}
  /\ ~expired
  /\ expired' = TRUE
  /\ UNCHANGED <<dispVars, phase, at, listening, outOpen, before, sess>>

\* Mutant: Close in place of Shutdown, which waits for no request.
ShutdownAtOnce ==
  /\ phase = "shutdown"
  /\ phase' = "inputs"
  /\ UNCHANGED <<dispVars, at, listening, expired, outOpen, before, sess>>

\* Shutdown waits for the requests, not for websockets (hijacked), and gives
\* up at the deadline.
ShutdownReturns ==
  /\ phase = "shutdown"
  /\ expired \/ \A c \in Callers : Kind[c] = "http" => sess[c] # "open"
  /\ phase' = "inputs"
  /\ UNCHANGED <<dispVars, at, listening, expired, outOpen, before, sess>>

\* Stop of the next input closes its listener ...
CloseListener ==
  /\ phase = "inputs"
  /\ at <= Len(Inputs)
  /\ Inputs[at] \in listening
  /\ listening' = listening \ {Inputs[at]}
  /\ UNCHANGED <<dispVars, phase, at, expired, outOpen, before, sess>>

\* ... and waits for its sessions without regard to the deadline.
InputStopped ==
  /\ phase = "inputs"
  /\ at <= Len(Inputs)
  /\ Inputs[at] \notin listening
  /\ \A c \in Callers : Kind[c] = Inputs[at] => sess[c] \in {"new", "done"}
  /\ at' = at + 1
  /\ UNCHANGED <<dispVars, phase, listening, expired, outOpen, before, sess>>

StopDispatcher ==
  /\ phase = "inputs"
  /\ at = Len(Inputs) + 1
  /\ StopCall
  /\ phase' = "disp"
  /\ UNCHANGED <<at, listening, expired, outOpen, before, sess>>

\* Stop of the dispatcher ends, one way or the other; its error is ignored.
DispatcherStops ==
  /\ phase = "disp"
  /\ (\E bad \in SUBSET Outputs : StopFlush(bad)) \/ (expired /\ StopTimeout)
  /\ phase' = "close"
  /\ UNCHANGED <<at, listening, expired, outOpen, before, sess>>

\* Mutant: the outputs are closed without waiting for the dispatcher.
CloseOutputsEarly ==
  /\ phase \in {"disp", "close"}
  /\ outOpen
  /\ outOpen' = FALSE
  /\ UNCHANGED <<dispVars, phase, at, listening, expired, before, sess>>

CloseOutputs ==
  /\ phase = "close"
  /\ outOpen
  /\ outOpen' = FALSE
  /\ UNCHANGED <<dispVars, phase, at, listening, expired, before, sess>>

\* Run returns and the process exits, with every goroutine that is left.
Exit ==
  /\ phase = "close"
  /\ ~outOpen
  /\ phase' = "exited"
  /\ UNCHANGED <<dispVars, at, listening, expired, outOpen, before, sess>>

Main ==
  \/ StartDispatcher \/ StartInput \/ StartHTTP
  \/ BeginStop \/ ShutdownReturns \/ CloseListener \/ InputStopped
  \/ StopDispatcher \/ DispatcherStops \/ CloseOutputs \/ Exit

LoopStep == Loop /\ UNCHANGED <<appVars, sess>>

\* A process that has exited takes no step.
ServerNext ==
  \/ Main
  \/ StartFails
  \/ Running /\ LoopStep
  \/ \E c \in Callers :
       \/ Running /\ Accept(c)
       \/ Running /\ Handler(c)
       \/ Running /\ ClientCloses(c)
       \/ Running /\ ClientVanishes(c)
  \/ Sigterm
  \/ Running /\ GrpcSeesContext
  \/ DeadlineExpires

ServerSpec == ServerInit /\ [][ServerNext]_svars

\* The goroutines of the process are scheduled, reads have deadlines and so
\* has Stop. The stream of a client that has vanished ends; clients that stay
\* owe nothing to the server.
ServerFairness ==
  /\ WF_svars(Running /\ Main)
  /\ WF_svars(Running /\ LoopStep)
  /\ WF_svars(Running /\ DeadlineExpires)
  /\ \A c \in Callers :
       /\ WF_svars(Running /\ Handler(c))
       /\ WF_svars(Running /\ ctxDone[c] /\ ClientCloses(c))

FairServerSpec == ServerSpec /\ ServerFairness

-----------------------------------------------------------------------------
(* Properties *)

\* app.Stop closes the outputs under the loop's feet only when the dispatcher
\* did not stop within the deadline (app.go:338-348).
OutputsClosedLast == (~outOpen /\ pc # "exited") => stop = "timedout"

\* app.Stop stops the sources before the dispatcher: when it stops the
\* dispatcher, the only sessions left are websockets and, past the deadline,
\* HTTP requests (app.go:338-348).
SourcesStopFirst ==
  phase \in {"disp", "close"} =>
    \A c \in Callers : sess[c] \in {"open", "reading"} =>
      Kind[c] = "ws" \/ (Kind[c] = "http" /\ expired)

\* An orderly exit hands every output all that was accepted before SIGTERM
\* (app.go:338-348, dispatcher.go:94-109, 173-188).
ExitKeepsAccepted ==
  (phase = "exited" /\ stop = "done") =>
    \A o \in Outputs : Len(handled[o]) >= before

\* A process that is asked to terminate does (run.go:22-34, app.go:338-348).
TerminationExits == cancelled ~> ~Running
=============================================================================
