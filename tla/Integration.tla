------------------------------ MODULE Integration ------------------------------
(***************************************************************************)
(* The process-wide agent of an application: Init under a sync.Once, from  *)
(* options and environment; the panic guards goroutines and HTTP handlers  *)
(* defer, each with the logger it found when it was set up; Main, which    *)
(* defers a guard and Close around the application; the bridge from the    *)
(* standard log; and the panics that end the process.                      *)
(*                                                                         *)
(* The agent itself is what module Agent promises: a record taken before   *)
(* Close is handed to a transport before Close returns, one that meets a   *)
(* closed agent is dropped without a word, and Sync waits for the queue to *)
(* empty but may give up. Its queue does not fill up here.                 *)
(***************************************************************************)
EXTENDS Integers, Sequences, FiniteSets, SequencesExt

CONSTANTS
  main,       \* the goroutine that calls MainWithConfig
  Others,     \* other goroutines and requests
  Calls,      \* <<o, env>>: what the options of a call of Init say, and the
              \* environment
  MainForms,  \* how the application sets itself up: Main, or as the docs say
  Shapes      \* how the other goroutines guard themselves

Procs == {main} \cup Others

\* How a goroutine guards itself; Close: a goroutine that closes the agent
\* at shutdown; Gin: a request behind GinRecovery.
Forms == {"Guard", "GuardAgent", "Do", "Recover", "Close", "Gin"}
Kinds == Forms \cup {"none", "gin.Recovery"}

Tokens == {"http", "https", "udp", "both", "other"}
Config == [Enable : BOOLEAN, Skip : BOOLEAN, Transport : SUBSET Tokens,
           UDPEndpoint : BOOLEAN, Bridge : {"unset", "on", "off"}]

ASSUME IntegrationAssumption ==
  /\ main \notin Others
  /\ \A c \in Calls :
       /\ c[1] \in Config
       /\ c[2] \in [enable : {"unset", "truthy", "other"}, transport : SUBSET Tokens]
  /\ MainForms \subseteq {"Main", "Docs"}
  /\ Shapes \subseteq [Others -> Forms]

VARIABLES
  cfg,      \* what the Init that came first was called with
  once,     \* the sync.Once: new, running, done
  agent,    \* the agent built: none, built, open, closing, closed
  ag,       \* the globals ag and logger are set
  bridged,  \* the standard log writes to the logger
  form,     \* how each process is guarded
  pc,       \* where each process is
  defers,   \* what each process has deferred, [kind, lg, cont]
  panic,    \* processes that are panicking
  pend,     \* records the agent took and has not handed to a transport
  via,      \* via[r]: the transport record r went over
  answers,  \* answers[p]: responses a request has written
  closer,   \* the process whose Close closes the agent
  over,     \* the process: no, exit, crash
  late,     \* history: processes whose Sync gave up
  owed      \* history: processes whose panic is owed a report: any guard with a
            \* logger is deferred, and no other goroutine closed the agent first

initVars == <<cfg, once, agent, ag, bridged, closer>>
recVars == <<pend, via, late, owed>>
vars == <<initVars, form, pc, defers, panic, recVars, answers, over>>

Levels == {"info", "error"}
Records == Procs \X Levels

Deferred == [kind : Kinds, lg : BOOLEAN, cont : BOOLEAN]

TypeOK ==
  /\ cfg \in Config
  /\ once \in {"new", "running", "done"}
  /\ agent \in {"none", "built", "open", "closing", "closed"}
  /\ ag \in BOOLEAN /\ bridged \in BOOLEAN
  /\ form \in [Procs -> Forms \cup MainForms]
  /\ pc \in [Procs -> {"start", "init", "publish", "bridge", "enter", "run", "unwind",
                       "report", "sync", "drain", "done"}]
  /\ defers \in [Procs -> Seq(Deferred)] /\ \A p \in Procs : Len(defers[p]) <= 2
  /\ panic \subseteq Procs
  /\ pend \subseteq Records /\ via \in [Records -> {"none", "http", "udp"}]
  /\ \A r \in pend : via[r] = "none"
  /\ answers \in [Procs -> 0..2]
  /\ closer \in SUBSET Procs /\ Cardinality(closer) <= 1
  /\ over \in {"no", "exit", "crash"}
  /\ late \subseteq Procs /\ owed \subseteq Procs

ZeroConfig == [Enable |-> FALSE, Skip |-> FALSE, Transport |-> {}, UDPEndpoint |-> FALSE,
               Bridge |-> "unset"]

Init ==
  /\ cfg = ZeroConfig
  /\ once = "new" /\ agent = "none" /\ ag = FALSE /\ bridged = FALSE
  /\ \E f \in MainForms, shape \in Shapes :
       form = [p \in Procs |-> IF p = main THEN f ELSE shape[p]]
  /\ pc = [p \in Procs |-> "start"]
  /\ defers = [p \in Procs |-> <<>>]
  /\ panic = {}
  /\ pend = {} /\ via = [r \in Records |-> "none"]
  /\ answers = [p \in Procs |-> 0]
  /\ closer = {}
  /\ over = "no"
  /\ late = {} /\ owed = {}

Goto(p, l) == pc' = [pc EXCEPT ![p] = l]

-----------------------------------------------------------------------------
(* The configuration *)

\* Options first, then what the environment sets.
ConfigFromEnv(o, env) ==
  [o EXCEPT !.Enable = IF env.enable = "unset" THEN @ ELSE env.enable = "truthy",
            !.Transport = IF env.transport = {} THEN @ ELSE env.transport]

\* http or udp; http when neither is named.
ParseTransport(ts) ==
  LET http == ts \cap {"http", "https"} # {}
      udp == "udp" \in ts
  IN [http |-> http \/ ~udp, udp |-> udp]

HasHTTP(c) == ParseTransport(c.Transport).http
HasUDP(c) == ParseTransport(c.Transport).udp /\ c.UDPEndpoint

\* There is a transport to build: udp alone needs an endpoint, while a missing
\* URL is filled in.
Buildable(c) == HasHTTP(c) \/ HasUDP(c)

BridgeEnabled(c) == IF c.Bridge = "unset" THEN c.Enable ELSE c.Bridge = "on"

\* LevelPolicy.Select: errors over http when there is http.
Select(level) ==
  IF level = "error" THEN (IF HasHTTP(cfg) THEN "http" ELSE "udp")
  ELSE (IF HasUDP(cfg) THEN "udp" ELSE "http")

-----------------------------------------------------------------------------
(* Init: the first caller runs it, callers that come meanwhile wait *)

CallInit(p) ==
  /\ pc[p] = "start" /\ once = "new"
  /\ once' = "running"
  /\ \E c \in Calls : cfg' = ConfigFromEnv(c[1], c[2])
  /\ Goto(p, "init")
  /\ UNCHANGED <<agent, ag, bridged, closer, form, defers, panic, recVars, answers, over>>

\* A later caller finds it done, and is told nothing of how it went.
InitDone(p) ==
  /\ pc[p] = "start" /\ once = "done"
  /\ Goto(p, "enter")
  /\ UNCHANGED <<initVars, form, defers, panic, recVars, answers, over>>

\* Not every goroutine calls Init.
NoInit(p) ==
  /\ pc[p] = "start" /\ p # main
  /\ Goto(p, "enter")
  /\ UNCHANGED <<initVars, form, defers, panic, recVars, answers, over>>

\* Mutant: the waiting callers are not let go.
InitSkippedHolds(p) ==
  /\ pc[p] = "init" /\ agent = "none" /\ (cfg.Skip \/ ~cfg.Enable)
  /\ Goto(p, "enter")
  /\ UNCHANGED <<initVars, form, defers, panic, recVars, answers, over>>

InitSkipped(p) ==
  /\ pc[p] = "init" /\ agent = "none" /\ (cfg.Skip \/ ~cfg.Enable)
  /\ once' = "done" /\ Goto(p, "enter")
  /\ UNCHANGED <<cfg, agent, ag, bridged, closer, form, defers, panic, recVars, answers, over>>

\* An error reaches the first caller only: MainWithConfig returns it, MustInit
\* panics with it.
InitReturnsError(p) ==
  /\ once' = "done"
  /\ Goto(p, "done")
  /\ over' = IF form[p] = "Main" THEN "exit" ELSE "crash"

InitNoTransport(p) ==
  /\ pc[p] = "init" /\ agent = "none"
  /\ cfg.Enable /\ ~cfg.Skip /\ ~Buildable(cfg)
  /\ InitReturnsError(p)
  /\ UNCHANGED <<cfg, agent, ag, bridged, closer, form, defers, panic, recVars, answers>>

NewAgent(p) ==
  /\ pc[p] = "init" /\ agent = "none"
  /\ cfg.Enable /\ ~cfg.Skip /\ Buildable(cfg)
  /\ agent' = "built"
  /\ UNCHANGED <<cfg, once, ag, bridged, closer, form, pc, defers, panic, recVars, answers, over>>

\* Mutant: the transports that did start are left as they are.
StartFailsLeaks(p) ==
  /\ pc[p] = "init" /\ agent = "built"
  /\ InitReturnsError(p)
  /\ UNCHANGED <<cfg, agent, ag, bridged, closer, form, defers, panic, recVars, answers>>

\* A transport does not start: the agent is closed again.
StartFails(p) ==
  /\ pc[p] = "init" /\ agent = "built"
  /\ agent' = "closed"
  /\ InitReturnsError(p)
  /\ UNCHANGED <<cfg, ag, bridged, closer, form, defers, panic, recVars, answers>>

StartAgent(p) ==
  /\ pc[p] = "init" /\ agent = "built"
  /\ agent' = "open" /\ Goto(p, "publish")
  /\ UNCHANGED <<cfg, once, ag, bridged, closer, form, defers, panic, recVars, answers, over>>

Publish(p) ==
  /\ pc[p] = "publish"
  /\ ag' = TRUE /\ Goto(p, "bridge")
  /\ UNCHANGED <<cfg, once, agent, bridged, closer, form, defers, panic, recVars, answers, over>>

InitReturns(p) ==
  /\ pc[p] = "bridge"
  /\ bridged' = BridgeEnabled(cfg)
  /\ once' = "done" /\ Goto(p, "enter")
  /\ UNCHANGED <<cfg, agent, ag, closer, form, defers, panic, recVars, answers, over>>

InitStep(p) ==
  \/ CallInit(p) \/ InitDone(p) \/ NoInit(p) \/ InitSkipped(p) \/ InitNoTransport(p)
  \/ NewAgent(p) \/ StartFails(p) \/ StartAgent(p) \/ Publish(p) \/ InitReturns(p)

-----------------------------------------------------------------------------
(* A process: it sets up its guards, logs, returns or panics, and runs what *)
(* it deferred, last first                                                  *)

\* The guard made now: without a logger Guard does nothing, GinRecovery is
\* gin's own, and the others recover but have nobody to tell.
Made(kind, cont) ==
  IF ag THEN [kind |-> kind, lg |-> TRUE, cont |-> cont]
  ELSE [kind |-> CASE kind = "Guard" -> "none" [] kind = "Gin" -> "gin.Recovery" [] OTHER -> kind,
        lg |-> FALSE, cont |-> cont /\ kind \in {"GuardAgent", "Do", "Recover"}]

CloseCall == [kind |-> "Close", lg |-> FALSE, cont |-> FALSE]

\* Mutant: the order of Main, in the form of the docs.
DefersAsMain(f, cont) ==
  CASE f \in {"Main", "Docs"} -> <<Made("Guard", cont), CloseCall>>
    [] f = "Close" -> <<CloseCall>>
    [] OTHER -> <<Made(f, cont)>>

\* What is deferred, in the order of the defer statements.
Defers(f, cont) ==
  CASE f = "Main" -> <<Made("Guard", cont), CloseCall>>
    [] f = "Docs" -> <<CloseCall, Made("Guard", cont)>>
    [] f = "Close" -> <<CloseCall>>
    [] OTHER -> <<Made(f, cont)>>

\* Main takes no options: its guard does not continue a panic.
Enter(p) ==
  /\ pc[p] = "enter"
  /\ \E cont \in IF form[p] = "Main" THEN {FALSE} ELSE BOOLEAN :
       defers' = [defers EXCEPT ![p] = Defers(form[p], cont)]
  /\ Goto(p, "run")
  /\ UNCHANGED <<initVars, form, panic, recVars, answers, over>>

\* An open agent takes the record; what overlaps its Close may be dropped.
Taken(r) == pend' = IF agent = "open" /\ via[r] = "none" THEN pend \cup {r} ELSE pend

\* A line of the standard log, through loggerWriter.
StdLog(p) ==
  /\ pc[p] = "run" /\ bridged
  /\ Taken(<<p, "info">>)
  /\ UNCHANGED <<initVars, form, pc, defers, panic, via, late, owed, answers, over>>

\* A request writes its answer; it may still panic after that.
Answer(p) ==
  /\ pc[p] = "run" /\ form[p] = "Gin" /\ answers[p] = 0
  /\ answers' = [answers EXCEPT ![p] = 1]
  /\ UNCHANGED <<initVars, form, pc, defers, panic, recVars, over>>

Return(p) ==
  /\ pc[p] = "run"
  /\ answers' = IF form[p] = "Gin" THEN [answers EXCEPT ![p] = 1] ELSE answers
  /\ Goto(p, "unwind")
  /\ UNCHANGED <<initVars, form, defers, panic, recVars, over>>

\* One of its guards has a logger, whether it recovers or not.
Guarded(p) == \E i \in DOMAIN defers[p] : defers[p][i].lg

Panics(p) ==
  /\ pc[p] = "run"
  /\ panic' = panic \cup {p} /\ Goto(p, "unwind")
  /\ owed' = IF agent = "open" /\ closer = {} /\ Guarded(p) THEN owed \cup {p} ELSE owed
  /\ UNCHANGED <<initVars, form, defers, pend, via, late, answers, over>>

Top(p) == Last(defers[p])
Pop(p) == defers' = [defers EXCEPT ![p] = Front(@)]
Unwinding(p) == pc[p] = "unwind" /\ defers[p] # <<>>

\* Guards that do not recover: nothing to recover, no guard at all, or
\* opslog4proc.Recover, whose recover() is not called by the deferred
\* function itself.
PassesBy(p) ==
  /\ Unwinding(p) /\ Top(p).kind # "Close"
  /\ p \notin panic \/ Top(p).kind \in {"none", "Recover"}
  /\ Pop(p)
  /\ UNCHANGED <<initVars, form, pc, panic, recVars, answers, over>>

Recovers(p) ==
  /\ Unwinding(p) /\ p \in panic
  /\ Top(p).kind \in {"Guard", "GuardAgent", "Do", "Gin", "gin.Recovery"}

\* ReportPanic: an error record, then Sync.
Report(p) ==
  /\ Recovers(p) /\ Top(p).lg
  /\ Taken(<<p, "error">>)
  /\ Goto(p, "report")
  /\ UNCHANGED <<initVars, form, defers, panic, via, late, owed, answers, over>>

\* Sync returns, or gives up: at its deadline, or because a worker has the
\* record in hand and does not count as busy yet.
ReportSynced(p) ==
  /\ pc[p] = "report"
  /\ late' = IF pend = {} THEN late ELSE late \cup {p}
  /\ Goto(p, "unwind")
  /\ defers' = [defers EXCEPT ![p] = [@ EXCEPT ![Len(@)].lg = FALSE]]
  /\ UNCHANGED <<initVars, form, panic, pend, via, owed, answers, over>>

\* Mutant: the panic handler answers whatever was written before.
RecoveredAnswers(p) ==
  /\ Recovers(p) /\ ~Top(p).lg
  /\ panic' = IF Top(p).cont THEN panic ELSE panic \ {p}
  /\ answers' = IF Top(p).kind \in {"Gin", "gin.Recovery"} /\ ~Top(p).cont
                  THEN [answers EXCEPT ![p] = @ + 1] ELSE answers
  /\ Pop(p)
  /\ UNCHANGED <<initVars, form, pc, recVars, over>>

\* The panic goes on, or ends here; a request is then answered with an error
\* unless an answer was written.
Recovered(p) ==
  /\ Recovers(p) /\ ~Top(p).lg
  /\ panic' = IF Top(p).cont THEN panic ELSE panic \ {p}
  /\ answers' = IF Top(p).kind \in {"Gin", "gin.Recovery"} /\ ~Top(p).cont /\ answers[p] = 0
                  THEN [answers EXCEPT ![p] = 1] ELSE answers
  /\ Pop(p)
  /\ UNCHANGED <<initVars, form, pc, recVars, over>>

\* Close forgets the agent first, and returns when there is none.
CloseBegin(p) ==
  /\ Unwinding(p) /\ Top(p).kind = "Close"
  /\ ag' = FALSE
  /\ IF ag THEN Goto(p, "sync") /\ closer' = closer \cup {p} /\ UNCHANGED defers
           ELSE Pop(p) /\ UNCHANGED <<pc, closer>>
  /\ owed' = {q \in owed : q = p \/ <<q, "error">> \in pend \/ via[<<q, "error">>] # "none"}
  /\ UNCHANGED <<cfg, once, agent, bridged, form, panic, pend, via, late, answers, over>>

CloseSynced(p) ==
  /\ pc[p] = "sync"
  /\ agent' = "closing" /\ Goto(p, "drain")
  /\ UNCHANGED <<cfg, once, ag, bridged, closer, form, defers, panic, recVars, answers, over>>

\* Mutant: Close does not wait for the workers.
CloseEndNow(p) ==
  /\ pc[p] = "drain"
  /\ agent' = "closed" /\ closer' = closer \ {p}
  /\ Goto(p, "unwind") /\ Pop(p)
  /\ UNCHANGED <<cfg, once, ag, bridged, form, panic, recVars, answers, over>>

CloseEnd(p) ==
  /\ pc[p] = "drain" /\ pend = {}
  /\ agent' = "closed" /\ closer' = closer \ {p}
  /\ Goto(p, "unwind") /\ Pop(p)
  /\ UNCHANGED <<cfg, once, ag, bridged, form, panic, recVars, answers, over>>

\* A panic nothing recovered ends the process, unless it is a request's:
\* net/http recovers it and drops the connection.
End(p) ==
  /\ pc[p] = "unwind" /\ defers[p] = <<>>
  /\ over' = CASE p \in panic /\ form[p] # "Gin" -> "crash"
               [] p \notin panic /\ p = main -> "exit"
               [] OTHER -> over
  /\ Goto(p, "done")
  /\ UNCHANGED <<initVars, form, defers, panic, recVars, answers>>

\* A worker of the agent hands a record to the transport of its level.
AgentSends ==
  /\ agent \in {"open", "closing"}
  /\ \E r \in pend : pend' = pend \ {r} /\ via' = [via EXCEPT ![r] = Select(r[2])]
  /\ UNCHANGED <<initVars, form, pc, defers, panic, late, owed, answers, over>>

Finishes(p) ==
  \/ PassesBy(p) \/ Report(p) \/ ReportSynced(p) \/ Recovered(p)
  \/ CloseBegin(p) \/ CloseSynced(p) \/ CloseEnd(p) \/ End(p)

Next ==
  /\ over = "no"
  /\ \/ \E p \in Procs : InitStep(p) \/ Enter(p) \/ StdLog(p) \/ Answer(p)
                         \/ Return(p) \/ Panics(p) \/ Finishes(p)
     \/ AgentSends

\* Goroutines and the agent's workers are scheduled, and the application's
\* own function ends.
Fairness ==
  /\ \A p \in Procs : WF_vars(over = "no" /\ (InitStep(p) \/ Enter(p) \/ Return(p) \/ Finishes(p)))
  /\ WF_vars(over = "no" /\ AgentSends)

Spec == Init /\ [][Next]_vars /\ Fairness

-----------------------------------------------------------------------------
(* Properties *)

\* The process never loses sight of an agent that runs: it is the global one,
\* or Init is about to publish it, or Close is on it (integration.go:57-79, 137-140, 166-177).
NoAgentLeak ==
  agent \in {"built", "open", "closing"} =>
    ag \/ once = "running" \/ closer # {}

\* When the application's main function returns, every record the agent took
\* has been handed to a transport, unless another goroutine's Close is still
\* at it: Main's own then finds no agent and does not wait. Errors go over
\* http whenever there is http (integration.go:166-177, 205-212;
\* policy/level.go:30-55).
ExitDelivers ==
  /\ over = "exit" /\ closer = {} => pend = {}
  /\ \A r \in Records : via[r] = "udp" /\ r[2] = "error" => ~HasHTTP(cfg)

\* The transport of errors has the report of p's panic by the time p is over.
Delivered(p) == pc[p] = "done" => via[<<p, "error">>] # "none"

\* A panic under a guard with a logger is reported, if no other goroutine closes
\* the agent before: when its goroutine ends, or the process dies of it, the
\* agent has taken the report, and has handed it to a transport unless Sync gave
\* up waiting for that; in main even then, since main closes the agent after its
\* guard, unless another goroutine is closing it. This leaves out the two guards
\* that lose the report: the one of Main (MainPanicDelivered) and
\* opslog4proc.Recover (RecoverPanicDelivered). A process that dies while Sync
\* has given up takes the report with it (panicx.go:27-109; the order of the
\* defer statements in docs/sdk.md:35-37).
PanicDelivered ==
  \A p \in owed :
    form[p] \notin {"Main", "Recover"} /\ pc[p] = "done" =>
      /\ via[<<p, "error">>] # "none" \/ <<p, "error">> \in pend
      /\ p \notin late \/ (p = main /\ closer = {}) => Delivered(p)

\* "Main runs fn with Guard + Close around it" (integration.go:203): a panic
\* in fn is reported while the agent is there to take it.
MainPanicDelivered == main \in owed /\ form[main] = "Main" => Delivered(main)

\* "Recover recovers a panic in the current goroutine, logs it"
\* (recover.go:20-22, and TestRecoverLogsStack, recover_test.go:38-58): the
\* panic of a goroutine that defers it is reported, when Sync does not give up.
RecoverPanicDelivered ==
  \A p \in owed \ late : form[p] = "Recover" => Delivered(p)

\* A request is answered once: by its handler, or with an error when it
\* panicked before it answered; one whose panic goes on is cut off
\* (recovery.go:58-101).
AnsweredOnce ==
  \A p \in Others : form[p] = "Gin" =>
    /\ answers[p] <= 1
    /\ pc[p] = "done" /\ p \notin panic /\ over # "crash" => answers[p] = 1

\* The process ends: neither waiting for another's Init, nor Sync, nor Close
\* blocks it for good (integration.go:57-79, 166-177).
ProcessEnds == <>(over # "no")
=============================================================================
