-------------------------- MODULE IntegrationProofs --------------------------
(***************************************************************************)
(* Proofs about Integration, for any number of goroutines and requests,    *)
(* any way they are guarded, any options and environments.                 *)
(***************************************************************************)
EXTENDS Integration, SequenceTheorems, TLAPS

\* The types, and what the application fixes at the start.
Types ==
  /\ cfg \in Config
  /\ once \in {"new", "running", "done"}
  /\ agent \in {"none", "built", "open", "closing", "closed"}
  /\ ag \in BOOLEAN
  /\ form \in [Procs -> Forms \cup {"Main", "Docs"}]
  /\ form[main] \in {"Main", "Docs"} /\ \A p \in Others : form[p] \in Forms
  /\ pc \in [Procs -> {"start", "init", "publish", "bridge", "enter", "run", "unwind",
                       "report", "sync", "drain", "done"}]
  /\ defers \in [Procs -> Seq(Deferred)]
  /\ \A p \in Procs : pc[p] \in {"report", "sync", "drain"} => defers[p] # <<>>
  /\ panic \subseteq Procs
  /\ pend \subseteq Records /\ via \in [Records -> {"none", "http", "udp"}]
  /\ answers \in [Procs -> Nat]
  /\ closer \subseteq Procs
  /\ over \in {"no", "exit", "crash"}
  /\ late \subseteq Procs /\ owed \subseteq Procs

\* Init runs once; the agent it starts is published before anything can
\* happen to it, and Close takes it over from the global.
Initing(p) == pc[p] \in {"init", "publish", "bridge"}

LifeInv ==
  /\ \A p \in Procs : Initing(p) => once = "running"
  /\ \A p, q \in Procs : Initing(p) /\ Initing(q) => p = q
  /\ once = "new" => agent = "none" /\ \A r \in Records : via[r] = "none"
  /\ agent \in {"none", "built"} =>
       ~ag /\ closer = {} /\ \A p \in Procs : pc[p] \notin {"publish", "bridge"}
  /\ agent = "built" => \E p \in Procs : pc[p] = "init"
  /\ ag => agent = "open" /\ closer = {}
  /\ \A p \in Procs : pc[p] = "publish" => agent = "open" /\ ~ag /\ closer = {}
  /\ \A p \in Procs : p \in closer <=> pc[p] \in {"sync", "drain"}
  /\ \A p \in Procs : pc[p] = "sync" => agent = "open"
  /\ \A p \in Procs : pc[p] = "drain" => agent = "closing"
  /\ \A p, q \in closer : p = q
  /\ agent \in {"open", "closing"} =>
       ag \/ closer # {} \/ \E p \in Procs : pc[p] = "publish"
  /\ agent \notin {"open", "closing"} => pend = {}

-----------------------------------------------------------------------------
(* What a process has deferred *)

LEMMA PopProperties ==
  ASSUME NEW s \in Seq(Deferred), s # <<>>
  PROVE  /\ Front(s) \in Seq(Deferred)
         /\ Last(s) \in Deferred
         /\ \A i \in DOMAIN Front(s) : i \in DOMAIN s /\ Front(s)[i] = s[i]
         /\ \A i \in DOMAIN s : i \in DOMAIN Front(s) \/ s[i] = Last(s)
         /\ Len(s) \in DOMAIN s
<1>1. /\ DOMAIN s = 1..Len(s) /\ Len(s) \in Nat \ {0}
      /\ \A i \in 1..Len(s) : s[i] \in Deferred
  BY LenProperties, EmptySeq, ElementOfSeq
<1>2. Last(s) = s[Len(s)] /\ Len(s) \in 1..Len(s)
  BY <1>1 DEF Last
<1>3. /\ Front(s) = SubSeq(s, 1, Len(s) - 1)
      /\ Front(s) \in Seq(Deferred) /\ Len(Front(s)) = Len(s) - 1
      /\ \A i \in 1..(Len(s) - 1) : Front(s)[i] = s[i]
  <2>1. Front(s) = [i \in 1..(Len(s) - 1) |-> s[i]]
    BY <1>1 DEF Front
  <2>2. \A i \in 1..(Len(s) - 1) : s[i] \in Deferred
    BY <1>1
  <2>3. Front(s) \in Seq(Deferred)
    BY <1>1, <2>1, <2>2
  <2> QED BY <1>1, <2>1, <2>3, LenProperties DEF Front
<1>4. DOMAIN Front(s) = 1..(Len(s) - 1)
  BY <1>3, LenProperties
<1> QED BY <1>1, <1>2, <1>3, <1>4

\* The guard that has reported has no logger any more.
Marked(s) == [s EXCEPT ![Len(s)].lg = FALSE]

LEMMA MarkProperties ==
  ASSUME NEW s \in Seq(Deferred), s # <<>>
  PROVE  /\ Marked(s) \in Seq(Deferred)
         /\ DOMAIN Marked(s) = DOMAIN s
         /\ \A i \in DOMAIN s : Marked(s)[i].kind = s[i].kind
<1>1. /\ DOMAIN s = 1..Len(s) /\ Len(s) \in Nat \ {0}
      /\ s \in [1..Len(s) -> Deferred]
  BY LenProperties, EmptySeq, ElementOfSeq
<1>2. Len(s) \in 1..Len(s)
  BY <1>1
<1>3. [s[Len(s)] EXCEPT !.lg = FALSE] \in Deferred
      /\ [s[Len(s)] EXCEPT !.lg = FALSE].kind = s[Len(s)].kind
  BY <1>1, <1>2 DEF Deferred
<1>4. Marked(s) = [s EXCEPT ![Len(s)] = [s[Len(s)] EXCEPT !.lg = FALSE]]
  BY <1>1, <1>2 DEF Marked
<1>5. Marked(s) \in [1..Len(s) -> Deferred]
  BY <1>1, <1>2, <1>3, <1>4
<1>6. Marked(s) \in Seq(Deferred)
  BY <1>1, <1>5
<1>7. \A i \in DOMAIN s : Marked(s)[i].kind = s[i].kind
  BY <1>1, <1>2, <1>3, <1>4
<1> QED BY <1>1, <1>5, <1>6, <1>7

\* What each form defers, and in which order.
LEMMA DefersProperties ==
  ASSUME ag \in BOOLEAN, NEW f \in Forms \cup {"Main", "Docs"}, NEW cont \in BOOLEAN
  PROVE  /\ Defers(f, cont) \in Seq(Deferred) /\ Defers(f, cont) # <<>>
         /\ f \in {"Main", "Docs"} =>
              \E i \in DOMAIN Defers(f, cont) : Defers(f, cont)[i].kind = "Close"
         /\ f = "Gin" => \A i \in DOMAIN Defers(f, cont) :
                           Defers(f, cont)[i].kind \in {"Gin", "gin.Recovery"}
         /\ f \notin {"Main", "Recover"} /\ (\E i \in DOMAIN Defers(f, cont) :
                              Defers(f, cont)[i].lg)
              => /\ Last(Defers(f, cont)).lg
                 /\ Last(Defers(f, cont)).kind \in {"Guard", "GuardAgent", "Do", "Gin"}
<1>1. CloseCall \in Deferred /\ CloseCall.kind = "Close" /\ ~CloseCall.lg
  BY DEF CloseCall, Deferred, Kinds, Forms
<1>2. \A k \in Forms : Made(k, cont) \in Deferred
  BY DEF Made, Deferred, Kinds, Forms
<1>3. CASE f = "Main"
  <2> DEFINE g == Made("Guard", cont)
  <2>1. Defers(f, cont) = <<g, CloseCall>>
    BY <1>3 DEF Defers
  <2>2. g \in Deferred
    BY <1>2 DEF Forms
  <2> HIDE DEF g
  <2>3. /\ <<g, CloseCall>> \in Seq(Deferred) /\ <<g, CloseCall>> # <<>>
        /\ 2 \in DOMAIN <<g, CloseCall>> /\ <<g, CloseCall>>[2] = CloseCall
    BY <1>1, <2>2
  <2> QED BY <1>1, <1>3, <2>1, <2>3
<1>4. CASE f = "Docs"
  <2> DEFINE g == Made("Guard", cont)
  <2>1. Defers(f, cont) = <<CloseCall, g>>
    BY <1>4 DEF Defers
  <2>2. g \in Deferred /\ (g.lg => g.kind = "Guard")
    BY <1>2 DEF Forms, Made
  <2> HIDE DEF g
  <2>3. /\ <<CloseCall, g>> \in Seq(Deferred) /\ <<CloseCall, g>> # <<>>
        /\ 1 \in DOMAIN <<CloseCall, g>> /\ <<CloseCall, g>>[1] = CloseCall
        /\ Last(<<CloseCall, g>>) = g
        /\ \A i \in DOMAIN <<CloseCall, g>> : <<CloseCall, g>>[i] \in {CloseCall, g}
    BY <1>1, <2>2 DEF Last
  <2> QED BY <1>1, <1>4, <2>1, <2>2, <2>3
<1>5. CASE f = "Close"
  <2>1. Defers(f, cont) = <<CloseCall>>
    BY <1>5 DEF Defers
  <2>2. /\ <<CloseCall>> \in Seq(Deferred) /\ <<CloseCall>> # <<>>
        /\ \A i \in DOMAIN <<CloseCall>> : <<CloseCall>>[i] = CloseCall
    BY <1>1
  <2> QED BY <1>1, <1>5, <2>1, <2>2
<1>6. CASE f \in Forms \ {"Close"}
  <2>1. Defers(f, cont) = <<Made(f, cont)>>
    BY <1>6 DEF Defers, Forms
  <2>2. /\ Made(f, cont) \in Deferred
        /\ f = "Gin" => Made(f, cont).kind \in {"Gin", "gin.Recovery"}
        /\ Made(f, cont).lg => Made(f, cont).kind = f
    BY <1>2, <1>6 DEF Made
  <2> QED BY <1>6, <2>1, <2>2 DEF Last, Forms
<1> QED BY <1>3, <1>4, <1>5, <1>6 DEF Forms

\* The same, one at a time.
LEMMA DefersClose ==
  ag \in BOOLEAN => \A f \in {"Main", "Docs"}, cont \in BOOLEAN :
    \E i \in DOMAIN Defers(f, cont) : Defers(f, cont)[i].kind = "Close"
BY DefersProperties

LEMMA DefersGin ==
  ag \in BOOLEAN => \A cont \in BOOLEAN :
    \A i \in DOMAIN Defers("Gin", cont) :
      Defers("Gin", cont)[i].kind \in {"Gin", "gin.Recovery"}
BY DefersProperties DEF Forms

LEMMA DefersGuard ==
  ag \in BOOLEAN => \A f \in (Forms \cup {"Docs"}) \ {"Recover"}, cont \in BOOLEAN :
    (\E i \in DOMAIN Defers(f, cont) :
       Defers(f, cont)[i].lg)
    => /\ Defers(f, cont) # <<>>
       /\ Last(Defers(f, cont)).lg
       /\ Last(Defers(f, cont)).kind \in {"Guard", "GuardAgent", "Do", "Gin"}
<1> SUFFICES ASSUME ag \in BOOLEAN, NEW f \in (Forms \cup {"Docs"}) \ {"Recover"}, NEW cont \in BOOLEAN
             PROVE  (\E i \in DOMAIN Defers(f, cont) :
                       Defers(f, cont)[i].lg)
                    => /\ Defers(f, cont) # <<>>
                       /\ Last(Defers(f, cont)).lg
                       /\ Last(Defers(f, cont)).kind \in {"Guard", "GuardAgent", "Do", "Gin"}
  OBVIOUS
<1>1. f \in Forms \cup {"Main", "Docs"} /\ f \notin {"Main", "Recover"}
  BY DEF Forms
<1> QED BY <1>1, DefersProperties

-----------------------------------------------------------------------------
(* Types and the life of the agent *)

LEMMA ConfigTypes ==
  ASSUME NEW c \in Calls
  PROVE  ConfigFromEnv(c[1], c[2]) \in Config
<1> DEFINE o == c[1]
           env == c[2]
<1>1. o \in Config /\ env \in [enable : {"unset", "truthy", "other"}, transport : SUBSET Tokens]
  BY IntegrationAssumption
<1> HIDE DEF o, env
<1> DEFINE e == IF env.enable = "unset" THEN o.Enable ELSE env.enable = "truthy"
           t == IF env.transport = {} THEN o.Transport ELSE env.transport
<1>2. e \in BOOLEAN /\ t \in SUBSET Tokens
  BY <1>1 DEF Config
<1>3. ConfigFromEnv(o, env) = [o EXCEPT !.Enable = e, !.Transport = t]
  BY DEF ConfigFromEnv
<1> HIDE DEF e, t
<1>4. [o EXCEPT !.Enable = e, !.Transport = t] \in Config
  BY <1>1, <1>2 DEF Config
<1> QED BY <1>3, <1>4 DEF o, env

LEMMA InitTypes == Init => Types /\ LifeInv
<1> SUFFICES ASSUME Init PROVE Types /\ LifeInv
  OBVIOUS
<1>1. Types
  <2>1. cfg \in Config /\ <<>> \in Seq(Deferred)
    BY EmptySeq DEF Init, ZeroConfig, Config
  <2>2. /\ form \in [Procs -> Forms \cup {"Main", "Docs"}]
        /\ form[main] \in {"Main", "Docs"} /\ \A p \in Others : form[p] \in Forms
    <3>1. PICK f \in MainForms, shape \in Shapes :
            form = [p \in Procs |-> IF p = main THEN f ELSE shape[p]]
      BY DEF Init
    <3>2. f \in {"Main", "Docs"} /\ shape \in [Others -> Forms] /\ main \notin Others
      BY IntegrationAssumption
    <3> QED BY <3>1, <3>2 DEF Procs
  <2> QED BY <2>1, <2>2 DEF Init, Types
<1>2. LifeInv
  BY DEF Init, LifeInv, Initing
<1> QED BY <1>1, <1>2

LEMMA StepTypes == Types /\ Next => Types'
<1> SUFFICES ASSUME Types, Next PROVE Types'
  OBVIOUS
<1> USE DEF Types, Goto, initVars, recVars
<1>1. ASSUME NEW p \in Procs, InitStep(p) PROVE Types'
  <2>1. CASE CallInit(p)
    BY <2>1, ConfigTypes DEF CallInit
  <2>2. CASE InitDone(p) \/ NoInit(p)
    BY <2>2 DEF InitDone, NoInit
  <2>3. CASE InitSkipped(p)
    BY <2>3 DEF InitSkipped
  <2>4. CASE InitNoTransport(p)
    BY <2>4 DEF InitNoTransport, InitReturnsError
  <2>5. CASE NewAgent(p)
    BY <2>5 DEF NewAgent
  <2>6. CASE StartFails(p)
    BY <2>6 DEF StartFails, InitReturnsError
  <2>7. CASE StartAgent(p)
    BY <2>7 DEF StartAgent
  <2>8. CASE Publish(p)
    BY <2>8 DEF Publish
  <2>9. CASE InitReturns(p)
    BY <2>9 DEF InitReturns
  <2> QED BY <1>1, <2>1, <2>2, <2>3, <2>4, <2>5, <2>6, <2>7, <2>8, <2>9 DEF InitStep
<1>2. ASSUME NEW p \in Procs, Enter(p) PROVE Types'
  <2>1. PICK cont \in BOOLEAN : defers' = [defers EXCEPT ![p] = Defers(form[p], cont)]
    BY <1>2 DEF Enter
  <2>2. Defers(form[p], cont) \in Seq(Deferred)
    BY DefersProperties
  <2>3. defers' \in [Procs -> Seq(Deferred)]
    BY <2>1, <2>2
  <2>4. /\ pc' = [pc EXCEPT ![p] = "run"]
        /\ UNCHANGED <<initVars, form, panic, recVars, answers, over>>
        /\ \A r \in Procs : r # p => defers'[r] = defers[r]
    BY <1>2, <2>1 DEF Enter
  <2> QED BY <2>3, <2>4
<1>3. ASSUME NEW r \in Records, Taken(r) PROVE pend' \subseteq Records
  BY <1>3 DEF Taken
<1>4. ASSUME NEW p \in Procs, StdLog(p) PROVE Types'
  <2>1. pend' \subseteq Records
    BY <1>3, <1>4 DEF StdLog, Records, Levels
  <2> QED BY <1>4, <2>1 DEF StdLog
<1>5. ASSUME NEW p \in Procs, Answer(p) \/ Return(p) \/ Panics(p) PROVE Types'
  <2>1. CASE Answer(p)
    BY <2>1 DEF Answer
  <2>2. CASE Return(p)
    BY <2>2 DEF Return
  <2>3. CASE Panics(p)
    BY <2>3 DEF Panics
  <2> QED BY <1>5, <2>1, <2>2, <2>3
<1>6. ASSUME NEW p \in Procs, Finishes(p) PROVE Types'
  <2>0. defers[p] # <<>> => Front(defers[p]) \in Seq(Deferred)
    BY PopProperties
  <2>1. CASE PassesBy(p)
    BY <2>0, <2>1 DEF PassesBy, Unwinding, Pop
  <2>2. CASE Report(p)
    <3>1. pend' \subseteq Records
      BY <1>3, <2>2 DEF Report, Records, Levels
    <3> QED BY <2>2, <3>1 DEF Report, Recovers, Unwinding
  <2>3. CASE ReportSynced(p)
    <3>1. defers' = [defers EXCEPT ![p] = Marked(@)]
      BY <2>3 DEF ReportSynced, Marked
    <3>3. Marked(defers[p]) \in Seq(Deferred)
      BY <2>3, MarkProperties DEF ReportSynced
    <3>4. defers' \in [Procs -> Seq(Deferred)]
      BY <3>1, <3>3
    <3> QED BY <2>3, <3>4 DEF ReportSynced
  <2>4. CASE Recovered(p)
    BY <2>0, <2>4 DEF Recovered, Recovers, Unwinding, Pop
  <2>5. CASE CloseBegin(p)
    <3>1. /\ UNCHANGED <<cfg, once, agent, bridged, form, panic, pend, via, late, answers, over>>
          /\ ag' = FALSE /\ owed' \subseteq owed
      BY <2>5 DEF CloseBegin
    <3>2. CASE ag
      <4>1. /\ defers' = defers /\ closer' \subseteq Procs /\ defers[p] # <<>>
            /\ pc' = [pc EXCEPT ![p] = "sync"]
        BY <2>5, <3>2 DEF CloseBegin, Unwinding
      <4> QED BY <3>1, <4>1
    <3>3. CASE ~ag
      BY <2>0, <2>5, <3>1, <3>3 DEF CloseBegin, Unwinding, Pop
    <3> QED BY <3>2, <3>3
  <2>6. CASE CloseSynced(p)
    BY <2>6 DEF CloseSynced
  <2>7. CASE CloseEnd(p)
    <3>1. defers' \in [Procs -> Seq(Deferred)]
      BY <2>0, <2>7 DEF CloseEnd, Pop
    <3> QED BY <2>7, <3>1 DEF CloseEnd, Pop
  <2>8. CASE End(p)
    BY <2>8 DEF End
  <2> QED BY <1>6, <2>1, <2>2, <2>3, <2>4, <2>5, <2>6, <2>7, <2>8 DEF Finishes
<1>7. CASE AgentSends
  BY <1>7 DEF AgentSends, Select
<1> QED BY <1>1, <1>2, <1>4, <1>5, <1>6, <1>7 DEF Next

LEMMA StepLife == Types /\ LifeInv /\ Next => LifeInv'
<1> SUFFICES ASSUME Types, LifeInv, Next PROVE LifeInv'
  OBVIOUS
<1> USE DEF LifeInv, Initing, Goto, initVars, recVars
<1>0. /\ pc \in [Procs -> {"start", "init", "publish", "bridge", "enter", "run", "unwind",
                           "report", "sync", "drain", "done"}]
      /\ agent \in {"none", "built", "open", "closing", "closed"} /\ closer \subseteq Procs
  BY DEF Types
\* Steps that move a process outside Init and Close.
<1>1. ASSUME NEW p \in Procs, UNCHANGED <<once, agent, ag, closer, via>>,
             NEW l \in {"start", "enter", "run", "unwind", "report", "done"},
             pc[p] \notin {"init", "publish", "bridge", "sync", "drain"},
             pc' = [pc EXCEPT ![p] = l],
             pend' = pend \/ agent = "open"
      PROVE  LifeInv'
  BY <1>0, <1>1
<1>2. ASSUME UNCHANGED <<once, agent, ag, closer, via, pc>>, pend' = pend \/ agent = "open"
      PROVE  LifeInv'
  BY <1>2
<1>3. ASSUME NEW p \in Procs, InitStep(p) PROVE LifeInv'
  <2>1. CASE CallInit(p)
    BY <1>0, <2>1 DEF CallInit
  <2>2. CASE InitDone(p) \/ NoInit(p)
    BY <1>1, <2>2 DEF InitDone, NoInit
  <2>3. CASE InitSkipped(p)
    BY <1>0, <2>3 DEF InitSkipped
  <2>4. CASE InitNoTransport(p)
    BY <1>0, <2>4 DEF InitNoTransport, InitReturnsError
  <2>5. CASE NewAgent(p)
    BY <1>0, <2>5 DEF NewAgent
  <2>6. CASE StartFails(p)
    BY <1>0, <2>6 DEF StartFails, InitReturnsError
  <2>7. CASE StartAgent(p)
    BY <1>0, <2>7 DEF StartAgent
  <2>8. CASE Publish(p)
    BY <1>0, <2>8 DEF Publish
  <2>9. CASE InitReturns(p)
    BY <1>0, <2>9 DEF InitReturns
  <2> QED BY <1>3, <2>1, <2>2, <2>3, <2>4, <2>5, <2>6, <2>7, <2>8, <2>9 DEF InitStep
<1>4. ASSUME NEW p \in Procs, Enter(p) \/ StdLog(p) \/ Answer(p) \/ Return(p) \/ Panics(p)
      PROVE  LifeInv'
  <2>1. CASE Enter(p)
    BY <1>1, <2>1 DEF Enter
  <2>2. CASE StdLog(p)
    BY <1>2, <2>2 DEF StdLog, Taken
  <2>3. CASE Answer(p)
    BY <1>2, <2>3 DEF Answer
  <2>4. CASE Return(p)
    BY <1>1, <2>4 DEF Return
  <2>5. CASE Panics(p)
    BY <1>1, <2>5 DEF Panics
  <2> QED BY <1>4, <2>1, <2>2, <2>3, <2>4, <2>5
<1>5. ASSUME NEW p \in Procs, Finishes(p) PROVE LifeInv'
  <2>1. CASE PassesBy(p)
    BY <1>2, <2>1 DEF PassesBy
  <2>2. CASE Report(p)
    BY <1>1, <2>2 DEF Report, Recovers, Unwinding, Taken
  <2>3. CASE ReportSynced(p)
    BY <1>1, <2>3 DEF ReportSynced
  <2>4. CASE Recovered(p)
    BY <1>2, <2>4 DEF Recovered
  <2>5. CASE CloseBegin(p)
    <3>1. CASE ag
      BY <1>0, <2>5, <3>1 DEF CloseBegin, Unwinding
    <3>2. CASE ~ag
      BY <1>0, <2>5, <3>2 DEF CloseBegin, Unwinding
    <3> QED BY <3>1, <3>2
  <2>6. CASE CloseSynced(p)
    BY <1>0, <2>6 DEF CloseSynced
  <2>7. CASE CloseEnd(p)
    BY <1>0, <2>7 DEF CloseEnd
  <2>8. CASE End(p)
    BY <1>1, <2>8 DEF End
  <2> QED BY <1>5, <2>1, <2>2, <2>3, <2>4, <2>5, <2>6, <2>7, <2>8 DEF Finishes
<1>6. CASE AgentSends
  BY <1>0, <1>6 DEF AgentSends
<1> QED BY <1>3, <1>4, <1>5, <1>6 DEF Next

LEMMA Stutters ==
  UNCHANGED vars => UNCHANGED <<cfg, once, agent, ag, bridged, closer, form, pc, defers, panic,
                                pend, via, late, owed, answers, over>>
BY DEF vars, initVars, recVars

LEMMA NextLife == Types /\ LifeInv /\ [Next]_vars => (Types /\ LifeInv)'
<1>1. Types /\ LifeInv /\ UNCHANGED vars => (Types /\ LifeInv)'
  BY Stutters DEF Types, LifeInv, Initing
<1> QED BY <1>1, StepTypes, StepLife

LEMMA LifeInvariant == Spec => [](Types /\ LifeInv)
BY InitTypes, NextLife, PTL DEF Spec

\* The process keeps sight of its agent from the moment it is built until it
\* is closed (integration.go:57-79, 137-140, 166-177).
THEOREM IntegrationNoLeak == Spec => []NoAgentLeak
<1>1. LifeInv => NoAgentLeak
  BY DEF LifeInv, Initing, NoAgentLeak
<1> QED BY <1>1, LifeInvariant, PTL

-----------------------------------------------------------------------------
(* The end of main *)

\* main returns after its Close: until then its Close is still deferred.
Closes(p) == \E i \in DOMAIN defers[p] : defers[p][i].kind = "Close"

MainInv ==
  /\ pc[main] \notin {"start", "init", "publish", "bridge"} => once = "done"
  /\ pc[main] \in {"run", "unwind", "report", "sync", "drain", "done"} => Closes(main) \/ ~ag
  /\ \A p \in Procs : pc[p] = "done" => defers[p] = <<>>
  /\ \A p \in Procs : pc[p] \in {"start", "init", "publish", "bridge", "enter"} =>
                        defers[p] = <<>>
  /\ \A p \in Procs : pc[p] \in {"sync", "drain"} => Last(defers[p]).kind = "Close"
  /\ \A r \in Records : via[r] = "udp" /\ r[2] = "error" => ~HasHTTP(cfg)
  /\ over = "exit" /\ closer = {} => pend = {}

LEMMA StepMain == Types /\ LifeInv /\ MainInv /\ over = "no" /\ Next => MainInv'
<1> SUFFICES ASSUME Types, LifeInv, MainInv, over = "no", Next PROVE MainInv'
  OBVIOUS
<1> USE DEF Goto, initVars, recVars
<1>0. /\ pc \in [Procs -> {"start", "init", "publish", "bridge", "enter", "run", "unwind",
                           "report", "sync", "drain", "done"}]
      /\ agent \in {"none", "built", "open", "closing", "closed"} /\ closer \subseteq Procs
      /\ defers \in [Procs -> Seq(Deferred)] /\ main \in Procs
      /\ ag \in BOOLEAN
  BY DEF Types, Procs
\* Steps that move a process outside Init and deferred calls.
<1>1. ASSUME NEW p \in Procs, UNCHANGED <<once, ag, defers, cfg, via, over>>,
             NEW l \in {"init", "publish", "bridge", "enter", "unwind", "report"},
             pc' = [pc EXCEPT ![p] = l],
             pc[p] \in {"start", "init", "publish", "bridge", "enter"} =>
               l \in {"init", "publish", "bridge", "enter"},
             pc[p] \notin {"start", "init", "publish", "bridge", "enter"} =>
               l \in {"unwind", "report"},
             l = "enter" \/ (p = main /\ pc[p] = "enter") => once = "done"
      PROVE  MainInv'
  BY <1>0, <1>1 DEF MainInv, Closes
<1>2. ASSUME UNCHANGED <<once, ag, closer, via, pc, defers, cfg, over>> PROVE MainInv'
  BY <1>2 DEF MainInv, Closes
<1>3. ASSUME NEW p \in Procs, InitStep(p) PROVE MainInv'
  <2> USE DEF MainInv, Closes
  <2>1. CASE CallInit(p)
    <3>1. via' = via /\ \A r \in Records : via[r] = "none"
      BY <2>1 DEF CallInit, LifeInv
    <3>2. UNCHANGED <<ag, closer, defers, over>> /\ pc' = [pc EXCEPT ![p] = "init"] /\ pc[p] = "start"
      BY <2>1 DEF CallInit
    <3>3. pc[main] # "start" => pc[main] \in {"init", "publish", "bridge"}
      BY <1>0, <2>1 DEF CallInit
    <3> QED BY <1>0, <3>1, <3>2, <3>3
  <2>2. CASE InitDone(p) \/ NoInit(p)
    BY <1>0, <2>2 DEF InitDone, NoInit
  <2>3. CASE InitSkipped(p)
    BY <1>0, <2>3 DEF InitSkipped
  <2>4. CASE InitNoTransport(p) \/ StartFails(p)
    <3>1. ~ag' /\ pend = {} /\ pend' = pend /\ defers' = defers /\ defers[p] = <<>>
      BY <2>4 DEF InitNoTransport, StartFails, LifeInv
    <3>2. pc' = [pc EXCEPT ![p] = "done"] /\ once' = "done" /\ UNCHANGED <<via, cfg, ag>>
      BY <2>4 DEF InitNoTransport, StartFails, InitReturnsError
    <3> QED BY <1>0, <3>1, <3>2
  <2>5. CASE NewAgent(p)
    BY <1>0, <2>5 DEF NewAgent
  <2>7. CASE StartAgent(p)
    BY <1>0, <2>7 DEF StartAgent
  <2>8. CASE Publish(p)
    <3>1. once = "running" /\ pc[main] \in {"start", "init", "publish", "bridge"}
      BY <1>0, <2>8 DEF Publish, LifeInv, Initing
    <3> QED BY <1>0, <2>8, <3>1 DEF Publish
  <2>9. CASE InitReturns(p)
    BY <1>0, <2>9 DEF InitReturns
  <2> QED BY <1>3, <2>1, <2>2, <2>3, <2>4, <2>5, <2>7, <2>8, <2>9 DEF InitStep
<1>4. ASSUME NEW p \in Procs, Enter(p) PROVE MainInv'
  <2>1. PICK cont \in BOOLEAN : defers' = [defers EXCEPT ![p] = Defers(form[p], cont)]
    BY <1>4 DEF Enter
  <2>2. p = main => Closes(main)'
    <3>1. form[main] \in {"Main", "Docs"} /\ form[p] \in Forms \cup {"Main", "Docs"}
      BY DEF Types
    <3>2. form[p] \in {"Main", "Docs"} =>
            \E i \in DOMAIN Defers(form[p], cont) : Defers(form[p], cont)[i].kind = "Close"
      BY <1>0, DefersClose
    <3>3. defers'[p] = Defers(form[p], cont)
      BY <1>0, <2>1
    <3> QED BY <3>1, <3>2, <3>3 DEF Closes
  <2>3. /\ pc' = [pc EXCEPT ![p] = "run"] /\ pc[p] = "enter"
        /\ UNCHANGED <<once, ag, closer, cfg, via, over, pend>>
    BY <1>4 DEF Enter
  <2>4. \A q \in Procs : q # p => defers'[q] = defers[q]
    BY <1>0, <2>1
  <2> QED BY <1>0, <2>2, <2>3, <2>4 DEF MainInv, Closes
<1>5. ASSUME NEW p \in Procs, StdLog(p) \/ Answer(p) PROVE MainInv'
  <2>1. UNCHANGED <<once, ag, closer, via, pc, defers, cfg, over>>
    BY <1>5 DEF StdLog, Answer
  <2> QED BY <1>2, <2>1
<1>6. ASSUME NEW p \in Procs, Return(p) \/ Panics(p) PROVE MainInv'
  BY <1>1, <1>6 DEF Return, Panics
\* A deferred call has run; when it was a Close, there is no agent left.
<1>7. ASSUME NEW p \in Procs, pc[p] \in {"unwind", "drain"}, defers[p] # <<>>,
             pc' = [pc EXCEPT ![p] = "unwind"],
             defers' = [defers EXCEPT ![p] = Front(@)],
             UNCHANGED <<once, cfg, via, over>>,
             ag' = ag \/ ~ag', Last(defers[p]).kind = "Close" => ~ag'
      PROVE  MainInv'
  <2>1. /\ \A i \in DOMAIN defers[p] : i \in DOMAIN Front(defers[p]) \/ defers[p][i] = Last(defers[p])
        /\ \A i \in DOMAIN Front(defers[p]) : Front(defers[p])[i] = defers[p][i]
    BY <1>0, <1>7, PopProperties
  <2>2. defers'[p] = Front(defers[p]) /\ \A q \in Procs : q # p => defers'[q] = defers[q]
    BY <1>0, <1>7
  <2>3. Closes(main) => Closes(main)' \/ ~ag'
    BY <1>0, <1>7, <2>1, <2>2 DEF Closes
  <2> QED BY <1>0, <1>7, <2>2, <2>3 DEF MainInv
<1>8. ASSUME NEW p \in Procs, Finishes(p) PROVE MainInv'
  <2>1. CASE PassesBy(p)
    <3>1. pc' = [pc EXCEPT ![p] = "unwind"]
      BY <1>0, <2>1 DEF PassesBy, Unwinding
    <3> QED BY <1>7, <2>1, <3>1 DEF PassesBy, Unwinding, Pop, Top
  <2>2. CASE Report(p)
    BY <1>1, <2>2 DEF Report, Recovers, Unwinding
  <2>3. CASE ReportSynced(p)
    <3>1. defers' = [defers EXCEPT ![p] = Marked(@)] /\ defers[p] # <<>>
      BY <2>3 DEF ReportSynced, Marked, Types
    <3>2. /\ DOMAIN Marked(defers[p]) = DOMAIN defers[p]
          /\ \A i \in DOMAIN defers[p] : Marked(defers[p])[i].kind = defers[p][i].kind
      BY <1>0, <3>1, MarkProperties
    <3>3. defers'[p] = Marked(defers[p]) /\ \A q \in Procs : q # p => defers'[q] = defers[q]
      BY <1>0, <3>1
    <3>4. Closes(main) => Closes(main)'
      BY <1>0, <3>2, <3>3 DEF Closes
    <3>5. /\ pc' = [pc EXCEPT ![p] = "unwind"] /\ pc[p] = "report"
          /\ UNCHANGED <<once, ag, closer, cfg, via, over, pend>>
      BY <2>3 DEF ReportSynced
    <3> QED BY <1>0, <3>3, <3>4, <3>5 DEF MainInv
  <2>4. CASE Recovered(p)
    <3>1. pc' = [pc EXCEPT ![p] = "unwind"]
      BY <1>0, <2>4 DEF Recovered, Recovers, Unwinding
    <3> QED BY <1>7, <2>4, <3>1 DEF Recovered, Recovers, Unwinding, Pop, Top
  <2>5. CASE CloseBegin(p)
    <3>1. CASE ~ag
      <4>1. pc' = [pc EXCEPT ![p] = "unwind"]
        BY <1>0, <2>5, <3>1 DEF CloseBegin, Unwinding
      <4> QED BY <1>7, <2>5, <3>1, <4>1 DEF CloseBegin, Unwinding, Pop
    <3>2. CASE ag
      BY <1>0, <2>5, <3>2 DEF CloseBegin, Unwinding, Top, MainInv, Closes
    <3> QED BY <3>1, <3>2
  <2>6. CASE CloseSynced(p)
    BY <1>0, <2>6 DEF CloseSynced, MainInv, Closes
  <2>7. CASE CloseEnd(p)
    <3>1. ~ag /\ defers[p] # <<>>
      BY <2>7 DEF CloseEnd, LifeInv, Types
    <3> QED BY <1>7, <2>7, <3>1 DEF CloseEnd, Pop
  <2>8. CASE End(p)
    <3>1. over' = "exit" /\ closer = {} => pend = {}
      <4> SUFFICES ASSUME over' = "exit", closer = {} PROVE pend = {}
        OBVIOUS
      <4>1. p = main /\ pc[main] = "unwind" /\ defers[main] = <<>>
        BY <2>8 DEF End
      <4>2. ~ag
        BY <4>1 DEF MainInv, Closes
      <4>3. \A q \in Procs : pc[q] # "publish"
        BY <4>1 DEF MainInv, LifeInv, Initing
      <4> QED BY <4>2, <4>3 DEF LifeInv
    <3>2. /\ pc' = [pc EXCEPT ![p] = "done"] /\ pc[p] = "unwind" /\ defers[p] = <<>>
          /\ UNCHANGED <<once, ag, closer, cfg, via, pend, defers>>
      BY <2>8 DEF End
    <3> QED BY <1>0, <3>1, <3>2 DEF MainInv, Closes
  <2> QED BY <1>8, <2>1, <2>2, <2>3, <2>4, <2>5, <2>6, <2>7, <2>8 DEF Finishes
<1>9. CASE AgentSends
  <2>1. PICK r \in pend : via' = [via EXCEPT ![r] = Select(r[2])]
    BY <1>9 DEF AgentSends
  <2>2. \A t \in Records : via'[t] = "udp" /\ t[2] = "error" => ~HasHTTP(cfg)
    BY <2>1 DEF Types, Select, MainInv
  <2> QED BY <1>9, <2>2 DEF AgentSends, MainInv, Closes, HasHTTP
<1> QED BY <1>3, <1>4, <1>5, <1>6, <1>8, <1>9 DEF Next

LEMMA NextMain == Types /\ LifeInv /\ MainInv /\ [Next]_vars => MainInv'
<1>1. MainInv /\ UNCHANGED vars => MainInv'
  BY Stutters DEF MainInv, Closes, HasHTTP
<1>2. Next => over = "no"
  BY DEF Next
<1> QED BY <1>1, <1>2, StepMain

LEMMA MainInvariant == Spec => []MainInv
<1>1. Init => MainInv
  BY DEF Init, MainInv, Procs
<1> QED BY <1>1, NextMain, LifeInvariant, PTL DEF Spec

\* When main returns, no record the agent took is left with it unless another
\* goroutine's Close is still at it; and errors go over http whenever there is
\* http (integration.go:166-177, 205-212; policy/level.go:30-55).
THEOREM IntegrationExit == Spec => []ExitDelivers
<1>1. MainInv => ExitDelivers
  BY DEF MainInv, ExitDelivers
<1> QED BY <1>1, MainInvariant, PTL

-----------------------------------------------------------------------------
(* The report of a panic *)

Error(p) == <<p, "error">>
Sent(p) == via[Error(p)] # "none"
Unreported(p) == via[Error(p)] = "none" /\ Error(p) \notin pend

\* The guard that will recover is the next deferred call, and an agent is
\* there for its report.
Awaiting(p) ==
  /\ pc[p] = "unwind" /\ p \in panic
  /\ agent = "open" /\ closer = {}
  /\ Unreported(p)
  /\ defers[p] # <<>>
  /\ Last(defers[p]).lg
  /\ Last(defers[p]).kind \in {"Guard", "GuardAgent", "Do", "Gin"}

PanicOf(p) ==
  /\ pc[p] \in {"start", "init", "publish", "bridge", "enter", "run"} => Unreported(p)
  /\ pc[p] = "run" /\ form[p] \notin {"Main", "Recover"} /\ Guarded(p) =>
       /\ defers[p] # <<>>
       /\ Last(defers[p]).lg
       /\ Last(defers[p]).kind \in {"Guard", "GuardAgent", "Do", "Gin"}
  /\ p \in owed /\ form[p] \notin {"Main", "Recover"} =>
       \/ Awaiting(p)
       \/ pc[p] = "report" /\ (Sent(p) \/ Error(p) \in pend)
       \/ /\ pc[p] \in {"unwind", "sync", "drain", "done"}
          /\ Sent(p) \/ (Error(p) \in pend /\ p \in late)

PanicInv == \A p \in Procs : PanicOf(p)

\* What the others may do meanwhile.
LEMMA OthersPanic ==
  ASSUME NEW q \in Procs, PanicOf(q), form' = form,
         pc'[q] = pc[q], defers'[q] = defers[q],
         q \in panic => q \in panic',
         q \in late => q \in late',
         q \in owed' => q \in owed,
         \/ via'[Error(q)] = via[Error(q)] /\ (Error(q) \in pend' <=> Error(q) \in pend)
         \/ Error(q) \in pend /\ Sent(q)',
         \/ agent = "open" /\ closer = {} => agent' = "open" /\ closer' = {}
         \/ q \in owed' => ~Unreported(q)
  PROVE  PanicOf(q)'
<1>1. Awaiting(q) /\ q \in owed' => Awaiting(q)'
  BY DEF Awaiting, Unreported
<1>2. Guarded(q)' = Guarded(q)
  BY DEF Guarded
<1> QED BY <1>1, <1>2 DEF PanicOf, Unreported, Sent

LEMMA StepPanic == Types /\ LifeInv /\ MainInv /\ PanicInv /\ Next => PanicInv'
<1> SUFFICES ASSUME Types, LifeInv, MainInv, PanicInv, Next PROVE PanicInv'
  OBVIOUS
<1> USE DEF Goto, initVars, recVars
<1>0. /\ pc \in [Procs -> {"start", "init", "publish", "bridge", "enter", "run", "unwind",
                           "report", "sync", "drain", "done"}]
      /\ closer \subseteq Procs /\ defers \in [Procs -> Seq(Deferred)]
      /\ via \in [Records -> {"none", "http", "udp"}] /\ pend \subseteq Records
      /\ owed \subseteq Procs
      /\ \A p \in Procs : Error(p) \in Records
  BY DEF Types, Error, Records, Levels
<1>a. \A p, q \in Procs : p # q => Error(p) # Error(q)
  BY DEF Error
\* A process in Init.
<1>1. ASSUME NEW p \in Procs, UNCHANGED <<closer, form, defers, panic, recVars>>,
             agent = "open" => agent' = "open",
             pc[p] \in {"start", "init", "publish", "bridge"},
             NEW l \in {"init", "publish", "bridge", "enter", "done"},
             pc' = [pc EXCEPT ![p] = l]
      PROVE  PanicInv'
  <2>1. ASSUME NEW q \in Procs, q # p PROVE PanicOf(q)'
    <3>1. PanicOf(q) /\ pc'[q] = pc[q]
      BY <1>0, <1>1, <2>1 DEF PanicInv
    <3> QED BY <1>1, <3>1, OthersPanic
  <2>2. PanicOf(p)'
    <3>1. PanicOf(p) /\ pc'[p] = l
      BY <1>0, <1>1 DEF PanicInv
    <3> QED BY <1>1, <3>1 DEF PanicOf, Awaiting, Unreported, Sent, Error
  <2> QED BY <2>1, <2>2 DEF PanicInv
<1>2. ASSUME NEW p \in Procs, InitStep(p) PROVE PanicInv'
  <2>1. CASE CallInit(p)
    BY <1>1, <2>1 DEF CallInit
  <2>2. CASE InitDone(p) \/ NoInit(p)
    BY <1>1, <2>2 DEF InitDone, NoInit
  <2>3. CASE InitSkipped(p)
    BY <1>1, <2>3 DEF InitSkipped
  <2>4. CASE InitNoTransport(p)
    BY <1>1, <2>4 DEF InitNoTransport, InitReturnsError
  <2>5. CASE NewAgent(p)
    <3>1. UNCHANGED <<closer, form, defers, panic, recVars, pc>> /\ agent # "open"
      BY <2>5 DEF NewAgent
    <3> QED BY <3>1, OthersPanic DEF PanicInv
  <2>6. CASE StartFails(p)
    BY <1>1, <2>6 DEF StartFails, InitReturnsError
  <2>7. CASE StartAgent(p)
    BY <1>1, <2>7 DEF StartAgent
  <2>8. CASE Publish(p)
    BY <1>1, <2>8 DEF Publish
  <2>9. CASE InitReturns(p)
    BY <1>1, <2>9 DEF InitReturns
  <2> QED BY <1>2, <2>1, <2>2, <2>3, <2>4, <2>5, <2>6, <2>7, <2>8, <2>9 DEF InitStep
\* One process moves; the others are where they were.
<1>3. ASSUME NEW p \in Procs,
             \A q \in Procs : q # p => /\ pc'[q] = pc[q] /\ defers'[q] = defers[q]
                                       /\ (q \in panic => q \in panic')
                                       /\ (q \in owed' => q \in owed),
             UNCHANGED <<agent, closer, form, via>>, late \subseteq late',
             \A q \in Procs : q # p => (Error(q) \in pend' <=> Error(q) \in pend),
             PanicOf(p)'
      PROVE  PanicInv'
  <2>1. ASSUME NEW q \in Procs, q # p PROVE PanicOf(q)'
    <3>1. PanicOf(q)
      BY DEF PanicInv
    <3> QED BY <1>3, <2>1, <3>1, OthersPanic
  <2> QED BY <1>3, <2>1 DEF PanicInv
<1>4. ASSUME NEW p \in Procs, Enter(p) PROVE PanicInv'
  <2>1. PICK cont \in BOOLEAN : defers' = [defers EXCEPT ![p] = Defers(form[p], cont)]
    BY <1>4 DEF Enter
  <2>2. /\ pc' = [pc EXCEPT ![p] = "run"] /\ pc[p] = "enter"
        /\ UNCHANGED <<initVars, form, panic, recVars>>
    BY <1>4 DEF Enter
  <2>3. defers'[p] = Defers(form[p], cont) /\ pc'[p] = "run"
    BY <1>0, <2>1, <2>2
  <2>4. form[p] \notin {"Main", "Recover"} /\ Guarded(p)' =>
         /\ defers'[p] # <<>>
         /\ Last(defers'[p]).lg
         /\ Last(defers'[p]).kind \in {"Guard", "GuardAgent", "Do", "Gin"}
    <3> DEFINE d == Defers(form[p], cont)
    <3>1. ag \in BOOLEAN /\ form[p] \in Forms \cup {"Main", "Docs"}
      BY DEF Types
    <3>2. form[p] \notin {"Main", "Recover"} /\ (\E i \in DOMAIN d : d[i].lg)
            => /\ d # <<>>
               /\ Last(d).lg
               /\ Last(d).kind \in {"Guard", "GuardAgent", "Do", "Gin"}
      BY <3>1, DefersGuard
    <3> HIDE DEF d
    <3>3. Guarded(p)' <=> \E i \in DOMAIN d : d[i].lg
      BY <2>3 DEF Guarded, d
    <3> QED BY <2>3, <3>2, <3>3 DEF d
  <2>5. PanicOf(p)'
    <3>1. PanicOf(p)
      BY DEF PanicInv
    <3> QED BY <2>2, <2>3, <2>4, <3>1 DEF PanicOf, Unreported, Awaiting
  <2> QED BY <1>0, <1>3, <2>1, <2>2, <2>5
<1>5. ASSUME NEW p \in Procs, StdLog(p) PROVE PanicInv'
  <2>1. \A q \in Procs : Error(q) \in pend' <=> Error(q) \in pend
    BY <1>5 DEF StdLog, Taken, Error
  <2>2. UNCHANGED <<pc, defers, panic, late, owed, agent, closer, form, via>>
    BY <1>5 DEF StdLog
  <2>3. ASSUME NEW q \in Procs PROVE PanicOf(q)'
    <3>1. PanicOf(q)
      BY DEF PanicInv
    <3> QED BY <2>1, <2>2, <3>1, OthersPanic
  <2> QED BY <2>3 DEF PanicInv
<1>6. ASSUME NEW p \in Procs, Answer(p) PROVE PanicInv'
  BY <1>6, OthersPanic DEF Answer, PanicInv
<1>7. ASSUME NEW p \in Procs, Return(p) \/ Panics(p) PROVE PanicInv'
  <2>1. /\ pc' = [pc EXCEPT ![p] = "unwind"] /\ pc[p] = "run"
        /\ UNCHANGED <<initVars, form, defers, pend, via, late>>
        /\ panic \subseteq panic' /\ owed \subseteq owed'
        /\ \A q \in Procs : q # p => (q \in owed' => q \in owed)
    BY <1>7 DEF Return, Panics
  <2>2. (PanicOf(p) /\ p \notin owed) \/ form[p] \in {"Main", "Recover"}
    BY <2>1 DEF PanicInv, PanicOf, Awaiting
  <2>3. pc'[p] = "unwind"
    BY <1>0, <2>1
  <2>4. PanicOf(p) /\ Unreported(p)'
    BY <2>1 DEF PanicInv, PanicOf, Unreported
  <2>5. PanicOf(p)'
    <3>1. CASE Return(p)
      <4>1. owed' = owed
        BY <3>1 DEF Return
      <4> QED BY <2>1, <2>2, <2>3, <2>4, <4>1 DEF PanicOf
    <3>2. CASE Panics(p)
      <4>1. p \in owed' /\ form[p] \notin {"Main", "Recover"} =>
              agent = "open" /\ closer = {} /\ Guarded(p) /\ p \in panic'
        BY <2>2, <3>2 DEF Panics
      <4>2. p \in owed' /\ form[p] \notin {"Main", "Recover"} => Awaiting(p)'
        BY <2>1, <2>3, <2>4, <4>1 DEF PanicOf, Awaiting
      <4> QED BY <2>1, <2>3, <4>2 DEF PanicOf
    <3> QED BY <1>7, <3>1, <3>2
  <2> QED BY <1>0, <1>3, <2>1, <2>5
<1>8. ASSUME NEW p \in Procs, Finishes(p) PROVE PanicInv'
  <2>0. PanicOf(p)
    BY DEF PanicInv
\* What p defers runs: its own report is behind it.
  <2>a. ASSUME pc[p] \in {"unwind", "report", "sync", "drain"},
               NEW l \in {"unwind", "sync", "drain", "done"}, pc' = [pc EXCEPT ![p] = l],
               \A q \in Procs : q # p => defers'[q] = defers[q] /\ (q \in panic => q \in panic'),
               ~Awaiting(p),
               UNCHANGED <<form, pend, via>>, late \subseteq late', owed' \subseteq owed,
               pc[p] = "report" => p \in late' \/ pend = {},
               \/ UNCHANGED <<agent, closer>>
               \/ agent # "open" \/ closer # {}
               \/ \A q \in owed' : q # p => ~Unreported(q)
        PROVE  PanicInv'
    <3>1. ASSUME NEW q \in Procs, q # p PROVE PanicOf(q)'
      <4>1. PanicOf(q) /\ pc'[q] = pc[q]
        BY <1>0, <2>a, <3>1 DEF PanicInv
      <4> QED BY <2>a, <3>1, <4>1, OthersPanic
    <3>2. PanicOf(p)'
      <4>1. pc'[p] = l
        BY <1>0, <2>a
      <4>2. Sent(p)' = Sent(p)
        BY <2>a DEF Sent, Error
      <4> QED BY <2>0, <2>a, <4>1, <4>2 DEF PanicOf
    <3> QED BY <3>1, <3>2 DEF PanicInv
  <2>1. CASE PassesBy(p)
    <3>1. pc' = [pc EXCEPT ![p] = "unwind"] /\ ~Awaiting(p)
      BY <1>0, <2>1 DEF PassesBy, Unwinding, Awaiting, Top
    <3> QED BY <1>0, <2>1, <2>a, <3>1 DEF PassesBy, Unwinding, Pop
  <2>2. CASE Report(p)
    <3>1. /\ pc' = [pc EXCEPT ![p] = "report"] /\ pc[p] = "unwind"
          /\ UNCHANGED <<initVars, form, defers, panic, via, late, owed>>
          /\ Taken(Error(p))
      BY <2>2 DEF Report, Recovers, Unwinding, Error
    <3>2. \A q \in Procs : q # p => (Error(q) \in pend' <=> Error(q) \in pend)
      BY <1>a, <3>1 DEF Taken
    <3>3. pend \subseteq pend' /\ (Awaiting(p) => Error(p) \in pend')
      BY <3>1 DEF Taken, Awaiting, Unreported
    <3>4. pc'[p] = "report"
      BY <1>0, <3>1
    <3>5. PanicOf(p)'
      BY <2>0, <3>1, <3>3, <3>4 DEF PanicOf, Sent, Error
    <3> QED BY <1>0, <1>3, <3>1, <3>2, <3>5
  <2>3. CASE ReportSynced(p)
    <3>1. ~Awaiting(p)
      BY <2>3 DEF ReportSynced, Awaiting
    <3>2. \A q \in Procs : q # p => defers'[q] = defers[q]
      BY <1>0, <2>3 DEF ReportSynced
    <3>3. pc' = [pc EXCEPT ![p] = "unwind"] /\ pc[p] = "report"
          /\ late \subseteq late' /\ (p \in late' \/ pend = {})
          /\ UNCHANGED <<initVars, form, panic, pend, via, owed>>
      BY <2>3 DEF ReportSynced
    <3> QED BY <2>a, <3>1, <3>2, <3>3
  <2>4. CASE Recovered(p)
    <3>1. pc' = [pc EXCEPT ![p] = "unwind"] /\ ~Awaiting(p)
      BY <1>0, <2>4 DEF Recovered, Recovers, Unwinding, Awaiting, Top
    <3> QED BY <1>0, <2>4, <2>a, <3>1 DEF Recovered, Recovers, Unwinding, Pop
  <2>5. CASE CloseBegin(p)
    <3>1. ~Awaiting(p) /\ pc[p] = "unwind"
      BY <2>5 DEF CloseBegin, Unwinding, Awaiting, Top
    <3>2. /\ owed' \subseteq owed
          /\ \A q \in owed' : q # p => ~Unreported(q)
      BY <2>5 DEF CloseBegin, Unreported, Error
    <3>3. UNCHANGED <<agent, form, panic, pend, via, late>>
      BY <2>5 DEF CloseBegin
    <3>4. /\ \E l \in {"unwind", "sync"} : pc' = [pc EXCEPT ![p] = l]
          /\ \A q \in Procs : q # p => defers'[q] = defers[q]
      BY <1>0, <2>5, <3>1 DEF CloseBegin, Pop
    <3> QED BY <2>a, <3>1, <3>2, <3>3, <3>4
  <2>6. CASE CloseSynced(p)
    <3>1. ~Awaiting(p) /\ closer # {}
      BY <2>6 DEF CloseSynced, Awaiting, LifeInv
    <3> QED BY <2>6, <2>a, <3>1 DEF CloseSynced
  <2>7. CASE CloseEnd(p)
    <3>1. ~Awaiting(p) /\ closer # {}
      BY <2>7 DEF CloseEnd, Awaiting, LifeInv
    <3>2. \A q \in Procs : q # p => defers'[q] = defers[q]
      BY <1>0, <2>7 DEF CloseEnd, Pop
    <3>3. /\ pc' = [pc EXCEPT ![p] = "unwind"] /\ pc[p] = "drain"
          /\ UNCHANGED <<form, panic, pend, via, late, owed>>
      BY <2>7 DEF CloseEnd
    <3> QED BY <2>a, <3>1, <3>2, <3>3
  <2>8. CASE End(p)
    <3>1. ~Awaiting(p)
      BY <2>8 DEF End, Awaiting
    <3> QED BY <2>8, <2>a, <3>1 DEF End
  <2> QED BY <1>8, <2>1, <2>2, <2>3, <2>4, <2>5, <2>6, <2>7, <2>8 DEF Finishes
<1>9. CASE AgentSends
  <2>1. PICK r \in pend : pend' = pend \ {r} /\ via' = [via EXCEPT ![r] = Select(r[2])]
    BY <1>9 DEF AgentSends
  <2>2. UNCHANGED <<initVars, form, pc, defers, panic, late, owed>>
    BY <1>9 DEF AgentSends
  <2>3. ASSUME NEW q \in Procs PROVE PanicOf(q)'
    <3>1. PanicOf(q)
      BY DEF PanicInv
    <3>2. CASE r = Error(q)
      <4>1. Sent(q)'
        BY <1>0, <2>1, <3>2 DEF Sent, Select, Error
      <4> QED BY <2>1, <2>2, <3>1, <3>2, <4>1, OthersPanic
    <3>3. CASE r # Error(q)
      <4>1. via'[Error(q)] = via[Error(q)] /\ (Error(q) \in pend' <=> Error(q) \in pend)
        BY <1>0, <2>1, <3>3
      <4> QED BY <2>2, <3>1, <4>1, OthersPanic
    <3> QED BY <3>2, <3>3
  <2> QED BY <2>3 DEF PanicInv
<1> QED BY <1>2, <1>4, <1>5, <1>6, <1>7, <1>8, <1>9 DEF Next

LEMMA NextPanic == Types /\ LifeInv /\ MainInv /\ PanicInv /\ [Next]_vars => PanicInv'
<1>1. PanicInv /\ UNCHANGED vars => PanicInv'
  <2> SUFFICES ASSUME PanicInv, UNCHANGED vars PROVE PanicInv'
    OBVIOUS
  <2>1. ASSUME NEW q \in Procs PROVE PanicOf(q)'
    <3>1. PanicOf(q)
      BY DEF PanicInv
    <3> QED BY <3>1, Stutters, OthersPanic
  <2> QED BY <2>1 DEF PanicInv
<1> QED BY <1>1, StepPanic

\* A panic under a guard with a logger, when no other goroutine closes the agent
\* before it is reported, has been taken by the agent when its goroutine ends,
\* and has reached a transport unless Sync gave up; in main even then, unless
\* another goroutine is closing the agent. Main and opslog4proc.Recover are left
\* out: they lose the report (panicx.go:27-109, docs/sdk.md:35-37).
THEOREM IntegrationPanics == Spec => []PanicDelivered
<1>1. Init => PanicInv
  BY DEF Init, PanicInv, PanicOf, Unreported, Error, Records, Levels
<1>2. Types /\ LifeInv /\ MainInv /\ PanicInv => PanicDelivered
  <2> SUFFICES ASSUME Types, LifeInv, MainInv, PanicInv,
                      NEW p \in owed, form[p] \notin {"Main", "Recover"}, pc[p] = "done"
               PROVE  /\ Sent(p) \/ Error(p) \in pend
                      /\ p \notin late \/ (p = main /\ closer = {}) => Sent(p)
    BY DEF PanicDelivered, Delivered, Sent, Error
  <2>1. p \in Procs /\ PanicOf(p)
    BY DEF Types, PanicInv
  <2>2. Sent(p) \/ (Error(p) \in pend /\ p \in late)
    BY <2>1 DEF PanicOf, Awaiting
  <2>3. p = main /\ closer = {} => pend = {}
    <3> SUFFICES ASSUME p = main, closer = {} PROVE pend = {}
      OBVIOUS
    <3>1. ~ag
      BY <2>1 DEF MainInv, Closes
    <3>2. \A q \in Procs : pc[q] # "publish"
      BY DEF MainInv, LifeInv, Initing
    <3> QED BY <3>1, <3>2 DEF LifeInv
  <2> QED BY <2>2, <2>3
<1> QED BY <1>1, <1>2, NextPanic, MainInvariant, LifeInvariant, PTL DEF Spec

-----------------------------------------------------------------------------
(* The answer of a request *)

\* A request defers a guard of its own or gin's; once it unwinds without a
\* panic it has been answered.
GinOf(p) ==
  /\ answers[p] \in {0, 1}
  /\ \A i \in DOMAIN defers[p] : defers[p][i].kind \in {"Gin", "gin.Recovery"}
  /\ pc[p] \notin {"sync", "drain"}
  /\ pc[p] \in {"unwind", "report"} /\ p \notin panic => answers[p] = 1
  /\ pc[p] = "done" /\ p \notin panic => answers[p] = 1 \/ over = "crash"

GinInv == \A p \in Procs : form[p] = "Gin" => GinOf(p)

LEMMA OthersAnswer ==
  ASSUME NEW q \in Procs, GinOf(q), over = "no" \/ over' = over,
         pc'[q] = pc[q], defers'[q] = defers[q], answers'[q] = answers[q],
         q \in panic => q \in panic'
  PROVE  GinOf(q)'
BY DEF GinOf

LEMMA StepGin == Types /\ MainInv /\ GinInv /\ over = "no" /\ Next => GinInv'
<1> SUFFICES ASSUME Types, MainInv, GinInv, over = "no", Next PROVE GinInv'
  OBVIOUS
<1> USE DEF Goto, initVars, recVars
<1>0. /\ pc \in [Procs -> {"start", "init", "publish", "bridge", "enter", "run", "unwind",
                           "report", "sync", "drain", "done"}]
      /\ defers \in [Procs -> Seq(Deferred)] /\ answers \in [Procs -> Nat]
      /\ ag \in BOOLEAN
  BY DEF Types
\* One process moves.
<1>1. ASSUME NEW p \in Procs, form' = form,
             \A q \in Procs : q # p =>
               /\ pc'[q] = pc[q] /\ defers'[q] = defers[q] /\ answers'[q] = answers[q]
               /\ (q \in panic => q \in panic'),
             form[p] = "Gin" => GinOf(p)'
      PROVE  GinInv'
  <2>1. ASSUME NEW q \in Procs, q # p, form[q] = "Gin" PROVE GinOf(q)'
    <3>1. GinOf(q)
      BY <2>1 DEF GinInv
    <3> QED BY <1>1, <2>1, <3>1, OthersAnswer
  <2> QED BY <1>1, <2>1 DEF GinInv
<1>2. ASSUME NEW p \in Procs, InitStep(p) PROVE GinInv'
  <2>1. /\ UNCHANGED <<form, defers, panic, answers>>
        /\ \A q \in Procs : q # p => pc'[q] = pc[q]
    BY <1>0, <1>2 DEF InitStep, CallInit, InitDone, NoInit, InitSkipped, InitNoTransport, NewAgent,
                      StartFails, StartAgent, Publish, InitReturns, InitReturnsError
  <2>2. pc'[p] \in {"init", "publish", "bridge", "enter"}
        \/ (pc'[p] = "done" /\ (form[p] = "Gin" => over' = "crash"))
    BY <1>0, <1>2 DEF InitStep, CallInit, InitDone, NoInit, InitSkipped, InitNoTransport, NewAgent,
                      StartFails, StartAgent, Publish, InitReturns, InitReturnsError
  <2>3. form[p] = "Gin" => GinOf(p)'
    BY <2>1, <2>2 DEF GinInv, GinOf
  <2> QED BY <1>1, <2>1, <2>3
<1>3. ASSUME NEW p \in Procs, Enter(p) PROVE GinInv'
  <2>1. PICK cont \in BOOLEAN : defers' = [defers EXCEPT ![p] = Defers(form[p], cont)]
    BY <1>3 DEF Enter
  <2>2. pc' = [pc EXCEPT ![p] = "run"] /\ UNCHANGED <<form, panic, answers, over>>
    BY <1>3 DEF Enter
  <2>3. form[p] = "Gin" => GinOf(p)'
    <3>1. form[p] = "Gin" => \A i \in DOMAIN defers'[p] : defers'[p][i].kind \in {"Gin", "gin.Recovery"}
      BY <1>0, <2>1, DefersGin
    <3>2. pc'[p] = "run"
      BY <1>0, <2>2
    <3> QED BY <2>2, <3>1, <3>2 DEF GinInv, GinOf
  <2> QED BY <1>0, <1>1, <2>1, <2>2, <2>3
<1>4. ASSUME NEW p \in Procs, StdLog(p) \/ Answer(p) \/ Return(p) \/ Panics(p) PROVE GinInv'
  <2>1. CASE StdLog(p)
    <3>1. UNCHANGED <<form, pc, defers, panic, answers, over>>
      BY <2>1 DEF StdLog
    <3> QED BY <3>1 DEF GinInv, GinOf
  <2>2. CASE Answer(p)
    BY <1>0, <1>1, <2>2 DEF Answer, GinInv, GinOf
  <2>3. CASE Return(p)
    <3>1. /\ pc'[p] = "unwind" /\ UNCHANGED <<form, defers, panic>>
          /\ form[p] = "Gin" => answers'[p] = 1
          /\ \A q \in Procs : q # p => pc'[q] = pc[q] /\ answers'[q] = answers[q]
      BY <1>0, <2>3 DEF Return
    <3>2. form[p] = "Gin" => GinOf(p)'
      BY <3>1 DEF GinInv, GinOf
    <3> QED BY <1>1, <3>1, <3>2
  <2>4. CASE Panics(p)
    <3>1. /\ pc'[p] = "unwind" /\ p \in panic' /\ panic \subseteq panic'
          /\ UNCHANGED <<form, defers, answers>>
          /\ \A q \in Procs : q # p => pc'[q] = pc[q]
      BY <1>0, <2>4 DEF Panics
    <3>2. form[p] = "Gin" => GinOf(p)'
      BY <3>1 DEF GinInv, GinOf
    <3> QED BY <1>1, <3>1, <3>2
  <2> QED BY <1>4, <2>1, <2>2, <2>3, <2>4
<1>5. ASSUME NEW p \in Procs, Finishes(p) PROVE GinInv'
  <2>0. /\ form[p] = "Gin" => GinOf(p)
        /\ defers[p] # <<>> =>
             \A i \in DOMAIN Front(defers[p]) :
               i \in DOMAIN defers[p] /\ Front(defers[p])[i] = defers[p][i]
    BY <1>0, PopProperties DEF GinInv
  <2>a. form[p] = "Gin" /\ defers[p] # <<>> => Last(defers[p]).kind # "Close"
    <3>1. defers[p] # <<>> => Len(defers[p]) \in DOMAIN defers[p]
      BY <1>0, PopProperties
    <3> QED BY <2>0, <3>1 DEF GinOf, Last
  <2>1. CASE PassesBy(p)
    <3>1. /\ pc' = pc /\ UNCHANGED <<form, panic, answers>> /\ defers[p] # <<>>
          /\ defers' = [defers EXCEPT ![p] = Front(@)] /\ pc[p] = "unwind"
      BY <2>1 DEF PassesBy, Unwinding, Pop
    <3>2. defers'[p] = Front(defers[p]) /\ \A q \in Procs : q # p => defers'[q] = defers[q]
      BY <1>0, <3>1
    <3>3. form[p] = "Gin" => GinOf(p)'
      BY <2>0, <3>1, <3>2 DEF GinOf
    <3> QED BY <1>1, <3>1, <3>2, <3>3
  <2>2. CASE Report(p)
    <3>1. /\ pc'[p] = "report" /\ pc[p] = "unwind"
          /\ UNCHANGED <<form, defers, panic, answers>>
          /\ \A q \in Procs : q # p => pc'[q] = pc[q]
      BY <1>0, <2>2 DEF Report, Recovers, Unwinding
    <3>2. form[p] = "Gin" => GinOf(p)'
      BY <2>0, <3>1 DEF GinOf
    <3> QED BY <1>1, <3>1, <3>2
  <2>3. CASE ReportSynced(p)
    <3>1. defers' = [defers EXCEPT ![p] = Marked(@)] /\ defers[p] # <<>>
      BY <2>3 DEF ReportSynced, Marked, Types
    <3>2. /\ DOMAIN Marked(defers[p]) = DOMAIN defers[p]
          /\ \A i \in DOMAIN defers[p] : Marked(defers[p])[i].kind = defers[p][i].kind
      BY <1>0, <3>1, MarkProperties
    <3>3. defers'[p] = Marked(defers[p]) /\ \A q \in Procs : q # p => defers'[q] = defers[q]
      BY <1>0, <3>1
    <3>4. /\ pc'[p] = "unwind" /\ pc[p] = "report" /\ UNCHANGED <<form, panic, answers>>
          /\ \A q \in Procs : q # p => pc'[q] = pc[q]
      BY <1>0, <2>3 DEF ReportSynced
    <3>5. form[p] = "Gin" => GinOf(p)'
      BY <2>0, <3>2, <3>3, <3>4 DEF GinOf
    <3> QED BY <1>1, <3>3, <3>4, <3>5
  <2>4. CASE Recovered(p)
    <3>1. /\ pc' = pc /\ form' = form /\ defers[p] # <<>>
          /\ defers' = [defers EXCEPT ![p] = Front(@)] /\ pc[p] = "unwind"
          /\ panic' = IF Last(defers[p]).cont THEN panic ELSE panic \ {p}
      BY <2>4 DEF Recovered, Recovers, Unwinding, Pop, Top
    <3>2. defers'[p] = Front(defers[p]) /\ \A q \in Procs : q # p => defers'[q] = defers[q]
      BY <1>0, <3>1
    <3>3. Len(defers[p]) \in DOMAIN defers[p]
      BY <1>0, <3>1, PopProperties
    <3>4. form[p] = "Gin" => Last(defers[p]).kind \in {"Gin", "gin.Recovery"}
      BY <2>0, <3>3 DEF GinOf, Last
    <3>5. /\ \A q \in Procs : q # p => answers'[q] = answers[q]
          /\ form[p] = "Gin" => answers'[p] \in {0, 1}
          /\ form[p] = "Gin" /\ ~Last(defers[p]).cont => answers'[p] = 1
          /\ answers'[p] = answers[p] \/ answers'[p] = 1
      BY <1>0, <2>0, <2>4, <3>4 DEF Recovered, Top, GinOf
    <3>6. form[p] = "Gin" => GinOf(p)'
      BY <2>0, <3>1, <3>2, <3>5 DEF GinOf
    <3> QED BY <1>1, <3>1, <3>2, <3>5, <3>6
  <2>5. CASE CloseBegin(p)
    <3>1. /\ UNCHANGED <<form, panic, answers>> /\ form[p] # "Gin"
      BY <2>5, <2>a DEF CloseBegin, Unwinding, Top
    <3>2. \A q \in Procs : q # p => pc'[q] = pc[q] /\ defers'[q] = defers[q]
      BY <1>0, <2>5 DEF CloseBegin, Pop
    <3> QED BY <1>1, <3>1, <3>2
  <2>6. CASE CloseSynced(p) \/ CloseEnd(p)
    <3>1. /\ UNCHANGED <<form, panic, answers>> /\ form[p] # "Gin"
      BY <2>6, <2>0 DEF CloseSynced, CloseEnd, GinOf
    <3>2. \A q \in Procs : q # p => pc'[q] = pc[q] /\ defers'[q] = defers[q]
      BY <1>0, <2>6 DEF CloseSynced, CloseEnd, Pop
    <3> QED BY <1>1, <3>1, <3>2
  <2>7. CASE End(p)
    <3>1. /\ pc'[p] = "done" /\ pc[p] = "unwind"
          /\ UNCHANGED <<form, defers, panic, answers>>
          /\ \A q \in Procs : q # p => pc'[q] = pc[q]
      BY <1>0, <2>7 DEF End
    <3>2. form[p] = "Gin" => GinOf(p)'
      BY <2>0, <3>1 DEF GinOf
    <3> QED BY <1>1, <3>1, <3>2
  <2> QED BY <1>5, <2>1, <2>2, <2>3, <2>4, <2>5, <2>6, <2>7 DEF Finishes
<1>6. CASE AgentSends
  <2>1. UNCHANGED <<form, pc, defers, panic, answers, over>>
    BY <1>6 DEF AgentSends
  <2> QED BY <2>1 DEF GinInv, GinOf
<1> QED BY <1>2, <1>3, <1>4, <1>5, <1>6 DEF Next

LEMMA NextGin == Types /\ MainInv /\ GinInv /\ [Next]_vars => GinInv'
<1>1. GinInv /\ UNCHANGED vars => GinInv'
  BY Stutters DEF GinInv, GinOf
<1>2. Next => over = "no"
  BY DEF Next
<1> QED BY <1>1, <1>2, StepGin

\* A request is answered once, by its handler or with an error, unless its
\* panic goes on (recovery.go:58-101).
THEOREM IntegrationAnswers == Spec => []AnsweredOnce
<1>1. Init => GinInv
  BY DEF Init, GinInv, GinOf
<1>2. GinInv => AnsweredOnce
  BY DEF GinInv, GinOf, AnsweredOnce, Procs
<1> QED BY <1>1, <1>2, NextGin, MainInvariant, LifeInvariant, PTL DEF Spec
=============================================================================
