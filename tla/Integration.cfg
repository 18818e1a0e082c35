SPECIFICATION Spec
CONSTANTS
  main = main
  w1 = w1
  Others = {w1}
  Calls <- SomeCalls
  MainForms = {"Main", "Docs"}
  Shapes <- AllShapes
INVARIANTS NoAgentLeak ExitDelivers PanicDelivered AnsweredOnce
PROPERTY ProcessEnds
CHECK_DEADLOCK FALSE
