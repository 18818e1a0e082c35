SPECIFICATION Spec
CONSTANTS
  main = main
  w1 = w1
  Others = {w1}
  Calls <- SomeCalls
  MainForms = {"Main", "Docs"}
  Shapes <- AllShapes
INVARIANT MainPanicDelivered
CHECK_DEADLOCK FALSE
