SPECIFICATION Spec
CONSTANTS
  main = main
  w1 = w1
  Others = {w1}
  Calls <- SomeCalls
  MainForms = {"Docs"}
  Shapes <- AllShapes
INVARIANT RecoverPanicDelivered
CHECK_DEADLOCK FALSE
