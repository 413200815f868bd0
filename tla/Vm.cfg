SPECIFICATION Spec
CONSTANT SignalsIn = {"creation", "stop"}
INVARIANT OnlyTheTailRemains
PROPERTY StopReturns
