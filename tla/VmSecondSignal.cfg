SPECIFICATION Spec
CONSTANT SignalsIn = {"stop"}
INVARIANT EveryExitStopsQemu
