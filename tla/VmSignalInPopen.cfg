SPECIFICATION Spec
CONSTANT SignalsIn = {"creation"}
INVARIANT EveryExitStopsQemu
