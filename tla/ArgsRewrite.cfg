CONSTANT Inputs <- MCSoundInputs
SPECIFICATION Spec
INVARIANT ChildReentersStart
