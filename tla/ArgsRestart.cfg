CONSTANT Inputs <- MCCaseInputs
SPECIFICATION Spec
INVARIANT ChildReentersStart
