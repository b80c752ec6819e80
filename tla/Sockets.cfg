SPECIFICATION Spec
CONSTANT
  Setups <- MCSetups
INVARIANTS AgentsPaired
PROPERTIES SetupEnds
