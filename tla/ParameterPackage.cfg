\* Both strategies, up to three parameters.
CONSTANTS
  Sizes <- MCSizes
  Strategies <- MCBothStrategies
  PutValues = {1, 2}
  Garbage = Garbage
SPECIFICATION Spec
INVARIANTS HoldsAccepted FetchesPresentRound
