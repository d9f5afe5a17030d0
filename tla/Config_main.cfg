SPECIFICATION MCSpec
CONSTANTS
  Scenarios <- MCScenarios
  Gens = 3
  Names = {a, b}
  Kinds <- MCKinds
  MaxEdits = 2
  MaxWords = 1
INVARIANTS ChoicesArrive ListsKept
PROPERTIES Settles
CHECK_DEADLOCK FALSE
