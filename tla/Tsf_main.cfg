SPECIFICATION MCSpec
CONSTANTS
  Lexicons <- MCLexicons
  None = None
  Faults = {"wire", "reads", "compile", "create", "shared"}
  MaxChanges = 2
  MaxBumps = 1
  MaxFaults = 1
INVARIANTS OneLexicon EngineAsConfigured
PROPERTIES ChangesAreTakenUp
