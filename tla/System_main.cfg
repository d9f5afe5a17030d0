SPECIFICATION MCSpec
CONSTANTS
  Fails = 2
  Kills = 1
  Starts = 3
  Mains = {m1, m2}
  Dogs = {d1, d2}
  Restarts = 1
  Orders = 3
  Crashes = 1
  Prompts = 3
  Turns = 6
  Procs = {p1, p2, p3}
  KMaxPending = 2
  KMaxSuccessful = 2
  GateChecks = 2
  Faults = 2
  KMaxRedirects = 1
  Budgets <- EngineBudgets
INVARIANTS UpdateIsWhole  OneAtATime EntryIsRight HookKept EngineIsTrusted
PROPERTIES PairKept WorkIsDone
CHECK_DEADLOCK FALSE
