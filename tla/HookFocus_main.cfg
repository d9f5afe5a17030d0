SPECIFICATION FairSpec
CONSTANTS Windows = {w1, w2}  Helper = helper  NoWindow = nowin
 Budgets <- AllBudgets
INVARIANTS CommandHasWake
PROPERTIES FocusAndSettingsArrive
CHECK_DEADLOCK FALSE
