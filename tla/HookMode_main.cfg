SPECIFICATION FairSpec
CONSTANTS a = a  b = b  c = c  Apps = {a, b, c}  NoApp = none
 Rules <- TwoVersions  CjkApps = {c}  Configs <- AllConfigs  MaxModes = 2
 Budgets <- Mixed
PROPERTIES ModesArrive RememberedModesAreOwn
CHECK_DEADLOCK FALSE
