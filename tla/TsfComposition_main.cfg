SPECIFICATION TSpec
CONSTANT Desks <- MCDesks
INVARIANTS KeysCount WordInStep MacrosReplace SecretFieldUntouched
CHECK_DEADLOCK FALSE
