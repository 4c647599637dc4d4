SPECIFICATION GateSpec
CONSTANTS
    MaxHooks = 2
    MaxTargets = 2
INVARIANTS GateTypeOK GateIsStrictest AllowIsJustified
CHECK_DEADLOCK FALSE
