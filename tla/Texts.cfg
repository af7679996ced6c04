\* The inputs grow to their bounds, and that is all.
CHECK_DEADLOCK FALSE
CONSTANTS
    No = No
    NotAnObject = NotAnObject
    NotAString = NotAString
SPECIFICATION Spec
INVARIANTS RulesHold WireHolds LedgersHold DialsHold CallersHold ConfigsHold
