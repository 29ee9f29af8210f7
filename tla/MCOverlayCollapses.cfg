SPECIFICATION Spec
CONSTANTS
    Maps <- MCMaps
    Inputs <- MCInputs
INVARIANT CollapsesKept
CHECK_DEADLOCK FALSE
