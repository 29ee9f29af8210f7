SPECIFICATION Spec
CONSTANTS
    Maps <- MCMaps
    Inputs <- MCInputs
INVARIANTS OverlaySound SidesAreTrue ResultIsExact
CHECK_DEADLOCK FALSE
