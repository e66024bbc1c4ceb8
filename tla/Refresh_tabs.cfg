CONSTANTS
    Callers = {tab, other}
    Faults = {}
    MaxSecret = 5
SPECIFICATION Spec
SYMMETRY MCSymmetry
CHECK_DEADLOCK FALSE
INVARIANT TabsEndUpLive
