CONSTANTS
    Callers = {tab}
    Faults = {}
    MaxSecret = 5
SPECIFICATION Spec
CHECK_DEADLOCK FALSE
PROPERTY LogoutClosesSession
