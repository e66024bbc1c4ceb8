SPECIFICATION BrowserSpec
CONSTANTS
    Callers = {tab}
    Faults = {"loss", "forget"}
    MaxSecret = 5
    Codes = {1, 2}
    Dates = {1, 2}
    Ranges = {1, 2}
    MaxSends = 2
    Reviewers = {manager}
    Accounts = {0, 1, 2}
    Bounds <- SmallBounds
INVARIANTS
    TypeOK StoreLive BrowserTypeOK SaysWhatWasTaken WithdrawnIsNotApplied DayReadsAsItWas
    ErasesWhatWasShown GridIsHeld
PROPERTIES
    SignedOutForCause LandsSomewhere FormsComeBack
CHECK_DEADLOCK FALSE
