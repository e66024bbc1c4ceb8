CONSTANTS
    Accounts = {an}
    Elsewhere = elsewhere
    Logins = {l1, l2}
    Ids = {s1, s2, s3, s4}
    MaxDevices = 2
SPECIFICATION Spec
INVARIANT PolicyHoldsToday
