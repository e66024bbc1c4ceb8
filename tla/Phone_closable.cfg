SPECIFICATION Spec
CONSTANTS
    home = home
    site = site
    Places = {home, site}
    GuideFailuresBeforeFallback = 3
    MaxOpening = 1
    MaxPhotos = 2
    LastDay = 1
    Calls = {1, 2}
    Bounds <- ClosableBounds
INVARIANT AlwaysClosable
CHECK_DEADLOCK FALSE
