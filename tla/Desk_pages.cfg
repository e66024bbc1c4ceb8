SPECIFICATION FairSpec
CONSTANTS
    ann = ann bob = bob north = north south = south site = site yard = yard
    face = face june = june july = july d1 = d1 d2 = d2
    in1 = in1 out1 = out1 in2 = in2 None = None
    People = {ann, bob} Units = {north, south} Places = {site, yard}
    Worked = {yard} Papers = {face} Punches = {in1, out1, in2}
    Days = {d1, d2} Months = {june, july} Calls = {1, 2}
    Who <- DeskWho
    Kind <- DeskKind
    Bounds <- SmallBounds
INVARIANTS
    TypeOK OneManagerEach SaysWhatWasDone CalendarIsOfMonth PhotosAreOfPanel
    NeverMisattributed OnlyWhatWasTicked
PROPERTIES EveryActionEnds
CHECK_DEADLOCK FALSE
