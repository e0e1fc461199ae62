SPECIFICATION FairSpec
CONSTANTS
    Conn = {c1, c2}
    Warmer = w
    Key = {k1, k2}
    NoIndex = NoIndex
INVARIANTS TypeOK AgreeOnIndex BuiltOnce NeverUnavailableAgain
PROPERTIES IndexSticks NobodyWaits
CHECK_DEADLOCK FALSE
