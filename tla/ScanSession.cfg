SPECIFICATION FairSpec
CONSTANTS
    MaxCoord = 2
    MaxScans = 2
    MaxPosted = 1
INVARIANTS
    TypeOK
    ResourcesFollowScan
    OneOutcome
PROPERTIES
    ScanSettles
    SweepsUnlessRaced
