SPECIFICATION FairSpec
CONSTANTS
    MaxCoord = 2
    MaxScans = 1
    MaxPosted = 1
PROPERTIES
    ScanSweeps
