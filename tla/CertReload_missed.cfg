SPECIFICATION FairCertSpec
CONSTANTS
    MaxIdentities = 2
    MaxCrashes = 0
CHECK_DEADLOCK FALSE
PROPERTY ReloadCompletes
