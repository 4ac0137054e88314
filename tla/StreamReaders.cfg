SPECIFICATION FairSpec
CONSTANTS
    Low = 4
    MAX_BODY_LEN = 4
    Numbers <- MCNumbers
    Strings <- MCStrings
    Addresses <- MCAddresses
    MaxMethods = 2
    User <- MCUser
    Pass <- MCPass
    Logins <- MCLogins
CHECK_DEADLOCK FALSE
INVARIANTS TypeOK ReadBack DataLeft CutIsEof AuthEnforced
PROPERTIES SessionServed
