SPECIFICATION FairSpec
CONSTANTS
    number_of_users = 3
    PingAfter = 1
    GiveUp = 3
    AdminPause = 1
    UserPause = 1
INVARIANTS
    AdminTypeOK
    NoneWronged
    ToldInOrder
PROPERTIES
    DeadAreFound
\* nothing is followed once the admin has aborted
CHECK_DEADLOCK FALSE
