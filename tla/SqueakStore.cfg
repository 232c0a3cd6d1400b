CONSTANTS
    a1 = a1
    a2 = a2
    Hashes = {1, 2}
    Limit = 1
    MAX_HASH = 3
    Addresses = {a1, a2}
    Author <- MCAuthor
    Retention = 1
    MaxTime = 2
    NONE = NONE

SPECIFICATION Spec
INVARIANT TypeOK
INVARIANT LikedPagesInOrder
INVARIANT LikedPagingIsComplete
PROPERTY UnlockIsPermanent
PROPERTY RetentionSweepDeletesOldSqueaks
