SPECIFICATION FairSpec
CONSTANTS
    Proxy = {p1}
    Tab = {t1, t2}
    failuresBeforeBackoff = 3
    backoffEvery = 6
INVARIANTS TypeOK NoStaleSnapshot CacheMatchesListing NoLostWakeup NoSendOnClosed
PROPERTIES KeepsSchedule TabCatchesUp RecoveryNoticed DeletedForgotten
