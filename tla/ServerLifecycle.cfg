SPECIFICATION FairSpec
CONSTANTS
    Procs = {n1}
    Topics = {t1, t2}
    Ttl = 3
    Interval = 2
    DeregisterAfter = 6
    MaxFaults = 3
CHECK_DEADLOCK FALSE
INVARIANTS OneSubscription AdvertisedListens CleanExit StaysPassing
PROPERTIES StopReturns Recovers
