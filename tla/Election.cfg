\* Three processes, one after or beside the other, and a lease of two seconds.
CONSTANTS
    s1 = s1  s2 = s2  s3 = s3
    NoService = NoService
    Services = {s1, s2, s3}
    ElectionExpireSeconds = 2
SPECIFICATION FairSpec
INVARIANTS
    TypeOK
    OneLeader
    OneWorker
PROPERTIES
    NeverDeposed
    DeposedStepsDown
    LeaderEmerges
