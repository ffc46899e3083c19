SPECIFICATION FairSpec
CONSTANTS
    Searchers = {s1}
    Probers = {p1}
    Forgetters = {f1}
    ForgetsDuringProbes = FALSE
    t1 = t1
    t2 = t2
    Diffs <- OneTwoNone
    CommitsRace = FALSE
    RequiresReviewers = TRUE
    MayFail <- Repeatable
    MaxMishaps = 2
INVARIANTS
    TypeOK
    NoDuplicates
    DetectedIsSubmitted
    QueuedIsApproved
    CompleteMeansComplete
PROPERTY GetsThrough
\* A pull request that is complete or closed has nothing more to do.
CHECK_DEADLOCK FALSE
