SPECIFICATION Spec
CONSTANTS
    Searchers = {s1}
    Probers = {p1}
    Forgetters = {}
    ForgetsDuringProbes = FALSE
    t1 = t1
    t2 = t2
    Diffs <- OneDiff
    CommitsRace = FALSE
    RequiresReviewers = TRUE
    MayFail <- RepeatableAndComment
    MaxMishaps = 2
INVARIANT CompleteMeansComplete
CHECK_DEADLOCK FALSE
