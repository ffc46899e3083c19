\* One repository, two commands in progress at once, one pull request.
CONSTANTS
    cA = cA  cB = cB  p1 = p1
    r1 = r1  t1 = t1  o1 = o1  o2 = o2
    NoRepo = NoRepo  NotRegistered = NotRegistered  Unmapped = Unmapped
    NotFound = NotFound  NoName = NoName
    Char <- Letters
    MaxTableNameLength = 8
    Now <- Midnight
    Repos = {r1}
    Owners = {t1}
    Operators = {o1, o2}
    PRs = {p1}
    RepoOf <- OneRepo
    Comments <- FourComments
    HintOrder <- InOrder
    Clusters = {cA, cB}
    Schemas <- OneSchema
    ShardsOf <- OneSharded
    MaxRegistrations = 2
    CanOverlap = FALSE
SYMMETRY AnyOperator
SPECIFICATION Spec
INVARIANTS
    TypeOK
    AutomaticIsAllowed
    ApprovalIsAutorun
    CoversEveryShard
PROPERTIES
    RemovesOnlyWhatItRead
\* Once as many registrations as the bound allows are made and removed there
\* is nothing left to do.
CHECK_DEADLOCK FALSE
