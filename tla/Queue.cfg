\* Two gh-ost migrations on one topology and a direct one, of one pull request, two hosts
\* that compete, two overlapping direct appliers, both schedulers.  Executors may die anywhere.
CONSTANTS
    m1 = m1  m2 = m2  m3 = m3  p1 = p1  p2 = p2  t1 = t1  t2 = t2
    h1 = h1  h2 = h2  a1 = a1  a2 = a2  c1 = c1  c2 = c2  siteA = siteA
    NoToken = NoToken  NoSite = NoSite  NoMigration = NoMigration
    NoPR = NoPR  NoRow = NoRow  NotOwning = NotOwning
    Migrations = {m1, m2, m3}
    PRs = {p1}
    PROf <- PRofOne
    PRId <- Ids
    TopologyOf <- LastElsewhere
    AutoStrategy <- LastDirect
    Tokens = {h1, h2, a1, a2}
    Sites = {siteA}
    Priorities = {0}
    GhostSchedulers = {s1}
    DirectSchedulers = {d1}
    Scripts = {c1, c2}
    HostOf <- OnEachHost
    SiteOf <- OneSite
    Appliers = {a1, a2}
    Forgetters = {}
    Late = {}
    Closable = {}
    Retryable = {m1, m3}
    MarkedByHand = {}
    CanStall = FALSE
SPECIFICATION FairSpec
INVARIANTS
    TypeOK
    OneExecutor
    RunningHasToken
    ExecutionIsRecorded
    OneGhostPerTopology
PROPERTIES
    DirectOnlyToFinish
    AppliesOnlyReady
    NoTakeover
    AbandonedIsReleased
    DeadRunningFails
