\* A pull request may be closed while its migration is in flight.
CONSTANTS
    m1 = m1  m2 = m2  m3 = m3  p1 = p1  p2 = p2  t1 = t1  t2 = t2
    h1 = h1  h2 = h2  a1 = a1  a2 = a2  c1 = c1  c2 = c2  siteA = siteA
    NoToken = NoToken  NoSite = NoSite  NoMigration = NoMigration
    NoPR = NoPR  NoRow = NoRow  NotOwning = NotOwning
    Migrations = {m1, m2}
    PRs = {p1, p2}
    PROf <- PRofEach
    PRId <- Ids
    TopologyOf <- SameTopology
    AutoStrategy <- AllGhost
    Tokens = {h1, h2}
    Sites = {siteA}
    Priorities = {0}
    GhostSchedulers = {s1}
    DirectSchedulers = {}
    Scripts = {c1, c2}
    HostOf <- OnEachHost
    SiteOf <- OneSite
    Appliers = {}
    Forgetters = {}
    Late = {}
    Closable = {p1}
    Retryable = {m1}
    MarkedByHand = {}
    CanStall = FALSE
SPECIFICATION Spec
INVARIANTS
    OneGhostPerTopology
