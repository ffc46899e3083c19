\* Two services, each with a gh-ost scheduler, and two gh-ost migrations on one topology,
\* which humans mark complete; no host takes them.
CONSTANTS
    m1 = m1  m2 = m2  p1 = p1  t1 = t1  h1 = h1  a1 = a1  c1 = c1  siteA = siteA
    v1 = v1  v2 = v2  s1 = s1  s2 = s2  d1 = d1  w1 = w1  w2 = w2  q1 = q1
    NoToken = NoToken  NoSite = NoSite  NoMigration = NoMigration
    NoPR = NoPR  NoRow = NoRow  NotOwning = NotOwning  NoService = NoService
    Migrations = {m1, m2}
    PRs = {p1}
    PROf <- OnePR
    PRId <- OneId
    TopologyOf <- OneTopology
    AutoStrategy <- AllGhost
    Tokens = {}
    Sites = {siteA}
    Priorities = {0}
    GhostSchedulers = {s1, s2}
    DirectSchedulers = {}
    Scripts = {}
    HostOf <- OnOneHost
    SiteOf <- OneSite
    Appliers = {}
    Forgetters = {}
    Late = {}
    Closable = {}
    Retryable = {}
    MarkedByHand = {m1, m2}
    CanStall = FALSE
    Services = {v1, v2}
    ElectionExpireSeconds = 1
    Sweepers = {}
    Probers = {q1}
    ServiceOf <- Services12
SPECIFICATION OperationsSpec
SYMMETRY Symmetry
INVARIANTS
    OperationsTypeOK
    LedTopologies
PROPERTIES
    ImplementsElection
