SPECIFICATION FrontendsSpec
CONSTANTS
    l1 = l1
    c1 = c1
    c2 = c2
    r1 = r1
    r2 = r2
    v1 = v1
    v2 = v2
    e1 = e1
    e2 = e2
    e3 = e3
    o1 = o1
    t1 = t1
    t2 = t2
    Feeds = {"cases", "audit"}
    MaxItems = 3
    Limits = {1, 3}
    MaxLimit = 2
    Cases = {1, 2}
    Positions = {1}
    MaxAttempts = 2
    PageLimit = 1
    PageOffset = 0
    MaxFailures = 2
    Logins = {l1}
    Callbacks = {c1, c2}
    Carriers = {r1, r2}
    StateTTL = 1
    SessionTTL = 1
    MaxTime = 3
    MaxOutages = 1
    Visitors = {v1, v2}
    BitSets = {{"moderate_members"}, {"manage_guild"}}
    Throttle = 1
    MaxClock = 2
    MaxChanges = 1
    Editors = {e1, e2, e3}
    Observers = {o1}
    TemplateIds = {t1, t2}
    Slugs = {"spam", "raid"}
    Askings <- MCAskings
    Policies <- MCPolicies
    Windows = {0, 1}
    Oldest = 2
    MaxCases = 4
    p1 = p1
    p2 = p2
    d1 = d1
    d2 = d2
    Processes = {p1, p2}
    Releases <- MCReleases
    MaxIds = 2
    MaxFaults = 1
    Deliveries = {d1, d2}
    Commands = {c1, c2}
    MaxMishaps = 2
    MaxEdits = 2
INVARIANT CacheGrantsNothing
CHECK_DEADLOCK FALSE
