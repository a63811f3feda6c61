SPECIFICATION LegacySpec
CONSTANTS
    o1 = o1
    o2 = o2
    k1 = k1
    k2 = k2
    u1 = u1
    m1 = m1
    e1 = e1
    e2 = e2
    w1 = w1
    a1 = a1
    a2 = a2
    x1 = x1
    x2 = x2
    x3 = x3
    x4 = x4
    h1 = h1
    q1 = q1
    q2 = q2
    q3 = q3
    y1 = y1
    y2 = y2
    y3 = y3
    Opens = {o1, o2}
    Closes = {k1, k2}
    Users = {u1}
    Messages = {m1}
    MaxFailures = 1
    Members = {m1}
    Kinds = {"Ban", "Kick", "TimeoutAdd", "Warn", "CasesAdd", "Unban"}
    MaxJobs = 4
    MaxRunning = 2
    MaxRefusals = 1
    MaxRemovals = 1
    Pair = 2
    Reports = {e1, e2}
    ReportKinds = {"message_delete", "member_join", "guild_ban_add"}
    LogWorkers = {w1}
    QueueSize = 1
    Admins = {a1, a2}
    Editor = a1
    MaxTroubles = 1
    CacheKeys = {x1, x2, x3, x4}
    CacheSize = 2
    Traps = {h1}
    Posts = {q1, q2, q3}
    Strangers = {y1, y3}
    Keepers = {y2}
    MaxMisses = 1
INVARIANT OneOpenTicket
CHECK_DEADLOCK FALSE
