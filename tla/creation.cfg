SPECIFICATION Spec
CONSTANTS
    c1 = c1
    c2 = c2
    c3 = c3
    g1 = g1
    g2 = g2
    t1 = t1
    t2 = t2
    u1 = u1
    u2 = u2
    None = None
    Creators = {c1, c2, c3}
    Guilds = {g1, g2}
    Templates = {t1, t2}
    GuildOf <- MCGuildOf
    Members = {u1, u2}
    Inputs <- MCInputs
    TemplateRows <- MCTemplateRows
    Windows = {0, 1}
    Times = {0, 2}
    MaxEdits = 1
    MaxFaults = 1
INVARIANTS LockIsTransaction NumbersGapless EscalationSerial OutcomeIsTold
PROPERTY RegisterSpec
CHECK_DEADLOCK FALSE
