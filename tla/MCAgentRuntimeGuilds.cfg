SPECIFICATION Spec
CONSTANTS
    g1 = g1
    g2 = g2
    s1 = s1
    s2 = s2
    s3 = s3
    Sessions <- MCSessions
    Guilds <- MCGuilds
    GuildOf <- MCGuildOf
    Policies = {1, 2}
    Unresolved = Unresolved
    NoGuild = NoGuild
    MaxAttempts = 1
    MaxDeadletters = 1
    MaxQueueSize = 2
    MaxHistory = 2
SYMMETRY MCSymmetry
PROPERTIES
    NeverRunsTwice
    AdmissionBound
    WorkConserving
    FifoPerGuild
