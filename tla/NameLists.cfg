SPECIFICATION Spec
CONSTANTS
    Managers = {m1, m2}
    Web = {w1, w2}
    Users <- MCUsers
    Targets = {"amy", "bob"}
    Sessions = {"bob"}
    Subjects = {"club", "deny"}
    Spelling <- MCSpelling
    Club <- MCClub
    Other <- MCOther
    Starts <- MCStarts
    Paths <- MCPaths
    Procs <- MCProcs
    LoadMax = 2
    DenyLimit = 1
    Days = {1}
    MaxJobs <- MCMaxJobs
    MaxTime <- MCMaxTime
CHECK_DEADLOCK FALSE
INVARIANTS
    ListsAgree
    VisitHonoursList
PROPERTIES
    BystandersKept
    DenialEndsByRight
    ExpiredLifted
