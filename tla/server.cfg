\* Two requests at a time, two starts, one token issued.
SPECIFICATION FairSpec
CONSTANTS
    Precision = 2
    jo = jo
    iss = iss
    other = other
    k1 = k1
    k2 = k2
    Subjects = {jo}
    Issuers = {iss, other}
    Keys = {k1, k2}
    Blank = Blank
    Absent = Absent
    r1 = r1
    r2 = r2
    Requests = {r1, r2}
    Operations = {"CreateUser", "GetUser"}
    Public = {"CreateUser"}
    Managers <- MCManagers
    Principals <- MCPrincipals
    Foreign <- MCForeign
    Skews <- MCSkews
    Calls <- MCCalls
    NoManager = NoManager
    NoBearer = NoBearer
    NoPrincipal = NoPrincipal
    LastTick = 2
    MaxIssued = 1
    MaxStarts = 2
\* Once the process is down and may not be started again, all is over.
CHECK_DEADLOCK FALSE
INVARIANTS
    TypeOK
    OnlyAdmittedGetFurther
    AdmittedWithinLife
    RefusedForCause
    RepliesAreNamed
    PoolOutlivesRequests
    NobodyIsCutOff
PROPERTIES
    StopEnds
