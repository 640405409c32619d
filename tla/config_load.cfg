\* Every combination of flag, variables and files.
SPECIFICATION Spec
CONSTANTS
    Envs <- MCEnvs
    Levels <- MCLevels
    Normal <- MCNormal
    Ttls <- MCTtls
    Parsable <- MCParsable
    Dsns <- MCDsns
    Files <- MCFiles
    Environs <- MCEnvirons
    Blank = Blank
    Absent = Absent
\* Load is called once.
CHECK_DEADLOCK FALSE
INVARIANTS
    TypeOK
    SourcesInOrder
    JudgedAsAWhole
