\* Three concurrent requests of any kind, one legacy user.
SPECIFICATION Spec
CONSTANTS
    Requests = {r1, r2, r3}
    Calls = {"CreateUser", "CreateWallet", "GetUser", "GetWallet"}
    e1 = e1
    e2 = e2
    Frozen = Frozen
    NoEmail = NoEmail
    Emails <- MCEmails
    Legacy <- MCLegacy
    Ids <- MCIds
SYMMETRY RequestSymmetry
INVARIANTS
    TypeOK
    OneUserPerEmail
    UserHasWallet
    AckedIsDurable
    ConflictIsReal
    WalletsOpenedForLegacyOnly
    ReadsCompleteAccounts
    HoldersWaitForDoomed
    NobodyIsStuck
PROPERTIES
    RetryIsStopped
    ImplementsRegistry
