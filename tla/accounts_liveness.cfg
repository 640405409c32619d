\* Three concurrent requests that open transactions, under fairness.
SPECIFICATION FairSpec
CONSTANTS
    Requests = {r1, r2, r3}
    Calls = {"CreateUser", "CreateWallet"}
    e1 = e1
    e2 = e2
    Frozen = Frozen
    NoEmail = NoEmail
    Emails <- MCEmails
    Legacy <- MCLegacy
    Ids <- MCIds
PROPERTIES
    Answered
