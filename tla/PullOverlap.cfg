CONSTANTS
    wilma = wilma
    NoAgent = NoAgent
    NoRow = NoRow
    Agent = {wilma}
    Puller = {p1, p2}
    MaxTs = 5
    AuthorOf <- MCAuthorOf
    Ignored = {2}
    PageLimit = 2
    OldestPage = TRUE
    MaxFaults = 2

SPECIFICATION FairSpec
INVARIANTS
    NoGap
PROPERTIES
    ImplementsInbox
    EventuallyPulled
CHECK_DEADLOCK FALSE
