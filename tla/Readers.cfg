CONSTANTS
    chan = chan
    dm = dm
    someone = someone
    s1 = s1
    s2 = s2
    NoChannel = NoChannel
    Channel = {chan, dm}
    User = {someone}
    Session = {s1, s2}
    Posted = {1, 2, 3}
    Plans <- SidePlans
    Message <- MCMessage
    Own <- OwnFirst
    Mention <- MCMention
    DmOf <- MCDmOf
    Calls <- AllCalls
    Limit = 1
    MaxLosses = 1

SPECIFICATION MCFairSpec
INVARIANTS
    TypeOK
    SkippedForCause
PROPERTIES
    CursorMovesForItsView
    TimeoutMeansQuiet
    EveryCallEnds
    EventuallyReturned
