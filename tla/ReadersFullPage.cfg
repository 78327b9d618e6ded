CONSTANTS
    chan = chan
    dm = dm
    someone = someone
    s1 = s1
    s2 = s2
    NoChannel = NoChannel
    Channel = {chan, dm}
    User = {someone}
    Session = {s1}
    Posted = {1, 2, 3}
    Plans <- OneClient
    Message <- MCMessage
    Own <- OwnFirst
    Mention <- MCMention
    DmOf <- MCDmOf
    Calls <- AllCalls
    Limit = 1
    MaxLosses = 1

SPECIFICATION MCSpec
INVARIANT NothingSkipped
CHECK_DEADLOCK FALSE
