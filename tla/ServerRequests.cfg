CONSTANTS
    wilma = wilma
    fred = fred
    drake = drake
    devops = devops
    devnews = devnews
    ops = ops
    dev = dev
    grp = grp
    Agent = {wilma, fred}
    DefaultAgent = wilma
    Legacy = Legacy
    Token = {t1, t2, t3, t4}
    NoOne = NoOne
    NoMap = NoMap
    Nobody = Nobody
    Container = {c1}
    Call = {k1, k2}
    Person = {drake}
    Channel = {devops, devnews, ops, dev}
    Group = {grp}
    MemberOf <- MCMemberOf
    ChannelPages <- MCChannelPages
    UserPages <- MCUserPages
    Query = {"ops", "dev"}
    Matching <- MCMatching
    Exact <- MCExact
    Order <- MCOrder
    MaxMatches = 2

SPECIFICATION Spec
SYMMETRY Same
INVARIANTS
    ServedAsOwner
    AdmissionLags
    OwnConversationsOnly
    FoundGroupsAreKnown
    ExactNameSurfaces
