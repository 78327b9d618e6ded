CONSTANTS
    human = human
    upload = upload
    edit = edit
    chan = chan
    dm = dm
    pdf = pdf
    wilma = wilma
    relay = relay
    NoAgent = NoAgent
    NoRow = NoRow
    NoDelivery = NoDelivery
    Message = {human, upload, edit}
    Channel = {chan, dm}
    File = {pdf}
    Agent = {wilma}
    App = {relay}
    Container = {c1, c2}
    Tagged = {}
    Ignored = {edit}
    ChannelOf <- MCChannelOf
    FilesOf <- MCFilesOf
    AuthorOf <- MCAuthorOf
    Mentioning <- MCMentioning
    MaxRetries = 1
    MaxFaults = 1

SPECIFICATION FairSpec
INVARIANTS
    TypeOK
    OneRecorder
    PublishedOnceAndLast
    AckedIsStored
    StoredIsRecordedUnlessFaulty
PROPERTIES
    ImplementsInbox
    EventuallyStored
CHECK_DEADLOCK FALSE
