CONSTANTS
    wilma = wilma
    claude = claude
    chan = chan
    note = note
    video = video
    dmWilma = dmWilma
    Relay = Relay
    NoRecord = NoRecord
    NoOwner = NoOwner
    NoFile = NoFile
    Channel = {chan}
    Dm = {dmWilma}
    Agent = {wilma, claude}
    Member <- MCMember
    Granted = {Relay, wilma}
    File = {note, video}
    Viewable = {note}
    DeclaredLarge = {}
    Large = {video}
SPECIFICATION Spec
INVARIANTS
    TypeOK
    
    ContentIsTheFile
PROPERTY RefusedForAReason
CHECK_DEADLOCK FALSE
