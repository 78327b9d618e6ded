CONSTANTS
    wilma = wilma
    NoAgent = NoAgent
    Agent = {wilma}
    Sender = {call1, call2}
    AgentOf <- MCAgentOf
    IsDm = TRUE
    PersonFirst = FALSE
    Budget = 1
    Window = 5
    MaxLag = 1
    MaxMessages = 4
    StaleMap = TRUE
    MaxFaults = 1

SPECIFICATION Spec
SYMMETRY Same
INVARIANTS
    TypeOK
    TurnBudgetWithSlack
    NoteOnFirstMessage
    NotesBounded
CHECK_DEADLOCK FALSE
