CONSTANTS
    wilma = wilma
    NoAgent = NoAgent
    Agent = {wilma}
    Sender = {call1}
    AgentOf <- MCAgentOf
    IsDm = FALSE
    PersonFirst = TRUE
    Budget = 2
    Window = 2
    MaxLag = 0
    MaxMessages = 5
    StaleMap = FALSE
    MaxFaults = 0

SPECIFICATION Spec
INVARIANT TurnBudget
CHECK_DEADLOCK FALSE
