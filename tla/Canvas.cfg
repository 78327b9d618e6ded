CONSTANTS
    Style = {"ordered", "bullet"}
    Bullet = "bullet"
    NoBlock = NoBlock
    NoGroup = NoGroup
    MaxDepth = 3
    MaxBlocks = 4
    MaxLists = 2
    Agent = {a1, a2}
    Text = {"todo", "done"}
    Needle = {"todo"}
    NoNeedle = NoNeedle
    Having <- MCHaving
    InDm = FALSE
    MaxSection = 3

SPECIFICATION MCSpec
SYMMETRY Agents
INVARIANTS
    ParserTypeOK
    TypeOK
    BlocksStandInPlace
    PartsAreLists
PROPERTIES
    OnlyTheNamedSection
    RepeatsTakeNothingMore
CHECK_DEADLOCK FALSE
