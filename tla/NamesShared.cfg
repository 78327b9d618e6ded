CONSTANTS
    Person = {wilma, guest}
    Bot = {wilma}
    Titled = {wilma}
    Blank = {guest}
    Ingest = {i1, i2}
    Reader = {r1, r2}
    NoRow = NoRow
    NoPerson = NoPerson

SPECIFICATION Spec
SYMMETRY Others
INVARIANTS
    NamelessForCause
    FlagsAreTrue
