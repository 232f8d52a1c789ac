SPECIFICATION Spec
CONSTANTS
    long = long
    short = short
    empty = empty
    Calls = {c1, c2}
    Sources = {long, short, empty}
    Models = {m1, m2, m3}
    NotUsed = NotUsed
    Immutable = {m1, m2}
    UnitsOf <- UnitsOfSources
    MaxMeddling = 2
SYMMETRY AnyOrder
INVARIANTS EntriesSound AnswersSound EvidenceExact
CHECK_DEADLOCK FALSE
