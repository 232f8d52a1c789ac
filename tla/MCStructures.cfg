SPECIFICATION StructuresSpec
CONSTANTS
    Names = {a, b, c}
    Capacities = {2, 3}
    C = C
    D = D
    Proposals <- Graphs
    Unknown = Unknown
    None = None
    Documents <- Segments
    Maxima = {2, 3, 4, Unknown, None}
    Margins = {0, 1}
    Decoders = {"top-down", "bottom-up"}
    MaxEdus = 3
    MaxSections = 3
INVARIANTS GroundedIsLeast ExtensionsAsDefined VerdictExact PlanIsLossless TreesCoverEdus JoinedTreeIsWhole
CHECK_DEADLOCK FALSE
