SPECIFICATION Spec
CHECK_DEADLOCK FALSE
CONSTANTS
    Documents <- MCDocuments
    BaseName <- MCBaseName
    Relative = {"rel"}
    IndexValue <- MCIndexValue
    MaxIndex = 2
    TokenPrefix = {}
INVARIANTS
    IdsDense
    BreakpointsAlive
    InstanceIdsInverse
    LinesInOrder
    LocationFindsBreakpoint
    ContextInScope
    ResolvesToNewest
    AssignmentsFound
    NoUndefinedVariable
