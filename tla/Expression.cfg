SPECIFICATION Spec
CHECK_DEADLOCK FALSE
CONSTANTS
    Texts <- MCTexts
    Evaluated <- MCEvaluated
    Names = {"a", "b", "c", "s", "t"}
    Literals <- MCLiterals
    Statics <- MCStatics
    Predefined = {"t"}
    Valid <- MCValid
    MaxInt = 3
    Values <- MCValues
    Parse <- Grammar
    ValueOf <- Eval
    Meaning <- ReferenceTree
INVARIANTS
    ParsesAsReference
    GuardedDivision
PROPERTIES
    EvaluatesCurrent
