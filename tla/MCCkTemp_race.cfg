\* Two callers draw the same free name before either opens it.
CONSTANTS
    c1 = c1
    c2 = c2
    n1 = n1
    n2 = n2
    NoName = NoName
    Callers <- MCCallers
    Names <- MCNames
    MaxTries = 3

SPECIFICATION Spec
INVARIANT TempFileExclusive
SYMMETRY Symmetry
CHECK_DEADLOCK FALSE
