\* temp's bounded collision loop probes at most MaxTries names.  The callers' code
\* ends after Open, so a final state is not a deadlock.
CONSTANTS
    c1 = c1
    c2 = c2
    n1 = n1
    n2 = n2
    NoName = NoName
    Callers <- MCCallers
    Names <- MCNames
    MaxTries = 3

SPECIFICATION Spec
INVARIANT TypeOK
CHECK_DEADLOCK FALSE
