SPECIFICATION Spec
CONSTANTS
    c1 = c1
    c2 = c2
    Copies <- MCCopies
    MaxRequests = 1
    MaxSends = 2
    MaxPieces = 2
    MaxSubmitted = 1
INVARIANT AbandonedNeverLands
CHECK_DEADLOCK FALSE
