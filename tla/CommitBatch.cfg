SPECIFICATION FairSpec
CONSTANTS
    c1 = c1
    c2 = c2
    Copies <- MCCopies
    MaxRequests = 2
    MaxSends = 2
    MaxPieces = 2
    MaxSubmitted = 1
INVARIANT RequestInv
PROPERTIES LandedIsSettled
CHECK_DEADLOCK FALSE
