CONSTANTS
    Targets = {1, 2, 3}
    MaxInput = 8
    Curves <- MCCurves
    MaxDoublings = 3
    MaxSearch = 3
    MaxMoves = 1
SPECIFICATION SolverSpec
INVARIANTS
    ResultWasEnough
    LeastWhenSteady
    SearchConverges
CHECK_DEADLOCK FALSE
