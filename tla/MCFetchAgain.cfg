CONSTANTS
    History = {1, 2, 3}
    Parents <- MCParents
    Names = {1, 2}
    MaxMoves = 5
SPECIFICATION CloneSpec
INVARIANTS
    FetchKeepsHistory
