SPECIFICATION Spec
CONSTANTS
    Clients = {c1, c2, c3}
    Ids = {i1}
    Edits = {e1, e2}
    MaxVersion = 3
    NoId = NoId
    MayFail = TRUE
    Guessing = FALSE
INVARIANTS NoLostEdit ETagIdentifies SingleWinner RepliesJustified
SYMMETRY Interchangeable
