SPECIFICATION Spec
CONSTANTS
    w1 = w1  w2 = w2  b1 = b1  b2 = b2  r1 = r1
    Single <- Singles
    Batch <- Batches
    Reader <- Readers
    Participant = TRUE
    MaxStores = 2
INVARIANTS ReadsKeep
CHECK_DEADLOCK FALSE
