SPECIFICATION FairSpec
CONSTANTS
    MaxConns = 2
    Counts = {0, 1, 2, 3}
    DefaultTrans = 1
    DefaultConns = 1
    MaxBatches = 1
    UsersPerConn = 2
    Stride = 2
INVARIANTS JobAnswered HandlesExact PtrannumUnique
PROPERTIES LoadEnds
