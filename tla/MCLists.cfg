SPECIFICATION LinkSpec
CONSTANTS
    n1 = n1
    n2 = n2
    n3 = n3
    v1 = v1
    v2 = v2
    v3 = v3
    NULL = NULL
    RobustnessFactor = 2
    Node = {n1, n2, n3}
    Items = {v1, v2, v3}
SYMMETRY Interchangeable
INVARIANTS TypeOK HandlerSafe ListSound CursorValid FreedOnce AllFreed
PROPERTIES AtomicToHandlers
