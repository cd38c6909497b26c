SPECIFICATION FairSpec
CONSTANTS
    p = p
    w1 = w1
    w2 = w2
    r1 = r1
    r2 = r2
    Products <- MCProducts
    Warehouses <- MCWarehouses
    Requests <- MCRequests
    Method <- MCMethod
    Costs = {1, 2}
    CostPrice = 1
    MaxQty = 1
    MaxLines = 2
    OpeningTargets = {1}
    MaxMoves = 3
INVARIANTS TypeOK LedgerExplainsStock LayersCoverStock
PROPERTIES RequestsEnd RequestsAreAtomic
