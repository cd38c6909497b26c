SPECIFICATION GoodsSpec
CONSTANTS
    p = p
    o = o
    wh = wh
    r1 = r1
    r2 = r2
    rice = rice
    oil = oil
    i1 = i1
    i2 = i2
    Products <- MCProducts
    Warehouses <- MCWarehouses
    Requests <- MCRequests
    Method <- MCMethod
    Costs = {1, 2}
    CostPrice = 1
    MaxQty = 1
    MaxLines = 2
    OpeningTargets = {1}
    MaxMoves = 3
    Users <- MCRequests
    Lines <- MCLines
    Ordered <- MCOrdered
    OnShelf <- MCOnShelf
    MaxOps = 5
    Totals = {1, 2}
    Amounts = {1, 2}
    MaxRequests = 3
    Invoices <- MCInvoices
    CreditLimit = 3
    Store = 1
    Opening <- MCOpening
    MaxSales = 4
SYMMETRY Symmetry
INVARIANT LedgerOwesTheBills
CHECK_DEADLOCK FALSE
