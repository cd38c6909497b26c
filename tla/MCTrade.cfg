SPECIFICATION PackedSpec
CONSTANTS
    r1 = r1
    r2 = r2
    i1 = i1
    i2 = i2
    ada = ada
    Requests <- TwoRequests
    Quantities = {1, 2}
    MaxOps = 4
    Exports <- CardExports
    Numbered <- RowNumbers
    Payments <- CardPayments
    Amount <- CardAmount
    Day <- CardDay
    Tolerance = 3
    MaxReviews = 4
    Cashiers <- OneCashier
    Float = 1
    MaxSessions = 2
    MaxHandovers = 6
    Orders <- TwoInvoices
    Tables = {"t"}
    MaxServed = 3
    Quotes = {"q"}
    Horizon = 1
    MaxQuoted = 3
    WebOrders <- TwoInvoices
    Phones = {"f"}
    Fee = 1
    MaxOrdered = 4
    Prices = {1, 2}
SYMMETRY Symmetry
INVARIANTS TradeTypeOK GoodsAgree MoneyAgrees  
CHECK_DEADLOCK FALSE
