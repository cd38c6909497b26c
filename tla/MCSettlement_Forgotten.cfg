SPECIFICATION Spec
CONSTANTS
    w1 = w1
    w2 = w2
    c1 = c1
    c2 = c2
    l = l
    a = a
    k = k
    Workers <- TwoWorkers
    Charges <- TwoCharges
    Links = {l}
    Accounts = {a}
    Scenarios <- Cases
    Claims = {k}
    Amounts = {1}
    Total = 3
    MaxKills = 0
CHECK_DEADLOCK FALSE
INVARIANT NoChargeForgotten
