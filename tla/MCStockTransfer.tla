--------------------------- MODULE MCStockTransfer ---------------------------
(* One FIFO product in two warehouses, two concurrent requests.            *)
EXTENDS StockAtomicity
CONSTANTS p, w1, w2, r1, r2
MCProducts == {p}
MCWarehouses == {w1, w2}
MCRequests == {r1, r2}
MCMethod == [x \in MCProducts |-> "fifo"]
=============================================================================
