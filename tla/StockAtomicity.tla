---------------------------- MODULE StockAtomicity ----------------------------
(* The stock ledger implements AtomicStock: the committed rows are its      *)
(* stock, and a request happens when it commits.                            *)
EXTENDS StockLedger

\* The requests that AtomicStock allows, whole: one movement; a transfer, of which both
\* legs happen or neither; the lines of a sale; the removal of a record with the
\* movement that empties it.
Part(i, q, kind) == [item |-> i, qty |-> q, kind |-> kind]
Single(quantities) ==
    {<<Part(i, q, kind)>> : i \in Items, q \in quantities, kind \in {"in", "out", "opening"}}
Transfers ==
    {<<Part(<<p, a>>, -q, "out"), Part(<<p, b>>, q, "in")>> :
        p \in Products, a \in Warehouses, b \in Warehouses, q \in 1..MaxQty}
Sales ==
    UNION {{[k \in 1..n |-> Part(<<ps[k], w>>, -q, "sale")] :
                ps \in [1..n -> Products], w \in Warehouses, q \in 1..MaxQty} : n \in 1..MaxLines}
Emptying(amounts) == {<<Part(i, -q, "out")>> : i \in Items, q \in amounts} \cup {<<>>}

\* A single movement and the stock of a removed record can be of any size: a model gives the
\* sizes that occur in it.
OrdersOf(quantities, amounts) ==
    {[moves |-> m, removes |-> {}] : m \in Single(quantities) \cup Transfers \cup Sales}
        \cup {o \in [moves : Emptying(amounts), removes : {{i} : i \in Items}] :
                  \A k \in DOMAIN o.moves : o.moves[k].item \in o.removes}

HistoryOf(movements) == [k \in DOMAIN movements |-> <<movements[k].kind, movements[k].qty>>]
OnHand == [i \in Items |-> row[i].onHand]
History == [i \in Items |-> HistoryOf(ledger[i])]
Removed == {i \in Items : row[i].status = "removed"}

Atomic == INSTANCE AtomicStock WITH
    Orders <- OrdersOf(-MaxQty..MaxQty, 1..MaxMoves),
    onHand <- OnHand, history <- History, removed <- Removed

\* A request of any kind takes effect as a whole and alone: a transfer never moves stock out
\* of one warehouse without moving it into the other, a sale is never sold in part, and
\* no movement is judged by a balance another request has yet to commit.
RequestsAreAtomic == Atomic!Spec
=============================================================================
