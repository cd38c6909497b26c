----------------------------- MODULE AtomicStock -----------------------------
(***************************************************************************)
(* What the stock ledger promises to those who use it: a request is one    *)
(* step.  It makes all of its movements, in its order and on the stock as  *)
(* it is, or none of them; nothing of another request comes between.       *)
(* StockLedger implements this with row locks and rollbacks.               *)
(***************************************************************************)
EXTENDS Integers, Sequences

CONSTANTS
    Items,
    Orders   \* [moves |-> sequence of [item, qty, kind], removes |-> items]

VARIABLES
    onHand,  \* units in stock of each item
    history, \* what was moved of it, in order: quantities and kinds
    removed  \* items whose record is removed

vars == <<onHand, history, removed>>

Init ==
    /\ onHand = [i \in Items |-> 0]
    /\ history = [i \in Items |-> <<>>]
    /\ removed = {}

\* What one movement makes of the units and the history of item i.
Step(i, before, m) ==
    IF m.item = i THEN [units |-> before.units + m.qty, moved |-> Append(before.moved, <<m.kind, m.qty>>)]
    ELSE before

\* Item i after each of the movements.
After(moves, i) ==
    LET after[n \in 0..Len(moves)] ==
            IF n = 0 THEN [units |-> onHand[i], moved |-> history[i]] ELSE Step(i, after[n - 1], moves[n])
    IN after

Perform(order) ==
    LET moves == order.moves
        last == Len(moves)
    IN /\ \A k \in 1..last : moves[k].item \notin removed /\ After(moves, moves[k].item)[k].units >= 0
       /\ onHand' = [i \in Items |-> After(moves, i)[last].units]
       /\ history' = [i \in Items |-> After(moves, i)[last].moved]
       /\ removed' = removed \cup order.removes

Next == \E order \in Orders : Perform(order)
Spec == Init /\ [][Next]_vars
=============================================================================
