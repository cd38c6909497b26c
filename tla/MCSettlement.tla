---------------------------- MODULE MCSettlement ----------------------------
(* Two charges on a link and an account, one claim, two workers.          *)
EXTENDS Settlement
CONSTANTS w1, w2, c1, c2, l, a, k
TwoWorkers == {w1, w2}
TwoCharges == {c1, c2}
Of(t, by, amount, success) == [target |-> t, by |-> by, amount |-> amount, success |-> success]
Both(x, y) == [c \in TwoCharges |-> IF c = c1 THEN x ELSE y]
Cases ==
    {Both(Of(l, "reference", 2, TRUE), Of(l, "reference", 2, TRUE)),
     Both(Of(l, "reference", 2, TRUE), Of(l, "reference", 2, FALSE)),
     Both(Of(l, "reference", 2, TRUE), Of(a, "number", 2, TRUE)),
     Both(Of(a, "number", 2, TRUE), Of(a, "reference", 0, TRUE))}

=============================================================================
