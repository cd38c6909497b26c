---------------------------- MODULE MCOfflineSync ----------------------------
(* A create, a second mutation that mentions its temporary id, and an      *)
(* unrelated one; each plan of faults answers one question.                *)
EXTENDS OfflineSync
CONSTANTS create, edit, other, a, b
ThreeOps == {create, edit, other}
MCRefs == [o \in Ops |-> IF o = edit THEN create ELSE NoOp]

Anything == [kinds |-> FaultKinds, most |-> 4, ops |-> {create, edit}]
Outage == [kinds |-> {"off"}, most |-> 1, ops |-> ThreeOps]
Remounted == [kinds |-> {"off", "remount"}, most |-> 2, ops |-> {create, edit}]
Switched == [kinds |-> {"off", "switch"}, most |-> 2, ops |-> {create, edit}]

Replays == {Anything, Outage}
Remounts == {Remounted}
Switches == {Switched}
=============================================================================
