---------------------------- MODULE MCFusionLoop ----------------------------
(* Instances of FusionLoop for TLC: one product and no rider orders.  *)
EXTENDS FusionLoop

NoOrders == {}
NoReports == {}
NoLines == {}
CompletionLine == {"PAY_DONE"}  \* the summary says the same
ProgressLines == {"PAY", "COUNT"}
AlwaysOne == [c \in Customers |-> {<<1>>}]
OneOrTwo == [c \in Customers |-> IF c = "c1" THEN {<<1>>} ELSE {<<2>>}]
=============================================================================
