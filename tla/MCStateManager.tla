--------------------------- MODULE MCStateManager ---------------------------
(* Instance of StateManager for TLC: two products, an order of both, an     *)
(* order of one of them, and POS reports that match an order or are empty.  *)
EXTENDS StateManager

MCOrders == {<<0, 0>>, <<1, 1>>, <<1, 0>>}
MCReports == {<<0, 0>>, <<1, 1>>}
=============================================================================
