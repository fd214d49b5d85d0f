---------------------------- MODULE MCPosSession ----------------------------
(* Instances of PosSession for TLC. *)
EXTENDS PosSession

NoOrders == {}
OneOrder == {<<1, 1>>}
NoReports == {}
ProgressLines == {"PAY", "COUNT", "PAY_DONE"}
FaultLines == {"PAY", "COUNT", "PAY_DONE", "SUMMARY", "SESSION_RESET"}
=============================================================================
