---------------------------- MODULE MCRetailFeed ----------------------------
(* Instance of RetailFeed for TLC: two customers and two products; a later  *)
(* count may be lower or higher than an earlier one.                        *)
EXTENDS RetailFeed

MCPicks == {<<0, 1>>, <<2, 0>>}
=============================================================================
