----------------------------- MODULE MCRiderLoop -----------------------------
(* An instance of RiderLoop for TLC: two products, picks of one or two     *)
(* pieces, and COUNT and SUMMARY lines that report both products.          *)
EXTENDS RiderLoop

BothOrFirst == {<<1, 1>>, <<1, 0>>}
OneEach == {<<1, 1>>}
=============================================================================
