---------------------------- MODULE ExitVerdict -----------------------------
(***************************************************************************)
(* The decision at a customer's exit: OpsDashboard.finalize_customer_exit  *)
(* compares what Vision saw picked with what the checkout was paid.        *)
(* Quantities are functions from products to Nat, so a sum is zero exactly *)
(* when every entry is.                                                    *)
(***************************************************************************)
EXTENDS Integers

Some(counts) == \E i \in DOMAIN counts : counts[i] > 0

(* max(0, a[p] - b[p]) for every product: unpaid and overpaid. *)
Excess(a, b) == [i \in DOMAIN a |-> IF a[i] > b[i] THEN a[i] - b[i] ELSE 0]

ExitCode(picked, paid, wasAtKiosk) ==
    IF ~Some(picked) THEN "NO_ITEMS"
    ELSE IF Some(Excess(picked, paid))
         THEN IF Some(paid) THEN "PARTIAL_PAYMENT"
              ELSE IF wasAtKiosk THEN "NO_PAYMENT" ELSE "BYPASS_POS_NO_PAYMENT"
    ELSE IF Some(Excess(paid, picked)) THEN "OVERPAYMENT"
    ELSE "CLEARED"

Critical(code) == code \in {"PARTIAL_PAYMENT", "NO_PAYMENT", "BYPASS_POS_NO_PAYMENT"}

-----------------------------------------------------------------------------
(* The table of docs/SCENARIO_MATRIX.md, section 1: the situations, each    *)
(* with its code.                                                          *)

Nothing(counts) == \A i \in DOMAIN counts : counts[i] = 0

Situation(code, picked, paid, wasAtKiosk) ==
    \/ code = "NO_ITEMS" /\ Nothing(picked)
    \/ code = "CLEARED" /\ ~Nothing(picked) /\ picked = paid
    \/ /\ code = "BYPASS_POS_NO_PAYMENT"
       /\ ~Nothing(picked) /\ Nothing(paid) /\ ~wasAtKiosk
    \/ code = "NO_PAYMENT" /\ ~Nothing(picked) /\ Nothing(paid) /\ wasAtKiosk
    \/ /\ code = "PARTIAL_PAYMENT" /\ ~Nothing(paid)
       /\ \E i \in DOMAIN picked : paid[i] < picked[i]
    \/ /\ code = "OVERPAYMENT" /\ ~Nothing(picked) /\ picked # paid
       /\ \A i \in DOMAIN picked : picked[i] <= paid[i]
=============================================================================
