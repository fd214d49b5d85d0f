---------------------------- MODULE CashRegister ----------------------------
(***************************************************************************)
(* What the customer ledger of fusion_pc promises: a register that books   *)
(* one whole session at a time, as one payment batch.  The latest booking  *)
(* may be amended until it is closed; what is closed never changes.        *)
(***************************************************************************)
EXTENDS Naturals

CONSTANT Products
VARIABLES
    closed,   \* the sum of the closed bookings
    open,     \* a booking is open
    latest,   \* the open booking
    batches

Counts == [Products -> Nat]
Nothing == [p \in Products |-> 0]

Init == closed = Nothing /\ ~open /\ latest = Nothing /\ batches = 0

Book ==
    /\ ~open /\ open'
    /\ latest' \in Counts
    /\ batches' = batches + 1
    /\ UNCHANGED closed

Amend ==
    /\ open /\ open'
    /\ latest' \in Counts
    /\ UNCHANGED <<closed, batches>>

Close ==
    /\ open /\ ~open'
    /\ closed' = [p \in Products |-> closed[p] + latest[p]]
    /\ latest' = Nothing
    /\ UNCHANGED batches

Next == Book \/ Amend \/ Close

Spec == Init /\ [][Next]_<<closed, open, latest, batches>>
=============================================================================
