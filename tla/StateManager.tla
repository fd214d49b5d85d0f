---------------------------- MODULE StateManager ----------------------------
(***************************************************************************)
(* The fusion rules of fusion_pc: class StateManager and the FusionState   *)
(* it owns (core/state_manager.py).  One action per event kind handle()    *)
(* accepts, and one for set_order().  The events come from independent     *)
(* sources (POS serial line, Vision, console), so any order is possible:   *)
(* the modules that compose StateManager with a source restrict it.        *)
(*                                                                         *)
(* Products 'A','B','C' are 1..NItems: _next() walks them in that order.   *)
(* committed stands for the three flags _committed, _done and              *)
(* pos_payment_done: every assignment in the class sets all three alike.   *)
(* Fields that are only displayed (zone, phase, boot count, session id,    *)
(* reported total, item suffix of result) are left out.                    *)
(***************************************************************************)
EXTENDS Integers

CONSTANTS
    NItems,      \* number of products (3 in the code)
    Quantities,  \* quantities one Vision pick event may carry
    Orders,      \* orders the operator may enter
    Reports,     \* counts a POS line may report
    MaxCount     \* bound on every ledger entry and on the batch counter

ASSUME ItemsAssumption == NItems \in Nat \ {0}
ASSUME QuantitiesAssumption == Quantities \subseteq Nat \ {0}
ASSUME OrdersAssumption == Orders \subseteq [1..NItems -> Nat]
ASSUME ReportsAssumption == Reports \subseteq [1..NItems -> Nat]
ASSUME MaxCountAssumption == MaxCount \in Nat \ {0}

VARIABLES
    mode,                   \* IDLE, CUSTOMER or RIDER
    removedItems,           \* Vision picks while not in RIDER mode
    paidItems,              \* cumulative customer POS scans
    orderItems,             \* the rider's order
    riderRemoved,           \* Vision picks while in RIDER mode
    riderCheckedItems,      \* rider POS scans
    inventoryRemovedItems,  \* every Vision pick
    paymentBatches,         \* completed customer POS sessions
    result,                 \* last outcome shown to the operator
    posSessionItems,        \* scans of the current POS session
    posReportedItems,       \* last counts the POS itself reported
    committed,              \* the current POS session has been committed
    cooling,                \* items whose last pick is within cooldown_sec
    led, servo              \* last rider command sent of each kind

customerVars == <<removedItems, paidItems, paymentBatches>>
riderVars == <<orderItems, riderRemoved, riderCheckedItems>>
pickVars == <<inventoryRemovedItems, cooling>>
posVars == <<posSessionItems, posReportedItems, committed>>
outputVars == <<led, servo>>
vars == <<mode, result, customerVars, riderVars, pickVars, posVars, outputVars>>

Items == 1..NItems
Zero == [i \in Items |-> 0]
Home == 0
Modes == {"IDLE", "CUSTOMER", "RIDER"}
Results == {"IDLE", "RIDER_ORDER_READY", "POS_BOOTED", "POS_SESSION_RESET",
            "CUSTOMER_ACTIVE", "RIDER_ACTIVE", "RIDER_POS_WRONG_ITEM",
            "RIDER_POS_CHECKING", "CUSTOMER_PAYMENT_RECORDED", "WRONG_PICKUP",
            "RIDER_COLLECTED_WAIT_POS", "RIDER_DONE_NO_ORDER",
            "RIDER_REMOVAL_MISMATCH", "RIDER_POS_MISMATCH", "PICKUP_COMPLETE"}

Negative(n) == n  \* mutant: a ledger may go below zero
NonNegative(n) == IF n < 0 THEN 0 ELSE n
Within(ledger) == \A i \in Items : ledger[i] <= MaxCount

(* _next(): the first product the rider still has to pick, if any. *)
Missing(order, removed) == {i \in Items : removed[i] < order[i]}
FirstMissing(order, removed) ==
    CHOOSE i \in Missing(order, removed) :
        \A j \in Missing(order, removed) : i <= j

Init ==
    /\ mode = "IDLE" /\ result = "IDLE"
    /\ removedItems = Zero /\ paidItems = Zero /\ paymentBatches = 0
    /\ orderItems = Zero /\ riderRemoved = Zero /\ riderCheckedItems = Zero
    /\ inventoryRemovedItems = Zero /\ cooling = {}
    /\ posSessionItems = Zero /\ posReportedItems = Zero /\ committed = FALSE
    /\ led = "OFF" /\ servo = Home

-----------------------------------------------------------------------------
(* The rider display: handle() returns these commands and the loop sends   *)
(* them.                                                                   *)

Show(colour) == led' = colour /\ UNCHANGED servo
ShowAndPoint(colour, position) == led' = colour /\ servo' = position

(* set_order(): a new rider order. *)
SetOrder(order) ==
    /\ mode' = "RIDER"
    /\ result' = "RIDER_ORDER_READY"
    /\ orderItems' = order
    /\ riderRemoved' = Zero
    /\ riderCheckedItems' = Zero
    /\ \/ order # Zero /\ ShowAndPoint("BLUE", FirstMissing(order, Zero))
       \/ order = Zero /\ Show("RED")
    /\ UNCHANGED <<customerVars, pickVars, posVars>>

SelectModeSilently(m) ==  \* mutant: leaves the display as it was
    /\ mode' = m
    /\ result' = IF m = "RIDER" THEN "RIDER_ACTIVE" ELSE "CUSTOMER_ACTIVE"
    /\ UNCHANGED <<customerVars, riderVars, pickVars, posVars, outputVars>>

(* MODE: the POS operator chose a user type. *)
SelectMode(m) ==
    /\ mode' = m
    /\ result' = IF m = "RIDER" THEN "RIDER_ACTIVE" ELSE "CUSTOMER_ACTIVE"
    /\ \/ m = "RIDER" /\ Show("BLUE")
       \/ m # "RIDER" /\ UNCHANGED outputVars
    /\ UNCHANGED <<customerVars, riderVars, pickVars, posVars>>

-----------------------------------------------------------------------------
(* POS session boundaries. *)

(* _reset_pos() *)
ResetPos ==
    /\ posSessionItems' = Zero
    /\ posReportedItems' = Zero
    /\ committed' = FALSE

TakeBack(ledger) == [i \in Items |-> NonNegative(ledger[i] - posSessionItems[i])]

UnguardedRollback ==  \* mutant: takes committed sessions back as well
    /\ paidItems' = IF mode = "CUSTOMER" THEN TakeBack(paidItems) ELSE paidItems
    /\ riderCheckedItems' = IF mode = "RIDER"
                            THEN TakeBack(riderCheckedItems) ELSE riderCheckedItems

NoRollback == UNCHANGED <<paidItems, riderCheckedItems>>  \* mutant

(* _rollback(): the ledger is the one of the mode at the time of the call. *)
Rollback ==
    /\ paidItems' = IF ~committed /\ mode = "CUSTOMER"
                    THEN TakeBack(paidItems) ELSE paidItems
    /\ riderCheckedItems' = IF ~committed /\ mode = "RIDER"
                            THEN TakeBack(riderCheckedItems) ELSE riderCheckedItems

RollbackAndReset ==
    /\ Rollback
    /\ ResetPos
    /\ UNCHANGED <<mode, removedItems, paymentBatches, orderItems, riderRemoved,
                   pickVars, outputVars>>

PosSessionStart == RollbackAndReset /\ UNCHANGED result

PosReset == RollbackAndReset /\ result' = "POS_SESSION_RESET"

PosBoot ==
    /\ ResetPos
    /\ result' = "POS_BOOTED"
    /\ UNCHANGED <<mode, customerVars, riderVars, pickVars, outputVars>>

-----------------------------------------------------------------------------
(* POS scans and completion. *)

Add(ledger, i, q) == [ledger EXCEPT ![i] = @ + q]

(* _pos_pay(): the serial line carries one scan per PAY line. *)
Pay(i) ==
    /\ posSessionItems' = Add(posSessionItems, i, 1)
    /\ paidItems' = IF mode = "CUSTOMER" THEN Add(paidItems, i, 1) ELSE paidItems
    /\ \/ /\ mode = "RIDER"
          /\ riderCheckedItems' = Add(riderCheckedItems, i, 1)
          /\ \/ /\ riderCheckedItems'[i] > orderItems[i]
                /\ result' = "RIDER_POS_WRONG_ITEM" /\ Show("RED")
             \/ /\ riderCheckedItems'[i] <= orderItems[i]
                /\ result' = "RIDER_POS_CHECKING" /\ UNCHANGED outputVars
       \/ mode # "RIDER" /\ UNCHANGED <<riderCheckedItems, result, outputVars>>
    /\ Within(posSessionItems') /\ Within(paidItems') /\ Within(riderCheckedItems')
    /\ UNCHANGED <<mode, removedItems, paymentBatches, orderItems, riderRemoved,
                   pickVars, posReportedItems, committed>>

PosCount(counts) ==
    /\ posReportedItems' = counts
    /\ UNCHANGED <<mode, result, customerVars, riderVars, pickVars,
                   posSessionItems, committed, outputVars>>

UncheckedVerdict(checked) ==  \* mutant: forgets the POS scans
    IF orderItems = Zero THEN "RIDER_DONE_NO_ORDER"
    ELSE IF riderRemoved # orderItems THEN "RIDER_REMOVAL_MISMATCH"
    ELSE "PICKUP_COMPLETE"

(* _verify(): order, Vision picks and POS scans must all agree. *)
Verdict(checked) ==
    IF orderItems = Zero THEN "RIDER_DONE_NO_ORDER"
    ELSE IF riderRemoved # orderItems THEN "RIDER_REMOVAL_MISMATCH"
    ELSE IF checked # orderItems THEN "RIDER_POS_MISMATCH"
    ELSE "PICKUP_COMPLETE"

Verify ==
    /\ result' = Verdict(riderCheckedItems')
    /\ \/ result' = "PICKUP_COMPLETE" /\ ShowAndPoint("GREEN", Home)
       \/ result' # "PICKUP_COMPLETE" /\ Show("RED")

CommitEveryLine(force) ==  \* mutant: the second completion line is a batch too
    /\ committed' = TRUE
    /\ paymentBatches' = paymentBatches + (IF mode' = "CUSTOMER" THEN 1 ELSE 0)
    /\ UNCHANGED <<result, outputVars>>

CommitWithoutForce(force) ==  \* mutant: a corrected ledger is not verified again
    /\ committed' = TRUE
    /\ paymentBatches' = paymentBatches
                         + (IF ~committed /\ mode' = "CUSTOMER" THEN 1 ELSE 0)
    /\ paymentBatches' <= MaxCount
    /\ \/ /\ mode' = "CUSTOMER"
          /\ result' = "CUSTOMER_PAYMENT_RECORDED" /\ UNCHANGED outputVars
       \/ mode' = "RIDER" /\ ~committed /\ Verify
       \/ /\ mode' = "IDLE" \/ (mode' = "RIDER" /\ committed)
          /\ UNCHANGED <<result, outputVars>>

(* _commit(force), in the mode the handler has just set. *)
Commit(force) ==
    /\ committed' = TRUE
    /\ paymentBatches' = paymentBatches
                         + (IF ~committed /\ mode' = "CUSTOMER" THEN 1 ELSE 0)
    /\ paymentBatches' <= MaxCount
    /\ \/ /\ mode' = "CUSTOMER"
          /\ result' = "CUSTOMER_PAYMENT_RECORDED" /\ UNCHANGED outputVars
       \/ mode' = "RIDER" /\ (~committed \/ force) /\ Verify
       \/ /\ mode' = "IDLE" \/ (mode' = "RIDER" /\ committed /\ ~force)
          /\ UNCHANGED <<result, outputVars>>

PayDone ==
    /\ UNCHANGED <<mode, removedItems, paidItems, riderVars, pickVars,
                   posSessionItems, posReportedItems>>
    /\ Commit(FALSE)

(* _reconcile(): the POS summary is authoritative, the ledger follows it. *)
Corrected(ledger, summary) ==
    [i \in Items |-> NonNegative(ledger[i] + summary[i] - posSessionItems[i])]

ReconcileTwice(summary) ==  \* mutant: adds the summary instead of the difference
    /\ paidItems' = IF mode' = "CUSTOMER"
                    THEN [i \in Items |-> paidItems[i] + summary[i]] ELSE paidItems
    /\ riderCheckedItems' = riderCheckedItems
    /\ posSessionItems' = summary

Reconcile(summary) ==
    /\ paidItems' = IF mode' = "CUSTOMER"
                    THEN Corrected(paidItems, summary) ELSE paidItems
    /\ riderCheckedItems' = IF mode' = "RIDER"
                            THEN Corrected(riderCheckedItems, summary)
                            ELSE riderCheckedItems
    /\ posSessionItems' = summary
    /\ Within(paidItems') /\ Within(riderCheckedItems')

(* POS_DONE_SUMMARY: m is the USER field, or the current mode without one. *)
PosDoneSummary(m, summary) ==
    /\ mode' = m
    /\ Reconcile(summary)
    /\ posReportedItems' = summary
    /\ Commit(summary # posSessionItems)
    /\ UNCHANGED <<removedItems, orderItems, riderRemoved, pickVars>>

-----------------------------------------------------------------------------
(* Vision picks and the operator's reset. *)

(* _rider_pick() *)
RiderPick(i) ==
    LET r == riderRemoved' IN
    \/ /\ r[i] > orderItems[i]
       /\ result' = "WRONG_PICKUP" /\ Show("RED")
    \/ /\ r = orderItems
       /\ result' = "RIDER_COLLECTED_WAIT_POS" /\ ShowAndPoint("BLUE", Home)
    \/ /\ r # orderItems /\ r[i] <= orderItems[i]
       /\ UNCHANGED result
       /\ \/ /\ Missing(orderItems, r) # {}
             /\ ShowAndPoint("BLUE", FirstMissing(orderItems, r))
          \/ Missing(orderItems, r) = {} /\ Show("BLUE")

RemoveCandidateUncounted(i, q) ==  \* mutant: rider picks miss the inventory
    /\ i \notin cooling
    /\ cooling' = cooling \union {i}
    /\ mode = "RIDER"
    /\ riderRemoved' = Add(riderRemoved, i, q)
    /\ RiderPick(i)
    /\ UNCHANGED <<mode, customerVars, orderItems, riderCheckedItems,
                   inventoryRemovedItems, posVars>>

(* A pick within cooldown_sec of the last one of the same product is dropped. *)
RemoveCandidate(i, q) ==
    /\ i \notin cooling
    /\ cooling' = cooling \union {i}
    /\ inventoryRemovedItems' = Add(inventoryRemovedItems, i, q)
    /\ inventoryRemovedItems'[i] <= MaxCount
    /\ \/ /\ mode = "RIDER"
          /\ riderRemoved' = Add(riderRemoved, i, q)
          /\ RiderPick(i)
          /\ UNCHANGED removedItems
       \/ /\ mode # "RIDER"
          /\ removedItems' = Add(removedItems, i, q)
          /\ UNCHANGED <<riderRemoved, result, outputVars>>
    /\ UNCHANGED <<mode, paidItems, paymentBatches, orderItems, riderCheckedItems,
                   posVars>>

(* cooldown_sec elapses for a product. *)
CooldownOver(i) ==
    /\ i \in cooling
    /\ cooling' = cooling \ {i}
    /\ UNCHANGED <<mode, result, customerVars, riderVars, inventoryRemovedItems,
                   posVars, outputVars>>

(* SYSTEM_RESET: a fresh FusionState; the RESET command clears the display. *)
SystemReset ==
    /\ mode' = "IDLE" /\ result' = "IDLE"
    /\ removedItems' = Zero /\ paidItems' = Zero /\ paymentBatches' = 0
    /\ orderItems' = Zero /\ riderRemoved' = Zero /\ riderCheckedItems' = Zero
    /\ inventoryRemovedItems' = Zero /\ cooling' = {}
    /\ ResetPos
    /\ led' = "OFF" /\ servo' = Home

(* handle(): an event of any kind, from any source. *)
AnyEvent ==
    \/ \E m \in {"CUSTOMER", "RIDER"} : SelectMode(m)
    \/ PosSessionStart
    \/ PosReset
    \/ PosBoot
    \/ \E i \in Items : Pay(i)
    \/ \E counts \in Reports : PosCount(counts)
    \/ PayDone
    \/ \E m \in {mode, "CUSTOMER", "RIDER"}, summary \in Reports :
           PosDoneSummary(m, summary)
    \/ \E i \in Items, q \in Quantities : RemoveCandidate(i, q)
    \/ SystemReset

Next ==
    \/ \E order \in Orders : SetOrder(order)
    \/ AnyEvent
    \/ \E i \in Items : CooldownOver(i)

Spec == Init /\ [][Next]_vars

-----------------------------------------------------------------------------
(* Properties. *)

Ledger == [Items -> Nat]

(* Every variable has the type FusionState declares for it. *)
TypeOK ==
    /\ mode \in Modes /\ result \in Results
    /\ removedItems \in Ledger /\ paidItems \in Ledger /\ paymentBatches \in Nat
    /\ orderItems \in Ledger /\ riderRemoved \in Ledger
    /\ riderCheckedItems \in Ledger
    /\ inventoryRemovedItems \in Ledger /\ cooling \subseteq Items
    /\ posSessionItems \in Ledger /\ posReportedItems \in Ledger
    /\ committed \in BOOLEAN
    /\ led \in {"OFF", "BLUE", "RED", "GREEN"} /\ servo \in Items \union {Home}

ThreeWayMatch ==
    /\ orderItems # Zero
    /\ riderRemoved = orderItems
    /\ riderCheckedItems = orderItems

(* The green light is on only while order, Vision picks and POS scans are  *)
(* equal and not empty (docs/RIDER_THREE_WAY_FLOW.md), whatever sessions,  *)
(* resets, reboots, mode changes and corrections came before or since.     *)
GreenMeansMatch == led = "GREEN" => ThreeWayMatch

(* The operator reads PICKUP_COMPLETE only while the three dictionaries    *)
(* are equal, and then the POS mode agrees with it, and so does the light  *)
(* that handle() last commanded (the red light of a critical exit, which   *)
(* the loop sends by itself, is in RiderLoop).                             *)
CompleteMeansMatch ==
    result = "PICKUP_COMPLETE" => ThreeWayMatch /\ led = "GREEN" /\ mode = "RIDER"

(* Every pick a ledger counts is also counted in the inventory: set_order  *)
(* and mode changes may forget picks of a ledger, never invent them.       *)
InventoryCoversPicks ==
    \A i \in Items : removedItems[i] + riderRemoved[i] <= inventoryRemovedItems[i]

(* While the green light is on, the scans of an open rider session are     *)
(* none: otherwise the next SESSION_RESET would take checked items back    *)
(* and leave the light on over a mismatch.                                 *)
GreenSessionSettled ==
    led = "GREEN" /\ mode = "RIDER" => committed \/ posSessionItems = Zero
=============================================================================
