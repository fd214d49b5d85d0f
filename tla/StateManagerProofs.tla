------------------------- MODULE StateManagerProofs -------------------------
(***************************************************************************)
(* Proofs about StateManager: its type invariant, and that the green light *)
(* and PICKUP_COMPLETE mean a three-way match after any events whatever.   *)
(***************************************************************************)
EXTENDS StateManager, TLAPS, WellFoundedInduction

(* The servo is pointed at a product the rider misses, the first of them. *)
LEMMA FirstMissingIsMissing ==
    ASSUME NEW order, NEW removed, Missing(order, removed) # {}
    PROVE  /\ FirstMissing(order, removed) \in Missing(order, removed)
           /\ \A j \in Missing(order, removed) : FirstMissing(order, removed) <= j
<1> DEFINE M == Missing(order, removed)
<1>1. M \subseteq Nat
  BY ItemsAssumption DEF Missing, Items
<1>2. PICK i \in M : \A j \in M : ~(<<j, i>> \in OpToRel(<, Nat))
  BY <1>1, NatLessThanWellFounded, WFMin
<1>3. \A j \in M : ~(j < i)
  BY <1>1, <1>2, Zenon DEF OpToRel
<1>4. \A j \in M : i <= j
  BY <1>1, <1>3
<1> QED
  BY <1>2, <1>4 DEF FirstMissing

(* A non-empty order starts with a product the rider misses. *)
LEMMA NonEmptyOrderMisses ==
    ASSUME NEW order \in Ledger, order # Zero
    PROVE  FirstMissing(order, Zero) \in Items
<1>1. PICK i \in Items : order[i] # 0
  BY DEF Ledger, Zero
<1>2. i \in Missing(order, Zero)
  BY <1>1 DEF Missing, Zero, Ledger
<1> QED
  BY <1>2, FirstMissingIsMissing DEF Missing

LEMMA LedgerFacts ==
    /\ Zero \in Ledger
    /\ \A l \in Ledger, i \in Items, q \in Nat : Add(l, i, q) \in Ledger
    /\ posSessionItems \in Ledger => \A l \in Ledger : TakeBack(l) \in Ledger
    /\ posSessionItems \in Ledger =>
           \A l, s \in Ledger : Corrected(l, s) \in Ledger
  BY DEF Zero, Ledger, Add, TakeBack, Corrected, NonNegative

-----------------------------------------------------------------------------
(* Type correctness, one step per action; first without the rider display, *)
(* which RiderLoop gives other values.                                     *)

Ledgers ==
    /\ mode \in Modes /\ result \in Results
    /\ removedItems \in Ledger /\ paidItems \in Ledger /\ paymentBatches \in Nat
    /\ orderItems \in Ledger /\ riderRemoved \in Ledger
    /\ riderCheckedItems \in Ledger
    /\ inventoryRemovedItems \in Ledger /\ cooling \subseteq Items
    /\ posSessionItems \in Ledger /\ posReportedItems \in Ledger
    /\ committed \in BOOLEAN

LEMMA LedgersStep == Ledgers /\ [Next]_vars => Ledgers'
<1> SUFFICES ASSUME Ledgers, [Next]_vars PROVE Ledgers'
  OBVIOUS
<1> USE LedgerFacts DEF Ledgers, customerVars, riderVars, pickVars, posVars, outputVars
<1>1. ASSUME NEW order \in Orders, SetOrder(order) PROVE Ledgers'
  BY <1>1, OrdersAssumption DEF SetOrder, Modes, Results, Ledger, Items
<1>2. ASSUME NEW m \in {"CUSTOMER", "RIDER"}, SelectMode(m) PROVE Ledgers'
  BY <1>2 DEF SelectMode, Modes, Results
<1>3. ASSUME RollbackAndReset, result' \in Results PROVE Ledgers'
  BY <1>3 DEF RollbackAndReset, Rollback, ResetPos
<1>4. CASE PosSessionStart
  BY <1>3, <1>4 DEF PosSessionStart
<1>5. CASE PosReset
  BY <1>3, <1>5 DEF PosReset, Results
<1>6. CASE PosBoot
  BY <1>6 DEF PosBoot, ResetPos, Results
<1>7. ASSUME NEW i \in Items, Pay(i) PROVE Ledgers'
  BY <1>7 DEF Pay, Results
<1>8. ASSUME NEW counts \in Reports, PosCount(counts) PROVE Ledgers'
  BY <1>8, ReportsAssumption DEF PosCount, Ledger, Items
<1>9. ASSUME NEW force, Commit(force)
      PROVE  committed' \in BOOLEAN /\ paymentBatches' \in Nat /\ result' \in Results
  BY <1>9 DEF Commit, Verify, Verdict, Results
<1>10. CASE PayDone
  BY <1>9, <1>10 DEF PayDone
<1>11. ASSUME NEW m \in {mode, "CUSTOMER", "RIDER"}, NEW summary \in Reports,
              PosDoneSummary(m, summary)
       PROVE  Ledgers'
  <2>1. summary \in Ledger
    BY ReportsAssumption DEF Ledger, Items
  <2>2. PICK force : Commit(force)
    BY <1>11 DEF PosDoneSummary
  <2> QED
    BY <1>9, <1>11, <2>1, <2>2 DEF PosDoneSummary, Reconcile, Modes
<1>12. ASSUME NEW i \in Items, NEW q \in Quantities, RemoveCandidate(i, q)
       PROVE  Ledgers'
  <2>1. q \in Nat
    BY QuantitiesAssumption
  <2>2. ASSUME RiderPick(i) PROVE result' \in Results
    BY <2>2 DEF RiderPick, Results
  <2> QED
    BY <1>12, <2>1, <2>2 DEF RemoveCandidate
<1>13. ASSUME NEW i \in Items, CooldownOver(i) PROVE Ledgers'
  BY <1>13 DEF CooldownOver
<1>14. CASE SystemReset
  BY <1>14 DEF SystemReset, ResetPos, Modes, Results
<1>15. CASE UNCHANGED vars
  BY <1>15 DEF vars
<1> QED
  BY <1>1, <1>2, <1>4, <1>5, <1>6, <1>7, <1>8, <1>10, <1>11, <1>12, <1>13,
     <1>14, <1>15 DEF Next, AnyEvent

(* A command points the servo at a product, or sends it home. *)
Places == Items \union {Home}

LEMMA ServoStep == Ledgers /\ [Next]_vars => UNCHANGED servo \/ servo' \in Places
<1> SUFFICES ASSUME Ledgers, [Next]_vars PROVE UNCHANGED servo \/ servo' \in Places
  OBVIOUS
<1> USE DEF Places, Show, ShowAndPoint, outputVars
<1>1. ASSUME NEW order \in Orders, SetOrder(order) PROVE UNCHANGED servo \/ servo' \in Places
  BY <1>1, OrdersAssumption, NonEmptyOrderMisses DEF SetOrder, Ledger, Items
<1>2. ASSUME NEW m, SelectMode(m) PROVE UNCHANGED servo
  BY <1>2 DEF SelectMode
<1>3. CASE PosSessionStart \/ PosReset \/ PosBoot
  BY <1>3 DEF PosSessionStart, PosReset, RollbackAndReset, PosBoot
<1>4. ASSUME NEW i \in Items, Pay(i) PROVE UNCHANGED servo
  BY <1>4 DEF Pay
<1>5. ASSUME NEW counts, PosCount(counts) PROVE UNCHANGED servo
  BY <1>5 DEF PosCount
<1>6. ASSUME NEW force, Commit(force) PROVE UNCHANGED servo \/ servo' \in Places
  BY <1>6 DEF Commit, Verify
<1>7. ASSUME NEW i \in Items, NEW q, RemoveCandidate(i, q)
      PROVE  UNCHANGED servo \/ servo' \in Places
  <2>1. RiderPick(i) => UNCHANGED servo \/ servo' \in Places
    BY FirstMissingIsMissing DEF RiderPick, Missing
  <2> QED
    BY <1>7, <2>1 DEF RemoveCandidate
<1>8. ASSUME NEW i, CooldownOver(i) PROVE UNCHANGED servo
  BY <1>8 DEF CooldownOver
<1>9. CASE SystemReset \/ UNCHANGED vars
  BY <1>9 DEF SystemReset, vars
<1> QED
  BY <1>1, <1>2, <1>3, <1>4, <1>5, <1>6, <1>7, <1>8, <1>9
     DEF Next, AnyEvent, PayDone, PosDoneSummary

-----------------------------------------------------------------------------
(* The rider display.  A match alone is not stable: a rollback takes an    *)
(* open session's scans out of riderCheckedItems without touching the      *)
(* light.  A settled match has nothing to take back.                       *)

Match == ThreeWayMatch /\ (mode = "RIDER" => committed \/ posSessionItems = Zero)

(* Every event leaves a settled match alone, or replaces the light: by     *)
(* green over a new settled match only.                                    *)
LightKept ==
    \/ led' = "GREEN" /\ Match'
    \/ led' \in {"RED", "BLUE", "OFF"}
    \/ UNCHANGED led /\ (Match => Match')

(* PICKUP_COMPLETE appears with the green light, and stays with it.        *)
ResultKept ==
    result' = "PICKUP_COMPLETE" =>
        \/ led' = "GREEN" /\ mode' = "RIDER" /\ Match'
        \/ /\ result = "PICKUP_COMPLETE"
           /\ Match /\ mode = "RIDER" => UNCHANGED <<led, mode>> /\ Match'

(* Taking nothing back leaves a ledger as it is. *)
LEMMA TakeBackNothing ==
    ASSUME NEW ledger \in Ledger, posSessionItems = Zero
    PROVE  TakeBack(ledger) = ledger
<1>1. \A i \in Items : NonNegative(ledger[i] - posSessionItems[i]) = ledger[i]
  BY DEF Ledger, Zero, NonNegative
<1> QED
  BY <1>1 DEF TakeBack, Ledger

(* A summary equal to the session corrects nothing. *)
LEMMA CorrectNothing ==
    ASSUME NEW ledger \in Ledger, posSessionItems \in Ledger
    PROVE  Corrected(ledger, posSessionItems) = ledger
<1>1. \A i \in Items :
        NonNegative(ledger[i] + posSessionItems[i] - posSessionItems[i]) = ledger[i]
  BY DEF Ledger, NonNegative
<1> QED
  BY <1>1 DEF Corrected, Ledger

(* The ledgers of a match are not touched. *)
LEMMA SameMatch ==
    ASSUME UNCHANGED <<orderItems, riderRemoved, riderCheckedItems>>
    PROVE  ThreeWayMatch' <=> ThreeWayMatch
  BY DEF ThreeWayMatch, Zero, Items

(* A session boundary never disturbs a settled match. *)
LEMMA BoundaryKeeps ==
    ASSUME Ledgers, RollbackAndReset, result' \in {result, "POS_SESSION_RESET"}
    PROVE  LightKept /\ ResultKept
<1>1. UNCHANGED <<mode, led, orderItems, riderRemoved>> /\ posSessionItems' = Zero'
  BY DEF RollbackAndReset, ResetPos, outputVars, Zero, Items
<1>2. Match => UNCHANGED riderCheckedItems
  BY TakeBackNothing DEF RollbackAndReset, Rollback, Match, Ledgers
<1>3. Match => Match'
  BY <1>1, <1>2, SameMatch DEF Match
<1> QED
  BY <1>1, <1>3 DEF LightKept, ResultKept

(* A scan after a match always turns the light red. *)
LEMMA PayKeeps ==
    ASSUME Ledgers, NEW i \in Items, Pay(i)
    PROVE  LightKept /\ ResultKept
<1>1. UNCHANGED <<mode, orderItems, riderRemoved>>
  BY DEF Pay
<1>2. CASE mode # "RIDER"
  <2>1. UNCHANGED <<riderCheckedItems, led, result>>
    BY <1>2 DEF Pay, outputVars
  <2> QED
    BY <1>1, <1>2, <2>1, SameMatch DEF LightKept, ResultKept, Match
<1>3. CASE mode = "RIDER"
  <2>1. result' \in {"RIDER_POS_WRONG_ITEM", "RIDER_POS_CHECKING"}
    BY <1>3 DEF Pay
  <2>2. led' = "RED" \/ (UNCHANGED led /\ riderCheckedItems'[i] <= orderItems[i])
    BY <1>3 DEF Pay, Show, outputVars
  <2>3. riderCheckedItems'[i] = riderCheckedItems[i] + 1
    BY <1>3 DEF Pay, Add, Ledgers, Ledger
  <2>4. Match => ~(riderCheckedItems'[i] <= orderItems[i])
    BY <2>3 DEF Match, ThreeWayMatch, Ledgers, Ledger
  <2> QED
    BY <2>1, <2>2, <2>4 DEF LightKept, ResultKept
<1> QED
  BY <1>2, <1>3

(* _verify() turns the light green on a match only. *)
LEMMA VerifyMatches ==
    ASSUME Verify, UNCHANGED <<orderItems, riderRemoved>>
    PROVE  \/ led' = "GREEN" /\ ThreeWayMatch'
           \/ led' = "RED" /\ result' # "PICKUP_COMPLETE"
  BY Zenon DEF Verify, Verdict, Show, ShowAndPoint, ThreeWayMatch, Zero, Items

(* Completing a session verifies, unless it changes nothing. *)
LEMMA CommitKeeps ==
    ASSUME Ledgers, NEW force, Commit(force),
           UNCHANGED <<orderItems, riderRemoved>>,
           mode' # mode => mode' \in {"CUSTOMER", "RIDER"},
           mode' # "RIDER" => UNCHANGED riderCheckedItems,
           ~force => UNCHANGED riderCheckedItems
    PROVE  LightKept /\ ResultKept
<1>1. committed'
  BY DEF Commit
<1>2. CASE Verify /\ mode' = "RIDER"
  BY <1>1, <1>2, VerifyMatches DEF LightKept, ResultKept, Match
<1>3. CASE /\ UNCHANGED outputVars /\ UNCHANGED riderCheckedItems
           /\ result' = "PICKUP_COMPLETE" =>
                  result = "PICKUP_COMPLETE" /\ (mode' = mode \/ mode' = "RIDER")
  <2>1. Match => Match'
    BY <1>1, <1>3, SameMatch DEF Match
  <2> QED
    BY <1>3, <2>1 DEF LightKept, ResultKept, outputVars
<1>4. CASE mode' = "CUSTOMER"
  BY <1>3, <1>4 DEF Commit
<1>5. CASE mode' = "IDLE"
  BY <1>3, <1>5 DEF Commit
<1>6. CASE mode' = "RIDER"
  BY <1>2, <1>3, <1>6 DEF Commit
<1> QED
  BY <1>4, <1>5, <1>6 DEF Ledgers, Modes

(* A pick after a match always turns the light red. *)
LEMMA RemoveKeeps ==
    ASSUME Ledgers, NEW i \in Items, NEW q \in Quantities, RemoveCandidate(i, q)
    PROVE  LightKept /\ ResultKept
<1>1. UNCHANGED <<mode, orderItems, riderCheckedItems, posSessionItems, committed>>
  BY DEF RemoveCandidate, posVars
<1>2. CASE mode # "RIDER"
  <2>1. UNCHANGED <<riderRemoved, led, result>>
    BY <1>2 DEF RemoveCandidate, outputVars
  <2> QED
    BY <1>1, <2>1, SameMatch DEF LightKept, ResultKept, Match, Zero, Items
<1>3. CASE mode = "RIDER"
  <2>1. RiderPick(i) /\ riderRemoved' = Add(riderRemoved, i, q)
    BY <1>3 DEF RemoveCandidate
  <2>2. led' \in {"RED", "BLUE"}
    BY <2>1 DEF RiderPick, Show, ShowAndPoint
  <2>3. CASE ThreeWayMatch
    <3>1. riderRemoved'[i] = orderItems[i] + q
      BY <2>1, <2>3 DEF Add, ThreeWayMatch, Ledgers, Ledger
    <3>2. ~(riderRemoved'[i] <= orderItems[i]) /\ riderRemoved' # orderItems
      BY <3>1, QuantitiesAssumption DEF Ledgers, Ledger
    <3>3. result' = "WRONG_PICKUP"
      BY <2>1, <3>2, Zenon DEF RiderPick
    <3> QED
      BY <2>2, <3>3 DEF LightKept, ResultKept
  <2>4. CASE ~ThreeWayMatch
    <3>1. result' \in {"WRONG_PICKUP", "RIDER_COLLECTED_WAIT_POS", result}
      BY <2>1 DEF RiderPick
    <3> QED
      BY <2>2, <2>4, <3>1 DEF LightKept, ResultKept, Match
  <2> QED
    BY <2>3, <2>4
<1> QED
  BY <1>2, <1>3

LEMMA DisplayStep == Ledgers /\ [Next]_vars => LightKept /\ ResultKept
<1> SUFFICES ASSUME Ledgers, [Next]_vars PROVE LightKept /\ ResultKept
  OBVIOUS
<1>1. ASSUME UNCHANGED <<led, result, mode, orderItems, riderRemoved,
                         riderCheckedItems, posSessionItems, committed>>
      PROVE  LightKept /\ ResultKept
  BY <1>1, SameMatch DEF LightKept, ResultKept, Match, Zero, Items
<1>2. ASSUME led' \in {"RED", "BLUE", "OFF"}, result' # "PICKUP_COMPLETE"
      PROVE  LightKept /\ ResultKept
  BY <1>2 DEF LightKept, ResultKept
<1>3. ASSUME NEW order \in Orders, SetOrder(order) PROVE LightKept /\ ResultKept
  BY <1>2, <1>3 DEF SetOrder, Show, ShowAndPoint
<1>4. ASSUME NEW m \in {"CUSTOMER", "RIDER"}, SelectMode(m) PROVE LightKept /\ ResultKept
  <2>1. CASE m = "RIDER"
    BY <1>2, <1>4, <2>1 DEF SelectMode, Show
  <2>2. CASE m = "CUSTOMER"
    BY <1>4, <2>2, SameMatch
       DEF SelectMode, outputVars, riderVars, LightKept, ResultKept, Match
  <2> QED
    BY <2>1, <2>2
<1>5. CASE PosSessionStart
  BY <1>5, BoundaryKeeps DEF PosSessionStart
<1>6. CASE PosReset
  BY <1>6, BoundaryKeeps DEF PosReset
<1>7. CASE PosBoot
  <2>1. /\ UNCHANGED <<led, orderItems, riderRemoved, riderCheckedItems>>
        /\ posSessionItems' = Zero' /\ result' = "POS_BOOTED"
    BY <1>7 DEF PosBoot, ResetPos, outputVars, riderVars, Zero, Items
  <2> QED
    BY <2>1, SameMatch DEF LightKept, ResultKept, Match
<1>8. ASSUME NEW i \in Items, Pay(i) PROVE LightKept /\ ResultKept
  BY <1>8, PayKeeps
<1>9. ASSUME NEW counts \in Reports, PosCount(counts) PROVE LightKept /\ ResultKept
  BY <1>1, <1>9 DEF PosCount, outputVars, riderVars
<1>10. CASE PayDone
  BY <1>10, CommitKeeps DEF PayDone, riderVars
<1>11. ASSUME NEW m \in {mode, "CUSTOMER", "RIDER"}, NEW summary \in Reports,
              PosDoneSummary(m, summary)
       PROVE  LightKept /\ ResultKept
  <2>1. summary = posSessionItems => UNCHANGED riderCheckedItems
    BY <1>11, CorrectNothing DEF PosDoneSummary, Reconcile, Ledgers
  <2>2. mode' # "RIDER" => UNCHANGED riderCheckedItems
    BY <1>11 DEF PosDoneSummary, Reconcile
  <2>3. mode' # mode => mode' \in {"CUSTOMER", "RIDER"}
    BY <1>11 DEF PosDoneSummary
  <2>4. Commit(summary # posSessionItems) /\ UNCHANGED <<orderItems, riderRemoved>>
    BY <1>11 DEF PosDoneSummary
  <2> QED
    BY <2>1, <2>2, <2>3, <2>4, CommitKeeps
<1>12. ASSUME NEW i \in Items, NEW q \in Quantities, RemoveCandidate(i, q)
       PROVE  LightKept /\ ResultKept
  BY <1>12, RemoveKeeps
<1>13. ASSUME NEW i \in Items, CooldownOver(i) PROVE LightKept /\ ResultKept
  BY <1>1, <1>13 DEF CooldownOver, outputVars, riderVars, posVars
<1>14. CASE SystemReset
  BY <1>2, <1>14 DEF SystemReset
<1>15. CASE UNCHANGED vars
  BY <1>1, <1>15 DEF vars, outputVars, riderVars, posVars
<1> QED
  BY <1>3, <1>4, <1>5, <1>6, <1>7, <1>8, <1>9, <1>10, <1>11, <1>12, <1>13,
     <1>14, <1>15 DEF Next, AnyEvent

-----------------------------------------------------------------------------
(* The theorems on types and on the display. *)

LEMMA TypeInit == Init => TypeOK
<1> SUFFICES ASSUME Init PROVE TypeOK
  OBVIOUS
<1>1. Zero \in Ledger
  BY LedgerFacts
<1>2. mode \in Modes /\ result \in Results /\ committed \in BOOLEAN
  BY DEF Init, Modes, Results
<1>3. cooling \subseteq Items /\ paymentBatches \in Nat
  BY DEF Init
<1>4. led \in {"OFF", "BLUE", "RED", "GREEN"} /\ servo \in Items \union {Home}
  BY DEF Init
<1> QED
  BY <1>1, <1>2, <1>3, <1>4 DEF Init, TypeOK

LEMMA TypeStep == TypeOK /\ [Next]_vars => TypeOK'
<1> SUFFICES ASSUME TypeOK, [Next]_vars PROVE TypeOK'
  OBVIOUS
<1>1. Ledgers /\ Ledgers'
  BY LedgersStep DEF TypeOK, Ledgers
<1>2. servo' \in Items \union {Home}
  BY <1>1, ServoStep DEF TypeOK, Places, Items, Home
<1>3. led' \in {"OFF", "BLUE", "RED", "GREEN"}
  BY <1>1, DisplayStep DEF TypeOK, LightKept
<1> QED
  BY <1>1, <1>2, <1>3 DEF TypeOK, Ledgers

(* Every variable keeps the type FusionState declares for it. *)
THEOREM TypeCorrect == Spec => []TypeOK
  BY TypeInit, TypeStep, PTL DEF Spec

(* The light and the result show a settled match, and agree. *)
Safe ==
    /\ TypeOK
    /\ led = "GREEN" => Match
    /\ result = "PICKUP_COMPLETE" => Match /\ mode = "RIDER" /\ led = "GREEN"

LEMMA SafeInit == Init => Safe
  BY TypeInit DEF Init, Safe

LEMMA SafeStep == Safe /\ [Next]_vars => Safe'
<1> SUFFICES ASSUME Safe, [Next]_vars PROVE Safe'
  OBVIOUS
<1>1. TypeOK' /\ LightKept /\ ResultKept
  BY TypeStep, DisplayStep DEF Safe, TypeOK, Ledgers
<1> QED
  BY <1>1 DEF Safe, LightKept, ResultKept

LEMMA SafeMeans == Safe => GreenMeansMatch /\ CompleteMeansMatch /\ GreenSessionSettled
  BY DEF Safe, Match, GreenMeansMatch, CompleteMeansMatch, GreenSessionSettled

LEMMA SafeAlways == Spec => []Safe
  BY SafeInit, SafeStep, PTL DEF Spec

(* Green is shown only over a three-way match, for every number of         *)
(* products, every order and every sequence of events.                     *)
THEOREM GreenOnlyOnMatch == Spec => []GreenMeansMatch
  BY SafeAlways, SafeMeans, PTL

(* PICKUP_COMPLETE is shown only over a three-way match with the light on. *)
THEOREM CompleteOnlyOnMatch == Spec => []CompleteMeansMatch
  BY SafeAlways, SafeMeans, PTL

(* No rider session is open over a green light. *)
THEOREM GreenSessionIsSettled == Spec => []GreenSessionSettled
  BY SafeAlways, SafeMeans, PTL

-----------------------------------------------------------------------------
(* The inventory. *)

LEMMA InventoryInit == Init => InventoryCoversPicks
  BY DEF Init, InventoryCoversPicks, Zero

LEMMA InventoryStep ==
    TypeOK /\ InventoryCoversPicks /\ [Next]_vars => InventoryCoversPicks'
<1> SUFFICES ASSUME TypeOK, InventoryCoversPicks, [Next]_vars
             PROVE  InventoryCoversPicks'
  OBVIOUS
<1> USE DEF InventoryCoversPicks, Items
<1>1. ASSUME UNCHANGED <<removedItems, riderRemoved, inventoryRemovedItems>>
      PROVE  InventoryCoversPicks'
  BY <1>1
<1>2. ASSUME NEW order \in Orders, SetOrder(order) PROVE InventoryCoversPicks'
  BY <1>2 DEF SetOrder, customerVars, pickVars, TypeOK, Ledger, Zero
<1>3. ASSUME NEW i \in Items, NEW q \in Quantities, RemoveCandidate(i, q)
      PROVE  InventoryCoversPicks'
  <2>1. q \in Nat
    BY QuantitiesAssumption
  <2>2. inventoryRemovedItems' = Add(inventoryRemovedItems, i, q)
    BY <1>3 DEF RemoveCandidate
  <2>3. CASE mode = "RIDER"
    <3>1. riderRemoved' = Add(riderRemoved, i, q) /\ UNCHANGED removedItems
      BY <1>3, <2>3 DEF RemoveCandidate
    <3> QED
      BY <2>1, <2>2, <3>1 DEF Add, TypeOK, Ledger
  <2>4. CASE mode # "RIDER"
    <3>1. removedItems' = Add(removedItems, i, q) /\ UNCHANGED riderRemoved
      BY <1>3, <2>4 DEF RemoveCandidate
    <3> QED
      BY <2>1, <2>2, <3>1 DEF Add, TypeOK, Ledger
  <2> QED
    BY <2>3, <2>4
<1>4. CASE SystemReset
  BY <1>4 DEF SystemReset, Zero
<1>5. ASSUME NEW m \in {"CUSTOMER", "RIDER"}, SelectMode(m)
      PROVE  InventoryCoversPicks'
  BY <1>1, <1>5 DEF SelectMode, customerVars, riderVars, pickVars
<1>6. CASE PosSessionStart \/ PosReset \/ PosBoot
  BY <1>1, <1>6 DEF PosSessionStart, PosReset, RollbackAndReset, PosBoot,
                    customerVars, riderVars, pickVars
<1>7. ASSUME NEW i \in Items, Pay(i) PROVE InventoryCoversPicks'
  BY <1>1, <1>7 DEF Pay, pickVars
<1>8. ASSUME NEW counts \in Reports, PosCount(counts) PROVE InventoryCoversPicks'
  BY <1>1, <1>8 DEF PosCount, customerVars, riderVars, pickVars
<1>9. CASE PayDone
  BY <1>1, <1>9 DEF PayDone, riderVars, pickVars
<1>10. ASSUME NEW m \in {mode, "CUSTOMER", "RIDER"}, NEW summary \in Reports,
              PosDoneSummary(m, summary)
       PROVE  InventoryCoversPicks'
  BY <1>1, <1>10 DEF PosDoneSummary, pickVars
<1>11. ASSUME NEW i \in Items, CooldownOver(i) PROVE InventoryCoversPicks'
  BY <1>1, <1>11 DEF CooldownOver, customerVars, riderVars
<1>12. CASE UNCHANGED vars
  BY <1>1, <1>12 DEF vars, customerVars, riderVars, pickVars
<1> QED
  BY <1>2, <1>3, <1>4, <1>5, <1>6, <1>7, <1>8, <1>9, <1>10, <1>11, <1>12 DEF Next, AnyEvent

(* The inventory counts at least the picks the two ledgers count. *)
THEOREM InventoryCovers == Spec => []InventoryCoversPicks
<1>1. Spec => []TypeOK
  BY TypeCorrect
<1> QED
  BY <1>1, InventoryInit, InventoryStep, PTL DEF Spec
=============================================================================
